------------------------------ MODULE MCSands ------------------------------
(* Inputs for model checking the broker. *)
EXTENDS Sands

CONSTANTS f1, f2, f3, c1, c2, c3, t1, t2

Req(cd, tp, wt, ct) ==
  [id |-> "cn", cd |-> cd, vv |-> "v0.1", pw |-> "good", kp |-> 5, tp |-> tp,
   parts |-> "full", wt |-> wt, ct |-> ct]
Pub(t) == [id |-> "pb", tp |-> t]
Plain(id) == [id |-> id]

\* Clients as sandc builds them: a complete, authorised connect command with
\* well-formed topics.  Wills and subscriptions form a cycle.
GoodConnects ==
  {Req(c1, {t1}, t2, NoTopic), Req(c2, {t2}, t1, t1), Req(c3, {t1, t2}, t2, NoTopic)}

\* Requests the broker refuses.
RefusedConnects ==
  {[Req(c1, {t1}, t2, NoTopic) EXCEPT !.vv = "v0.0"],
   [Req(c2, {t2}, t1, NoTopic) EXCEPT !.pw = "bad"],
   [Req(c2, {t1}, NoTopic, NoTopic) EXCEPT !.kp = 0]}

\* A topic list with an empty part, and a request without client id.
MalformedConnects == {[Req(c1, {t1}, NoTopic, NoTopic) EXCEPT !.parts = "empty"]}
NamelessConnects  == {Req(NoId, {t1}, NoTopic, NoTopic)}

WellBehaved == GoodConnects \union RefusedConnects
AnyConnects == GoodConnects \union RefusedConnects \union MalformedConnects \union NamelessConnects

Followers ==
  {<<Pub(t)>> : t \in {t1, t2, NoTopic}} \union {<<Plain(id)>> : id \in {"pi", "dc", "unknown"}}
  \union {<<Pub(t1), Plain("dc")>>, <<Pub(t2), Pub(t1)>>}

\* A connect command alone and with a publish in the same read.
Openers(C) == {<<c>> : c \in C} \union {<<c, Pub(t1)>> : c \in C}

WellBehavedBatches == Openers(WellBehaved) \union Followers
PartialBatches == WellBehavedBatches \union {<<>>}
AnyBatches == Openers(AnyConnects) \union Followers \union {<<>>}
  \union {<<Pub(t1), Plain("pi")>>, <<Pub(t1), Req(c1, {t1}, t2, NoTopic)>>}
=============================================================================
