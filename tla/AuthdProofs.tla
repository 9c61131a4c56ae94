----------------------------- MODULE AuthdProofs -----------------------------
(***************************************************************************)
(* Proofs about Authd: a terminal that has to log in does not pass without  *)
(* a row, and online_cache agrees with memo.online, for any terminals and   *)
(* any number of requests, statements under way and exits of authd.         *)
(*                                                                         *)
(* Every step is of one of five kinds (Kinds): one that leaves coroutines   *)
(* and statements alone, one of a coroutine that waits for no statement,    *)
(* one of the coroutine whose answer is next, the execution of a statement, *)
(* and a restart.  Each part of the inductive invariant is proved for the   *)
(* kinds instead of the actions.                                            *)
(***************************************************************************)
EXTENDS Authd, WellFoundedInduction, TLAPS

-----------------------------------------------------------------------------
(* The inductive invariant *)

\* Each entry of wechat_wait_map and each deadline stems from a request.
WaitInv == \A u \in Ukeys : wechat_wait[u] <= requests /\ deadlines[u] <= requests

\* The coroutines that wait for an answer are those with a statement under way,
\* each with one.
NotWaiting == {"idle", "reply", "force"}
Done(t) == \E k \in 1..executed : rpc[k] = t
RpcInv ==
  /\ \A j, k \in 1..Len(rpc) : rpc[j] = rpc[k] => j = k
  /\ \A t \in Threads : (\E k \in 1..Len(rpc) : rpc[k] = t) <=> thread[t].at \notin NotWaiting

\* A terminal that passes has its row, or is about to get it, or is about to be
\* put offline.
RowInv ==
  ~restarted => \A u \in Ukeys :
    Type[u] # "auto" /\ kernel[u] = "AUTH_OK" =>
      \/ u \in Online
      \/ \E t \in Threads : /\ u \in thread[t].us
                            /\ \/ thread[t].at \in {"reply", "clear"}
                               \/ thread[t].at = "insert" /\ ~Done(t)
                               \/ thread[t].at = "delete" /\ Done(t)

\* What a statement, once executed, makes of u in the cache when its coroutine goes on.
Touches(t, u) == thread[t].at \in Loads \/ (thread[t].at \in {"insert", "delete"} /\ u \in thread[t].us)
Leaves(t, u) ==
  \/ thread[t].at = "insert"
  \/ thread[t].at \in Loads /\ u \in thread[t].rs
  \/ thread[t].at = "set" /\ u \in thread[t].us

\* The batch of auto rules has u and will insert it.
Announced(u) ==
  LET alive == thread["auto_alive"] IN
    \/ u \in batch["auto_alive"].cache
    \/ alive.at = "online" /\ u \in alive.us \ alive.rs
    \/ alive.at = "update" /\ u \in alive.head
    \/ alive.at = "insert" /\ u \in alive.us /\ ~Done("auto_alive")

\* While the cache is being loaded no row goes, but for the crossed terminals.
LoadInv ==
  /\ Crossing \subseteq crossed
  /\ Loading => \A u \in Ukeys \ crossed :
       /\ \A t \in Threads :
            \/ thread[t].at \in Loads /\ u \in thread[t].rs
            \/ thread[t].at = "set" /\ u \in thread[t].us
            \/ thread[t].at = "insert" /\ Done(t) /\ u \in thread[t].us
            => u \in Online
       /\ Loaded /\ u \in cache[1] => u \in Online \/ Announced(u)

\* The last executed statement that touches u leaves it in the cache as it is in
\* the table; when none does, the cache has it already.
CacheInv ==
  \A u \in Ukeys \ crossed :
    /\ \A k \in 1..executed :
         Touches(rpc[k], u) /\ (\A j \in (k + 1)..executed : ~Touches(rpc[j], u))
           => (Leaves(rpc[k], u) <=> u \in Online)
    /\ Loaded /\ (\A k \in 1..executed : ~Touches(rpc[k], u))
         => \/ u \in cache[1] <=> u \in Online
            \/ u \in cache[1] /\ Announced(u)

USE AuthdAssumption

Rec == [at: Ats, us: SUBSET Ukeys, rs: SUBSET Ukeys, next: {"idle", "stale"}, head: SUBSET Ukeys]

-----------------------------------------------------------------------------
(* The kinds of steps *)

\* What a step of coroutine t, which becomes x, does to the statements under way:
\* q are the ones before t sends its next.
Queues(q, t, x) ==
  /\ thread' = [thread EXCEPT ![t] = x]
  /\ \/ x.at \in NotWaiting /\ rpc' = q
     \/ x.at \notin NotWaiting /\ rpc' = Append(q, t)

\* A terminal passes after the step only if it did before and t was not about to
\* see to it, or if t is now.
Passing(t, x) ==
  \A u \in Ukeys : Type[u] # "auto" /\ kernel'[u] = "AUTH_OK" =>
    \/ kernel[u] = "AUTH_OK" /\ ~(u \in thread[t].us /\ thread[t].at \in {"reply", "clear", "delete"})
    \/ u \in x.us /\ x.at \in {"reply", "clear", "insert"}

Grows == batch["auto_alive"].cache \subseteq batch["auto_alive"].cache'

Quiet ==
  /\ UNCHANGED <<cache, thread, rpc, executed, restarted>> /\ Online' = Online /\ Grows
  /\ \A u \in Ukeys : Type[u] # "auto" /\ kernel'[u] = "AUTH_OK" => kernel[u] = "AUTH_OK"

Hears(S) ==
  \/ cache' = <<S>>
  \/ \E u \in Ukeys : cache' = <<S \union {u}>> /\ (u \in S \/ u \in batch["auto_alive"].cache')

Begin(t, x) ==
  /\ t \in Threads /\ x \in Rec /\ thread[t].at \in NotWaiting
  /\ (x.at # "reply" => x.rs = {})
  /\ Queues(rpc, t, x) /\ executed' = executed /\ rows' = rows /\ restarted' = restarted
  /\ Passing(t, x)
  /\ (x.at \in Loads => x.at = "get_module" /\ ~Loaded)
  /\ (cache' = cache \/ (Loaded /\ Hears(cache[1])))
  /\ (Grows \/ (t = "auto_alive" /\ x.at = "online" /\ x.us = batch[t].cache))

\* What the coroutine of an answer makes of the cache.
Cached(t, x) ==
  \/ thread[t].at \notin Loads \union {"insert", "delete"} /\ cache' = cache /\ x.at \notin Loads
  \/ /\ thread[t].at = "insert" /\ Loaded
     /\ cache' = <<cache[1] \union thread[t].us>> /\ x.at \notin Loads
  \/ thread[t].at = "insert" /\ ~Loaded /\ cache' = cache /\ x.at = "set" /\ x.us = thread[t].us
  \/ thread[t].at = "delete" /\ thread[t].us = {} /\ cache' = cache /\ x.at \notin Loads
  \/ thread[t].at = "delete" /\ Loaded /\ cache' = <<cache[1] \ thread[t].us>> /\ x.at \notin Loads
  \/ thread[t].at = "delete" /\ ~Loaded /\ cache' = cache /\ x.at = "clear"
  \/ thread[t].at = "set" /\ cache' = <<thread[t].rs \union thread[t].us>> /\ x.at \notin Loads
  \/ /\ thread[t].at = "clear" /\ x.at \notin Loads
     /\ cache' = <<thread[t].rs \ (thread[t].us \union thread[t].head)>>
  \/ thread[t].at = "get_module" /\ Hears(thread[t].rs) /\ x.at \notin Loads

\* The terminals the batch of auto rules will insert stay in its hands.
Carries(t, x) ==
  t = "auto_alive" =>
    /\ thread[t].at = "online" =>
         \A u \in thread[t].us \ thread[t].rs :
           (x.at = "update" /\ u \in x.head) \/ (x.at = "insert" /\ u \in x.us)
    /\ thread[t].at = "update" => \A u \in thread[t].head : x.at = "insert" /\ u \in x.us

Resume(t, x) ==
  /\ t \in Threads /\ x \in Rec /\ x.rs = {} /\ executed > 0 /\ Head(rpc) = t
  /\ Queues(Tail(rpc), t, x) /\ executed' = executed - 1
  /\ rows' = rows /\ restarted' = restarted
  /\ Passing(t, x) /\ Cached(t, x) /\ Carries(t, x) /\ Grows

Restart ==
  /\ restarted' /\ cache' = <<>> /\ rpc' = <<>> /\ executed' = 0
  /\ thread' = [t \in Threads |-> Idle]

-----------------------------------------------------------------------------
(* The statements under way *)

Distinct(q) == \A j, k \in 1..Len(q) : q[j] = q[k] => j = k
Holds(q, t) == \E k \in 1..Len(q) : q[k] = t
Among(q, n, t) == \E k \in 1..n : q[k] = t

\* A statement sent joins the end: those under way keep their places.
LEMMA SentLast ==
  ASSUME NEW q \in Seq(Threads), NEW t \in Threads, Distinct(q), ~Holds(q, t)
  PROVE  /\ Append(q, t) \in Seq(Threads) /\ Distinct(Append(q, t))
         /\ Len(Append(q, t)) = Len(q) + 1
         /\ \A s \in Threads : Holds(Append(q, t), s) <=> (s = t \/ Holds(q, s))
         /\ \A n \in 0..Len(q) : \A s \in Threads : Among(Append(q, t), n, s) <=> Among(q, n, s)
         /\ \A n \in 0..Len(q) : ~Among(Append(q, t), n, t)
         /\ \A k \in 1..Len(q) : Append(q, t)[k] = q[k]
<1> DEFINE r == Append(q, t)
<1>1. r \in Seq(Threads) /\ Len(r) = Len(q) + 1 /\ Len(q) \in Nat
  OBVIOUS
<1>2. \A k \in 1..Len(q) : r[k] = q[k]
  OBVIOUS
<1>3. r[Len(q) + 1] = t
  OBVIOUS
<1> HIDE DEF r
<1>4. Distinct(r)
  <2> SUFFICES ASSUME NEW j \in 1..Len(r), NEW k \in 1..Len(r), r[j] = r[k] PROVE j = k
    BY DEF Distinct
  <2>1. CASE j \in 1..Len(q) /\ k \in 1..Len(q)
    BY <2>1, <1>2 DEF Distinct
  <2>2. CASE j = Len(q) + 1 /\ k \in 1..Len(q)
    BY <2>2, <1>2, <1>3 DEF Holds
  <2>3. CASE k = Len(q) + 1 /\ j \in 1..Len(q)
    BY <2>3, <1>2, <1>3 DEF Holds
  <2> QED
    BY <1>1, <2>1, <2>2, <2>3
<1>5. \A s \in Threads : Holds(r, s) <=> (s = t \/ Holds(q, s))
  BY <1>1, <1>2, <1>3 DEF Holds
<1>6. \A n \in 0..Len(q) : \A s \in Threads : Among(r, n, s) <=> Among(q, n, s)
  BY <1>1, <1>2 DEF Among
<1>7. \A n \in 0..Len(q) : ~Among(q, n, t)
  BY <1>1 DEF Among, Holds
<1> QED
  BY <1>1, <1>2, <1>4, <1>5, <1>6, <1>7 DEF r

\* The oldest statement leaves: the others move up one place.
LEMMA AnswerTaken ==
  ASSUME NEW q \in Seq(Threads), q # <<>>, Distinct(q)
  PROVE  /\ Tail(q) \in Seq(Threads) /\ Distinct(Tail(q))
         /\ Len(Tail(q)) = Len(q) - 1 /\ Head(q) \in Threads /\ Head(q) = q[1]
         /\ \A s \in Threads : Holds(Tail(q), s) <=> (s # Head(q) /\ Holds(q, s))
         /\ Holds(q, Head(q))
         /\ \A n \in 1..Len(q) : Among(q, n, Head(q)) /\ ~Among(Tail(q), n - 1, Head(q))
         /\ \A n \in 1..Len(q) : \A s \in Threads :
              s # Head(q) => (Among(Tail(q), n - 1, s) <=> Among(q, n, s))
         /\ \A k \in 1..(Len(q) - 1) : Tail(q)[k] = q[k + 1]
<1> DEFINE r == Tail(q)
<1>1. r \in Seq(Threads) /\ Len(r) = Len(q) - 1 /\ Len(q) \in Nat \ {0}
  OBVIOUS
<1>2. \A k \in 1..(Len(q) - 1) : r[k] = q[k + 1]
  OBVIOUS
<1>3. Head(q) = q[1] /\ q[1] \in Threads
  OBVIOUS
<1> HIDE DEF r
<1>4. Distinct(r)
  <2> SUFFICES ASSUME NEW j \in 1..Len(r), NEW k \in 1..Len(r), r[j] = r[k] PROVE j = k
    BY DEF Distinct
  <2>1. q[j + 1] = q[k + 1] /\ j + 1 \in 1..Len(q) /\ k + 1 \in 1..Len(q)
    BY <1>1, <1>2
  <2>2. j + 1 = k + 1
    BY <2>1 DEF Distinct
  <2> QED
    BY <2>2
<1>5. \A n \in 1..Len(q) : \A s \in Threads :
        s # q[1] => (Among(r, n - 1, s) <=> Among(q, n, s))
  <2> SUFFICES ASSUME NEW n \in 1..Len(q), NEW s \in Threads, s # q[1]
               PROVE  Among(r, n - 1, s) <=> Among(q, n, s)
    OBVIOUS
  <2>1. ASSUME NEW k \in 1..(n - 1), r[k] = s PROVE Among(q, n, s)
    <3>1. k + 1 \in 1..n /\ q[k + 1] = s
      BY <2>1, <1>1, <1>2
    <3> QED
      BY <3>1 DEF Among
  <2>2. ASSUME NEW k \in 1..n, q[k] = s PROVE Among(r, n - 1, s)
    <3>1. k # 1
      BY <2>2
    <3>2. k - 1 \in 1..(n - 1) /\ r[k - 1] = q[(k - 1) + 1] /\ (k - 1) + 1 = k
      BY <3>1, <1>1, <1>2
    <3> QED
      BY <3>2, <2>2 DEF Among
  <2> QED
    BY <2>1, <2>2 DEF Among
<1>6. \A n \in 1..Len(q) : Among(q, n, q[1])
  BY <1>1 DEF Among
<1>7. \A n \in 1..Len(q) : ~Among(r, n - 1, q[1])
  <2> SUFFICES ASSUME NEW n \in 1..Len(q), NEW k \in 1..(n - 1), r[k] = q[1] PROVE FALSE
    BY DEF Among
  <2>1. q[k + 1] = q[1] /\ k + 1 \in 1..Len(q) /\ 1 \in 1..Len(q)
    BY <1>1, <1>2
  <2>2. k + 1 = 1
    BY <2>1 DEF Distinct
  <2> QED
    BY <2>2
<1>8. \A s \in Threads : (Holds(q, s) <=> Among(q, Len(q), s)) /\ (Holds(r, s) <=> Among(r, Len(q) - 1, s))
  BY <1>1 DEF Holds, Among
<1>9. Len(q) \in 1..Len(q)
  BY <1>1
<1>10. \A s \in Threads : Holds(r, s) <=> (s # q[1] /\ Holds(q, s))
  BY <1>5, <1>7, <1>8, <1>9
<1>11. Holds(q, q[1])
  BY <1>1 DEF Holds
<1> QED
  BY <1>1, <1>2, <1>3, <1>4, <1>5, <1>6, <1>7, <1>10, <1>11 DEF r

-----------------------------------------------------------------------------
(* Every step is of one of the kinds *)

\* x is a coroutine that waits for a new statement.
Statement(x, at, us, head) ==
  x \in Rec /\ x.at = at /\ x.us = us /\ x.rs = {} /\ x.head = head

\* Sending a statement leaves the coroutine waiting for it.
LEMMA Asks ==
  ASSUME NEW q, NEW t \in Threads, NEW at \in Ats, at \notin NotWaiting, NEW us \in SUBSET Ukeys,
         NEW next \in {"idle", "stale"}, NEW head \in SUBSET Ukeys,
         Ask(q, t, at, us, next, head)
  PROVE  \E x : Statement(x, at, us, head) /\ Queues(q, t, x)
<1> DEFINE x == [at |-> at, us |-> us, rs |-> {}, next |-> next, head |-> head]
<1>1. Statement(x, at, us, head)
  BY DEF Statement, Rec
<1>2. Queues(q, t, x)
  BY DEF Ask, Queues
<1> QED
  BY <1>1, <1>2

\* A coroutine that has finished waits for nothing.
LEMMA Sleeps ==
  ASSUME NEW q, NEW t \in Threads, Sleep(q, t)
  PROVE  Idle \in Rec /\ Idle.rs = {} /\ Idle.at = "idle" /\ Idle.us = {} /\ Queues(q, t, Idle)
BY DEF Sleep, Idle, Rec, Queues, NotWaiting, Ats

\* The fields of a coroutine are typed.
LEMMA RecTyped ==
  ASSUME TypeOK, NEW t \in Threads
  PROVE  /\ thread[t].at \in Ats /\ thread[t].us \in SUBSET Ukeys /\ thread[t].rs \in SUBSET Ukeys
         /\ thread[t].next \in {"idle", "stale"} /\ thread[t].head \in SUBSET Ukeys
         /\ thread[t] \in Rec
BY DEF TypeOK, Rec

\* Names of statements and coroutines.
LEMMA Waiting ==
  /\ {"get_module", "delete", "clear", "all", "user", "insert_user", "online",
      "insert", "set", "update", "expired", "stale"} \subseteq Ats
  /\ \A at \in {"get_module", "delete", "clear", "all", "user", "insert_user", "online",
               "insert", "set", "update", "expired", "stale"} : at \notin NotWaiting
  /\ {"udp", "web_login", "wechat_login", "auto_alive", "web_loop"} \subseteq Threads
  /\ Triggers \subseteq Threads /\ Loops \subseteq Threads
BY DEF Ats, NotWaiting, Threads, Triggers, Loops

\* Steps that leave the coroutines alone.
LEMMA QuietSteps ==
  ASSUME TypeOK, NEW u \in Ukeys
  PROVE  /\ cloudlogin(u) => Quiet
         /\ bypass_host(u) => Quiet
         /\ wxlogin2info(u) => Quiet
         /\ weixin2_login(u) => Quiet
         /\ on_wechat_timeout(u) => Quiet
         /\ on_bypass_timeout(u) => Quiet
         /\ nos_auth_hook(u) => Quiet
         /\ expire(u) => Quiet
<1> USE DEF TypeOK, Quiet, Grows, Online, Triggers, waits, bounds
<1>2. cloudlogin(u) => Quiet
  BY DEF cloudlogin, Request, Starts, Emit
<1>3. bypass_host(u) => Quiet
  BY DEF bypass_host, bypass, Request, Starts
<1>4. wxlogin2info(u) => Quiet
  BY DEF wxlogin2info, bypass, Request, Starts
<1>5. weixin2_login(u) => Quiet
  BY DEF weixin2_login, Starts, Emit
<1>6. on_wechat_timeout(u) => Quiet
  BY DEF on_wechat_timeout
<1>7. on_bypass_timeout(u) => Quiet
  BY DEF on_bypass_timeout, PutOffline, Set
<1>8. nos_auth_hook(u) => Quiet
  BY DEF nos_auth_hook
<1>9. expire(u) => Quiet
  BY DEF expire
<1> QED
  BY <1>2, <1>3, <1>4, <1>5, <1>6, <1>7, <1>8, <1>9

-----------------------------------------------------------------------------
(* Steps of a coroutine that waits for no answer *)

\* A coroutine that was idle sends a statement and nothing else happens.
LEMMA JustAsks ==
  ASSUME NEW t \in Threads, NEW at \in Ats, at \notin NotWaiting, at \notin Loads,
         NEW us \in SUBSET Ukeys,
         Ask(rpc, t, at, us, "idle", {}), thread[t].at = "idle",
         executed' = executed, rows' = rows, restarted' = restarted, kernel' = kernel,
         cache' = cache, batch' = batch
  PROVE  \E x : Begin(t, x)
<1>1. PICK x : Statement(x, at, us, {}) /\ Queues(rpc, t, x)
  BY Asks
<1>2. Passing(t, x)
  BY DEF Passing
<1>3. Begin(t, x)
  BY <1>1, <1>2 DEF Begin, Statement, Grows, NotWaiting
<1> QED
  BY <1>3

\* The batch thread takes its events (batch.lua:14-20).
LEMMA TakeBegins ==
  ASSUME TypeOK, NEW b \in Triggers, take(b)
  PROVE  \E x : Begin(b, x)
<1>1. FirstStatement(b) \in Ats /\ FirstStatement(b) \notin NotWaiting /\ FirstStatement(b) \notin Loads
  BY DEF FirstStatement, Ats, NotWaiting, Loads
<1>2. batch[b].cache \in SUBSET Ukeys /\ b \in Threads
  BY Waiting DEF TypeOK
<1>3. Ask(rpc, b, FirstStatement(b), batch[b].cache, "idle", {})
  BY DEF take
<1>4. PICK x : Statement(x, FirstStatement(b), batch[b].cache, {}) /\ Queues(rpc, b, x)
  BY <1>1, <1>2, <1>3, Asks
<1>5. thread[b].at = "idle" /\ executed' = executed /\ rows' = rows /\ restarted' = restarted
      /\ cache' = cache /\ kernel' = kernel
  BY DEF take, Starts, bounds
<1>6. Grows \/ (b = "auto_alive" /\ FirstStatement(b) = "online")
  BY DEF take, Grows, FirstStatement, TypeOK, Triggers
<1>7. Passing(b, x)
  BY <1>5 DEF Passing
<1>8. Begin(b, x)
  BY <1>1, <1>2, <1>4, <1>5, <1>6, <1>7 DEF Begin, Statement, NotWaiting
<1> QED
  BY <1>8

\* A time-out loop sends its first statement.
LEMMA LoopBegins ==
  ASSUME TypeOK, NEW t \in Loops, loop_timeout_check(t)
  PROVE  \E x : Begin(t, x)
<1>1. PICK at \in {"expired", "stale"} : Ask(rpc, t, at, {}, "idle", {})
  BY DEF loop_timeout_check
<1>2. at \in Ats /\ at \notin NotWaiting /\ at \notin Loads /\ t \in Threads
  BY Waiting DEF Loads
<1>3. thread[t].at = "idle" /\ executed' = executed /\ rows' = rows /\ restarted' = restarted
      /\ kernel' = kernel /\ cache' = cache /\ batch' = batch
  BY DEF loop_timeout_check, Starts, bounds
<1> QED
  BY <1>1, <1>2, <1>3, JustAsks

\* The administrator removes terminals (act.lua:22-35).
LEMMA RemovalBegins ==
  ASSUME TypeOK, online_delall \/ \E us \in SUBSET Ukeys : online_del(us)
  PROVE  \E x : Begin("udp", x)
<1>1. PICK at \in {"delete", "all"}, us \in SUBSET Ukeys : Ask(rpc, "udp", at, us, "idle", {})
  BY DEF online_del, online_delall
<1>2. at \in Ats /\ at \notin NotWaiting /\ at \notin Loads /\ "udp" \in Threads
  BY Waiting DEF Loads
<1>3. thread["udp"].at = "idle" /\ executed' = executed /\ rows' = rows /\ restarted' = restarted
      /\ kernel' = kernel /\ cache' = cache /\ batch' = batch
  BY DEF online_del, online_delall, Starts, Request
<1> QED
  BY <1>1, <1>2, <1>3, JustAsks

\* A terminal with a full count of keepalives is put offline (kernel.lua:36-37).
LEMMA ForceBegins ==
  ASSUME TypeOK, force_offline
  PROVE  \E x : Begin("udp", x)
<1>1. Idle \in Rec /\ Idle.rs = {} /\ Idle.at = "idle" /\ Queues(rpc, "udp", Idle)
  BY Waiting, Sleeps DEF force_offline
<1>2. thread["udp"].at = "force" /\ executed' = executed /\ rows' = rows /\ restarted' = restarted
      /\ cache' = cache /\ kernel' = PutOffline(thread["udp"].us) /\ batch' = batch
  BY DEF force_offline, Sent, bounds
<1>3. Passing("udp", Idle)
  BY <1>2 DEF Passing, PutOffline, Set
<1>4. Begin("udp", Idle)
  BY Waiting, <1>1, <1>2, <1>3 DEF Begin, Grows, NotWaiting, Loads
<1> QED
  BY <1>4

\* keepalive when the cache is there.
LEMMA HearsSteps ==
  ASSUME TypeOK, NEW u \in Ukeys, NEW S \in SUBSET Ukeys, NEW q, Keepalive(u, S, q)
  PROVE  /\ Hears(S) /\ Grows /\ rows' = rows /\ restarted' = restarted /\ kernel' = kernel
         /\ \E x \in Rec : x.rs = {} /\ x.at \in NotWaiting /\ Queues(q, "udp", x)
<1>1. Hears(S) /\ Grows
  <2>1. CASE u \in S \/ Type[u] = "auto"
    <3>1. cache' = <<S \union {u}>> /\ batch' = Emit(AliveOf(u), {u})
      BY <2>1 DEF Keepalive
    <3>2. Grows /\ (Type[u] = "auto" => u \in batch["auto_alive"].cache')
      BY <3>1 DEF Emit, AliveOf, Grows, TypeOK, Triggers
    <3> QED
      BY <2>1, <3>1, <3>2 DEF Hears
  <2>2. CASE ~(u \in S \/ Type[u] = "auto")
    BY <2>2 DEF Keepalive, Hears, Grows
  <2> QED
    BY <2>1, <2>2
<1>2. rows' = rows /\ restarted' = restarted /\ kernel' = kernel
  BY DEF Keepalive, bounds
<1>3. Sleep(q, "udp") \/ (/\ thread' = [thread EXCEPT !["udp"] = [Idle EXCEPT !.at = "force", !.us = {u}]]
                          /\ rpc' = q)
  BY DEF Keepalive, incr_miss
<1>4. \E x \in Rec : x.rs = {} /\ x.at \in NotWaiting /\ Queues(q, "udp", x)
  <2>1. CASE Sleep(q, "udp")
    <3>1. Idle \in Rec /\ Idle.rs = {} /\ Idle.at = "idle" /\ Queues(q, "udp", Idle)
      BY <2>1, Waiting, Sleeps
    <3> QED
      BY <3>1 DEF NotWaiting
  <2>2. CASE thread' = [thread EXCEPT !["udp"] = [Idle EXCEPT !.at = "force", !.us = {u}]] /\ rpc' = q
    <3> DEFINE x == [Idle EXCEPT !.at = "force", !.us = {u}]
    <3>1. x \in Rec /\ x.rs = {} /\ x.at = "force"
      BY DEF Idle, Rec, Ats
    <3>2. Queues(q, "udp", x)
      BY <3>1, <2>2 DEF Queues, NotWaiting
    <3> QED
      BY <3>1, <3>2 DEF NotWaiting
  <2> QED
    BY <1>3, <2>1, <2>2
<1> QED
  BY <1>1, <1>2, <1>4

\* The loaded cache is a set of terminals.
LEMMA CacheTyped ==
  ASSUME TypeOK, Loaded
  PROVE  cache = <<cache[1]>> /\ cache[1] \in SUBSET Ukeys
BY DEF TypeOK, Loaded

\* A keepalive is answered from the cache, or loads it (kernel.lua:55-88).
LEMMA KeepaliveBegins ==
  ASSUME TypeOK, NEW u \in Ukeys, keepalive(u)
  PROVE  \E x : Begin("udp", x)
<1>1. thread["udp"].at = "idle" /\ executed' = executed
  BY DEF keepalive, Starts
<1>2. CASE Loaded /\ Keepalive(u, cache[1], rpc)
  <2>1. PICK x \in Rec : x.rs = {} /\ x.at \in NotWaiting /\ Queues(rpc, "udp", x)
    BY <1>2, CacheTyped, HearsSteps
  <2>2. /\ Hears(cache[1]) /\ Grows /\ rows' = rows /\ restarted' = restarted /\ kernel' = kernel
    BY <1>2, CacheTyped, HearsSteps
  <2>3. Passing("udp", x)
    BY <1>1, <2>2 DEF Passing
  <2>4. Begin("udp", x)
    BY Waiting, <1>1, <1>2, <2>1, <2>2, <2>3 DEF Begin, NotWaiting, Loads
  <2> QED
    BY <2>4
<1>3. CASE ~Loaded /\ Ask(rpc, "udp", "get_module", {u}, "idle", {})
                  /\ UNCHANGED <<kernel, rows, cache, miss, waits, batch, bounds>>
  <2>1. PICK x : Statement(x, "get_module", {u}, {}) /\ Queues(rpc, "udp", x)
    BY <1>3, Waiting, Asks
  <2>2. Passing("udp", x)
    BY <1>1, <1>3 DEF Passing
  <2>3. Begin("udp", x)
    BY Waiting, <1>1, <1>3, <2>1, <2>2 DEF Begin, Statement, Grows, NotWaiting, bounds
  <2> QED
    BY <2>3
<1> QED
  BY <1>2, <1>3 DEF keepalive

\* A login lets one more terminal pass (web.lua:144-149).
LEMMA ReplyBegins ==
  ASSUME TypeOK, NEW u \in Ukeys, web_reply(u)
  PROVE  \E x : Begin("web_login", x)
<1> DEFINE y == thread["web_login"]
           x == [y EXCEPT !.head = @ \union {u}]
<1>1. y \in Rec /\ y.at = "reply" /\ u \in y.us
  BY Waiting, RecTyped DEF web_reply, Sent
<1>2. thread' = [thread EXCEPT !["web_login"] = x] /\ rpc' = rpc
  BY DEF web_reply
<1>3. x \in Rec /\ x.at = "reply" /\ x.us = y.us
  BY <1>1 DEF Rec
<1>4. executed' = executed /\ rows' = rows /\ restarted' = restarted
      /\ cache' = cache /\ kernel' = Set(kernel, {u}, "AUTH_OK") /\ batch' = batch
  BY DEF web_reply, Sent, bounds
<1> HIDE DEF x
<1>5. Passing("web_login", x)
  BY <1>1, <1>3, <1>4 DEF Passing, Set
<1>6. Begin("web_login", x)
  BY Waiting, <1>1, <1>2, <1>3, <1>4, <1>5 DEF Begin, Queues, Grows, NotWaiting, Loads
<1> QED
  BY <1>6

\* A login inserts its rows (web.lua:151-158).
LEMMA InsertBegins ==
  ASSUME TypeOK, web_insert
  PROVE  \E x : Begin("web_login", x)
<1> DEFINE us == thread["web_login"].us
<1>1. thread["web_login"].at = "reply" /\ us \in SUBSET Ukeys
  BY Waiting, RecTyped DEF web_insert, Sent
<1>2. executed' = executed /\ rows' = rows /\ restarted' = restarted
      /\ cache' = cache /\ batch' = batch
  BY DEF web_insert, Sent, bounds
<1>3. CASE us = {} /\ Sleep(rpc, "web_login") /\ UNCHANGED <<kernel, bypass_wait>>
  <2>1. Idle \in Rec /\ Idle.rs = {} /\ Idle.at = "idle" /\ Queues(rpc, "web_login", Idle)
    BY <1>3, Waiting, Sleeps
  <2>2. Passing("web_login", Idle)
    BY <1>3 DEF Passing
  <2>3. Begin("web_login", Idle)
    BY Waiting, <1>1, <1>2, <2>1, <2>2 DEF Begin, Grows, NotWaiting, Loads
  <2> QED
    BY <2>3
<1>4. CASE insert_online(rpc, "web_login", us)
  <2>1. PICK x : Statement(x, "insert", us, {}) /\ Queues(rpc, "web_login", x)
    BY <1>1, <1>4, Waiting, Asks DEF insert_online
  <2>2. kernel' = Set(kernel, us, "AUTH_OK")
    BY <1>4 DEF insert_online
  <2>3. Passing("web_login", x)
    BY <2>1, <2>2 DEF Passing, Set, Statement
  <2>4. Begin("web_login", x)
    BY Waiting, <1>1, <1>2, <2>1, <2>3 DEF Begin, Statement, Grows, NotWaiting, Loads
  <2> QED
    BY <2>4
<1> QED
  BY <1>3, <1>4 DEF web_insert

-----------------------------------------------------------------------------
(* Steps of the coroutine whose answer is next *)

\* A coroutine that takes an answer and does nothing to kernel and cache.
LEMMA JustResumes ==
  ASSUME TypeOK, NEW t \in Threads, NEW at \in Ats, Resumes(t, at),
         at \notin {"reply", "clear", "delete", "insert", "set", "get_module"},
         t = "auto_alive" => at \notin {"online", "update"},
         rows' = rows, restarted' = restarted, kernel' = kernel, cache' = cache, batch' = batch,
         NEW x \in Rec, x.rs = {}, x.at \notin Loads, Queues(Rest, t, x)
  PROVE  Resume(t, x)
<1>1. Passing(t, x)
  BY DEF Passing, Resumes
<1>2. Cached(t, x)
  BY DEF Cached, Resumes, Loads
<1>3. Carries(t, x) /\ Grows
  BY DEF Carries, Resumes, Grows
<1> QED
  BY <1>1, <1>2, <1>3 DEF Resume, Resumes, Rest

\* It sends its next statement, or none.
LEMMA JustGoesOn ==
  ASSUME TypeOK, NEW t \in Threads, NEW at \in Ats, Resumes(t, at),
         at \notin {"reply", "clear", "delete", "insert", "set", "get_module"},
         t = "auto_alive" => at \notin {"online", "update"},
         UNCHANGED <<kernel, rows, cache, miss, waits, batch, bounds>>,
         \/ Sleep(Rest, t)
         \/ \E to \in {"delete", "online", "insert_user", "stale"}, us \in SUBSET Ukeys,
               next \in {"idle", "stale"} : Ask(Rest, t, to, us, next, {})
  PROVE  \E x : Resume(t, x)
<1>1. rows' = rows /\ restarted' = restarted /\ kernel' = kernel /\ cache' = cache /\ batch' = batch
  BY DEF bounds
<1>2. CASE Sleep(Rest, t)
  <2>1. Idle \in Rec /\ Idle.rs = {} /\ Idle.at = "idle" /\ Queues(Rest, t, Idle)
    BY <1>2, Sleeps
  <2>2. Idle.at \notin Loads
    BY <2>1 DEF Loads
  <2> QED
    BY <1>1, <2>1, <2>2, JustResumes
<1>3. ASSUME NEW to \in {"delete", "online", "insert_user", "stale"}, NEW us \in SUBSET Ukeys,
             NEW next \in {"idle", "stale"}, Ask(Rest, t, to, us, next, {})
      PROVE  \E x : Resume(t, x)
  <2>1. to \in Ats /\ to \notin NotWaiting /\ to \notin Loads
    BY Waiting DEF Loads
  <2>2. PICK x : Statement(x, to, us, {}) /\ Queues(Rest, t, x)
    BY <1>3, <2>1, Asks
  <2>3. x \in Rec /\ x.rs = {} /\ x.at \notin Loads
    BY <2>1, <2>2 DEF Statement
  <2> QED
    BY <1>1, <2>2, <2>3, JustResumes
<1> QED
  BY <1>2, <1>3

\* The answers that lead to another statement only.
LEMMA GoOnSteps ==
  ASSUME TypeOK
  PROVE  /\ all_listed => \E x : Resume("udp", x)
         /\ check_expire => \E x : Resume("web_loop", x)
         /\ web_users => \E x : Resume("web_login", x)
         /\ wechat_users => \E x : Resume("wechat_login", x)
         /\ wechat_user_inserted => \E x : Resume("wechat_login", x)
         /\ \A t \in Threads : timeout_offline(t) => \E x : Resume(t, x)
<1>1. ASSUME all_listed PROVE \E x : Resume("udp", x)
  <2>1. thread["udp"].rs \in SUBSET Ukeys /\ "udp" \in Threads /\ "all" \in Ats
    BY Waiting, RecTyped
  <2>2. Resumes("udp", "all") /\ UNCHANGED <<kernel, rows, cache, miss, waits, batch, bounds>>
    BY <1>1 DEF all_listed
  <2>3. \E to \in {"delete", "online", "insert_user", "stale"}, us \in SUBSET Ukeys,
           next \in {"idle", "stale"} : Ask(Rest, "udp", to, us, next, {})
    BY <1>1, <2>1 DEF all_listed
  <2> QED
    BY <2>1, <2>2, <2>3, JustGoesOn
<1>2. ASSUME check_expire PROVE \E x : Resume("web_loop", x)
  <2>1. thread["web_loop"].rs \in SUBSET Ukeys /\ "web_loop" \in Threads /\ "expired" \in Ats
    BY Waiting, RecTyped
  <2>2. Resumes("web_loop", "expired") /\ UNCHANGED <<kernel, rows, cache, miss, waits, batch, bounds>>
    BY <1>2 DEF check_expire
  <2>3. \E to \in {"delete", "online", "insert_user", "stale"}, us \in SUBSET Ukeys,
           next \in {"idle", "stale"} : Ask(Rest, "web_loop", to, us, next, {})
    BY <1>2, <2>1 DEF check_expire
  <2> QED
    BY <2>1, <2>2, <2>3, JustGoesOn
<1>3. ASSUME web_users PROVE \E x : Resume("web_login", x)
  <2>1. thread["web_login"].rs \in SUBSET Ukeys /\ "web_login" \in Threads /\ "user" \in Ats
    BY Waiting, RecTyped
  <2>2. Resumes("web_login", "user") /\ UNCHANGED <<kernel, rows, cache, miss, waits, batch, bounds>>
    BY <1>3 DEF web_users
  <2>3. \E to \in {"delete", "online", "insert_user", "stale"}, us \in SUBSET Ukeys,
           next \in {"idle", "stale"} : Ask(Rest, "web_login", to, us, next, {})
    BY <1>3, <2>1 DEF web_users
  <2> QED
    BY <2>1, <2>2, <2>3, JustGoesOn
<1>4. ASSUME wechat_users PROVE \E x : Resume("wechat_login", x)
  <2>1. thread["wechat_login"].us \in SUBSET Ukeys /\ "wechat_login" \in Threads /\ "user" \in Ats
    BY Waiting, RecTyped
  <2>2. Resumes("wechat_login", "user") /\ UNCHANGED <<kernel, rows, cache, miss, waits, batch, bounds>>
    BY <1>4 DEF wechat_users
  <2>3. \E to \in {"delete", "online", "insert_user", "stale"}, us \in SUBSET Ukeys,
           next \in {"idle", "stale"} : Ask(Rest, "wechat_login", to, us, next, {})
    BY <1>4, <2>1 DEF wechat_users
  <2> QED
    BY <2>1, <2>2, <2>3, JustGoesOn
<1>5. ASSUME wechat_user_inserted PROVE \E x : Resume("wechat_login", x)
  <2>1. thread["wechat_login"].us \in SUBSET Ukeys /\ "wechat_login" \in Threads /\ "insert_user" \in Ats
    BY Waiting, RecTyped
  <2>2. /\ Resumes("wechat_login", "insert_user")
        /\ UNCHANGED <<kernel, rows, cache, miss, waits, batch, bounds>>
    BY <1>5 DEF wechat_user_inserted
  <2>3. \/ Sleep(Rest, "wechat_login")
        \/ \E to \in {"delete", "online", "insert_user", "stale"}, us \in SUBSET Ukeys,
              next \in {"idle", "stale"} : Ask(Rest, "wechat_login", to, us, next, {})
    BY <1>5, <2>1 DEF wechat_user_inserted
  <2> QED
    BY <2>1, <2>2, <2>3, JustGoesOn
<1>6. ASSUME NEW t \in Threads, timeout_offline(t) PROVE \E x : Resume(t, x)
  <2>1. "stale" \in Ats
    BY Waiting
  <2>2. Resumes(t, "stale") /\ UNCHANGED <<kernel, rows, cache, miss, waits, batch, bounds>>
    BY <1>6 DEF timeout_offline
  <2>3. \/ Sleep(Rest, t)
        \/ \E to \in {"delete", "online", "insert_user", "stale"}, us \in SUBSET Ukeys,
              next \in {"idle", "stale"} : Ask(Rest, t, to, us, next, {})
    BY <1>6 DEF timeout_offline, Listed
  <2> QED
    BY <2>1, <2>2, <2>3, JustGoesOn
<1> QED
  BY <1>1, <1>2, <1>3, <1>4, <1>5, <1>6

\* on_login knows who is online already (web.lua:116-141).
LEMMA WebLoginResumes ==
  ASSUME TypeOK, web_login
  PROVE  \E x : Resume("web_login", x)
<1>1. "web_login" \in Threads /\ "online" \in Ats /\ thread["web_login"].us \in SUBSET Ukeys
  BY Waiting, RecTyped
<1>2. PICK us \in SUBSET (thread["web_login"].us \ thread["web_login"].rs) :
        thread' = [thread EXCEPT !["web_login"] = [Idle EXCEPT !.at = "reply", !.us = us]]
  BY DEF web_login
<1> DEFINE x == [Idle EXCEPT !.at = "reply", !.us = us]
<1>3. x \in Rec /\ x.rs = {} /\ x.at = "reply"
  BY <1>1, <1>2 DEF Idle, Rec, Ats
<1>4. thread' = [thread EXCEPT !["web_login"] = x] /\ rpc' = Rest
  BY <1>2 DEF web_login
<1>5. /\ Resumes("web_login", "online")
      /\ rows' = rows /\ restarted' = restarted /\ kernel' = kernel /\ cache' = cache /\ batch' = batch
  BY DEF web_login, bounds
<1> HIDE DEF x
<1>6. Queues(Rest, "web_login", x) /\ x.at \notin Loads
  BY <1>3, <1>4 DEF Queues, NotWaiting, Loads
<1> QED
  BY <1>1, <1>3, <1>5, <1>6, JustResumes

\* insert_online, called with the answer to another statement.
LEMMA InsertResumes ==
  ASSUME TypeOK, NEW t \in Threads, NEW at \in {"online", "update"}, Resumes(t, at),
         NEW us \in SUBSET Ukeys, insert_online(Rest, t, us),
         rows' = rows, restarted' = restarted, cache' = cache, batch' = batch,
         t = "auto_alive" /\ at = "online" => us = thread[t].us \ thread[t].rs,
         t = "auto_alive" /\ at = "update" => us = thread[t].head
  PROVE  \E x : Resume(t, x)
<1>1. PICK x : Statement(x, "insert", us, {}) /\ Queues(Rest, t, x)
  BY Waiting, Asks DEF insert_online
<1>2. kernel' = Set(kernel, us, "AUTH_OK")
  BY DEF insert_online
<1>3. Passing(t, x)
  BY <1>1, <1>2 DEF Passing, Set, Statement, Resumes
<1>4. Cached(t, x)
  BY <1>1 DEF Cached, Resumes, Loads, Statement
<1>5. Carries(t, x) /\ Grows
  BY <1>1 DEF Carries, Resumes, Grows, Statement
<1>6. Resume(t, x)
  BY <1>1, <1>3, <1>4, <1>5 DEF Resume, Resumes, Rest, Statement
<1> QED
  BY <1>6

\* wechat.on_login inserts its rows (wechat.lua:225-251).
LEMMA WechatLoginResumes ==
  ASSUME TypeOK, wechat_login
  PROVE  \E x : Resume("wechat_login", x)
<1>1. "wechat_login" \in Threads /\ thread["wechat_login"].us \in SUBSET Ukeys
  BY Waiting, RecTyped
<1>2. /\ Resumes("wechat_login", "online")
      /\ insert_online(Rest, "wechat_login", thread["wechat_login"].us)
      /\ rows' = rows /\ restarted' = restarted /\ cache' = cache /\ batch' = batch
  BY DEF wechat_login, bounds
<1> QED
  BY <1>1, <1>2, InsertResumes

\* on_keepalive_batch updates or inserts (auto.lua:39-67).
LEMMA AutoResumes ==
  ASSUME TypeOK, auto_online
  PROVE  \E x : Resume("auto_alive", x)
<1> DEFINE t == "auto_alive"
           new == thread[t].us \ thread[t].rs
<1>1. t \in Threads /\ new \in SUBSET Ukeys /\ thread[t].rs \in SUBSET Ukeys
  BY Waiting, RecTyped
<1>2. Resumes(t, "online") /\ rows' = rows /\ restarted' = restarted /\ cache' = cache /\ batch' = batch
  BY DEF auto_online, bounds
<1>3. CASE insert_online(Rest, t, new)
  BY <1>1, <1>2, <1>3, InsertResumes
<1>4. CASE /\ thread' = [thread EXCEPT ![t] = [at |-> "update", us |-> thread[t].rs, rs |-> {},
                                              next |-> "idle", head |-> new]]
           /\ rpc' = Append(Rest, t) /\ UNCHANGED <<kernel, bypass_wait>>
  <2>1. Ask(Rest, t, "update", thread[t].rs, "idle", new)
    BY <1>4 DEF Ask
  <2> HIDE DEF t, new
  <2>2. PICK x : Statement(x, "update", thread[t].rs, new) /\ Queues(Rest, t, x)
    BY <1>1, <2>1, Waiting, Asks
  <2>3. Passing(t, x)
    BY <1>2, <1>4 DEF Passing, Resumes
  <2>4. Cached(t, x)
    BY <1>2, <2>2 DEF Cached, Resumes, Loads, Statement
  <2>5. Carries(t, x) /\ Grows
    BY <1>2, <2>2 DEF Carries, Resumes, Grows, Statement, new
  <2>6. Resume(t, x)
    BY <1>1, <1>2, <2>2, <2>3, <2>4, <2>5 DEF Resume, Resumes, Rest, Statement
  <2> QED
    BY <2>6 DEF t
<1> QED
  BY <1>3, <1>4 DEF auto_online

\* An update is done (web.lua:190-199).
LEMMA UpdatedResumes ==
  ASSUME TypeOK, NEW t \in Threads, updated(t)
  PROVE  \E x : Resume(t, x)
<1>1. thread[t].head \in SUBSET Ukeys
  BY RecTyped
<1>2. Resumes(t, "update") /\ rows' = rows /\ restarted' = restarted /\ cache' = cache /\ batch' = batch
  BY DEF updated, bounds
<1>3. CASE thread[t].head # {}
  <2>1. insert_online(Rest, t, thread[t].head)
    BY <1>3 DEF updated
  <2> QED
    BY <1>1, <1>2, <2>1, InsertResumes
<1>4. CASE thread[t].head = {}
  <2>1. Sleep(Rest, t) /\ kernel' = kernel
    BY <1>4 DEF updated
  <2>2. Idle \in Rec /\ Idle.rs = {} /\ Idle.at = "idle" /\ Queues(Rest, t, Idle)
    BY <2>1, Sleeps
  <2>3. Passing(t, Idle)
    BY <1>2, <2>1 DEF Passing, Resumes
  <2>4. Cached(t, Idle)
    BY <1>2, <2>2 DEF Cached, Resumes, Loads
  <2>5. Carries(t, Idle) /\ Grows
    BY <1>2, <1>4 DEF Carries, Resumes, Grows
  <2>6. Resume(t, Idle)
    BY <1>2, <2>2, <2>3, <2>4, <2>5 DEF Resume, Resumes, Rest
  <2> QED
    BY <2>6
<1> QED
  BY <1>3, <1>4

\* An insert is done, and set_module follows (authlib.lua:62-65).
LEMMA InsertedResumes ==
  ASSUME TypeOK, NEW t \in Threads, inserted(t)
  PROVE  \E x : Resume(t, x)
<1>1. thread[t].us \in SUBSET Ukeys
  BY RecTyped
<1>2. Resumes(t, "insert") /\ rows' = rows /\ restarted' = restarted /\ kernel' = kernel /\ batch' = batch
  BY DEF inserted, bounds
<1>3. \A x : Passing(t, x) /\ Carries(t, x) /\ Grows
  BY <1>2 DEF Passing, Resumes, Carries, Grows
<1>4. CASE Loaded /\ cache' = <<cache[1] \union thread[t].us>> /\ Sleep(Rest, t)
  <2>2. Idle \in Rec /\ Idle.rs = {} /\ Idle.at = "idle" /\ Queues(Rest, t, Idle)
    BY <1>4, Sleeps
  <2>4. Cached(t, Idle)
    BY <1>2, <1>4, <2>2 DEF Cached, Resumes, Loads
  <2>6. Resume(t, Idle)
    BY <1>2, <1>3, <2>2, <2>4 DEF Resume, Resumes, Rest
  <2> QED
    BY <2>6
<1>5. CASE ~Loaded /\ Ask(Rest, t, "set", thread[t].us, "idle", {}) /\ UNCHANGED cache
  <2>2. PICK x : Statement(x, "set", thread[t].us, {}) /\ Queues(Rest, t, x)
    BY <1>1, <1>5, Waiting, Asks
  <2>4. Cached(t, x)
    BY <1>2, <1>5, <2>2 DEF Cached, Resumes, Loads, Statement
  <2>6. Resume(t, x)
    BY <1>2, <1>3, <2>2, <2>4 DEF Resume, Resumes, Rest, Statement
  <2> QED
    BY <2>6
<1> QED
  BY <1>4, <1>5 DEF inserted

\* set_module has loaded the cache (cache.lua:46-54).
LEMMA SetResumes ==
  ASSUME TypeOK, NEW t \in Threads, module_set(t)
  PROVE  \E x : Resume(t, x)
<1>2. /\ Resumes(t, "set") /\ rows' = rows /\ restarted' = restarted /\ kernel' = kernel /\ batch' = batch
      /\ cache' = <<thread[t].rs \union thread[t].us>>
  BY DEF module_set, bounds
<1>3. Passing(t, Idle) /\ Carries(t, Idle) /\ Grows
  BY <1>2 DEF Passing, Resumes, Carries, Grows
<1>4. Idle \in Rec /\ Idle.rs = {} /\ Idle.at = "idle" /\ Queues(Rest, t, Idle)
  BY Sleeps DEF module_set
<1>5. Cached(t, Idle)
  BY <1>2, <1>4 DEF Cached, Resumes, Loads
<1>6. Resume(t, Idle)
  BY <1>2, <1>3, <1>4, <1>5 DEF Resume, Resumes, Rest
<1> QED
  BY <1>6

\* What follows offline_ukeys.
LEMMA Follows ==
  ASSUME TypeOK, NEW t \in Threads, Follow(t)
  PROVE  \E x : x \in Rec /\ x.rs = {} /\ x.at \in {"idle", "stale"} /\ Queues(Rest, t, x)
<1>1. CASE Sleep(Rest, t)
  <2>1. Idle \in Rec /\ Idle.rs = {} /\ Idle.at = "idle" /\ Queues(Rest, t, Idle)
    BY <1>1, Sleeps
  <2> QED
    BY <2>1
<1>2. CASE Ask(Rest, t, "stale", {}, "idle", {})
  <2>1. PICK x : Statement(x, "stale", {}, {}) /\ Queues(Rest, t, x)
    BY <1>2, Waiting, Asks
  <2> QED
    BY <2>1 DEF Statement
<1> QED
  BY <1>1, <1>2 DEF Follow

\* A delete is done, and set_offline and set_module follow (authlib.lua:67-79).
LEMMA DeletedResumes ==
  ASSUME TypeOK, NEW t \in Threads, deleted(t)
  PROVE  \E x : Resume(t, x)
<1> DEFINE us == thread[t].us
<1>1. us \in SUBSET Ukeys /\ thread[t].next \in {"idle", "stale"}
  BY RecTyped
<1>2. Resumes(t, "delete") /\ rows' = rows /\ restarted' = restarted /\ batch' = batch
  BY DEF deleted, bounds
<1>3. \A x : Carries(t, x) /\ Grows
  BY <1>2 DEF Resumes, Carries, Grows
<1>4. CASE us = {} /\ Follow(t) /\ UNCHANGED <<kernel, cache>>
  <2>1. PICK x : x \in Rec /\ x.rs = {} /\ x.at \in {"idle", "stale"} /\ Queues(Rest, t, x)
    BY <1>4, Follows
  <2>2. Passing(t, x)
    BY <1>4 DEF Passing
  <2>3. Cached(t, x)
    BY <1>2, <1>4, <2>1 DEF Cached, Resumes, Loads
  <2>4. Resume(t, x)
    BY <1>2, <1>3, <2>1, <2>2, <2>3 DEF Resume, Resumes, Rest
  <2> QED
    BY <2>4
<1>5. CASE /\ us # {} /\ Loaded
           /\ kernel' = PutOffline(us) /\ cache' = <<Forget(cache[1], us)>> /\ Follow(t)
  <2>1. PICK x : x \in Rec /\ x.rs = {} /\ x.at \in {"idle", "stale"} /\ Queues(Rest, t, x)
    BY <1>5, Follows
  <2>2. Passing(t, x)
    BY <1>5 DEF Passing, PutOffline, Set
  <2>3. Cached(t, x)
    BY <1>2, <1>5, <2>1 DEF Cached, Resumes, Loads, Forget
  <2>4. Resume(t, x)
    BY <1>2, <1>3, <2>1, <2>2, <2>3 DEF Resume, Resumes, Rest
  <2> QED
    BY <2>4
<1>6. CASE /\ us # {} /\ ~Loaded
           /\ \E u \in us : /\ kernel' = PutOffline({u})
                            /\ Ask(Rest, t, "clear", us \ {u}, thread[t].next, {u})
           /\ UNCHANGED cache
  <2>1. PICK u \in us : /\ kernel' = PutOffline({u})
                        /\ Ask(Rest, t, "clear", us \ {u}, thread[t].next, {u})
    BY <1>6
  <2>2. us \ {u} \in SUBSET Ukeys /\ {u} \in SUBSET Ukeys
    BY <1>1, <2>1
  <2>3. PICK x : Statement(x, "clear", us \ {u}, {u}) /\ Queues(Rest, t, x)
    BY <1>1, <2>1, <2>2, Waiting, Asks
  <2>4. Passing(t, x)
    BY <1>2, <2>1, <2>3 DEF Passing, PutOffline, Set, Statement, Resumes
  <2>5. Cached(t, x)
    BY <1>2, <1>6, <2>3 DEF Cached, Resumes, Loads, Statement
  <2>6. Resume(t, x)
    BY <1>2, <1>3, <2>3, <2>4, <2>5 DEF Resume, Resumes, Rest, Statement
  <2> QED
    BY <2>6
<1> QED
  BY <1>4, <1>5, <1>6 DEF deleted

\* set_module(ukey, nil) has loaded the cache (cache.lua:36-50).
LEMMA ClearedResumes ==
  ASSUME TypeOK, NEW t \in Threads, cleared(t)
  PROVE  \E x : Resume(t, x)
<1>2. /\ Resumes(t, "clear") /\ rows' = rows /\ restarted' = restarted /\ batch' = batch
      /\ kernel' = PutOffline(thread[t].us)
      /\ cache' = <<thread[t].rs \ (thread[t].us \union thread[t].head)>>
  BY DEF cleared, Forget, bounds
<1>3. PICK x : x \in Rec /\ x.rs = {} /\ x.at \in {"idle", "stale"} /\ Queues(Rest, t, x)
  BY Follows DEF cleared
<1>4. Passing(t, x) /\ Carries(t, x) /\ Grows
  BY <1>2 DEF Passing, Resumes, Carries, Grows, PutOffline, Set
<1>5. Cached(t, x)
  BY <1>2, <1>3 DEF Cached, Resumes, Loads
<1>6. Resume(t, x)
  BY <1>2, <1>3, <1>4, <1>5 DEF Resume, Resumes, Rest
<1> QED
  BY <1>6

\* get_module has loaded the cache for a keepalive (cache.lua:56-59).
LEMMA ModuleGotResumes ==
  ASSUME TypeOK, module_got
  PROVE  \E x : Resume("udp", x)
<1>1. "udp" \in Threads /\ thread["udp"].us \in SUBSET Ukeys /\ thread["udp"].rs \in SUBSET Ukeys
  BY Waiting, RecTyped
<1>2. Resumes("udp", "get_module")
  BY DEF module_got
<1>3. PICK u \in Ukeys : Keepalive(u, thread["udp"].rs, Rest)
  BY <1>1 DEF module_got
<1>4. PICK x \in Rec : x.rs = {} /\ x.at \in NotWaiting /\ Queues(Rest, "udp", x)
  BY <1>1, <1>3, HearsSteps
<1>5. Hears(thread["udp"].rs) /\ Grows /\ rows' = rows /\ restarted' = restarted /\ kernel' = kernel
  BY <1>1, <1>3, HearsSteps
<1>6. Passing("udp", x) /\ Carries("udp", x)
  BY <1>2, <1>5 DEF Passing, Carries, Resumes
<1>7. Cached("udp", x)
  BY <1>2, <1>4, <1>5 DEF Cached, Resumes, Loads, NotWaiting
<1>8. Resume("udp", x)
  BY <1>1, <1>2, <1>4, <1>5, <1>6, <1>7 DEF Resume, Resumes, Rest
<1> QED
  BY <1>8

\* The kinds are all there is.
LEMMA Kinds ==
  ASSUME TypeOK, Step
  PROVE  Quiet \/ execute \/ Restart \/ \E t, x : Begin(t, x) \/ Resume(t, x)
<1>1. CASE Reply
  <2>1. CASE execute
    BY <2>1
  <2>2. CASE wechat_login_raises
    BY <2>2 DEF wechat_login_raises, Fresh, Restart
  <2>3. CASE all_listed \/ check_expire \/ web_users \/ wechat_users \/ wechat_user_inserted
             \/ \E t \in Threads : timeout_offline(t)
    BY <2>3, GoOnSteps
  <2>4. CASE module_got \/ web_login \/ wechat_login \/ auto_online
    BY <2>4, ModuleGotResumes, WebLoginResumes, WechatLoginResumes, AutoResumes
  <2>5. CASE \E t \in Threads : inserted(t) \/ module_set(t) \/ deleted(t) \/ cleared(t) \/ updated(t)
    BY <2>5, InsertedResumes, SetResumes, DeletedResumes, ClearedResumes, UpdatedResumes
  <2> QED
    BY <1>1, <2>1, <2>2, <2>3, <2>4, <2>5 DEF Reply
<1>2. CASE Answered
  BY <1>2, ForceBegins, InsertBegins, ReplyBegins DEF Answered
<1>3. CASE Message
  BY <1>3, KeepaliveBegins, QuietSteps DEF Message
<1>4. CASE Timeout
  BY <1>4, QuietSteps DEF Timeout
<1>5. CASE (\E us \in SUBSET Ukeys \ {{}} : online_del(us)) \/ online_delall
  BY <1>5, RemovalBegins
<1>6. CASE \E b \in Triggers : take(b) \/ stop(b)
  <2>1. PICK b \in Triggers : take(b) \/ stop(b)
    BY <1>6
  <2>2. stop(b) => Quiet
    BY DEF stop, Starts, TypeOK, Quiet, Grows, Online, Triggers, waits, bounds
  <2> QED
    BY <2>1, <2>2, TakeBegins
<1>7. CASE \E t \in Loops : loop_timeout_check(t)
  BY <1>7, LoopBegins
<1>8. CASE \E u \in Ukeys : nos_auth_hook(u) \/ expire(u)
  BY <1>8, QuietSteps
<1>9. CASE crash
  BY <1>9 DEF crash, Fresh, Restart
<1> QED
  BY <1>1, <1>2, <1>3, <1>4, <1>5, <1>6, <1>7, <1>8, <1>9 DEF Step

-----------------------------------------------------------------------------
(* Types *)

RestOK ==
  /\ kernel \in [Ukeys -> {"AUTH_OK", "AUTH_BYPASS", "AUTH_REQ"}]
  /\ rows \in [Ukeys -> {"none", "fresh", "idle", "old"}]
  /\ cache \in {<<>>} \union {<<S>> : S \in SUBSET Ukeys}
  /\ miss \in [Ukeys -> 0..MaxMiss]
  /\ bypass_wait \subseteq Ukeys
  /\ batch \in [Triggers -> [cache: SUBSET Ukeys, running: BOOLEAN]]
  /\ crashes \in 0..MaxCrashes /\ restarted \in BOOLEAN

Waits ==
  /\ requests \in 0..MaxRequests
  /\ wechat_wait \in [Ukeys -> Nat] /\ deadlines \in [Ukeys -> Nat]
  /\ \A u \in Ukeys : wechat_wait[u] <= requests /\ deadlines[u] <= requests

QueueOK ==
  /\ thread \in [Threads -> Rec] /\ rpc \in Seq(Threads) /\ executed \in 0..Len(rpc)

CrossedOK == crossed \subseteq Ukeys

\* The type invariant in the parts the steps are checked for.
LEMMA TypeParts ==
  TypeOK /\ WaitInv <=> RestOK /\ Waits /\ QueueOK /\ CrossedOK
<1>1. TypeOK /\ WaitInv => RestOK /\ Waits /\ QueueOK /\ CrossedOK
  BY DEF TypeOK, WaitInv, RestOK, Waits, QueueOK, CrossedOK, Rec
<1>2. Waits => wechat_wait \in [Ukeys -> 0..MaxRequests] /\ deadlines \in [Ukeys -> 0..MaxRequests]
  <2> SUFFICES ASSUME Waits PROVE \A u \in Ukeys : wechat_wait[u] \in 0..MaxRequests /\ deadlines[u] \in 0..MaxRequests
    BY DEF Waits
  <2> QED
    BY DEF Waits
<1>3. RestOK /\ Waits /\ QueueOK /\ CrossedOK => TypeOK /\ WaitInv
  BY <1>2 DEF TypeOK, WaitInv, RestOK, Waits, QueueOK, CrossedOK, Rec
<1> QED
  BY <1>1, <1>3

Batches == [cache: SUBSET Ukeys, running: BOOLEAN]

\* Setting the status of terminals.
LEMMA KernelSet ==
  ASSUME RestOK, NEW S, NEW v \in {"AUTH_OK", "AUTH_BYPASS", "AUTH_REQ"}
  PROVE  Set(kernel, S, v) \in [Ukeys -> {"AUTH_OK", "AUTH_BYPASS", "AUTH_REQ"}]
BY DEF Set, RestOK

\* set_offline keeps the type of the status.
LEMMA KernelOffline ==
  ASSUME RestOK, NEW S
  PROVE  PutOffline(S) \in [Ukeys -> {"AUTH_OK", "AUTH_BYPASS", "AUTH_REQ"}]
BY KernelSet DEF PutOffline

\* An event given to a batch.
LEMMA Emitted ==
  ASSUME RestOK, NEW b \in Triggers, NEW us \in SUBSET Ukeys
  PROVE  Emit(b, us) \in [Triggers -> Batches]
<1>1. batch \in [Triggers -> Batches]
  BY DEF RestOK, Batches
<1>2. [cache |-> batch[b].cache \union us, running |-> TRUE] \in Batches
  <2>1. batch[b].cache \in SUBSET Ukeys
    BY <1>1 DEF Batches
  <2> QED
    BY <2>1 DEF Batches
<1>3. Emit(b, us) = [batch EXCEPT ![b] = [cache |-> batch[b].cache \union us, running |-> TRUE]]
  BY <1>1 DEF Emit
<1> QED
  BY <1>1, <1>2, <1>3

\* The triggers of a terminal are batches.
LEMMA AliveTyped ==
  ASSUME NEW u \in Ukeys
  PROVE  AliveOf(u) \in Triggers /\ "web_login" \in Triggers /\ "wechat_login" \in Triggers
BY DEF AliveOf, Triggers

\* The entries of the wait maps stem from requests.
LEMMA WaitsStep ==
  ASSUME TypeOK, WaitInv, Step
  PROVE  Waits'
<1> USE DEF Waits
<1>0. Waits
  BY TypeParts
<1>1. CASE wechat_wait' = wechat_wait /\ deadlines' = deadlines /\ requests' \in {requests, requests + 1}
           /\ requests' <= MaxRequests
  BY <1>0, <1>1
<1>2. ASSUME NEW u \in Ukeys, wxlogin2info(u) \/ bypass_host(u) \/ weixin2_login(u) \/ on_wechat_timeout(u)
                             \/ on_bypass_timeout(u)
      PROVE Waits'
  <2>1. wxlogin2info(u) => Waits'
    BY <1>0 DEF wxlogin2info, bypass, Request
  <2>2. bypass_host(u) => Waits'
    BY <1>0 DEF bypass_host, bypass, Request
  <2>3. weixin2_login(u) => Waits'
    BY <1>0 DEF weixin2_login, bounds
  <2>4. on_wechat_timeout(u) => Waits'
    BY <1>0 DEF on_wechat_timeout, bounds
  <2>5. on_bypass_timeout(u) => Waits'
    BY <1>0 DEF on_bypass_timeout, bounds
  <2> QED
    BY <1>2, <2>1, <2>2, <2>3, <2>4, <2>5
<1>3. CASE Reply
  <2>1. CASE wechat_login_raises
    BY <1>0, <2>1 DEF wechat_login_raises, Fresh
  <2>2. CASE ~wechat_login_raises
    <3>1. wechat_wait' = wechat_wait /\ deadlines' = deadlines /\ requests' = requests
      BY <1>3, <2>2 DEF Reply, execute, module_got, all_listed, check_expire, web_users, web_login,
         wechat_users, wechat_user_inserted, wechat_login, auto_online, inserted, module_set, deleted,
         cleared, timeout_offline, updated, Keepalive, waits, bounds
    <3> QED
      BY <1>0, <1>1, <3>1
  <2> QED
    BY <2>1, <2>2
<1>4. CASE Answered
  <2>1. wechat_wait' = wechat_wait /\ deadlines' = deadlines /\ requests' = requests
    BY <1>4 DEF Answered, force_offline, web_insert, web_reply, waits, bounds
  <2> QED
    BY <1>0, <1>1, <2>1
<1>5. ASSUME NEW u \in Ukeys, keepalive(u) \/ cloudlogin(u) PROVE Waits'
  <2>1. wechat_wait' = wechat_wait /\ deadlines' = deadlines
        /\ (requests' = requests \/ (requests < MaxRequests /\ requests' = requests + 1))
    BY <1>5 DEF keepalive, Keepalive, cloudlogin, Request, waits, bounds
  <2> QED
    BY <1>0, <1>1, <2>1
<1>6. CASE (\E us \in SUBSET Ukeys \ {{}} : online_del(us)) \/ online_delall
  <2>1. wechat_wait' = wechat_wait /\ deadlines' = deadlines
        /\ requests < MaxRequests /\ requests' = requests + 1
    BY <1>6 DEF online_del, online_delall, Request, waits
  <2> QED
    BY <1>0, <1>1, <2>1
<1>7. CASE \/ \E b \in Triggers : take(b) \/ stop(b)
           \/ \E t \in Loops : loop_timeout_check(t)
           \/ \E u \in Ukeys : nos_auth_hook(u) \/ expire(u)
  <2>1. wechat_wait' = wechat_wait /\ deadlines' = deadlines /\ requests' = requests
    BY <1>7 DEF take, stop, loop_timeout_check, nos_auth_hook, expire, waits, bounds
  <2> QED
    BY <1>0, <1>1, <2>1
<1>8. CASE crash
  BY <1>0, <1>8 DEF crash, Fresh
<1> QED
  BY <1>2, <1>3, <1>4, <1>5, <1>6, <1>7, <1>8 DEF Step, Message, Timeout

\* Most steps leave all of it alone.
LEMMA RestKept ==
  ASSUME RestOK, UNCHANGED <<kernel, rows, cache, miss, bypass_wait, batch, crashes, restarted>>
  PROVE  RestOK'
BY DEF RestOK

\* A restart leaves typed variables.
LEMMA FreshRest ==
  ASSUME RestOK, Fresh, UNCHANGED <<kernel, rows>>, crashes' \in 0..MaxCrashes, restarted' \in BOOLEAN
  PROVE  RestOK'
BY DEF RestOK, Fresh

\* So does a keepalive.
LEMMA KeepaliveRest ==
  ASSUME RestOK, NEW u \in Ukeys, NEW S \in SUBSET Ukeys, NEW q, Keepalive(u, S, q)
  PROVE  RestOK'
<1>1. kernel' = kernel /\ rows' = rows /\ bypass_wait' = bypass_wait /\ crashes' = crashes
      /\ restarted' = restarted
  BY DEF Keepalive, waits, bounds
<1>2. cache' \in {<<>>} \union {<<T>> : T \in SUBSET Ukeys}
  <2>1. S \union {u} \in SUBSET Ukeys
    OBVIOUS
  <2>2. cache' = <<S>> \/ cache' = <<S \union {u}>>
    BY DEF Keepalive
  <2> QED
    BY <2>1, <2>2
<1>3. miss' \in [Ukeys -> 0..MaxMiss]
  <2>1. miss' = miss \/ miss' = [miss EXCEPT ![u] = 0]
        \/ (~MissFull(u) /\ miss' = [miss EXCEPT ![u] = @ + 1])
    BY DEF Keepalive, incr_miss
  <2>2. miss[u] \in 0..MaxMiss /\ (~MissFull(u) => miss[u] + 1 \in 0..MaxMiss) /\ 0 \in 0..MaxMiss
    BY DEF RestOK, MissFull
  <2>3. miss \in [Ukeys -> 0..MaxMiss]
    BY DEF RestOK
  <2> DEFINE M == 0..MaxMiss
             m == miss[u] + 1
  <2>4. CASE miss' = [miss EXCEPT ![u] = 0]
    BY <2>2, <2>3, <2>4
  <2>5. CASE ~MissFull(u) /\ miss' = [miss EXCEPT ![u] = @ + 1]
    <3>1. miss' = [miss EXCEPT ![u] = m] /\ m \in M /\ miss \in [Ukeys -> M]
      BY <2>2, <2>3, <2>5
    <3> HIDE DEF m, M
    <3>2. miss' \in [Ukeys -> M]
      BY <3>1
    <3> QED
      BY <3>2 DEF M
  <2> QED
    BY <2>1, <2>3, <2>4, <2>5
<1>4. batch' \in [Triggers -> [cache: SUBSET Ukeys, running: BOOLEAN]]
  <2>1. batch' = batch \/ batch' = Emit(AliveOf(u), {u})
    BY DEF Keepalive
  <2> QED
    BY <2>1, AliveTyped, Emitted DEF RestOK, Batches
<1> QED
  BY <1>1, <1>2, <1>3, <1>4 DEF RestOK

\* So does insert_online.
LEMMA InsertRest ==
  ASSUME RestOK, NEW q, NEW t, NEW us, insert_online(q, t, us) \/ UNCHANGED <<kernel, bypass_wait>>,
         UNCHANGED <<rows, cache, miss, batch, crashes, restarted>>
  PROVE  RestOK'
<1>1. kernel' \in [Ukeys -> {"AUTH_OK", "AUTH_BYPASS", "AUTH_REQ"}] /\ bypass_wait' \subseteq Ukeys
  <2>1. CASE insert_online(q, t, us)
    <3>1. kernel' = Set(kernel, us, "AUTH_OK") /\ bypass_wait' = bypass_wait \ us
      BY <2>1 DEF insert_online
    <3> QED
      BY <3>1, KernelSet DEF RestOK
  <2>2. CASE UNCHANGED <<kernel, bypass_wait>>
    BY <2>2 DEF RestOK
  <2> QED
    BY <2>1, <2>2
<1> QED
  BY <1>1 DEF RestOK

\* What an execution, or an answer that changes the cache, leaves.
LEMMA ReplyRest ==
  ASSUME TypeOK, RestOK, NEW t \in Threads,
         inserted(t) \/ module_set(t) \/ deleted(t) \/ cleared(t) \/ timeout_offline(t) \/ updated(t)
  PROVE  RestOK'
<1>0. thread[t].us \in SUBSET Ukeys /\ thread[t].rs \in SUBSET Ukeys
  BY RecTyped
<1>1. inserted(t) => RestOK'
  <2> SUFFICES ASSUME inserted(t) PROVE RestOK'
    OBVIOUS
  <2>1. UNCHANGED <<kernel, rows, miss, bypass_wait, batch, crashes, restarted>>
    BY DEF inserted, waits, bounds
  <2>2. cache' = cache \/ (Loaded /\ cache' = <<cache[1] \union thread[t].us>>)
    BY DEF inserted
  <2>3. Loaded => cache[1] \union thread[t].us \in SUBSET Ukeys
    BY <1>0, CacheTyped
  <2> QED
    BY <2>1, <2>2, <2>3 DEF RestOK
<1>2. module_set(t) => RestOK'
  <2> SUFFICES ASSUME module_set(t) PROVE RestOK'
    OBVIOUS
  <2>1. UNCHANGED <<kernel, rows, miss, bypass_wait, batch, crashes, restarted>>
    BY DEF module_set, waits, bounds
  <2>2. cache' = <<thread[t].rs \union thread[t].us>> /\ thread[t].rs \union thread[t].us \in SUBSET Ukeys
    BY <1>0 DEF module_set
  <2> QED
    BY <2>1, <2>2 DEF RestOK
<1>3. deleted(t) => RestOK'
  <2> SUFFICES ASSUME deleted(t) PROVE RestOK'
    OBVIOUS
  <2>1. UNCHANGED <<rows, miss, bypass_wait, batch, crashes, restarted>>
    BY DEF deleted, waits, bounds
  <2>2. cache' = cache \/ (Loaded /\ cache' = <<Forget(cache[1], thread[t].us)>>)
    BY DEF deleted
  <2>3. Loaded => Forget(cache[1], thread[t].us) \in SUBSET Ukeys
    BY CacheTyped DEF Forget
  <2>4. kernel' \in [Ukeys -> {"AUTH_OK", "AUTH_BYPASS", "AUTH_REQ"}]
    <3>1. kernel' = kernel \/ \E S : kernel' = PutOffline(S)
      BY DEF deleted
    <3> QED
      BY <3>1, KernelOffline DEF RestOK
  <2> QED
    BY <2>1, <2>2, <2>3, <2>4 DEF RestOK
<1>4. cleared(t) => RestOK'
  <2> SUFFICES ASSUME cleared(t) PROVE RestOK'
    OBVIOUS
  <2>1. UNCHANGED <<rows, miss, bypass_wait, batch, crashes, restarted>>
    BY DEF cleared, waits, bounds
  <2>2. cache' = <<Forget(thread[t].rs, thread[t].us \union thread[t].head)>>
    BY DEF cleared
  <2>3. Forget(thread[t].rs, thread[t].us \union thread[t].head) \in SUBSET Ukeys
    BY <1>0 DEF Forget
  <2>4. kernel' \in [Ukeys -> {"AUTH_OK", "AUTH_BYPASS", "AUTH_REQ"}]
    BY KernelOffline DEF cleared
  <2> QED
    BY <2>1, <2>2, <2>3, <2>4 DEF RestOK
<1>5. timeout_offline(t) => RestOK'
  BY RestKept DEF timeout_offline, waits, bounds
<1>6. updated(t) => RestOK'
  BY InsertRest DEF updated, waits, bounds
<1> QED
  BY <1>1, <1>2, <1>3, <1>4, <1>5, <1>6

\* A statement inserts, deletes or updates the rows of its terminals.
LEMMA Wrote ==
  ASSUME TypeOK, NEW at, NEW us, rows' \in Written(at, us)
  PROVE  /\ rows' \in [Ukeys -> {"none", "fresh", "idle", "old"}]
         /\ at = "insert" => Online' = Online \union (us \intersect Ukeys)
         /\ at = "delete" => Online' = Online \ us
         /\ at \notin {"insert", "delete"} => Online' = Online
<1>0. rows \in [Ukeys -> {"none", "fresh", "idle", "old"}]
  BY DEF TypeOK
<1>1. CASE at = "insert"
  BY <1>0, <1>1 DEF Written, Set, Online
<1>2. CASE at = "delete"
  BY <1>0, <1>2 DEF Written, Set, Online
<1>3. CASE at = "update"
  <2>1. PICK old \in SUBSET us :
          rows' = [u \in Ukeys |-> IF rows[u] = "none" \/ u \notin us THEN rows[u]
                                   ELSE IF u \in old \/ rows[u] = "old" THEN "old" ELSE "fresh"]
    BY <1>3 DEF Written
  <2> QED
    BY <1>0, <1>3, <2>1 DEF Online
<1>4. CASE at \notin {"insert", "delete", "update"}
  <2>1. rows' = rows
    BY <1>4 DEF Written
  <2> QED
    BY <1>0, <1>4, <2>1 DEF Online
<1> QED
  BY <1>1, <1>2, <1>3, <1>4

\* Every step keeps the types of all but the coroutines and statements.
LEMMA RestStep ==
  ASSUME TypeOK, WaitInv, Step
  PROVE  RestOK'
<1>0. RestOK
  BY TypeParts
<1>1. CASE Reply
  <2>1. CASE execute
    <3>1. UNCHANGED <<kernel, cache, miss, bypass_wait, batch, crashes, restarted>>
      BY <2>1 DEF execute, waits, bounds
    <3>2. rows' \in [Ukeys -> {"none", "fresh", "idle", "old"}]
      BY <2>1, Wrote DEF execute
    <3> QED
      BY <1>0, <3>1, <3>2 DEF RestOK
  <2>2. CASE wechat_login_raises
    <3>1. crashes' \in 0..MaxCrashes /\ restarted' \in BOOLEAN
      BY <1>0, <2>2 DEF wechat_login_raises, RestOK
    <3> QED
      BY <1>0, <2>2, <3>1, FreshRest DEF wechat_login_raises
  <2>3. CASE all_listed \/ check_expire \/ web_users \/ web_login \/ wechat_users \/ wechat_user_inserted
    BY <1>0, <2>3, RestKept DEF all_listed, check_expire, web_users, web_login, wechat_users,
       wechat_user_inserted, waits, bounds
  <2>4. CASE module_got
    <3>1. thread["udp"].us \in SUBSET Ukeys /\ thread["udp"].rs \in SUBSET Ukeys
      BY Waiting, RecTyped
    <3>2. PICK u \in Ukeys : Keepalive(u, thread["udp"].rs, Rest)
      BY <2>4, <3>1 DEF module_got
    <3> QED
      BY <1>0, <3>1, <3>2, KeepaliveRest
  <2>5. CASE wechat_login \/ auto_online
    BY <1>0, <2>5, InsertRest DEF wechat_login, auto_online, waits, bounds
  <2>6. CASE \E t \in Threads : inserted(t) \/ module_set(t) \/ deleted(t) \/ cleared(t)
                               \/ timeout_offline(t) \/ updated(t)
    BY <1>0, <2>6, ReplyRest
  <2> QED
    BY <1>1, <2>1, <2>2, <2>3, <2>4, <2>5, <2>6 DEF Reply
<1>2. CASE Answered
  <2>1. CASE force_offline \/ \E u \in Ukeys : web_reply(u)
    <3>1. UNCHANGED <<rows, cache, miss, bypass_wait, batch, crashes, restarted>>
      BY <2>1 DEF force_offline, web_reply, waits, bounds
    <3>2. kernel' \in [Ukeys -> {"AUTH_OK", "AUTH_BYPASS", "AUTH_REQ"}]
      <4>1. \E S : kernel' = PutOffline(S) \/ kernel' = Set(kernel, S, "AUTH_OK")
        BY <2>1 DEF force_offline, web_reply
      <4> QED
        BY <1>0, <4>1, KernelSet, KernelOffline
    <3> QED
      BY <1>0, <3>1, <3>2 DEF RestOK
  <2>2. CASE web_insert
    BY <1>0, <2>2, InsertRest DEF web_insert, waits, bounds
  <2> QED
    BY <1>2, <2>1, <2>2 DEF Answered
<1>3. ASSUME NEW u \in Ukeys, keepalive(u) PROVE RestOK'
  <2>1. CASE Loaded /\ Keepalive(u, cache[1], rpc)
    BY <1>0, <2>1, CacheTyped, KeepaliveRest
  <2>2. CASE UNCHANGED <<kernel, rows, cache, miss, waits, batch, bounds>>
    BY <1>0, <2>2, RestKept DEF waits, bounds
  <2> QED
    BY <1>3, <2>1, <2>2 DEF keepalive
<1>4. ASSUME NEW u \in Ukeys, cloudlogin(u) \/ bypass_host(u) \/ wxlogin2info(u) \/ weixin2_login(u)
      PROVE  RestOK'
  <2>1. cloudlogin(u) => RestOK'
    <3> SUFFICES ASSUME cloudlogin(u) PROVE RestOK'
      OBVIOUS
    <3>1. batch' = Emit("web_login", {u}) /\ {u} \in SUBSET Ukeys
      BY DEF cloudlogin
    <3>2. batch' \in [Triggers -> Batches]
      BY <1>0, <3>1, AliveTyped, Emitted
    <3> QED
      BY <1>0, <3>2 DEF cloudlogin, Request, waits, RestOK, Batches
  <2>2. bypass_host(u) => RestOK'
    BY <1>0 DEF bypass_host, bypass, Request, RestOK
  <2>3. wxlogin2info(u) => RestOK'
    BY <1>0 DEF wxlogin2info, bypass, Request, RestOK
  <2>4. weixin2_login(u) => RestOK'
    <3> SUFFICES ASSUME weixin2_login(u) PROVE RestOK'
      OBVIOUS
    <3>1. batch' = Emit("wechat_login", {u}) /\ {u} \in SUBSET Ukeys
      BY DEF weixin2_login
    <3>2. batch' \in [Triggers -> Batches]
      BY <1>0, <3>1, AliveTyped, Emitted
    <3> QED
      BY <1>0, <3>2 DEF weixin2_login, bounds, RestOK, Batches
  <2> QED
    BY <1>4, <2>1, <2>2, <2>3, <2>4
<1>5. ASSUME NEW u \in Ukeys, on_wechat_timeout(u) \/ on_bypass_timeout(u) \/ nos_auth_hook(u) \/ expire(u)
      PROVE  RestOK'
  <2>1. on_wechat_timeout(u) => RestOK'
    BY <1>0, RestKept DEF on_wechat_timeout, bounds
  <2>2. on_bypass_timeout(u) => RestOK'
    <3> SUFFICES ASSUME on_bypass_timeout(u) PROVE RestOK'
      OBVIOUS
    <3>1. kernel' = kernel \/ kernel' = PutOffline({u})
      BY DEF on_bypass_timeout
    <3>2. kernel' \in [Ukeys -> {"AUTH_OK", "AUTH_BYPASS", "AUTH_REQ"}]
      BY <1>0, <3>1, KernelOffline DEF RestOK
    <3> QED
      BY <1>0, <3>2 DEF on_bypass_timeout, bounds, RestOK
  <2>3. nos_auth_hook(u) => RestOK'
    BY <1>0 DEF nos_auth_hook, waits, bounds, RestOK
  <2>4. expire(u) => RestOK'
    BY <1>0 DEF expire, waits, bounds, RestOK
  <2> QED
    BY <1>5, <2>1, <2>2, <2>3, <2>4
<1>6. CASE (\E us \in SUBSET Ukeys \ {{}} : online_del(us)) \/ online_delall
           \/ (\E t \in Loops : loop_timeout_check(t))
  BY <1>0, <1>6, RestKept DEF online_del, online_delall, loop_timeout_check, Request, waits, bounds
<1>7. ASSUME NEW b \in Triggers, take(b) \/ stop(b) PROVE RestOK'
  <2>1. UNCHANGED <<kernel, rows, cache, miss, bypass_wait, crashes, restarted>>
    BY <1>7 DEF take, stop, waits, bounds
  <2>2. batch' \in [Triggers -> [cache: SUBSET Ukeys, running: BOOLEAN]]
    <3>1. batch \in [Triggers -> Batches]
      BY <1>0 DEF RestOK, Batches
    <3>2. [batch[b] EXCEPT !.cache = {}] \in Batches /\ [batch[b] EXCEPT !.running = FALSE] \in Batches
      BY <3>1 DEF Batches
    <3>3. batch' = [batch EXCEPT ![b] = [batch[b] EXCEPT !.cache = {}]]
          \/ batch' = [batch EXCEPT ![b] = [batch[b] EXCEPT !.running = FALSE]]
      BY <1>7, <3>1 DEF take, stop
    <3>4. batch' \in [Triggers -> Batches]
      BY <3>1, <3>2, <3>3
    <3> QED
      BY <3>4 DEF Batches
  <2> QED
    BY <1>0, <2>1, <2>2 DEF RestOK
<1>8. CASE crash
  <2>1. crashes' \in 0..MaxCrashes /\ restarted' \in BOOLEAN
    BY <1>0, <1>8 DEF crash, RestOK
  <2> QED
    BY <1>0, <1>8, <2>1, FreshRest DEF crash
<1> QED
  BY <1>1, <1>2, <1>3, <1>4, <1>5, <1>6, <1>7, <1>8 DEF Step, Message, Timeout

-----------------------------------------------------------------------------
(* The statements under way and their coroutines *)

\* RpcInv and Done in terms of the sequence of statements.
LEMMA RpcParts ==
  /\ RpcInv <=> /\ Distinct(rpc)
                /\ \A t \in Threads : Holds(rpc, t) <=> thread[t].at \notin NotWaiting
  /\ \A t : Done(t) <=> Among(rpc, executed, t)
BY DEF RpcInv, Distinct, Holds, Done, Among

\* A coroutine that waited for nothing changes no place in the queue.
LEMMA BeginQueue ==
  ASSUME TypeOK, RpcInv, NEW t, NEW x, Begin(t, x)
  PROVE  /\ QueueOK' /\ RpcInv' /\ ~Done(t)
         /\ \A s \in Threads : Done(s)' <=> Done(s)
         /\ \A s \in Threads \ {t} : thread'[s] = thread[s]
         /\ thread'[t] = x
         /\ \A k \in 1..executed : rpc'[k] = rpc[k] /\ rpc[k] # t /\ rpc[k] \in Threads
<1>1. /\ t \in Threads /\ x \in Rec /\ thread[t].at \in NotWaiting /\ executed' = executed
      /\ thread' = [thread EXCEPT ![t] = x]
  BY DEF Begin, Queues
<1>2. /\ thread \in [Threads -> Rec] /\ rpc \in Seq(Threads) /\ executed \in 0..Len(rpc)
      /\ Len(rpc) \in Nat
  BY DEF TypeOK, Rec
<1>3. Distinct(rpc) /\ ~Holds(rpc, t) /\ \A s \in Threads : Holds(rpc, s) <=> thread[s].at \notin NotWaiting
  BY <1>1, RpcParts
<1>4. \A k \in 1..executed : rpc[k] # t /\ rpc[k] \in Threads
  BY <1>2, <1>3 DEF Holds
<1>5. ~Among(rpc, executed, t)
  BY <1>4 DEF Among
<1>6. CASE x.at \in NotWaiting /\ rpc' = rpc
  <2>1. Distinct(rpc') /\ \A s \in Threads : Holds(rpc', s) <=> thread'[s].at \notin NotWaiting
    BY <1>1, <1>2, <1>3, <1>6
  <2>2. QueueOK' /\ RpcInv'
    BY <1>1, <1>2, <1>6, <2>1 DEF QueueOK, RpcInv, Distinct, Holds
  <2> QED
    BY <1>1, <1>2, <1>4, <1>5, <1>6, <2>2, RpcParts DEF Done
<1>7. CASE x.at \notin NotWaiting /\ rpc' = Append(rpc, t)
  <2>1. /\ rpc' \in Seq(Threads) /\ Distinct(rpc') /\ Len(rpc') = Len(rpc) + 1
        /\ \A s \in Threads : Holds(rpc', s) <=> (s = t \/ Holds(rpc, s))
        /\ \A n \in 0..Len(rpc) : \A s \in Threads : Among(rpc', n, s) <=> Among(rpc, n, s)
        /\ \A k \in 1..Len(rpc) : rpc'[k] = rpc[k]
    BY <1>1, <1>2, <1>3, <1>7, SentLast
  <2>2. \A s \in Threads : Holds(rpc', s) <=> thread'[s].at \notin NotWaiting
    BY <1>1, <1>2, <1>3, <1>7, <2>1
  <2>3. RpcInv'
    BY <2>1, <2>2 DEF RpcInv, Distinct, Holds
  <2>4. QueueOK'
    BY <1>1, <1>2, <2>1 DEF QueueOK
  <2>5. \A s \in Threads : Done(s)' <=> Done(s)
    BY <1>1, <1>2, <2>1 DEF Done, Among
  <2> QED
    BY <1>1, <1>2, <1>4, <1>5, <2>1, <2>3, <2>4, <2>5, RpcParts
<1> QED
  BY <1>6, <1>7 DEF Begin, Queues

\* The coroutine whose answer is next leaves the queue, or joins its end.
LEMMA ResumeQueue ==
  ASSUME TypeOK, RpcInv, NEW t, NEW x, Resume(t, x)
  PROVE  /\ QueueOK' /\ RpcInv' /\ Done(t) /\ ~Done(t)'
         /\ \A s \in Threads \ {t} : (Done(s)' <=> Done(s)) /\ thread'[s] = thread[s]
         /\ thread'[t] = x
         /\ rpc[1] = t /\ executed \in 1..Len(rpc) /\ executed' = executed - 1
         /\ \A k \in 1..(executed - 1) : rpc'[k] = rpc[k + 1] /\ rpc[k + 1] # t /\ rpc[k + 1] \in Threads
<1>1. /\ t \in Threads /\ x \in Rec /\ Head(rpc) = t /\ executed > 0 /\ executed' = executed - 1
      /\ thread' = [thread EXCEPT ![t] = x]
  BY DEF Resume, Queues
<1>2. /\ thread \in [Threads -> Rec] /\ rpc \in Seq(Threads) /\ executed \in 1..Len(rpc)
      /\ Len(rpc) \in Nat /\ rpc # <<>>
  BY <1>1 DEF TypeOK, Rec
<1>3. Distinct(rpc) /\ \A s \in Threads : Holds(rpc, s) <=> thread[s].at \notin NotWaiting
  BY RpcParts
<1> DEFINE q == Tail(rpc)
<1>4. /\ q \in Seq(Threads) /\ Distinct(q) /\ Len(q) = Len(rpc) - 1 /\ rpc[1] = t
      /\ \A s \in Threads : Holds(q, s) <=> (s # t /\ Holds(rpc, s))
      /\ \A n \in 1..Len(rpc) : Among(rpc, n, t) /\ ~Among(q, n - 1, t)
      /\ \A n \in 1..Len(rpc) : \A s \in Threads : s # t => (Among(q, n - 1, s) <=> Among(rpc, n, s))
      /\ \A k \in 1..(Len(rpc) - 1) : q[k] = rpc[k + 1]
  BY <1>1, <1>2, <1>3, AnswerTaken
<1> HIDE DEF q
<1>5. \A k \in 1..(executed - 1) : rpc[k + 1] # t /\ rpc[k + 1] \in Threads /\ q[k] = rpc[k + 1]
  <2> SUFFICES ASSUME NEW k \in 1..(executed - 1)
               PROVE  rpc[k + 1] # t /\ rpc[k + 1] \in Threads /\ q[k] = rpc[k + 1]
    OBVIOUS
  <2>1. k + 1 \in 1..Len(rpc) /\ 1 \in 1..Len(rpc) /\ k + 1 # 1 /\ k \in 1..(Len(rpc) - 1)
    BY <1>2
  <2>2. rpc[k + 1] # rpc[1]
    BY <2>1, <1>3 DEF Distinct
  <2> QED
    BY <1>2, <1>4, <2>1, <2>2
<1>6. Done(t)
  BY <1>2, <1>4, RpcParts
<1>7. CASE x.at \in NotWaiting /\ rpc' = q
  <2>1. Distinct(rpc') /\ \A s \in Threads : Holds(rpc', s) <=> thread'[s].at \notin NotWaiting
    BY <1>1, <1>2, <1>3, <1>4, <1>7
  <2>2. QueueOK' /\ RpcInv'
    BY <1>1, <1>2, <1>4, <1>7, <2>1 DEF QueueOK, RpcInv, Distinct, Holds
  <2>3. ~Done(t)' /\ \A s \in Threads \ {t} : Done(s)' <=> Done(s)
    BY <1>1, <1>2, <1>4, <1>7 DEF Done, Among
  <2> QED
    BY <1>1, <1>2, <1>4, <1>5, <1>6, <1>7, <2>2, <2>3
<1>8. CASE x.at \notin NotWaiting /\ rpc' = Append(q, t)
  <2>1. ~Holds(q, t)
    BY <1>1, <1>4
  <2>2. /\ rpc' \in Seq(Threads) /\ Distinct(rpc') /\ Len(rpc') = Len(q) + 1
        /\ \A s \in Threads : Holds(rpc', s) <=> (s = t \/ Holds(q, s))
        /\ \A n \in 0..Len(q) : \A s \in Threads : Among(rpc', n, s) <=> Among(q, n, s)
        /\ \A k \in 1..Len(q) : rpc'[k] = q[k]
    BY <1>1, <1>4, <1>8, <2>1, SentLast
  <2>3. \A s \in Threads : Holds(rpc', s) <=> thread'[s].at \notin NotWaiting
    BY <1>1, <1>2, <1>3, <1>4, <1>8, <2>2
  <2>4. RpcInv'
    BY <2>2, <2>3 DEF RpcInv, Distinct, Holds
  <2>5. QueueOK'
    BY <1>1, <1>2, <1>4, <2>2 DEF QueueOK
  <2>6. executed - 1 \in 0..Len(q) /\ executed \in 1..Len(rpc)
    BY <1>2, <1>4
  <2>7. \A s \in Threads : Among(rpc', executed', s) <=> Among(q, executed - 1, s)
    BY <1>1, <2>2, <2>6
  <2>8. ~Done(t)' /\ \A s \in Threads \ {t} : Done(s)' <=> Done(s)
    <3>1. \A s : Done(s)' <=> Among(rpc', executed', s)
      BY DEF Done, Among
    <3>2. \A s : Done(s) <=> Among(rpc, executed, s)
      BY DEF Done, Among
    <3>3. ~Among(q, executed - 1, t) /\ \A s \in Threads \ {t} : Among(q, executed - 1, s) <=> Among(rpc, executed, s)
      BY <1>4, <2>6
    <3> QED
      BY <1>1, <2>7, <3>1, <3>2, <3>3
  <2>9. \A k \in 1..(executed - 1) : rpc'[k] = rpc[k + 1]
    BY <1>2, <1>4, <1>5, <2>2
  <2> QED
    BY <1>1, <1>2, <1>4, <1>5, <1>6, <2>4, <2>5, <2>8, <2>9
<1> QED
  BY <1>7, <1>8 DEF Resume, Queues, q

\* An execution: of t, which learns rs.
Executed(t, rs) ==
  /\ t = rpc[executed + 1] /\ t \in Threads /\ executed \in 0..(Len(rpc) - 1)
  /\ rs \in SUBSET Ukeys /\ rs \in Returned(t)
  /\ rows' \in Written(thread[t].at, thread[t].us)
  /\ thread' = [thread EXCEPT ![t] = [thread[t] EXCEPT !.rs = rs]]
  /\ executed' = executed + 1
  /\ UNCHANGED <<kernel, cache, batch, rpc, restarted>>

\* execute, with the coroutine and the answer named.
LEMMA Executes ==
  ASSUME TypeOK, execute
  PROVE  \E t, rs : Executed(t, rs)
<1> DEFINE t == rpc[executed + 1]
<1>1. t \in Threads /\ executed \in 0..(Len(rpc) - 1)
  BY DEF TypeOK, execute
<1>2. PICK rs \in Returned(t) : thread' = [thread EXCEPT ![t].rs = rs]
  BY DEF execute
<1>3. thread[t].us \in SUBSET Ukeys
  BY <1>1, RecTyped
<1>4. rs \in SUBSET Ukeys
  BY <1>2, <1>3 DEF Returned, Online
<1>5. thread' = [thread EXCEPT ![t] = [thread[t] EXCEPT !.rs = rs]]
  BY <1>1, <1>2 DEF TypeOK
<1>6. Executed(t, rs)
  BY <1>1, <1>2, <1>4, <1>5 DEF Executed, execute, bounds
<1> QED
  BY <1>6

\* An execution makes one more statement done.
LEMMA ExecuteQueue ==
  ASSUME TypeOK, RpcInv, NEW t, NEW rs, Executed(t, rs)
  PROVE  /\ QueueOK' /\ RpcInv' /\ ~Done(t) /\ Done(t)'
         /\ \A s \in Threads \ {t} : (Done(s)' <=> Done(s)) /\ thread'[s] = thread[s]
         /\ thread'[t] = [thread[t] EXCEPT !.rs = rs]
         /\ thread'[t].at = thread[t].at /\ thread'[t].us = thread[t].us
         /\ thread'[t].rs = rs /\ thread'[t].head = thread[t].head
         /\ \A k \in 1..executed : rpc[k] # t /\ rpc[k] \in Threads
<1>1. /\ t = rpc[executed + 1] /\ t \in Threads /\ executed \in 0..(Len(rpc) - 1)
      /\ executed' = executed + 1 /\ rpc' = rpc /\ Len(rpc) \in Nat /\ rpc \in Seq(Threads)
      /\ thread \in [Threads -> Rec] /\ rs \in SUBSET Ukeys
      /\ thread' = [thread EXCEPT ![t] = [thread[t] EXCEPT !.rs = rs]]
  BY DEF Executed, TypeOK, Rec
<1>2. /\ [thread[t] EXCEPT !.rs = rs] \in Rec
      /\ [thread[t] EXCEPT !.rs = rs].at = thread[t].at
      /\ [thread[t] EXCEPT !.rs = rs].us = thread[t].us
      /\ [thread[t] EXCEPT !.rs = rs].rs = rs
      /\ [thread[t] EXCEPT !.rs = rs].head = thread[t].head
  BY <1>1 DEF Rec
<1>3. \A k \in 1..executed : rpc[k] # t /\ rpc[k] \in Threads
  <2> SUFFICES ASSUME NEW k \in 1..executed PROVE rpc[k] # t /\ rpc[k] \in Threads
    OBVIOUS
  <2>1. k \in 1..Len(rpc) /\ executed + 1 \in 1..Len(rpc) /\ k # executed + 1
    BY <1>1
  <2>2. rpc[k] # rpc[executed + 1]
    BY <2>1, RpcParts DEF Distinct
  <2> QED
    BY <1>1, <2>1, <2>2
<1>4. QueueOK'
  BY <1>1, <1>2 DEF QueueOK
<1>5. thread' \in [Threads -> Rec] /\ \A s \in Threads : thread'[s].at = thread[s].at
  BY <1>1, <1>2
<1>6. RpcInv'
  BY <1>1, <1>5, RpcParts DEF RpcInv, Distinct, Holds
<1>7. ~Done(t) /\ Done(t)'
  BY <1>1, <1>3 DEF Done
<1>8. \A s \in Threads \ {t} : Done(s)' <=> Done(s)
  BY <1>1, <1>3 DEF Done
<1> QED
  BY <1>1, <1>2, <1>3, <1>4, <1>6, <1>7, <1>8

\* Every step keeps coroutines and statements in step.
LEMMA QueueStep ==
  ASSUME TypeOK, RpcInv, Step
  PROVE  QueueOK' /\ RpcInv'
<1>1. CASE Quiet
  BY <1>1 DEF Quiet, TypeOK, QueueOK, RpcInv, Rec
<1>2. CASE execute
  BY <1>2, Executes, ExecuteQueue
<1>3. CASE Restart
  <2>1. thread' = [t \in Threads |-> Idle] /\ rpc' = <<>> /\ executed' = 0
    BY <1>3 DEF Restart
  <2>2. Idle \in Rec /\ Idle.at = "idle"
    BY DEF Idle, Rec, Ats
  <2>3. Len(rpc') = 0
    BY <2>1
  <2>4. thread' \in [Threads -> Rec] /\ \A t \in Threads : thread'[t].at \in NotWaiting
    BY <2>1, <2>2 DEF NotWaiting
  <2> QED
    BY <2>1, <2>3, <2>4 DEF QueueOK, RpcInv
<1>4. CASE \E t, x : Begin(t, x) \/ Resume(t, x)
  BY <1>4, BeginQueue, ResumeQueue
<1> QED
  BY <1>1, <1>2, <1>3, <1>4, Kinds

\* Every step keeps the types.
LEMMA TypeStep ==
  ASSUME TypeOK, WaitInv, RpcInv, Next
  PROVE  TypeOK' /\ WaitInv'
<1>1. RestOK' /\ Waits' /\ QueueOK'
  BY RestStep, WaitsStep, QueueStep DEF Next
<1>2. CrossedOK'
  BY DEF Next, Crossing, TypeOK, CrossedOK
<1> QED
  BY <1>1, <1>2, TypeParts, PTL

-----------------------------------------------------------------------------
(* Kernel and table *)

\* Coroutine t will give u its row, or put it offline.
Covers(t, u) ==
  /\ u \in thread[t].us
  /\ \/ thread[t].at \in {"reply", "clear"}
     \/ thread[t].at = "insert" /\ ~Done(t)
     \/ thread[t].at = "delete" /\ Done(t)

\* RowInv in terms of Covers.
LEMMA RowParts ==
  RowInv <=> (~restarted => \A u \in Ukeys : Type[u] # "auto" /\ kernel[u] = "AUTH_OK" =>
                              u \in Online \/ \E t \in Threads : Covers(t, u))
BY DEF RowInv, Covers

\* Every step keeps RowInv.
LEMMA RowStep ==
  ASSUME TypeOK, RpcInv, RowInv, Step
  PROVE  RowInv'
<1> SUFFICES ASSUME ~restarted', NEW u \in Ukeys, Type[u] # "auto", kernel'[u] = "AUTH_OK"
             PROVE  u \in Online' \/ \E s \in Threads : Covers(s, u)'
  BY DEF RowInv, Covers
<1>0. ~restarted /\ kernel[u] = "AUTH_OK" => u \in Online \/ \E s \in Threads : Covers(s, u)
  BY RowParts
<1>1. CASE Quiet
  BY <1>0, <1>1 DEF Quiet, Covers, Done
<1>2. CASE Restart
  BY <1>2 DEF Restart
<1>3. ASSUME NEW t, NEW x, Begin(t, x) PROVE u \in Online' \/ \E s \in Threads : Covers(s, u)'
  <2>1. /\ ~Done(t)' /\ (\A s \in Threads : Done(s)' <=> Done(s))
        /\ (\A s \in Threads \ {t} : thread'[s] = thread[s]) /\ thread'[t] = x
    BY <1>3, BeginQueue DEF Begin
  <2>2. t \in Threads /\ thread[t].at \in NotWaiting /\ Online' = Online /\ restarted' = restarted /\ Passing(t, x)
    BY <1>3 DEF Begin, Online
  <2>3. CASE u \in x.us /\ x.at \in {"reply", "clear", "insert"}
    <3>1. Covers(t, u)'
      BY <2>1, <2>3 DEF Covers
    <3> QED
      BY <2>2, <3>1
  <2>4. CASE /\ kernel[u] = "AUTH_OK"
             /\ ~(u \in thread[t].us /\ thread[t].at \in {"reply", "clear", "delete"})
    <3>1. ~Covers(t, u)
      BY <2>2, <2>4 DEF Covers, NotWaiting
    <3>2. \A s \in Threads \ {t} : Covers(s, u) => Covers(s, u)'
      BY <2>1 DEF Covers
    <3> QED
      BY <1>0, <2>2, <2>4, <3>1, <3>2
  <2> QED
    BY <2>2, <2>3, <2>4 DEF Passing
<1>4. ASSUME NEW t, NEW x, Resume(t, x) PROVE u \in Online' \/ \E s \in Threads : Covers(s, u)'
  <2>1. /\ ~Done(t)' /\ Done(t) /\ thread'[t] = x
        /\ \A s \in Threads \ {t} : (Done(s)' <=> Done(s)) /\ thread'[s] = thread[s]
    BY <1>4, ResumeQueue
  <2>2. t \in Threads /\ Online' = Online /\ restarted' = restarted /\ Passing(t, x)
    BY <1>4 DEF Resume, Online
  <2>3. CASE u \in x.us /\ x.at \in {"reply", "clear", "insert"}
    <3>1. Covers(t, u)'
      BY <2>1, <2>3 DEF Covers
    <3> QED
      BY <2>2, <3>1
  <2>4. CASE /\ kernel[u] = "AUTH_OK"
             /\ ~(u \in thread[t].us /\ thread[t].at \in {"reply", "clear", "delete"})
    <3>1. ~Covers(t, u)
      BY <2>1, <2>4 DEF Covers
    <3>2. \A s \in Threads \ {t} : Covers(s, u) => Covers(s, u)'
      BY <2>1 DEF Covers
    <3> QED
      BY <1>0, <2>2, <2>4, <3>1, <3>2
  <2> QED
    BY <2>2, <2>3, <2>4 DEF Passing
<1>5. ASSUME NEW t, NEW rs, Executed(t, rs) PROVE u \in Online' \/ \E s \in Threads : Covers(s, u)'
  <2>1. /\ ~Done(t) /\ Done(t)' /\ thread'[t].at = thread[t].at /\ thread'[t].us = thread[t].us
        /\ \A s \in Threads \ {t} : (Done(s)' <=> Done(s)) /\ thread'[s] = thread[s]
    BY <1>5, ExecuteQueue
  <2>2. t \in Threads /\ kernel' = kernel /\ restarted' = restarted
        /\ rows' \in Written(thread[t].at, thread[t].us)
    BY <1>5 DEF Executed
  <2>3. /\ thread[t].at = "insert" => Online' = Online \union (thread[t].us \intersect Ukeys)
        /\ thread[t].at = "delete" => Online' = Online \ thread[t].us
        /\ thread[t].at \notin {"insert", "delete"} => Online' = Online
    BY <2>2, Wrote
  <2>4. u \in Online => u \in Online' \/ Covers(t, u)'
    BY <2>1, <2>3 DEF Covers
  <2>5. Covers(t, u) => u \in Online' \/ Covers(t, u)'
    BY <2>1, <2>3 DEF Covers
  <2>6. \A s \in Threads \ {t} : Covers(s, u) => Covers(s, u)'
    BY <2>1 DEF Covers
  <2> QED
    BY <1>0, <2>2, <2>4, <2>5, <2>6
<1> QED
  BY <1>1, <1>2, <1>3, <1>4, <1>5, Kinds, Executes

\* When nothing is under way for a terminal no coroutine covers it.
LEMMA RowImplies ==
  ASSUME RowInv
  PROVE  OnlineHasRow
BY DEF RowInv, OnlineHasRow, Busy

-----------------------------------------------------------------------------
(* Cache and table *)

\* A terminal the batch of auto rules has is kept until it has its row.
LEMMA AnnouncedKept ==
  ASSUME TypeOK, RpcInv, Step, ~Restart, NEW u \in Ukeys, Announced(u)
  PROVE  Announced(u)' \/ u \in Online'
<1> DEFINE a == "auto_alive"
<1>0. a \in Threads
  BY Waiting
<1>1. CASE Quiet
  BY <1>1 DEF Quiet, Grows, Announced, Done
<1>3. ASSUME NEW t, NEW x, Begin(t, x) PROVE Announced(u)' \/ u \in Online'
  <2>1. /\ (\A s \in Threads : Done(s)' <=> Done(s))
        /\ (\A s \in Threads \ {t} : thread'[s] = thread[s]) /\ thread'[t] = x
    BY <1>3, BeginQueue
  <2>2. CASE t # a
    <3>1. Grows /\ thread'[a] = thread[a] /\ (Done(a)' <=> Done(a))
      BY <1>0, <1>3, <2>1, <2>2 DEF Begin
    <3> QED
      BY <3>1 DEF Announced, Grows
  <2>3. CASE t = a
    <3>1. thread[a].at \in NotWaiting
      BY <1>3, <2>3 DEF Begin
    <3>2. u \in batch[a].cache
      BY <3>1 DEF Announced, NotWaiting
    <3>3. Grows \/ (x.at = "online" /\ x.us = batch[a].cache /\ x.rs = {})
      BY <1>3, <2>3 DEF Begin
    <3> QED
      BY <2>1, <2>3, <3>2, <3>3 DEF Announced, Grows
  <2> QED
    BY <2>2, <2>3
<1>4. ASSUME NEW t, NEW x, Resume(t, x) PROVE Announced(u)' \/ u \in Online'
  <2>1. /\ ~Done(t)' /\ Done(t) /\ thread'[t] = x
        /\ \A s \in Threads \ {t} : (Done(s)' <=> Done(s)) /\ thread'[s] = thread[s]
    BY <1>4, ResumeQueue
  <2>2. Grows /\ Carries(t, x)
    BY <1>4 DEF Resume
  <2>3. CASE t # a
    <3>1. thread'[a] = thread[a] /\ (Done(a)' <=> Done(a))
      BY <1>0, <2>1, <2>3
    <3> QED
      BY <2>2, <3>1 DEF Announced, Grows
  <2>4. CASE t = a
    BY <2>1, <2>2, <2>4 DEF Announced, Grows, Carries
  <2> QED
    BY <2>3, <2>4
<1>5. ASSUME NEW t, NEW rs, Executed(t, rs) PROVE Announced(u)' \/ u \in Online'
  <2>1. /\ ~Done(t) /\ Done(t)' /\ thread'[t].at = thread[t].at /\ thread'[t].us = thread[t].us
        /\ thread'[t].rs = rs /\ thread'[t].head = thread[t].head
        /\ \A s \in Threads \ {t} : (Done(s)' <=> Done(s)) /\ thread'[s] = thread[s]
    BY <1>5, ExecuteQueue
  <2>2. t \in Threads /\ batch' = batch /\ rows' \in Written(thread[t].at, thread[t].us) /\ rs \in Returned(t)
    BY <1>5 DEF Executed
  <2>3. /\ thread[t].at = "insert" => Online' = Online \union (thread[t].us \intersect Ukeys)
        /\ thread[t].at \notin {"insert", "delete"} => Online' = Online
    BY <2>2, Wrote
  <2>4. thread[t].at = "online" => rs = thread[t].us \intersect Online
    BY <2>2 DEF Returned
  <2>5. CASE t # a
    <3>1. thread'[a] = thread[a] /\ (Done(a)' <=> Done(a))
      BY <1>0, <2>1, <2>5
    <3> QED
      BY <2>2, <3>1 DEF Announced
  <2>6. CASE t = a
    BY <2>1, <2>2, <2>3, <2>4, <2>6 DEF Announced
  <2> QED
    BY <2>5, <2>6
<1> QED
  BY <1>1, <1>3, <1>4, <1>5, Kinds, Executes

\* What a coroutine has been told of u while the cache is being loaded.
Known(t, u) ==
  \/ thread[t].at \in Loads /\ u \in thread[t].rs
  \/ thread[t].at = "set" /\ u \in thread[t].us
  \/ thread[t].at = "insert" /\ Done(t) /\ u \in thread[t].us

Told(u) ==
  /\ \A t \in Threads : Known(t, u) => u \in Online
  /\ Loaded /\ u \in cache[1] => u \in Online \/ Announced(u)

\* LoadInv in terms of Told.
LEMMA LoadParts ==
  LoadInv <=> Crossing \subseteq crossed /\ (Loading => \A u \in Ukeys \ crossed : Told(u))
BY DEF LoadInv, Told, Known

\* authd has nothing under way and no cache.
Reset == cache = <<>> /\ rpc = <<>>

NoneWaits == ~Loaded /\ \A t \in Threads : thread[t].at \in NotWaiting

\* When nothing is under way every coroutine is idle.
LEMMA ResetIdles ==
  RpcInv /\ Reset => NoneWaits
<1> SUFFICES ASSUME RpcInv, Reset PROVE NoneWaits
  OBVIOUS
<1>1. Len(rpc) = 0
  BY DEF Reset
<1> QED
  BY <1>1 DEF Reset, RpcInv, Loaded, NoneWaits

\* crossed has every terminal whose removal meets the load.
LEMMA RemovalsCrossed ==
  ASSUME TypeOK, RpcInv', Next
  PROVE  /\ Crossing' \subseteq crossed'
         /\ ~Reset' => crossed' = crossed \union Crossing'
<1>1. CASE ~Reset'
  BY <1>1 DEF Next, Reset
<1>2. CASE Reset'
  <2>1. NoneWaits'
    BY <1>2, ResetIdles, PTL
  <2>2. Crossing' = {}
    BY <2>1 DEF NoneWaits, Crossing, Removing, NotWaiting
  <2> QED
    BY <1>2, <2>2
<1> QED
  BY <1>1, <1>2

\* A keepalive adds to the cache what it finds there, or an auto terminal it emits.
LEMMA HearsLoads ==
  ASSUME NEW S, Hears(S)
  PROVE  Loaded' /\ S \subseteq cache'[1]
         /\ \A u \in Ukeys : u \in cache'[1] => u \in S \/ u \in batch["auto_alive"].cache'
BY DEF Hears, Loaded

\* No load starts once the cache is there, but after a restart.
LEMMA LoadingBefore ==
  ASSUME TypeOK, RpcInv, Step, ~Restart, Loading'
  PROVE  Loading
<1> SUFFICES ASSUME Loaded PROVE \E t \in Threads : thread[t].at \in Loads
  BY DEF Loading
<1>1. CASE Quiet
  BY <1>1 DEF Quiet, Loading, Loaded
<1>2. ASSUME NEW t, NEW x, Begin(t, x) PROVE \E s \in Threads : thread[s].at \in Loads
  <2>1. /\ (\A s \in Threads \ {t} : thread'[s] = thread[s]) /\ thread'[t] = x
    BY <1>2, BeginQueue
  <2>2. t \in Threads /\ x.at \notin Loads
    BY <1>2 DEF Begin
  <2>3. Loaded'
    BY <1>2, HearsLoads DEF Begin, Loaded
  <2> QED
    BY <2>1, <2>2, <2>3 DEF Loading
<1>3. ASSUME NEW t, NEW x, Resume(t, x) PROVE \E s \in Threads : thread[s].at \in Loads
  <2>1. /\ (\A s \in Threads \ {t} : thread'[s] = thread[s]) /\ thread'[t] = x
    BY <1>3, ResumeQueue
  <2>2. t \in Threads /\ Cached(t, x)
    BY <1>3 DEF Resume
  <2>3. Loaded'
    <3>1. cache' = cache \/ (\E S : cache' = <<S>>) \/ Hears(thread[t].rs)
      BY <2>2 DEF Cached
    <3>2. Hears(thread[t].rs) => Loaded'
      BY HearsLoads
    <3> QED
      BY <3>1, <3>2 DEF Loaded
  <2>4. x.at \notin Loads
    BY <2>2 DEF Cached
  <2> QED
    BY <2>1, <2>2, <2>3, <2>4 DEF Loading
<1>4. ASSUME NEW t, NEW rs, Executed(t, rs) PROVE \E s \in Threads : thread[s].at \in Loads
  <2>1. \A s \in Threads : thread'[s].at = thread[s].at
    BY <1>4, ExecuteQueue
  <2>2. Loaded'
    BY <1>4 DEF Executed, Loaded
  <2> QED
    BY <2>1, <2>2 DEF Loading
<1> QED
  BY <1>1, <1>2, <1>3, <1>4, Kinds, Executes

\* What the answer to a statement leaves in the cache.
LEMMA CachedAfter ==
  ASSUME TypeOK, NEW t, NEW x, Resume(t, x), NEW u \in Ukeys, ~Removing(u) \/ thread[t].at # "clear"
  PROVE  /\ Touches(t, u) /\ Loaded' => (u \in cache'[1] <=> Leaves(t, u))
                                        \/ (u \in cache'[1] /\ u \in batch["auto_alive"].cache')
         /\ ~Touches(t, u) => /\ Loaded' <=> Loaded
                              /\ Loaded => (u \in cache'[1] <=> u \in cache[1])
<1>1. t \in Threads /\ Cached(t, x)
  BY DEF Resume
<1>2. CASE thread[t].at \notin Loads \union {"insert", "delete"} /\ cache' = cache
  BY <1>2 DEF Touches, Loaded
<1>3. CASE thread[t].at = "insert" /\ Loaded /\ cache' = <<cache[1] \union thread[t].us>>
  BY <1>3 DEF Touches, Leaves, Loaded, Loads
<1>4. CASE thread[t].at \in {"insert", "delete"} /\ ~Loaded /\ cache' = cache
  BY <1>4 DEF Touches, Leaves, Loaded, Loads
<1>5. CASE thread[t].at = "delete" /\ thread[t].us = {} /\ cache' = cache
  BY <1>5 DEF Touches, Leaves, Loaded, Loads
<1>6. CASE thread[t].at = "delete" /\ Loaded /\ cache' = <<cache[1] \ thread[t].us>>
  BY <1>6 DEF Touches, Leaves, Loaded, Loads
<1>7. CASE thread[t].at = "set" /\ cache' = <<thread[t].rs \union thread[t].us>>
  BY <1>7 DEF Touches, Leaves, Loaded, Loads
<1>8. CASE thread[t].at = "clear" /\ cache' = <<thread[t].rs \ (thread[t].us \union thread[t].head)>>
  BY <1>1, <1>8 DEF Touches, Leaves, Loaded, Loads, Removing
<1>9. CASE thread[t].at = "get_module" /\ Hears(thread[t].rs)
  BY <1>9, HearsLoads DEF Touches, Leaves, Loads
<1> QED
  BY <1>1, <1>2, <1>3, <1>4, <1>5, <1>6, <1>7, <1>8, <1>9 DEF Cached

\* Every step keeps LoadInv: rows only come while the cache is being loaded.
LEMMA LoadStep ==
  ASSUME TypeOK, RpcInv, LoadInv, RpcInv', Next
  PROVE  LoadInv'
<1> SUFFICES ASSUME Loading', NEW u \in Ukeys \ crossed' PROVE Told(u)'
  BY RemovalsCrossed DEF LoadInv, Told, Known
<1>1. CASE Reset'
  <2>1. NoneWaits'
    BY <1>1, ResetIdles, PTL
  <2> QED
    BY <2>1 DEF NoneWaits, Told, Known, NotWaiting, Loads
<1>2. CASE ~Reset'
  <2>1. Step /\ ~Restart /\ u \in Ukeys /\ u \notin crossed /\ u \notin Crossing'
    BY <1>2, RemovalsCrossed DEF Next, Reset, Restart
  <2>2. Loading /\ u \notin Crossing
    BY <2>1, LoadingBefore, LoadParts
  <2>3. ~Removing(u) /\ Told(u)
    BY <2>1, <2>2, LoadParts DEF Crossing
  <2>4. Announced(u) => Announced(u)' \/ u \in Online'
    BY <2>1, AnnouncedKept
  <2>5. CASE Quiet
    BY <2>3, <2>4, <2>5 DEF Quiet, Told, Known, Loaded, Done
  <2>6. ASSUME NEW t, NEW x, Begin(t, x) PROVE Told(u)'
    <3>1. /\ (\A s \in Threads : Done(s)' <=> Done(s)) /\ ~Done(t)
          /\ (\A s \in Threads \ {t} : thread'[s] = thread[s]) /\ thread'[t] = x
      BY <2>6, BeginQueue
    <3>2. t \in Threads /\ Online' = Online /\ (x.at \in Loads => x.at = "get_module" /\ x.rs = {})
      BY <2>6 DEF Begin, Online, Loads
    <3>3. \A s \in Threads : Known(s, u)' => u \in Online'
      BY <2>3, <3>1, <3>2 DEF Told, Known, Loads
    <3>4. Loaded' /\ u \in cache'[1] => u \in Online' \/ Announced(u)'
      <4>1. CASE cache' = cache
        BY <2>3, <2>4, <3>2, <4>1 DEF Told, Loaded
      <4>2. CASE Loaded /\ Hears(cache[1])
        BY <2>1, <2>3, <2>4, <3>2, <4>2, HearsLoads DEF Told, Announced
      <4> QED
        BY <2>6, <4>1, <4>2 DEF Begin
    <3> QED
      BY <3>3, <3>4 DEF Told
  <2>7. ASSUME NEW t, NEW x, Resume(t, x) PROVE Told(u)'
    <3>1. /\ ~Done(t)' /\ Done(t) /\ thread'[t] = x
          /\ \A s \in Threads \ {t} : (Done(s)' <=> Done(s)) /\ thread'[s] = thread[s]
      BY <2>7, ResumeQueue
    <3>2. t \in Threads /\ Online' = Online /\ x.rs = {} /\ Cached(t, x)
      BY <2>7 DEF Resume, Online
    <3>3. x.at = "set" => thread[t].at = "insert" /\ x.us = thread[t].us
      BY <3>2 DEF Cached, Loads
    <3>4. \A s \in Threads : Known(s, u)' => u \in Online'
      BY <2>3, <3>1, <3>2, <3>3 DEF Told, Known
    <3>5. Touches(t, u) /\ Leaves(t, u) => u \in Online
      BY <2>3, <3>1, <3>2 DEF Told, Known, Touches, Leaves, Loads
    <3>6. Loaded' /\ u \in cache'[1] => u \in Online' \/ Announced(u)'
      <4>1. CASE Touches(t, u)
        <5>1. Loaded' => (u \in cache'[1] <=> Leaves(t, u)) \/ u \in batch["auto_alive"].cache'
          BY <2>1, <2>3, <2>7, <4>1, CachedAfter
        <5>2. u \in batch["auto_alive"].cache' => Announced(u)'
          BY DEF Announced
        <5> QED
          BY <3>2, <3>5, <4>1, <5>1, <5>2
      <4>2. CASE ~Touches(t, u)
        BY <2>1, <2>3, <2>4, <2>7, <3>2, <4>2, CachedAfter DEF Told
      <4> QED
        BY <4>1, <4>2
    <3> QED
      BY <3>4, <3>6 DEF Told
  <2>8. ASSUME NEW t, NEW rs, Executed(t, rs) PROVE Told(u)'
    <3>1. /\ Done(t)' /\ thread'[t].at = thread[t].at /\ thread'[t].us = thread[t].us
          /\ thread'[t].rs = rs
          /\ \A s \in Threads \ {t} : (Done(s)' <=> Done(s)) /\ thread'[s] = thread[s]
      BY <2>8, ExecuteQueue
    <3>2. /\ t \in Threads /\ cache' = cache /\ rs \in Returned(t)
          /\ rows' \in Written(thread[t].at, thread[t].us)
      BY <2>8 DEF Executed
    <3>3. /\ thread[t].at = "insert" => Online' = Online \union (thread[t].us \intersect Ukeys)
          /\ thread[t].at = "delete" => Online' = Online \ thread[t].us
          /\ thread[t].at \notin {"insert", "delete"} => Online' = Online
      BY <3>2, Wrote
    <3>4. u \in Online => u \in Online'
      BY <2>3, <3>2, <3>3 DEF Removing
    <3>5. thread[t].at \in Loads => rs = Online
      BY <3>2 DEF Returned, Loads
    <3>6. \A s \in Threads : Known(s, u)' => u \in Online'
      BY <2>1, <2>3, <3>1, <3>3, <3>4, <3>5 DEF Told, Known, Loads
    <3>7. Loaded' /\ u \in cache'[1] => u \in Online' \/ Announced(u)'
      BY <2>3, <2>4, <3>2, <3>4 DEF Told, Loaded
    <3> QED
      BY <3>6, <3>7 DEF Told
  <2> QED
    BY <2>1, <2>5, <2>6, <2>7, <2>8, Kinds, Executes
<1> QED
  BY <1>1, <1>2

\* The last executed statement that touches u leaves what the table has.
LastTells(u) ==
  \A k \in 1..executed :
    Touches(rpc[k], u) /\ (\A j \in (k + 1)..executed : ~Touches(rpc[j], u))
      => (Leaves(rpc[k], u) <=> u \in Online)
Untouched(u) == \A k \in 1..executed : ~Touches(rpc[k], u)
Agrees(u) == (u \in cache[1] <=> u \in Online) \/ (u \in cache[1] /\ Announced(u))
Settled(u) == LastTells(u) /\ (Loaded /\ Untouched(u) => Agrees(u))

\* CacheInv in terms of Settled.
LEMMA CacheParts ==
  CacheInv <=> \A u \in Ukeys \ crossed : Settled(u)
BY DEF CacheInv, Settled, LastTells, Untouched, Agrees

\* Every step keeps CacheInv.
LEMMA CacheStep ==
  ASSUME TypeOK, RpcInv, LoadInv, CacheInv, RpcInv', QueueOK', Next
  PROVE  CacheInv'
<1> SUFFICES ASSUME NEW u \in Ukeys \ crossed' PROVE Settled(u)'
  BY DEF CacheInv, Settled, LastTells, Untouched, Agrees
<1>1. CASE Reset'
  <2>1. ~Loaded' /\ 1..executed' = {}
    <3>1. Len(rpc') = 0 /\ executed' \in 0..Len(rpc') /\ ~Loaded'
      BY <1>1 DEF Reset, QueueOK, Loaded
    <3> QED
      BY <3>1
  <2> QED
    BY <2>1 DEF Settled, LastTells
<1>2. CASE ~Reset'
  <2>1. Step /\ ~Restart /\ u \in Ukeys /\ u \notin crossed /\ u \notin Crossing' /\ executed \in Nat
    BY <1>2, RemovalsCrossed DEF Next, Reset, Restart, TypeOK
  <2>2. LastTells(u) /\ (Loaded /\ Untouched(u) => Agrees(u))
    BY <2>1, CacheParts DEF Settled
  <2>3. Loading => ~Removing(u) /\ Told(u)
    BY <2>1, LoadParts DEF Crossing
  <2>4. Announced(u) => Announced(u)' \/ u \in Online'
    BY <2>1, AnnouncedKept
  <2>5. CASE Quiet
    <3>1. LastTells(u)' /\ (Untouched(u)' <=> Untouched(u))
      BY <2>2, <2>5 DEF Quiet, LastTells, Untouched, Touches, Leaves
    <3>2. Loaded' /\ Untouched(u) => Agrees(u)'
      BY <2>2, <2>4, <2>5 DEF Quiet, Agrees, Loaded
    <3> QED
      BY <3>1, <3>2 DEF Settled
  <2>6. ASSUME NEW t, NEW x, Begin(t, x) PROVE Settled(u)'
    <3>1. \A k \in 1..executed : thread'[rpc'[k]] = thread[rpc[k]]
      BY <2>6, BeginQueue
    <3>2. executed' = executed /\ Online' = Online
      BY <2>6 DEF Begin, Online
    <3>3. /\ \A k \in 1..executed : Touches(rpc[k], u)' <=> Touches(rpc[k], u)
          /\ \A k \in 1..executed : Leaves(rpc[k], u)' <=> Leaves(rpc[k], u)
      BY <3>1 DEF Touches, Leaves
    <3>4. LastTells(u)'
      <4> SUFFICES ASSUME NEW k \in 1..executed, Touches(rpc[k], u)',
                          \A j \in (k + 1)..executed : ~Touches(rpc[j], u)'
                   PROVE  Leaves(rpc[k], u)' <=> u \in Online'
        BY <3>2 DEF LastTells
      <4>1. \A j \in (k + 1)..executed : j \in 1..executed
        BY <2>1
      <4>2. Touches(rpc[k], u) /\ \A j \in (k + 1)..executed : ~Touches(rpc[j], u)
        BY <3>3, <4>1
      <4> QED
        BY <2>2, <3>2, <3>3, <4>2 DEF LastTells
    <3>5. Untouched(u)' <=> Untouched(u)
      BY <3>2, <3>3 DEF Untouched
    <3>6. Loaded' /\ Untouched(u) => Agrees(u)'
      <4>1. CASE cache' = cache
        BY <2>2, <2>4, <3>2, <4>1 DEF Agrees, Loaded
      <4>2. CASE Loaded /\ Hears(cache[1])
        <5>1. /\ u \in cache[1] => u \in cache'[1]
              /\ u \in cache'[1] => u \in cache[1] \/ u \in batch["auto_alive"].cache'
          BY <2>1, <4>2, HearsLoads
        <5>2. u \in batch["auto_alive"].cache' => Announced(u)'
          BY DEF Announced
        <5> QED
          BY <2>2, <2>4, <3>2, <4>2, <5>1, <5>2 DEF Agrees
      <4> QED
        BY <2>6, <4>1, <4>2 DEF Begin
    <3> QED
      BY <3>4, <3>5, <3>6 DEF Settled
  <2>7. ASSUME NEW t, NEW x, Resume(t, x) PROVE Settled(u)'
    <3>1. \A k \in 1..(executed - 1) : thread'[rpc'[k]] = thread[rpc[k + 1]]
      BY <2>7, ResumeQueue
    <3>2. executed' = executed - 1 /\ Online' = Online /\ executed > 0 /\ rpc[1] = t /\ t \in Threads
      BY <2>1, <2>7, ResumeQueue DEF Resume, Online
    <3>3. /\ \A k \in 1..(executed - 1) : Touches(rpc[k], u)' <=> Touches(rpc[k + 1], u)
          /\ \A k \in 1..(executed - 1) : Leaves(rpc[k], u)' <=> Leaves(rpc[k + 1], u)
      BY <3>1 DEF Touches, Leaves
    <3>4. LastTells(u)'
      <4> SUFFICES ASSUME NEW k \in 1..(executed - 1), Touches(rpc[k], u)',
                          \A j \in (k + 1)..(executed - 1) : ~Touches(rpc[j], u)'
                   PROVE  Leaves(rpc[k], u)' <=> u \in Online'
        BY <3>2 DEF LastTells
      <4>1. ASSUME NEW j \in ((k + 1) + 1)..executed PROVE ~Touches(rpc[j], u)
        <5>1. j - 1 \in (k + 1)..(executed - 1) /\ j - 1 \in 1..(executed - 1) /\ (j - 1) + 1 = j
          BY <2>1
        <5>2. ~Touches(rpc[j - 1], u)'
          BY <5>1
        <5> QED
          BY <3>3, <5>1, <5>2
      <4>2. Touches(rpc[k + 1], u) /\ k + 1 \in 1..executed
        BY <2>1, <3>3
      <4> QED
        BY <2>2, <3>2, <3>3, <4>1, <4>2 DEF LastTells
    <3>5. Loaded' /\ Untouched(u)' => Agrees(u)'
      <4> SUFFICES ASSUME Loaded', Untouched(u)' PROVE Agrees(u)'
        OBVIOUS
      <4>1. ASSUME NEW j \in 2..executed PROVE ~Touches(rpc[j], u)
        <5>1. j - 1 \in 1..(executed - 1) /\ (j - 1) + 1 = j
          BY <2>1
        <5>2. ~Touches(rpc[j - 1], u)'
          BY <3>2, <5>1 DEF Untouched
        <5> QED
          BY <3>3, <5>1, <5>2
      <4>2. ~Removing(u) \/ thread[t].at # "clear"
        BY <2>3, <3>2 DEF Loading, Loads
      <4>3. CASE Touches(t, u)
        <5>1. Leaves(t, u) <=> u \in Online
          <6>1. 1 \in 1..executed /\ (1 + 1)..executed = 2..executed
            BY <2>1, <3>2
          <6> QED
            BY <2>2, <3>2, <4>1, <4>3, <6>1 DEF LastTells
        <5>2. (u \in cache'[1] <=> Leaves(t, u)) \/ (u \in cache'[1] /\ u \in batch["auto_alive"].cache')
          BY <2>1, <2>7, <4>2, <4>3, CachedAfter
        <5> QED
          BY <3>2, <5>1, <5>2 DEF Agrees, Announced
      <4>4. CASE ~Touches(t, u)
        <5>1. Untouched(u)
          <6>1. \A j \in 1..executed : j = 1 \/ j \in 2..executed
            BY <2>1
          <6> QED
            BY <3>2, <4>1, <4>4, <6>1 DEF Untouched
        <5>2. Loaded /\ (u \in cache'[1] <=> u \in cache[1])
          BY <2>1, <2>7, <4>2, <4>4, CachedAfter
        <5> QED
          BY <2>2, <2>4, <3>2, <5>1, <5>2 DEF Agrees
      <4> QED
        BY <4>3, <4>4
    <3> QED
      BY <3>4, <3>5 DEF Settled
  <2>8. ASSUME NEW t, NEW rs, Executed(t, rs) PROVE Settled(u)'
    <3>1. /\ thread'[t].at = thread[t].at /\ thread'[t].us = thread[t].us /\ thread'[t].rs = rs
          /\ \A k \in 1..executed : thread'[rpc[k]] = thread[rpc[k]]
      <4>1. /\ thread'[t].at = thread[t].at /\ thread'[t].us = thread[t].us /\ thread'[t].rs = rs
            /\ \A s \in Threads \ {t} : thread'[s] = thread[s]
            /\ \A k \in 1..executed : rpc[k] # t /\ rpc[k] \in Threads
        BY <2>8, ExecuteQueue
      <4> QED
        BY <4>1
    <3>2. /\ t \in Threads /\ cache' = cache /\ rs \in Returned(t) /\ rpc' = rpc
          /\ rows' \in Written(thread[t].at, thread[t].us)
          /\ executed' = executed + 1 /\ t = rpc[executed + 1]
      BY <2>8 DEF Executed
    <3>3. /\ thread[t].at = "insert" => Online' = Online \union (thread[t].us \intersect Ukeys)
          /\ thread[t].at = "delete" => Online' = Online \ thread[t].us
          /\ thread[t].at \notin {"insert", "delete"} => Online' = Online
      BY <3>2, Wrote
    <3>4. thread[t].at \in Loads => rs = Online
      BY <3>2 DEF Returned, Loads
    <3>5. /\ \A k \in 1..executed : Touches(rpc[k], u)' <=> Touches(rpc[k], u)
          /\ \A k \in 1..executed : Leaves(rpc[k], u)' <=> Leaves(rpc[k], u)
      BY <3>1, <3>2 DEF Touches, Leaves
    <3>6. Touches(t, u)' <=> Touches(t, u)
      BY <3>1 DEF Touches
    <3>0. PICK n \in Nat : n = executed + 1
      BY <2>1
    <3>7. CASE Touches(t, u)
      <4>1. Leaves(t, u)' <=> u \in Online'
        <5>1. CASE thread[t].at = "insert"
          BY <2>1, <3>1, <3>3, <3>7, <5>1 DEF Leaves, Touches, Loads
        <5>2. CASE thread[t].at = "delete"
          BY <2>1, <3>1, <3>3, <3>7, <5>2 DEF Leaves, Touches, Loads
        <5>3. CASE thread[t].at \in Loads
          <6>1. thread[t].at = "set" /\ u \in thread[t].us => u \in Online
            BY <2>3, <3>2, <5>3 DEF Loading, Told, Known
          <6> QED
            BY <2>1, <3>1, <3>3, <3>4, <5>3, <6>1 DEF Leaves, Loads
        <5> QED
          BY <3>7, <5>1, <5>2, <5>3 DEF Touches
      <4>2. LastTells(u)'
        <5> SUFFICES ASSUME NEW k \in 1..(executed + 1), Touches(rpc[k], u)',
                            \A j \in (k + 1)..(executed + 1) : ~Touches(rpc[j], u)'
                     PROVE  Leaves(rpc[k], u)' <=> u \in Online'
          BY <3>2 DEF LastTells
        <5>1. Touches(rpc[n], u)'
          <6>1. rpc'[n] = t
            BY <3>0, <3>2
          <6> QED
            BY <3>6, <3>7, <6>1 DEF Touches
        <5>2. k = n
          BY <2>1, <3>0, <5>1
        <5>3. rpc'[k] = t
          BY <3>0, <3>2, <5>2
        <5> QED
          BY <4>1, <5>3 DEF Leaves
      <4>3. ~Untouched(u)'
        <5>1. rpc'[n] = t /\ n \in 1..executed'
          BY <2>1, <3>0, <3>2
        <5>2. Touches(rpc[n], u)'
          BY <3>6, <3>7, <5>1 DEF Touches
        <5> QED
          BY <5>1, <5>2 DEF Untouched
      <4> QED
        BY <4>2, <4>3 DEF Settled
    <3>8. CASE ~Touches(t, u)
      <4>1. u \in Online' <=> u \in Online
        BY <3>3, <3>8 DEF Touches
      <4>2. \A k \in 1..(executed + 1) : Touches(rpc[k], u)' => k \in 1..executed /\ Touches(rpc[k], u)
        <5> SUFFICES ASSUME NEW k \in 1..(executed + 1), Touches(rpc[k], u)'
                     PROVE  k \in 1..executed /\ Touches(rpc[k], u)
          OBVIOUS
        <5>1. k # executed + 1
          BY <3>2, <3>6, <3>8
        <5>2. k \in 1..executed
          BY <2>1, <5>1
        <5> QED
          BY <3>5, <5>2
      <4>3. LastTells(u)'
        <5> SUFFICES ASSUME NEW k \in 1..(executed + 1), Touches(rpc[k], u)',
                            \A j \in (k + 1)..(executed + 1) : ~Touches(rpc[j], u)'
                     PROVE  Leaves(rpc[k], u)' <=> u \in Online'
          BY <3>2 DEF LastTells
        <5>1. k \in 1..executed /\ Touches(rpc[k], u)
          BY <4>2
        <5>2. \A j \in (k + 1)..executed : j \in 1..executed /\ j \in (k + 1)..(executed + 1)
          BY <2>1
        <5>3. \A j \in (k + 1)..executed : ~Touches(rpc[j], u)
          BY <3>5, <5>2
        <5> QED
          BY <2>2, <3>5, <4>1, <5>1, <5>3 DEF LastTells
      <4>4. Untouched(u)' => Untouched(u)
        <5>1. \A k \in 1..executed : k \in 1..(executed + 1)
          BY <2>1
        <5> QED
          BY <3>2, <3>5, <5>1 DEF Untouched
      <4>5. Loaded' /\ Untouched(u) => Agrees(u)'
        BY <2>2, <2>4, <3>2, <4>1 DEF Agrees, Loaded
      <4> QED
        BY <4>3, <4>4, <4>5 DEF Settled
    <3> QED
      BY <3>7, <3>8
  <2> QED
    BY <2>1, <2>5, <2>6, <2>7, <2>8, Kinds, Executes
<1> QED
  BY <1>1, <1>2

\* A set of natural numbers up to n that is not empty has a greatest element.
LEMMA Greatest ==
  ASSUME NEW n \in Nat, NEW S \in SUBSET (1..n), S # {}
  PROVE  \E k \in S : \A j \in S : j <= k
<1> DEFINE R == OpToRel(<, Nat)
           T == {n - k : k \in S}
<1>1. IsWellFoundedOn(R, Nat)
  BY NatLessThanWellFounded
<1>2. \A x, y \in Nat : y < x => <<y, x>> \in R
  BY DEF OpToRel
<1>3. T \in SUBSET Nat /\ T # {}
  <2>1. \A k \in S : n - k \in Nat
    OBVIOUS
  <2> QED
    BY <2>1
<1> HIDE DEF R, T
<1>4. PICK x \in T : \A y \in T : ~ (<<y, x>> \in R)
  BY <1>1, <1>3, WFMin
<1>5. PICK k \in S : x = n - k
  BY DEF T
<1>6. ASSUME NEW j \in S PROVE j <= k
  <2>1. n - j \in T /\ n - j \in Nat /\ x \in Nat
    BY <1>3 DEF T
  <2>2. ~(n - j < x)
    BY <1>2, <1>4, <2>1
  <2> QED
    BY <1>5, <2>1, <2>2
<1> QED
  BY <1>6

\* A terminal nothing is under way for is in no insert or delete and is not
\* announced; a load that is under way did not find it, so it is in neither.
LEMMA CacheImplies ==
  ASSUME TypeOK, LoadInv, CacheInv
  PROVE  CacheFollowsTable
<1> SUFFICES ASSUME Loaded, NEW u \in Ukeys \ crossed, ~Busy(u)
             PROVE  u \in cache[1] <=> u \in Online
  BY DEF CacheFollowsTable
<1>1. LastTells(u) /\ (Untouched(u) => Agrees(u))
  BY CacheParts DEF Settled
<1>2. ~Announced(u)
  <2>1. "auto_alive" \in Threads /\ "auto_alive" \in Triggers
    BY DEF Triggers, Threads
  <2> QED
    BY <2>1 DEF Announced, Busy
<1>3. CASE Untouched(u)
  BY <1>1, <1>2, <1>3 DEF Agrees
<1>4. CASE ~Untouched(u)
  <2> DEFINE S == {k \in 1..executed : Touches(rpc[k], u)}
  <2>1. executed \in Nat /\ S \in SUBSET (1..executed) /\ S # {}
    <3>1. executed \in Nat
      BY DEF TypeOK
    <3>2. PICK k \in 1..executed : Touches(rpc[k], u)
      BY <1>4 DEF Untouched
    <3>3. k \in S
      BY <3>2
    <3> QED
      BY <3>1, <3>3
  <2>2. PICK k \in S : \A j \in S : j <= k
    BY <2>1, Greatest
  <2>3. k \in 1..executed /\ Touches(rpc[k], u)
    BY <2>2
  <2>4. \A j \in (k + 1)..executed : ~Touches(rpc[j], u)
    <3> SUFFICES ASSUME NEW j \in (k + 1)..executed, Touches(rpc[j], u) PROVE FALSE
      OBVIOUS
    <3>1. j \in 1..executed /\ ~(j <= k)
      BY <2>1, <2>3
    <3> QED
      BY <2>2, <3>1
  <2>5. Leaves(rpc[k], u) <=> u \in Online
    BY <1>1, <2>3, <2>4 DEF LastTells
  <2>6. rpc[k] \in Threads
    BY <2>3 DEF TypeOK
  <2>7. /\ u \notin thread[rpc[k]].us /\ u \notin thread[rpc[k]].rs
    BY <2>6 DEF Busy
  <2>8. thread[rpc[k]].at \in Loads /\ ~Leaves(rpc[k], u)
    BY <2>3, <2>7 DEF Touches, Leaves, Loads
  <2>9. Told(u)
    BY <2>6, <2>8, LoadParts DEF Loading
  <2> QED
    BY <1>2, <2>5, <2>8, <2>9 DEF Told
<1> QED
  BY <1>3, <1>4

-----------------------------------------------------------------------------
(* The theorems *)

AuthdInv == TypeOK /\ WaitInv /\ RpcInv /\ RowInv /\ LoadInv /\ CacheInv

\* The inductive invariant holds in the first state.
LEMMA InitAuthd ==
  Init => AuthdInv
<1> SUFFICES ASSUME Init PROVE AuthdInv
  OBVIOUS
<1>1. /\ thread = [t \in Threads |-> Idle] /\ rpc = <<>> /\ executed = 0 /\ cache = <<>>
      /\ Len(rpc) = 0 /\ ~Loaded /\ 1..executed = {} /\ crossed = {}
  BY DEF Init, Loaded
<1>2. Idle \in Rec /\ Idle.at = "idle"
  BY DEF Idle, Rec, Ats
<1>3. thread \in [Threads -> Rec] /\ \A t \in Threads : thread[t].at = "idle"
  BY <1>1, <1>2
<1>4. QueueOK
  BY <1>1, <1>3 DEF QueueOK
<1>5. RestOK /\ Waits /\ CrossedOK
  <2>1. Waits /\ CrossedOK
    BY DEF Init, Waits, CrossedOK
  <2>2. kernel \in [Ukeys -> {"AUTH_OK", "AUTH_BYPASS", "AUTH_REQ"}]
        /\ rows \in [Ukeys -> {"none", "fresh", "idle", "old"}]
    BY DEF Init
  <2>3. cache \in {<<>>} \union {<<S>> : S \in SUBSET Ukeys} /\ bypass_wait \subseteq Ukeys
        /\ crashes \in 0..MaxCrashes /\ restarted \in BOOLEAN
    <3>1. crashes = 0 /\ restarted = FALSE /\ bypass_wait = {} /\ cache = <<>>
      BY DEF Init
    <3>2. crashes \in 0..MaxCrashes
      BY <3>1
    <3>3. restarted \in BOOLEAN /\ bypass_wait \subseteq Ukeys
      BY <3>1
    <3> QED
      BY <3>1, <3>2, <3>3
  <2>4. miss \in [Ukeys -> 0..MaxMiss]
    BY DEF Init
  <2>5. batch \in [Triggers -> [cache: SUBSET Ukeys, running: BOOLEAN]]
    BY DEF Init
  <2> QED
    BY <2>1, <2>2, <2>3, <2>4, <2>5 DEF RestOK
<1>6. RpcInv
  BY <1>1, <1>3 DEF RpcInv, NotWaiting
<1>7. RowInv
  BY DEF Init, RowInv
<1>8. LoadInv
  BY <1>1, <1>3 DEF LoadInv, Crossing, Removing, Loads
<1>9. CacheInv
  BY <1>1 DEF CacheInv
<1> QED
  BY <1>4, <1>5, <1>6, <1>7, <1>8, <1>9, TypeParts DEF AuthdInv

\* Every step keeps the inductive invariant.
LEMMA AuthdInvStep ==
  AuthdInv /\ [Next]_vars => AuthdInv'
<1> SUFFICES ASSUME AuthdInv, [Next]_vars PROVE AuthdInv'
  OBVIOUS
<1> USE DEF AuthdInv
<1>1. CASE Next
  <2>1. Step /\ TypeOK' /\ WaitInv' /\ QueueOK' /\ RpcInv'
    BY <1>1, TypeStep, QueueStep DEF Next
  <2>2. RowInv'
    BY <2>1, RowStep
  <2>3. LoadInv'
    BY <1>1, <2>1, LoadStep
  <2>4. CacheInv'
    BY <1>1, <2>1, CacheStep
  <2> QED
    BY <2>1, <2>2, <2>3, <2>4
<1>2. CASE UNCHANGED vars
  <2> USE <1>2 DEF vars, state
  <2>1. TypeOK' /\ WaitInv'
    BY DEF TypeOK, WaitInv
  <2>2. RpcInv'
    BY DEF RpcInv
  <2>3. RowInv'
    BY DEF RowInv, Online, Done
  <2>4. LoadInv'
    BY DEF LoadInv, Crossing, Loading, Loaded, Removing, Online, Done, Announced
  <2>5. CacheInv'
    BY DEF CacheInv, Touches, Leaves, Online, Loaded, Done, Announced
  <2> QED
    BY <2>1, <2>2, <2>3, <2>4, <2>5
<1> QED
  BY <1>1, <1>2

\* Every variable of authd stays within its type; the entries of the two wait maps
\* (wechat.lua:104-154, cache.lua:166-179) never outnumber the requests.
THEOREM TypeCorrect == Spec => []TypeOK
<1>1. AuthdInv => TypeOK
  BY DEF AuthdInv
<1> QED
  BY InitAuthd, AuthdInvStep, <1>1, PTL DEF Spec

\* A terminal that has to log in and passes has a row once nothing is under way for it, however
\* logins, removals and expiries overlap (authlib.lua:48-79, web.lua:144-158): kernel
\* status and row are changed in different steps and in opposite orders.
THEOREM PassingHasRow == Spec => []OnlineHasRow
<1>1. AuthdInv => OnlineHasRow
  BY RowImplies DEF AuthdInv
<1> QED
  BY InitAuthd, AuthdInvStep, <1>1, PTL DEF Spec

\* online_cache and memo.online agree on a terminal once nothing is under way for it, across
\* loads of the cache by several coroutines, answers that replace it and exits of
\* authd (cache.lua:36-54), unless it was removed while the cache was being loaded.
THEOREM CacheAgrees == Spec => []CacheFollowsTable
<1>1. AuthdInv => CacheFollowsTable
  BY CacheImplies DEF AuthdInv
<1> QED
  BY InitAuthd, AuthdInvStep, <1>1, PTL DEF Spec

=============================================================================
