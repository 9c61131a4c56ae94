----------------------------- MODULE NacsProofs -----------------------------
(***************************************************************************)
(* Proofs about Nacs: the references to ipsets balance, and a packet that  *)
(* came in after the last replacement is treated as the tables say, for    *)
(* every number of tools, replacements, rules and applications.            *)
(***************************************************************************)
EXTENDS Nacs, FiniteSetTheorems, WellFoundedInduction, TLAPS

-----------------------------------------------------------------------------
(* The inductive invariant *)

NoneSwapped == \A t \in Tools : tool[t].pc # "swapped"

Judging == job.pc \in {"control", "audit"}

\* The magic the judgement under way will be stored with.
JudgedAt == IF job.by = "cb" THEN flow.magic ELSE job.magic

\* nacs works on packets only while it is loaded, and a flow it judged is one
\* that was identified.
LoadedInv ==
  /\ job.pc \in {"cb", "hk", "control", "audit"} => loaded
  /\ job.pc # "audit" /\ flow.by # 0 => flow.proto # 0
  /\ Judging /\ job.by = "hk" => flow.proto # 0

\* No magic stored, or about to be, is ahead of the counter; it is behind the
\* counter only when a table was replaced meanwhile.
MagicInv ==
  /\ flow.magic <= magic
  /\ Judging => JudgedAt <= magic
  /\ job # Idle /\ job.clean => NoneSwapped
  /\ Judging /\ job.clean => JudgedAt = magic
  /\ job.pc = "nfw" /\ loaded /\ job.clean /\ flow.by # 0 => flow.magic = magic

\* A flow stored, or half judged, at the present magic while no counter lags
\* behind its tables has the flags these tables give it.
FlagsInv ==
  /\ loaded /\ ~Judging /\ NoneSwapped /\ flow.magic = magic /\ flow.by # 0 => Follows(flow.by)
  /\ job.pc = "control" => ~nt_flow_accepted(flow.flags) /\ ~nt_flow_droped(flow.flags)
  /\ job.pc = "audit" => flow.by = job.proto
  /\ job.pc = "audit" /\ NoneSwapped /\ JudgedAt = magic => ControlFollows(job.proto)

-----------------------------------------------------------------------------
(* The first of several positions *)

\* A set of natural numbers that is not empty has a least element.
LEMMA Least ==
  ASSUME NEW S \in SUBSET Nat, S # {}
  PROVE  \E x \in S : \A y \in S : x <= y
<1> DEFINE R == OpToRel(<, Nat)
<1>1. IsWellFoundedOn(R, Nat)
  BY NatLessThanWellFounded
<1>2. \A x, y \in Nat : y < x => <<y, x>> \in R
  BY DEF OpToRel
<1> HIDE DEF R
<1>3. PICK x \in S : \A y \in S : ~ (<<y, x>> \in R)
  BY <1>1, WFMin
<1>4. ASSUME NEW y \in S PROVE x <= y
  <2>1. x \in Nat /\ y \in Nat
    OBVIOUS
  <2>2. ~(y < x)
    BY <2>1, <1>2, <1>3
  <2> QED
    BY <2>1, <2>2
<1> QED
  BY <1>4

\* First takes the least position of a set (__do_set and __do_table stop at
\* the first entry that applies).
LEMMA FirstIsLeast ==
  ASSUME NEW S \in SUBSET Nat, S # {}
  PROVE  First(S) \in S /\ \A j \in S : First(S) <= j
BY Least DEF First

-----------------------------------------------------------------------------
(* What the code finds is what the tables say *)

\* A rule whose ids are in range covers a flow exactly when the two checks of
\* __do_table succeed.
LEMMA CoversIsMatch ==
  ASSUME NEW r \in Rules, NEW proto
  PROVE  Covers(r, proto) <=> flow_match_check(r) /\ proto_match_check(r, proto)
<1>1. \A z : ac_zone_check(r.srcZones, z) <=> {z, AC_ZONE_MAXID} \cap r.srcZones # {}
  BY DEF Rules, ac_zone_check, AC_ZONE_MAXID
<1>2. \A z : ac_zone_check(r.dstZones, z) <=> {z, AC_ZONE_MAXID} \cap r.dstZones # {}
  BY DEF Rules, ac_zone_check, AC_ZONE_MAXID
<1>3. \A b : ac_ipgrp_check(r.srcGrps, b) <=> (b \cup {AC_IPGRP_MAXID}) \cap r.srcGrps # {}
  BY DEF Rules, ac_ipgrp_check, AC_IPGRP_MAXID
<1>4. \A b : ac_ipgrp_check(r.dstGrps, b) <=> (b \cup {AC_IPGRP_MAXID}) \cap r.dstGrps # {}
  BY DEF Rules, ac_ipgrp_check, AC_IPGRP_MAXID
<1> QED
  BY <1>1, <1>2, <1>3, <1>4 DEF Covers, flow_match_check, proto_match_check, binary_search

\* A function on 1 .. n is a sequence of length n.
LEMMA FunctionIsSeq ==
  ASSUME NEW B, NEW n \in Nat, NEW f \in [1 .. n -> B]
  PROVE  f \in Seq(B) /\ Len(f) = n
OBVIOUS

LEMMA ConcatIsSeq ==
  ASSUME NEW B, NEW f \in Seq(B), NEW g \in Seq(B)
  PROVE  f \o g \in Seq(B) /\ Len(f \o g) = Len(f) + Len(g)
OBVIOUS

IsEntries(f, n, A) == f \in [1 .. n -> [hit : BOOLEAN, actions : A]]
IsConcat(all, f, g) == all = f \o g
Hits(n, f) == {k \in 1 .. n : f[k].hit}
FirstHits(all) == {k \in DOMAIN all : all[k].hit /\ \A j \in 1 .. k - 1 : ~all[j].hit}
ActionsAt(all, first) == UNION {all[k].actions : k \in first}
FirstActions(f, F, g, G) == IF F # {} THEN f[First(F)].actions
                            ELSE IF G # {} THEN g[First(G)].actions ELSE {}

\* The actions at the first position of two lists, one after the other, that
\* applies.
LEMMA FirstHit ==
  ASSUME NEW A, NEW n \in Nat, NEW m \in Nat,
         NEW f, IsEntries(f, n, A), NEW g, IsEntries(g, m, A), NEW all, IsConcat(all, f, g)
  PROVE  ActionsAt(all, FirstHits(all)) = FirstActions(f, Hits(n, f), g, Hits(m, g))
<1> USE DEF IsEntries, IsConcat
<1> DEFINE first == FirstHits(all)
           F == Hits(n, f)
           G == Hits(m, g)
<1> SUFFICES UNION {all[k].actions : k \in first}
               = IF F # {} THEN f[First(F)].actions
                 ELSE IF G # {} THEN g[First(G)].actions ELSE {}
  BY DEF ActionsAt, FirstActions
<1>a. F = {k \in 1 .. n : f[k].hit} /\ G = {k \in 1 .. m : g[k].hit}
  BY DEF Hits
<1>b. first = {k \in DOMAIN all : all[k].hit /\ \A j \in 1 .. k - 1 : ~all[j].hit}
  BY DEF FirstHits
<1> HIDE DEF first, F, G
<1>1. /\ f \in Seq([hit : BOOLEAN, actions : A]) /\ Len(f) = n
      /\ g \in Seq([hit : BOOLEAN, actions : A]) /\ Len(g) = m
  BY FunctionIsSeq
<1>2. DOMAIN all = 1 .. n + m
  <2>1. all \in Seq([hit : BOOLEAN, actions : A]) /\ Len(all) = n + m
    BY <1>1, ConcatIsSeq
  <2> QED
    BY <2>1
<1>3. \A k \in 1 .. n : all[k] = f[k]
  BY <1>1
<1>4. \A k \in 1 .. m : all[n + k] = g[k]
  BY <1>1
<1>5. \A k \in 1 .. n + m : k \notin 1 .. n => k - n \in 1 .. m /\ all[k] = g[k - n]
  BY <1>4
<1>6. CASE F # {}
  <2> DEFINE p == First(F)
  <2>1. p \in F /\ \A j \in F : p <= j
    <3>1. F \in SUBSET Nat
      BY <1>a
    <3> QED
      BY <3>1, <1>6, FirstIsLeast
  <2> HIDE DEF p
  <2>2. p \in 1 .. n /\ all[p] = f[p] /\ all[p].hit
    BY <2>1, <1>3, <1>a
  <2>3. \A j \in 1 .. p - 1 : ~all[j].hit
    <3> TAKE j \in 1 .. p - 1
    <3>1. j \in 1 .. n /\ j < p
      BY <2>2
    <3>2. j \notin F
      BY <3>1, <2>1, <2>2
    <3> QED
      BY <3>1, <3>2, <1>3, <1>a
  <2>4. p \in first
    BY <2>2, <2>3, <1>2, <1>b
  <2>5. ASSUME NEW k \in first PROVE k = p
    <3>1. k \in 1 .. n + m /\ all[k].hit /\ \A j \in 1 .. k - 1 : ~all[j].hit
      BY <1>2, <1>b
    <3>2. ~(p < k)
      BY <3>1, <2>2
    <3>3. ~(k < p)
      BY <3>1, <2>3, <2>2
    <3> QED
      BY <3>1, <3>2, <3>3, <2>2
  <2>6. first = {p}
    BY <2>4, <2>5
  <2>7. UNION {all[k].actions : k \in first} = all[p].actions
    BY <2>6
  <2> QED
    BY <2>7, <2>2, <1>6 DEF p
<1>7. CASE F = {} /\ G # {}
  <2> DEFINE p == First(G)
  <2>1. p \in G /\ \A j \in G : p <= j
    <3>1. G \in SUBSET Nat
      BY <1>a
    <3> QED
      BY <3>1, <1>7, FirstIsLeast
  <2> HIDE DEF p
  <2>2. p \in 1 .. m /\ n + p \in 1 .. n + m /\ all[n + p] = g[p] /\ all[n + p].hit
    BY <2>1, <1>4, <1>a
  <2>3. \A j \in 1 .. n + p - 1 : ~all[j].hit
    <3> TAKE j \in 1 .. n + p - 1
    <3>1. CASE j \in 1 .. n
      BY <3>1, <1>3, <1>7, <1>a
    <3>2. CASE j \notin 1 .. n
      <4>1. j \in 1 .. n + m /\ j - n \in 1 .. m /\ j - n < p
        BY <3>2, <2>2
      <4>2. all[j] = g[j - n]
        BY <4>1, <3>2, <1>5
      <4>3. j - n \notin G
        BY <4>1, <2>1, <2>2
      <4> QED
        BY <4>1, <4>2, <4>3, <1>a
    <3> QED
      BY <3>1, <3>2
  <2>4. n + p \in first
    BY <2>2, <2>3, <1>2, <1>b
  <2>5. ASSUME NEW k \in first PROVE k = n + p
    <3>1. k \in 1 .. n + m /\ all[k].hit /\ \A j \in 1 .. k - 1 : ~all[j].hit
      BY <1>2, <1>b
    <3>2. ~(n + p < k)
      BY <3>1, <2>2
    <3>3. ~(k < n + p)
      BY <3>1, <2>3, <2>2
    <3>4. k \in Int /\ n + p \in Int
      BY <3>1, <2>2
    <3> QED
      BY <3>2, <3>3, <3>4
  <2>6. first = {n + p}
    BY <2>4, <2>5
  <2>7. UNION {all[k].actions : k \in first} = all[n + p].actions
    BY <2>6
  <2> QED
    BY <2>7, <2>2, <1>7 DEF p
<1>8. CASE F = {} /\ G = {}
  <2>1. ASSUME NEW k \in first PROVE FALSE
    <3>1. k \in 1 .. n + m /\ all[k].hit
      BY <1>2, <1>b
    <3>2. CASE k \in 1 .. n
      BY <3>1, <3>2, <1>3, <1>8, <1>a
    <3>3. CASE k \notin 1 .. n
      BY <3>1, <3>3, <1>5, <1>8, <1>a
    <3> QED
      BY <3>2, <3>3
  <2>2. first = {}
    BY <2>1
  <2> QED
    BY <2>2, <1>8
<1> QED
  BY <1>6, <1>7, <1>8

\* The record a judgement makes of one table: nothing found, or the kind of
\* the entry and its actions.
LEMMA JudgementSubs ==
  ASSUME TypeOK, NEW type \in Types, NEW proto
  PROVE  LET res == __do_ac_table(type, proto)
         IN  \/ res = Mismatch
             \/ res.sub \in {"set", "rule"} /\ res # Mismatch
<1>1. __do_set(sets[type]) = Mismatch \/ (__do_set(sets[type]).sub = "set" /\ __do_set(sets[type]) # Mismatch)
  BY DEF __do_set, Mismatch
<1>2. __do_table(rules[type], proto) = Mismatch
        \/ (__do_table(rules[type], proto).sub = "rule" /\ __do_table(rules[type], proto) # Mismatch)
  BY DEF __do_table, Mismatch
<1> QED
  BY <1>1, <1>2 DEF __do_ac_table

\* __do_ac_table finds the actions the tables give the flow.
LEMMA RulingIsFound ==
  ASSUME TypeOK, NEW type \in Types, NEW proto
  PROVE  Ruling(type, proto) = __do_ac_table(type, proto).actions
<1> DEFINE s == sets[type]
           r == rules[type]
           A == SUBSET {"accept", "reject", "audit"}
           f == [k \in DOMAIN s |-> [hit |-> s[k] \in MemberOf, actions |-> ac_set_action_map[k]]]
           g == [k \in DOMAIN r |-> [hit |-> Covers(r[k], proto), actions |-> r[k].actions]]
           F == {k \in DOMAIN s : s[k] \in MemberOf}
           G == {k \in DOMAIN r : Covers(r[k], proto)}
<1>1. PICK n \in 0 .. 4 : s \in [1 .. n -> Ipsets \cup {NoSet}]
  BY DEF TypeOK, SetInfos
<1>2. r \in Seq(Rules)
  BY DEF TypeOK
<1>3. PICK m \in Nat : r \in [1 .. m -> Rules]
  BY <1>2
<1>4. IsEntries(f, n, A)
  <2>1. \A k \in 1 .. n : ac_set_action_map[k] \in A
    BY <1>1 DEF ac_set_action_map
  <2> QED
    BY <2>1, <1>1 DEF IsEntries
<1>5. IsEntries(g, m, A)
  <2>1. \A k \in 1 .. m : r[k].actions \in A
    BY <1>3 DEF Rules
  <2>2. \A k \in 1 .. m : Covers(r[k], proto) \in BOOLEAN
    BY DEF Covers
  <2> QED
    BY <2>1, <2>2, <1>3 DEF IsEntries
<1>6. F = {k \in 1 .. n : f[k].hit}
  BY <1>1
<1>7. G = {k \in 1 .. m : g[k].hit}
  BY <1>3
<1> DEFINE all == f \o g
           first == {k \in DOMAIN all : all[k].hit /\ \A j \in 1 .. k - 1 : ~all[j].hit}
<1>8. Ruling(type, proto) = UNION {all[k].actions : k \in first}
  BY DEF Ruling, FirstThatApplies
<1>9. Ruling(type, proto) = FirstActions(f, F, g, G)
  <2>1. IsConcat(all, f, g) /\ n \in Nat
    BY DEF IsConcat
  <2>2. Ruling(type, proto) = ActionsAt(all, FirstHits(all))
    BY <1>8 DEF ActionsAt, FirstHits
  <2>3. F = Hits(n, f) /\ G = Hits(m, g)
    BY <1>6, <1>7 DEF Hits
  <2> HIDE DEF f, g, F, G, A, all, first
  <2>4. ActionsAt(all, FirstHits(all)) = FirstActions(f, Hits(n, f), g, Hits(m, g))
    BY <2>1, <1>4, <1>5, FirstHit
  <2> QED
    BY <2>2, <2>3, <2>4
<1>10. F # {} => First(F) \in DOMAIN s /\ f[First(F)].actions = ac_set_action_map[First(F)]
  <2>1. F \in SUBSET Nat /\ F \subseteq DOMAIN s
    BY <1>1
  <2>2. F # {} => First(F) \in DOMAIN s
    <3> HIDE DEF F
    <3> QED
      BY <2>1, FirstIsLeast
  <2>3. \A k \in DOMAIN s : f[k].actions = ac_set_action_map[k]
    OBVIOUS
  <2> HIDE DEF f, F
  <2> QED
    BY <2>2, <2>3
<1>11. G # {} => First(G) \in DOMAIN r /\ g[First(G)].actions = r[First(G)].actions
  <2>1. G \in SUBSET Nat /\ G \subseteq DOMAIN r
    BY <1>3
  <2>2. G # {} => First(G) \in DOMAIN r
    <3> HIDE DEF G
    <3> QED
      BY <2>1, FirstIsLeast
  <2>3. \A k \in DOMAIN r : g[k].actions = r[k].actions
    OBVIOUS
  <2> HIDE DEF g, G
  <2> QED
    BY <2>2, <2>3
<1>12. __do_set(s) = IF F = {} THEN Mismatch ELSE [sub |-> "set", actions |-> ac_set_action_map[First(F)]]
  BY DEF __do_set
<1>13. G = {k \in DOMAIN r : flow_match_check(r[k]) /\ proto_match_check(r[k], proto)}
  BY <1>3, CoversIsMatch
<1>14. __do_table(r, proto) = IF G = {} THEN Mismatch ELSE [sub |-> "rule", actions |-> r[First(G)].actions]
  BY <1>13 DEF __do_table
<1> HIDE DEF s, r, f, g, F, G
<1>15. F # {} => __do_set(s) # Mismatch
  BY <1>12 DEF Mismatch
<1> QED
  BY <1>9, <1>10, <1>11, <1>12, <1>14, <1>15 DEF __do_ac_table, Mismatch, FirstActions, s, r

-----------------------------------------------------------------------------
(* Types *)

ToolRecords == [pc : {"call", "lock", "swapped", "free"}, todo : Seq(Replacements) \ {<<>>},
                info : SetInfos \cup Seq(Rules)]

\* What a tool holds fits the call it is in.
InfoFits(x) == x.pc \in {"lock", "swapped", "free"} =>
                 x.info \in IF Head(x.todo).kind = "set" THEN SetInfos ELSE Seq(Rules)

IsTool(x) == x = ToolIdle \/ (x \in ToolRecords /\ InfoFits(x))

LEMMA ToolTypes ==
  TypeOK => /\ tool \in [Tools -> {ToolIdle} \cup ToolRecords]
            /\ \A t \in Tools : IsTool(tool[t])
BY DEF TypeOK, ToolRecords, IsTool, InfoFits, ToolIdle

\* The call a tool is in.
LEMMA ToolCall ==
  ASSUME NEW x, IsTool(x), x.pc # "idle"
  PROVE  /\ x \in ToolRecords
         /\ x.todo \in Seq(Replacements) /\ x.todo # <<>> /\ Len(x.todo) \in Nat \ {0}
         /\ Head(x.todo) \in Replacements
         /\ Head(x.todo).type \in Types
         /\ \/ Head(x.todo).kind = "table" /\ Head(x.todo).info \in Seq(Rules)
            \/ Head(x.todo).kind = "set" /\ \E n \in 0 .. 4 : DOMAIN Head(x.todo).info = 1 .. n
<1>1. x \in ToolRecords
  BY DEF IsTool, ToolIdle
<1>2. x.todo \in Seq(Replacements) /\ x.todo # <<>>
  BY <1>1 DEF ToolRecords
<1>3. Len(x.todo) \in Nat \ {0} /\ Head(x.todo) \in Replacements
  BY <1>2
<1> QED
  BY <1>1, <1>2, <1>3, CommitsAssumption

\* A tool whose record is replaced by one that fits keeps the types.
LEMMA ToolSet ==
  ASSUME TypeOK, NEW t \in Tools, NEW x, IsTool(x)
  PROVE  /\ [tool EXCEPT ![t] = x] \in [Tools -> {ToolIdle} \cup ToolRecords]
         /\ \A u \in Tools : IsTool([tool EXCEPT ![t] = x][u])
<1>1. x \in {ToolIdle} \cup ToolRecords
  BY DEF IsTool
<1> QED
  BY <1>1, ToolTypes

TypeOfTools(f) == f \in [Tools -> {ToolIdle} \cup ToolRecords] /\ \A u \in Tools : IsTool(f[u])

TypeOfFlow(fl, jb, ap) ==
  /\ fl \in [proto : Numbers, flags : SUBSET Flags, magic : Nat, by : Numbers]
  /\ jb \in {Idle} \cup [pc : {"cb", "hk", "control", "audit", "nfw"}, rule : NpRules \cup {Unknown},
                          magic : Nat, proto : Numbers, by : {"hk", "cb"}, clean : BOOLEAN]
  /\ jb.pc = "cb" \/ (jb.pc \in {"control", "audit"} /\ jb.by = "cb") => jb.rule \in NpRules
  /\ jb.pc = "hk" => jb.by = "hk"
  /\ ap \in NpRules \cup {Unknown}

LEMMA TypeParts ==
  TypeOK <=> /\ loaded \in BOOLEAN
             /\ sets \in [Types -> SetInfos]
             /\ rules \in [Types -> Seq(Rules)]
             /\ magic \in Nat
             /\ refs \in [Ipsets -> Int]
             /\ TypeOfTools(tool)
             /\ TypeOfFlow(flow, job, app)
BY DEF TypeOK, TypeOfTools, TypeOfFlow, ToolRecords, IsTool, InfoFits, ToolIdle

LEMMA NamesType ==
  ASSUME NEW info \in SetInfos, NEW i
  PROVE  /\ IsFiniteSet({k \in DOMAIN info : info[k] = i})
         /\ Names(info, i) \in Nat
<1>1. PICK n \in 0 .. 4 : DOMAIN info = 1 .. n
  BY DEF SetInfos
<1>2. IsFiniteSet(1 .. n)
  BY FS_Interval
<1>3. IsFiniteSet({k \in DOMAIN info : info[k] = i})
  BY <1>1, <1>2, FS_Subset
<1> QED
  BY <1>3, FS_CardinalityType DEF Names

LEMMA TranslateType ==
  ASSUME NEW info, NEW n \in 0 .. 4, DOMAIN info = 1 .. n
  PROVE  translate_set(info) \in SetInfos
<1>1. translate_set(info) \in [1 .. n -> Ipsets \cup {NoSet}]
  BY DEF translate_set
<1> QED
  BY <1>1 DEF SetInfos

LEMMA EmptyInfo == <<>> \in SetInfos /\ <<>> \in Seq(Rules)
<1>1. <<>> \in [1 .. 0 -> Ipsets \cup {NoSet}]
  OBVIOUS
<1>2. <<>> \in SetInfos
  BY <1>1 DEF SetInfos
<1> QED
  BY <1>2

\* What is left after a call.
LEMMA ReturnType ==
  ASSUME NEW x, IsTool(x), x.pc # "idle"
  PROVE  IsTool(IF Len(x.todo) = 1 THEN ToolIdle
                ELSE [pc |-> "call", todo |-> Tail(x.todo), info |-> <<>>])
<1>1. x.todo \in Seq(Replacements) /\ x.todo # <<>> /\ Len(x.todo) \in Nat \ {0}
  BY ToolCall
<1>2. ASSUME Len(x.todo) # 1 PROVE Tail(x.todo) \in Seq(Replacements) \ {<<>>}
  <2>1. Tail(x.todo) \in Seq(Replacements) /\ Len(Tail(x.todo)) = Len(x.todo) - 1
    BY <1>1
  <2>2. Len(Tail(x.todo)) # 0
    BY <2>1, <1>1, <1>2
  <2>3. Tail(x.todo) # <<>>
    BY <2>2, Len(<<>>) = 0
  <2> QED
    BY <2>1, <2>3
<1> QED
  BY <1>2, EmptyInfo DEF IsTool, ToolRecords, InfoFits

LEMMA InitType == Init => TypeOK
<1> SUFFICES ASSUME Init PROVE TypeOK
  OBVIOUS
<1>1. sets \in [Types -> SetInfos] /\ rules \in [Types -> Seq(Rules)]
  BY EmptyInfo DEF Init
<1>2. TypeOfTools(tool)
  BY DEF Init, TypeOfTools, IsTool
<1>3. TypeOfFlow(flow, job, app)
  BY DEF Init, TypeOfFlow, Numbers, Idle
<1>4. loaded \in BOOLEAN /\ magic \in Nat /\ refs \in [Ipsets -> Int]
  BY DEF Init, FirstMagic
<1> QED
  BY <1>1, <1>2, <1>3, <1>4, TypeParts

LEMMA JudgedFlags ==
  ASSUME TypeOK, NEW type \in Types
  PROVE  Judged(type) \in SUBSET Flags
<1>1. flow.flags \in SUBSET Flags
  BY DEF TypeOK
<1>2. __do_ac_table(type, job.proto) = Mismatch \/ __do_ac_table(type, job.proto).sub \in {"set", "rule"}
  BY JudgementSubs
<1> QED
  BY <1>1, <1>2 DEF Judged, process_check_result, flow_flags_setdef, Flags

\* A step keeps the types.
LEMMA TypeStep == TypeOK /\ [Next]_vars => TypeOK'
<1> SUFFICES ASSUME TypeOK, [Next]_vars PROVE TypeOK'
  OBVIOUS
<1> SUFFICES /\ loaded' \in BOOLEAN
             /\ sets' \in [Types -> SetInfos]
             /\ rules' \in [Types -> Seq(Rules)]
             /\ magic' \in Nat
             /\ refs' \in [Ipsets -> Int]
             /\ TypeOfTools(tool')
             /\ TypeOfFlow(flow', job', app')
  BY DEF TypeOK, TypeOfTools, TypeOfFlow, ToolRecords, IsTool, InfoFits, ToolIdle
<1>0. /\ loaded \in BOOLEAN
      /\ sets \in [Types -> SetInfos]
      /\ rules \in [Types -> Seq(Rules)]
      /\ magic \in Nat
      /\ refs \in [Ipsets -> Int]
      /\ TypeOfTools(tool)
      /\ TypeOfFlow(flow, job, app)
  BY TypeParts
<1>1. CASE UNCHANGED vars
  BY <1>0, <1>1 DEF vars
<1>2. ASSUME NEW r \in NpRules, nproto_update(r) PROVE TypeOfFlow(flow', job', app')
  <2>1. flow \in [proto : Numbers, flags : SUBSET Flags, magic : Nat, by : Numbers]
    BY <1>0 DEF TypeOfFlow
  <2>2. r.id \in Numbers /\ flow.proto \in Numbers
    BY <2>1 DEF Numbers
  <2>3. \A pc \in {"cb", "nfw"} : Packet(pc, r) \in
          [pc : {"cb", "hk", "control", "audit", "nfw"}, rule : NpRules \cup {Unknown},
           magic : Nat, proto : Numbers, by : {"hk", "cb"}, clean : BOOLEAN]
    BY <2>2 DEF Packet
  <2>4. \A pc \in {"cb", "nfw"} : Packet(pc, r).pc = pc /\ Packet(pc, r).rule = r
    BY DEF Packet
  <2>5. job' \in {Packet("cb", r), Packet("nfw", r)}
    BY <1>2 DEF nproto_update
  <2>6. [flow EXCEPT !.proto = r.id] \in [proto : Numbers, flags : SUBSET Flags, magic : Nat, by : Numbers]
    BY <2>1, <2>2
  <2>7. flow' \in {flow, [flow EXCEPT !.proto = r.id]} /\ app' \in {app, r}
    BY <1>2 DEF nproto_update
  <2>8. app \in NpRules \cup {Unknown}
    BY <1>0 DEF TypeOfFlow
  <2> QED
    BY <2>1, <2>3, <2>4, <2>5, <2>6, <2>7, <2>8 DEF TypeOfFlow
<1>3. CASE SameProto
  BY <1>0, <1>3 DEF SameProto, Packet, TypeOfFlow, Idle
<1>4. ASSUME do_ac_table_cb PROVE TypeOfFlow(flow', job', app')
  <2>1. job # Idle /\ job.rule \in NpRules /\ job.rule.crc \in Numbers
    BY <1>0, <1>4 DEF do_ac_table_cb, Idle, TypeOfFlow, Numbers
  <2> QED
    BY <1>0, <1>4, <2>1 DEF do_ac_table_cb, TypeOfFlow, flow_flags_clr
<1>5. ASSUME do_ac_table_hk PROVE TypeOfFlow(flow', job', app')
  <2>1. job # Idle
    BY <1>5 DEF do_ac_table_hk, Idle
  <2>2. flow.flags \ {"audit_fin", "control_fin", "drop_l4", "drop_l7", "accept_l4", "accept_l7"}
          \in SUBSET Flags
    BY <1>0 DEF TypeOfFlow
  <2>4. CASE flow.proto = 0 \/ flow.magic = magic
    <3>1. flow' = flow /\ app' = app /\ job' = [job EXCEPT !.pc = "nfw"]
      BY <1>5, <2>4 DEF do_ac_table_hk
    <3> QED
      BY <1>0, <2>1, <3>1 DEF TypeOfFlow
  <2>5. CASE ~(flow.proto = 0 \/ flow.magic = magic)
    <3>1. /\ flow' = [flow EXCEPT !.flags = flow_flags_clr(flow.flags)]
          /\ job' = [job EXCEPT !.pc = "control", !.magic = magic, !.proto = flow.proto]
          /\ app' = app
      BY <1>5, <2>5 DEF do_ac_table_hk
    <3>2. job.by = "hk"
      BY <1>0, <1>5 DEF do_ac_table_hk, TypeOfFlow
    <3> QED
      BY <1>0, <2>1, <2>2, <3>1, <3>2 DEF TypeOfFlow, flow_flags_clr
  <2> QED
    BY <2>4, <2>5
<1>6. ASSUME JudgeControl PROVE TypeOfFlow(flow', job', app')
  <2>1. job # Idle /\ Judged("control") \in SUBSET Flags
    BY <1>6, JudgedFlags DEF JudgeControl, Idle, Types
  <2> QED
    BY <1>0, <1>6, <2>1 DEF JudgeControl, TypeOfFlow
<1>7. ASSUME JudgeAudit PROVE TypeOfFlow(flow', job', app')
  <2>1. job # Idle /\ Judged("audit") \in SUBSET Flags
    BY <1>7, JudgedFlags DEF JudgeAudit, Idle, Types
  <2>2. job.by = "cb" => job.rule \in NpRules /\ job.rule.id \in Numbers
    BY <1>0, <1>7, <2>1 DEF JudgeAudit, TypeOfFlow, Numbers
  <2> QED
    BY <1>0, <1>7, <2>1, <2>2 DEF JudgeAudit, TypeOfFlow
<1>8. CASE nfw_hook_fn
  BY <1>0, <1>8 DEF nfw_hook_fn, TypeOfFlow, Idle
<1>9. TypeOfFlow(flow, job, app) /\ Disturb => TypeOfFlow(flow, job', app)
  BY DEF TypeOfFlow, Disturb, Idle
<1>10. ASSUME NEW t \in Tools, Tool(t)
       PROVE  /\ sets' \in [Types -> SetInfos]
              /\ rules' \in [Types -> Seq(Rules)]
              /\ magic' \in Nat
              /\ refs' \in [Ipsets -> Int]
              /\ TypeOfTools(tool')
  <2> DEFINE x == tool[t]
             l == Head(x.todo)
  <2>1. IsTool(x)
    BY ToolTypes
  <2>2. \A y : IsTool(y) => TypeOfTools([tool EXCEPT ![t] = y])
    BY ToolSet DEF TypeOfTools
  <2>3. CASE do_commit_config(t)
    <3>1. PICK c \in Commits : tool' = [tool EXCEPT ![t] = [pc |-> "call", todo |-> c, info |-> <<>>]]
      BY <2>3 DEF do_commit_config
    <3>2. IsTool([pc |-> "call", todo |-> c, info |-> <<>>])
      BY CommitsAssumption, EmptyInfo DEF IsTool, ToolRecords, InfoFits
    <3> QED
      BY <1>0, <2>2, <2>3, <3>1, <3>2 DEF do_commit_config
  <2>4. CASE do_replace_table(t)
    <3>1. x \in ToolRecords /\ l.info \in Seq(Rules) /\ l.kind = "table"
      BY <2>1, <2>4, ToolCall DEF do_replace_table
    <3>2. tool' = [tool EXCEPT ![t] = [x EXCEPT !.pc = "lock", !.info = l.info]]
      BY <1>0, <2>4, <3>1 DEF do_replace_table, TypeOfTools, ToolRecords
    <3>3. IsTool([x EXCEPT !.pc = "lock", !.info = l.info])
      BY <3>1 DEF IsTool, ToolRecords, InfoFits
    <3> QED
      BY <1>0, <2>2, <2>4, <3>2, <3>3 DEF do_replace_table
  <2>5. CASE do_replace_set(t)
    <3> DEFINE info == translate_set(l.info)
    <3>1. x \in ToolRecords /\ l.kind = "set" /\ \E n \in 0 .. 4 : DOMAIN l.info = 1 .. n
      BY <2>1, <2>5, ToolCall DEF do_replace_set
    <3>2. info \in SetInfos
      BY <3>1, TranslateType
    <3>3. tool' = [tool EXCEPT ![t].pc = "lock", ![t].info = info] /\ refs' = ip_set_get(info)
      BY <2>5 DEF do_replace_set
    <3> HIDE DEF info
    <3>4. tool' = [tool EXCEPT ![t] = [x EXCEPT !.pc = "lock", !.info = info]]
      BY <1>0, <3>3, <3>1 DEF TypeOfTools, ToolRecords
    <3>5. IsTool([x EXCEPT !.pc = "lock", !.info = info])
      BY <3>1, <3>2 DEF IsTool, ToolRecords, InfoFits
    <3>6. refs' \in [Ipsets -> Int]
      <4>1. \A i : Names(info, i) \in Nat
        BY <3>2, NamesType
      <4> QED
        BY <1>0, <3>3, <4>1 DEF ip_set_get
    <3>7. TypeOfTools(tool')
      BY <2>2, <3>4, <3>5
    <3> QED
      BY <1>0, <2>5, <3>6, <3>7 DEF do_replace_set
  <2>6. CASE NoMemory(t)
    <3>1. IsTool(ToolIdle)
      BY DEF IsTool
    <3> QED
      BY <1>0, <2>2, <2>6, <3>1 DEF NoMemory
  <2>7. CASE __do_replace_table(t)
    <3>1. /\ x \in ToolRecords /\ l.type \in Types /\ l.kind = "table" /\ x.info \in Seq(Rules)
      BY <2>1, <2>7, ToolCall DEF __do_replace_table, IsTool, InfoFits, ToolIdle
    <3>2. rules[l.type] \in Seq(Rules)
      BY <1>0, <3>1
    <3>3. tool' = [tool EXCEPT ![t] = [x EXCEPT !.pc = "swapped", !.info = rules[l.type]]]
      BY <1>0, <2>7, <3>1 DEF __do_replace_table, TypeOfTools, ToolRecords
    <3>4. IsTool([x EXCEPT !.pc = "swapped", !.info = rules[l.type]])
      BY <3>1, <3>2 DEF IsTool, ToolRecords, InfoFits
    <3>5. rules' \in [Types -> Seq(Rules)]
      BY <1>0, <2>7, <3>1 DEF __do_replace_table
    <3>6. TypeOfTools(tool')
      BY <2>2, <3>3, <3>4
    <3> QED
      BY <1>0, <2>7, <3>5, <3>6 DEF __do_replace_table
  <2>8. CASE __do_replace_set(t)
    <3>1. /\ x \in ToolRecords /\ l.type \in Types /\ l.kind = "set" /\ x.info \in SetInfos
      BY <2>1, <2>8, ToolCall DEF __do_replace_set, IsTool, InfoFits, ToolIdle
    <3>2. sets[l.type] \in SetInfos
      BY <1>0, <3>1
    <3>3. tool' = [tool EXCEPT ![t] = [x EXCEPT !.pc = "swapped", !.info = sets[l.type]]]
      BY <1>0, <2>8, <3>1 DEF __do_replace_set, TypeOfTools, ToolRecords
    <3>4. IsTool([x EXCEPT !.pc = "swapped", !.info = sets[l.type]])
      BY <3>1, <3>2 DEF IsTool, ToolRecords, InfoFits
    <3>5. sets' \in [Types -> SetInfos]
      BY <1>0, <2>8, <3>1 DEF __do_replace_set
    <3>6. TypeOfTools(tool')
      BY <2>2, <3>3, <3>4
    <3> QED
      BY <1>0, <2>8, <3>5, <3>6 DEF __do_replace_set
  <2>9. CASE IncMagic(t)
    <3>1. x \in ToolRecords /\ x.pc = "swapped"
      BY <2>1, <2>9, ToolCall DEF IncMagic
    <3>2. tool' = [tool EXCEPT ![t] = [x EXCEPT !.pc = "free"]]
      BY <2>9 DEF IncMagic
    <3>3. IsTool([x EXCEPT !.pc = "free"])
      BY <2>1, <3>1 DEF IsTool, ToolRecords, InfoFits, ToolIdle
    <3>4. TypeOfTools(tool')
      BY <2>2, <3>2, <3>3
    <3> QED
      BY <1>0, <2>9, <3>4 DEF IncMagic
  <2>10. CASE FreeOld(t)
    <3> DEFINE y == IF Len(x.todo) = 1 THEN ToolIdle
                    ELSE [pc |-> "call", todo |-> Tail(x.todo), info |-> <<>>]
    <3>1. IsTool(y)
      BY <2>1, <2>10, ReturnType DEF FreeOld
    <3>2. tool' = [tool EXCEPT ![t] = y]
      BY <2>10 DEF FreeOld, Return
    <3>3. l.kind = "set" => x.info \in SetInfos
      BY <2>1, <2>10 DEF FreeOld, IsTool, InfoFits, ToolIdle
    <3>4. refs' \in [Ipsets -> Int]
      <4>1. l.kind = "set" => \A i : Names(x.info, i) \in Nat
        BY <3>3, NamesType
      <4>2. refs' = IF l.kind = "set" THEN [i \in Ipsets |-> refs[i] - Names(x.info, i)] ELSE refs
        BY <2>10 DEF FreeOld, ip_set_put
      <4> QED
        BY <1>0, <4>1, <4>2
    <3> QED
      BY <1>0, <2>2, <2>10, <3>1, <3>2, <3>4 DEF FreeOld
  <2> QED
    BY <1>10, <2>3, <2>4, <2>5, <2>6, <2>7, <2>8, <2>9, <2>10 DEF Tool
<1>11. ASSUME NEW t \in Tools, Tool(t) PROVE TypeOfFlow(flow', job', app') /\ loaded' \in BOOLEAN
  BY <1>0, <1>9, <1>11 DEF Tool, do_commit_config, do_replace_table, do_replace_set, NoMemory,
     __do_replace_table, __do_replace_set, IncMagic, FreeOld
<1>12. CASE nacs_fini
  <2>1. \A i : Names(sets["control"], i) \in Nat /\ Names(sets["audit"], i) \in Nat
    <3>1. sets["control"] \in SetInfos /\ sets["audit"] \in SetInfos
      BY <1>0 DEF Types
    <3> QED
      BY <3>1, NamesType
  <2>2. refs' \in [Ipsets -> Int]
    BY <1>0, <1>12, <2>1 DEF nacs_fini
  <2>3. sets' \in [Types -> SetInfos] /\ rules' \in [Types -> Seq(Rules)]
    BY <1>12, EmptyInfo DEF nacs_fini
  <2> QED
    BY <1>0, <1>12, <2>2, <2>3 DEF nacs_fini
<1>13. CASE Forward
  <2>1. TypeOfFlow(flow', job', app')
    BY <1>13, <1>0, <1>2, <1>3, <1>4, <1>5, <1>6, <1>7, <1>8 DEF Forward
  <2>2. UNCHANGED <<loaded, sets, rules, magic, refs, tool>>
    BY <1>13 DEF Forward, nproto_update, SameProto, do_ac_table_cb, do_ac_table_hk, JudgeControl,
       JudgeAudit, nfw_hook_fn
  <2> QED
    BY <1>0, <2>1, <2>2
<1> QED
  BY <1>1, <1>10, <1>11, <1>12, <1>13 DEF Next

-----------------------------------------------------------------------------
(* References to ipsets *)

\* A tool between translate_set and free_ac_set_info has a list in its hands.
HasList(x) == x.pc \in {"lock", "swapped", "free"} /\ Head(x.todo).kind = "set"

HeldBy(x, i) == {k \in 1 .. 4 : HasList(x) /\ k \in DOMAIN x.info /\ x.info[k] = i}

Held(f, i) == {h \in Tools \X (1 .. 4) : h[2] \in HeldBy(f[h[1]], i)}

HeldCount(x, i) == IF HasList(x) THEN Names(x.info, i) ELSE 0

Balance(i) == refs[i] = Names(sets["control"], i) + Names(sets["audit"], i) + Cardinality(Held(tool, i))

LEMMA BalanceIs == RefsBalanced <=> \A i \in Ipsets : Balance(i)
<1>1. \A i : Held(tool, i) = {h \in Tools \X (1 .. 4) :
                               /\ tool[h[1]].pc \in {"lock", "swapped", "free"}
                               /\ Head(tool[h[1]].todo).kind = "set"
                               /\ h[2] \in DOMAIN tool[h[1]].info
                               /\ tool[h[1]].info[h[2]] = i}
  BY DEF Held, HeldBy, HasList
<1> QED
  BY <1>1 DEF RefsBalanced, Balance

\* What one tool holds, counted by position.
LEMMA HeldByCount ==
  ASSUME NEW x, IsTool(x), NEW i
  PROVE  /\ IsFiniteSet(HeldBy(x, i))
         /\ Cardinality(HeldBy(x, i)) = HeldCount(x, i)
         /\ HeldCount(x, i) \in Nat
<1>1. CASE HasList(x)
  <2>1. x.info \in SetInfos
    BY <1>1 DEF HasList, IsTool, InfoFits, ToolIdle
  <2>2. PICK n \in 0 .. 4 : DOMAIN x.info = 1 .. n
    BY <2>1 DEF SetInfos
  <2>3. HeldBy(x, i) = {k \in DOMAIN x.info : x.info[k] = i}
    BY <1>1, <2>2 DEF HeldBy
  <2> QED
    BY <1>1, <2>1, <2>3, NamesType DEF HeldCount, Names
<1>2. CASE ~HasList(x)
  <2>1. HeldBy(x, i) = {}
    BY <1>2 DEF HeldBy
  <2> QED
    BY <1>2, <2>1, FS_EmptySet DEF HeldCount
<1> QED
  BY <1>1, <1>2

\* The references held by all tools are those of one and those of the others.
LEMMA HeldSplit ==
  ASSUME NEW f, NEW t \in Tools, NEW i, IsTool(f[t])
  PROVE  LET others == {h \in Held(f, i) : h[1] # t}
         IN  /\ IsFiniteSet(others) /\ Cardinality(others) \in Nat
             /\ Cardinality(Held(f, i)) = Cardinality(others) + HeldCount(f[t], i)
<1> DEFINE others == {h \in Held(f, i) : h[1] # t}
           S == HeldBy(f[t], i)
           own == {t} \X S
<1>1. IsFiniteSet(Tools \X (1 .. 4))
  <2>1. IsFiniteSet(1 .. 4)
    <3>1. PICK n \in Int : n = 4
      OBVIOUS
    <3>2. IsFiniteSet(1 .. n)
      BY FS_Interval
    <3> QED
      BY <3>1, <3>2
  <2> QED
    BY <2>1, ToolsAssumption, FS_Product
<1>2. IsFiniteSet(others) /\ Cardinality(others) \in Nat
  <2>1. others \in SUBSET (Tools \X (1 .. 4))
    BY DEF Held
  <2> HIDE DEF others
  <2>2. IsFiniteSet(others)
    BY <2>1, <1>1, FS_Subset
  <2> QED
    BY <2>2, FS_CardinalityType
<1>3. IsFiniteSet(S) /\ Cardinality(S) = HeldCount(f[t], i) /\ HeldCount(f[t], i) \in Nat
  BY HeldByCount
<1>4. IsFiniteSet(own) /\ Cardinality(own) = HeldCount(f[t], i)
  <2>1. IsFiniteSet({t}) /\ Cardinality({t}) = 1
    BY FS_Singleton
  <2> HIDE DEF S
  <2>2. IsFiniteSet(own) /\ Cardinality(own) = 1 * Cardinality(S)
    BY <2>1, <1>3, FS_Product
  <2> QED
    BY <2>2, <1>3
<1>5. Held(f, i) = others \cup own
  BY DEF Held, HeldBy
<1>6. others \cap own = {}
  OBVIOUS
<1> HIDE DEF others, own
<1>7. Cardinality(others \cup own) = Cardinality(others) + Cardinality(own) - Cardinality(others \cap own)
  BY <1>2, <1>4, FS_Union
<1>8. Cardinality(Held(f, i)) = Cardinality(others) + HeldCount(f[t], i)
  <2>1. Cardinality(others \cap own) = 0
    BY <1>6, FS_EmptySet
  <2> QED
    BY <1>2, <1>3, <1>4, <1>5, <1>7, <2>1
<1> QED
  BY <1>2, <1>8 DEF others

\* When the record of one tool changes, so does its part of the references.
LEMMA HeldUpdate ==
  ASSUME TypeOK, NEW t \in Tools, NEW y, IsTool(y), NEW i,
         NEW n, n = Cardinality(Held(tool, i)),
         NEW m, m = Cardinality(Held([tool EXCEPT ![t] = y], i))
  PROVE  /\ n \in Int /\ m \in Int
         /\ HeldCount(tool[t], i) \in Nat /\ HeldCount(y, i) \in Nat
         /\ m = n - HeldCount(tool[t], i) + HeldCount(y, i)
<1> DEFINE g == [tool EXCEPT ![t] = y]
           o1 == {h \in Held(tool, i) : h[1] # t}
           o2 == {h \in Held(g, i) : h[1] # t}
<1>1. tool \in [Tools -> {ToolIdle} \cup ToolRecords] /\ IsTool(tool[t])
  BY ToolTypes
<1>2. g[t] = y /\ \A u \in Tools : u # t => g[u] = tool[u]
  BY <1>1
<1>3. o1 = o2
  BY <1>2 DEF Held
<1>4. Cardinality(o1) \in Nat /\ n = Cardinality(o1) + HeldCount(tool[t], i)
  BY <1>1, HeldSplit
<1>5. m = Cardinality(o2) + HeldCount(y, i)
  <2>1. IsTool(g[t])
    BY <1>2
  <2>2. Cardinality(Held(g, i)) = Cardinality(o2) + HeldCount(g[t], i)
    <3> HIDE DEF g
    <3> QED
      BY <2>1, HeldSplit
  <2> QED
    BY <2>2, <1>2
<1>6. HeldCount(tool[t], i) \in Nat /\ HeldCount(y, i) \in Nat
  BY <1>1, HeldByCount
<1> HIDE DEF o1, o2
<1> QED
  BY <1>3, <1>4, <1>5, <1>6

\* A step of a tool changes its own record alone.
LEMMA OwnRecord ==
  ASSUME TypeOK, NEW t \in Tools, Tool(t)
  PROVE  tool' = [tool EXCEPT ![t] = tool'[t]]
<1>1. tool \in [Tools -> {ToolIdle} \cup ToolRecords]
  BY ToolTypes
<1>2. CASE do_commit_config(t) \/ do_replace_table(t) \/ NoMemory(t) \/ IncMagic(t)
  BY <1>1, <1>2 DEF do_commit_config, do_replace_table, NoMemory, IncMagic
<1>3. CASE do_replace_set(t)
  BY <1>1, <1>3 DEF do_replace_set
<1>4. CASE __do_replace_table(t)
  BY <1>1, <1>4 DEF __do_replace_table
<1>5. CASE __do_replace_set(t)
  BY <1>1, <1>5 DEF __do_replace_set
<1>6. CASE FreeOld(t)
  BY <1>1, <1>6 DEF FreeOld, Return
<1> QED
  BY <1>2, <1>3, <1>4, <1>5, <1>6 DEF Tool

\* The record of the tool after each step that takes or gives back a list.
LEMMA RecordAfter ==
  ASSUME TypeOK, NEW t \in Tools, Tool(t)
  PROVE  LET x == tool[t]
             y == tool'[t]
         IN  /\ do_commit_config(t) => x = ToolIdle /\ y.pc = "call"
             /\ do_replace_table(t) => x.pc = "call" /\ y.todo = x.todo /\ Head(x.todo).kind = "table"
             /\ do_replace_set(t) => /\ x.pc = "call" /\ y.pc = "lock" /\ y.todo = x.todo
                                     /\ Head(x.todo).kind = "set"
                                     /\ y.info = translate_set(Head(x.todo).info)
             /\ NoMemory(t) => x.pc = "call" /\ y = ToolIdle
             /\ __do_replace_table(t) => /\ y.todo = x.todo /\ Head(x.todo).kind = "table"
             /\ __do_replace_set(t) => /\ x.pc = "lock" /\ y.pc = "swapped" /\ y.todo = x.todo
                                       /\ Head(x.todo).kind = "set"
                                       /\ y.info = sets[Head(x.todo).type]
             /\ IncMagic(t) => x.pc = "swapped" /\ y.pc = "free" /\ y.todo = x.todo /\ y.info = x.info
             /\ FreeOld(t) => x.pc = "free" /\ y.pc \in {"idle", "call"}
<1> DEFINE x == tool[t]
           y == tool'[t]
<1>0. tool \in [Tools -> {ToolIdle} \cup ToolRecords] /\ IsTool(x)
  BY ToolTypes
<1>1. x.pc # "idle" => x \in ToolRecords
  BY <1>0 DEF IsTool, ToolIdle
<1>2. do_commit_config(t) => x = ToolIdle /\ y.pc = "call"
  BY <1>0 DEF do_commit_config
<1>3. do_replace_table(t) => x.pc = "call" /\ y.todo = x.todo /\ Head(x.todo).kind = "table"
  BY <1>0, <1>1 DEF do_replace_table, ToolRecords
<1>4. do_replace_set(t) => /\ x.pc = "call" /\ y.pc = "lock" /\ y.todo = x.todo
                           /\ Head(x.todo).kind = "set"
                           /\ y.info = translate_set(Head(x.todo).info)
  BY <1>0, <1>1 DEF do_replace_set, ToolRecords
<1>5. NoMemory(t) => x.pc = "call" /\ y = ToolIdle
  BY <1>0 DEF NoMemory
<1>6. __do_replace_table(t) => /\ y.todo = x.todo /\ Head(x.todo).kind = "table"
  BY <1>0, <1>1 DEF __do_replace_table, ToolRecords
<1>7. __do_replace_set(t) => /\ x.pc = "lock" /\ y.pc = "swapped" /\ y.todo = x.todo
                             /\ Head(x.todo).kind = "set"
                             /\ y.info = sets[Head(x.todo).type]
  BY <1>0, <1>1 DEF __do_replace_set, ToolRecords
<1>8. IncMagic(t) => x.pc = "swapped" /\ y.pc = "free" /\ y.todo = x.todo /\ y.info = x.info
  BY <1>0, <1>1 DEF IncMagic, ToolRecords
<1>9. FreeOld(t) => x.pc = "free" /\ y.pc \in {"idle", "call"}
  BY <1>0 DEF FreeOld, Return, ToolIdle
<1> QED
  BY <1>2, <1>3, <1>4, <1>5, <1>6, <1>7, <1>8, <1>9

\* A step of a tool keeps the balance.
LEMMA ToolBalance ==
  ASSUME TypeOK, TypeOK', NEW t \in Tools, Tool(t), NEW i \in Ipsets, Balance(i)
  PROVE  Balance(i)'
<1> DEFINE x == tool[t]
<1>0. IsTool(x) /\ IsTool(tool'[t])
  <2>1. tool' \in [Tools -> {ToolIdle} \cup ToolRecords] /\ \A u \in Tools : IsTool(tool'[u])
    BY DEF TypeOK, ToolRecords, IsTool, InfoFits, ToolIdle
  <2> QED
    BY <2>1, ToolTypes
<1> PICK y : y = tool'[t]
  OBVIOUS
<1>1. tool' = [tool EXCEPT ![t] = y] /\ IsTool(y)
  BY OwnRecord, <1>0
<1> DEFINE n == Cardinality(Held(tool, i))
           m == Cardinality(Held(tool', i))
           a == HeldCount(x, i)
           b == HeldCount(y, i)
           N == Names(sets["control"], i) + Names(sets["audit"], i)
<1>2. n \in Int /\ m \in Int /\ a \in Nat /\ b \in Nat /\ m = n - a + b
  <2>1. n = Cardinality(Held(tool, i)) /\ m = Cardinality(Held([tool EXCEPT ![t] = y], i))
    BY <1>1
  <2> HIDE DEF n, m
  <2> QED
    BY <1>1, <2>1, HeldUpdate
<1>3. /\ Names(sets["control"], i) \in Nat /\ Names(sets["audit"], i) \in Nat
      /\ refs \in [Ipsets -> Int] /\ refs[i] = N + n
  <2>1. sets["control"] \in SetInfos /\ sets["audit"] \in SetInfos
    BY DEF TypeOK, Types
  <2> QED
    BY <2>1, NamesType DEF TypeOK, Balance
<1>4. Balance(i)' <=> refs'[i] = Names(sets'["control"], i) + Names(sets'["audit"], i) + m
  BY DEF Balance, Held, HeldBy, HasList, Names
<1> HIDE DEF n, m
<1>5. CASE do_commit_config(t)
  <2>1. ~HasList(x) /\ ~HasList(y)
    BY <1>5, RecordAfter DEF HasList, ToolIdle
  <2> QED
    BY <1>2, <1>3, <1>4, <1>5, <2>1 DEF do_commit_config, HeldCount
<1>6. CASE do_replace_table(t)
  <2>1. ~HasList(x) /\ ~HasList(y)
    BY <1>6, RecordAfter DEF HasList
  <2> QED
    BY <1>2, <1>3, <1>4, <1>6, <2>1 DEF do_replace_table, HeldCount
<1>7. CASE do_replace_set(t)
  <2> DEFINE info == translate_set(Head(x.todo).info)
  <2>1. ~HasList(x) /\ HasList(y) /\ y.info = info
    BY <1>7, RecordAfter DEF HasList
  <2>2. a = 0 /\ b = Names(info, i)
    BY <2>1 DEF HeldCount
  <2>3. refs'[i] = refs[i] + Names(info, i) /\ sets' = sets
    BY <1>3, <1>7 DEF do_replace_set, ip_set_get
  <2> QED
    BY <1>2, <1>3, <1>4, <2>2, <2>3
<1>8. CASE NoMemory(t)
  <2>1. ~HasList(x) /\ ~HasList(y)
    BY <1>8, RecordAfter DEF HasList, ToolIdle
  <2> QED
    BY <1>2, <1>3, <1>4, <1>8, <2>1 DEF NoMemory, HeldCount
<1>9. CASE __do_replace_table(t)
  <2>1. ~HasList(x) /\ ~HasList(y)
    BY <1>9, RecordAfter DEF HasList
  <2> QED
    BY <1>2, <1>3, <1>4, <1>9, <2>1 DEF __do_replace_table, HeldCount
<1>10. CASE __do_replace_set(t)
  <2> DEFINE type == Head(x.todo).type
  <2>1. HasList(x) /\ HasList(y) /\ y.info = sets[type]
    BY <1>10, RecordAfter DEF HasList
  <2>2. a = Names(x.info, i) /\ b = Names(sets[type], i)
    BY <2>1 DEF HeldCount
  <2>3. type \in Types
    BY <1>0, <2>1, ToolCall DEF HasList
  <2>4. refs' = refs /\ sets' = [sets EXCEPT ![type] = x.info] /\ sets \in [Types -> SetInfos]
    BY <1>10 DEF __do_replace_set, TypeOK
  <2>5. CASE type = "control"
    <3>1. sets'["control"] = x.info /\ sets'["audit"] = sets["audit"]
      BY <2>4, <2>5 DEF Types
    <3> QED
      BY <1>2, <1>3, <1>4, <2>2, <2>4, <2>5, <3>1
  <2>6. CASE type = "audit"
    <3>1. sets'["audit"] = x.info /\ sets'["control"] = sets["control"]
      BY <2>4, <2>6 DEF Types
    <3> QED
      BY <1>2, <1>3, <1>4, <2>2, <2>4, <2>6, <3>1
  <2> QED
    BY <2>3, <2>5, <2>6 DEF Types
<1>11. CASE IncMagic(t)
  <2>1. (HasList(x) <=> HasList(y)) /\ y.info = x.info
    BY <1>11, RecordAfter DEF HasList
  <2>2. a = b
    BY <2>1 DEF HeldCount
  <2>3. sets' = sets /\ refs' = refs
    BY <1>11 DEF IncMagic
  <2> HIDE DEF a, b
  <2>4. m = n
    BY <1>2, <2>2
  <2> QED
    BY <1>3, <1>4, <2>3, <2>4
<1>12. CASE FreeOld(t)
  <2>1. ~HasList(y) /\ (HasList(x) <=> Head(x.todo).kind = "set")
    BY <1>12, RecordAfter DEF HasList
  <2>2. b = 0 /\ a = IF Head(x.todo).kind = "set" THEN Names(x.info, i) ELSE 0
    BY <2>1 DEF HeldCount
  <2>3. sets' = sets /\ refs'[i] = refs[i] - a
    BY <1>3, <1>12, <2>2 DEF FreeOld, ip_set_put
  <2>4. b = 0
    BY <2>2
  <2> HIDE DEF a, b
  <2>5. refs'[i] = Names(sets["control"], i) + Names(sets["audit"], i) + m
    BY <1>2, <1>3, <2>3, <2>4
  <2> QED
    BY <1>4, <2>3, <2>5
<1> QED
  BY <1>5, <1>6, <1>7, <1>8, <1>9, <1>10, <1>11, <1>12 DEF Tool

LEMMA BalanceInit == Init => RefsBalanced
<1> SUFFICES ASSUME Init, NEW i \in Ipsets PROVE Balance(i)
  BY BalanceIs
<1>1. Held(tool, i) = {}
  BY DEF Init, Held, HeldBy, HasList, ToolIdle
<1>2. Names(<<>>, i) = 0
  <2>1. {k \in DOMAIN <<>> : <<>>[k] = i} = {}
    OBVIOUS
  <2> QED
    BY <2>1, FS_EmptySet DEF Names
<1>3. sets["control"] = <<>> /\ sets["audit"] = <<>> /\ refs[i] = 0
  BY DEF Init, Types
<1> QED
  BY <1>1, <1>2, <1>3, FS_EmptySet DEF Balance

LEMMA BalanceStep == TypeOK /\ TypeOK' /\ RefsBalanced /\ [Next]_vars => RefsBalanced'
<1> SUFFICES ASSUME TypeOK, TypeOK', RefsBalanced, [Next]_vars PROVE RefsBalanced'
  OBVIOUS
<1>0. ASSUME NEW i \in Ipsets PROVE Balance(i)
  BY BalanceIs
<1> SUFFICES ASSUME NEW i \in Ipsets PROVE Balance(i)'
  BY DEF RefsBalanced, Balance, Held, HeldBy, HasList
<1>1. CASE UNCHANGED vars \/ Forward
  <2>1. UNCHANGED <<refs, sets, tool>>
    BY <1>1 DEF vars, Forward, nproto_update, SameProto, do_ac_table_cb, do_ac_table_hk,
       JudgeControl, JudgeAudit, nfw_hook_fn
  <2> QED
    BY <1>0, <2>1 DEF Balance, Held, HeldBy, HasList
<1>2. ASSUME NEW t \in Tools, Tool(t) PROVE Balance(i)'
  BY <1>0, <1>2, ToolBalance
<1>3. CASE nacs_fini
  <2>1. Held(tool, i) = {} /\ tool' = tool
    BY <1>3 DEF nacs_fini, Held, HeldBy, HasList, ToolIdle
  <2>2. Held(tool, i)' = {}
    BY <2>1 DEF Held, HeldBy, HasList
  <2>3. Cardinality({}) = 0
    BY FS_EmptySet
  <2>4. Names(<<>>, i) = 0
    <3>1. {k \in DOMAIN <<>> : <<>>[k] = i} = {}
      OBVIOUS
    <3> QED
      BY <3>1, <2>3 DEF Names
  <2>5. sets'["control"] = <<>> /\ sets'["audit"] = <<>>
    BY <1>3 DEF nacs_fini, Types
  <2>6. refs'[i] = refs[i] - Names(sets["control"], i) - Names(sets["audit"], i)
    BY <1>3 DEF nacs_fini
  <2>7. /\ Names(sets["control"], i) \in Nat /\ Names(sets["audit"], i) \in Nat
        /\ refs[i] = Names(sets["control"], i) + Names(sets["audit"], i) + 0
    <3>1. sets["control"] \in SetInfos /\ sets["audit"] \in SetInfos
      BY DEF TypeOK, Types
    <3> QED
      BY <1>0, <2>1, <2>3, <3>1, NamesType DEF Balance
  <2>8. refs'[i] = 0
    BY <2>6, <2>7
  <2> QED
    BY <2>2, <2>3, <2>4, <2>5, <2>8 DEF Balance
<1> QED
  BY <1>1, <1>2, <1>3 DEF Next

\* The types, for every reachable state.
THEOREM TypeCorrect == Spec => []TypeOK
BY InitType, TypeStep, PTL DEF Spec

\* translate_set and free_ac_set_info are balanced: with any number of tools,
\* configurations and failed calls, the ipset module counts one reference for
\* each place that names an ipset, and none is left after table_fini.
THEOREM ReferencesBalance == Spec => []RefsBalanced
<1>1. Init => RefsBalanced
  BY BalanceInit
<1>2. TypeOK /\ TypeOK' /\ RefsBalanced /\ [Next]_vars => RefsBalanced'
  BY BalanceStep
<1> QED
  BY <1>1, <1>2, TypeCorrect, PTL DEF Spec

-----------------------------------------------------------------------------
(* Judgements *)

\* Judging the control table from cleared flags gives the verdict of the tables.
LEMMA ControlJudged ==
  ASSUME TypeOK, ~nt_flow_accepted(flow.flags), ~nt_flow_droped(flow.flags)
  PROVE  (Verdict(Judged("control")) = "drop") <=> Rejected(Ruling("control", job.proto))
<1> DEFINE res == __do_ac_table("control", job.proto)
<1>1. res = Mismatch \/ (res.sub \in {"set", "rule"} /\ res # Mismatch)
  BY JudgementSubs DEF Types
<1>2. Ruling("control", job.proto) = res.actions
  BY RulingIsFound DEF Types
<1>3. Judged("control") = IF res = Mismatch THEN flow.flags
                          ELSE process_check_result(flow.flags, "control", res)
  BY DEF Judged
<1> HIDE DEF res
<1>4. CASE res = Mismatch
  BY <1>2, <1>3, <1>4 DEF Verdict, Rejected, Mismatch
<1>5. CASE res # Mismatch
  BY <1>1, <1>2, <1>3, <1>5 DEF Verdict, process_check_result, flow_flags_setdef,
     nt_flow_accepted, nt_flow_droped
<1> QED
  BY <1>4, <1>5

\* Judging the audit table leaves the verdict and notes what is to be audited.
LEMMA AuditJudged ==
  ASSUME TypeOK
  PROVE  /\ Verdict(Judged("audit")) = Verdict(flow.flags)
         /\ "audit" \in Ruling("audit", job.proto) => "audit" \in Judged("audit")
<1> DEFINE res == __do_ac_table("audit", job.proto)
<1>1. Ruling("audit", job.proto) = res.actions
  BY RulingIsFound DEF Types
<1>2. Judged("audit") = IF res = Mismatch THEN flow.flags
                        ELSE process_check_result(flow.flags, "audit", res)
  BY DEF Judged
<1> HIDE DEF res
<1>3. CASE res = Mismatch
  BY <1>1, <1>2, <1>3 DEF Mismatch
<1>4. CASE res # Mismatch
  <2>1. Judged("audit") = flow.flags \cup {"audit_fin"} \cup ({"audit"} \cap res.actions)
    BY <1>2, <1>4 DEF process_check_result, flow_flags_setdef
  <2> QED
    BY <1>1, <2>1 DEF Verdict, nt_flow_accepted, nt_flow_droped
<1> QED
  BY <1>3, <1>4

FlowInv == LoadedInv /\ MagicInv /\ FlagsInv

LEMMA FlowInit == Init => FlowInv
BY DEF Init, FlowInv, LoadedInv, MagicInv, FlagsInv, Judging, Idle, FirstMagic

\* A packet's step keeps the relation of flags, magic and tables.
LEMMA PacketStep ==
  ASSUME TypeOK, FlowInv, Forward
  PROVE  FlowInv'
<1>0. /\ flow \in [proto : Numbers, flags : SUBSET Flags, magic : Nat, by : Numbers]
      /\ magic \in Nat
      /\ job = Idle \/ job \in [pc : {"cb", "hk", "control", "audit", "nfw"}, rule : NpRules \cup {Unknown},
                          magic : Nat, proto : Numbers, by : {"hk", "cb"}, clean : BOOLEAN]
      /\ LoadedInv /\ MagicInv /\ FlagsInv
  BY DEF TypeOK, FlowInv
<1> USE DEF FlowInv
<1>1. CASE \E r \in NpRules : nproto_update(r)
  <2>1. PICK r \in NpRules : nproto_update(r)
    BY <1>1
  <2>2. r.id # 0
    BY NpRulesAssumption
  <2>3. job = Idle /\ job.pc = "idle"
    BY <2>1 DEF nproto_update, Idle
  <2>4. CASE loaded
    <3>1. /\ job'.pc = "cb" /\ (job'.clean <=> NoneSwapped)
          /\ UNCHANGED <<loaded, sets, rules, magic, tool, flow>>
      BY <2>1, <2>4 DEF nproto_update, Packet, NoneSwapped
    <3> QED
      BY <1>0, <2>3, <2>4, <3>1 DEF LoadedInv, MagicInv, FlagsInv, Judging, JudgedAt, NoneSwapped,
         Follows, ControlFollows, Ruling
  <2>5. CASE ~loaded
    <3>1. /\ job'.pc = "nfw" /\ (job'.clean <=> NoneSwapped) /\ flow' = [flow EXCEPT !.proto = r.id]
          /\ UNCHANGED <<loaded, sets, rules, magic, tool>>
      BY <2>1, <2>5 DEF nproto_update, Packet, NoneSwapped
    <3> QED
      BY <1>0, <2>2, <2>3, <2>5, <3>1 DEF LoadedInv, MagicInv, FlagsInv, Judging, JudgedAt, NoneSwapped
  <2> QED
    BY <2>4, <2>5
<1>2. CASE SameProto
  <2>1. job = Idle /\ job.pc = "idle"
    BY <1>2 DEF SameProto, Idle
  <2>2. /\ job'.pc = (IF loaded THEN "hk" ELSE "nfw") /\ (job'.clean <=> NoneSwapped)
        /\ UNCHANGED <<loaded, sets, rules, magic, tool, flow>>
    BY <1>2 DEF SameProto, Packet, NoneSwapped
  <2> QED
    BY <1>0, <2>1, <2>2 DEF LoadedInv, MagicInv, FlagsInv, Judging, JudgedAt, NoneSwapped,
       Follows, ControlFollows, Ruling
<1>3. CASE do_ac_table_cb
  <2>1. job.pc = "cb" /\ job # Idle
    BY <1>3 DEF do_ac_table_cb, Idle
  <2>2. /\ flow'.magic = magic /\ flow'.flags = flow_flags_clr(flow.flags)
        /\ flow'.by = flow.by /\ flow'.proto = flow.proto
        /\ job'.pc = "control" /\ job'.by = "cb" /\ job'.clean = job.clean
        /\ UNCHANGED <<loaded, sets, rules, magic, tool>>
    BY <1>0, <1>3, <2>1 DEF do_ac_table_cb
  <2> QED
    BY <1>0, <2>1, <2>2 DEF LoadedInv, MagicInv, FlagsInv, Judging, JudgedAt, NoneSwapped,
       flow_flags_clr, nt_flow_accepted, nt_flow_droped
<1>4. CASE do_ac_table_hk
  <2>1. job.pc = "hk" /\ job # Idle /\ job.by = "hk"
    BY <1>4 DEF do_ac_table_hk, Idle, TypeOK
  <2>2. CASE flow.proto = 0 \/ flow.magic = magic
    <3>1. /\ job'.pc = "nfw" /\ job'.clean = job.clean
          /\ UNCHANGED <<loaded, sets, rules, magic, tool, flow>>
      BY <1>0, <1>4, <2>1, <2>2 DEF do_ac_table_hk
    <3> QED
      BY <1>0, <2>1, <2>2, <3>1 DEF LoadedInv, MagicInv, FlagsInv, Judging, JudgedAt, NoneSwapped,
         Follows, ControlFollows, Ruling
  <2>3. CASE ~(flow.proto = 0 \/ flow.magic = magic)
    <3>1. /\ flow'.magic = flow.magic /\ flow'.flags = flow_flags_clr(flow.flags)
          /\ flow'.by = flow.by /\ flow'.proto = flow.proto
          /\ job'.pc = "control" /\ job'.by = "hk" /\ job'.clean = job.clean /\ job'.magic = magic
          /\ UNCHANGED <<loaded, sets, rules, magic, tool>>
      BY <1>0, <1>4, <2>1, <2>3 DEF do_ac_table_hk
    <3> QED
      BY <1>0, <2>1, <2>3, <3>1 DEF LoadedInv, MagicInv, FlagsInv, Judging, JudgedAt, NoneSwapped,
         flow_flags_clr, nt_flow_accepted, nt_flow_droped
  <2> QED
    BY <2>2, <2>3
<1>5. CASE JudgeControl
  <2>1. job.pc = "control" /\ job # Idle
    BY <1>5 DEF JudgeControl, Idle
  <2>2. /\ flow'.magic = flow.magic /\ flow'.flags = Judged("control")
        /\ flow'.by = job.proto /\ flow'.proto = flow.proto
        /\ job'.pc = "audit" /\ job'.by = job.by /\ job'.clean = job.clean /\ job'.magic = job.magic
        /\ job'.proto = job.proto
        /\ UNCHANGED <<loaded, sets, rules, magic, tool>>
    BY <1>0, <1>5, <2>1 DEF JudgeControl
  <2>3. (Verdict(flow'.flags) = "drop") <=> Rejected(Ruling("control", job.proto))
    BY <1>0, <2>1, <2>2, ControlJudged DEF FlagsInv
  <2>4. ControlFollows(job.proto)'
    BY <2>2, <2>3 DEF ControlFollows, Ruling
  <2> QED
    BY <1>0, <2>1, <2>2, <2>4 DEF LoadedInv, MagicInv, FlagsInv, Judging, JudgedAt, NoneSwapped
<1>6. CASE JudgeAudit
  <2>1. job.pc = "audit" /\ job # Idle
    BY <1>6 DEF JudgeAudit, Idle
  <2>2. /\ flow'.flags = Judged("audit") /\ flow'.by = flow.by /\ job'.clean = job.clean
        /\ job'.pc \in {"hk", "nfw"} /\ flow'.magic = JudgedAt
        /\ job.by = "cb" => flow'.proto = job.rule.id
        /\ job.by = "hk" => flow'.proto = flow.proto
        /\ job.by \in {"hk", "cb"}
        /\ UNCHANGED <<loaded, sets, rules, magic, tool>>
    BY <1>0, <1>6, <2>1 DEF JudgeAudit, JudgedAt
  <2>3. flow'.proto # 0
    <3>1. job.by = "cb" => job.rule \in NpRules
      BY <2>1 DEF TypeOK
    <3> QED
      BY <1>0, <2>1, <2>2, <3>1, NpRulesAssumption DEF LoadedInv, Judging
  <2>4. ASSUME NoneSwapped, JudgedAt = magic PROVE Follows(flow.by)'
    <3>1. ControlFollows(job.proto) /\ flow.by = job.proto
      BY <1>0, <2>1, <2>4 DEF FlagsInv
    <3>2. /\ Verdict(flow'.flags) = Verdict(flow.flags)
          /\ "audit" \in Ruling("audit", job.proto) => "audit" \in flow'.flags
      BY <2>2, AuditJudged
    <3> QED
      BY <2>2, <3>1, <3>2 DEF Follows, ControlFollows, Ruling
  <2> QED
    BY <1>0, <2>1, <2>2, <2>3, <2>4 DEF LoadedInv, MagicInv, FlagsInv, Judging, NoneSwapped
<1>7. CASE nfw_hook_fn
  <2>1. job.pc = "nfw" /\ job' = Idle /\ job'.pc = "idle"
        /\ UNCHANGED <<loaded, sets, rules, magic, tool, flow>>
    BY <1>7 DEF nfw_hook_fn, Idle
  <2> QED
    BY <1>0, <2>1 DEF LoadedInv, MagicInv, FlagsInv, Judging, JudgedAt, NoneSwapped,
       Follows, ControlFollows, Ruling
<1> QED
  BY <1>1, <1>2, <1>3, <1>4, <1>5, <1>6, <1>7 DEF Forward

\* A tool that swaps a table disturbs the packet under way; one that moves the
\* counter leaves every judgement made so far behind it; no other step matters.
LEMMA ToolStep ==
  ASSUME TypeOK, FlowInv, NEW t \in Tools, Tool(t)
  PROVE  FlowInv'
<1>0. /\ flow \in [proto : Numbers, flags : SUBSET Flags, magic : Nat, by : Numbers]
      /\ magic \in Nat
      /\ job = Idle \/ job \in [pc : {"cb", "hk", "control", "audit", "nfw"}, rule : NpRules \cup {Unknown},
                          magic : Nat, proto : Numbers, by : {"hk", "cb"}, clean : BOOLEAN]
      /\ tool \in [Tools -> {ToolIdle} \cup ToolRecords]
      /\ LoadedInv /\ MagicInv /\ FlagsInv
  BY ToolTypes DEF TypeOK, FlowInv
<1>1. tool' = [tool EXCEPT ![t] = tool'[t]]
  BY OwnRecord
<1> USE DEF FlowInv
<1>2. CASE do_commit_config(t) \/ do_replace_table(t) \/ do_replace_set(t) \/ NoMemory(t) \/ FreeOld(t)
  <2>1. UNCHANGED <<loaded, sets, rules, magic, flow, job>>
    BY <1>2 DEF do_commit_config, do_replace_table, do_replace_set, NoMemory, FreeOld
  <2>2. tool[t].pc # "swapped" /\ tool'[t].pc # "swapped"
    <3>1. do_replace_table(t) => tool'[t].pc = "lock"
      BY <1>0, ToolTypes DEF do_replace_table, IsTool, ToolRecords, ToolIdle
    <3> QED
      BY <1>2, <3>1, RecordAfter DEF ToolIdle
  <2>3. NoneSwapped' <=> NoneSwapped
    <3>1. \A u \in Tools : u # t => tool'[u] = tool[u]
      BY <1>0, <1>1
    <3> QED
      BY <2>2, <3>1 DEF NoneSwapped
  <2> QED
    BY <1>0, <2>1, <2>3 DEF LoadedInv, MagicInv, FlagsInv, Judging, JudgedAt,
       Follows, ControlFollows, Ruling
<1>3. CASE __do_replace_table(t) \/ __do_replace_set(t)
  <2>1. UNCHANGED <<loaded, magic, flow>> /\ Disturb
    BY <1>3 DEF __do_replace_table, __do_replace_set
  <2>2. tool'[t].pc = "swapped"
    <3>1. __do_replace_table(t) => tool'[t].pc = "swapped"
      BY <1>0, ToolTypes DEF __do_replace_table, IsTool, ToolRecords, ToolIdle
    <3> QED
      BY <1>3, <3>1, RecordAfter
  <2>3. ~NoneSwapped'
    BY <2>2 DEF NoneSwapped
  <2>4. CASE job = Idle
    <3>1. job' = Idle /\ job'.pc = "idle" /\ job.pc = "idle"
      BY <2>1, <2>4 DEF Disturb, Idle
    <3> QED
      BY <1>0, <2>1, <2>3, <3>1 DEF LoadedInv, MagicInv, FlagsInv, Judging
  <2>5. CASE job # Idle
    <3>1. /\ job'.pc = job.pc /\ job'.by = job.by /\ job'.magic = job.magic /\ job'.proto = job.proto
          /\ job'.clean = FALSE
      BY <1>0, <2>1, <2>5 DEF Disturb
    <3> QED
      BY <1>0, <2>1, <2>3, <3>1 DEF LoadedInv, MagicInv, FlagsInv, Judging, JudgedAt
  <2> QED
    BY <2>4, <2>5
<1>4. CASE IncMagic(t)
  <2>1. magic' = magic + 1 /\ UNCHANGED <<loaded, sets, rules, flow, job>> /\ tool[t].pc = "swapped"
    BY <1>4 DEF IncMagic
  <2>2. ~NoneSwapped
    BY <2>1 DEF NoneSwapped
  <2>3. ~(job # Idle /\ job.clean)
    BY <1>0, <2>2 DEF MagicInv
  <2>4. Judging => job # Idle /\ JudgedAt \in Nat /\ JudgedAt <= magic
    BY <1>0 DEF Judging, MagicInv, JudgedAt, Idle
  <2>5. flow.magic \in Nat /\ flow.magic <= magic /\ flow'.magic # magic'
    BY <1>0, <2>1 DEF MagicInv
  <2>6. Judging' => Judging /\ JudgedAt' = JudgedAt /\ JudgedAt' <= magic' /\ JudgedAt' # magic'
    BY <1>0, <2>1, <2>4 DEF Judging, JudgedAt
  <2>7. job.pc \in {"nfw", "control", "audit"} => job # Idle
    BY DEF Idle
  <2> QED
    BY <1>0, <2>1, <2>3, <2>5, <2>6, <2>7 DEF LoadedInv, MagicInv, FlagsInv, Judging
<1> QED
  BY <1>2, <1>3, <1>4 DEF Tool

LEMMA FlowStep == TypeOK /\ FlowInv /\ [Next]_vars => FlowInv'
<1> SUFFICES ASSUME TypeOK, FlowInv, [Next]_vars PROVE FlowInv'
  OBVIOUS
<1>1. CASE Forward
  BY <1>1, PacketStep
<1>2. ASSUME NEW t \in Tools, Tool(t) PROVE FlowInv'
  BY <1>2, ToolStep
<1>3. CASE nacs_fini
  BY <1>3 DEF nacs_fini, FlowInv, LoadedInv, MagicInv, FlagsInv, Judging, Idle
<1>4. CASE UNCHANGED vars
  BY <1>4 DEF vars, FlowInv, LoadedInv, MagicInv, FlagsInv, Judging, JudgedAt, NoneSwapped,
     Follows, ControlFollows, Ruling
<1> QED
  BY <1>1, <1>2, <1>3, <1>4 DEF Next

\* Whatever the order of replacements, identifications and packets, of however
\* many tools, rules and applications: a packet that came in after the last
\* replacement is treated as the tables in force say for the number its flow
\* was last judged for (do_ac_table_cb, do_ac_table_hk, nfw_hook_fn).
THEOREM FlowsFollowTables == Spec => []Current
<1>1. Init => FlowInv
  BY FlowInit
<1>2. TypeOK /\ FlowInv /\ [Next]_vars => FlowInv'
  BY FlowStep
<1>3. FlowInv => Current
  <2>1. ASSUME FlowInv, Undisturbed, flow.by # 0 PROVE Follows(flow.by)
    <3>1. job # Idle /\ job.pc = "nfw" /\ loaded /\ job.clean
      BY <2>1 DEF Undisturbed, Idle
    <3> QED
      BY <2>1, <3>1 DEF FlowInv, MagicInv, FlagsInv, Judging
  <2> QED
    BY <2>1 DEF Current
<1> QED
  BY <1>1, <1>2, <1>3, TypeCorrect, PTL DEF Spec

=============================================================================
