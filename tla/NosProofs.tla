------------------------------ MODULE NosProofs ------------------------------
(***************************************************************************)
(* Proofs about Nos, for any number of CPUs, terminals, writers and        *)
(* scripts: no packet is looked up in a table that an undisturbed line is  *)
(* changing (LookupsExcluded), terminals end up under the rule the tables  *)
(* give them (TerminalsClassified), their bits are their groups            *)
(* (BitsNameGroups), and the references to ipsets are exact                *)
(* (ReferencesExact).                                                      *)
(***************************************************************************)
EXTENDS Nos, FiniteSetTheorems, WellFoundedInduction, TLAPS

-----------------------------------------------------------------------------
(* The inductive invariant *)

\* The types.  A slot that was skipped holds a cleared entry.
ZoneIds == {0, INVALID_ZONE_ID} \cup {l.id : l \in {k \in Lines : k.dev = "zone" /\ k.op = "set"}}
GroupEntries == {BlankGroup} \cup {[id |-> l.id, set |-> l.set] : l \in {k \in Lines : k.dev = "ipgrp" /\ k.op = "set"}}
RuleEntries == {BlankRule} \cup {RuleOf(l) : l \in {k \in Lines : k.dev = "auth" /\ k.op = "set"}}
RuleTypes == {"unknown", "web"} \cup {l.type : l \in {k \in Lines : k.dev = "auth" /\ k.op = "set"}}
RuleIds == {0, INVALID_AUTH_RULE_ID} \cup {l.id : l \in {k \in Lines : k.dev = "auth" /\ k.op = "set"}}

Hooks == {"zone", "zoned", "ipgrp", "grouped", "auth", "reset", "search", "white", "judge"}
Jobs == [pc : {"fw"} \cup Hooks, u : Terminals, late : BOOLEAN, zone : ZoneIds, bits : TornGroups, at : Nat]
Nodes == [zone_id : ZoneIds, zone_magic : Nat, ipgrp_bits : TornGroups, ipgrp_magic : Nat]
Terms == [type : RuleTypes, status : {"none", "bypass", "req", "ok"}, rule_id : RuleIds, rule_magic : Nat]
WriterRecords == [pc : {"idle", "call", "wait", "change", "store", "enable"}, todo : Seq(Lines), at : Nat,
                  held : Seq(Ipsets \cup {NoSet}), wait : SUBSET Cpus, alone : BOOLEAN]

JobOK == job \in [Cpus -> {Idle} \cup Jobs]

TrafficOK == node \in [Terminals -> Nodes] /\ term \in [Terminals -> Terms]

WriterOK ==
  /\ writer \in [Writers -> WriterRecords]
  /\ \A w \in Writers : writer[w].pc # "idle" => writer[w].todo # <<>>

TablesOK ==
  /\ zones \in [Interfaces -> ZoneIds]
  /\ ipgrps \in Seq(GroupEntries)
  /\ auths \in Seq(RuleEntries)
  /\ magic \in [Devices -> Nat]
  /\ \A dev \in Devices : magic[dev] < 65536

\* A line that disabled the hooks and was not disturbed: the flag is set,
\* synchronize_rcu waits for every packet that did not see it, and none is left
\* when it returns.
FlagInv ==
  \A w \in Writers :
    writer[w].alone =>
      /\ writer[w].pc \in {"wait", "change", "store"} => disable
      /\ writer[w].pc = "wait" => \A c \in Cpus : Inside(c) => c \in writer[w].wait
      /\ writer[w].pc \in {"change", "store"} => \A c \in Cpus : ~Inside(c)

\* A table that is being written has not been announced.
StoringInv == \A dev \in Devices : Storing(dev) => dev \in behind

\* What holds of a packet.  None is left from before the rules were announced.
NotLate(j) == /\ j.pc = "fw" => ~j.late
              /\ j.pc # "fw" /\ j.late => behind # {}

\* The value a packet is about to store is that of the present table, if the
\* table was not changed since the packet began, or was announced unchanged.
ZonePending(j) ==
  j.pc = "zoned" /\ (~j.late \/ "zone" \notin behind) => j.zone = zones[InIf[j.u]]

GroupsPending(j) ==
  j.pc = "grouped" /\ ((~j.late /\ ~Storing("ipgrp")) \/ "ipgrp" \notin behind)
    => j.bits = nos_ipgrp_match(j.u)

\* A packet that saw no announcement has the present magics from its look-ups.
AfterGroups == {"auth", "reset", "search", "white", "judge"}
AfterZone == {"ipgrp", "grouped"} \cup AfterGroups

Fresh(j) ==
  ~j.late => /\ j.pc \in AfterZone => node[j.u].zone_magic = magic["zone"]
             /\ j.pc \in AfterGroups => node[j.u].ipgrp_magic = magic["ipgrp"]

\* Between its reset and its search another packet stored no wrong rule.
Unspoilt(u) == term[u].rule_id = INVALID_AUTH_RULE_ID \/ Right(u, term[u])

SearchKept(j) ==
  /\ j.pc = "search"
  /\ ~j.late
  /\ behind \cap {"zone", "ipgrp", "wrap"} = {}
  /\ ~Storing("auth")
  => Unspoilt(j.u)

PacketInv(j) == NotLate(j) /\ ZonePending(j) /\ GroupsPending(j) /\ Fresh(j) /\ SearchKept(j)

PacketsInv == \A c \in Cpus : job[c] # Idle => PacketInv(job[c])

\* No stored magic is ahead of the present one, and what is stored at the magic
\* of a table that was not changed since is what the table says.
MagicInv ==
  "wrap" \notin behind =>
    \A u \in Terminals : /\ node[u].zone_magic <= magic["zone"]
                         /\ node[u].ipgrp_magic <= magic["ipgrp"]
                         /\ term[u].rule_magic <= magic["auth"]

ZoneInv ==
  behind \cap {"zone", "wrap"} = {} =>
    \A u \in Terminals : node[u].zone_magic = magic["zone"] => node[u].zone_id = zones[InIf[u]]

GroupsInv ==
  behind \cap {"ipgrp", "wrap"} = {} =>
    \A u \in Terminals : node[u].ipgrp_magic = magic["ipgrp"] => node[u].ipgrp_bits = nos_ipgrp_match(u)

NodesInv == MagicInv /\ ZoneInv /\ GroupsInv

-----------------------------------------------------------------------------
(* Positions in a sequence *)

\* A set of natural numbers that is not empty has a least element.
LEMMA Least ==
  ASSUME NEW S \in SUBSET Nat, S # {}
  PROVE  \E x \in S : \A y \in S : x <= y
<1> DEFINE R == OpToRel(<, Nat)
<1>1. IsWellFoundedOn(R, Nat)
  BY NatLessThanWellFounded
<1>2. \A x, y \in Nat : y < x => <<y, x>> \in R
  BY DEF OpToRel
<1> HIDE DEF R
<1>3. PICK x \in S : \A y \in S : ~ (<<y, x>> \in R)
  BY <1>1, WFMin
<1>4. ASSUME NEW y \in S PROVE x <= y
  <2>1. x \in Nat /\ y \in Nat
    OBVIOUS
  <2>2. ~(y < x)
    BY <2>1, <1>2, <1>3
  <2> QED
    BY <2>1, <2>2
<1> QED
  BY <1>4

LEMMA MinIn ==
  ASSUME NEW S \in SUBSET Nat, S # {}
  PROVE  Min(S) \in S
BY Least DEF Min

\* The search for an id ends at an entry, or finds nothing.
LEMMA PositionFound ==
  ASSUME NEW B, NEW s \in Seq(B), NEW id
  PROVE  Position(s, id) = 0 \/ Position(s, id) \in DOMAIN s
<1> DEFINE I == {i \in 1 .. Len(s) : s[i].id = id}
<1>1. Position(s, id) = IF I # {} THEN Min(I) ELSE 0
  BY DEF Position, SelectInSeq
<1>2. I # {} => Min(I) \in I
  <2>1. I \in SUBSET Nat
    OBVIOUS
  <2> QED
    BY <2>1, MinIn
<1> QED
  BY <1>1, <1>2

LEMMA ApplyingFound ==
  ASSUME auths \in Seq(RuleEntries), NEW u
  PROVE  FirstApplying(u) = 0 \/ FirstApplying(u) \in DOMAIN auths
<1> DEFINE I == {i \in 1 .. Len(auths) : Applies(auths[i], u)}
<1>1. FirstApplying(u) = IF I # {} THEN Min(I) ELSE 0
  BY DEF FirstApplying, SelectInSeq
<1>2. I # {} => Min(I) \in I
  <2>1. I \in SUBSET Nat
    OBVIOUS
  <2> HIDE DEF I
  <2> QED
    BY <2>1, MinIn
<1>3. I \subseteq DOMAIN auths
  OBVIOUS
<1> HIDE DEF I
<1> QED
  BY <1>1, <1>2, <1>3

-----------------------------------------------------------------------------
(* Types *)

LEMMA JobParts ==
  ASSUME JobOK
  PROVE  /\ \A c \in Cpus : job[c] # Idle <=> job[c] \in Jobs
         /\ \A c \in Cpus : job[c].pc # "idle" => job[c] \in Jobs
         /\ \A c \in Cpus : job[c] = Idle => job[c].pc = "idle"
         /\ \A c \in Cpus : Inside(c) <=> job[c] # Idle /\ job[c].pc # "fw"
<1>1. \A c \in Cpus : job[c] = Idle \/ job[c] \in Jobs
  BY DEF JobOK
<1>2. \A j \in Jobs : j.pc \in {"fw"} \cup Hooks /\ j # Idle
  BY DEF Jobs, Idle, Hooks
<1>3. Idle.pc = "idle"
  BY DEF Idle
<1> QED
  BY <1>1, <1>2, <1>3 DEF Inside, Hooks

\* What the groups of the present table give is a value of the type.
LEMMA MatchType ==
  ASSUME TablesOK, NEW n
  PROVE  nos_ipgrp_match(n) \in TornGroups
<1> DEFINE B == {0} \cup UNION {Shift(l.id) : l \in {k \in Lines : k.dev = "ipgrp" /\ k.op = "set"}}
<1>1. ASSUME NEW e \in GroupEntries PROVE Shift(e.id) \subseteq B
  <2>1. CASE e = BlankGroup
    <3>1. e.id = 0
      BY <2>1 DEF BlankGroup
    <3>2. Shift(0) = {0}
      BY DEF Shift
    <3> QED
      BY <3>1, <3>2
  <2>2. CASE e # BlankGroup
    <3>1. PICK l \in {k \in Lines : k.dev = "ipgrp" /\ k.op = "set"} : e = [id |-> l.id, set |-> l.set]
      BY <2>2 DEF GroupEntries
    <3>2. e.id = l.id
      BY <3>1
    <3> QED
      BY <3>2
  <2> QED
    BY <2>1, <2>2
<1>2. \A k \in DOMAIN ipgrps : ipgrps[k] \in GroupEntries
  BY DEF TablesOK
<1> HIDE DEF B
<1>3. nos_ipgrp_match(n) \subseteq B
  BY <1>1, <1>2 DEF nos_ipgrp_match
<1> QED
  BY <1>3 DEF TornGroups, B

LEMMA GroupsFoundType ==
  ASSUME TablesOK, NEW n
  PROVE  GroupsFound(n) \subseteq TornGroups
BY MatchType DEF GroupsFound

Entries == [at : Nat, id : RuleIds, type : RuleTypes]

LEMMA RuleFoundType ==
  ASSUME TablesOK, NEW u
  PROVE  RuleFound(u) \subseteq Entries
<1>1. NotFound \in Entries
  BY DEF NotFound, Entries, RuleIds, RuleTypes
<1>2. TornEntries \subseteq Entries
  <2>1. [at |-> MAX_AUTH + 1, id |-> 0, type |-> "web"] \in Entries
    BY DEF Entries, RuleIds, RuleTypes, MAX_AUTH
  <2>2. ASSUME NEW l \in {k \in Lines : k.dev = "auth" /\ k.op = "set"}
        PROVE  [at |-> MAX_AUTH + 1, id |-> l.id, type |-> l.type] \in Entries
    <3>1. l.id \in RuleIds /\ l.type \in RuleTypes
      BY DEF RuleIds, RuleTypes
    <3> QED
      BY <3>1 DEF Entries, MAX_AUTH
  <2> QED
    BY <1>1, <2>1, <2>2 DEF TornEntries
<1>3. ASSUME NEW e \in RuleEntries PROVE e.id \in RuleIds /\ e.type \in RuleTypes
  BY DEF RuleEntries, BlankRule, RuleOf, RuleIds, RuleTypes
<1>4. Entry(FirstApplying(u)) \in Entries
  <2>1. CASE FirstApplying(u) = 0
    BY <1>1, <2>1 DEF Entry
  <2>2. CASE FirstApplying(u) # 0
    <3>1. FirstApplying(u) \in DOMAIN auths
      BY <2>2, ApplyingFound DEF TablesOK
    <3>2. auths[FirstApplying(u)] \in RuleEntries /\ FirstApplying(u) \in Nat
      BY <3>1 DEF TablesOK
    <3>3. auths[FirstApplying(u)].id \in RuleIds /\ auths[FirstApplying(u)].type \in RuleTypes
      BY <3>2, <1>3
    <3> QED
      BY <2>2, <3>2, <3>3 DEF Entry, Entries
  <2> QED
    BY <2>1, <2>2
<1> QED
  BY <1>2, <1>4 DEF RuleFound

\* The packet on c goes on as x.
Moves(c, x) ==
  /\ job[c] \in Jobs
  /\ x \in Jobs
  /\ x.u = job[c].u
  /\ x.late = job[c].late
  /\ job' = [job EXCEPT ![c] = x]

LEMMA GotoMoves ==
  ASSUME JobOK, NEW c \in Cpus, job[c].pc # "idle", NEW p \in Hooks, Goto(c, p)
  PROVE  \E x : Moves(c, x) /\ x.pc = p
<1>1. job[c] \in Jobs
  BY JobParts
<1>2. PICK x : x = [job[c] EXCEPT !.pc = p]
  OBVIOUS
<1>3. x \in Jobs /\ x.pc = p /\ x.u = job[c].u /\ x.late = job[c].late
  BY <1>1, <1>2 DEF Jobs
<1>4. job' = [job EXCEPT ![c] = x]
  BY <1>1, <1>2 DEF Goto, JobOK
<1> QED
  BY <1>1, <1>3, <1>4 DEF Moves

LEMMA ZoneMatchMoves ==
  ASSUME JobOK, TablesOK, NEW c \in Cpus, ZoneMatch(c)
  PROVE  \E x : /\ Moves(c, x)
                /\ \/ x.pc = "zoned" /\ x.zone = zones[InIf[x.u]]
                   \/ x.pc = "ipgrp" /\ node[x.u].zone_magic = magic["zone"]
<1>1. job[c] \in Jobs /\ job[c].pc # "idle"
  BY JobParts DEF ZoneMatch
<1>2. CASE ZoneStale(node[job[c].u])
  <2>1. job' = [job EXCEPT ![c].pc = "zoned", ![c].zone = nos_zone_match(InIf[job[c].u])]
    BY <1>2 DEF ZoneMatch
  <2>2. nos_zone_match(InIf[job[c].u]) \in ZoneIds
    BY <1>1, NodesAssumption DEF nos_zone_match, TablesOK, Jobs
  <2>3. PICK z \in ZoneIds : z = nos_zone_match(InIf[job[c].u])
    BY <2>2
  <2>4. PICK x : x = [job[c] EXCEPT !.pc = "zoned", !.zone = z]
    OBVIOUS
  <2>5. x \in Jobs /\ x.pc = "zoned" /\ x.u = job[c].u /\ x.late = job[c].late /\ x.zone = z
    BY <1>1, <2>4 DEF Jobs, Hooks
  <2>6. job' = [job EXCEPT ![c] = x]
    BY <1>1, <2>1, <2>3, <2>4 DEF JobOK
  <2> QED
    BY <1>1, <2>3, <2>5, <2>6 DEF Moves, nos_zone_match
<1>3. CASE ~ZoneStale(node[job[c].u])
  <2>1. Goto(c, "ipgrp")
    BY <1>3 DEF ZoneMatch
  <2>2. node[job[c].u].zone_magic = magic["zone"]
    BY <1>3 DEF ZoneStale
  <2> QED
    BY <1>1, <2>1, <2>2, GotoMoves DEF Moves, Hooks
<1> QED
  BY <1>2, <1>3

LEMMA IpgrpMatchMoves ==
  ASSUME JobOK, TablesOK, NEW c \in Cpus, IpgrpMatch(c)
  PROVE  \E x : /\ Moves(c, x)
                /\ \/ x.pc = "grouped" /\ (Storing("ipgrp") \/ x.bits = nos_ipgrp_match(x.u))
                   \/ x.pc = "auth" /\ node[x.u].ipgrp_magic = magic["ipgrp"]
<1>1. job[c] \in Jobs /\ job[c].pc # "idle"
  BY JobParts DEF IpgrpMatch
<1>2. CASE IpgrpStale(node[job[c].u])
  <2>1. PICK b \in GroupsFound(job[c].u) : job' = [job EXCEPT ![c].pc = "grouped", ![c].bits = b]
    BY <1>2 DEF IpgrpMatch
  <2>2. b \in TornGroups
    BY GroupsFoundType
  <2>3. Storing("ipgrp") \/ b = nos_ipgrp_match(job[c].u)
    BY DEF GroupsFound
  <2>4. PICK x : x = [job[c] EXCEPT !.pc = "grouped", !.bits = b]
    OBVIOUS
  <2>5. x \in Jobs /\ x.pc = "grouped" /\ x.u = job[c].u /\ x.late = job[c].late /\ x.bits = b
    BY <1>1, <2>2, <2>4 DEF Jobs, Hooks
  <2>6. job' = [job EXCEPT ![c] = x]
    BY <1>1, <2>1, <2>4 DEF JobOK
  <2> QED
    BY <1>1, <2>3, <2>5, <2>6 DEF Moves
<1>3. CASE ~IpgrpStale(node[job[c].u])
  <2>1. Goto(c, "auth")
    BY <1>3 DEF IpgrpMatch
  <2>2. node[job[c].u].ipgrp_magic = magic["ipgrp"]
    BY <1>3 DEF IpgrpStale
  <2> QED
    BY <1>1, <2>1, <2>2, GotoMoves DEF Moves, Hooks
<1> QED
  BY <1>2, <1>3

LEMMA ZoneStoreMoves ==
  ASSUME JobOK, TablesOK, TrafficOK, NEW c \in Cpus, ZoneStore(c)
  PROVE  \E x, n : /\ Moves(c, x) /\ x.pc = "ipgrp"
                   /\ n \in Nodes /\ node' = [node EXCEPT ![x.u] = n]
                   /\ n.zone_id = job[c].zone /\ n.zone_magic = magic["zone"]
                   /\ n.ipgrp_bits = node[x.u].ipgrp_bits /\ n.ipgrp_magic = node[x.u].ipgrp_magic
<1>1. job[c] \in Jobs /\ job[c].pc # "idle"
  BY JobParts DEF ZoneStore
<1>2. PICK x : x = [job[c] EXCEPT !.pc = "ipgrp", !.zone = 0]
  OBVIOUS
<1>3. x \in Jobs /\ x.pc = "ipgrp" /\ x.u = job[c].u /\ x.late = job[c].late
  BY <1>1, <1>2 DEF Jobs, Hooks, ZoneIds
<1>4. job' = [job EXCEPT ![c] = x]
  BY <1>1, <1>2 DEF JobOK, ZoneStore
<1>5. PICK n : n = Zoned(node[job[c].u], job[c].zone)
  OBVIOUS
<1>6. node[job[c].u] \in Nodes /\ magic["zone"] \in Nat /\ job[c].zone \in ZoneIds /\ job[c].u \in Terminals
  BY <1>1 DEF TrafficOK, Jobs, TablesOK, Devices
<1>7. /\ n \in Nodes /\ n.zone_id = job[c].zone /\ n.zone_magic = magic["zone"]
      /\ n.ipgrp_bits = node[x.u].ipgrp_bits /\ n.ipgrp_magic = node[x.u].ipgrp_magic
  BY <1>3, <1>5, <1>6 DEF Zoned, Nodes
<1>8. node' = [node EXCEPT ![x.u] = n]
  BY <1>3, <1>5, <1>6 DEF ZoneStore, TrafficOK
<1> QED
  BY <1>1, <1>3, <1>4, <1>7, <1>8 DEF Moves

LEMMA IpgrpStoreMoves ==
  ASSUME JobOK, TablesOK, TrafficOK, NEW c \in Cpus, IpgrpStore(c)
  PROVE  \E x, n : /\ Moves(c, x) /\ x.pc = "auth"
                   /\ n \in Nodes /\ node' = [node EXCEPT ![x.u] = n]
                   /\ n.ipgrp_bits = job[c].bits /\ n.ipgrp_magic = magic["ipgrp"]
                   /\ n.zone_id = node[x.u].zone_id /\ n.zone_magic = node[x.u].zone_magic
<1>1. job[c] \in Jobs /\ job[c].pc # "idle"
  BY JobParts DEF IpgrpStore
<1>2. PICK x : x = [job[c] EXCEPT !.pc = "auth", !.bits = {}]
  OBVIOUS
<1>3. x \in Jobs /\ x.pc = "auth" /\ x.u = job[c].u /\ x.late = job[c].late
  <2>1. {} \in TornGroups
    BY DEF TornGroups
  <2> QED
    BY <1>1, <1>2, <2>1 DEF Jobs, Hooks
<1>4. job' = [job EXCEPT ![c] = x]
  BY <1>1, <1>2 DEF JobOK, IpgrpStore
<1>5. PICK n : n = Grouped(node[job[c].u], job[c].bits)
  OBVIOUS
<1>6. node[job[c].u] \in Nodes /\ magic["ipgrp"] \in Nat /\ job[c].bits \in TornGroups /\ job[c].u \in Terminals
  BY <1>1 DEF TrafficOK, Jobs, TablesOK, Devices
<1>7. /\ n \in Nodes /\ n.ipgrp_bits = job[c].bits /\ n.ipgrp_magic = magic["ipgrp"]
      /\ n.zone_id = node[x.u].zone_id /\ n.zone_magic = node[x.u].zone_magic
  BY <1>3, <1>5, <1>6 DEF Grouped, Nodes
<1>8. node' = [node EXCEPT ![x.u] = n]
  BY <1>3, <1>5, <1>6 DEF IpgrpStore, TrafficOK
<1> QED
  BY <1>1, <1>3, <1>4, <1>7, <1>8 DEF Moves

LEMMA AuthHookMoves ==
  ASSUME JobOK, NEW c \in Cpus, nos_auth_hook(c)
  PROVE  \E x : Moves(c, x) /\ x.pc \in {"reset", "judge"}
BY GotoMoves DEF nos_auth_hook, Hooks

LEMMA AuthResetMoves ==
  ASSUME JobOK, TablesOK, TrafficOK, NEW c \in Cpus, AuthReset(c)
  PROVE  \E x, t : /\ Moves(c, x) /\ x.pc = "search"
                   /\ t \in Terms /\ term' = [term EXCEPT ![x.u] = t]
                   /\ t.rule_id = INVALID_AUTH_RULE_ID /\ t.rule_magic = magic["auth"]
<1>1. PICK x : Moves(c, x) /\ x.pc = "search"
  BY GotoMoves DEF AuthReset, Hooks
<1>2. PICK t : t = [type |-> "unknown", status |-> "bypass", rule_id |-> INVALID_AUTH_RULE_ID,
                    rule_magic |-> magic["auth"]]
  OBVIOUS
<1>3. magic["auth"] \in Nat
  BY DEF TablesOK, Devices
<1>4. t \in Terms /\ t.rule_id = INVALID_AUTH_RULE_ID /\ t.rule_magic = magic["auth"]
  BY <1>2, <1>3 DEF Terms, RuleTypes, RuleIds
<1>5. term' = [term EXCEPT ![x.u] = t]
  BY <1>1, <1>2 DEF AuthReset, Moves
<1> QED
  BY <1>1, <1>4, <1>5

LEMMA AuthSearchMoves ==
  ASSUME JobOK, TablesOK, TrafficOK, NEW c \in Cpus, AuthSearch(c)
  PROVE  \E x, t, e : /\ Moves(c, x) /\ x.pc \in {"white", "judge"}
                      /\ t \in Terms /\ term' = [term EXCEPT ![x.u] = t]
                      /\ e \in RuleFound(x.u)
                      /\ t.rule_magic = term[x.u].rule_magic
                      /\ e.at = 0 => t = term[x.u]
                      /\ e.at # 0 => t.rule_id = e.id /\ t.type = e.type
<1>1. job[c] \in Jobs /\ job[c].pc # "idle"
  BY JobParts DEF AuthSearch
<1>2. PICK e \in RuleFound(job[c].u) :
        /\ term' = [term EXCEPT ![job[c].u] = Ruled(@, e)]
        /\ job' = [job EXCEPT ![c].pc = IF e.type = "web" THEN "white" ELSE "judge",
                              ![c].at = IF e.type = "web" THEN e.at ELSE 0]
  BY DEF AuthSearch
<1>3. e \in Entries
  BY RuleFoundType
<1>4. e.at \in Nat /\ e.id \in RuleIds /\ e.type \in RuleTypes
  BY <1>3 DEF Entries
<1>5. PICK p \in {"white", "judge"} : p = IF e.type = "web" THEN "white" ELSE "judge"
  OBVIOUS
<1>6. PICK k \in Nat : k = IF e.type = "web" THEN e.at ELSE 0
  BY <1>4
<1>7. PICK x : x = [job[c] EXCEPT !.pc = p, !.at = k]
  OBVIOUS
<1>8. x \in Jobs /\ x.pc = p /\ x.u = job[c].u /\ x.late = job[c].late
  BY <1>1, <1>7 DEF Jobs, Hooks
<1>9. job' = [job EXCEPT ![c] = x]
  BY <1>1, <1>2, <1>5, <1>6, <1>7 DEF JobOK
<1>10. PICK t : t = Ruled(term[job[c].u], e)
  OBVIOUS
<1>11. job[c].u \in Terminals /\ term[job[c].u] \in Terms
  BY <1>1 DEF Jobs, TrafficOK
<1>12. /\ t \in Terms /\ t.rule_magic = term[x.u].rule_magic
       /\ e.at = 0 => t = term[x.u]
       /\ e.at # 0 => t.rule_id = e.id /\ t.type = e.type
  BY <1>4, <1>8, <1>10, <1>11 DEF Ruled, Terms
<1>13. term' = [term EXCEPT ![x.u] = t]
  BY <1>2, <1>8, <1>10, <1>11 DEF TrafficOK
<1>14. Moves(c, x) /\ x.pc \in {"white", "judge"}
  BY <1>1, <1>5, <1>8, <1>9 DEF Moves
<1>15. e \in RuleFound(x.u)
  BY <1>8
<1> WITNESS x, t, e
<1> QED
  BY <1>12, <1>13, <1>14, <1>15

\* A step that leaves the rule of every terminal alone.
SameRules ==
  /\ term' \in [Terminals -> Terms]
  /\ \A u \in Terminals : /\ term'[u].rule_id = term[u].rule_id
                          /\ term'[u].type = term[u].type
                          /\ term'[u].rule_magic = term[u].rule_magic

LEMMA StatusRules ==
  ASSUME TrafficOK, NEW u \in Terminals, NEW s \in {"none", "bypass", "req", "ok"},
         term' = term \/ term' = [term EXCEPT ![u].status = s]
  PROVE  SameRules
<1>1. CASE term' = term
  BY <1>1 DEF SameRules, TrafficOK
<1>2. CASE term' = [term EXCEPT ![u].status = s]
  <2>1. PICK t : t = [term[u] EXCEPT !.status = s]
    OBVIOUS
  <2>2. t \in Terms /\ t.rule_id = term[u].rule_id /\ t.type = term[u].type /\ t.rule_magic = term[u].rule_magic
    BY <2>1 DEF TrafficOK, Terms
  <2>3. term' = [term EXCEPT ![u] = t]
    BY <1>2, <2>1 DEF TrafficOK
  <2> QED
    BY <2>2, <2>3 DEF SameRules, TrafficOK
<1> QED
  BY <1>1, <1>2

LEMMA AuthWhiteMoves ==
  ASSUME JobOK, TrafficOK, NEW c \in Cpus, AuthWhite(c)
  PROVE  SameRules /\ \E x : Moves(c, x) /\ x.pc = "judge"
<1>1. job[c] \in Jobs /\ job[c].pc # "idle"
  BY JobParts DEF AuthWhite
<1>2. PICK x : x = [job[c] EXCEPT !.pc = "judge", !.at = 0]
  OBVIOUS
<1>3. x \in Jobs /\ x.pc = "judge" /\ x.u = job[c].u /\ x.late = job[c].late
  BY <1>1, <1>2 DEF Jobs, Hooks
<1>4. job' = [job EXCEPT ![c] = x]
  BY <1>1, <1>2 DEF JobOK, AuthWhite
<1>5. job[c].u \in Terminals
  BY <1>1 DEF Jobs
<1>6. term' = term \/ term' = [term EXCEPT ![job[c].u].status = "bypass"]
  BY DEF AuthWhite
<1> QED
  BY <1>1, <1>3, <1>4, <1>5, <1>6, StatusRules DEF Moves

LEMMA AuthJudgeRules ==
  ASSUME JobOK, TrafficOK, NEW c \in Cpus, AuthJudge(c)
  PROVE  SameRules
<1>1. job[c] \in Jobs
  BY JobParts DEF AuthJudge
<1>2. job[c].u \in Terminals
  BY <1>1 DEF Jobs
<1>3. term' = term \/ term' = [term EXCEPT ![job[c].u].status = "ok"]
  BY DEF AuthJudge
<1> QED
  BY <1>2, <1>3, StatusRules

LEMMA StatusStepRules ==
  ASSUME TrafficOK, NEW u \in Terminals, NEW status \in {"ok", "req", "bypass"}, user_set_status(u, status)
  PROVE  SameRules
BY StatusRules DEF user_set_status

LEMMA PreHookJob ==
  ASSUME JobOK, NEW c \in Cpus, nos_pre_hook(c)
  PROVE  \E x \in Jobs : x.pc = "fw" /\ ~x.late /\ job' = [job EXCEPT ![c] = x]
<1>1. PICK u \in Terminals :
        job' = [job EXCEPT ![c] = [pc |-> "fw", u |-> u, late |-> FALSE, zone |-> 0, bits |-> {}, at |-> 0]]
  BY DEF nos_pre_hook
<1>2. PICK x : x = [pc |-> "fw", u |-> u, late |-> FALSE, zone |-> 0, bits |-> {}, at |-> 0]
  OBVIOUS
<1>3. x \in Jobs /\ x.pc = "fw" /\ ~x.late
  <2>1. {} \in TornGroups /\ 0 \in ZoneIds
    BY DEF TornGroups, ZoneIds
  <2> QED
    BY <1>2, <2>1 DEF Jobs
<1> QED
  BY <1>1, <1>2, <1>3

LEMMA FwHookJob ==
  ASSUME JobOK, NEW c \in Cpus, nos_fw_hook(c)
  PROVE  Leave(c) \/ (~disable /\ UNCHANGED writer /\ \E x : Moves(c, x) /\ x.pc = "zone")
BY GotoMoves DEF nos_fw_hook, Goto, Hooks

-----------------------------------------------------------------------------
(* What each step makes of the record of its writer *)

LEMMA LineKnown ==
  ASSUME NEW l \in Lines
  PROVE  l.dev \in Devices /\ (l.op = "bypass" => l.dev = "auth")
BY ScriptsAssumption

LEMMA WriterParts ==
  ASSUME WriterOK, NEW w \in Writers
  PROVE  /\ writer[w] \in WriterRecords
         /\ writer[w].pc # "idle" => Line(w) \in Lines /\ writer[w].todo \in Seq(Lines) /\ writer[w].todo # <<>>
<1>1. writer[w] \in WriterRecords
  BY DEF WriterOK
<1>2. writer[w].todo \in Seq(Lines)
  BY <1>1 DEF WriterRecords
<1>3. writer[w].pc # "idle" => writer[w].todo # <<>>
  BY DEF WriterOK
<1> QED
  BY <1>1, <1>2, <1>3 DEF Line

\* The step of a writer replaces its own record by x.
Writes(w, x) ==
  /\ x \in WriterRecords
  /\ x.pc # "idle" => x.todo # <<>>
  /\ writer' = [writer EXCEPT ![w] = x]

LEMMA WritesOK ==
  ASSUME WriterOK, NEW w \in Writers, NEW x, Writes(w, x)
  PROVE  WriterOK'
BY DEF WriterOK, Writes

LEMMA StartWrites ==
  ASSUME WriterOK, NEW w \in Writers, StartScript(w)
  PROVE  \E x : Writes(w, x) /\ x.pc = "call" /\ x.held = writer[w].held /\ x.alone = writer[w].alone
<1>1. PICK s \in Scripts[w] : writer' = [writer EXCEPT ![w].pc = "call", ![w].todo = s]
  BY DEF StartScript
<1>2. s \in Seq(Lines) /\ s # <<>>
  BY ScriptsAssumption
<1>3. writer[w] \in WriterRecords
  BY WriterParts
<1>4. PICK x : x = [writer[w] EXCEPT !.pc = "call", !.todo = s]
  OBVIOUS
<1>5. x \in WriterRecords /\ x.pc = "call" /\ x.todo = s /\ x.held = writer[w].held /\ x.alone = writer[w].alone
  BY <1>2, <1>3, <1>4 DEF WriterRecords
<1>6. writer' = [writer EXCEPT ![w] = x]
  BY <1>1, <1>3, <1>4 DEF WriterOK
<1> QED
  BY <1>2, <1>5, <1>6 DEF Writes

\* The line a writer is done with.
LEMMA NextLine ==
  ASSUME WriterOK, NEW w \in Writers, writer[w].pc # "idle"
  PROVE  /\ Next1(w) \in WriterRecords
         /\ Next1(w).pc \in {"idle", "call"}
         /\ Next1(w).pc # "idle" => Next1(w).todo # <<>>
         /\ Next1(w).held = <<>>
<1>1. writer[w].todo \in Seq(Lines) /\ writer[w].todo # <<>>
  BY WriterParts
<1>2. /\ Tail(writer[w].todo) \in Seq(Lines)
      /\ Len(writer[w].todo) # 1 => Tail(writer[w].todo) # <<>>
  <2> PICK s \in Seq(Lines) : s = writer[w].todo
    BY <1>1
  <2>1. Tail(s) \in Seq(Lines) /\ Len(Tail(s)) = Len(s) - 1
    BY <1>1
  <2>2. Tail(s) = <<>> => Len(Tail(s)) = 0
    OBVIOUS
  <2>3. Len(s) \in Nat
    OBVIOUS
  <2> QED
    BY <2>1, <2>2, <2>3
<1>3. <<>> \in Seq(Ipsets \cup {NoSet})
  OBVIOUS
<1> QED
  BY <1>2, <1>3 DEF Next1, WriterRecords

LEMMA NextWrites ==
  ASSUME WriterOK, NEW w \in Writers, writer[w].pc # "idle", writer' = [writer EXCEPT ![w] = Next1(w)]
  PROVE  Writes(w, Next1(w))
BY NextLine DEF Writes

LEMMA GetWrites ==
  ASSUME WriterOK, NEW w \in Writers, ip_set_get_byname(w)
  PROVE  \E x : /\ Writes(w, x) /\ x.pc = "call" /\ x.todo = writer[w].todo
                /\ x.held = Append(writer[w].held, NextName(w)) /\ x.alone = writer[w].alone
<1>1. writer[w] \in WriterRecords /\ writer[w].pc = "call" /\ writer[w].todo # <<>>
  BY WriterParts DEF ip_set_get_byname
<1>2. PICK h \in Seq(Ipsets \cup {NoSet}) : h = Append(writer[w].held, NextName(w))
  <2>1. writer[w].held \in Seq(Ipsets \cup {NoSet}) /\ NextName(w) \in Ipsets \cup {NoSet}
    BY <1>1 DEF WriterRecords, ip_set_get_byname
  <2> DEFINE S == Ipsets \cup {NoSet}
  <2>2. PICK g \in Seq(S), n \in S : g = writer[w].held /\ n = NextName(w)
    BY <2>1
  <2> HIDE DEF S
  <2>3. Append(g, n) \in Seq(S)
    OBVIOUS
  <2> QED
    BY <2>2, <2>3 DEF S
<1>3. PICK x : x = [writer[w] EXCEPT !.held = h]
  OBVIOUS
<1>4. x \in WriterRecords /\ x.pc = "call" /\ x.todo = writer[w].todo /\ x.held = h /\ x.alone = writer[w].alone
  BY <1>1, <1>2, <1>3 DEF WriterRecords
<1>5. writer' = [writer EXCEPT ![w] = x]
  BY <1>1, <1>2, <1>3 DEF WriterOK, ip_set_get_byname
<1> QED
  BY <1>1, <1>2, <1>4, <1>5 DEF Writes

LEMMA FoundType ==
  ASSUME TablesOK, NEW l
  PROVE  FoundAt(l) \in Nat
<1>1. Position(ipgrps, l.id) \in Nat
  <2>1. Position(ipgrps, l.id) = 0 \/ Position(ipgrps, l.id) \in DOMAIN ipgrps
    BY PositionFound DEF TablesOK
  <2>2. DOMAIN ipgrps \subseteq Nat
    BY DEF TablesOK
  <2> QED
    BY <2>1, <2>2
<1>2. Position(auths, l.id) \in Nat
  <2>1. Position(auths, l.id) = 0 \/ Position(auths, l.id) \in DOMAIN auths
    BY PositionFound DEF TablesOK
  <2>2. DOMAIN auths \subseteq Nat
    BY DEF TablesOK
  <2> QED
    BY <2>1, <2>2
<1> QED
  BY <1>1, <1>2 DEF FoundAt

LEMMA DisableWrites ==
  ASSUME WriterOK, TablesOK, NEW w \in Writers, DisableHooks(w)
  PROVE  \E x : /\ Writes(w, x) /\ x.pc = "wait" /\ x.todo = writer[w].todo /\ x.held = writer[w].held
                /\ x.at = FoundAt(Line(w)) /\ x.wait = {c \in Cpus : job[c] # Idle}
<1>1. writer[w] \in WriterRecords /\ writer[w].pc = "call" /\ writer[w].todo # <<>>
  BY WriterParts DEF DisableHooks
<1>2. PICK S \in SUBSET Cpus : S = {c \in Cpus : job[c] # Idle}
  OBVIOUS
<1>3. PICK f \in Nat : f = FoundAt(Line(w))
  BY FoundType
<1>4. writer' = [writer EXCEPT ![w].pc = "wait", ![w].wait = S, ![w].at = f]
  BY <1>2, <1>3 DEF DisableHooks
<1>5. PICK x : x = [writer[w] EXCEPT !.pc = "wait", !.wait = S, !.at = f]
  OBVIOUS
<1>6. /\ x \in WriterRecords /\ x.pc = "wait" /\ x.todo = writer[w].todo /\ x.held = writer[w].held
      /\ x.at = f /\ x.wait = S
  BY <1>1, <1>5 DEF WriterRecords
<1>7. writer' = [writer EXCEPT ![w] = x]
  BY <1>1, <1>4, <1>5 DEF WriterOK
<1> QED
  BY <1>1, <1>2, <1>3, <1>6, <1>7 DEF Writes

LEMMA GraceWrites ==
  ASSUME WriterOK, NEW w \in Writers, GracePeriod(w)
  PROVE  \E x : /\ Writes(w, x) /\ x.pc = "change" /\ x.todo = writer[w].todo /\ x.held = writer[w].held
                /\ x.at = writer[w].at /\ x.alone = writer[w].alone
<1>1. writer[w] \in WriterRecords /\ writer[w].pc = "wait" /\ writer[w].todo # <<>>
  BY WriterParts DEF GracePeriod
<1>2. PICK x : x = [writer[w] EXCEPT !.pc = "change"]
  OBVIOUS
<1>3. /\ x \in WriterRecords /\ x.pc = "change" /\ x.todo = writer[w].todo /\ x.held = writer[w].held
      /\ x.at = writer[w].at /\ x.alone = writer[w].alone
  BY <1>1, <1>2 DEF WriterRecords
<1>4. writer' = [writer EXCEPT ![w] = x]
  BY <1>1, <1>2 DEF WriterOK, GracePeriod
<1> QED
  BY <1>1, <1>3, <1>4 DEF Writes

LEMMA ChangeWrites ==
  ASSUME WriterOK, TablesOK, NEW w \in Writers, Change(w)
  PROVE  \E x : /\ Writes(w, x) /\ x.pc = "store" /\ x.todo = writer[w].todo /\ x.held = writer[w].held
                /\ x.at = Slot(Line(w), writer[w].at) /\ x.alone = writer[w].alone
<1>1. writer[w] \in WriterRecords /\ writer[w].pc = "change" /\ writer[w].todo # <<>>
  BY WriterParts DEF Change
<1>2. Slot(Line(w), writer[w].at) \in Nat
  <2>1. writer[w].at \in Nat /\ Len(ipgrps) \in Nat /\ Len(auths) \in Nat
    BY <1>1 DEF WriterRecords, TablesOK
  <2> QED
    BY <2>1 DEF Slot
<1>3. PICK k \in Nat : k = Slot(Line(w), writer[w].at)
  BY <1>2
<1>4. PICK x : x = [writer[w] EXCEPT !.pc = "store", !.at = k]
  OBVIOUS
<1>5. /\ x \in WriterRecords /\ x.pc = "store" /\ x.todo = writer[w].todo /\ x.held = writer[w].held
      /\ x.at = k /\ x.alone = writer[w].alone
  BY <1>1, <1>4 DEF WriterRecords
<1>6. writer' = [writer EXCEPT ![w] = x]
  BY <1>1, <1>3, <1>4 DEF WriterOK, Change
<1> QED
  BY <1>1, <1>3, <1>5, <1>6 DEF Writes

LEMMA StoreWrites ==
  ASSUME WriterOK, NEW w \in Writers, NEW dev, NEW op, Store(w, dev, op)
  PROVE  \E x : Writes(w, x) /\ x.pc = "enable" /\ x.todo = writer[w].todo /\ x.held = <<>>
<1>1. writer[w] \in WriterRecords /\ writer[w].pc = "store" /\ writer[w].todo # <<>>
  BY WriterParts DEF Store
<1>2. PICK x : x = [writer[w] EXCEPT !.pc = "enable", !.at = 0, !.held = <<>>]
  OBVIOUS
<1>3. x \in WriterRecords /\ x.pc = "enable" /\ x.todo = writer[w].todo /\ x.held = <<>>
  <2>1. <<>> \in Seq(Ipsets \cup {NoSet})
    OBVIOUS
  <2> QED
    BY <1>1, <1>2, <2>1 DEF WriterRecords
<1>4. writer' = [writer EXCEPT ![w] = x]
  BY <1>1, <1>2 DEF WriterOK, Store
<1> QED
  BY <1>1, <1>3, <1>4 DEF Writes

\* The end of a read section changes what is waited for, nothing else.
LEMMA LeaveWriter ==
  ASSUME WriterOK, NEW c \in Cpus, Leave(c)
  PROVE  /\ WriterOK'
         /\ \A w \in Writers : /\ writer'[w].pc = writer[w].pc /\ writer'[w].todo = writer[w].todo
                               /\ writer'[w].at = writer[w].at /\ writer'[w].held = writer[w].held
                               /\ writer'[w].wait = writer[w].wait \ {c}
                               /\ writer'[w].alone = writer[w].alone
<1>1. ASSUME NEW x \in WriterRecords
      PROVE  /\ Released(x, c) \in WriterRecords
             /\ Released(x, c).pc = x.pc /\ Released(x, c).todo = x.todo /\ Released(x, c).at = x.at
             /\ Released(x, c).held = x.held /\ Released(x, c).wait = x.wait \ {c}
             /\ Released(x, c).alone = x.alone
  BY DEF Released, WriterRecords
<1>2. writer \in [Writers -> WriterRecords] /\ writer' = [w \in Writers |-> Released(writer[w], c)]
  BY DEF Leave, WriterOK
<1>3. \A w \in Writers : writer[w].pc # "idle" => writer[w].todo # <<>>
  BY DEF WriterOK
<1>4. writer' \in [Writers -> WriterRecords]
  BY <1>1, <1>2
<1>5. \A w \in Writers : /\ writer'[w].pc = writer[w].pc /\ writer'[w].todo = writer[w].todo
                         /\ writer'[w].at = writer[w].at /\ writer'[w].held = writer[w].held
                         /\ writer'[w].wait = writer[w].wait \ {c}
                         /\ writer'[w].alone = writer[w].alone
  BY <1>1, <1>2
<1> QED
  BY <1>3, <1>4, <1>5 DEF WriterOK

\* A line that enables the hooks disturbs the others, and is done with.
LEMMA EnableWriter ==
  ASSUME WriterOK, NEW w \in Writers, EnableHooks(w)
  PROVE  /\ WriterOK'
         /\ writer'[w] = Next1(w)
         /\ \A v \in Writers \ {w} :
              /\ writer'[v].pc = writer[v].pc /\ writer'[v].todo = writer[v].todo
              /\ writer'[v].at = writer[v].at /\ writer'[v].held = writer[v].held
              /\ writer[v].pc \in {"wait", "change", "store"} => ~writer'[v].alone
<1>1. ASSUME NEW x \in WriterRecords
      PROVE  /\ Intruded(x) \in WriterRecords
             /\ Intruded(x).pc = x.pc /\ Intruded(x).todo = x.todo /\ Intruded(x).at = x.at
             /\ Intruded(x).held = x.held
             /\ x.pc \in {"wait", "change", "store"} => ~Intruded(x).alone
  BY DEF Intruded, WriterRecords
<1>2. /\ writer \in [Writers -> WriterRecords] /\ writer[w].pc # "idle"
      /\ writer' = [v \in Writers |-> IF v = w THEN Next1(w) ELSE Intruded(writer[v])]
  BY DEF EnableHooks, WriterOK
<1>3. \A v \in Writers : writer[v].pc # "idle" => writer[v].todo # <<>>
  BY DEF WriterOK
<1>4. /\ Next1(w) \in WriterRecords
      /\ Next1(w).pc # "idle" => Next1(w).todo # <<>>
  BY <1>2, NextLine
<1>5. writer' \in [Writers -> WriterRecords]
  BY <1>1, <1>2, <1>4
<1>6. writer'[w] = Next1(w)
  BY <1>2
<1>7. \A v \in Writers \ {w} :
              /\ writer'[v].pc = writer[v].pc /\ writer'[v].todo = writer[v].todo
              /\ writer'[v].at = writer[v].at /\ writer'[v].held = writer[v].held
              /\ writer[v].pc \in {"wait", "change", "store"} => ~writer'[v].alone
  BY <1>1, <1>2
<1>8. \A v \in Writers : writer'[v].pc # "idle" => writer'[v].todo # <<>>
  BY <1>3, <1>4, <1>6, <1>7
<1> QED
  BY <1>5, <1>6, <1>7, <1>8 DEF WriterOK

-----------------------------------------------------------------------------
(* The types are kept *)

LEMMA StoredType ==
  ASSUME NEW B, NEW s \in Seq(B), NEW i \in Nat, NEW e \in B, NEW blank \in B
  PROVE  Stored(s, i, e, blank) \in Seq(B)
<1>1. \A k \in 1 .. (i + 1) : (IF k = i + 1 THEN e ELSE IF k <= Len(s) THEN s[k] ELSE blank) \in B
  OBVIOUS
<1> QED
  BY <1>1 DEF Stored

LEMMA RemoveAtParts ==
  ASSUME NEW B, NEW s \in Seq(B), NEW at \in DOMAIN s
  PROVE  /\ RemoveAt(s, at) \in Seq(B)
         /\ DOMAIN RemoveAt(s, at) = 1 .. (Len(s) - 1)
         /\ \A k \in 1 .. (Len(s) - 1) : RemoveAt(s, at)[k] = IF k < at THEN s[k] ELSE s[k + 1]
<1>1. at \in 1 .. Len(s) /\ Len(s) \in Nat
  OBVIOUS
<1> DEFINE x == SubSeq(s, 1, at - 1)
           y == SubSeq(s, at + 1, Len(s))
<1>2. x \in Seq(B) /\ Len(x) = at - 1 /\ \A k \in 1 .. (at - 1) : x[k] = s[k]
  BY <1>1
<1>3. y \in Seq(B) /\ Len(y) = Len(s) - at /\ \A k \in 1 .. (Len(s) - at) : y[k] = s[at + k]
  BY <1>1
<1>4. RemoveAt(s, at) = x \o y
  BY DEF RemoveAt
<1> HIDE DEF x, y
<1>5. x \o y \in Seq(B) /\ Len(x \o y) = Len(s) - 1
  BY <1>1, <1>2, <1>3
<1>6. ASSUME NEW k \in 1 .. (Len(s) - 1) PROVE (x \o y)[k] = IF k < at THEN s[k] ELSE s[k + 1]
  <2>1. CASE k < at
    BY <1>1, <1>2, <1>3, <2>1
  <2>2. CASE ~(k < at)
    <3>1. (x \o y)[k] = y[k - (at - 1)] /\ k - (at - 1) \in 1 .. (Len(s) - at) /\ at + (k - (at - 1)) = k + 1
      BY <1>1, <1>2, <1>3, <2>2
    <3> QED
      BY <1>3, <2>2, <3>1
  <2> QED
    BY <2>1, <2>2
<1> QED
  BY <1>4, <1>5, <1>6

LEMMA RemovedType ==
  ASSUME NEW B, NEW s \in Seq(B), NEW i \in Nat
  PROVE  Removed(s, i) \in Seq(B)
<1>1. CASE i \in DOMAIN s
  BY <1>1, RemoveAtParts DEF Removed
<1>2. CASE i \notin DOMAIN s /\ s = <<>>
  BY <1>2 DEF Removed
<1>3. CASE i \notin DOMAIN s /\ s # <<>>
  <2>1. Len(s) \in Nat /\ Len(s) # 0
    BY <1>3
  <2>2. SubSeq(s, 1, Len(s) - 1) \in Seq(B)
    BY <2>1
  <2> QED
    BY <1>3, <2>2 DEF Removed, Front
<1> QED
  BY <1>1, <1>2, <1>3

LEMMA MagicParts ==
  ASSUME NEW m \in Nat, m < 65536
  PROVE  /\ NextMagic(m) \in Nat
         /\ NextMagic(m) < 65536
         /\ NextMagic(m) = 0 \/ NextMagic(m) = m + 1
BY DEF NextMagic

\* What a device applies: its table, and the packets under way are late.
LEMMA ApplyStores ==
  ASSUME NEW w \in Writers, Apply(w)
  PROVE  \E dev, op : /\ Store(w, dev, op)
                      /\ dev # "zone" => UNCHANGED zones
                      /\ dev # "ipgrp" => UNCHANGED ipgrps
                      /\ dev # "auth" => UNCHANGED <<auths, bypass>>
BY DEF Apply, nos_zone_cleanup, nos_zone_set, nos_zone_delete, nos_ipgrp_cleanup, nos_ipgrp_set,
   nos_ipgrp_delete, nos_auth_cleanup, nos_auth_set, nos_auth_delete, SetBypass

LEMMA ApplyTables ==
  ASSUME WriterOK, TablesOK, NEW w \in Writers, Apply(w)
  PROVE  TablesOK'
<1>1. /\ Line(w) \in Lines /\ writer[w].at \in Nat /\ magic' = magic
      /\ zones \in [Interfaces -> ZoneIds] /\ ipgrps \in Seq(GroupEntries) /\ auths \in Seq(RuleEntries)
  <2>1. writer[w].pc = "store" /\ magic' = magic
    BY ApplyStores DEF Store
  <2>2. writer[w] \in WriterRecords
    BY WriterParts
  <2> QED
    BY <2>1, <2>2, WriterParts DEF TablesOK, WriterRecords
<1> SUFFICES zones' \in [Interfaces -> ZoneIds] /\ ipgrps' \in Seq(GroupEntries) /\ auths' \in Seq(RuleEntries)
  BY <1>1 DEF TablesOK
<1>2. INVALID_ZONE_ID \in ZoneIds
  BY DEF ZoneIds
<1>3. CASE nos_zone_cleanup(w)
  BY <1>1, <1>2, <1>3 DEF nos_zone_cleanup
<1>4. CASE nos_zone_set(w)
  <2>1. Line(w).id \in ZoneIds
    BY <1>1, <1>4 DEF nos_zone_set, Store, ZoneIds
  <2> QED
    BY <1>1, <1>4, <2>1 DEF nos_zone_set
<1>5. CASE nos_zone_delete(w)
  BY <1>1, <1>2, <1>5 DEF nos_zone_delete
<1>6. CASE nos_ipgrp_cleanup(w)
  BY <1>1, <1>6 DEF nos_ipgrp_cleanup
<1>7. CASE nos_ipgrp_set(w)
  <2>1. BlankGroup \in GroupEntries /\ [id |-> Line(w).id, set |-> Line(w).set] \in GroupEntries
    BY <1>1, <1>7 DEF nos_ipgrp_set, Store, GroupEntries
  <2> QED
    BY <1>1, <1>7, <2>1, StoredType DEF nos_ipgrp_set
<1>8. CASE nos_ipgrp_delete(w)
  BY <1>1, <1>8, RemovedType DEF nos_ipgrp_delete
<1>9. CASE nos_auth_cleanup(w)
  BY <1>1, <1>9 DEF nos_auth_cleanup
<1>10. CASE nos_auth_set(w)
  <2>1. BlankRule \in RuleEntries /\ RuleOf(Line(w)) \in RuleEntries
    BY <1>1, <1>10 DEF nos_auth_set, Store, RuleEntries
  <2> QED
    BY <1>1, <1>10, <2>1, StoredType DEF nos_auth_set
<1>11. CASE nos_auth_delete(w)
  BY <1>1, <1>11, RemovedType DEF nos_auth_delete
<1>12. CASE SetBypass(w)
  BY <1>1, <1>12 DEF SetBypass
<1> QED
  BY <1>3, <1>4, <1>5, <1>6, <1>7, <1>8, <1>9, <1>10, <1>11, <1>12 DEF Apply

\* The packets of other CPUs are marked late.
LEMMA OutdatedParts ==
  ASSUME NEW j \in Jobs
  PROVE  /\ Outdated(j) \in Jobs
         /\ Outdated(j).pc = j.pc /\ Outdated(j).u = j.u
         /\ Outdated(j).zone = j.zone /\ Outdated(j).bits = j.bits
         /\ Outdated(j).late
BY DEF Outdated, Jobs

LEMMA LateJobs ==
  ASSUME JobOK, MarkLate
  PROVE  /\ JobOK'
         /\ \A c \in Cpus : ~Inside(c) => job'[c] = job[c]
         /\ \A c \in Cpus : Inside(c) => job[c] \in Jobs /\ job'[c] = Outdated(job[c])
         /\ \A c \in Cpus : job'[c].pc = job[c].pc
<1>1. \A c \in Cpus : Inside(c) => job[c] \in Jobs
  BY JobParts
<1>2. job' = [c \in Cpus |-> IF Inside(c) THEN Outdated(job[c]) ELSE job[c]]
  BY DEF MarkLate
<1>3. \A c \in Cpus : Inside(c) => Outdated(job[c]) \in Jobs /\ Outdated(job[c]).pc = job[c].pc
  BY <1>1, OutdatedParts
<1> QED
  BY <1>1, <1>2, <1>3 DEF JobOK

TypeOK == JobOK /\ TrafficOK /\ WriterOK /\ TablesOK

\* What a packet leaves alone.
LEMMA ForwardSame ==
  ASSUME NEW c \in Cpus, nos_pre_hook(c) \/ Forward(c)
  PROVE  /\ UNCHANGED <<disable, zones, ipgrps, auths, bypass, magic, refs, behind, clashed, loaded>>
         /\ writer' = writer \/ Leave(c)
BY DEF nos_pre_hook, Forward, nos_fw_hook, ZoneMatch, ZoneStore, IpgrpMatch, IpgrpStore, nos_auth_hook,
   AuthReset, AuthSearch, AuthWhite, AuthJudge, config

LEMMA LeaveJob ==
  ASSUME JobOK, NEW c \in Cpus, Leave(c)
  PROVE  JobOK' /\ job' = [job EXCEPT ![c] = Idle]
BY DEF Leave, JobOK

LEMMA MovesJob ==
  ASSUME JobOK, NEW c \in Cpus, NEW x, Moves(c, x)
  PROVE  JobOK'
BY DEF Moves, JobOK

LEMMA ForwardTypes ==
  ASSUME TypeOK, NEW c \in Cpus, nos_pre_hook(c) \/ Forward(c)
  PROVE  TypeOK'
<1> USE DEF TypeOK
<1>1. WriterOK' /\ TablesOK'
  BY ForwardSame, LeaveWriter DEF WriterOK, TablesOK
<1>2. ASSUME UNCHANGED <<node, term>> PROVE TrafficOK'
  BY <1>2 DEF TrafficOK
<1>3. CASE nos_pre_hook(c)
  <2>1. JobOK'
    BY <1>3, PreHookJob DEF JobOK
  <2> QED
    BY <1>1, <1>2, <1>3, <2>1 DEF nos_pre_hook, traffic
<1>4. CASE nos_fw_hook(c)
  <2>1. JobOK'
    BY <1>4, FwHookJob, LeaveJob, MovesJob
  <2> QED
    BY <1>1, <1>2, <1>4, <2>1 DEF nos_fw_hook, traffic
<1>5. CASE ZoneMatch(c)
  <2>1. JobOK'
    BY <1>5, ZoneMatchMoves, MovesJob
  <2> QED
    BY <1>1, <1>2, <1>5, <2>1 DEF ZoneMatch, traffic
<1>6. CASE ZoneStore(c)
  <2>1. JobOK' /\ TrafficOK'
    <3>1. PICK x, n : Moves(c, x) /\ n \in Nodes /\ node' = [node EXCEPT ![x.u] = n]
      BY <1>6, ZoneStoreMoves
    <3>2. term' = term
      BY <1>6 DEF ZoneStore
    <3> QED
      BY <3>1, <3>2, MovesJob DEF TrafficOK
  <2> QED
    BY <1>1, <2>1
<1>7. CASE IpgrpMatch(c)
  <2>1. JobOK'
    BY <1>7, IpgrpMatchMoves, MovesJob
  <2> QED
    BY <1>1, <1>2, <1>7, <2>1 DEF IpgrpMatch, traffic
<1>8. CASE IpgrpStore(c)
  <2>1. JobOK' /\ TrafficOK'
    <3>1. PICK x, n : Moves(c, x) /\ n \in Nodes /\ node' = [node EXCEPT ![x.u] = n]
      BY <1>8, IpgrpStoreMoves
    <3>2. term' = term
      BY <1>8 DEF IpgrpStore
    <3> QED
      BY <3>1, <3>2, MovesJob DEF TrafficOK
  <2> QED
    BY <1>1, <2>1
<1>9. CASE nos_auth_hook(c)
  <2>1. JobOK'
    BY <1>9, AuthHookMoves, MovesJob
  <2> QED
    BY <1>1, <1>2, <1>9, <2>1 DEF nos_auth_hook, traffic
<1>10. CASE AuthReset(c)
  <2>1. JobOK' /\ TrafficOK'
    <3>1. PICK x, t : Moves(c, x) /\ t \in Terms /\ term' = [term EXCEPT ![x.u] = t]
      BY <1>10, AuthResetMoves
    <3>2. node' = node
      BY <1>10 DEF AuthReset
    <3> QED
      BY <3>1, <3>2, MovesJob DEF TrafficOK
  <2> QED
    BY <1>1, <2>1
<1>11. CASE AuthSearch(c)
  <2>1. JobOK' /\ TrafficOK'
    <3>1. PICK x, t : Moves(c, x) /\ t \in Terms /\ term' = [term EXCEPT ![x.u] = t]
      BY <1>11, AuthSearchMoves
    <3>2. node' = node
      BY <1>11 DEF AuthSearch
    <3> QED
      BY <3>1, <3>2, MovesJob DEF TrafficOK
  <2> QED
    BY <1>1, <2>1
<1>12. CASE AuthWhite(c)
  <2>1. JobOK' /\ TrafficOK'
    BY <1>12, AuthWhiteMoves, MovesJob DEF TrafficOK, SameRules, AuthWhite
  <2> QED
    BY <1>1, <2>1
<1>13. CASE AuthJudge(c)
  <2>1. JobOK' /\ TrafficOK'
    BY <1>13, AuthJudgeRules, LeaveJob DEF TrafficOK, SameRules, AuthJudge
  <2> QED
    BY <1>1, <2>1
<1> QED
  BY <1>3, <1>4, <1>5, <1>6, <1>7, <1>8, <1>9, <1>10, <1>11, <1>12, <1>13 DEF Forward

LEMMA WriteTypes ==
  ASSUME TypeOK, NEW w \in Writers, StartScript(w) \/ Write(w)
  PROVE  TypeOK'
<1> USE DEF TypeOK
<1>1. ASSUME UNCHANGED <<node, term>> PROVE TrafficOK'
  BY <1>1 DEF TrafficOK
<1>2. ASSUME UNCHANGED job PROVE JobOK'
  BY <1>2 DEF JobOK
<1>3. ASSUME UNCHANGED <<zones, ipgrps, auths, magic>> PROVE TablesOK'
  BY <1>3 DEF TablesOK
<1>4. CASE StartScript(w)
  BY <1>1, <1>2, <1>3, <1>4, StartWrites, WritesOK DEF StartScript, traffic, config
<1>5. CASE ip_set_get_byname(w)
  BY <1>1, <1>2, <1>3, <1>5, GetWrites, WritesOK DEF ip_set_get_byname, traffic
<1>6. CASE Refused(w)
  BY <1>1, <1>2, <1>3, <1>6, NextWrites, WritesOK DEF Refused, traffic
<1>7. CASE UpdateMagic(w)
  <2>1. PICK dev : dev = Line(w).dev
    OBVIOUS
  <2>2. dev \in Devices /\ magic' = [magic EXCEPT ![dev] = NextMagic(@)]
    BY <1>7, <2>1, WriterParts, LineKnown DEF UpdateMagic
  <2>3. TablesOK'
    <3>1. magic[dev] \in Nat /\ magic[dev] < 65536
      BY <2>2 DEF TablesOK
    <3>2. PICK m \in Nat : m = NextMagic(magic[dev]) /\ m < 65536
      BY <3>1, MagicParts
    <3>3. magic' = [magic EXCEPT ![dev] = m]
      BY <2>2, <3>2
    <3>4. magic' \in [Devices -> Nat] /\ \A d \in Devices : magic'[d] < 65536
      <4>1. magic \in [Devices -> Nat] /\ \A d \in Devices : magic[d] < 65536
        BY DEF TablesOK
      <4> QED
        BY <2>2, <3>2, <3>3, <4>1
    <3>5. UNCHANGED <<zones, ipgrps, auths>>
      BY <1>7 DEF UpdateMagic
    <3> QED
      BY <3>4, <3>5 DEF TablesOK
  <2>4. JobOK'
    BY <1>2, <1>7, LateJobs DEF UpdateMagic
  <2>5. WriterOK'
    BY <1>7, NextWrites, WritesOK DEF UpdateMagic
  <2>6. TrafficOK'
    BY <1>1, <1>7 DEF UpdateMagic, traffic
  <2> QED
    BY <2>3, <2>4, <2>5, <2>6
<1>8. CASE DisableHooks(w)
  BY <1>1, <1>2, <1>3, <1>8, DisableWrites, WritesOK DEF DisableHooks, traffic
<1>9. CASE GracePeriod(w)
  BY <1>1, <1>2, <1>3, <1>9, GraceWrites, WritesOK DEF GracePeriod, traffic, config
<1>10. CASE Change(w)
  BY <1>1, <1>2, <1>3, <1>10, ChangeWrites, WritesOK DEF Change, traffic
<1>11. CASE Apply(w)
  <2>1. PICK dev, op : Store(w, dev, op)
    BY <1>11, ApplyStores
  <2>2. JobOK' /\ TrafficOK' /\ WriterOK'
    BY <1>1, <2>1, LateJobs, StoreWrites, WritesOK DEF Store, traffic
  <2> QED
    BY <1>11, <2>2, ApplyTables
<1>12. CASE EnableHooks(w)
  BY <1>1, <1>2, <1>3, <1>12, EnableWriter DEF EnableHooks, traffic, config
<1> QED
  BY <1>4, <1>5, <1>6, <1>7, <1>8, <1>9, <1>10, <1>11, <1>12 DEF Write

LEMMA TypeStep == TypeOK /\ [Next]_vars => TypeOK'
<1> SUFFICES ASSUME TypeOK, [Next]_vars PROVE TypeOK'
  OBVIOUS
<1> USE DEF TypeOK
<1>1. ASSUME UNCHANGED <<zones, ipgrps, auths, magic, node, term, job, writer>> PROVE TypeOK'
  BY <1>1 DEF JobOK, TrafficOK, WriterOK, TablesOK
<1>2. ASSUME NEW u \in Terminals, NEW status \in {"ok", "req", "bypass"}, user_set_status(u, status) PROVE TypeOK'
  <2>1. UNCHANGED <<zones, ipgrps, auths, magic, node, job, writer>> /\ SameRules
    BY <1>2, StatusStepRules DEF user_set_status, config
  <2> QED
    BY <2>1 DEF JobOK, TrafficOK, WriterOK, TablesOK, SameRules
<1>3. ASSUME nos_exit PROVE TypeOK'
  <2>1. INVALID_ZONE_ID \in ZoneIds
    BY DEF ZoneIds
  <2>2. TablesOK'
    BY <1>3, <2>1 DEF nos_exit, TablesOK
  <2> QED
    BY <1>3, <2>2 DEF nos_exit, JobOK, TrafficOK, WriterOK, traffic
<1> QED
  BY <1>1, <1>2, <1>3, ForwardTypes, WriteTypes DEF Next, NewConnection, vars, config

LEMMA TypeInit == Init => TypeOK
<1> SUFFICES ASSUME Init PROVE TypeOK
  OBVIOUS
<1>1. JobOK
  BY DEF Init, JobOK
<1>2. TrafficOK
  <2>1. {} \in TornGroups
    BY DEF TornGroups
  <2> QED
    BY <2>1 DEF Init, TrafficOK, Nodes, Terms, ZoneIds, RuleTypes, RuleIds
<1>3. WriterOK
  BY DEF Init, WriterOK, WriterRecords
<1>4. TablesOK
  BY DEF Init, TablesOK, ZoneIds, FirstMagic
<1> QED
  BY <1>1, <1>2, <1>3, <1>4 DEF TypeOK

-----------------------------------------------------------------------------
(* The flag *)

\* No packet passes the test of the flag, and no line goes on.
LEMMA FlagKept ==
  ASSUME FlagInv, disable' = disable, \A c \in Cpus : Inside(c)' => Inside(c),
         \A w \in Writers : /\ writer'[w].pc = writer[w].pc
                            /\ writer'[w].alone = writer[w].alone
                            /\ \A c \in Cpus : Inside(c)' /\ c \in writer[w].wait => c \in writer'[w].wait
  PROVE  FlagInv'
BY DEF FlagInv

LEMMA FlagForward ==
  ASSUME TypeOK, FlagInv, NEW c \in Cpus, nos_pre_hook(c) \/ Forward(c)
  PROVE  FlagInv'
<1> USE DEF TypeOK
<1>0. disable' = disable
  BY ForwardSame
<1>1. ASSUME NEW x \in Jobs, job' = [job EXCEPT ![c] = x], Inside(c) \/ x.pc = "fw", writer' = writer
      PROVE  FlagInv'
  <2>1. \A d \in Cpus : Inside(d)' => Inside(d)
    BY <1>1 DEF Inside, JobOK
  <2> QED
    BY <1>0, <1>1, <2>1, FlagKept
<1>2. ASSUME Leave(c) PROVE FlagInv'
  <2>1. job' = [job EXCEPT ![c] = Idle] /\ Idle.pc = "idle"
    BY <1>2, LeaveJob DEF Idle
  <2>2. \A d \in Cpus : Inside(d)' => Inside(d) /\ d # c
    BY <2>1 DEF Inside, JobOK
  <2>3. \A w \in Writers : /\ writer'[w].pc = writer[w].pc /\ writer'[w].wait = writer[w].wait \ {c}
                           /\ writer'[w].alone = writer[w].alone
    BY <1>2, LeaveWriter
  <2> QED
    BY <1>0, <2>2, <2>3, FlagKept
<1>3. ASSUME NEW x, Moves(c, x), Inside(c), writer' = writer PROVE FlagInv'
  BY <1>1, <1>3 DEF Moves
<1>4. CASE nos_pre_hook(c)
  BY <1>1, <1>4, PreHookJob DEF nos_pre_hook
<1>5. CASE nos_fw_hook(c) /\ ~Leave(c)
  <2>1. ~disable /\ writer' = writer
    BY <1>5, FwHookJob
  <2> QED
    BY <1>0, <2>1 DEF FlagInv
<1>6. CASE ZoneMatch(c)
  BY <1>3, <1>6, ZoneMatchMoves DEF ZoneMatch, Inside
<1>7. CASE ZoneStore(c)
  BY <1>3, <1>7, ZoneStoreMoves DEF ZoneStore, Inside
<1>8. CASE IpgrpMatch(c)
  BY <1>3, <1>8, IpgrpMatchMoves DEF IpgrpMatch, Inside
<1>9. CASE IpgrpStore(c)
  BY <1>3, <1>9, IpgrpStoreMoves DEF IpgrpStore, Inside
<1>10. CASE nos_auth_hook(c)
  BY <1>3, <1>10, AuthHookMoves DEF nos_auth_hook, Inside
<1>11. CASE AuthReset(c)
  BY <1>3, <1>11, AuthResetMoves DEF AuthReset, Inside
<1>12. CASE AuthSearch(c)
  BY <1>3, <1>12, AuthSearchMoves DEF AuthSearch, Inside
<1>13. CASE AuthWhite(c)
  BY <1>3, <1>13, AuthWhiteMoves DEF AuthWhite, Inside
<1>14. CASE AuthJudge(c)
  BY <1>2, <1>14 DEF AuthJudge
<1> QED
  BY <1>2, <1>4, <1>5, <1>6, <1>7, <1>8, <1>9, <1>10, <1>11, <1>12, <1>13, <1>14 DEF Forward

\* A step of a writer: the other writers keep what FlagInv says of them.
LEMMA FlagWrites ==
  ASSUME TypeOK, FlagInv, NEW w \in Writers, NEW x, Writes(w, x),
         \A c \in Cpus : job'[c].pc = job[c].pc,
         disable => disable',
         x.pc \in {"wait", "change", "store"} =>
           /\ x.alone => disable'
           /\ x.alone /\ x.pc = "wait" => \A c \in Cpus : Inside(c) => c \in x.wait
           /\ x.alone /\ x.pc # "wait" => \A c \in Cpus : ~Inside(c)
  PROVE  FlagInv'
<1>1. writer' = [writer EXCEPT ![w] = x] /\ writer \in [Writers -> WriterRecords]
  BY DEF Writes, TypeOK, WriterOK
<1>2. \A c \in Cpus : Inside(c)' <=> Inside(c)
  BY DEF Inside
<1>3. \A v \in Writers : v # w => writer'[v] = writer[v]
  BY <1>1
<1>4. writer'[w] = x
  BY <1>1
<1> DEFINE Kept(v) == writer[v].alone =>
                        /\ writer[v].pc \in {"wait", "change", "store"} => disable
                        /\ writer[v].pc = "wait" => \A c \in Cpus : Inside(c) => c \in writer[v].wait
                        /\ writer[v].pc \in {"change", "store"} => \A c \in Cpus : ~Inside(c)
<1>5. ASSUME NEW v \in Writers, v # w PROVE Kept(v)'
  <2>1. Kept(v)
    BY DEF FlagInv
  <2> QED
    BY <1>2, <1>3, <1>5, <2>1
<1>6. Kept(w)'
  <2>1. (writer[w].alone)' <=> x.alone
    BY <1>4, Zenon
  <2>2. writer'[w].pc = x.pc /\ writer'[w].wait = x.wait
    BY <1>4
  <2>3. CASE x.alone /\ x.pc \in {"wait", "change", "store"}
    <3>1. disable'
      BY <2>3
    <3>2. x.pc = "wait" => \A c \in Cpus : Inside(c) => c \in x.wait
      BY <2>3
    <3>3. x.pc # "wait" => \A c \in Cpus : ~Inside(c)
      BY <2>3
    <3>4. writer'[w].pc = "wait" => \A c \in Cpus : Inside(c)' => c \in writer'[w].wait
      BY <1>2, <2>2, <3>2
    <3>5. writer'[w].pc \in {"change", "store"} => \A c \in Cpus : ~Inside(c)'
      BY <1>2, <2>2, <3>3
    <3> QED
      BY <3>1, <3>4, <3>5, Zenon
  <2>4. CASE x.pc \notin {"wait", "change", "store"}
    BY <2>2, <2>4
  <2>5. CASE ~x.alone
    BY <2>1, <2>5, Zenon
  <2> QED
    BY <2>3, <2>4, <2>5, Zenon
<1> QED
  BY <1>5, <1>6 DEF FlagInv

LEMMA FlagWrite ==
  ASSUME TypeOK, FlagInv, NEW w \in Writers, StartScript(w) \/ Write(w)
  PROVE  FlagInv'
<1> USE DEF TypeOK
<1>0. JobOK => \A c \in Cpus : Inside(c) => job[c] # Idle
  BY JobParts
<1>1. CASE StartScript(w)
  <2>1. PICK x : Writes(w, x) /\ x.pc = "call"
    BY <1>1, StartWrites
  <2> QED
    BY <1>1, <2>1, FlagWrites DEF StartScript
<1>2. CASE ip_set_get_byname(w)
  <2>1. PICK x : Writes(w, x) /\ x.pc = "call"
    BY <1>2, GetWrites
  <2> QED
    BY <1>2, <2>1, FlagWrites DEF ip_set_get_byname
<1>3. CASE Refused(w)
  <2>1. Writes(w, Next1(w)) /\ Next1(w).pc \in {"idle", "call"}
    BY <1>3, NextWrites, NextLine DEF Refused
  <2> QED
    BY <1>3, <2>1, FlagWrites DEF Refused
<1>4. CASE UpdateMagic(w)
  <2>1. Writes(w, Next1(w)) /\ Next1(w).pc \in {"idle", "call"}
    BY <1>4, NextWrites, NextLine DEF UpdateMagic
  <2>2. \A c \in Cpus : job'[c].pc = job[c].pc
    BY <1>4, LateJobs DEF UpdateMagic
  <2>3. disable' = disable
    BY <1>4 DEF UpdateMagic
  <2> QED
    BY <2>1, <2>2, <2>3, FlagWrites
<1>5. CASE DisableHooks(w)
  <2>1. PICK x : Writes(w, x) /\ x.pc = "wait" /\ x.wait = {c \in Cpus : job[c] # Idle}
    BY <1>5, DisableWrites
  <2>2. disable' /\ job' = job
    BY <1>5 DEF DisableHooks
  <2> QED
    BY <1>0, <2>1, <2>2, FlagWrites
<1>6. CASE GracePeriod(w)
  <2>1. PICK x : Writes(w, x) /\ x.pc = "change" /\ x.alone = writer[w].alone
    BY <1>6, GraceWrites
  <2>2. writer[w].pc = "wait" /\ writer[w].wait = {} /\ disable' = disable /\ job' = job
    BY <1>6 DEF GracePeriod
  <2>3. writer[w].alone => disable /\ \A c \in Cpus : ~Inside(c)
    BY <2>2 DEF FlagInv
  <2> QED
    BY <2>1, <2>2, <2>3, FlagWrites
<1>7. CASE Change(w)
  <2>1. PICK x : Writes(w, x) /\ x.pc = "store" /\ x.alone = writer[w].alone
    BY <1>7, ChangeWrites
  <2>2. writer[w].pc = "change" /\ disable' = disable /\ job' = job
    BY <1>7 DEF Change
  <2>3. writer[w].alone => disable /\ \A c \in Cpus : ~Inside(c)
    BY <2>2 DEF FlagInv
  <2> QED
    BY <2>1, <2>2, <2>3, FlagWrites
<1>8. CASE Apply(w)
  <2>1. PICK dev, op : Store(w, dev, op)
    BY <1>8, ApplyStores
  <2>2. PICK x : Writes(w, x) /\ x.pc = "enable"
    BY <2>1, StoreWrites
  <2>3. disable' = disable /\ \A c \in Cpus : job'[c].pc = job[c].pc
    BY <2>1, LateJobs DEF Store
  <2> QED
    BY <2>2, <2>3, FlagWrites
<1>9. CASE EnableHooks(w)
  <2>1. /\ writer'[w] = Next1(w) /\ Next1(w).pc \in {"idle", "call"}
        /\ \A v \in Writers \ {w} : /\ writer'[v].pc = writer[v].pc
                                    /\ writer[v].pc \in {"wait", "change", "store"} => ~writer'[v].alone
    BY <1>9, EnableWriter, NextLine DEF EnableHooks
  <2> QED
    BY <2>1 DEF FlagInv
<1> QED
  BY <1>1, <1>2, <1>3, <1>4, <1>5, <1>6, <1>7, <1>8, <1>9 DEF Write

LEMMA FlagStep == TypeOK /\ FlagInv /\ [Next]_vars => FlagInv'
<1> SUFFICES ASSUME TypeOK, FlagInv, [Next]_vars PROVE FlagInv'
  OBVIOUS
<1>1. ASSUME UNCHANGED <<disable, job, writer>> PROVE FlagInv'
  BY <1>1 DEF FlagInv, Inside
<1> QED
  BY <1>1, FlagForward, FlagWrite DEF Next, NewConnection, user_set_status, nos_exit, vars

LEMMA FlagInit == Init => FlagInv
BY DEF Init, FlagInv

FlagState == TypeOK /\ FlagInv

LEMMA FlagInvariant == Spec => []FlagState
<1>1. Init => FlagState
  BY TypeInit, FlagInit DEF FlagState
<1>2. FlagState /\ [Next]_vars => FlagState'
  BY TypeStep, FlagStep DEF FlagState
<1> QED
  BY <1>1, <1>2, PTL DEF Spec

\* nos_fw_hook never looks a packet up in the tables while a line that has
\* disabled the hooks changes them (nos_auth.c:64-76, :103-108, :115-127,
\* nos_ipgrp.c and nos_zone.c alike), unless another line enabled the hooks in
\* between: for any number of CPUs, of writers and of lines at the same time.
THEOREM LookupsExcluded == Spec => []Exclusive
<1>1. FlagState => Exclusive
  BY DEF FlagState, FlagInv, Exclusive
<1> QED
  BY <1>1, FlagInvariant, PTL

-----------------------------------------------------------------------------
(* The rule the present tables give *)

LEMMA ShiftMeets ==
  ASSUME NEW i \in 0 .. 31, NEW j \in 0 .. 31
  PROVE  Shift(i) \subseteq 0 .. 63 /\ (Shift(i) \cap Shift(j) # {} <=> i = j)
<1>1. i % 32 = i /\ j % 32 = j
  OBVIOUS
<1>2. Shift(i) = IF i = 31 THEN 31 .. 63 ELSE {i}
  BY <1>1 DEF Shift
<1>3. Shift(j) = IF j = 31 THEN 31 .. 63 ELSE {j}
  BY <1>1 DEF Shift
<1>4. i = j => i \in Shift(i) \cap Shift(j)
  BY <1>2, <1>3
<1>5. ASSUME NEW x \in Shift(i) \cap Shift(j) PROVE i = j
  BY <1>2, <1>3, <1>5
<1>6. Shift(i) \subseteq 0 .. 63
  BY <1>2
<1> QED
  BY <1>4, <1>5, <1>6

LEMMA GroupIds ==
  ASSUME GroupsFit, TablesOK
  PROVE  /\ \A g \in DOMAIN ipgrps : ipgrps[g].id \in 0 .. 31
         /\ \A r \in DOMAIN auths : auths[r].grp \in 0 .. 31
<1>1. \A e \in GroupEntries : e.id \in 0 .. 31
  BY DEF GroupEntries, GroupsFit, BlankGroup
<1>2. \A e \in RuleEntries : e.grp \in 0 .. 31
  BY DEF RuleEntries, GroupsFit, BlankRule, RuleOf
<1>3. /\ \A g \in DOMAIN ipgrps : ipgrps[g] \in GroupEntries
      /\ \A r \in DOMAIN auths : auths[r] \in RuleEntries
  BY DEF TablesOK
<1> QED
  BY <1>1, <1>2, <1>3

\* The zone and the groups stored for a terminal are those of the present tables.
NodeRight(u) == node[u].zone_id = zones[InIf[u]] /\ node[u].ipgrp_bits = nos_ipgrp_match(u)

\* With the zone and the groups of the present tables the rules that apply
\* are the ones expected.
LEMMA AppliesExpected ==
  ASSUME GroupsFit, TablesOK, NEW u,
         NodeRight(u)
  PROVE  {i \in 1 .. Len(auths) : Applies(auths[i], u)} = Expected(u)
<1>0. DOMAIN auths = 1 .. Len(auths)
  BY DEF TablesOK
<1> SUFFICES ASSUME NEW r \in DOMAIN auths
             PROVE  Applies(auths[r], u) <=>
                      /\ zones[InIf[u]] = auths[r].zone
                      /\ \E g \in DOMAIN ipgrps : /\ ipgrps[g].id = auths[r].grp
                                                  /\ ipgrps[g].set = NoSet \/ u \in Holds[ipgrps[g].set]
  BY <1>0 DEF Expected
<1> DEFINE In(g) == ipgrps[g].set = NoSet \/ u \in Holds[ipgrps[g].set]
<1>1. auths[r].grp \in 0 .. 31
  BY GroupIds
<1>2. \A g \in DOMAIN ipgrps : Shift(ipgrps[g].id) \cap Shift(auths[r].grp) # {} <=> ipgrps[g].id = auths[r].grp
  <2> TAKE g \in DOMAIN ipgrps
  <2>1. ipgrps[g].id \in 0 .. 31
    BY GroupIds
  <2> QED
    BY <1>1, <2>1, ShiftMeets
<1>3. nos_ipgrp_match(u) = UNION {Shift(ipgrps[i].id) : i \in {k \in DOMAIN ipgrps : In(k)}}
  BY DEF nos_ipgrp_match
<1> HIDE DEF In
<1>4. nos_ipgrp_match(u) \cap Shift(auths[r].grp) # {}
        <=> \E g \in DOMAIN ipgrps : In(g) /\ Shift(ipgrps[g].id) \cap Shift(auths[r].grp) # {}
  BY <1>3
<1>5. Applies(auths[r], u) <=> /\ zones[InIf[u]] = auths[r].zone
                               /\ \E g \in DOMAIN ipgrps : ipgrps[g].id = auths[r].grp /\ In(g)
  BY <1>2, <1>4 DEF Applies, NodeRight
<1> QED
  BY <1>5 DEF In

\* So the entry nos_auth_hook stops at is the first of them.
LEMMA SearchRight ==
  ASSUME GroupsFit, TablesOK, NEW u, NodeRight(u), ~Storing("auth"), NEW e \in RuleFound(u), NEW t,
         e.at = 0 => t.rule_id = INVALID_AUTH_RULE_ID \/ Right(u, t),
         e.at # 0 => t.rule_id = e.id /\ t.type = e.type
  PROVE  Right(u, t)
<1> DEFINE I == {i \in 1 .. Len(auths) : Applies(auths[i], u)}
           f == FirstApplying(u)
<1>1. I = Expected(u)
  BY AppliesExpected
<1>2. f = IF I # {} THEN Min(I) ELSE 0
  BY DEF FirstApplying, SelectInSeq
<1>3. I \in SUBSET (Nat \ {0})
  OBVIOUS
<1> HIDE DEF I
<1>4. I # {} => Min(I) \in I /\ \A y \in I : Min(I) <= y
  <2>1. I \in SUBSET Nat
    BY <1>3
  <2> QED
    BY <2>1, Least DEF Min
<1>5. e = Entry(f)
  BY DEF RuleFound
<1> HIDE DEF f
<1>6. CASE I = {}
  <2>1. e.at = 0
    BY <1>2, <1>5, <1>6 DEF Entry, NotFound
  <2> QED
    BY <1>1, <1>6, <2>1 DEF Right
<1>7. CASE I # {}
  <2>1. f # 0 /\ f \in I /\ \A y \in I : f <= y
    BY <1>2, <1>3, <1>4, <1>7
  <2>2. e.at # 0 /\ e.id = auths[f].id /\ e.type = auths[f].type
    BY <1>5, <2>1 DEF Entry
  <2> QED
    BY <1>1, <1>7, <2>1, <2>2 DEF Right
<1> QED
  BY <1>6, <1>7

\* Right is about the rule of a record only.
LEMMA RightFields ==
  ASSUME NEW u, NEW s, NEW t, s.rule_id = t.rule_id, s.type = t.type, Right(u, s)
  PROVE  Right(u, t)
BY DEF Right

LEMMA RightNext ==
  ASSUME UNCHANGED <<zones, ipgrps, auths>>, NEW u, NEW t, Right(u, t)
  PROVE  Right(u, t)'
BY DEF Right, Expected

LEMMA RightBefore ==
  ASSUME UNCHANGED <<zones, ipgrps, auths>>, NEW u, NEW t, Right(u, t)'
  PROVE  Right(u, t)
BY DEF Right, Expected

LEMMA MatchNext ==
  ASSUME UNCHANGED ipgrps, NEW n
  PROVE  nos_ipgrp_match(n)' = nos_ipgrp_match(n)
BY DEF nos_ipgrp_match

-----------------------------------------------------------------------------
(* Steps that leave the tables alone *)

SameTables ==
  /\ UNCHANGED <<zones, ipgrps, auths, magic, behind>>
  /\ \A dev \in Devices : Storing(dev)' <=> Storing(dev)

\* A terminal's node is left alone or stored at the present magic.
NodesKept ==
  \A u \in Terminals : /\ node'[u].zone_magic \in {node[u].zone_magic, magic["zone"]}
                       /\ node'[u].ipgrp_magic \in {node[u].ipgrp_magic, magic["ipgrp"]}

SameRule(u) == term'[u].rule_id = term[u].rule_id /\ term'[u].type = term[u].type

\* The rule of a terminal is left alone, reset, or found in the tables.
RulesKept ==
  \A u \in Terminals : \/ SameRule(u)
                       \/ term'[u].rule_id = INVALID_AUTH_RULE_ID
                       \/ NodeRight(u) /\ ~Storing("auth") => Right(u, term'[u])

LEMMA FreshRight ==
  ASSUME NodesInv, NEW j \in Jobs, Fresh(j), ~j.late, j.pc \in AfterGroups,
         behind \cap {"zone", "ipgrp", "wrap"} = {}
  PROVE  NodeRight(j.u)
<1>1. j.u \in Terminals
  BY DEF Jobs
<1>2. node[j.u].zone_magic = magic["zone"] /\ node[j.u].ipgrp_magic = magic["ipgrp"]
  BY DEF Fresh, AfterZone
<1>3. behind \cap {"zone", "wrap"} = {} /\ behind \cap {"ipgrp", "wrap"} = {}
  OBVIOUS
<1> QED
  BY <1>1, <1>2, <1>3 DEF NodesInv, ZoneInv, GroupsInv, NodeRight

LEMMA PacketKept ==
  ASSUME NodesInv, NEW j \in Jobs, PacketInv(j), SameTables, NodesKept, RulesKept
  PROVE  PacketInv(j)'
<1>0. j.u \in Terminals
  BY DEF Jobs
<1>1. NotLate(j)'
  BY DEF PacketInv, NotLate, SameTables
<1>2. ZonePending(j)'
  BY DEF PacketInv, ZonePending, SameTables
<1>3. GroupsPending(j)'
  <2>1. nos_ipgrp_match(j.u)' = nos_ipgrp_match(j.u)
    BY MatchNext DEF SameTables
  <2>2. Storing("ipgrp")' <=> Storing("ipgrp")
    BY DEF SameTables, Devices
  <2> QED
    BY <2>1, <2>2 DEF PacketInv, GroupsPending, SameTables
<1>4. Fresh(j)'
  BY <1>0 DEF PacketInv, Fresh, SameTables, NodesKept
<1>5. SearchKept(j)'
  <2> SUFFICES ASSUME j.pc = "search", ~j.late, behind \cap {"zone", "ipgrp", "wrap"} = {}, ~Storing("auth")
               PROVE  Unspoilt(j.u)'
    <3>1. Storing("auth")' <=> Storing("auth")
      BY DEF SameTables, Devices
    <3>2. behind' = behind
      BY DEF SameTables
    <3> QED
      BY <3>1, <3>2 DEF SearchKept
  <2>1. Unspoilt(j.u)
    BY DEF PacketInv, SearchKept
  <2>2. NodeRight(j.u)
    BY FreshRight DEF PacketInv, AfterGroups
  <2>3. PICK s, t : s = term[j.u] /\ t = term'[j.u]
    OBVIOUS
  <2>4. t.rule_id = INVALID_AUTH_RULE_ID \/ Right(j.u, t)
    BY <1>0, <2>1, <2>2, <2>3, RightFields DEF RulesKept, SameRule, Unspoilt
  <2>5. Right(j.u, t) => Right(j.u, t)'
    BY RightNext DEF SameTables
  <2> QED
    BY <2>3, <2>4, <2>5 DEF Unspoilt
<1> QED
  BY <1>1, <1>2, <1>3, <1>4, <1>5 DEF PacketInv

LEMMA StoringSame ==
  ASSUME \A w \in Writers : writer'[w].pc = writer[w].pc /\ writer'[w].todo = writer[w].todo
  PROVE  \A dev : Storing(dev)' <=> Storing(dev)
BY DEF Storing, Line

LEMMA ForwardTables ==
  ASSUME TypeOK, NEW c \in Cpus, nos_pre_hook(c) \/ Forward(c)
  PROVE  SameTables
<1>1. \A w \in Writers : writer'[w].pc = writer[w].pc /\ writer'[w].todo = writer[w].todo
  BY ForwardSame, LeaveWriter DEF TypeOK
<1>2. UNCHANGED <<zones, ipgrps, auths, magic, behind>>
  BY ForwardSame
<1> QED
  BY <1>1, <1>2, StoringSame DEF SameTables

\* One packet goes on as x, or leaves.
LEMMA PacketsKept ==
  ASSUME JobOK, NodesInv, PacketsInv, SameTables, NodesKept, RulesKept, NEW c \in Cpus, NEW x \in {Idle} \cup Jobs,
         job' = [job EXCEPT ![c] = x], x # Idle => PacketInv(x)'
  PROVE  PacketsInv'
<1>1. ASSUME NEW d \in Cpus, d # c, job[d] # Idle PROVE PacketInv(job[d])'
  <2>1. job'[d] = job[d] /\ job[d] \in Jobs
    BY <1>1 DEF JobOK
  <2>2. PICK j \in Jobs : j = job[d]
    BY <2>1
  <2>3. PacketInv(j)
    BY <1>1, <2>2 DEF PacketsInv
  <2>4. PacketInv(j)'
    BY <2>3, PacketKept
  <2> QED
    BY <2>1, <2>2, <2>4
<1>2. job'[c] = x /\ \A d \in Cpus : d # c => job'[d] = job[d]
  BY DEF JobOK
<1>3. x # Idle => PacketInv(job[c])'
  BY <1>2
<1> QED
  BY <1>1, <1>2, <1>3 DEF PacketsInv

\* The rules are left alone, and no search ends.
LEMMA ClassifiedKept ==
  ASSUME Classified, SameTables, \A u \in Terminals : SameRule(u) /\ term'[u].rule_magic = term[u].rule_magic,
         \A u \in Terminals : Searching(u) => Searching(u)'
  PROVE  Classified'
<1> SUFFICES ASSUME behind' = {}, NEW u \in Terminals, term'[u].rule_magic = magic'.auth, ~Searching(u)'
             PROVE  Right(u, term[u])'
  BY DEF Classified
<1>1. Right(u, term[u])
  BY DEF Classified, SameTables
<1>2. PICK s, t : s = term[u] /\ t = term'[u]
  OBVIOUS
<1>3. Right(u, t)
  BY <1>1, <1>2, RightFields DEF SameRule
<1>4. Right(u, t)'
  BY <1>3, RightNext DEF SameTables
<1> QED
  BY <1>2, <1>4

ClassInv == StoringInv /\ PacketsInv /\ NodesInv /\ Classified

LEMMA StoringKept ==
  ASSUME StoringInv, SameTables
  PROVE  StoringInv'
BY DEF StoringInv, SameTables

\* Another packet searches on while c moves from a step that is no search.
LEMMA SearchesOn ==
  ASSUME JobOK, NEW c \in Cpus, NEW x, job' = [job EXCEPT ![c] = x], job[c].pc # "search", NEW u, Searching(u)
  PROVE  Searching(u)'
<1>1. PICK d \in Cpus : job[d].pc = "search" /\ job[d].u = u
  BY DEF Searching
<1>2. job'[d] = job[d]
  BY <1>1 DEF JobOK
<1> QED
  BY <1>1, <1>2 DEF Searching

\* A step of a packet that stores nothing, or the status of its terminal only.
LEMMA QuietKeeps ==
  ASSUME TypeOK, ClassInv, SameTables, UNCHANGED node, SameRules,
         NEW c \in Cpus, NEW x \in {Idle} \cup Jobs, job' = [job EXCEPT ![c] = x],
         job[c].pc # "search", x # Idle => PacketInv(x)'
  PROVE  ClassInv'
<1> USE DEF TypeOK, ClassInv
<1>1. NodesKept
  BY DEF NodesKept
<1>2. RulesKept
  BY DEF RulesKept, SameRule, SameRules
<1>3. PacketsInv'
  BY <1>1, <1>2, PacketsKept
<1>4. NodesInv'
  <2>1. ipgrps' = ipgrps /\ zones' = zones /\ magic' = magic /\ behind' = behind
    BY DEF SameTables
  <2>2. \A u \in Terminals : nos_ipgrp_match(u)' = nos_ipgrp_match(u)
    BY <2>1, MatchNext
  <2>3. MagicInv'
    BY <2>1 DEF NodesInv, MagicInv, SameRules
  <2>4. ZoneInv'
    BY <2>1 DEF NodesInv, ZoneInv
  <2>5. GroupsInv'
    BY <2>1, <2>2 DEF NodesInv, GroupsInv
  <2> QED
    BY <2>3, <2>4, <2>5 DEF NodesInv
<1>5. Classified'
  <2>1. \A u \in Terminals : SameRule(u) /\ term'[u].rule_magic = term[u].rule_magic
    BY DEF SameRules, SameRule
  <2> QED
    BY <2>1, SearchesOn, ClassifiedKept
<1> QED
  BY <1>3, <1>4, <1>5, StoringKept

\* The packet on c, before the step.
LEMMA PacketOf ==
  ASSUME JobOK, PacketsInv, NEW c \in Cpus, job[c].pc # "idle"
  PROVE  job[c] \in Jobs /\ PacketInv(job[c])
BY JobParts DEF PacketsInv

LEMMA UnchangedRules ==
  ASSUME TrafficOK, UNCHANGED term
  PROVE  SameRules
BY DEF TrafficOK, SameRules

LEMMA PreHookKeeps ==
  ASSUME TypeOK, ClassInv, NEW c \in Cpus, nos_pre_hook(c)
  PROVE  ClassInv'
<1>1. SameTables /\ UNCHANGED <<node, term>> /\ job[c].pc # "search"
  <2>1. SameTables
    BY ForwardTables
  <2>2. UNCHANGED <<node, term>> /\ job[c].pc # "search"
    BY DEF nos_pre_hook, traffic, Idle
  <2> QED
    BY <2>1, <2>2
<1>2. PICK x \in Jobs : x.pc = "fw" /\ ~x.late /\ job' = [job EXCEPT ![c] = x]
  BY PreHookJob DEF TypeOK
<1>3. PacketInv(x)'
  BY <1>2 DEF PacketInv, NotLate, ZonePending, GroupsPending, Fresh, SearchKept, AfterZone, AfterGroups
<1>4. x \in {Idle} \cup Jobs
  OBVIOUS
<1> QED
  BY <1>1, <1>2, <1>3, <1>4, QuietKeeps, UnchangedRules DEF TypeOK

\* A packet that leaves.
LEMMA LeaveKeeps ==
  ASSUME TypeOK, ClassInv, SameTables, UNCHANGED node, SameRules, NEW c \in Cpus, Leave(c), job[c].pc # "search"
  PROVE  ClassInv'
<1>1. job' = [job EXCEPT ![c] = Idle] /\ Idle \in {Idle} \cup Jobs
  BY LeaveJob DEF TypeOK
<1> QED
  BY <1>1, QuietKeeps

\* A packet that goes on as x and stores nothing.
LEMMA MoveKeeps ==
  ASSUME TypeOK, ClassInv, SameTables, UNCHANGED node, SameRules, NEW c \in Cpus, NEW x, Moves(c, x),
         job[c].pc # "search", x.pc \notin {"fw", "search"},
         ZonePending(x), GroupsPending(x), Fresh(x)
  PROVE  ClassInv'
<1> USE DEF TypeOK, ClassInv
<1>1. job[c] \in Jobs /\ PacketInv(job[c]) /\ x \in Jobs /\ job' = [job EXCEPT ![c] = x] /\ x.late = job[c].late
  <2>1. job[c] \in Jobs /\ job[c].pc # "idle" /\ x \in Jobs /\ job' = [job EXCEPT ![c] = x] /\ x.late = job[c].late
    BY DEF Moves, Jobs, Hooks
  <2> QED
    BY <2>1, PacketOf
<1>2. NotLate(x)
  BY <1>1 DEF NotLate, PacketInv
<1>3. PacketInv(x)
  BY <1>2 DEF PacketInv, SearchKept
<1>4. NodesKept /\ RulesKept
  BY DEF NodesKept, RulesKept, SameRule, SameRules
<1>5. PacketInv(x)'
  BY <1>1, <1>3, <1>4, PacketKept
<1>6. x \in {Idle} \cup Jobs
  BY <1>1
<1> QED
  BY <1>1, <1>5, <1>6, QuietKeeps

LEMMA FwHookKeeps ==
  ASSUME TypeOK, ClassInv, NEW c \in Cpus, nos_fw_hook(c)
  PROVE  ClassInv'
<1> USE DEF TypeOK
<1>1. SameTables
  BY ForwardTables DEF Forward
<1>2. SameRules /\ UNCHANGED node /\ job[c].pc = "fw"
  BY UnchangedRules DEF nos_fw_hook, traffic
<1>3. CASE Leave(c)
  BY <1>1, <1>2, <1>3, LeaveKeeps
<1>4. CASE ~Leave(c)
  <2>1. PICK x : Moves(c, x) /\ x.pc = "zone"
    BY <1>4, FwHookJob
  <2>2. ZonePending(x) /\ GroupsPending(x) /\ Fresh(x)
    BY <2>1 DEF ZonePending, GroupsPending, Fresh, AfterZone, AfterGroups
  <2> QED
    BY <1>1, <1>2, <2>1, <2>2, MoveKeeps
<1> QED
  BY <1>3, <1>4

LEMMA ZoneMatchKeeps ==
  ASSUME TypeOK, ClassInv, NEW c \in Cpus, ZoneMatch(c)
  PROVE  ClassInv'
<1> USE DEF TypeOK
<1>1. SameTables
  BY ForwardTables DEF Forward
<1>2. SameRules /\ UNCHANGED node /\ job[c].pc = "zone"
  BY UnchangedRules DEF ZoneMatch, traffic
<1>3. PICK x : /\ Moves(c, x)
               /\ \/ x.pc = "zoned" /\ x.zone = zones[InIf[x.u]]
                  \/ x.pc = "ipgrp" /\ node[x.u].zone_magic = magic["zone"]
  BY ZoneMatchMoves
<1>4. ZonePending(x) /\ GroupsPending(x) /\ Fresh(x)
  BY <1>3 DEF ZonePending, GroupsPending, Fresh, AfterZone, AfterGroups
<1> QED
  BY <1>1, <1>2, <1>3, <1>4, MoveKeeps

LEMMA IpgrpMatchKeeps ==
  ASSUME TypeOK, ClassInv, NEW c \in Cpus, IpgrpMatch(c)
  PROVE  ClassInv'
<1> USE DEF TypeOK, ClassInv
<1>1. SameTables
  BY ForwardTables DEF Forward
<1>2. SameRules /\ UNCHANGED node /\ job[c].pc = "ipgrp"
  BY UnchangedRules DEF IpgrpMatch, traffic
<1>3. PICK x : /\ Moves(c, x)
               /\ \/ x.pc = "grouped" /\ (Storing("ipgrp") \/ x.bits = nos_ipgrp_match(x.u))
                  \/ x.pc = "auth" /\ node[x.u].ipgrp_magic = magic["ipgrp"]
  BY IpgrpMatchMoves
<1>4. ~x.late => node[x.u].zone_magic = magic["zone"]
  <2>1. PacketInv(job[c])
    BY <1>2, PacketOf
  <2> QED
    BY <1>2, <1>3, <2>1 DEF PacketInv, Fresh, Moves, AfterZone
<1>5. Storing("ipgrp") => "ipgrp" \in behind
  BY DEF StoringInv, Devices
<1>6. ZonePending(x) /\ GroupsPending(x)
  BY <1>3, <1>5 DEF ZonePending, GroupsPending
<1>7. Fresh(x)
  BY <1>3, <1>4 DEF Fresh, AfterGroups
<1>8. x.pc \notin {"fw", "search"}
  BY <1>3
<1>9. job[c].pc # "search"
  BY <1>2
<1> HIDE DEF TypeOK, ClassInv
<1> QED
  BY <1>1, <1>2, <1>3, <1>6, <1>7, <1>8, <1>9, MoveKeeps

\* Past the look-ups.
LEMMA LateMoves ==
  ASSUME TypeOK, ClassInv, SameTables, UNCHANGED node, SameRules, NEW c \in Cpus, NEW x, Moves(c, x),
         job[c].pc \in AfterGroups \ {"search"}, x.pc \in AfterGroups \ {"search"}
  PROVE  ClassInv'
<1>1. job[c].pc # "idle" /\ job[c].pc # "search" /\ x.pc \notin {"fw", "search"}
  BY DEF AfterGroups
<1>2. Fresh(job[c])
  BY <1>1, PacketOf DEF PacketInv, TypeOK, ClassInv
<1>3. Fresh(x)
  BY <1>2 DEF Fresh, Moves, AfterZone
<1>4. ZonePending(x) /\ GroupsPending(x)
  BY DEF ZonePending, GroupsPending, AfterGroups
<1> QED
  BY <1>1, <1>3, <1>4, MoveKeeps

LEMMA AuthHookKeeps ==
  ASSUME TypeOK, ClassInv, NEW c \in Cpus, nos_auth_hook(c)
  PROVE  ClassInv'
<1>1. SameTables
  BY ForwardTables DEF Forward
<1>2. SameRules /\ UNCHANGED node /\ job[c].pc = "auth"
  BY UnchangedRules DEF nos_auth_hook, traffic, TypeOK
<1>3. PICK x : Moves(c, x) /\ x.pc \in {"reset", "judge"}
  BY AuthHookMoves DEF TypeOK
<1>4. job[c].pc \in AfterGroups \ {"search"} /\ x.pc \in AfterGroups \ {"search"}
  BY <1>2, <1>3 DEF AfterGroups
<1> QED
  BY <1>1, <1>2, <1>3, <1>4, LateMoves

LEMMA AuthWhiteKeeps ==
  ASSUME TypeOK, ClassInv, NEW c \in Cpus, AuthWhite(c)
  PROVE  ClassInv'
<1>1. SameTables
  BY ForwardTables DEF Forward
<1>2. SameRules /\ UNCHANGED node /\ job[c].pc = "white"
  BY AuthWhiteMoves DEF AuthWhite, TypeOK
<1>3. PICK x : Moves(c, x) /\ x.pc = "judge"
  BY AuthWhiteMoves DEF TypeOK
<1>4. job[c].pc \in AfterGroups \ {"search"} /\ x.pc \in AfterGroups \ {"search"}
  BY <1>2, <1>3 DEF AfterGroups
<1> QED
  BY <1>1, <1>2, <1>3, <1>4, LateMoves

LEMMA AuthJudgeKeeps ==
  ASSUME TypeOK, ClassInv, NEW c \in Cpus, AuthJudge(c)
  PROVE  ClassInv'
<1>1. SameTables
  BY ForwardTables DEF Forward
<1>2. SameRules /\ UNCHANGED node /\ job[c].pc = "judge" /\ Leave(c)
  BY AuthJudgeRules DEF AuthJudge, TypeOK
<1> QED
  BY <1>1, <1>2, LeaveKeeps

LEMMA ZoneStoreKeeps ==
  ASSUME TypeOK, ClassInv, NEW c \in Cpus, ZoneStore(c)
  PROVE  ClassInv'
<1> USE DEF TypeOK, ClassInv
<1>1. SameTables
  BY ForwardTables DEF Forward
<1>2. SameRules /\ job[c].pc = "zoned"
  BY UnchangedRules DEF ZoneStore
<1>3. PICK x, n : /\ Moves(c, x) /\ x.pc = "ipgrp"
                  /\ n \in Nodes /\ node' = [node EXCEPT ![x.u] = n]
                  /\ n.zone_id = job[c].zone /\ n.zone_magic = magic["zone"]
                  /\ n.ipgrp_bits = node[x.u].ipgrp_bits /\ n.ipgrp_magic = node[x.u].ipgrp_magic
  BY ZoneStoreMoves
<1>4. job[c] \in Jobs /\ PacketInv(job[c])
  BY <1>2, PacketOf
<1>5. x \in Jobs /\ x.u = job[c].u /\ x.late = job[c].late /\ job' = [job EXCEPT ![c] = x] /\ x.u \in Terminals
  BY <1>3 DEF Moves, Jobs
<1>6. /\ node'[x.u] = n
      /\ \A u \in Terminals : u # x.u => node'[u] = node[u]
  BY <1>3, <1>5 DEF TrafficOK
<1>7. NodesKept
  BY <1>3, <1>6 DEF NodesKept
<1>8. RulesKept
  BY <1>2 DEF RulesKept, SameRule, SameRules
<1>9. "zone" \notin behind => n.zone_id = zones[InIf[x.u]]
  BY <1>2, <1>3, <1>4, <1>5 DEF PacketInv, ZonePending
<1>10. UNCHANGED <<zones, ipgrps, magic, behind>>
  BY <1>1 DEF SameTables
<1>11. NodesInv'
  <2>1. MagicInv'
    <3>1. "wrap" \notin behind => \A u \in Terminals : /\ node'[u].zone_magic <= magic["zone"]
                                                      /\ node'[u].ipgrp_magic <= magic["ipgrp"]
                                                      /\ term'[u].rule_magic <= magic["auth"]
      <4>1. magic["zone"] \in Nat
        BY DEF TablesOK, Devices
      <4> QED
        BY <1>2, <1>3, <1>5, <1>6, <4>1 DEF NodesInv, MagicInv, SameRules
    <3> QED
      BY <1>10, <3>1 DEF MagicInv
  <2>2. ZoneInv'
    BY <1>6, <1>9, <1>10 DEF NodesInv, ZoneInv
  <2>3. GroupsInv'
    <3>1. \A u \in Terminals : nos_ipgrp_match(u)' = nos_ipgrp_match(u)
      BY <1>10, MatchNext
    <3>2. \A u \in Terminals : node'[u].ipgrp_magic = node[u].ipgrp_magic /\ node'[u].ipgrp_bits = node[u].ipgrp_bits
      BY <1>3, <1>6
    <3> QED
      BY <1>10, <3>1, <3>2 DEF NodesInv, GroupsInv
  <2> QED
    BY <2>1, <2>2, <2>3 DEF NodesInv
<1>12. PacketInv(x)'
  <2>1. NotLate(x)'
    BY <1>2, <1>3, <1>4, <1>5, <1>10 DEF PacketInv, NotLate
  <2>2. ZonePending(x)' /\ GroupsPending(x)' /\ SearchKept(x)'
    BY <1>3 DEF ZonePending, GroupsPending, SearchKept
  <2>3. Fresh(x)'
    BY <1>3, <1>6, <1>10 DEF Fresh, AfterGroups
  <2> QED
    BY <2>1, <2>2, <2>3 DEF PacketInv
<1>13. PacketsInv'
  <2>1. x \in {Idle} \cup Jobs
    BY <1>5
  <2> QED
    BY <1>1, <1>5, <1>7, <1>8, <1>12, <2>1, PacketsKept
<1>14. Classified'
  <2>1. \A u \in Terminals : SameRule(u) /\ term'[u].rule_magic = term[u].rule_magic
    BY <1>2 DEF SameRules, SameRule
  <2>2. job[c].pc # "search"
    BY <1>2
  <2>3. \A u \in Terminals : Searching(u) => Searching(u)'
    BY <1>5, <2>2, SearchesOn
  <2> QED
    BY <1>1, <2>1, <2>3, ClassifiedKept
<1> QED
  BY <1>1, <1>11, <1>13, <1>14, StoringKept

LEMMA IpgrpStoreKeeps ==
  ASSUME TypeOK, ClassInv, NEW c \in Cpus, IpgrpStore(c)
  PROVE  ClassInv'
<1> USE DEF TypeOK, ClassInv
<1>1. SameTables
  BY ForwardTables DEF Forward
<1>2. SameRules /\ job[c].pc = "grouped"
  BY UnchangedRules DEF IpgrpStore
<1>3. PICK x, n : /\ Moves(c, x) /\ x.pc = "auth"
                  /\ n \in Nodes /\ node' = [node EXCEPT ![x.u] = n]
                  /\ n.ipgrp_bits = job[c].bits /\ n.ipgrp_magic = magic["ipgrp"]
                  /\ n.zone_id = node[x.u].zone_id /\ n.zone_magic = node[x.u].zone_magic
  BY IpgrpStoreMoves
<1>4. job[c] \in Jobs /\ PacketInv(job[c])
  BY <1>2, PacketOf
<1>5. x \in Jobs /\ x.u = job[c].u /\ x.late = job[c].late /\ job' = [job EXCEPT ![c] = x] /\ x.u \in Terminals
  BY <1>3 DEF Moves, Jobs
<1>6. /\ node'[x.u] = n
      /\ \A u \in Terminals : u # x.u => node'[u] = node[u]
  BY <1>3, <1>5 DEF TrafficOK
<1>7. NodesKept
  BY <1>3, <1>6 DEF NodesKept
<1>8. RulesKept
  BY <1>2 DEF RulesKept, SameRule, SameRules
<1>9. "ipgrp" \notin behind => n.ipgrp_bits = nos_ipgrp_match(x.u)
  BY <1>2, <1>3, <1>4, <1>5 DEF PacketInv, GroupsPending
<1>10. UNCHANGED <<zones, ipgrps, magic, behind>>
  BY <1>1 DEF SameTables
<1>11. NodesInv'
  <2>1. MagicInv'
    <3>1. "wrap" \notin behind => \A u \in Terminals : /\ node'[u].zone_magic <= magic["zone"]
                                                      /\ node'[u].ipgrp_magic <= magic["ipgrp"]
                                                      /\ term'[u].rule_magic <= magic["auth"]
      <4>1. magic["ipgrp"] \in Nat
        BY DEF TablesOK, Devices
      <4> QED
        BY <1>2, <1>3, <1>5, <1>6, <4>1 DEF NodesInv, MagicInv, SameRules
    <3> QED
      BY <1>10, <3>1 DEF MagicInv
  <2>2. ZoneInv'
    <3>1. \A u \in Terminals : node'[u].zone_magic = node[u].zone_magic /\ node'[u].zone_id = node[u].zone_id
      BY <1>3, <1>6
    <3> QED
      BY <1>10, <3>1 DEF NodesInv, ZoneInv
  <2>3. GroupsInv'
    <3>1. \A u \in Terminals : nos_ipgrp_match(u)' = nos_ipgrp_match(u)
      BY <1>10, MatchNext
    <3> QED
      BY <1>6, <1>9, <1>10, <3>1 DEF NodesInv, GroupsInv
  <2> QED
    BY <2>1, <2>2, <2>3 DEF NodesInv
<1>12. PacketInv(x)'
  <2>1. NotLate(x)'
    BY <1>2, <1>3, <1>4, <1>5, <1>10 DEF PacketInv, NotLate
  <2>2. ZonePending(x)' /\ GroupsPending(x)' /\ SearchKept(x)'
    BY <1>3 DEF ZonePending, GroupsPending, SearchKept
  <2>3. ~job[c].late => node[job[c].u].zone_magic = magic["zone"]
    BY <1>2, <1>4 DEF PacketInv, Fresh, AfterZone
  <2>4. Fresh(x)'
    BY <1>3, <1>5, <1>6, <1>10, <2>3 DEF Fresh
  <2> QED
    BY <2>1, <2>2, <2>4 DEF PacketInv
<1>13. PacketsInv'
  <2>1. x \in {Idle} \cup Jobs
    BY <1>5
  <2> QED
    BY <1>1, <1>5, <1>7, <1>8, <1>12, <2>1, PacketsKept
<1>14. Classified'
  <2>1. \A u \in Terminals : SameRule(u) /\ term'[u].rule_magic = term[u].rule_magic
    BY <1>2 DEF SameRules, SameRule
  <2>2. job[c].pc # "search"
    BY <1>2
  <2>3. \A u \in Terminals : Searching(u) => Searching(u)'
    BY <1>5, <2>2, SearchesOn
  <2> QED
    BY <1>1, <2>1, <2>3, ClassifiedKept
<1> QED
  BY <1>1, <1>11, <1>13, <1>14, StoringKept

\* A step that stores the rule of x.u only.
LEMMA RuleNodes ==
  ASSUME TypeOK, NodesInv, SameTables, UNCHANGED node, \A u \in Terminals : term'[u].rule_magic \in {term[u].rule_magic, magic["auth"]}
  PROVE  NodesInv' /\ NodesKept
<1>1. UNCHANGED <<zones, ipgrps, magic, behind>>
  BY DEF SameTables
<1>2. \A u \in Terminals : nos_ipgrp_match(u)' = nos_ipgrp_match(u)
  BY <1>1, MatchNext
<1>3. MagicInv'
  <2>1. magic["auth"] \in Nat
    BY DEF TypeOK, TablesOK, Devices
  <2> QED
    BY <1>1, <2>1 DEF NodesInv, MagicInv
<1>4. ZoneInv'
  BY <1>1 DEF NodesInv, ZoneInv
<1>5. GroupsInv'
  BY <1>1, <1>2 DEF NodesInv, GroupsInv
<1>6. NodesKept
  BY DEF NodesKept
<1> QED
  BY <1>3, <1>4, <1>5, <1>6 DEF NodesInv

LEMMA AuthResetKeeps ==
  ASSUME TypeOK, ClassInv, NEW c \in Cpus, AuthReset(c)
  PROVE  ClassInv'
<1>1. SameTables
  BY ForwardTables DEF Forward
<1>2. UNCHANGED node /\ job[c].pc = "reset"
  BY DEF AuthReset
<1>3. PICK x, t : /\ Moves(c, x) /\ x.pc = "search"
                  /\ t \in Terms /\ term' = [term EXCEPT ![x.u] = t]
                  /\ t.rule_id = INVALID_AUTH_RULE_ID /\ t.rule_magic = magic["auth"]
  BY AuthResetMoves DEF TypeOK
<1>4. job[c] \in Jobs /\ PacketInv(job[c])
  BY <1>2, PacketOf DEF TypeOK, ClassInv
<1>5. x \in Jobs /\ x.u = job[c].u /\ x.late = job[c].late /\ job' = [job EXCEPT ![c] = x] /\ x.u \in Terminals
  BY <1>3 DEF Moves, Jobs
<1>6. term'[x.u] = t /\ \A u \in Terminals : u # x.u => term'[u] = term[u]
  BY <1>3, <1>5 DEF TypeOK, TrafficOK
<1>7. NodesInv' /\ NodesKept
  BY <1>1, <1>2, <1>3, <1>6, RuleNodes DEF ClassInv
<1>8. RulesKept
  BY <1>3, <1>6 DEF RulesKept, SameRule
<1>9. UNCHANGED <<zones, ipgrps, auths, magic, behind>>
  BY <1>1 DEF SameTables
<1>10. PacketInv(x)'
  <2>1. NotLate(x)'
    BY <1>2, <1>3, <1>4, <1>5, <1>9 DEF PacketInv, NotLate
  <2>2. ZonePending(x)' /\ GroupsPending(x)'
    BY <1>3 DEF ZonePending, GroupsPending
  <2>3. Fresh(x)'
    <3>1. Fresh(job[c])
      BY <1>4 DEF PacketInv
    <3> QED
      BY <1>2, <1>5, <1>9, <3>1 DEF Fresh, AfterZone, AfterGroups
  <2>4. SearchKept(x)'
    BY <1>3, <1>6 DEF SearchKept, Unspoilt
  <2> QED
    BY <2>1, <2>2, <2>3, <2>4 DEF PacketInv
<1>11. PacketsInv'
  <2>1. x \in {Idle} \cup Jobs
    BY <1>5
  <2> QED
    BY <1>1, <1>5, <1>7, <1>8, <1>10, <2>1, PacketsKept DEF TypeOK, ClassInv
<1>12. Searching(x.u)'
  BY <1>3, <1>5 DEF Searching, TypeOK, JobOK
<1>13. Classified'
  <2> SUFFICES ASSUME behind' = {}, NEW u \in Terminals, term'[u].rule_magic = magic'.auth, ~Searching(u)'
               PROVE  Right(u, term[u])'
    BY DEF Classified
  <2>1. u # x.u /\ term'[u] = term[u]
    BY <1>6, <1>12
  <2>2. ~Searching(u)
    BY <1>2, <1>5, SearchesOn DEF TypeOK
  <2>3. Right(u, term[u])
    BY <1>9, <2>1, <2>2 DEF Classified, ClassInv
  <2>4. PICK s : s = term[u]
    OBVIOUS
  <2>5. Right(u, s)'
    BY <1>9, <2>3, <2>4, RightNext
  <2> QED
    BY <2>1, <2>4, <2>5
<1> QED
  BY <1>1, <1>7, <1>11, <1>13, StoringKept DEF ClassInv

LEMMA AuthSearchKeeps ==
  ASSUME GroupsFit, TypeOK, ClassInv, NEW c \in Cpus, AuthSearch(c)
  PROVE  ClassInv'
<1>1. SameTables
  BY ForwardTables DEF Forward
<1>2. UNCHANGED node /\ job[c].pc = "search"
  BY DEF AuthSearch
<1>3. PICK x, t, e : /\ Moves(c, x) /\ x.pc \in {"white", "judge"}
                     /\ t \in Terms /\ term' = [term EXCEPT ![x.u] = t]
                     /\ e \in RuleFound(x.u)
                     /\ t.rule_magic = term[x.u].rule_magic
                     /\ e.at = 0 => t = term[x.u]
                     /\ e.at # 0 => t.rule_id = e.id /\ t.type = e.type
  BY AuthSearchMoves DEF TypeOK
<1>4. job[c] \in Jobs /\ PacketInv(job[c])
  BY <1>2, PacketOf DEF TypeOK, ClassInv
<1>5. x \in Jobs /\ x.u = job[c].u /\ x.late = job[c].late /\ job' = [job EXCEPT ![c] = x] /\ x.u \in Terminals
  BY <1>3 DEF Moves, Jobs
<1>6. term'[x.u] = t /\ \A u \in Terminals : u # x.u => term'[u] = term[u]
  BY <1>3, <1>5 DEF TypeOK, TrafficOK
<1>7. NodesInv' /\ NodesKept
  <2>1. \A u \in Terminals : term'[u].rule_magic \in {term[u].rule_magic, magic["auth"]}
    BY <1>3, <1>6
  <2> QED
    BY <1>1, <1>2, <2>1, RuleNodes DEF ClassInv
<1>8. RulesKept
  <2>1. CASE e.at = 0
    BY <1>3, <1>6, <2>1 DEF RulesKept, SameRule
  <2>2. CASE e.at # 0
    <3>1. NodeRight(x.u) /\ ~Storing("auth") => Right(x.u, t)
      BY <1>3, <2>2, SearchRight DEF TypeOK
    <3>2. NodeRight(x.u) /\ ~Storing("auth") => Right(x.u, term'[x.u])
      BY <1>6, <3>1
    <3> QED
      BY <1>6, <3>2 DEF RulesKept, SameRule
  <2> QED
    BY <2>1, <2>2
<1>9. UNCHANGED <<zones, ipgrps, auths, magic, behind>>
  BY <1>1 DEF SameTables
<1>10. PacketInv(x)'
  <2>1. NotLate(x)'
    BY <1>2, <1>3, <1>4, <1>5, <1>9 DEF PacketInv, NotLate
  <2>2. ZonePending(x)' /\ GroupsPending(x)' /\ SearchKept(x)'
    BY <1>3 DEF ZonePending, GroupsPending, SearchKept
  <2>3. Fresh(x)'
    <3>1. Fresh(job[c])
      BY <1>4 DEF PacketInv
    <3> QED
      BY <1>2, <1>5, <1>9, <3>1 DEF Fresh, AfterZone, AfterGroups
  <2> QED
    BY <2>1, <2>2, <2>3 DEF PacketInv
<1>11. PacketsInv'
  <2>1. x \in {Idle} \cup Jobs
    BY <1>5
  <2> QED
    BY <1>1, <1>5, <1>7, <1>8, <1>10, <2>1, PacketsKept DEF TypeOK, ClassInv
<1>12. behind = {} => Right(x.u, t)
  <2> SUFFICES ASSUME behind = {} PROVE Right(x.u, t)
    OBVIOUS
  <2>1. ~job[c].late
    BY <1>2, <1>4 DEF PacketInv, NotLate
  <2>2. NodeRight(x.u)
    BY <1>2, <1>4, <1>5, <2>1, FreshRight DEF PacketInv, AfterGroups, ClassInv
  <2>3. ~Storing("auth")
    BY DEF ClassInv, StoringInv, Devices
  <2>4. Unspoilt(x.u)
    BY <1>2, <1>4, <1>5, <2>1, <2>3 DEF PacketInv, SearchKept
  <2>5. e.at = 0 => t.rule_id = INVALID_AUTH_RULE_ID \/ Right(x.u, t)
    BY <1>3, <2>4 DEF Unspoilt
  <2> QED
    BY <1>3, <2>2, <2>3, <2>5, SearchRight DEF TypeOK
<1>13. Classified'
  <2> SUFFICES ASSUME behind' = {}, NEW u \in Terminals, term'[u].rule_magic = magic'.auth, ~Searching(u)'
               PROVE  Right(u, term[u])'
    BY DEF Classified
  <2>1. CASE u = x.u
    <3>1. Right(u, t)'
      BY <1>9, <1>12, <2>1, RightNext
    <3> QED
      BY <1>6, <2>1, <3>1
  <2>2. CASE u # x.u
    <3>1. term'[u] = term[u]
      BY <1>6, <2>2
    <3>2. ~Searching(u)
      <4> SUFFICES ASSUME NEW d \in Cpus, job[d].pc = "search", job[d].u = u PROVE FALSE
        BY DEF Searching
      <4>1. d # c
        BY <1>5, <2>2
      <4>2. job'[d] = job[d]
        BY <1>5, <4>1 DEF TypeOK, JobOK
      <4> QED
        BY <4>2 DEF Searching
    <3>3. Right(u, term[u])
      BY <1>9, <3>1, <3>2 DEF Classified, ClassInv
    <3>4. PICK s : s = term[u]
      OBVIOUS
    <3>5. Right(u, s)'
      BY <1>9, <3>3, <3>4, RightNext
    <3> QED
      BY <3>1, <3>4, <3>5
  <2> QED
    BY <2>1, <2>2
<1> QED
  BY <1>1, <1>7, <1>11, <1>13, StoringKept DEF ClassInv

\* Nothing moves but the status of a terminal.
LEMMA StillKeeps ==
  ASSUME TypeOK, ClassInv, SameTables, UNCHANGED <<job, node>>, SameRules
  PROVE  ClassInv'
<1>1. NodesKept /\ RulesKept
  BY DEF NodesKept, RulesKept, SameRule, SameRules
<1>2. PacketsInv'
  <2> SUFFICES ASSUME NEW c \in Cpus, job[c] # Idle PROVE PacketInv(job[c])'
    BY DEF PacketsInv
  <2>1. PICK j \in Jobs : j = job[c] /\ PacketInv(j)
    BY DEF PacketsInv, TypeOK, JobOK, ClassInv
  <2>2. PacketInv(j)'
    BY <1>1, <2>1, PacketKept DEF ClassInv
  <2> QED
    BY <2>1, <2>2
<1>3. NodesInv'
  <2>1. \A u \in Terminals : term'[u].rule_magic \in {term[u].rule_magic, magic["auth"]}
    BY DEF SameRules
  <2> QED
    BY <2>1, RuleNodes DEF ClassInv
<1>4. Classified'
  <2>1. \A u \in Terminals : SameRule(u) /\ term'[u].rule_magic = term[u].rule_magic
    BY DEF SameRules, SameRule
  <2>2. \A u \in Terminals : Searching(u) => Searching(u)'
    BY DEF Searching
  <2> QED
    BY <2>1, <2>2, ClassifiedKept DEF ClassInv
<1> QED
  BY <1>2, <1>3, <1>4, StoringKept DEF ClassInv

\* A line that neither begins nor ends its stores.
LEMMA WritesStoring ==
  ASSUME WriterOK, NEW w \in Writers, NEW x, Writes(w, x), writer[w].pc # "store", x.pc # "store"
  PROVE  \A dev : Storing(dev)' <=> Storing(dev)
<1>1. writer'[w] = x /\ \A v \in Writers : v # w => writer'[v] = writer[v]
  BY DEF Writes, WriterOK
<1>2. ASSUME NEW v \in Writers PROVE /\ writer'[v].pc = "store" <=> writer[v].pc = "store"
                                     /\ writer'[v].pc = "store" => writer'[v].todo = writer[v].todo
  BY <1>1
<1> QED
  BY <1>2 DEF Storing, Line

LEMMA ScriptKeeps ==
  ASSUME TypeOK, ClassInv, NEW w \in Writers,
         StartScript(w) \/ ip_set_get_byname(w) \/ Refused(w) \/ DisableHooks(w) \/ GracePeriod(w) \/ EnableHooks(w)
  PROVE  ClassInv'
<1> USE DEF TypeOK
<1>1. UNCHANGED <<zones, ipgrps, auths, magic, behind, job, node, term>>
  BY DEF StartScript, ip_set_get_byname, Refused, DisableHooks, GracePeriod, EnableHooks, config, traffic
<1>2. \A dev : Storing(dev)' <=> Storing(dev)
  <2>1. CASE StartScript(w)
    BY <2>1, StartWrites, WritesStoring DEF StartScript
  <2>2. CASE ip_set_get_byname(w)
    BY <2>2, GetWrites, WritesStoring DEF ip_set_get_byname
  <2>3. CASE Refused(w)
    <3>1. Writes(w, Next1(w)) /\ Next1(w).pc # "store" /\ writer[w].pc # "store"
      BY <2>3, NextWrites, NextLine DEF Refused
    <3> QED
      BY <3>1, WritesStoring
  <2>4. CASE DisableHooks(w)
    BY <2>4, DisableWrites, WritesStoring DEF DisableHooks
  <2>5. CASE GracePeriod(w)
    BY <2>5, GraceWrites, WritesStoring DEF GracePeriod
  <2>6. CASE EnableHooks(w)
    <3>1. /\ writer[w].pc = "enable" /\ writer'[w].pc # "store"
          /\ \A v \in Writers \ {w} : writer'[v].pc = writer[v].pc /\ writer'[v].todo = writer[v].todo
      BY <2>6, EnableWriter, NextLine DEF EnableHooks
    <3>2. ASSUME NEW v \in Writers PROVE /\ writer'[v].pc = "store" <=> writer[v].pc = "store"
                                         /\ writer'[v].pc = "store" => writer'[v].todo = writer[v].todo
      BY <3>1
    <3> QED
      BY <3>2 DEF Storing, Line
  <2> QED
    BY <2>1, <2>2, <2>3, <2>4, <2>5, <2>6
<1>3. SameTables
  BY <1>1, <1>2 DEF SameTables
<1> QED
  BY <1>1, <1>3, StillKeeps, UnchangedRules

\* A line begins its stores.
LEMMA ChangeKeeps ==
  ASSUME TypeOK, ClassInv, NEW w \in Writers, Change(w)
  PROVE  ClassInv'
<1> DEFINE dev == Line(w).dev
<1>1. /\ UNCHANGED <<zones, ipgrps, auths, magic, job, node, term>>
      /\ behind' = behind \cup {dev}
      /\ writer[w].pc = "change"
  BY DEF Change, traffic
<1>2. PICK x : Writes(w, x) /\ x.pc = "store" /\ x.todo = writer[w].todo
  BY ChangeWrites DEF TypeOK
<1>3. writer'[w] = x /\ \A v \in Writers : v # w => writer'[v] = writer[v]
  BY <1>2 DEF Writes, TypeOK, WriterOK
<1>4. Storing(dev)' /\ \A d : Storing(d)' <=> Storing(d) \/ d = dev
  BY <1>1, <1>2, <1>3 DEF Storing, Line
<1> HIDE DEF dev
<1>5. StoringInv'
  BY <1>1, <1>4 DEF ClassInv, StoringInv
<1>6. PacketsInv'
  <2> SUFFICES ASSUME NEW c \in Cpus, job[c] # Idle PROVE PacketInv(job[c])'
    BY <1>1 DEF PacketsInv
  <2>1. PICK j \in Jobs : j = job[c] /\ PacketInv(j)
    BY DEF PacketsInv, TypeOK, JobOK, ClassInv
  <2>2. NotLate(j)'
    BY <1>1, <2>1 DEF PacketInv, NotLate
  <2>3. ZonePending(j)'
    BY <1>1, <2>1 DEF PacketInv, ZonePending
  <2>4. GroupsPending(j)'
    <3>1. nos_ipgrp_match(j.u)' = nos_ipgrp_match(j.u)
      BY <1>1, MatchNext
    <3> QED
      BY <1>1, <1>4, <2>1, <3>1 DEF PacketInv, GroupsPending
  <2>5. Fresh(j)'
    BY <1>1, <2>1 DEF PacketInv, Fresh
  <2>6. SearchKept(j)'
    <3>1. Unspoilt(j.u) => Unspoilt(j.u)'
      <4>1. PICK s : s = term[j.u]
        OBVIOUS
      <4>2. Right(j.u, s) => Right(j.u, s)'
        BY <1>1, RightNext
      <4> QED
        BY <1>1, <4>1, <4>2 DEF Unspoilt
    <3>2. behind' \cap {"zone", "ipgrp", "wrap"} = {} => behind \cap {"zone", "ipgrp", "wrap"} = {}
      BY <1>1
    <3> QED
      BY <1>4, <2>1, <3>1, <3>2 DEF PacketInv, SearchKept
  <2> QED
    BY <1>1, <2>1, <2>2, <2>3, <2>4, <2>5, <2>6 DEF PacketInv
<1>7. NodesInv'
  <2>1. \A u \in Terminals : nos_ipgrp_match(u)' = nos_ipgrp_match(u)
    BY <1>1, MatchNext
  <2>2. MagicInv'
    BY <1>1 DEF ClassInv, NodesInv, MagicInv
  <2>3. ZoneInv'
    BY <1>1 DEF ClassInv, NodesInv, ZoneInv
  <2>4. GroupsInv'
    BY <1>1, <2>1 DEF ClassInv, NodesInv, GroupsInv
  <2> QED
    BY <2>2, <2>3, <2>4 DEF NodesInv
<1>8. Classified'
  BY <1>1 DEF Classified
<1> QED
  BY <1>5, <1>6, <1>7, <1>8 DEF ClassInv

\* The packets under way are late: what they are about to store is still that of
\* every table that is not behind.
LEMMA LateKeeps ==
  ASSUME TypeOK, PacketsInv, MarkLate, behind' # {},
         \A c \in Cpus : Inside(c) /\ job[c].pc = "zoned" /\ "zone" \notin behind'
                           => job[c].zone = zones'[InIf[job[c].u]],
         \A c \in Cpus, u \in Terminals :
           Inside(c) /\ job[c].pc = "grouped" /\ job[c].u = u /\ "ipgrp" \notin behind'
             => job[c].bits = nos_ipgrp_match(u)'
  PROVE  PacketsInv'
<1> SUFFICES ASSUME NEW c \in Cpus, job'[c] # Idle PROVE PacketInv(job[c])'
  BY DEF PacketsInv
<1>1. CASE Inside(c)
  <2>1. PICK i \in Jobs, j \in Jobs : i = job[c] /\ j = job'[c] /\ j = Outdated(i)
    BY <1>1, LateJobs, OutdatedParts DEF TypeOK
  <2>2. j.pc = i.pc /\ j.u = i.u /\ j.zone = i.zone /\ j.bits = i.bits /\ j.late /\ i.pc # "fw"
    BY <1>1, <2>1, OutdatedParts DEF Inside
  <2>3. NotLate(j)' /\ Fresh(j)' /\ SearchKept(j)'
    BY <2>2 DEF NotLate, Fresh, SearchKept
  <2>4. ZonePending(j)'
    BY <1>1, <2>1, <2>2 DEF ZonePending
  <2>5. GroupsPending(j)'
    <3>1. i.u \in Terminals
      BY DEF Jobs
    <3> QED
      BY <1>1, <2>1, <2>2, <3>1 DEF GroupsPending
  <2> QED
    BY <2>1, <2>3, <2>4, <2>5 DEF PacketInv
<1>2. CASE ~Inside(c)
  <2>1. job'[c] = job[c]
    BY <1>2, LateJobs DEF TypeOK
  <2>2. PICK j \in Jobs : j = job[c] /\ j = job'[c] /\ PacketInv(j)
    BY <2>1 DEF TypeOK, JobOK, PacketsInv
  <2>3. j.pc = "fw" /\ ~j.late
    BY <1>2, <2>1, <2>2, JobParts DEF TypeOK, PacketInv, NotLate
  <2>4. PacketInv(j)'
    BY <2>3 DEF PacketInv, NotLate, ZonePending, GroupsPending, Fresh, SearchKept, AfterZone, AfterGroups
  <2> QED
    BY <2>2, <2>4
<1> QED
  BY <1>1, <1>2

\* The packets before the step.
LEMMA InsideOf ==
  ASSUME TypeOK, PacketsInv, NEW c \in Cpus, Inside(c)
  PROVE  job[c] \in Jobs /\ PacketInv(job[c])
BY JobParts DEF TypeOK, PacketsInv

LEMMA ApplyKeeps ==
  ASSUME TypeOK, ClassInv, NEW w \in Writers, Apply(w)
  PROVE  ClassInv'
<1>1. PICK dev, op : /\ Store(w, dev, op)
                     /\ dev # "zone" => UNCHANGED zones
                     /\ dev # "ipgrp" => UNCHANGED ipgrps
  BY ApplyStores
<1>2. UNCHANGED <<magic, node, term>> /\ behind' = behind \cup {dev} /\ MarkLate
  BY <1>1 DEF Store, traffic
<1>3. \A d : Storing(d)' => Storing(d)
  <2>1. PICK x : Writes(w, x) /\ x.pc = "enable"
    BY <1>1, StoreWrites DEF TypeOK
  <2>2. writer'[w] = x /\ \A v \in Writers : v # w => writer'[v] = writer[v]
    BY <2>1 DEF Writes, TypeOK, WriterOK
  <2>3. ASSUME NEW v \in Writers, writer'[v].pc = "store" PROVE writer'[v] = writer[v]
    BY <2>1, <2>2, <2>3
  <2> QED
    BY <2>3 DEF Storing, Line
<1>4. StoringInv'
  BY <1>2, <1>3 DEF ClassInv, StoringInv
<1>5. \A u : "ipgrp" \notin behind' => nos_ipgrp_match(u)' = nos_ipgrp_match(u)
  BY <1>1, <1>2, MatchNext
<1>6. PacketsInv'
  <2>1. ASSUME NEW c \in Cpus, Inside(c), job[c].pc = "zoned", "zone" \notin behind'
        PROVE  job[c].zone = zones'[InIf[job[c].u]]
    <3>1. ZonePending(job[c])
      BY <2>1, InsideOf DEF PacketInv, ClassInv
    <3> QED
      BY <1>1, <1>2, <2>1, <3>1 DEF ZonePending
  <2>2. ASSUME NEW c \in Cpus, NEW u \in Terminals, Inside(c), job[c].pc = "grouped", job[c].u = u,
               "ipgrp" \notin behind'
        PROVE  job[c].bits = nos_ipgrp_match(u)'
    <3>1. PICK j \in Jobs : j = job[c] /\ GroupsPending(j)
      BY <2>2, InsideOf DEF PacketInv, ClassInv
    <3>2. j.bits = nos_ipgrp_match(j.u)
      BY <1>2, <2>2, <3>1 DEF GroupsPending
    <3>3. nos_ipgrp_match(u)' = nos_ipgrp_match(u)
      BY <1>5, <2>2
    <3> QED
      BY <2>2, <3>1, <3>2, <3>3
  <2> QED
    BY <1>2, <2>1, <2>2, LateKeeps DEF ClassInv
<1>7. NodesInv'
  <2>1. MagicInv'
    BY <1>2 DEF ClassInv, NodesInv, MagicInv
  <2>2. ZoneInv'
    BY <1>1, <1>2 DEF ClassInv, NodesInv, ZoneInv
  <2>3. GroupsInv'
    BY <1>1, <1>2, <1>5 DEF ClassInv, NodesInv, GroupsInv
  <2> QED
    BY <2>1, <2>2, <2>3 DEF NodesInv
<1>8. Classified'
  BY <1>2 DEF Classified
<1> QED
  BY <1>4, <1>6, <1>7, <1>8 DEF ClassInv

LEMMA ExitKeeps ==
  ASSUME TypeOK, ClassInv, nos_exit
  PROVE  ClassInv'
<1>1. /\ \A c \in Cpus : job[c] = Idle
      /\ UNCHANGED <<job, magic, node, term>>
      /\ behind' = behind \cup Devices
  BY DEF nos_exit, traffic
<1>2. StoringInv' /\ PacketsInv'
  BY <1>1 DEF StoringInv, PacketsInv
<1>3. MagicInv'
  BY <1>1 DEF ClassInv, NodesInv, MagicInv
<1>4. ZoneInv' /\ GroupsInv' /\ Classified'
  BY <1>1 DEF ZoneInv, GroupsInv, Classified, Devices
<1> QED
  BY <1>2, <1>3, <1>4 DEF ClassInv, NodesInv

\* What an announcement does to the magics and to what is behind.
LEMMA MagicStep ==
  ASSUME TypeOK, NEW w \in Writers, UpdateMagic(w)
  PROVE  LET dev == Line(w).dev
         IN  /\ dev \in Devices
             /\ \A d \in Devices : d # dev => magic'[d] = magic[d]
             /\ "wrap" \notin behind' => "wrap" \notin behind /\ magic'[dev] = magic[dev] + 1
             /\ behind' = (behind \ Settled(dev)) \cup Unsettled(dev)
             /\ UNCHANGED <<zones, ipgrps, auths, node, term>>
             /\ \A d : Storing(d)' <=> Storing(d)
<1> DEFINE dev == Line(w).dev
<1>1. writer[w].pc = "call"
  BY DEF UpdateMagic
<1>2. Line(w) \in Lines
  BY <1>1, WriterParts DEF TypeOK
<1>3. dev \in Devices
  BY <1>2, LineKnown
<1>4. /\ magic' = [magic EXCEPT ![dev] = NextMagic(@)]
      /\ behind' = (behind \ Settled(dev)) \cup Unsettled(dev)
      /\ UNCHANGED <<zones, ipgrps, auths, node, term>>
      /\ writer' = [writer EXCEPT ![w] = Next1(w)]
  BY DEF UpdateMagic, traffic
<1>5. magic \in [Devices -> Nat] /\ magic[dev] \in Nat /\ magic[dev] < 65536
  BY <1>3 DEF TypeOK, TablesOK
<1> HIDE DEF dev
<1>6. magic'[dev] = NextMagic(magic[dev]) /\ \A d \in Devices : d # dev => magic'[d] = magic[d]
  BY <1>3, <1>4, <1>5
<1>7. NextMagic(magic[dev]) = 0 \/ NextMagic(magic[dev]) = magic[dev] + 1
  BY <1>5, MagicParts
<1>8. "wrap" \notin Settled(dev) /\ (NextMagic(magic[dev]) = 0 => "wrap" \in Unsettled(dev))
  BY <1>3 DEF Settled, Unsettled, Devices
<1>9. \A d : Storing(d)' <=> Storing(d)
  <2>1. Writes(w, Next1(w)) /\ Next1(w).pc # "store"
    BY <1>1, <1>4, NextWrites, NextLine DEF TypeOK
  <2> QED
    BY <1>1, <2>1, WritesStoring DEF TypeOK
<1> QED
  BY <1>3, <1>4, <1>6, <1>7, <1>8, <1>9 DEF dev

\* The magics stored are not ahead of the one announced, and none equals it.
LEMMA MagicAhead ==
  ASSUME TypeOK, ClassInv, NEW w \in Writers, UpdateMagic(w)
  PROVE  /\ MagicInv'
         /\ "wrap" \notin behind' => \A u \in Terminals :
              /\ Line(w).dev = "zone" => node[u].zone_magic # magic'["zone"]
              /\ Line(w).dev = "ipgrp" => node[u].ipgrp_magic # magic'["ipgrp"]
              /\ Line(w).dev = "auth" => term[u].rule_magic # magic'["auth"]
<1> SUFFICES ASSUME "wrap" \notin behind', NEW u \in Terminals
             PROVE  /\ node'[u].zone_magic <= magic'["zone"]
                    /\ node'[u].ipgrp_magic <= magic'["ipgrp"]
                    /\ term'[u].rule_magic <= magic'["auth"]
                    /\ Line(w).dev = "zone" => node[u].zone_magic # magic'["zone"]
                    /\ Line(w).dev = "ipgrp" => node[u].ipgrp_magic # magic'["ipgrp"]
                    /\ Line(w).dev = "auth" => term[u].rule_magic # magic'["auth"]
  BY DEF MagicInv
<1>1. PICK dev : /\ dev = Line(w).dev
                 /\ \A d \in Devices : d # dev => magic'[d] = magic[d]
                 /\ "wrap" \notin behind /\ magic'[dev] = magic[dev] + 1
                 /\ UNCHANGED <<node, term>>
  BY MagicStep
<1>2. node[u] \in Nodes /\ term[u] \in Terms /\ magic \in [Devices -> Nat]
  BY DEF TypeOK, TrafficOK, TablesOK
<1>3. node[u].zone_magic \in Nat /\ node[u].ipgrp_magic \in Nat /\ term[u].rule_magic \in Nat
  BY <1>2 DEF Nodes, Terms
<1>4. /\ node[u].zone_magic <= magic["zone"]
      /\ node[u].ipgrp_magic <= magic["ipgrp"]
      /\ term[u].rule_magic <= magic["auth"]
  BY <1>1 DEF ClassInv, NodesInv, MagicInv
<1>5. magic["zone"] \in Nat /\ magic["ipgrp"] \in Nat /\ magic["auth"] \in Nat
  BY <1>2 DEF Devices
<1> QED
  BY <1>1, <1>3, <1>4, <1>5 DEF Devices

LEMMA AuthMagicKeeps ==
  ASSUME TypeOK, ClassInv, NEW w \in Writers, UpdateMagic(w), Line(w).dev = "auth"
  PROVE  ClassInv'
<1>1. /\ magic'["zone"] = magic["zone"] /\ magic'["ipgrp"] = magic["ipgrp"]
      /\ "wrap" \notin behind' => "wrap" \notin behind
      /\ behind' = (behind \ Settled("auth")) \cup Unsettled("auth")
      /\ UNCHANGED <<zones, ipgrps, auths, node, term>>
      /\ \A d : Storing(d)' <=> Storing(d)
  BY MagicStep DEF Devices
<1>2. UNCHANGED job
  BY DEF UpdateMagic
<1>3. /\ "zone" \in behind' <=> "zone" \in behind
      /\ "ipgrp" \in behind' <=> "ipgrp" \in behind
      /\ Storing("auth") => ("auth" \in behind => "auth" \in behind')
      /\ \A c \in Cpus : Inside(c) /\ job[c].late => behind \subseteq behind'
  BY <1>1 DEF Settled, Unsettled
<1>4. StoringInv'
  BY <1>1, <1>3 DEF ClassInv, StoringInv, Devices
<1>5. PacketsInv'
  <2> SUFFICES ASSUME NEW c \in Cpus, job[c] # Idle PROVE PacketInv(job[c])'
    BY <1>2 DEF PacketsInv
  <2>1. PICK j \in Jobs : j = job[c] /\ PacketInv(j)
    BY DEF PacketsInv, TypeOK, JobOK, ClassInv
  <2>2. NotLate(j)'
    <3>1. j.pc # "fw" => Inside(c)
      BY <2>1 DEF Inside, Jobs, Hooks
    <3>2. j.pc # "fw" /\ j.late => behind # {}
      BY <2>1 DEF PacketInv, NotLate
    <3>3. j.pc = "fw" => ~j.late
      BY <2>1 DEF PacketInv, NotLate
    <3>4. j.pc # "fw" /\ j.late => behind' # {}
      BY <1>3, <2>1, <3>1, <3>2
    <3> QED
      BY <3>3, <3>4 DEF NotLate
  <2>3. ZonePending(j)'
    BY <1>1, <1>3, <2>1 DEF PacketInv, ZonePending
  <2>4. GroupsPending(j)'
    <3>1. nos_ipgrp_match(j.u)' = nos_ipgrp_match(j.u)
      BY <1>1, MatchNext
    <3> QED
      BY <1>1, <1>3, <2>1, <3>1 DEF PacketInv, GroupsPending
  <2>5. Fresh(j)'
    BY <1>1, <2>1 DEF PacketInv, Fresh
  <2>6. SearchKept(j)'
    <3>1. Unspoilt(j.u) => Unspoilt(j.u)'
      <4>1. PICK s : s = term[j.u]
        OBVIOUS
      <4>2. Right(j.u, s) => Right(j.u, s)'
        BY <1>1, RightNext
      <4> QED
        BY <1>1, <4>1, <4>2 DEF Unspoilt
    <3>2. behind' \cap {"zone", "ipgrp", "wrap"} = {} => behind \cap {"zone", "ipgrp", "wrap"} = {}
      BY <1>1, <1>3
    <3> QED
      BY <1>1, <2>1, <3>1, <3>2 DEF PacketInv, SearchKept
  <2> QED
    BY <1>2, <2>1, <2>2, <2>3, <2>4, <2>5, <2>6 DEF PacketInv
<1>6. NodesInv'
  <2>1. \A u \in Terminals : nos_ipgrp_match(u)' = nos_ipgrp_match(u)
    BY <1>1, MatchNext
  <2>2. ZoneInv'
    BY <1>1, <1>3 DEF ClassInv, NodesInv, ZoneInv
  <2>3. GroupsInv'
    BY <1>1, <1>3, <2>1 DEF ClassInv, NodesInv, GroupsInv
  <2> QED
    BY <2>2, <2>3, MagicAhead DEF NodesInv
<1>7. Classified'
  BY <1>1, MagicAhead DEF Classified
<1> QED
  BY <1>4, <1>5, <1>6, <1>7 DEF ClassInv

LEMMA TableMagicKeeps ==
  ASSUME TypeOK, ClassInv, NEW w \in Writers, UpdateMagic(w), Line(w).dev # "auth"
  PROVE  ClassInv'
<1>1. PICK dev \in {"zone", "ipgrp"} :
        /\ dev = Line(w).dev
        /\ \A d \in Devices : d # dev => magic'[d] = magic[d]
        /\ "wrap" \notin behind' => "wrap" \notin behind
        /\ behind' = (behind \ Settled(dev)) \cup Unsettled(dev)
        /\ UNCHANGED <<zones, ipgrps, auths, node, term>>
        /\ \A d : Storing(d)' <=> Storing(d)
  BY MagicStep DEF Devices
<1>2. MarkLate
  BY DEF UpdateMagic
<1>3. /\ behind' # {}
      /\ \A d : d # dev /\ d \in behind => d \in behind'
      /\ Storing(dev) => (dev \in behind => dev \in behind')
      /\ \A c \in Cpus : Inside(c) /\ job[c].late => behind \subseteq behind'
  BY <1>1 DEF Settled, Unsettled
<1>4. StoringInv'
  BY <1>1, <1>3 DEF ClassInv, StoringInv
<1>5. \A u : nos_ipgrp_match(u)' = nos_ipgrp_match(u)
  BY <1>1, MatchNext
<1>6. PacketsInv'
  <2>1. ASSUME NEW c \in Cpus, Inside(c), job[c].pc = "zoned", "zone" \notin behind'
        PROVE  job[c].zone = zones'[InIf[job[c].u]]
    <3>1. ZonePending(job[c])
      BY <2>1, InsideOf DEF PacketInv, ClassInv
    <3>2. ~job[c].late \/ "zone" \notin behind
      BY <1>3, <2>1
    <3> QED
      BY <1>1, <2>1, <3>1, <3>2 DEF ZonePending
  <2>2. ASSUME NEW c \in Cpus, NEW u \in Terminals, Inside(c), job[c].pc = "grouped", job[c].u = u,
               "ipgrp" \notin behind'
        PROVE  job[c].bits = nos_ipgrp_match(u)'
    <3>1. PICK j \in Jobs : j = job[c] /\ GroupsPending(j)
      BY <2>2, InsideOf DEF PacketInv, ClassInv
    <3>2. ~j.late \/ "ipgrp" \notin behind
      BY <1>3, <2>2, <3>1
    <3>3. ~Storing("ipgrp")
      BY <1>1, <1>4, <2>2 DEF StoringInv, Devices
    <3>4. j.bits = nos_ipgrp_match(j.u)
      BY <2>2, <3>1, <3>2, <3>3 DEF GroupsPending
    <3> QED
      BY <1>5, <2>2, <3>1, <3>4
  <2> QED
    BY <1>2, <1>3, <2>1, <2>2, LateKeeps DEF ClassInv
<1>7. NodesInv'
  <2>1. ZoneInv'
    <3>1. CASE dev = "zone"
      BY <1>1, <3>1, MagicAhead DEF ZoneInv
    <3>2. CASE dev # "zone"
      BY <1>1, <1>3, <3>2 DEF ClassInv, NodesInv, ZoneInv, Devices
    <3> QED
      BY <3>1, <3>2
  <2>2. GroupsInv'
    <3>1. CASE dev = "ipgrp"
      BY <1>1, <3>1, MagicAhead DEF GroupsInv
    <3>2. CASE dev # "ipgrp"
      BY <1>1, <1>3, <1>5, <3>2 DEF ClassInv, NodesInv, GroupsInv, Devices
    <3> QED
      BY <3>1, <3>2
  <2> QED
    BY <2>1, <2>2, MagicAhead DEF NodesInv
<1>8. Classified'
  BY <1>3 DEF Classified
<1> QED
  BY <1>4, <1>6, <1>7, <1>8 DEF ClassInv

\* Nothing is looked up at first: the magics of the terminals are 0.
LEMMA ClassInit == Init => ClassInv
<1> SUFFICES ASSUME Init PROVE ClassInv
  OBVIOUS
<1>1. \A u \in Terminals : /\ node[u].zone_magic = 0 /\ node[u].ipgrp_magic = 0
                           /\ term[u].rule_magic = 0
  BY DEF Init
<1>2. magic["zone"] = 50855 /\ magic["ipgrp"] = 50855 /\ magic["auth"] = 50855
  BY DEF Init, Devices, FirstMagic
<1>3. MagicInv /\ ZoneInv /\ GroupsInv /\ Classified
  BY <1>1, <1>2 DEF MagicInv, ZoneInv, GroupsInv, Classified
<1>4. StoringInv /\ PacketsInv
  BY DEF Init, StoringInv, Storing, PacketsInv
<1> QED
  BY <1>3, <1>4 DEF ClassInv, NodesInv

LEMMA ClassStep ==
  ASSUME GroupsFit, TypeOK, ClassInv, [Next]_vars
  PROVE  ClassInv'
<1>1. ASSUME NEW c \in Cpus, nos_pre_hook(c) \/ Forward(c) PROVE ClassInv'
  BY <1>1, PreHookKeeps, FwHookKeeps, ZoneMatchKeeps, ZoneStoreKeeps, IpgrpMatchKeeps, IpgrpStoreKeeps,
     AuthHookKeeps, AuthResetKeeps, AuthSearchKeeps, AuthWhiteKeeps, AuthJudgeKeeps DEF Forward
<1>2. ASSUME NEW w \in Writers, StartScript(w) \/ Write(w) PROVE ClassInv'
  BY <1>2, ScriptKeeps, AuthMagicKeeps, TableMagicKeeps, ChangeKeeps, ApplyKeeps DEF Write
<1>3. ASSUME UNCHANGED <<zones, ipgrps, auths, magic, behind, writer, job, node>>, SameRules PROVE ClassInv'
  <2>1. \A dev : Storing(dev)' <=> Storing(dev)
    BY <1>3 DEF Storing, Line
  <2>2. SameTables
    BY <1>3, <2>1 DEF SameTables
  <2> QED
    BY <1>3, <2>2, StillKeeps
<1>4. ASSUME NEW u \in Terminals, NEW status \in {"ok", "req", "bypass"}, user_set_status(u, status) PROVE ClassInv'
  <2>1. SameRules
    BY <1>4, StatusStepRules DEF TypeOK
  <2> QED
    BY <1>3, <1>4, <2>1 DEF user_set_status, config
<1>5. ASSUME (\E u \in Terminals : NewConnection(u)) \/ UNCHANGED vars PROVE ClassInv'
  <2>1. UNCHANGED <<zones, ipgrps, auths, magic, behind, writer, job, node, term>>
    BY <1>5 DEF NewConnection, config, vars
  <2> QED
    BY <1>3, <2>1, UnchangedRules DEF TypeOK
<1> QED
  BY <1>1, <1>2, <1>4, <1>5, ExitKeeps DEF Next

ClassState == TypeOK /\ ClassInv

LEMMA ClassInvariant ==
  ASSUME GroupsFit
  PROVE  Spec => []ClassState
<1>1. Init => ClassState
  BY TypeInit, ClassInit DEF ClassState
<1>2. ClassState /\ [Next]_vars => ClassState'
  BY TypeStep, ClassStep DEF ClassState
<1> QED
  BY <1>1, <1>2, PTL DEF Spec

\* Once the rules were announced after every other table, with no packet left
\* from before, a terminal found at that magic (nos_auth.c:155) is under the first
\* rule that the present tables give it, unless a packet is between the stores of
\* nos_auth_hook (:158-174): for tables and scripts of any length, any number of
\* CPUs, terminals and writers, packets that store for one terminal in any order,
\* and statuses that authd changes at any time.  The groups are those that have
\* bits of their own.
THEOREM TerminalsClassified ==
  ASSUME GroupsFit
  PROVE  Spec => []Classified
<1>1. ClassState => Classified
  BY DEF ClassState, ClassInv
<1> QED
  BY <1>1, ClassInvariant, PTL

\* Where the comment on ipgrp_bits (nacs_table.c:879) is right: with group ids up to 30
\* the bits of a terminal that was looked up at the present magic (nos_main.c:171-174)
\* are exactly the groups that the present table puts it in, unless the table was
\* changed since it was last announced.  From 31 on BitsExact fails: NosGroups.cfg.
THEOREM BitsNameGroups ==
  ASSUME GroupsFit, \A e \in GroupEntries : e.id \in 0 .. 30
  PROVE  Spec => []BitsExact
<1>1. ClassState => BitsExact
  <2> SUFFICES ASSUME ClassState, NEW u \in Terminals,
                      node[u].ipgrp_magic = magic.ipgrp, behind \cap {"ipgrp", "wrap"} = {}
               PROVE  node[u].ipgrp_bits = {ipgrps[g].id : g \in {k \in DOMAIN ipgrps :
                                              ipgrps[k].set = NoSet \/ u \in Holds[ipgrps[k].set]}}
    BY DEF BitsExact
  <2>1. \A g \in DOMAIN ipgrps : Shift(ipgrps[g].id) = {ipgrps[g].id}
    <3>1. \A i \in 0 .. 30 : Shift(i) = {i}
      BY DEF Shift
    <3>2. \A g \in DOMAIN ipgrps : ipgrps[g] \in GroupEntries
      BY DEF ClassState, TypeOK, TablesOK
    <3> QED
      BY <3>1, <3>2
  <2>2. node[u].ipgrp_bits = nos_ipgrp_match(u)
    BY DEF ClassState, ClassInv, NodesInv, GroupsInv
  <2>3. nos_ipgrp_match(u) = {ipgrps[g].id : g \in {k \in DOMAIN ipgrps :
                                ipgrps[k].set = NoSet \/ u \in Holds[ipgrps[k].set]}}
    BY <2>1 DEF nos_ipgrp_match
  <2> QED
    BY <2>2, <2>3
<1> QED
  BY <1>1, ClassInvariant, PTL

-----------------------------------------------------------------------------
(* Counting *)

Places(f, i) == {k \in DOMAIN f : f[k] = i}

LEMMA SameSize ==
  ASSUME NEW S, NEW T, IsFiniteSet(S), NEW f \in [S -> T],
         \A a, b \in S : f[a] = f[b] => a = b,
         \A t \in T : \E a \in S : f[a] = t
  PROVE  IsFiniteSet(T) /\ Cardinality(T) = Cardinality(S)
<1>1. f \in Bijection(S, T)
  BY DEF Bijection, Injection, Surjection, IsInjective
<1>2. ExistsBijection(S, T)
  BY <1>1 DEF ExistsBijection
<1> QED
  BY <1>2, FS_Bijection

LEMMA CountNat ==
  ASSUME NEW n \in Nat, NEW f, DOMAIN f = 1 .. n, NEW i
  PROVE  IsFiniteSet(Places(f, i)) /\ Count(f, i) \in Nat /\ Count(f, i) = Cardinality(Places(f, i))
<1>1. IsFiniteSet(1 .. n)
  BY FS_Interval
<1>2. Places(f, i) \in SUBSET (1 .. n)
  BY DEF Places
<1>3. IsFiniteSet(Places(f, i))
  BY <1>1, <1>2, FS_Subset
<1>4. Cardinality(Places(f, i)) \in Nat
  BY <1>3, FS_CardinalityType
<1> QED
  BY <1>3, <1>4 DEF Places, Count

LEMMA CountEmpty ==
  ASSUME NEW f, DOMAIN f = {}, NEW i
  PROVE  Count(f, i) = 0
<1>1. {k \in DOMAIN f : f[k] = i} = {}
  OBVIOUS
<1> QED
  BY <1>1, FS_EmptySet DEF Count

\* An entry more at the end.
Longer(n, f, g) ==
  n \in Nat /\ DOMAIN f = 1 .. n /\ DOMAIN g = 1 .. (n + 1) /\ \A k \in 1 .. n : g[k] = f[k]

LEMMA CountLonger ==
  ASSUME NEW n, NEW f, NEW g, Longer(n, f, g), NEW i
  PROVE  Count(g, i) = Count(f, i) + (IF g[n + 1] = i THEN 1 ELSE 0)
<1> USE DEF Longer
<1>1. IsFiniteSet(Places(f, i)) /\ Count(f, i) = Cardinality(Places(f, i)) /\ Count(f, i) \in Nat
  BY CountNat
<1>2. Count(g, i) = Cardinality(Places(g, i))
  BY DEF Count, Places
<1>3. CASE g[n + 1] = i
  <2>1. Places(g, i) = Places(f, i) \cup {n + 1} /\ n + 1 \notin Places(f, i)
    BY <1>3 DEF Places
  <2>2. Cardinality(Places(f, i) \cup {n + 1}) = Cardinality(Places(f, i)) + 1
    BY <1>1, <2>1, FS_AddElement
  <2> QED
    BY <1>1, <1>2, <1>3, <2>1, <2>2
<1>4. CASE g[n + 1] # i
  <2>1. Places(g, i) = Places(f, i)
    BY <1>4 DEF Places
  <2> QED
    BY <1>1, <1>2, <1>4, <2>1
<1> QED
  BY <1>3, <1>4

LEMMA CountOne ==
  ASSUME NEW x, NEW i
  PROVE  Count(<<x>>, i) = IF x = i THEN 1 ELSE 0
<1> DEFINE f == [k \in 1 .. 0 |-> x]
           g == <<x>>
<1>1. Count(f, i) = 0
  <2>1. DOMAIN f = {}
    OBVIOUS
  <2> QED
    BY <2>1, CountEmpty
<1>2. DOMAIN f = 1 .. 0 /\ DOMAIN g = 1 .. (0 + 1) /\ g[0 + 1] = x /\ \A k \in 1 .. 0 : g[k] = f[k]
  OBVIOUS
<1> HIDE DEF f, g
<1>3. Count(g, i) = Count(f, i) + (IF g[0 + 1] = i THEN 1 ELSE 0)
  <2>0. PICK n \in Nat : n = 0
    OBVIOUS
  <2>1. Longer(n, f, g)
    BY <1>2, <2>0 DEF Longer
  <2>2. Count(g, i) = Count(f, i) + (IF g[n + 1] = i THEN 1 ELSE 0)
    BY <2>1, CountLonger
  <2> QED
    BY <2>0, <2>2
<1> QED
  BY <1>1, <1>2, <1>3 DEF g

LEMMA CountTwo ==
  ASSUME NEW x, NEW y, NEW i
  PROVE  Count(<<x, y>>, i) = (IF x = i THEN 1 ELSE 0) + (IF y = i THEN 1 ELSE 0)
<1> DEFINE f == <<x>>
           g == <<x, y>>
<1>1. DOMAIN f = 1 .. 1 /\ DOMAIN g = 1 .. (1 + 1) /\ g[1 + 1] = y /\ \A k \in 1 .. 1 : g[k] = f[k]
  OBVIOUS
<1>2. Count(f, i) = IF x = i THEN 1 ELSE 0
  BY CountOne
<1> HIDE DEF f, g
<1>3. Count(g, i) = Count(f, i) + (IF g[1 + 1] = i THEN 1 ELSE 0)
  <2>0. PICK n \in Nat : n = 1
    OBVIOUS
  <2>1. Longer(n, f, g)
    BY <1>1, <2>0 DEF Longer
  <2>2. Count(g, i) = Count(f, i) + (IF g[n + 1] = i THEN 1 ELSE 0)
    BY <2>1, CountLonger
  <2> QED
    BY <2>0, <2>2
<1> QED
  BY <1>1, <1>2, <1>3 DEF g

\* An entry taken out, and those behind it moved up.
Shorter(n, at, f, g) ==
  /\ n \in Nat /\ DOMAIN f = 1 .. n /\ at \in 1 .. n /\ DOMAIN g = 1 .. (n - 1)
  /\ \A k \in 1 .. (n - 1) : g[k] = IF k < at THEN f[k] ELSE f[k + 1]

LEMMA CountShorter ==
  ASSUME NEW n, NEW at, NEW f, NEW g, Shorter(n, at, f, g), NEW i
  PROVE  Count(g, i) = Count(f, i) - (IF f[at] = i THEN 1 ELSE 0)
<1> USE DEF Shorter
<1> DEFINE S == Places(f, i) \ {at}
           T == Places(g, i)
           h == [k \in S |-> IF k < at THEN k ELSE k - 1]
<1>1. IsFiniteSet(Places(f, i)) /\ Count(f, i) = Cardinality(Places(f, i)) /\ Count(f, i) \in Nat
  BY CountNat
<1>2. /\ IsFiniteSet(S)
      /\ Cardinality(S) = IF at \in Places(f, i) THEN Cardinality(Places(f, i)) - 1 ELSE Cardinality(Places(f, i))
  BY <1>1, FS_RemoveElement
<1>3. h \in [S -> T]
  <2> SUFFICES ASSUME NEW k \in S PROVE (IF k < at THEN k ELSE k - 1) \in T
    OBVIOUS
  <2>1. k \in 1 .. n /\ k # at /\ f[k] = i
    BY DEF Places
  <2>2. CASE k < at
    <3>1. k \in 1 .. (n - 1)
      BY <2>1, <2>2
    <3>2. g[k] = i
      BY <2>1, <2>2, <3>1
    <3> QED
      BY <2>2, <3>1, <3>2 DEF Places
  <2>3. CASE ~(k < at)
    <3>1. k - 1 \in 1 .. (n - 1) /\ ~(k - 1 < at) /\ (k - 1) + 1 = k
      BY <2>1, <2>3
    <3>2. g[k - 1] = i
      BY <2>1, <3>1
    <3> QED
      BY <2>3, <3>1, <3>2 DEF Places
  <2> QED
    BY <2>2, <2>3
<1>4. \A a, b \in S : h[a] = h[b] => a = b
  <2>1. \A a \in S : a \in Int /\ a # at
    BY DEF Places
  <2> QED
    BY <2>1
<1>5. \A t \in T : \E a \in S : h[a] = t
  <2> SUFFICES ASSUME NEW t \in T PROVE \E a \in S : h[a] = t
    OBVIOUS
  <2>1. t \in 1 .. (n - 1) /\ g[t] = i
    BY DEF Places
  <2>2. CASE t < at
    <3>1. t \in S
      BY <2>1, <2>2 DEF Places
    <3> QED
      BY <2>2, <3>1
  <2>3. CASE ~(t < at)
    <3>1. t + 1 \in 1 .. n /\ t + 1 # at /\ ~(t + 1 < at) /\ (t + 1) - 1 = t
      BY <2>1, <2>3
    <3>2. f[t + 1] = i
      BY <2>1, <2>3
    <3>3. t + 1 \in S
      BY <3>1, <3>2 DEF Places
    <3> QED
      BY <3>1, <3>3
  <2> QED
    BY <2>2, <2>3
<1> HIDE DEF h, S, T
<1>6. Cardinality(T) = Cardinality(S)
  BY <1>2, <1>3, <1>4, <1>5, SameSize
<1>7. Count(g, i) = Cardinality(T)
  BY DEF Count, Places, T
<1>8. at \in Places(f, i) <=> f[at] = i
  BY DEF Places
<1> QED
  BY <1>1, <1>2, <1>6, <1>7, <1>8

\* One sequence after another.
Joined(n, m, f, g, h) ==
  /\ n \in Nat /\ DOMAIN f = 1 .. n /\ m \in Nat /\ DOMAIN g = 1 .. m /\ DOMAIN h = 1 .. (n + m)
  /\ \A k \in 1 .. (n + m) : h[k] = IF k <= n THEN f[k] ELSE g[k - n]

LEMMA CountBoth ==
  ASSUME NEW n, NEW m, NEW f, NEW g, NEW h, Joined(n, m, f, g, h), NEW i
  PROVE  Count(h, i) = Count(f, i) + Count(g, i)
<1> USE DEF Joined
<1> DEFINE S == Places(g, i)
           T == {k \in Places(h, i) : k > n}
           b == [k \in S |-> k + n]
<1>1. IsFiniteSet(Places(f, i)) /\ Count(f, i) = Cardinality(Places(f, i)) /\ Count(f, i) \in Nat
  BY CountNat
<1>2. IsFiniteSet(S) /\ Count(g, i) = Cardinality(S) /\ Count(g, i) \in Nat
  BY CountNat
<1>3. b \in [S -> T]
  <2> SUFFICES ASSUME NEW k \in S PROVE k + n \in T
    OBVIOUS
  <2>1. k \in 1 .. m /\ g[k] = i
    BY DEF Places
  <2>2. k + n \in 1 .. (n + m) /\ ~(k + n <= n) /\ (k + n) - n = k
    BY <2>1
  <2>3. h[k + n] = i
    BY <2>1, <2>2
  <2> QED
    BY <2>2, <2>3 DEF Places
<1>4. \A x, y \in S : b[x] = b[y] => x = y
  <2>1. \A x \in S : x \in Int
    BY DEF Places
  <2> QED
    BY <2>1
<1>5. \A t \in T : \E a \in S : b[a] = t
  <2> SUFFICES ASSUME NEW t \in T PROVE \E a \in S : b[a] = t
    OBVIOUS
  <2>1. t \in 1 .. (n + m) /\ t > n /\ h[t] = i
    BY DEF Places
  <2>2. t - n \in 1 .. m /\ (t - n) + n = t /\ g[t - n] = i
    BY <2>1
  <2>3. t - n \in S
    BY <2>2 DEF Places
  <2> QED
    BY <2>2, <2>3
<1>6. Places(h, i) = Places(f, i) \cup T
  BY DEF Places
<1>7. Places(f, i) \cap T = {}
  BY DEF Places
<1> HIDE DEF b, S, T
<1>8. IsFiniteSet(T) /\ Cardinality(T) = Cardinality(S)
  BY <1>2, <1>3, <1>4, <1>5, SameSize
<1>9. Cardinality(Places(f, i) \cup T)
        = Cardinality(Places(f, i)) + Cardinality(T) - Cardinality(Places(f, i) \cap T)
  BY <1>1, <1>8, FS_Union
<1>10. Cardinality(Places(f, i) \cap T) = 0
  BY <1>7, FS_EmptySet
<1>11. Count(h, i) = Cardinality(Places(h, i))
  BY DEF Count, Places
<1> QED
  BY <1>1, <1>2, <1>6, <1>8, <1>9, <1>10, <1>11

-----------------------------------------------------------------------------
(* The references *)

-----------------------------------------------------------------------------
(* The columns of the tables *)

SetsOf(g) == [k \in DOMAIN g |-> g[k].set]
IpsOf(a) == [k \in DOMAIN a |-> a[k].ip]
MacsOf(a) == [k \in DOMAIN a |-> a[k].mac]

LEMMA ColumnNat ==
  ASSUME NEW B, NEW g \in Seq(B), NEW C, NEW a \in Seq(C), NEW i
  PROVE  /\ DOMAIN SetsOf(g) = 1 .. Len(g) /\ DOMAIN IpsOf(a) = 1 .. Len(a) /\ DOMAIN MacsOf(a) = 1 .. Len(a)
         /\ Count(SetsOf(g), i) \in Nat /\ Count(IpsOf(a), i) \in Nat /\ Count(MacsOf(a), i) \in Nat
<1>1. DOMAIN SetsOf(g) = 1 .. Len(g) /\ DOMAIN IpsOf(a) = 1 .. Len(a) /\ DOMAIN MacsOf(a) = 1 .. Len(a)
  BY DEF SetsOf, IpsOf, MacsOf
<1>2. Len(g) \in Nat /\ Len(a) \in Nat
  OBVIOUS
<1> QED
  BY <1>1, <1>2, CountNat

LEMMA ColumnEmpty ==
  ASSUME NEW i
  PROVE  Count(SetsOf(<<>>), i) = 0 /\ Count(IpsOf(<<>>), i) = 0 /\ Count(MacsOf(<<>>), i) = 0
<1>1. DOMAIN SetsOf(<<>>) = {} /\ DOMAIN IpsOf(<<>>) = {} /\ DOMAIN MacsOf(<<>>) = {}
  BY DEF SetsOf, IpsOf, MacsOf
<1> QED
  BY <1>1, CountEmpty

LEMMA GroupRemoved ==
  ASSUME NEW B, NEW g \in Seq(B), NEW at \in DOMAIN g, NEW i
  PROVE  Count(SetsOf(RemoveAt(g, at)), i) = Count(SetsOf(g), i) - (IF g[at].set = i THEN 1 ELSE 0)
<1> DEFINE n == Len(g)
           r == RemoveAt(g, at)
           f == SetsOf(g)
           h == SetsOf(r)
<1>1. n \in Nat /\ at \in 1 .. n /\ DOMAIN f = 1 .. n /\ f[at] = g[at].set
  BY DEF SetsOf
<1>2. DOMAIN r = 1 .. (n - 1) /\ \A k \in 1 .. (n - 1) : r[k] = IF k < at THEN g[k] ELSE g[k + 1]
  BY RemoveAtParts
<1> HIDE DEF r
<1>3. Shorter(n, at, f, h)
  BY <1>1, <1>2 DEF SetsOf, Shorter
<1> HIDE DEF n, f, h
<1>4. Count(h, i) = Count(f, i) - (IF f[at] = i THEN 1 ELSE 0)
  BY <1>3, CountShorter
<1> QED
  BY <1>1, <1>4 DEF f, h, r

LEMMA RuleRemoved ==
  ASSUME NEW B, NEW g \in Seq(B), NEW at \in DOMAIN g, NEW i
  PROVE  /\ Count(IpsOf(RemoveAt(g, at)), i) = Count(IpsOf(g), i) - (IF g[at].ip = i THEN 1 ELSE 0)
         /\ Count(MacsOf(RemoveAt(g, at)), i) = Count(MacsOf(g), i) - (IF g[at].mac = i THEN 1 ELSE 0)
<1> DEFINE n == Len(g)
           r == RemoveAt(g, at)
           f == IpsOf(g)
           h == IpsOf(r)
           p == MacsOf(g)
           q == MacsOf(r)
<1>1. /\ n \in Nat /\ at \in 1 .. n
      /\ DOMAIN f = 1 .. n /\ f[at] = g[at].ip /\ DOMAIN p = 1 .. n /\ p[at] = g[at].mac
  BY DEF IpsOf, MacsOf
<1>2. DOMAIN r = 1 .. (n - 1) /\ \A k \in 1 .. (n - 1) : r[k] = IF k < at THEN g[k] ELSE g[k + 1]
  BY RemoveAtParts
<1> HIDE DEF r
<1>3. Shorter(n, at, f, h)
  BY <1>1, <1>2 DEF IpsOf, Shorter
<1>4. Shorter(n, at, p, q)
  BY <1>1, <1>2 DEF MacsOf, Shorter
<1> HIDE DEF n, f, h, p, q
<1>5. Count(h, i) = Count(f, i) - (IF f[at] = i THEN 1 ELSE 0)
  BY <1>3, CountShorter
<1>6. Count(q, i) = Count(p, i) - (IF p[at] = i THEN 1 ELSE 0)
  BY <1>4, CountShorter
<1> QED
  BY <1>1, <1>5, <1>6 DEF f, h, p, q, r

LEMMA ConcatJoined ==
  ASSUME NEW B, NEW f \in Seq(B), NEW g \in Seq(B)
  PROVE  f \o g \in Seq(B) /\ Joined(Len(f), Len(g), f, g, f \o g)
BY DEF Joined

LEMMA CountConcat ==
  ASSUME NEW B, NEW f \in Seq(B), NEW g \in Seq(B), NEW i
  PROVE  Count(f \o g, i) = Count(f, i) + Count(g, i)
BY ConcatJoined, CountBoth

LEMMA GroupAdded ==
  ASSUME NEW B, NEW g \in Seq(B), NEW e, NEW blank, NEW i
  PROVE  Count(SetsOf(Stored(g, Len(g), e, blank)), i) = Count(SetsOf(g), i) + (IF e.set = i THEN 1 ELSE 0)
<1> DEFINE n == Len(g)
           s == Stored(g, n, e, blank)
           f == SetsOf(g)
           h == SetsOf(s)
<1>1. n \in Nat /\ DOMAIN g = 1 .. n
  OBVIOUS
<1>2. DOMAIN s = 1 .. (n + 1) /\ s[n + 1] = e /\ \A k \in 1 .. n : s[k] = g[k]
  BY <1>1 DEF Stored
<1> HIDE DEF s, n
<1>3. Longer(n, f, h) /\ h[n + 1] = e.set
  BY <1>1, <1>2 DEF SetsOf, Longer
<1> HIDE DEF f, h
<1>4. Count(h, i) = Count(f, i) + (IF h[n + 1] = i THEN 1 ELSE 0)
  BY <1>3, CountLonger
<1> QED
  BY <1>3, <1>4 DEF f, h, s, n

LEMMA RuleAdded ==
  ASSUME NEW B, NEW g \in Seq(B), NEW e, NEW blank, NEW i
  PROVE  /\ Count(IpsOf(Stored(g, Len(g), e, blank)), i) = Count(IpsOf(g), i) + (IF e.ip = i THEN 1 ELSE 0)
         /\ Count(MacsOf(Stored(g, Len(g), e, blank)), i) = Count(MacsOf(g), i) + (IF e.mac = i THEN 1 ELSE 0)
<1> DEFINE n == Len(g)
           s == Stored(g, n, e, blank)
           f == IpsOf(g)
           h == IpsOf(s)
           p == MacsOf(g)
           q == MacsOf(s)
<1>1. n \in Nat /\ DOMAIN g = 1 .. n
  OBVIOUS
<1>2. DOMAIN s = 1 .. (n + 1) /\ s[n + 1] = e /\ \A k \in 1 .. n : s[k] = g[k]
  BY <1>1 DEF Stored
<1> HIDE DEF s, n
<1>3. Longer(n, f, h) /\ h[n + 1] = e.ip
  BY <1>1, <1>2 DEF IpsOf, Longer
<1>4. Longer(n, p, q) /\ q[n + 1] = e.mac
  BY <1>1, <1>2 DEF MacsOf, Longer
<1> HIDE DEF f, h, p, q
<1>5. Count(h, i) = Count(f, i) + (IF h[n + 1] = i THEN 1 ELSE 0)
  BY <1>3, CountLonger
<1>6. Count(q, i) = Count(p, i) + (IF q[n + 1] = i THEN 1 ELSE 0)
  BY <1>4, CountLonger
<1> QED
  BY <1>3, <1>4, <1>5, <1>6 DEF f, h, p, q, s, n

\* What cleaning puts: every place of the table.
LEMMA CleanCount ==
  ASSUME TablesOK, NEW i
  PROVE  /\ \E n \in Nat : DOMAIN OfGroups = 1 .. n
         /\ \E n \in Nat : DOMAIN OfAuths = 1 .. n
         /\ \E n \in Nat : DOMAIN (OfAuths \o OfGroups) = 1 .. n
         /\ Count(OfGroups, i) = Count(SetsOf(ipgrps), i)
         /\ Count(OfAuths, i) = Count(IpsOf(auths), i) + Count(MacsOf(auths), i) + (IF bypass = i THEN 1 ELSE 0)
         /\ Count(OfAuths \o OfGroups, i) = Count(OfAuths, i) + Count(OfGroups, i)
<1> DEFINE B == {bypass} \cup {r.ip : r \in RuleEntries} \cup {r.mac : r \in RuleEntries}
                \cup {e.set : e \in GroupEntries}
           x == <<bypass>>
           y == IpsOf(auths)
           z == MacsOf(auths)
           g == SetsOf(ipgrps)
<1>1. OfGroups = g /\ OfAuths = x \o y \o z
  BY DEF OfGroups, OfAuths, SetsOf, IpsOf, MacsOf
<1>2. x \in Seq(B)
  OBVIOUS
<1>3. y \in Seq(B)
  <2>1. \A k \in 1 .. Len(auths) : auths[k].ip \in B
    BY DEF TablesOK
  <2> HIDE DEF B
  <2>2. y = [k \in 1 .. Len(auths) |-> auths[k].ip] /\ Len(auths) \in Nat
    BY DEF IpsOf, TablesOK
  <2> QED
    BY <2>1, <2>2
<1>4. z \in Seq(B)
  <2>1. \A k \in 1 .. Len(auths) : auths[k].mac \in B
    BY DEF TablesOK
  <2> HIDE DEF B
  <2>2. z = [k \in 1 .. Len(auths) |-> auths[k].mac] /\ Len(auths) \in Nat
    BY DEF MacsOf, TablesOK
  <2> QED
    BY <2>1, <2>2
<1>5. g \in Seq(B)
  <2>1. \A k \in 1 .. Len(ipgrps) : ipgrps[k].set \in B
    BY DEF TablesOK
  <2> HIDE DEF B
  <2>2. g = [k \in 1 .. Len(ipgrps) |-> ipgrps[k].set] /\ Len(ipgrps) \in Nat
    BY DEF SetsOf, TablesOK
  <2> QED
    BY <2>1, <2>2
<1>6. Count(x, i) = IF bypass = i THEN 1 ELSE 0
  BY CountOne
<1> HIDE DEF B, x, y, z, g
<1>7. x \o y \in Seq(B) /\ Count(x \o y, i) = Count(x, i) + Count(y, i)
  BY <1>2, <1>3, ConcatJoined, CountConcat
<1>8. (x \o y) \o z \in Seq(B) /\ Count((x \o y) \o z, i) = Count(x \o y, i) + Count(z, i)
  BY <1>7, <1>4, ConcatJoined, CountConcat, Zenon
<1>9. /\ ((x \o y) \o z) \o g \in Seq(B)
      /\ Count(((x \o y) \o z) \o g, i) = Count((x \o y) \o z, i) + Count(g, i)
  BY <1>8, <1>5, ConcatJoined, CountConcat, Zenon
<1>10. \A s \in Seq(B) : \E n \in Nat : DOMAIN s = 1 .. n
  OBVIOUS
<1>11. Count(y, i) \in Nat /\ Count(z, i) \in Nat /\ Count(g, i) \in Nat
  BY ColumnNat DEF TablesOK, y, z, g
<1>12. Count(OfAuths, i) = Count(y, i) + Count(z, i) + (IF bypass = i THEN 1 ELSE 0)
  BY <1>1, <1>6, <1>7, <1>8, <1>11
<1> QED
  BY <1>1, <1>5, <1>8, <1>9, <1>10, <1>12 DEF y, z, g

\* The entries of a column that are not given up.
Kept(f, X, i) == Cardinality({k \in DOMAIN f : f[k] = i /\ k \notin X})

LEMMA KeptCount ==
  ASSUME NEW n \in Nat, NEW f, DOMAIN f = 1 .. n, NEW i
  PROVE  /\ Kept(f, {}, i) = Count(f, i)
         /\ Kept(f, Nat, i) = 0
         /\ \A at \in 1 .. n : Kept(f, {at}, i) = Count(f, i) - (IF f[at] = i THEN 1 ELSE 0)
         /\ \A X : Kept(f, X, i) \in Nat
<1>1. IsFiniteSet(Places(f, i)) /\ Count(f, i) = Cardinality(Places(f, i)) /\ Count(f, i) \in Nat
  BY CountNat
<1>2. Kept(f, {}, i) = Count(f, i)
  <2>1. {k \in DOMAIN f : f[k] = i /\ k \notin {}} = {k \in DOMAIN f : f[k] = i}
    OBVIOUS
  <2> QED
    BY <2>1 DEF Kept, Count
<1>3. Kept(f, Nat, i) = 0
  <2>1. {k \in DOMAIN f : f[k] = i /\ k \notin Nat} = {}
    OBVIOUS
  <2> QED
    BY <2>1, FS_EmptySet DEF Kept
<1>4. ASSUME NEW at \in 1 .. n PROVE Kept(f, {at}, i) = Count(f, i) - (IF f[at] = i THEN 1 ELSE 0)
  <2>1. {k \in DOMAIN f : f[k] = i /\ k \notin {at}} = Places(f, i) \ {at}
    BY DEF Places
  <2>2. Cardinality(Places(f, i) \ {at})
          = IF at \in Places(f, i) THEN Cardinality(Places(f, i)) - 1 ELSE Cardinality(Places(f, i))
    BY <1>1, FS_RemoveElement
  <2>3. at \in Places(f, i) <=> f[at] = i
    BY DEF Places
  <2>4. Kept(f, {at}, i) = Cardinality(Places(f, i) \ {at})
    BY <2>1 DEF Kept
  <2> QED
    BY <1>1, <2>2, <2>3, <2>4
<1>5. ASSUME NEW X PROVE Kept(f, X, i) \in Nat
  <2> DEFINE S == {k \in DOMAIN f : f[k] = i /\ k \notin X}
  <2>1. S \in SUBSET Places(f, i)
    BY DEF Places
  <2>2. IsFiniteSet(S)
    BY <1>1, <2>1, FS_Subset
  <2> QED
    BY <2>2, FS_CardinalityType DEF Kept
<1> QED
  BY <1>2, <1>3, <1>4, <1>5

\* The ipsets a line names.
LEMMA NamedCases ==
  ASSUME NEW l
  PROVE  /\ l.op = "set" /\ l.dev = "ipgrp" => Named(l) = <<l.set>>
         /\ l.op = "set" /\ l.dev = "auth" => Named(l) = <<l.ip, l.mac>>
         /\ l.op = "bypass" => Named(l) = <<l.set>>
         /\ l.op \in {"clean", "delete", "magic"} => Named(l) = <<>>
         /\ l.dev = "zone" /\ l.op # "bypass" => Named(l) = <<>>
         /\ Named(l) = <<>> \/ Named(l) = <<l.set>> \/ Named(l) = <<l.ip, l.mac>>
BY DEF Named

LEMMA NamedShort ==
  ASSUME NEW l
  PROVE  Len(Named(l)) \in Nat /\ Len(Named(l)) <= 2 /\ DOMAIN Named(l) = 1 .. Len(Named(l))
<1>1. Named(l) = <<>> \/ Named(l) = <<l.set>> \/ Named(l) = <<l.ip, l.mac>>
  BY NamedCases
<1>2. CASE Named(l) = <<>>
  BY <1>2
<1>3. CASE Named(l) = <<l.set>>
  <2>1. Len(<<l.set>>) = 1 /\ DOMAIN <<l.set>> = 1 .. 1
    OBVIOUS
  <2> QED
    BY <1>3, <2>1
<1>4. CASE Named(l) = <<l.ip, l.mac>>
  <2>1. Len(<<l.ip, l.mac>>) = 2 /\ DOMAIN <<l.ip, l.mac>> = 1 .. 2
    OBVIOUS
  <2> QED
    BY <1>4, <2>1
<1> QED
  BY <1>1, <1>2, <1>3, <1>4

-----------------------------------------------------------------------------
(* What the lines hold *)

HeldSet(f, i) == {h \in Writers \X (1 .. 2) : h[2] \in DOMAIN f[h[1]].held /\ f[h[1]].held[h[2]] = i}

\* At most two, and one writer's are its own.
Short(s) == s \in Seq(Ipsets \cup {NoSet}) /\ Len(s) <= 2

LEMMA TwoFinite == IsFiniteSet(1 .. 2)
<1>1. PICK a \in Int, b \in Int : a = 1 /\ b = 2
  OBVIOUS
<1>2. IsFiniteSet(a .. b)
  BY FS_Interval
<1> QED
  BY <1>1, <1>2

LEMMA HeldSplit ==
  ASSUME NEW f, NEW w \in Writers, Short(f[w].held), NEW i
  PROVE  LET R == {h \in HeldSet(f, i) : h[1] # w}
         IN  /\ Cardinality(R) \in Nat
             /\ Cardinality(HeldSet(f, i)) = Cardinality(R) + Count(f[w].held, i)
             /\ Count(f[w].held, i) \in Nat
<1> DEFINE R == {h \in HeldSet(f, i) : h[1] # w}
           P == Places(f[w].held, i)
           Q == {w} \X P
<1>1. PICK n \in Nat : n <= 2 /\ DOMAIN f[w].held = 1 .. n
  BY DEF Short
<1>2. IsFiniteSet(P) /\ Count(f[w].held, i) = Cardinality(P) /\ Cardinality(P) \in Nat
  BY <1>1, CountNat
<1>3. P \subseteq 1 .. 2
  BY <1>1 DEF Places
<1>4. HeldSet(f, i) = R \cup Q
  BY <1>3 DEF HeldSet, Places
<1>5. R \cap Q = {}
  OBVIOUS
<1>6. IsFiniteSet(R)
  <2>1. IsFiniteSet(1 .. 2)
    BY TwoFinite
  <2>2. IsFiniteSet(Writers \X (1 .. 2))
    BY <2>1, WritersAssumption, FS_Product
  <2>3. R \in SUBSET (Writers \X (1 .. 2))
    BY DEF HeldSet
  <2> HIDE DEF R
  <2> QED
    BY <2>2, <2>3, FS_Subset
<1> HIDE DEF P
<1>7. IsFiniteSet({w}) /\ Cardinality({w}) = 1
  BY FS_Singleton
<1>8. IsFiniteSet(Q) /\ Cardinality(Q) = 1 * Cardinality(P)
  BY <1>2, <1>7, FS_Product
<1> HIDE DEF Q, R
<1>9. Cardinality(R \cup Q) = Cardinality(R) + Cardinality(Q) - Cardinality(R \cap Q)
  BY <1>6, <1>8, FS_Union
<1>10. Cardinality(R \cap Q) = 0
  BY <1>5, FS_EmptySet
<1>11. Cardinality(R) \in Nat
  BY <1>6, FS_CardinalityType
<1>12. Cardinality(Q) = Cardinality(P)
  BY <1>2, <1>8
<1>13. Cardinality(HeldSet(f, i)) = Cardinality(R) + Count(f[w].held, i)
  BY <1>2, <1>4, <1>9, <1>10, <1>11, <1>12
<1> QED
  BY <1>2, <1>11, <1>13 DEF R

\* One writer gets or puts.
LEMMA HeldMoves ==
  ASSUME NEW f, NEW g, NEW w \in Writers, Short(f[w].held), Short(g[w].held),
         \A v \in Writers : v # w => g[v].held = f[v].held, NEW i
  PROVE  /\ Cardinality(HeldSet(f, i)) \in Nat
         /\ Cardinality(HeldSet(g, i)) = Cardinality(HeldSet(f, i)) - Count(f[w].held, i) + Count(g[w].held, i)
<1> DEFINE R == {h \in HeldSet(f, i) : h[1] # w}
           S == {h \in HeldSet(g, i) : h[1] # w}
<1>1. R = S
  BY DEF HeldSet
<1>2. /\ Cardinality(R) \in Nat /\ Count(f[w].held, i) \in Nat
      /\ Cardinality(HeldSet(f, i)) = Cardinality(R) + Count(f[w].held, i)
  BY HeldSplit
<1>3. /\ Count(g[w].held, i) \in Nat
      /\ Cardinality(HeldSet(g, i)) = Cardinality(S) + Count(g[w].held, i)
  BY HeldSplit
<1> HIDE DEF R, S
<1> QED
  BY <1>1, <1>2, <1>3

LEMMA HeldSame ==
  ASSUME NEW f, NEW g, \A v \in Writers : g[v].held = f[v].held, NEW i
  PROVE  HeldSet(g, i) = HeldSet(f, i)
BY DEF HeldSet

LEMMA HeldNat ==
  ASSUME NEW f, NEW i
  PROVE  Cardinality(HeldSet(f, i)) \in Nat
<1>1. IsFiniteSet(1 .. 2)
  BY TwoFinite
<1>2. IsFiniteSet(Writers \X (1 .. 2))
  BY <1>1, WritersAssumption, FS_Product
<1>3. HeldSet(f, i) \in SUBSET (Writers \X (1 .. 2))
  BY DEF HeldSet
<1>4. IsFiniteSet(HeldSet(f, i))
  BY <1>2, <1>3, FS_Subset
<1> QED
  BY <1>4, FS_CardinalityType

-----------------------------------------------------------------------------
(* The inductive invariant of the references *)

\* A line holds what it has looked up of what it names, and all of it while it
\* is at work.
HeldOK(x) ==
  /\ x.pc \in {"idle", "enable"} => x.held = <<>>
  /\ x.pc = "call" => /\ Len(x.held) <= Len(Named(Head(x.todo)))
                      /\ \A k \in 1 .. Len(x.held) : x.held[k] = Named(Head(x.todo))[k]
  /\ x.pc \in {"wait", "change", "store"} => x.held = Named(Head(x.todo))

HeldInv == \A w \in Writers : HeldOK(writer[w])

\* Lines of a device that never met work one at a time,
OneAtWork ==
  \A dev \in {"ipgrp", "auth"} \ clashed : \A v, w \in Writers : AtWork(v, dev) /\ AtWork(w, dev) => v = w

\* so that the entry one found is still there.
Table(dev) == IF dev = "ipgrp" THEN ipgrps ELSE auths

AtInv ==
  \A dev \in {"ipgrp", "auth"} \ clashed : \A w \in Writers :
    AtWork(w, dev) =>
      /\ Line(w).op = "delete" => writer[w].at \in 1 .. Len(Table(dev))
      /\ Line(w).op = "set" /\ writer[w].pc = "store" => writer[w].at = Len(Table(dev))

RefsOK == refs \in [Ipsets -> Int]

\* The counts of RefsExact, as columns.
Given(dev) == {k \in Nat : GivenUp(dev, k)}
GroupRefs(i) == Kept(SetsOf(ipgrps), Given("ipgrp"), i)
RuleRefs(i) == Kept(IpsOf(auths), Given("auth"), i) + Kept(MacsOf(auths), Given("auth"), i)
                 + (IF bypass = i /\ ~BypassGivenUp THEN 1 ELSE 0)
HeldRefs(i) == Cardinality(HeldSet(writer, i))
Balanced(i) == refs[i] = GroupRefs(i) + RuleRefs(i) + HeldRefs(i)

BalanceInv == clashed \cap {"ipgrp", "auth"} = {} => \A i \in Ipsets : Balanced(i)

RefsNat(i) == GroupRefs(i) \in Nat /\ RuleRefs(i) \in Nat /\ HeldRefs(i) \in Nat

LEMMA RefsTypes ==
  ASSUME TablesOK, NEW i
  PROVE  RefsNat(i) /\ Kept(IpsOf(auths), Given("auth"), i) \in Nat /\ Kept(MacsOf(auths), Given("auth"), i) \in Nat
<1>1. /\ DOMAIN SetsOf(ipgrps) = 1 .. Len(ipgrps) /\ Len(ipgrps) \in Nat
      /\ DOMAIN IpsOf(auths) = 1 .. Len(auths) /\ DOMAIN MacsOf(auths) = 1 .. Len(auths) /\ Len(auths) \in Nat
  BY DEF TablesOK, SetsOf, IpsOf, MacsOf
<1>2. /\ Kept(SetsOf(ipgrps), Given("ipgrp"), i) \in Nat
      /\ Kept(IpsOf(auths), Given("auth"), i) \in Nat
      /\ Kept(MacsOf(auths), Given("auth"), i) \in Nat
  BY <1>1, KeptCount
<1>3. HeldRefs(i) \in Nat
  BY HeldNat DEF HeldRefs
<1> QED
  BY <1>2, <1>3 DEF RefsNat, GroupRefs, RuleRefs

LEMMA BalanceExact ==
  ASSUME TablesOK, BalanceInv
  PROVE  RefsExact
<1> SUFFICES ASSUME clashed \cap {"ipgrp", "auth"} = {}, NEW i \in Ipsets
             PROVE  refs[i] = Cardinality({k \in DOMAIN ipgrps : ipgrps[k].set = i /\ ~GivenUp("ipgrp", k)})
                              + Cardinality({k \in DOMAIN auths : auths[k].ip = i /\ ~GivenUp("auth", k)})
                              + Cardinality({k \in DOMAIN auths : auths[k].mac = i /\ ~GivenUp("auth", k)})
                              + (IF bypass = i /\ ~BypassGivenUp THEN 1 ELSE 0)
                              + Cardinality({h \in Writers \X (1 .. 2) :
                                               /\ h[2] \in DOMAIN writer[h[1]].held
                                               /\ writer[h[1]].held[h[2]] = i})
  BY DEF RefsExact
<1>1. DOMAIN ipgrps \subseteq Nat /\ DOMAIN auths \subseteq Nat
  BY DEF TablesOK
<1>2. {k \in DOMAIN ipgrps : ipgrps[k].set = i /\ ~GivenUp("ipgrp", k)}
        = {k \in DOMAIN SetsOf(ipgrps) : SetsOf(ipgrps)[k] = i /\ k \notin Given("ipgrp")}
  BY <1>1 DEF SetsOf, Given
<1>3. {k \in DOMAIN auths : auths[k].ip = i /\ ~GivenUp("auth", k)}
        = {k \in DOMAIN IpsOf(auths) : IpsOf(auths)[k] = i /\ k \notin Given("auth")}
  BY <1>1 DEF IpsOf, Given
<1>4. {k \in DOMAIN auths : auths[k].mac = i /\ ~GivenUp("auth", k)}
        = {k \in DOMAIN MacsOf(auths) : MacsOf(auths)[k] = i /\ k \notin Given("auth")}
  BY <1>1 DEF MacsOf, Given
<1>5. PICK a, b, c, d : /\ a = Kept(SetsOf(ipgrps), Given("ipgrp"), i) /\ b = Kept(IpsOf(auths), Given("auth"), i)
                        /\ c = Kept(MacsOf(auths), Given("auth"), i) /\ d = HeldRefs(i)
  OBVIOUS
<1>6. a \in Nat /\ b \in Nat /\ c \in Nat /\ d \in Nat
  BY <1>5, RefsTypes DEF RefsNat, GroupRefs
<1>7. refs[i] = a + (b + c + (IF bypass = i /\ ~BypassGivenUp THEN 1 ELSE 0)) + d
  BY <1>5 DEF BalanceInv, Balanced, GroupRefs, RuleRefs
<1>8. /\ a = Cardinality({k \in DOMAIN ipgrps : ipgrps[k].set = i /\ ~GivenUp("ipgrp", k)})
      /\ b = Cardinality({k \in DOMAIN auths : auths[k].ip = i /\ ~GivenUp("auth", k)})
      /\ c = Cardinality({k \in DOMAIN auths : auths[k].mac = i /\ ~GivenUp("auth", k)})
  BY <1>2, <1>3, <1>4, <1>5 DEF Kept
<1>9. d = Cardinality({h \in Writers \X (1 .. 2) : /\ h[2] \in DOMAIN writer[h[1]].held
                                                   /\ writer[h[1]].held[h[2]] = i})
  BY <1>5 DEF HeldRefs, HeldSet
<1>10. refs[i] = a + b + c + (IF bypass = i /\ ~BypassGivenUp THEN 1 ELSE 0) + d
  BY <1>6, <1>7
<1> QED
  BY <1>8, <1>9, <1>10

LEMMA HeldShort ==
  ASSUME WriterOK, HeldInv, NEW w \in Writers
  PROVE  Short(writer[w].held)
<1>1. PICK x \in WriterRecords : x = writer[w] /\ HeldOK(x)
  BY WriterParts DEF HeldInv
<1>2. x.held \in Seq(Ipsets \cup {NoSet}) /\ x.pc \in {"idle", "call", "wait", "change", "store", "enable"}
  BY DEF WriterRecords
<1>3. Len(x.held) \in Nat
  BY <1>2
<1>4. Len(Named(Head(x.todo))) \in Nat /\ Len(Named(Head(x.todo))) <= 2
  BY NamedShort
<1>5. x.held = <<>> \/ Len(x.held) <= Len(Named(Head(x.todo)))
  <2>1. CASE x.pc \in {"wait", "change", "store"}
    <3>1. x.held = Named(Head(x.todo))
      BY <1>1, <2>1 DEF HeldOK
    <3> QED
      BY <1>3, <3>1
  <2> QED
    BY <1>1, <1>2, <2>1 DEF HeldOK
<1>6. Len(x.held) <= 2
  BY <1>3, <1>4, <1>5
<1> QED
  BY <1>1, <1>2, <1>6 DEF Short

LEMMA HeldWrites ==
  ASSUME WriterOK, HeldInv, NEW w \in Writers, NEW x, Writes(w, x), HeldOK(x)
  PROVE  HeldInv' /\ writer'[w] = x /\ \A v \in Writers : v # w => writer'[v] = writer[v]
<1>1. writer'[w] = x /\ \A v \in Writers : v # w => writer'[v] = writer[v]
  BY DEF Writes, WriterOK
<1> QED
  BY <1>1 DEF HeldInv

LEMMA HeldKept ==
  ASSUME HeldInv, NEW w \in Writers, writer'[w].pc = writer[w].pc, writer'[w].todo = writer[w].todo,
         writer'[w].held = writer[w].held
  PROVE  HeldOK(writer'[w])
BY DEF HeldInv, HeldOK

\* A line that is done with holds nothing.
LEMMA NextHeld ==
  ASSUME WriterOK, NEW w \in Writers, writer[w].pc # "idle"
  PROVE  HeldOK(Next1(w))
<1>1. Next1(w).pc \in {"idle", "call"} /\ Next1(w).held = <<>>
  BY NextLine
<1>2. PICK n \in Nat : n = Len(Named(Head(Next1(w).todo)))
  BY NamedShort
<1>3. Len(<<>>) = 0 /\ 1 .. 0 = {}
  OBVIOUS
<1>4. Len(Next1(w).held) <= n /\ \A k \in 1 .. Len(Next1(w).held) : FALSE
  BY <1>1, <1>2, <1>3
<1> QED
  BY <1>1, <1>2, <1>4 DEF HeldOK

\* All that a line names is held when it begins its work.
LEMMA AllNamed ==
  ASSUME WriterOK, HeldInv, NEW w \in Writers, writer[w].pc = "call", AllHeld(w)
  PROVE  writer[w].held = Named(Line(w))
<1>1. PICK x \in WriterRecords : x = writer[w] /\ HeldOK(x)
  BY WriterParts DEF HeldInv
<1>2. PICK h \in Seq(Ipsets \cup {NoSet}), n \in Nat : h = x.held /\ n = Len(h) /\ DOMAIN h = 1 .. n
  BY DEF WriterRecords
<1>3. PICK m : m = Named(Head(x.todo)) /\ Len(m) = n /\ DOMAIN m = 1 .. Len(m) /\ \A k \in 1 .. n : h[k] = m[k]
  BY <1>1, <1>2, NamedShort DEF HeldOK, AllHeld, Line
<1>4. Line(w) = Head(x.todo)
  BY <1>1 DEF Line
<1>5. m = <<>> \/ (\E a : m = <<a>>) \/ (\E a, b : m = <<a, b>>)
  BY <1>3, NamedCases
<1>6. h = m
  <2>1. CASE m = <<>>
    <3>1. n = 0
      BY <1>3, <2>1
    <3>2. h = <<>>
      <4> DEFINE S == Ipsets \cup {NoSet}
      <4>1. h \in Seq(S) /\ Len(h) = 0
        BY <1>2, <3>1
      <4> HIDE DEF S
      <4> QED
        BY <4>1
    <3> QED
      BY <2>1, <3>2
  <2>2. ASSUME NEW a, m = <<a>> PROVE h = m
    <3>1. n = 1 /\ m[1] = a
      BY <1>3, <2>2
    <3>2. h = <<h[1]>>
      BY <1>2, <3>1
    <3>3. h[1] = a
      BY <1>3, <3>1
    <3> QED
      BY <2>2, <3>2, <3>3
  <2>3. ASSUME NEW a, NEW b, m = <<a, b>> PROVE h = m
    <3>1. n = 2 /\ m[1] = a /\ m[2] = b
      BY <1>3, <2>3
    <3>2. h = <<h[1], h[2]>>
      BY <1>2, <3>1
    <3>3. h[1] = a /\ h[2] = b
      BY <1>3, <3>1
    <3> QED
      BY <2>3, <3>2, <3>3
  <2> QED
    BY <1>5, <2>1, <2>2, <2>3
<1> QED
  BY <1>1, <1>2, <1>3, <1>4, <1>6

LEMMA GetHeld ==
  ASSUME WriterOK, HeldInv, NEW w \in Writers, ip_set_get_byname(w), NEW x, Writes(w, x), x.pc = "call",
         x.todo = writer[w].todo, x.held = Append(writer[w].held, NextName(w))
  PROVE  HeldOK(x)
<1>1. writer[w].pc = "call" /\ ~AllHeld(w)
  BY DEF ip_set_get_byname
<1>2. PICK r \in WriterRecords : r = writer[w] /\ HeldOK(r)
  BY WriterParts DEF HeldInv
<1>3. PICK m : m = Named(Head(r.todo)) /\ Len(m) \in Nat
  BY NamedShort
<1>4. PICK h \in Seq(Ipsets \cup {NoSet}), n \in Nat :
        h = r.held /\ n = Len(h) /\ n <= Len(m) /\ n # Len(m) /\ \A k \in 1 .. n : h[k] = m[k]
  BY <1>1, <1>2, <1>3 DEF WriterRecords, HeldOK, AllHeld, Line
<1>5. x.held = Append(h, m[n + 1]) /\ m[n + 1] \in Ipsets \cup {NoSet}
  BY <1>2, <1>3, <1>4 DEF NextName, Line, ip_set_get_byname
<1>6. Len(x.held) = n + 1 /\ x.held[n + 1] = m[n + 1] /\ \A k \in 1 .. n : x.held[k] = h[k]
  <2> DEFINE S == Ipsets \cup {NoSet}
  <2>1. PICK e \in S : e = m[n + 1]
    BY <1>5
  <2> HIDE DEF S
  <2>2. h \in Seq(S)
    BY DEF S
  <2>3. Len(Append(h, e)) = n + 1 /\ Append(h, e)[n + 1] = e /\ \A k \in 1 .. n : Append(h, e)[k] = h[k]
    BY <1>4, <2>2
  <2> QED
    BY <1>5, <2>1, <2>3
<1>7. \A k \in 1 .. (n + 1) : x.held[k] = m[k]
  BY <1>4, <1>6
<1>8. n + 1 <= Len(m)
  BY <1>3, <1>4
<1> QED
  BY <1>2, <1>3, <1>6, <1>7, <1>8 DEF HeldOK

-----------------------------------------------------------------------------
(* The lines at work *)

\* No line begins its work or finds its place, and the tables of those at work
\* are left alone.
WorkSame ==
  \A w \in Writers, dev \in {"ipgrp", "auth"} :
    AtWork(w, dev)' => /\ AtWork(w, dev)
                       /\ writer'[w].todo = writer[w].todo /\ writer'[w].at = writer[w].at
                       /\ writer'[w].pc = "store" => writer[w].pc = "store"
                       /\ dev \notin clashed' => Table(dev)' = Table(dev)

LEMMA WorkKept ==
  ASSUME OneAtWork, AtInv, WorkSame, clashed \subseteq clashed'
  PROVE  OneAtWork' /\ AtInv'
<1>1. OneAtWork'
  BY DEF OneAtWork, WorkSame
<1>2. AtInv'
  <2> SUFFICES ASSUME NEW dev \in {"ipgrp", "auth"} \ clashed', NEW w \in Writers, AtWork(w, dev)'
               PROVE  /\ Line(w)'.op = "delete" => writer'[w].at \in 1 .. Len(Table(dev)')
                      /\ Line(w)'.op = "set" /\ writer'[w].pc = "store" => writer'[w].at = Len(Table(dev)')
    BY DEF AtInv
  <2>1. /\ AtWork(w, dev) /\ Line(w)' = Line(w) /\ writer'[w].at = writer[w].at
        /\ writer'[w].pc = "store" => writer[w].pc = "store"
        /\ Table(dev)' = Table(dev)
    BY DEF WorkSame, Line
  <2> QED
    BY <2>1 DEF AtInv
<1> QED
  BY <1>1, <1>2

LEMMA DisableWork ==
  ASSUME WriterOK, TablesOK, OneAtWork, AtInv, NEW w \in Writers, DisableHooks(w)
  PROVE  OneAtWork' /\ AtInv'
<1> DEFINE d == Line(w).dev
<1>1. /\ UNCHANGED <<ipgrps, auths>> /\ writer[w].pc = "call" /\ ~Refuses(Line(w))
      /\ clashed' = clashed \cup {dev \in {d} : \E v \in Writers : AtWork(v, dev)}
  BY DEF DisableHooks
<1>2. PICK x : Writes(w, x) /\ x.pc = "wait" /\ x.todo = writer[w].todo /\ x.at = FoundAt(Line(w))
  BY DisableWrites
<1>3. writer'[w] = x /\ \A v \in Writers : v # w => writer'[v] = writer[v]
  BY <1>2 DEF Writes, WriterOK
<1>4. /\ \A dev : AtWork(w, dev)' <=> dev = d
      /\ \A dev : ~AtWork(w, dev)
      /\ \A v \in Writers : \A dev : v # w => (AtWork(v, dev)' <=> AtWork(v, dev))
  BY <1>1, <1>2, <1>3 DEF AtWork, Line
<1> HIDE DEF d
<1>5. \A v \in Writers : d \notin clashed' => ~AtWork(v, d)
  BY <1>1
<1>6. OneAtWork'
  <2> SUFFICES ASSUME NEW dev \in {"ipgrp", "auth"} \ clashed', NEW v \in Writers, NEW y \in Writers,
                      AtWork(v, dev)', AtWork(y, dev)'
               PROVE  v = y
    BY DEF OneAtWork
  <2>1. dev \notin clashed
    BY <1>1
  <2>2. CASE v # w /\ y # w
    BY <1>4, <2>1, <2>2 DEF OneAtWork
  <2>3. ASSUME NEW z \in Writers, z # w, AtWork(z, dev)', dev = d PROVE FALSE
    BY <1>4, <1>5, <2>3
  <2> QED
    BY <1>4, <2>2, <2>3
<1>7. AtInv'
  <2> SUFFICES ASSUME NEW dev \in {"ipgrp", "auth"} \ clashed', NEW v \in Writers, AtWork(v, dev)'
               PROVE  /\ Line(v)'.op = "delete" => writer'[v].at \in 1 .. Len(Table(dev)')
                      /\ Line(v)'.op = "set" /\ writer'[v].pc = "store" => writer'[v].at = Len(Table(dev)')
    BY DEF AtInv
  <2>1. Table(dev)' = Table(dev) /\ dev \notin clashed
    BY <1>1 DEF Table
  <2>2. CASE v # w
    <3>1. AtWork(v, dev) /\ Line(v)' = Line(v) /\ writer'[v] = writer[v]
      BY <1>3, <1>4, <2>2 DEF Line
    <3> QED
      BY <2>1, <3>1 DEF AtInv
  <2>3. CASE v = w
    <3>1. dev = d /\ Line(w)' = Line(w) /\ writer'[w].pc = "wait" /\ writer'[w].at = FoundAt(Line(w))
      BY <1>2, <1>3, <1>4, <2>3 DEF Line
    <3>2. PICK l : l = Line(w)
      OBVIOUS
    <3>3. ASSUME l.op = "delete" PROVE FoundAt(l) \in 1 .. Len(Table(dev))
      <4>1. l.dev = dev /\ ~Refuses(l)
        BY <1>1, <3>1, <3>2 DEF d
      <4>2. CASE dev = "ipgrp"
        <5>1. Position(ipgrps, l.id) # 0
          BY <3>3, <4>1, <4>2 DEF Refuses, nos_ipgrp_refuses
        <5>2. ipgrps \in Seq(GroupEntries)
          BY DEF TablesOK
        <5>3. Position(ipgrps, l.id) \in DOMAIN ipgrps
          BY <5>1, <5>2, PositionFound
        <5>4. FoundAt(l) = Position(ipgrps, l.id)
          BY <3>3, <4>1, <4>2 DEF FoundAt
        <5> QED
          BY <4>2, <5>2, <5>3, <5>4 DEF Table
      <4>3. CASE dev = "auth"
        <5>1. Position(auths, l.id) # 0
          BY <3>3, <4>1, <4>3 DEF Refuses, nos_auth_refuses
        <5>2. auths \in Seq(RuleEntries)
          BY DEF TablesOK
        <5>3. Position(auths, l.id) \in DOMAIN auths
          BY <5>1, <5>2, PositionFound
        <5>4. FoundAt(l) = Position(auths, l.id)
          BY <3>3, <4>1, <4>3 DEF FoundAt
        <5> QED
          BY <4>3, <5>2, <5>3, <5>4 DEF Table
      <4> QED
        BY <4>2, <4>3
    <3> QED
      BY <2>1, <2>3, <3>1, <3>2, <3>3
  <2> QED
    BY <2>2, <2>3
<1> QED
  BY <1>6, <1>7

LEMMA ChangeWork ==
  ASSUME WriterOK, TablesOK, OneAtWork, AtInv, NEW w \in Writers, Change(w)
  PROVE  OneAtWork' /\ AtInv'
<1>1. UNCHANGED <<ipgrps, auths, clashed>> /\ writer[w].pc = "change"
  BY DEF Change
<1>2. PICK x : Writes(w, x) /\ x.pc = "store" /\ x.todo = writer[w].todo /\ x.at = Slot(Line(w), writer[w].at)
  BY ChangeWrites
<1>3. writer'[w] = x /\ \A v \in Writers : v # w => writer'[v] = writer[v]
  BY <1>2 DEF Writes, WriterOK
<1>4. \A v \in Writers : \A dev : AtWork(v, dev)' <=> AtWork(v, dev)
  BY <1>1, <1>2, <1>3 DEF AtWork, Line
<1>5. \A dev : Table(dev)' = Table(dev)
  BY <1>1 DEF Table
<1>6. OneAtWork'
  BY <1>1, <1>4 DEF OneAtWork
<1>7. AtInv'
  <2> SUFFICES ASSUME NEW dev \in {"ipgrp", "auth"} \ clashed', NEW v \in Writers, AtWork(v, dev)'
               PROVE  /\ Line(v)'.op = "delete" => writer'[v].at \in 1 .. Len(Table(dev)')
                      /\ Line(v)'.op = "set" /\ writer'[v].pc = "store" => writer'[v].at = Len(Table(dev)')
    BY DEF AtInv
  <2>1. AtWork(v, dev) /\ Line(v)' = Line(v) /\ dev \notin clashed
    BY <1>1, <1>2, <1>3, <1>4 DEF Line
  <2>2. CASE v # w
    BY <1>3, <1>5, <2>1, <2>2 DEF AtInv
  <2>3. CASE v = w
    <3>1. /\ Line(w).op = "delete" => writer[w].at \in 1 .. Len(Table(dev))
          /\ Line(w).dev = dev
      BY <2>1, <2>3 DEF AtInv, AtWork
    <3>2. writer'[w].at = Slot(Line(w), writer[w].at)
      BY <1>2, <1>3
    <3>3. Line(w).op = "delete" => Slot(Line(w), writer[w].at) = writer[w].at
      BY DEF Slot
    <3>4. Line(w).op = "set" => Slot(Line(w), writer[w].at) = Len(Table(dev))
      BY <3>1 DEF Slot, Table
    <3> QED
      BY <1>5, <2>1, <2>3, <3>1, <3>2, <3>3, <3>4
  <2> QED
    BY <2>2, <2>3
<1> QED
  BY <1>6, <1>7

\* A line that has stored ends its work, and nobody else was at work on its table.
LEMMA ApplyWork ==
  ASSUME WriterOK, OneAtWork, AtInv, NEW w \in Writers, Apply(w)
  PROVE  OneAtWork' /\ AtInv'
<1>1. PICK d, op : /\ Store(w, d, op)
                   /\ d # "ipgrp" => UNCHANGED ipgrps
                   /\ d # "auth" => UNCHANGED auths
  BY ApplyStores
<1>2. writer[w].pc = "store" /\ Line(w).dev = d /\ clashed' = clashed
  BY <1>1 DEF Store
<1>3. PICK x : Writes(w, x) /\ x.pc = "enable"
  BY <1>1, StoreWrites
<1>4. writer'[w] = x /\ \A v \in Writers : v # w => writer'[v] = writer[v]
  BY <1>3 DEF Writes, WriterOK
<1>5. WorkSame
  <2> SUFFICES ASSUME NEW v \in Writers, NEW dev \in {"ipgrp", "auth"}, AtWork(v, dev)'
               PROVE  /\ AtWork(v, dev)
                      /\ writer'[v].todo = writer[v].todo /\ writer'[v].at = writer[v].at
                      /\ writer'[v].pc = "store" => writer[v].pc = "store"
                      /\ dev \notin clashed' => Table(dev)' = Table(dev)
    BY DEF WorkSame
  <2>1. v # w
    BY <1>3, <1>4 DEF AtWork
  <2>2. AtWork(v, dev) /\ writer'[v] = writer[v]
    BY <1>4, <2>1 DEF AtWork, Line
  <2>3. ASSUME dev \notin clashed' PROVE dev # d
    BY <1>2, <2>1, <2>2, <2>3 DEF OneAtWork, AtWork
  <2>4. dev \notin clashed' => Table(dev)' = Table(dev)
    BY <1>1, <2>3 DEF Table
  <2> QED
    BY <2>2, <2>4
<1> QED
  BY <1>2, <1>5, WorkKept

-----------------------------------------------------------------------------
(* The balance *)

LEMMA RefsMoved ==
  ASSUME RefsOK, NEW names, \E n \in Nat : DOMAIN names = 1 .. n
  PROVE  /\ ip_set_get(names) \in [Ipsets -> Int]
         /\ ip_set_put(names) \in [Ipsets -> Int]
         /\ \A i \in Ipsets : /\ Count(names, i) \in Nat
                              /\ ip_set_get(names)[i] = refs[i] + Count(names, i)
                              /\ ip_set_put(names)[i] = refs[i] - Count(names, i)
<1>1. \A i : Count(names, i) \in Nat
  BY CountNat
<1> QED
  BY <1>1 DEF ip_set_get, ip_set_put, RefsOK

\* The same lines are storing at the same places.
SameStores ==
  \A w \in Writers : /\ writer'[w].pc = "store" <=> writer[w].pc = "store"
                     /\ writer'[w].pc = "store" => writer'[w].todo = writer[w].todo /\ writer'[w].at = writer[w].at

LEMMA StoresKeep ==
  ASSUME SameStores, UNCHANGED <<ipgrps, auths, bypass>>, NEW i
  PROVE  GroupRefs(i)' = GroupRefs(i) /\ RuleRefs(i)' = RuleRefs(i)
<1>1. ASSUME NEW dev, NEW k PROVE GivenUp(dev, k)' <=> GivenUp(dev, k)
  BY DEF SameStores, GivenUp, Line
<1>2. Given("ipgrp")' = Given("ipgrp") /\ Given("auth")' = Given("auth")
  BY <1>1 DEF Given
<1>3. BypassGivenUp' <=> BypassGivenUp
  BY DEF SameStores, BypassGivenUp, Line
<1> QED
  BY <1>2, <1>3 DEF GroupRefs, RuleRefs, SetsOf, IpsOf, MacsOf

\* A step that only looks up or puts what a line holds.
LEMMA BalanceMoved ==
  ASSUME WriterOK, TablesOK, HeldInv, RefsOK, BalanceInv, SameStores, UNCHANGED <<ipgrps, auths, bypass, clashed>>,
         NEW w \in Writers, \A v \in Writers : v # w => writer'[v].held = writer[v].held, Short(writer'[w].held),
         \A i \in Ipsets : refs'[i] = refs[i] - Count(writer[w].held, i) + Count(writer'[w].held, i)
  PROVE  BalanceInv'
<1> SUFFICES ASSUME clashed \cap {"ipgrp", "auth"} = {}, NEW i \in Ipsets PROVE Balanced(i)'
  BY DEF BalanceInv
<1>1. PICK a, b, h, o, n : /\ a = GroupRefs(i) /\ b = RuleRefs(i) /\ h = HeldRefs(i)
                           /\ o = Count(writer[w].held, i) /\ n = Count(writer'[w].held, i)
  OBVIOUS
<1>2. a \in Nat /\ b \in Nat /\ h \in Nat
  BY <1>1, RefsTypes DEF RefsNat
<1>3. o \in Nat /\ n \in Nat
  BY <1>1, HeldShort, HeldSplit
<1>4. HeldRefs(i)' = h - o + n
  <2>1. Short(writer[w].held)
    BY HeldShort
  <2>2. Cardinality(HeldSet(writer', i)) = Cardinality(HeldSet(writer, i)) - Count(writer[w].held, i) + Count(writer'[w].held, i)
    BY <2>1, HeldMoves
  <2> QED
    BY <1>1, <2>2 DEF HeldRefs
<1>5. GroupRefs(i)' = a /\ RuleRefs(i)' = b
  BY <1>1, StoresKeep
<1>6. refs[i] = a + b + h /\ refs'[i] = refs[i] - o + n
  BY <1>1 DEF BalanceInv, Balanced
<1> QED
  BY <1>2, <1>3, <1>4, <1>5, <1>6 DEF Balanced

\* A step that leaves all of it alone.
LEMMA BalanceStill ==
  ASSUME BalanceInv, SameStores, UNCHANGED <<ipgrps, auths, bypass, refs>>, clashed \subseteq clashed',
         \A v \in Writers : writer'[v].held = writer[v].held
  PROVE  BalanceInv'
<1> SUFFICES ASSUME clashed' \cap {"ipgrp", "auth"} = {}, NEW i \in Ipsets PROVE Balanced(i)'
  BY DEF BalanceInv
<1>1. GroupRefs(i)' = GroupRefs(i) /\ RuleRefs(i)' = RuleRefs(i)
  BY StoresKeep
<1>2. HeldRefs(i)' = HeldRefs(i)
  BY HeldSame DEF HeldRefs
<1>3. Balanced(i)
  BY DEF BalanceInv
<1> QED
  BY <1>1, <1>2, <1>3 DEF Balanced

\* What the one line that stores in a table has given up.
LEMMA GivenBy ==
  ASSUME NEW dev \in {"ipgrp", "auth"} \ clashed, OneAtWork, NEW w \in Writers, AtWork(w, dev), writer[w].pc = "store",
         writer[w].at \in Nat
  PROVE  /\ Line(w).op = "clean" => Given(dev) = Nat
         /\ Line(w).op = "delete" => Given(dev) = {writer[w].at}
         /\ Line(w).op \notin {"clean", "delete"} => Given(dev) = {}
         /\ dev = "auth" => (BypassGivenUp <=> Line(w).op \in {"clean", "bypass"})
<1>1. Line(w).dev = dev
  BY DEF AtWork
<1>2. \A v \in Writers : writer[v].pc = "store" /\ Line(v).dev = dev => v = w
  BY DEF OneAtWork, AtWork
<1>3. \A k : GivenUp(dev, k) <=> Line(w).op = "clean" \/ (Line(w).op = "delete" /\ writer[w].at = k)
  BY <1>1, <1>2 DEF GivenUp
<1>4. dev = "auth" => (BypassGivenUp <=> Line(w).op \in {"clean", "bypass"})
  BY <1>1, <1>2 DEF BypassGivenUp
<1> QED
  BY <1>3, <1>4 DEF Given

\* Nobody stores in it.
LEMMA NoneGiven ==
  ASSUME NEW dev, \A v \in Writers : ~(writer[v].pc = "store" /\ Line(v).dev = dev)
  PROVE  Given(dev) = {} /\ (dev = "auth" => ~BypassGivenUp)
BY DEF Given, GivenUp, BypassGivenUp

\* A line of one device leaves what those of the others have given up.
LEMMA OtherGiven ==
  ASSUME NEW w \in Writers, NEW dev, Line(w).dev # dev, Line(w)'.dev # dev,
         \A v \in Writers : v # w => writer'[v] = writer[v]
  PROVE  Given(dev)' = Given(dev) /\ (dev = "auth" => (BypassGivenUp' <=> BypassGivenUp))
<1>1. \A v \in Writers : v # w => Line(v)' = Line(v)
  BY DEF Line
<1>2. \A k : GivenUp(dev, k)' <=> GivenUp(dev, k)
  BY <1>1 DEF GivenUp
<1>3. dev = "auth" => (BypassGivenUp' <=> BypassGivenUp)
  BY <1>1 DEF BypassGivenUp
<1> QED
  BY <1>2, <1>3 DEF Given

\* The same after the step.
LEMMA GivenAfter ==
  ASSUME NEW w \in Writers, NEW dev, writer'[w].pc = "store", Line(w)'.dev = dev, writer'[w].at \in Nat,
         \A v \in Writers : v # w => ~(writer'[v].pc = "store" /\ Line(v)'.dev = dev)
  PROVE  /\ Line(w)'.op = "clean" => Given(dev)' = Nat
         /\ Line(w)'.op = "delete" => Given(dev)' = {writer'[w].at}
         /\ Line(w)'.op \notin {"clean", "delete"} => Given(dev)' = {}
         /\ dev = "auth" => (BypassGivenUp' <=> Line(w)'.op \in {"clean", "bypass"})
<1>1. \A k : GivenUp(dev, k)' <=> Line(w)'.op = "clean" \/ (Line(w)'.op = "delete" /\ writer'[w].at = k)
  BY DEF GivenUp
<1>2. dev = "auth" => (BypassGivenUp' <=> Line(w)'.op \in {"clean", "bypass"})
  BY DEF BypassGivenUp
<1> QED
  BY <1>1, <1>2 DEF Given

LEMMA NoneAfter ==
  ASSUME NEW dev, \A v \in Writers : ~(writer'[v].pc = "store" /\ Line(v)'.dev = dev)
  PROVE  Given(dev)' = {} /\ (dev = "auth" => ~BypassGivenUp')
BY DEF Given, GivenUp, BypassGivenUp

\* The columns, with nothing, everything or one entry given up.
LEMMA GroupKept ==
  ASSUME NEW B, NEW g \in Seq(B), NEW i
  PROVE  /\ Kept(SetsOf(g), {}, i) = Count(SetsOf(g), i)
         /\ Kept(SetsOf(g), Nat, i) = 0
         /\ \A at \in 1 .. Len(g) : Kept(SetsOf(g), {at}, i) = Count(SetsOf(g), i) - (IF g[at].set = i THEN 1 ELSE 0)
         /\ Count(SetsOf(g), i) \in Nat
<1>1. DOMAIN SetsOf(g) = 1 .. Len(g) /\ Len(g) \in Nat /\ \A at \in 1 .. Len(g) : SetsOf(g)[at] = g[at].set
  BY DEF SetsOf
<1> QED
  BY <1>1, KeptCount, CountNat

LEMMA RuleKept ==
  ASSUME NEW B, NEW a \in Seq(B), NEW i
  PROVE  /\ Kept(IpsOf(a), {}, i) = Count(IpsOf(a), i) /\ Kept(MacsOf(a), {}, i) = Count(MacsOf(a), i)
         /\ Kept(IpsOf(a), Nat, i) = 0 /\ Kept(MacsOf(a), Nat, i) = 0
         /\ \A at \in 1 .. Len(a) :
              /\ Kept(IpsOf(a), {at}, i) = Count(IpsOf(a), i) - (IF a[at].ip = i THEN 1 ELSE 0)
              /\ Kept(MacsOf(a), {at}, i) = Count(MacsOf(a), i) - (IF a[at].mac = i THEN 1 ELSE 0)
         /\ Count(IpsOf(a), i) \in Nat /\ Count(MacsOf(a), i) \in Nat
<1>1. /\ DOMAIN IpsOf(a) = 1 .. Len(a) /\ DOMAIN MacsOf(a) = 1 .. Len(a) /\ Len(a) \in Nat
      /\ \A at \in 1 .. Len(a) : IpsOf(a)[at] = a[at].ip /\ MacsOf(a)[at] = a[at].mac
  BY DEF IpsOf, MacsOf
<1>2. /\ Kept(IpsOf(a), {}, i) = Count(IpsOf(a), i)
      /\ Kept(IpsOf(a), Nat, i) = 0
      /\ \A at \in 1 .. Len(a) : Kept(IpsOf(a), {at}, i) = Count(IpsOf(a), i) - (IF a[at].ip = i THEN 1 ELSE 0)
      /\ Count(IpsOf(a), i) \in Nat
  BY <1>1, KeptCount, CountNat
<1>3. /\ Kept(MacsOf(a), {}, i) = Count(MacsOf(a), i)
      /\ Kept(MacsOf(a), Nat, i) = 0
      /\ \A at \in 1 .. Len(a) : Kept(MacsOf(a), {at}, i) = Count(MacsOf(a), i) - (IF a[at].mac = i THEN 1 ELSE 0)
      /\ Count(MacsOf(a), i) \in Nat
  BY <1>1, KeptCount, CountNat
<1> QED
  BY <1>2, <1>3

\* What a line puts before it stores, ipset by ipset.
LEMMA GroupPuts ==
  ASSUME TablesOK, NEW l \in Lines, l.dev = "ipgrp", NEW at, l.op = "delete" => at \in 1 .. Len(ipgrps), NEW i
  PROVE  /\ \E n \in Nat : DOMAIN Puts(l, at) = 1 .. n
         /\ l.op = "clean" => Count(Puts(l, at), i) = Count(SetsOf(ipgrps), i)
         /\ l.op = "delete" => Count(Puts(l, at), i) = IF ipgrps[at].set = i THEN 1 ELSE 0
         /\ l.op \notin {"clean", "delete"} => Count(Puts(l, at), i) = 0
<1>1. l.op # "bypass"
  BY LineKnown
<1>2. CASE l.op = "clean"
  BY <1>2, CleanCount DEF Puts
<1>3. CASE l.op = "delete"
  <2>1. at \in DOMAIN ipgrps
    BY <1>3 DEF TablesOK
  <2>2. Puts(l, at) = <<ipgrps[at].set>>
    BY <1>3, <2>1 DEF Puts
  <2>3. DOMAIN <<ipgrps[at].set>> = 1 .. 1 /\ 1 \in Nat
    OBVIOUS
  <2> QED
    BY <1>3, <2>2, <2>3, CountOne
<1>4. CASE l.op \notin {"clean", "delete"}
  <2>1. Puts(l, at) = <<>>
    BY <1>1, <1>4 DEF Puts
  <2>2. DOMAIN <<>> = 1 .. 0 /\ DOMAIN <<>> = {} /\ 0 \in Nat
    OBVIOUS
  <2> QED
    BY <1>4, <2>1, <2>2, CountEmpty
<1> QED
  BY <1>2, <1>3, <1>4

LEMMA RulePuts ==
  ASSUME TablesOK, NEW l \in Lines, l.dev = "auth", NEW at, l.op = "delete" => at \in 1 .. Len(auths), NEW i
  PROVE  /\ \E n \in Nat : DOMAIN Puts(l, at) = 1 .. n
         /\ l.op = "clean" => Count(Puts(l, at), i)
                                = Count(IpsOf(auths), i) + Count(MacsOf(auths), i) + (IF bypass = i THEN 1 ELSE 0)
         /\ l.op = "bypass" => Count(Puts(l, at), i) = IF bypass = i THEN 1 ELSE 0
         /\ l.op = "delete" => Count(Puts(l, at), i)
                                 = (IF auths[at].ip = i THEN 1 ELSE 0) + (IF auths[at].mac = i THEN 1 ELSE 0)
         /\ l.op \notin {"clean", "bypass", "delete"} => Count(Puts(l, at), i) = 0
<1>1. CASE l.op = "clean"
  BY <1>1, CleanCount DEF Puts
<1>2. CASE l.op = "bypass"
  <2>1. Puts(l, at) = <<bypass>>
    BY <1>2 DEF Puts
  <2>2. DOMAIN <<bypass>> = 1 .. 1 /\ 1 \in Nat
    OBVIOUS
  <2> QED
    BY <1>2, <2>1, <2>2, CountOne
<1>3. CASE l.op = "delete"
  <2>1. at \in DOMAIN auths
    BY <1>3 DEF TablesOK
  <2>2. Puts(l, at) = <<auths[at].ip, auths[at].mac>>
    BY <1>3, <2>1 DEF Puts, White
  <2>3. DOMAIN <<auths[at].ip, auths[at].mac>> = 1 .. 2 /\ 2 \in Nat
    OBVIOUS
  <2> QED
    BY <1>3, <2>2, <2>3, CountTwo
<1>4. CASE l.op \notin {"clean", "bypass", "delete"}
  <2>1. Puts(l, at) = <<>>
    BY <1>4 DEF Puts
  <2>2. DOMAIN <<>> = 1 .. 0 /\ DOMAIN <<>> = {} /\ 0 \in Nat
    OBVIOUS
  <2> QED
    BY <1>4, <2>1, <2>2, CountEmpty
<1> QED
  BY <1>1, <1>2, <1>3, <1>4

LEMMA PutsDomain ==
  ASSUME TablesOK, NEW l, NEW at
  PROVE  \E n \in Nat : DOMAIN Puts(l, at) = 1 .. n
<1>1. \/ Puts(l, at) \in {OfGroups, OfAuths, <<>>, <<bypass>>, <<ipgrps[at].set>>}
      \/ Puts(l, at) = <<auths[at].ip, auths[at].mac>>
  BY DEF Puts, White
<1>2. \A x, y : DOMAIN <<x>> = 1 .. 1 /\ DOMAIN <<x, y>> = 1 .. 2 /\ DOMAIN <<>> = 1 .. 0
  OBVIOUS
<1>3. 0 \in Nat /\ 1 \in Nat /\ 2 \in Nat
  OBVIOUS
<1>4. (\E n \in Nat : DOMAIN OfGroups = 1 .. n) /\ (\E n \in Nat : DOMAIN OfAuths = 1 .. n)
  BY CleanCount
<1> QED
  BY <1>1, <1>2, <1>3, <1>4, Zenon

\* A line puts the ipsets of the places it gives up.
LEMMA ChangeBalance ==
  ASSUME WriterOK, TablesOK, OneAtWork, AtInv, RefsOK, BalanceInv, NEW w \in Writers, Change(w)
  PROVE  RefsOK' /\ BalanceInv'
<1> DEFINE l == Line(w)
           at == writer[w].at
           P(i) == Count(Puts(l, at), i)
<1>1. /\ UNCHANGED <<ipgrps, auths, bypass, clashed>> /\ writer[w].pc = "change"
      /\ refs' = ip_set_put(Puts(l, at))
  BY DEF Change
<1>2. PICK x : /\ Writes(w, x) /\ x.pc = "store" /\ x.todo = writer[w].todo /\ x.held = writer[w].held
               /\ x.at = Slot(l, at)
  BY ChangeWrites
<1>3. writer'[w] = x /\ \A v \in Writers : v # w => writer'[v] = writer[v]
  BY <1>2 DEF Writes, WriterOK
<1>4. l \in Lines /\ l.dev \in Devices /\ (l.op = "bypass" => l.dev = "auth") /\ Line(w)' = l
  BY <1>1, <1>2, <1>3, WriterParts, LineKnown DEF Line
<1>5. writer'[w].at \in Nat /\ (l.op # "set" => writer'[w].at = at)
  BY <1>2, <1>3 DEF Writes, WriterRecords, Slot
<1>6. \A v \in Writers : v # w => Line(v)' = Line(v)
  BY <1>3 DEF Line
<1>7. \A i : HeldRefs(i)' = HeldRefs(i)
  <2>1. \A v \in Writers : writer'[v].held = writer[v].held
    BY <1>2, <1>3
  <2> QED
    BY <2>1, HeldSame DEF HeldRefs
<1>8. RefsOK'
  BY <1>1, PutsDomain, RefsMoved DEF RefsOK
<1> SUFFICES ASSUME clashed \cap {"ipgrp", "auth"} = {}, NEW i \in Ipsets PROVE Balanced(i)'
  BY <1>1, <1>8 DEF BalanceInv
<1>9. refs[i] = GroupRefs(i) + RuleRefs(i) + HeldRefs(i)
  BY DEF BalanceInv, Balanced
<1>10. GroupRefs(i) \in Nat /\ RuleRefs(i) \in Nat /\ HeldRefs(i) \in Nat
  BY RefsTypes DEF RefsNat
<1>11. refs'[i] = refs[i] - P(i)
  BY <1>1 DEF ip_set_put
<1>12. ipgrps \in Seq(GroupEntries) /\ auths \in Seq(RuleEntries)
  BY DEF TablesOK
<1>13. \A dev \in {"ipgrp", "auth"} : l.dev = dev =>
         \A v \in Writers : (v # w => ~(writer[v].pc = "store" /\ Line(v).dev = dev))
                            /\ ~(writer[v].pc = "store" /\ Line(v).dev = dev)
  BY <1>1 DEF OneAtWork, AtWork
<1>14. \A dev \in {"ipgrp", "auth"} : l.dev = dev => Given(dev) = {} /\ (dev = "auth" => ~BypassGivenUp)
  BY <1>13, NoneGiven
<1>15. \A dev \in {"ipgrp", "auth"} : l.dev = dev =>
         \A v \in Writers : v # w => ~(writer'[v].pc = "store" /\ Line(v)'.dev = dev)
  BY <1>3, <1>6, <1>13
<1>16. \A dev \in {"ipgrp", "auth"} : l.dev # dev =>
         Given(dev)' = Given(dev) /\ (dev = "auth" => (BypassGivenUp' <=> BypassGivenUp))
  BY <1>3, <1>4, OtherGiven
<1>17. /\ l.dev # "ipgrp" => GroupRefs(i)' = GroupRefs(i)
       /\ l.dev # "auth" => RuleRefs(i)' = RuleRefs(i)
  BY <1>1, <1>16 DEF GroupRefs, RuleRefs
<1>18. P(i) \in Nat /\ GroupRefs(i)' + RuleRefs(i)' = GroupRefs(i) + RuleRefs(i) - P(i)
  <2>1. CASE l.dev = "zone"
    <3>1. Puts(l, at) = <<>>
      BY <1>4, <2>1 DEF Puts
    <3>2. P(i) = 0
      BY <3>1, CountEmpty
    <3> QED
      BY <1>10, <1>17, <2>1, <3>2
  <2>2. CASE l.dev = "ipgrp"
    <3>1. l.op = "delete" => at \in 1 .. Len(ipgrps)
      BY <1>1, <2>2 DEF AtInv, AtWork, Table
    <3>2. /\ l.op = "clean" => P(i) = Count(SetsOf(ipgrps), i)
          /\ l.op = "delete" => P(i) = IF ipgrps[at].set = i THEN 1 ELSE 0
          /\ l.op \notin {"clean", "delete"} => P(i) = 0
      BY <1>4, <2>2, <3>1, GroupPuts
    <3>3. /\ l.op = "clean" => Given("ipgrp")' = Nat
          /\ l.op = "delete" => Given("ipgrp")' = {at}
          /\ l.op \notin {"clean", "delete"} => Given("ipgrp")' = {}
      BY <1>2, <1>3, <1>4, <1>5, <1>15, <2>2, GivenAfter
    <3>4. GroupRefs(i) = Count(SetsOf(ipgrps), i) /\ Count(SetsOf(ipgrps), i) \in Nat
      BY <1>12, <1>14, <2>2, GroupKept DEF GroupRefs
    <3>5. GroupRefs(i)' = Kept(SetsOf(ipgrps), Given("ipgrp")', i)
      BY <1>1 DEF GroupRefs
    <3> HIDE DEF l, at, P
    <3>6. GroupRefs(i)' = GroupRefs(i) - P(i) /\ P(i) \in Nat
      <4>0. PICK g \in Nat : g = Count(SetsOf(ipgrps), i)
        BY <3>4
      <4>1. CASE l.op = "clean"
        <5>1. Kept(SetsOf(ipgrps), Nat, i) = 0
          BY <1>12, GroupKept
        <5>2. GroupRefs(i)' = 0 /\ GroupRefs(i) = g /\ P(i) = g
          BY <3>2, <3>3, <3>4, <3>5, <4>0, <4>1, <5>1
        <5> QED
          BY <5>2
      <4>2. CASE l.op = "delete"
        <5>1. Kept(SetsOf(ipgrps), {at}, i) = g - (IF ipgrps[at].set = i THEN 1 ELSE 0)
          BY <1>12, <3>1, <4>0, <4>2, GroupKept
        <5> QED
          BY <3>2, <3>3, <3>4, <3>5, <4>0, <4>2, <5>1
      <4>3. CASE l.op \notin {"clean", "delete"}
        <5>1. Kept(SetsOf(ipgrps), {}, i) = g
          BY <1>12, <4>0, GroupKept
        <5>2. GroupRefs(i)' = g /\ GroupRefs(i) = g /\ P(i) = 0
          BY <3>2, <3>3, <3>4, <3>5, <4>0, <4>3, <5>1
        <5> QED
          BY <5>2
      <4> QED
        BY <4>1, <4>2, <4>3
    <3> QED
      BY <1>10, <1>17, <2>2, <3>6
  <2>3. CASE l.dev = "auth"
    <3>1. l.op = "delete" => at \in 1 .. Len(auths)
      BY <1>1, <2>3 DEF AtInv, AtWork, Table
    <3>2. /\ l.op = "clean" => P(i) = Count(IpsOf(auths), i) + Count(MacsOf(auths), i) + (IF bypass = i THEN 1 ELSE 0)
          /\ l.op = "bypass" => P(i) = IF bypass = i THEN 1 ELSE 0
          /\ l.op = "delete" => P(i) = (IF auths[at].ip = i THEN 1 ELSE 0) + (IF auths[at].mac = i THEN 1 ELSE 0)
          /\ l.op \notin {"clean", "bypass", "delete"} => P(i) = 0
      BY <1>4, <2>3, <3>1, RulePuts
    <3>3. /\ l.op = "clean" => Given("auth")' = Nat
          /\ l.op = "delete" => Given("auth")' = {at}
          /\ l.op \notin {"clean", "delete"} => Given("auth")' = {}
          /\ BypassGivenUp' <=> l.op \in {"clean", "bypass"}
      BY <1>2, <1>3, <1>4, <1>5, <1>15, <2>3, GivenAfter
    <3>4. PICK a \in Nat, b \in Nat, e \in Nat : /\ a = Count(IpsOf(auths), i) /\ b = Count(MacsOf(auths), i)
                                                 /\ e = IF bypass = i THEN 1 ELSE 0
      BY <1>12, RuleKept
    <3>5. RuleRefs(i) = a + b + e
      <4>1. Kept(IpsOf(auths), {}, i) = a /\ Kept(MacsOf(auths), {}, i) = b
        BY <1>12, <3>4, RuleKept
      <4>2. Given("auth") = {} /\ ~BypassGivenUp
        BY <1>14, <2>3
      <4> QED
        BY <3>4, <4>1, <4>2 DEF RuleRefs
    <3>6. RuleRefs(i)' = Kept(IpsOf(auths), Given("auth")', i) + Kept(MacsOf(auths), Given("auth")', i)
                           + (IF bypass = i /\ ~BypassGivenUp' THEN 1 ELSE 0)
      BY <1>1 DEF RuleRefs
    <3> HIDE DEF l, at, P
    <3>7. RuleRefs(i)' = RuleRefs(i) - P(i) /\ P(i) \in Nat
      <4>1. CASE l.op = "clean"
        <5>1. Kept(IpsOf(auths), Nat, i) = 0 /\ Kept(MacsOf(auths), Nat, i) = 0
          BY <1>12, RuleKept
        <5>2. BypassGivenUp'
          BY <3>3, <4>1
        <5>a. Kept(IpsOf(auths), Given("auth")', i) = 0 /\ Kept(MacsOf(auths), Given("auth")', i) = 0
          BY <3>3, <4>1, <5>1, Zenon
        <5>3. RuleRefs(i)' = 0
          BY <3>6, <5>a, <5>2
        <5>4. P(i) = a + b + e
          BY <3>2, <3>4, <4>1
        <5> QED
          BY <3>5, <5>3, <5>4
      <4>2. CASE l.op = "delete"
        <5>1. /\ Kept(IpsOf(auths), {at}, i) = a - (IF auths[at].ip = i THEN 1 ELSE 0)
              /\ Kept(MacsOf(auths), {at}, i) = b - (IF auths[at].mac = i THEN 1 ELSE 0)
          BY <1>12, <3>1, <3>4, <4>2, RuleKept
        <5>2. ~BypassGivenUp'
          BY <3>3, <4>2
        <5>3. PICK p \in {0, 1}, q \in {0, 1} : /\ p = IF auths[at].ip = i THEN 1 ELSE 0
                                                /\ q = IF auths[at].mac = i THEN 1 ELSE 0
          OBVIOUS
        <5>4. RuleRefs(i)' = (a - p) + (b - q) + e
          BY <3>3, <3>4, <3>6, <4>2, <5>1, <5>2, <5>3
        <5>5. P(i) = p + q
          BY <3>2, <4>2, <5>3
        <5> QED
          BY <3>5, <5>4, <5>5
      <4>3. CASE l.op \notin {"clean", "delete"}
        <5>1. Kept(IpsOf(auths), {}, i) = a /\ Kept(MacsOf(auths), {}, i) = b
          BY <1>12, <3>4, RuleKept
        <5>2. BypassGivenUp' <=> l.op = "bypass"
          BY <3>3, <4>3
        <5>3. RuleRefs(i)' = a + b + (IF bypass = i /\ l.op # "bypass" THEN 1 ELSE 0)
          BY <3>3, <3>6, <4>3, <5>1, <5>2
        <5> QED
          BY <3>2, <3>4, <3>5, <4>3, <5>3
      <4> QED
        BY <4>1, <4>2, <4>3
    <3> QED
      BY <1>10, <1>17, <2>3, <3>7
  <2> QED
    BY <1>4, <2>1, <2>2, <2>3 DEF Devices
<1> HIDE DEF P, l, at
<1>19. refs'[i] = GroupRefs(i)' + RuleRefs(i)' + HeldRefs(i)'
  BY <1>7, <1>9, <1>10, <1>11, <1>18
<1> QED
  BY <1>19 DEF Balanced

\* A line ceases to hold what it named.
LEMMA HeldChanged ==
  ASSUME NEW w \in Writers, Short(writer[w].held), Short(writer'[w].held),
         \A v \in Writers : v # w => writer'[v].held = writer[v].held, NEW i
  PROVE  Cardinality(HeldSet(writer', i))
           = Cardinality(HeldSet(writer, i)) - Count(writer[w].held, i) + Count(writer'[w].held, i)
<1>1. \A f, g : /\ Short(f[w].held) /\ Short(g[w].held)
                /\ \A v \in Writers : v # w => g[v].held = f[v].held
                => Cardinality(HeldSet(g, i)) = Cardinality(HeldSet(f, i)) - Count(f[w].held, i) + Count(g[w].held, i)
  <2> TAKE f, g
  <2> HAVE /\ Short(f[w].held) /\ Short(g[w].held)
           /\ \A v \in Writers : v # w => g[v].held = f[v].held
  <2> QED
    BY HeldMoves
<1> QED
  BY <1>1

LEMMA HeldDropped ==
  ASSUME NEW w \in Writers, Short(writer[w].held), writer'[w].held = <<>>,
         \A v \in Writers : v # w => writer'[v].held = writer[v].held, NEW i
  PROVE  HeldRefs(i)' = HeldRefs(i) - Count(writer[w].held, i)
<1>1. Len(<<>>) <= 2 /\ <<>> \in Seq(Ipsets \cup {NoSet}) /\ DOMAIN <<>> = {}
  OBVIOUS
<1>2. Short(writer'[w].held)
  BY <1>1 DEF Short
<1>3. Count(writer'[w].held, i) = 0
  BY <1>1, CountEmpty
<1>4. HeldRefs(i)' = HeldRefs(i) - Count(writer[w].held, i) + Count(writer'[w].held, i)
  BY <1>2, HeldChanged DEF HeldRefs
<1>5. Count(writer[w].held, i) \in Nat
  BY HeldSplit
<1>6. HeldRefs(i) \in Nat
  BY HeldNat DEF HeldRefs
<1> QED
  BY <1>3, <1>4, <1>5, <1>6

\* A line that stores turns what it held into places, and removes the places it
\* gave up.
LEMMA ApplyBalance ==
  ASSUME WriterOK, TablesOK, TablesOK', HeldInv, OneAtWork, AtInv, RefsOK, BalanceInv, NEW w \in Writers, Apply(w)
  PROVE  RefsOK' /\ BalanceInv'
<1> DEFINE l == Line(w)
           at == writer[w].at
           N(i) == Count(Named(l), i)
<1>1. PICK dev, op : /\ Store(w, dev, op)
                     /\ dev # "ipgrp" => UNCHANGED ipgrps
                     /\ dev # "auth" => UNCHANGED <<auths, bypass>>
  BY ApplyStores
<1>2. writer[w].pc = "store" /\ l.dev = dev /\ l.op = op /\ UNCHANGED <<refs, clashed>>
  BY <1>1 DEF Store
<1>3. PICK x : Writes(w, x) /\ x.pc = "enable" /\ x.held = <<>> /\ x.todo = writer[w].todo
  BY <1>1, StoreWrites
<1>4. writer'[w] = x /\ \A v \in Writers : v # w => writer'[v] = writer[v]
  BY <1>3 DEF Writes, WriterOK
<1>5. l \in Lines /\ l.dev \in Devices /\ (l.op = "bypass" => l.dev = "auth") /\ Line(w)' = l /\ at \in Nat
  <2>1. writer[w] \in WriterRecords
    BY WriterParts
  <2> QED
    BY <1>2, <1>3, <1>4, <2>1, WriterParts, LineKnown DEF Line, WriterRecords
<1>6. \A v \in Writers : v # w => Line(v)' = Line(v)
  BY <1>4 DEF Line
<1> SUFFICES ASSUME clashed \cap {"ipgrp", "auth"} = {}, NEW i \in Ipsets PROVE Balanced(i)'
  BY <1>2 DEF BalanceInv, RefsOK
<1>7. HeldRefs(i)' = HeldRefs(i) - N(i) /\ N(i) \in Nat
  <2>1. Short(writer[w].held) /\ writer[w].held = Named(l)
    BY <1>2, HeldShort DEF HeldInv, HeldOK, Line
  <2>2. writer'[w].held = <<>> /\ \A v \in Writers : v # w => writer'[v].held = writer[v].held
    BY <1>3, <1>4
  <2>3. HeldRefs(i)' = HeldRefs(i) - Count(writer[w].held, i)
    BY <2>1, <2>2, HeldDropped
  <2>4. N(i) \in Nat
    BY NamedShort, CountNat
  <2> QED
    BY <2>1, <2>3, <2>4
<1>8. refs[i] = GroupRefs(i) + RuleRefs(i) + HeldRefs(i)
  BY DEF BalanceInv, Balanced
<1>9. GroupRefs(i) \in Nat /\ RuleRefs(i) \in Nat /\ HeldRefs(i) \in Nat
  BY RefsTypes DEF RefsNat
<1>10. /\ ipgrps \in Seq(GroupEntries) /\ auths \in Seq(RuleEntries)
       /\ ipgrps' \in Seq(GroupEntries) /\ auths' \in Seq(RuleEntries)
  BY DEF TablesOK
<1>11. \A d \in {"ipgrp", "auth"} : l.dev = d => AtWork(w, d)
  BY <1>2 DEF AtWork
<1>12. \A d \in {"ipgrp", "auth"} : l.dev = d =>
         \A v \in Writers : ~(writer'[v].pc = "store" /\ Line(v)'.dev = d)
  <2> SUFFICES ASSUME NEW d \in {"ipgrp", "auth"}, l.dev = d, NEW v \in Writers,
                      writer'[v].pc = "store", Line(v)'.dev = d
               PROVE  FALSE
    OBVIOUS
  <2>1. v # w
    BY <1>3, <1>4
  <2>2. AtWork(v, d)
    BY <1>4, <1>6, <2>1 DEF AtWork
  <2> QED
    BY <1>11, <2>1, <2>2 DEF OneAtWork
<1>13. \A d \in {"ipgrp", "auth"} : l.dev = d => Given(d)' = {} /\ (d = "auth" => ~BypassGivenUp')
  BY <1>12, NoneAfter
<1>14. \A d \in {"ipgrp", "auth"} : l.dev # d =>
         Given(d)' = Given(d) /\ (d = "auth" => (BypassGivenUp' <=> BypassGivenUp))
  BY <1>4, <1>5, OtherGiven
<1>15. /\ l.dev # "ipgrp" => GroupRefs(i)' = GroupRefs(i)
       /\ l.dev # "auth" => RuleRefs(i)' = RuleRefs(i)
  BY <1>1, <1>2, <1>14 DEF GroupRefs, RuleRefs
<1>16. GroupRefs(i)' + RuleRefs(i)' = GroupRefs(i) + RuleRefs(i) + N(i)
  <2>1. CASE l.dev = "zone"
    <3>1. Named(l) = <<>>
      BY <1>5, <2>1, NamedCases
    <3>2. N(i) = 0
      BY <3>1, CountEmpty
    <3> QED
      BY <1>9, <1>15, <2>1, <3>2
  <2>2. CASE l.dev = "ipgrp"
    <3>1. /\ l.op = "delete" => at \in 1 .. Len(ipgrps)
          /\ l.op = "set" => at = Len(ipgrps)
      BY <1>2, <1>11, <2>2 DEF AtInv, Table
    <3>2. /\ l.op = "clean" => Given("ipgrp") = Nat
          /\ l.op = "delete" => Given("ipgrp") = {at}
          /\ l.op \notin {"clean", "delete"} => Given("ipgrp") = {}
      BY <1>2, <1>5, <1>11, <2>2, GivenBy
    <3>3. PICK g \in Nat, m \in Nat : g = Count(SetsOf(ipgrps), i) /\ m = Count(SetsOf(ipgrps'), i)
      BY <1>10, GroupKept
    <3>4. GroupRefs(i)' = m
      <4>1. Kept(SetsOf(ipgrps'), {}, i) = m
        BY <1>10, <3>3, GroupKept
      <4> QED
        BY <1>13, <2>2, <4>1 DEF GroupRefs
    <3>5. nos_ipgrp_cleanup(w) \/ nos_ipgrp_set(w) \/ nos_ipgrp_delete(w)
      BY <1>2, <2>2 DEF Apply, Store, nos_zone_cleanup, nos_zone_set, nos_zone_delete, nos_auth_cleanup,
           nos_auth_set, nos_auth_delete, SetBypass
    <3>6. GroupRefs(i)' = GroupRefs(i) + N(i)
      <4>1. CASE nos_ipgrp_cleanup(w)
        <5>1. l.op = "clean" /\ ipgrps' = <<>>
          BY <4>1 DEF nos_ipgrp_cleanup, Store
        <5>2. m = 0
          BY <3>3, <5>1, ColumnEmpty
        <5>3. Kept(SetsOf(ipgrps), Nat, i) = 0
          BY <1>10, GroupKept
        <5>4. GroupRefs(i) = 0
          BY <3>2, <5>1, <5>3, Zenon DEF GroupRefs
        <5>5. N(i) = 0
          BY <5>1, NamedCases, CountEmpty
        <5> QED
          BY <3>4, <5>2, <5>4, <5>5
      <4>2. CASE nos_ipgrp_set(w)
        <5>1. l.op = "set" /\ ipgrps' = Stored(ipgrps, at, [id |-> l.id, set |-> l.set], BlankGroup)
          BY <4>2 DEF nos_ipgrp_set, Store
        <5>a. PICK e : e = [id |-> l.id, set |-> l.set]
          OBVIOUS
        <5>2. e = [id |-> l.id, set |-> l.set] /\ e.set = l.set
          BY <5>a
        <5>3. m = g + (IF l.set = i THEN 1 ELSE 0)
          BY <1>10, <3>1, <3>3, <5>1, <5>2, GroupAdded
        <5>4. GroupRefs(i) = g
          <6>1. Kept(SetsOf(ipgrps), {}, i) = g
            BY <1>10, <3>3, GroupKept
          <6> QED
            BY <3>2, <5>1, <6>1 DEF GroupRefs
        <5>5. N(i) = IF l.set = i THEN 1 ELSE 0
          BY <2>2, <5>1, NamedCases, CountOne
        <5> HIDE DEF N
        <5> QED
          BY <3>4, <5>3, <5>4, <5>5
      <4>3. CASE nos_ipgrp_delete(w)
        <5>1. l.op = "delete" /\ ipgrps' = Removed(ipgrps, at)
          BY <4>3 DEF nos_ipgrp_delete, Store
        <5>2. at \in DOMAIN ipgrps
          BY <1>10, <3>1, <5>1
        <5>3. ipgrps' = RemoveAt(ipgrps, at)
          BY <5>1, <5>2 DEF Removed
        <5>4. m = g - (IF ipgrps[at].set = i THEN 1 ELSE 0)
          BY <1>10, <3>3, <5>2, <5>3, GroupRemoved
        <5>5. GroupRefs(i) = g - (IF ipgrps[at].set = i THEN 1 ELSE 0)
          <6>1. Kept(SetsOf(ipgrps), {at}, i) = g - (IF ipgrps[at].set = i THEN 1 ELSE 0)
            BY <1>10, <3>1, <3>3, <5>1, GroupKept
          <6> QED
            BY <3>2, <5>1, <6>1 DEF GroupRefs
        <5>6. N(i) = 0
          BY <5>1, NamedCases, CountEmpty
        <5> QED
          BY <1>9, <3>4, <5>4, <5>5, <5>6
      <4> QED
        BY <3>5, <4>1, <4>2, <4>3
    <3> HIDE DEF N, l
    <3> QED
      BY <1>7, <1>9, <1>15, <2>2, <3>6
  <2>3. CASE l.dev = "auth"
    <3>1. /\ l.op = "delete" => at \in 1 .. Len(auths)
          /\ l.op = "set" => at = Len(auths)
      BY <1>2, <1>11, <2>3 DEF AtInv, Table
    <3>2. /\ l.op = "clean" => Given("auth") = Nat
          /\ l.op = "delete" => Given("auth") = {at}
          /\ l.op \notin {"clean", "delete"} => Given("auth") = {}
          /\ BypassGivenUp <=> l.op \in {"clean", "bypass"}
      BY <1>2, <1>5, <1>11, <2>3, GivenBy
    <3>3. PICK a \in Nat, b \in Nat, m \in Nat, n \in Nat :
            /\ a = Count(IpsOf(auths), i) /\ b = Count(MacsOf(auths), i)
            /\ m = Count(IpsOf(auths'), i) /\ n = Count(MacsOf(auths'), i)
      BY <1>10, RuleKept
    <3>4. PICK o \in {0, 1}, p \in {0, 1} : o = (IF bypass = i THEN 1 ELSE 0) /\ p = (IF bypass' = i THEN 1 ELSE 0)
      OBVIOUS
    <3>5. RuleRefs(i)' = m + n + p
      <4>1. Kept(IpsOf(auths'), {}, i) = m /\ Kept(MacsOf(auths'), {}, i) = n
        BY <1>10, <3>3, RuleKept
      <4>2. Given("auth")' = {} /\ ~BypassGivenUp'
        BY <1>13, <2>3
      <4> QED
        BY <3>4, <4>1, <4>2 DEF RuleRefs
    <3>6. nos_auth_cleanup(w) \/ nos_auth_set(w) \/ nos_auth_delete(w) \/ SetBypass(w)
      BY <1>2, <2>3 DEF Apply, Store, nos_zone_cleanup, nos_zone_set, nos_zone_delete, nos_ipgrp_cleanup,
           nos_ipgrp_set, nos_ipgrp_delete
    <3>7. Kept(IpsOf(auths), {}, i) = a /\ Kept(MacsOf(auths), {}, i) = b
      BY <1>10, <3>3, RuleKept
    <3>8. RuleRefs(i)' = RuleRefs(i) + N(i)
      <4>1. CASE nos_auth_cleanup(w)
        <5>1. l.op = "clean" /\ auths' = <<>> /\ bypass' = NoSet
          BY <4>1 DEF nos_auth_cleanup, Store
        <5>2. m = 0 /\ n = 0
          BY <3>3, <5>1, ColumnEmpty
        <5>3. p = 0
          BY <3>4, <5>1, HoldsAssumption
        <5>4. Kept(IpsOf(auths), Nat, i) = 0 /\ Kept(MacsOf(auths), Nat, i) = 0
          BY <1>10, RuleKept
        <5>5. Kept(IpsOf(auths), Given("auth"), i) = 0 /\ Kept(MacsOf(auths), Given("auth"), i) = 0
          BY <3>2, <5>1, <5>4, Zenon
        <5>6. BypassGivenUp
          BY <3>2, <5>1
        <5>7. RuleRefs(i) = 0
          BY <5>5, <5>6 DEF RuleRefs
        <5>8. N(i) = 0
          BY <5>1, NamedCases, CountEmpty
        <5> QED
          BY <3>5, <5>2, <5>3, <5>7, <5>8
      <4>2. CASE nos_auth_set(w)
        <5>1. l.op = "set" /\ auths' = Stored(auths, at, RuleOf(l), BlankRule) /\ bypass' = bypass
          BY <4>2 DEF nos_auth_set, Store
        <5>a. PICK e : e = RuleOf(l)
          OBVIOUS
        <5>2. e = RuleOf(l) /\ e.ip = l.ip /\ e.mac = l.mac
          BY <5>a DEF RuleOf
        <5>3. m = a + (IF e.ip = i THEN 1 ELSE 0) /\ n = b + (IF e.mac = i THEN 1 ELSE 0)
          BY <1>10, <3>1, <3>3, <5>1, <5>2, RuleAdded
        <5>4. Given("auth") = {} /\ ~BypassGivenUp
          BY <3>2, <5>1
        <5>5. RuleRefs(i) = a + b + o
          BY <3>4, <3>7, <5>4 DEF RuleRefs
        <5>6. N(i) = (IF e.ip = i THEN 1 ELSE 0) + (IF e.mac = i THEN 1 ELSE 0)
          BY <2>3, <5>1, <5>2, NamedCases, CountTwo
        <5>7. p = o
          BY <3>4, <5>1
        <5> HIDE DEF N
        <5> QED
          BY <3>5, <5>3, <5>5, <5>6, <5>7
      <4>3. CASE nos_auth_delete(w)
        <5>1. l.op = "delete" /\ auths' = Removed(auths, at) /\ bypass' = bypass
          BY <4>3 DEF nos_auth_delete, Store
        <5>2. at \in DOMAIN auths
          BY <1>10, <3>1, <5>1
        <5>3. auths' = RemoveAt(auths, at)
          BY <5>1, <5>2 DEF Removed
        <5>4. PICK q \in {0, 1}, r \in {0, 1} : /\ q = (IF auths[at].ip = i THEN 1 ELSE 0)
                                                /\ r = (IF auths[at].mac = i THEN 1 ELSE 0)
          OBVIOUS
        <5>5. m = a - q /\ n = b - r
          BY <1>10, <3>3, <5>2, <5>3, <5>4, RuleRemoved
        <5>6. Kept(IpsOf(auths), {at}, i) = a - q /\ Kept(MacsOf(auths), {at}, i) = b - r
          BY <1>10, <3>1, <3>3, <5>1, <5>4, RuleKept
        <5>7. Given("auth") = {at} /\ ~BypassGivenUp
          BY <3>2, <5>1
        <5>8. RuleRefs(i) = (a - q) + (b - r) + o
          BY <3>4, <5>6, <5>7 DEF RuleRefs
        <5>9. N(i) = 0
          BY <5>1, NamedCases, CountEmpty
        <5>10. p = o
          BY <3>4, <5>1
        <5> QED
          BY <3>5, <5>5, <5>8, <5>9, <5>10
      <4>4. CASE SetBypass(w)
        <5>1. l.op = "bypass" /\ auths' = auths /\ bypass' = l.set
          BY <4>4 DEF SetBypass, Store
        <5>2. Given("auth") = {} /\ BypassGivenUp
          BY <3>2, <5>1
        <5>3. RuleRefs(i) = a + b + 0
          BY <3>7, <5>2 DEF RuleRefs
        <5>4. N(i) = IF l.set = i THEN 1 ELSE 0
          BY <5>1, NamedCases, CountOne
        <5>5. N(i) = p /\ m = a /\ n = b
          BY <3>3, <3>4, <5>1, <5>4
        <5> QED
          BY <3>5, <5>3, <5>5
      <4> QED
        BY <3>6, <4>1, <4>2, <4>3, <4>4
    <3> HIDE DEF N, l
    <3> QED
      BY <1>7, <1>9, <1>15, <2>3, <3>8
  <2> QED
    BY <1>5, <2>1, <2>2, <2>3 DEF Devices
<1>17. refs'[i] = refs[i]
  BY <1>2
<1> HIDE DEF N, l, at
<1>18. refs'[i] = GroupRefs(i)' + RuleRefs(i)' + HeldRefs(i)'
  BY <1>7, <1>8, <1>9, <1>16, <1>17
<1> QED
  BY <1>18 DEF Balanced

-----------------------------------------------------------------------------
(* The steps keep the references *)

RefsInv == HeldInv /\ OneAtWork /\ AtInv /\ RefsOK /\ BalanceInv

\* What the invariant says of a writer is as it was.
SameWriter(w) ==
  /\ writer'[w].pc = writer[w].pc /\ writer'[w].todo = writer[w].todo
  /\ writer'[w].at = writer[w].at /\ writer'[w].held = writer[w].held

LEMMA RefsStill ==
  ASSUME RefsInv, UNCHANGED <<ipgrps, auths, bypass, refs, clashed>>, \A w \in Writers : SameWriter(w)
  PROVE  RefsInv'
<1>1. HeldInv'
  BY HeldKept DEF RefsInv, HeldInv, SameWriter
<1>2. WorkSame
  BY DEF WorkSame, SameWriter, AtWork, Line, Table
<1>3. OneAtWork' /\ AtInv'
  BY <1>2, WorkKept DEF RefsInv
<1>4. SameStores
  BY DEF SameStores, SameWriter
<1>5. BalanceInv'
  BY <1>4, BalanceStill DEF RefsInv, SameWriter
<1> QED
  BY <1>1, <1>3, <1>5 DEF RefsInv, RefsOK

\* A line that is not at work gets, puts or ends.
LEMMA RefsQuiet ==
  ASSUME WriterOK, TablesOK, RefsInv, UNCHANGED <<ipgrps, auths, bypass, clashed>>, NEW w \in Writers,
         \A v \in Writers : v # w => SameWriter(v),
         writer[w].pc # "store", writer'[w].pc \in {"idle", "call"}, HeldOK(writer'[w]), Short(writer'[w].held),
         RefsOK', \A i \in Ipsets : refs'[i] = refs[i] - Count(writer[w].held, i) + Count(writer'[w].held, i)
  PROVE  RefsInv'
<1>1. HeldInv'
  <2>1. ASSUME NEW v \in Writers, v # w PROVE HeldOK(writer'[v])
    BY <2>1, HeldKept DEF RefsInv, SameWriter
  <2> QED
    BY <2>1 DEF HeldInv
<1>2. WorkSame
  <2> SUFFICES ASSUME NEW v \in Writers, NEW dev \in {"ipgrp", "auth"}, AtWork(v, dev)'
               PROVE  /\ AtWork(v, dev)
                      /\ writer'[v].todo = writer[v].todo /\ writer'[v].at = writer[v].at
                      /\ writer'[v].pc = "store" => writer[v].pc = "store"
                      /\ dev \notin clashed' => Table(dev)' = Table(dev)
    BY DEF WorkSame
  <2>1. v # w
    BY DEF AtWork
  <2>2. SameWriter(v)
    BY <2>1
  <2> QED
    BY <2>2 DEF SameWriter, AtWork, Line, Table
<1>3. OneAtWork' /\ AtInv'
  BY <1>2, WorkKept DEF RefsInv
<1>4. SameStores
  BY DEF SameStores, SameWriter
<1>5. \A v \in Writers : v # w => writer'[v].held = writer[v].held
  BY DEF SameWriter
<1>6. BalanceInv'
  BY <1>4, <1>5, BalanceMoved DEF RefsInv
<1> QED
  BY <1>1, <1>3, <1>6 DEF RefsInv

LEMMA WritesSame ==
  ASSUME WriterOK, NEW w \in Writers, NEW x, Writes(w, x)
  PROVE  writer'[w] = x /\ \A v \in Writers : v # w => SameWriter(v)
BY DEF Writes, WriterOK, SameWriter

LEMMA NothingHeld == Short(<<>>) /\ \A i : Count(<<>>, i) = 0
<1>1. Len(<<>>) <= 2 /\ <<>> \in Seq(Ipsets \cup {NoSet}) /\ DOMAIN <<>> = {}
  OBVIOUS
<1> QED
  BY <1>1, CountEmpty DEF Short

\* A script begins.
LEMMA StartRefs ==
  ASSUME WriterOK, TablesOK, RefsInv, NEW w \in Writers, StartScript(w)
  PROVE  RefsInv'
<1>1. PICK x : Writes(w, x) /\ x.pc = "call" /\ x.held = writer[w].held
  BY StartWrites
<1>2. writer'[w] = x /\ \A v \in Writers : v # w => SameWriter(v)
  BY <1>1, WritesSame
<1>3. writer[w].pc = "idle" /\ UNCHANGED <<ipgrps, auths, bypass, clashed, refs>>
  BY DEF StartScript, config
<1>4. writer[w].held = <<>> /\ writer'[w].held = <<>>
  BY <1>1, <1>2, <1>3 DEF RefsInv, HeldInv, HeldOK
<1>5. HeldOK(x)
  <2>1. PICK n \in Nat : n = Len(Named(Head(x.todo)))
    BY NamedShort
  <2>2. Len(<<>>) = 0 /\ 1 .. 0 = {}
    OBVIOUS
  <2>3. Len(x.held) <= n /\ \A k \in 1 .. Len(x.held) : FALSE
    BY <1>2, <1>4, <2>1, <2>2
  <2> QED
    BY <1>1, <2>1, <2>3 DEF HeldOK
<1>6. \A i \in Ipsets : refs[i] \in Int
  BY DEF RefsInv, RefsOK
<1>7. \A i \in Ipsets : refs'[i] = refs[i] - Count(writer[w].held, i) + Count(writer'[w].held, i)
  BY <1>3, <1>4, <1>6, NothingHeld
<1>8. RefsOK' /\ Short(writer'[w].held)
  BY <1>3, <1>4, NothingHeld DEF RefsInv, RefsOK
<1> QED
  BY <1>1, <1>2, <1>3, <1>5, <1>7, <1>8, RefsQuiet

\* A refused line puts what it holds, and one that announces holds nothing.
LEMMA EndRefs ==
  ASSUME WriterOK, TablesOK, RefsInv, UNCHANGED <<ipgrps, auths, bypass, clashed>>, NEW w \in Writers,
         \A v \in Writers : v # w => SameWriter(v), writer[w].pc \in {"call", "enable"}, writer'[w] = Next1(w),
         RefsOK', \A i \in Ipsets : refs'[i] = refs[i] - Count(writer[w].held, i)
  PROVE  RefsInv'
<1>1. /\ writer'[w].pc \in {"idle", "call"} /\ writer'[w].held = <<>>
      /\ HeldOK(writer'[w])
  BY NextLine, NextHeld
<1>2. ASSUME NEW i \in Ipsets PROVE refs'[i] = refs[i] - Count(writer[w].held, i) + Count(writer'[w].held, i)
  <2>1. refs[i] \in Int
    BY DEF RefsInv, RefsOK
  <2>2. Count(writer[w].held, i) \in Nat
    BY HeldShort, HeldSplit DEF RefsInv
  <2>3. Count(writer'[w].held, i) = 0
    BY <1>1, NothingHeld
  <2> QED
    BY <2>1, <2>2, <2>3
<1>3. Short(writer'[w].held)
  BY <1>1, NothingHeld
<1> QED
  BY <1>1, <1>2, <1>3, RefsQuiet

LEMMA RefusedRefs ==
  ASSUME WriterOK, TablesOK, RefsInv, NEW w \in Writers, Refused(w)
  PROVE  RefsInv'
<1>1. /\ writer[w].pc = "call" /\ UNCHANGED <<ipgrps, auths, bypass, clashed>>
      /\ refs' = ip_set_put(writer[w].held) /\ writer' = [writer EXCEPT ![w] = Next1(w)]
  BY DEF Refused
<1>2. Writes(w, Next1(w))
  BY <1>1, NextWrites
<1>3. writer'[w] = Next1(w) /\ \A v \in Writers : v # w => SameWriter(v)
  BY <1>2, WritesSame
<1>4. \E n \in Nat : DOMAIN writer[w].held = 1 .. n
  BY HeldShort DEF RefsInv, Short
<1>5. RefsOK' /\ \A i \in Ipsets : refs'[i] = refs[i] - Count(writer[w].held, i)
  BY <1>1, <1>4, RefsMoved DEF RefsInv, RefsOK
<1> QED
  BY <1>1, <1>3, <1>5, EndRefs

LEMMA MagicRefs ==
  ASSUME WriterOK, TablesOK, RefsInv, NEW w \in Writers, UpdateMagic(w)
  PROVE  RefsInv'
<1>1. /\ writer[w].pc = "call" /\ Line(w).op = "magic" /\ UNCHANGED <<ipgrps, auths, bypass, clashed, refs>>
      /\ writer' = [writer EXCEPT ![w] = Next1(w)]
  BY DEF UpdateMagic
<1>2. Writes(w, Next1(w))
  BY <1>1, NextWrites
<1>3. writer'[w] = Next1(w) /\ \A v \in Writers : v # w => SameWriter(v)
  BY <1>2, WritesSame
<1>4. writer[w].held = <<>>
  <2>1. Named(Line(w)) = <<>>
    BY <1>1, NamedCases
  <2>2. PICK h \in Seq(Ipsets \cup {NoSet}) : h = writer[w].held /\ Len(h) <= Len(Named(Line(w)))
    BY <1>1, HeldShort DEF RefsInv, HeldInv, HeldOK, Short, Line
  <2>3. Len(h) = 0
    BY <2>1, <2>2
  <2>4. h = <<>>
    <3> DEFINE S == Ipsets \cup {NoSet}
    <3>1. h \in Seq(S) /\ Len(h) = 0
      BY <2>3
    <3> HIDE DEF S
    <3> QED
      BY <3>1
  <2> QED
    BY <2>2, <2>4
<1>5. \A i \in Ipsets : refs[i] \in Int
  BY DEF RefsInv, RefsOK
<1>6. RefsOK' /\ \A i \in Ipsets : refs'[i] = refs[i] - Count(writer[w].held, i)
  BY <1>1, <1>4, <1>5, NothingHeld DEF RefsInv, RefsOK
<1> QED
  BY <1>1, <1>3, <1>6, EndRefs

LEMMA EnableRefs ==
  ASSUME WriterOK, TablesOK, RefsInv, NEW w \in Writers, EnableHooks(w)
  PROVE  RefsInv'
<1>1. writer[w].pc = "enable" /\ UNCHANGED <<ipgrps, auths, bypass, clashed, refs>>
  BY DEF EnableHooks, config
<1>2. writer'[w] = Next1(w) /\ \A v \in Writers : v # w => SameWriter(v)
  BY EnableWriter DEF SameWriter
<1>3. writer[w].held = <<>>
  BY <1>1 DEF RefsInv, HeldInv, HeldOK
<1>4. \A i \in Ipsets : refs[i] \in Int
  BY DEF RefsInv, RefsOK
<1>5. RefsOK' /\ \A i \in Ipsets : refs'[i] = refs[i] - Count(writer[w].held, i)
  BY <1>1, <1>3, <1>4, NothingHeld DEF RefsInv, RefsOK
<1> QED
  BY <1>1, <1>2, <1>5, EndRefs

\* A line looks up one more ipset.
LEMMA GetRefs ==
  ASSUME WriterOK, TablesOK, RefsInv, NEW w \in Writers, ip_set_get_byname(w)
  PROVE  RefsInv'
<1>1. /\ writer[w].pc = "call" /\ UNCHANGED <<ipgrps, auths, bypass, clashed>>
      /\ refs' = ip_set_get(<<NextName(w)>>)
  BY DEF ip_set_get_byname
<1>2. PICK x : /\ Writes(w, x) /\ x.pc = "call" /\ x.todo = writer[w].todo
               /\ x.held = Append(writer[w].held, NextName(w))
  BY GetWrites
<1>3. writer'[w] = x /\ \A v \in Writers : v # w => SameWriter(v)
  BY <1>2, WritesSame
<1>4. HeldOK(x)
  BY <1>2, GetHeld DEF RefsInv
<1>5. HeldInv' /\ WriterOK'
  BY <1>2, <1>4, HeldWrites, WritesOK DEF RefsInv
<1>6. Short(x.held)
  <2>1. x \in WriterRecords
    BY <1>2 DEF Writes
  <2>2. PICK h \in Seq(Ipsets \cup {NoSet}), n \in Nat : h = x.held /\ n = Len(h) /\ n <= Len(Named(Head(x.todo)))
    BY <1>2, <1>4, <2>1 DEF WriterRecords, HeldOK
  <2>3. PICK m \in Nat : m = Len(Named(Head(x.todo))) /\ m <= 2
    BY NamedShort
  <2>4. n <= 2
    BY <2>2, <2>3
  <2> QED
    BY <2>2, <2>4 DEF Short
<1>7. ASSUME NEW i PROVE Count(x.held, i) = Count(writer[w].held, i) + Count(<<NextName(w)>>, i)
  <2> DEFINE S == Ipsets \cup {NoSet}
  <2>1. PICK g \in Seq(S), e \in S : g = writer[w].held /\ e = NextName(w)
    BY HeldShort DEF RefsInv, Short, ip_set_get_byname
  <2> HIDE DEF S
  <2>2. PICK n \in Nat : n = Len(g)
    OBVIOUS
  <2>0. PICK t : t = Append(g, e)
    OBVIOUS
  <2>3. Longer(n, g, t) /\ t[n + 1] = e
    BY <2>0, <2>2 DEF Longer
  <2>4. Count(t, i) = Count(g, i) + (IF t[n + 1] = i THEN 1 ELSE 0)
    BY <2>3, CountLonger
  <2>5. Count(<<e>>, i) = IF e = i THEN 1 ELSE 0
    BY CountOne
  <2> QED
    BY <1>2, <2>0, <2>1, <2>3, <2>4, <2>5
<1>8. \E n \in Nat : DOMAIN <<NextName(w)>> = 1 .. n
  <2>1. DOMAIN <<NextName(w)>> = 1 .. 1 /\ 1 \in Nat
    OBVIOUS
  <2> QED
    BY <2>1
<1>9. RefsOK' /\ \A i \in Ipsets : refs'[i] = refs[i] + Count(<<NextName(w)>>, i) /\ Count(<<NextName(w)>>, i) \in Nat
  BY <1>1, <1>8, RefsMoved DEF RefsInv, RefsOK
<1>10. ASSUME NEW i \in Ipsets PROVE refs'[i] = refs[i] - Count(writer[w].held, i) + Count(writer'[w].held, i)
  <2>1. refs[i] \in Int
    BY DEF RefsInv, RefsOK
  <2>2. Count(writer[w].held, i) \in Nat
    BY HeldShort, HeldSplit DEF RefsInv
  <2>3. PICK c \in Nat : c = Count(<<NextName(w)>>, i) /\ refs'[i] = refs[i] + c
    BY <1>9
  <2>4. Count(writer'[w].held, i) = Count(writer[w].held, i) + c
    BY <1>3, <1>7, <2>3
  <2> QED
    BY <2>1, <2>2, <2>3, <2>4
<1> QED
  BY <1>1, <1>2, <1>3, <1>4, <1>6, <1>9, <1>10, RefsQuiet

LEMMA DisableRefs ==
  ASSUME WriterOK, TablesOK, RefsInv, NEW w \in Writers, DisableHooks(w)
  PROVE  RefsInv'
<1>1. /\ writer[w].pc = "call" /\ AllHeld(w) /\ UNCHANGED <<ipgrps, auths, bypass, refs>> /\ clashed \subseteq clashed'
  BY DEF DisableHooks
<1>2. PICK x : Writes(w, x) /\ x.pc = "wait" /\ x.todo = writer[w].todo /\ x.held = writer[w].held
  BY DisableWrites
<1>3. writer[w].held = Named(Line(w))
  BY <1>1, AllNamed DEF RefsInv
<1>4. HeldOK(x)
  BY <1>2, <1>3 DEF HeldOK, Line
<1>5. HeldInv' /\ writer'[w] = x /\ \A v \in Writers : v # w => writer'[v] = writer[v]
  BY <1>2, <1>4, HeldWrites DEF RefsInv
<1>6. OneAtWork' /\ AtInv'
  BY DisableWork DEF RefsInv
<1>7. SameStores /\ \A v \in Writers : writer'[v].held = writer[v].held
  BY <1>1, <1>2, <1>5 DEF SameStores
<1>8. BalanceInv'
  BY <1>1, <1>7, BalanceStill DEF RefsInv
<1> QED
  BY <1>1, <1>5, <1>6, <1>8 DEF RefsInv, RefsOK

LEMMA GraceRefs ==
  ASSUME WriterOK, TablesOK, RefsInv, NEW w \in Writers, GracePeriod(w)
  PROVE  RefsInv'
<1>1. writer[w].pc = "wait" /\ UNCHANGED <<ipgrps, auths, bypass, refs, clashed>>
  BY DEF GracePeriod, config
<1>2. PICK x : /\ Writes(w, x) /\ x.pc = "change" /\ x.todo = writer[w].todo /\ x.held = writer[w].held
               /\ x.at = writer[w].at
  BY GraceWrites
<1>3. HeldOK(x)
  BY <1>1, <1>2 DEF HeldOK, RefsInv, HeldInv
<1>4. HeldInv' /\ writer'[w] = x /\ \A v \in Writers : v # w => writer'[v] = writer[v]
  BY <1>2, <1>3, HeldWrites DEF RefsInv
<1>5. WorkSame
  <2> SUFFICES ASSUME NEW v \in Writers, NEW dev \in {"ipgrp", "auth"}, AtWork(v, dev)'
               PROVE  /\ AtWork(v, dev)
                      /\ writer'[v].todo = writer[v].todo /\ writer'[v].at = writer[v].at
                      /\ writer'[v].pc = "store" => writer[v].pc = "store"
                      /\ dev \notin clashed' => Table(dev)' = Table(dev)
    BY DEF WorkSame
  <2>1. Table(dev)' = Table(dev)
    BY <1>1 DEF Table
  <2>2. /\ writer'[v].todo = writer[v].todo /\ writer'[v].at = writer[v].at
        /\ writer'[v].pc = "store" => writer[v].pc = "store"
        /\ v # w => writer'[v].pc = writer[v].pc
    BY <1>2, <1>4
  <2>3. AtWork(v, dev)
    BY <1>1, <2>2 DEF AtWork, Line
  <2> QED
    BY <2>1, <2>2, <2>3
<1>6. OneAtWork' /\ AtInv'
  BY <1>1, <1>5, WorkKept DEF RefsInv
<1>7. SameStores /\ \A v \in Writers : writer'[v].held = writer[v].held
  BY <1>1, <1>2, <1>4 DEF SameStores
<1>8. BalanceInv'
  BY <1>1, <1>7, BalanceStill DEF RefsInv
<1> QED
  BY <1>1, <1>4, <1>6, <1>8 DEF RefsInv, RefsOK

LEMMA ChangeRefs ==
  ASSUME WriterOK, TablesOK, RefsInv, NEW w \in Writers, Change(w)
  PROVE  RefsInv'
<1>1. writer[w].pc = "change"
  BY DEF Change
<1>2. PICK x : Writes(w, x) /\ x.pc = "store" /\ x.todo = writer[w].todo /\ x.held = writer[w].held
  BY ChangeWrites
<1>3. HeldOK(x)
  BY <1>1, <1>2 DEF HeldOK, RefsInv, HeldInv
<1>4. HeldInv'
  BY <1>2, <1>3, HeldWrites DEF RefsInv
<1> QED
  BY <1>4, ChangeWork, ChangeBalance DEF RefsInv

LEMMA ApplyRefs ==
  ASSUME WriterOK, TablesOK, TablesOK', RefsInv, NEW w \in Writers, Apply(w)
  PROVE  RefsInv'
<1>1. PICK dev, op : Store(w, dev, op)
  BY ApplyStores
<1>2. PICK x : Writes(w, x) /\ x.pc = "enable" /\ x.held = <<>>
  BY <1>1, StoreWrites
<1>3. HeldOK(x)
  BY <1>2 DEF HeldOK
<1>4. HeldInv'
  BY <1>2, <1>3, HeldWrites DEF RefsInv
<1> QED
  BY <1>4, ApplyWork, ApplyBalance DEF RefsInv

LEMMA EmptyKept ==
  ASSUME NEW i
  PROVE  Kept(SetsOf(<<>>), {}, i) = 0 /\ Kept(IpsOf(<<>>), {}, i) = 0 /\ Kept(MacsOf(<<>>), {}, i) = 0
<1>0. <<>> \in Seq({0})
  OBVIOUS
<1>1. PICK s \in Seq({0}) : s = <<>>
  BY <1>0, Zenon
<1>2. /\ Kept(SetsOf(s), {}, i) = Count(SetsOf(s), i)
      /\ Kept(IpsOf(s), {}, i) = Count(IpsOf(s), i) /\ Kept(MacsOf(s), {}, i) = Count(MacsOf(s), i)
  BY GroupKept, RuleKept
<1> QED
  BY <1>1, <1>2, ColumnEmpty

\* nos_exit puts what the tables name; no line is at work.
LEMMA ExitRefs ==
  ASSUME WriterOK, TablesOK, RefsInv, nos_exit
  PROVE  RefsInv'
<1>1. /\ \A w \in Writers : writer[w].pc = "idle"
      /\ refs' = ip_set_put(OfAuths \o OfGroups)
      /\ ipgrps' = <<>> /\ auths' = <<>> /\ bypass' = NoSet /\ UNCHANGED <<clashed, writer>>
  BY DEF nos_exit
<1>2. HeldInv'
  BY <1>1 DEF RefsInv, HeldInv
<1>3. \A w \in Writers : \A dev : ~AtWork(w, dev)'
  BY <1>1 DEF AtWork
<1>4. OneAtWork' /\ AtInv'
  BY <1>3 DEF OneAtWork, AtInv
<1>5. RefsOK' /\ \A i \in Ipsets : refs'[i] = refs[i] - Count(OfAuths \o OfGroups, i)
  <2>1. \E n \in Nat : DOMAIN (OfAuths \o OfGroups) = 1 .. n
    BY CleanCount
  <2> QED
    BY <1>1, <2>1, RefsMoved DEF RefsInv, RefsOK
<1>6. /\ Given("ipgrp") = {} /\ Given("auth") = {} /\ ~BypassGivenUp
      /\ Given("ipgrp")' = {} /\ Given("auth")' = {} /\ ~BypassGivenUp'
  <2>1. \A dev : \A v \in Writers : ~(writer[v].pc = "store" /\ Line(v).dev = dev)
    BY <1>1
  <2>2. \A dev : \A v \in Writers : ~(writer'[v].pc = "store" /\ Line(v)'.dev = dev)
    BY <1>1
  <2> QED
    BY <2>1, <2>2, NoneGiven, NoneAfter
<1>7. ASSUME clashed \cap {"ipgrp", "auth"} = {}, NEW i \in Ipsets PROVE Balanced(i)'
  <2>0. ipgrps \in Seq(GroupEntries) /\ auths \in Seq(RuleEntries)
    BY DEF TablesOK
  <2>1. PICK g \in Nat, a \in Nat, b \in Nat, o \in {0, 1} :
          /\ g = Count(SetsOf(ipgrps), i) /\ a = Count(IpsOf(auths), i) /\ b = Count(MacsOf(auths), i)
          /\ o = IF bypass = i THEN 1 ELSE 0
    BY <2>0, GroupKept, RuleKept
  <2>2. GroupRefs(i) = g
    BY <1>6, <2>0, <2>1, GroupKept DEF GroupRefs
  <2>3. RuleRefs(i) = a + b + o
    <3>1. Kept(IpsOf(auths), {}, i) = a /\ Kept(MacsOf(auths), {}, i) = b
      BY <2>0, <2>1, RuleKept
    <3> QED
      BY <1>6, <2>1, <3>1 DEF RuleRefs
  <2>4. Count(OfAuths \o OfGroups, i) = (a + b + o) + g
    BY <2>1, CleanCount
  <2>7. GroupRefs(i)' = 0
    BY <1>1, <1>6, EmptyKept DEF GroupRefs
  <2>8. RuleRefs(i)' = 0
    <3>1. bypass' # i
      BY <1>1, HoldsAssumption
    <3>2. Kept(IpsOf(auths'), Given("auth")', i) = 0 /\ Kept(MacsOf(auths'), Given("auth")', i) = 0
      BY <1>1, <1>6, EmptyKept, Zenon
    <3> QED
      BY <1>6, <3>1, <3>2 DEF RuleRefs
  <2>9. PICK h \in Nat : h = HeldRefs(i) /\ HeldRefs(i)' = h
    BY <1>1, HeldNat DEF HeldRefs
  <2>10. refs[i] = g + (a + b + o) + h
    BY <1>7, <2>2, <2>3, <2>9 DEF RefsInv, BalanceInv, Balanced
  <2>11. refs'[i] = refs[i] - ((a + b + o) + g)
    BY <1>5, <2>4
  <2> QED
    BY <2>7, <2>8, <2>9, <2>10, <2>11 DEF Balanced
<1>8. BalanceInv'
  BY <1>1, <1>7 DEF BalanceInv
<1> QED
  BY <1>2, <1>4, <1>5, <1>8 DEF RefsInv

LEMMA RefsInit == Init => RefsInv
<1> SUFFICES ASSUME Init PROVE RefsInv
  OBVIOUS
<1>1. /\ \A w \in Writers : writer[w].pc = "idle" /\ writer[w].held = <<>>
      /\ ipgrps = <<>> /\ auths = <<>> /\ bypass = NoSet /\ refs = [i \in Ipsets |-> 0]
  BY DEF Init
<1>2. HeldInv
  BY <1>1 DEF HeldInv, HeldOK
<1>3. OneAtWork /\ AtInv
  BY <1>1 DEF OneAtWork, AtInv, AtWork
<1>4. RefsOK
  BY <1>1 DEF RefsOK
<1>5. Given("ipgrp") = {} /\ Given("auth") = {} /\ ~BypassGivenUp
  <2>1. \A dev : \A v \in Writers : ~(writer[v].pc = "store" /\ Line(v).dev = dev)
    BY <1>1
  <2> QED
    BY <2>1, NoneGiven
<1>6. ASSUME NEW i \in Ipsets PROVE Balanced(i)
  <2>3. GroupRefs(i) = 0
    BY <1>1, <1>5, EmptyKept DEF GroupRefs
  <2>4. RuleRefs(i) = 0
    <3>1. bypass # i
      BY <1>1, HoldsAssumption
    <3>2. Kept(IpsOf(auths), Given("auth"), i) = 0 /\ Kept(MacsOf(auths), Given("auth"), i) = 0
      BY <1>1, <1>5, EmptyKept, Zenon
    <3> QED
      BY <1>5, <3>1, <3>2 DEF RuleRefs
  <2>5. HeldRefs(i) = 0
    <3>1. HeldSet(writer, i) = {}
      BY <1>1 DEF HeldSet
    <3> QED
      BY <3>1, FS_EmptySet DEF HeldRefs
  <2>6. refs[i] = 0
    BY <1>1
  <2> QED
    BY <2>3, <2>4, <2>5, <2>6 DEF Balanced
<1> QED
  BY <1>2, <1>3, <1>4, <1>6 DEF RefsInv, BalanceInv

LEMMA RefsStep == TypeOK /\ TypeOK' /\ RefsInv /\ [Next]_vars => RefsInv'
<1> SUFFICES ASSUME TypeOK, TypeOK', RefsInv, [Next]_vars PROVE RefsInv'
  OBVIOUS
<1>1. WriterOK /\ TablesOK /\ TablesOK'
  BY DEF TypeOK
<1>2. ASSUME UNCHANGED <<ipgrps, auths, bypass, refs, clashed, writer>> PROVE RefsInv'
  BY <1>2, RefsStill DEF SameWriter
<1>3. ASSUME NEW c \in Cpus, nos_pre_hook(c) \/ Forward(c) PROVE RefsInv'
  <2>1. UNCHANGED <<ipgrps, auths, bypass, refs, clashed>> /\ (writer' = writer \/ Leave(c))
    BY <1>3, ForwardSame
  <2>2. \A w \in Writers : SameWriter(w)
    BY <1>1, <2>1, LeaveWriter DEF SameWriter
  <2> QED
    BY <2>1, <2>2, RefsStill
<1>4. ASSUME NEW w \in Writers, StartScript(w) \/ Write(w) PROVE RefsInv'
  BY <1>1, <1>4, StartRefs, GetRefs, RefusedRefs, MagicRefs, DisableRefs, GraceRefs, ChangeRefs, ApplyRefs,
     EnableRefs DEF Write
<1>5. ASSUME \/ \E u \in Terminals : NewConnection(u)
             \/ \E u \in Terminals, status \in {"ok", "req", "bypass"} : user_set_status(u, status)
             \/ UNCHANGED vars
      PROVE  RefsInv'
  <2>1. UNCHANGED <<ipgrps, auths, bypass, refs, clashed, writer>>
    BY <1>5 DEF NewConnection, user_set_status, config, vars
  <2> QED
    BY <1>2, <2>1
<1>6. ASSUME nos_exit PROVE RefsInv'
  BY <1>1, <1>6, ExitRefs
<1> QED
  BY <1>3, <1>4, <1>5, <1>6 DEF Next

RefsState == TypeOK /\ RefsInv

\* The ipset module counts one reference for each place of ipgrp_conf and auth_conf
\* that names an ipset and each one a line holds between ip_set_get_byname and its
\* end (nos_auth.c:584-645, nos_ipgrp.c:292-306): for tables and scripts of any
\* length, any finite number of writers that stop anywhere between the look-ups, the
\* refusal, the puts and the stores, and through nos_exit, until two lines of one
\* device are at work at the same time.
THEOREM ReferencesExact == Spec => []RefsExact
<1>1. Init => RefsState
  BY TypeInit, RefsInit DEF RefsState
<1>2. RefsState /\ [Next]_vars => RefsState'
  BY TypeStep, RefsStep DEF RefsState
<1>3. RefsState => RefsExact
  BY BalanceExact DEF RefsState, RefsInv, TypeOK
<1> QED
  BY <1>1, <1>2, <1>3, PTL DEF Spec

=============================================================================
