-------------------------------- MODULE Nacs --------------------------------
(***************************************************************************)
(* Access control and audit of forwarded flows (drivers/nacs/src), with the *)
(* two modules it works between: nproto, which tells nacs the application  *)
(* of a flow (drivers/nproto/src/main.c), and nfw, which drops or passes a *)
(* packet by the flags nacs left on its flow (drivers/nfw/src/main.c).     *)
(*                                                                         *)
(* The kernel holds one table of rules and one list of ipsets for control  *)
(* and one of each for audit.  The rule tool (ruletable/src) replaces them *)
(* one by one with setsockopt calls; a counter, the magic, tells a flow    *)
(* that was judged before a replacement that it has to be judged again.    *)
(*                                                                         *)
(* One flow is modelled, and its packets pass FORWARD one after another.   *)
(* Steps that touch the flow alone are joined; between two accesses to the *)
(* shared tables or to the magic any tool may take a step.                 *)
(***************************************************************************)
EXTENDS Integers, Sequences, FiniteSets

CONSTANTS
  Tools,      \* processes that run the rule tool
  Commits,    \* the configurations they load: sequences of replacements
  MaxMagic,   \* bound on the replacements made
  Ipsets,     \* the ipsets that exist
  MemberOf,   \* the ipsets that contain the source of the flow
  Flow,       \* zones and ip groups of its two ends
  NpRules,    \* what nproto may take the flow for: [id |-> 16 bit ID, crc |-> crc of the name]
  NoSet       \* IPSET_INVALID_ID

AC_ZONE_MAXID == 255
AC_IPGRP_MAXID == 63
FirstMagic == 999
Types == {"control", "audit"}
Nobody == "nobody"

\* The two actions a position of the list of ipsets stands for: MAC and IP
\* white list, MAC and IP black list.
ac_set_action_map == << {"accept"}, {"accept"}, {"audit", "reject"}, {"audit", "reject"} >>

\* An id of nproto and a crc are never the same number (do_ac_table_cb
\* has a BUG_ON for that), and 0 is the flow nobody has identified.
ASSUME NpRulesAssumption ==
  \A r, s \in NpRules : r.id # s.crc /\ r.id # 0

ASSUME MembersAssumption == MemberOf \subseteq Ipsets /\ NoSet \notin Ipsets

\* A rule as the tool writes it: its parser (audit_control.c) refuses ids
\* beyond the two maxima.
Rules == [srcZones : SUBSET (0 .. AC_ZONE_MAXID), srcGrps : SUBSET (0 .. AC_IPGRP_MAXID),
          dstZones : SUBSET (0 .. AC_ZONE_MAXID), dstGrps : SUBSET (0 .. AC_IPGRP_MAXID),
          protos : SUBSET Nat, actions : SUBSET {"accept", "reject", "audit"}]

\* The replacements of all configurations.
Replacements == UNION {{c[k] : k \in DOMAIN c} : c \in Commits}

\* A configuration makes at least one call; a list has at most four positions.
ASSUME CommitsAssumption ==
  /\ Commits \subseteq Seq(Replacements) \ {<<>>}
  /\ \A r \in Replacements :
       /\ r.type \in Types
       /\ \/ r.kind = "table" /\ r.info \in Seq(Rules)
          \/ r.kind = "set" /\ \E n \in 0 .. 4 : DOMAIN r.info = 1 .. n

ASSUME ToolsAssumption == IsFiniteSet(Tools)

VARIABLES
  loaded,   \* nacs is loaded and its hooks are registered
  sets,     \* priv_sets: for each type, the ipset of each position
  rules,    \* priv_tables: for each type, a sequence of rules
  magic,    \* nac_table.magic
  refs,     \* references the ipset module counts for each ipset
  mutex,    \* holder of nac_mutex
  tool,     \* for each tool: where it is, what is left to replace, the info in its hands
  flow,     \* the flow: hdr.proto, hdr.flags, the magic it was judged at, the id it was judged for
  job,      \* the packet in FORWARD
  app       \* the rule of nproto that identified the flow

vars == <<loaded, sets, rules, magic, refs, mutex, tool, flow, job, app>>

-----------------------------------------------------------------------------
(* Matching *)

ac_zone_check(zones, zone) == \E z \in zones : z = zone \/ z >= AC_ZONE_MAXID

ac_ipgrp_check(grps, bits) ==
  \E g \in grps : (g < 64 /\ g \in bits) \/ g >= AC_IPGRP_MAXID

flow_match_check(r) ==
  /\ ac_zone_check(r.srcZones, Flow.srcZone)
  /\ ac_ipgrp_check(r.srcGrps, Flow.srcGrps)
  /\ ac_zone_check(r.dstZones, Flow.dstZone)
  /\ ac_ipgrp_check(r.dstGrps, Flow.dstGrps)

\* performer sorts the ids (acconfig.lua:448) and the tool keeps their order:
\* the search finds an id exactly when the rule has it.
binary_search(ids, value) == value \in ids

proto_match_check(r, proto) == binary_search(r.protos, proto)

First(S) == CHOOSE i \in S : \A j \in S : i <= j

\* A judgement: where it was found and the actions found there, or nothing.
Mismatch == [sub |-> "none", actions |-> {}]

__do_set(info) ==
  LET hits == {i \in DOMAIN info : info[i] \in MemberOf}
  IN  IF hits = {} THEN Mismatch
      ELSE [sub |-> "set", actions |-> ac_set_action_map[First(hits)]]

__do_table(info, proto) ==
  LET hits == {i \in DOMAIN info : flow_match_check(info[i]) /\ proto_match_check(info[i], proto)}
  IN  IF hits = {} THEN Mismatch
      ELSE [sub |-> "rule", actions |-> info[First(hits)].actions]

__do_ac_table(type, proto) ==
  IF __do_set(sets[type]) # Mismatch
  THEN __do_set(sets[type]) ELSE __do_table(rules[type], proto)

-----------------------------------------------------------------------------
(* Flags of the flow *)

\* Mutant: the flag of the rules is left when a flow is judged again.
ClrKeepsL7(flags) == flags \ {"audit_fin", "control_fin", "drop_l4", "accept_l4", "accept_l7"}

\* FG_FLOW_AUDIT stays.
flow_flags_clr(flags) ==
  flags \ {"audit_fin", "control_fin", "drop_l4", "drop_l7", "accept_l4", "accept_l7"}

flow_flags_setdef(type) == IF type = "control" THEN {"control_fin"} ELSE {"audit_fin"}

\* Accept has priority over reject.
Rejected(actions) == "reject" \in actions /\ "accept" \notin actions

process_check_result(flags, type, res) ==
  flags \cup flow_flags_setdef(type)
        \cup (IF type = "audit" THEN {"audit"} \cap res.actions
              ELSE CASE res.sub = "set"  -> IF Rejected(res.actions) THEN {"drop_l4"} ELSE {"accept_l4"}
                     [] res.sub = "rule" -> IF Rejected(res.actions) THEN {"drop_l7"} ELSE {"accept_l7"})

nt_flow_accepted(flags) == flags \cap {"accept_l4", "accept_l7"} # {}
nt_flow_droped(flags) == flags \cap {"drop_l4", "drop_l7"} # {}

\* What nfw does to a packet of a flow with these flags, its debugging list
\* left aside.
Verdict(flags) == IF ~nt_flow_accepted(flags) /\ nt_flow_droped(flags) THEN "drop" ELSE "accept"

-----------------------------------------------------------------------------
(* The packet: nproto, nacs, nfw in this order *)

Idle == [pc |-> "idle"]

\* A packet enters FORWARD: nproto_update when nproto takes the flow for
\* another application, and the call of nacs from there.  `clean' remembers
\* whether the tables have been at rest since.
Packet(pc, rule) == [pc |-> pc, rule |-> rule, magic |-> 0, proto |-> flow.proto, by |-> "hk",
                     clean |-> \A t \in Tools : tool[t].pc # "swapped"]

nproto_update(r) ==
  /\ job = Idle
  /\ r.id # flow.proto
  /\ IF loaded
     THEN /\ job' = Packet("cb", r)
          /\ UNCHANGED <<flow, app>>
     ELSE /\ flow' = [flow EXCEPT !.proto = r.id]
          /\ app' = r
          /\ job' = Packet("nfw", r)
  /\ UNCHANGED <<loaded, sets, rules, magic, refs, mutex, tool>>

\* A packet that tells nproto nothing new.
SameProto ==
  /\ job = Idle
  /\ job' = Packet(IF loaded THEN "hk" ELSE "nfw", app)
  /\ UNCHANGED <<loaded, sets, rules, magic, refs, mutex, tool, flow, app>>

\* do_ac_table_cb: the magic is stored before the tables are read.
do_ac_table_cb ==
  /\ job.pc = "cb"
  /\ flow' = [flow EXCEPT !.magic = magic, !.flags = flow_flags_clr(@)]
  /\ job' = [job EXCEPT !.pc = "control", !.by = "cb", !.proto = job.rule.crc]
  /\ UNCHANGED <<loaded, sets, rules, magic, refs, mutex, tool, app>>

\* do_ac_table_hk: nothing is done for a flow not identified or judged at
\* this magic.  The magic read here is stored after the tables were read.
do_ac_table_hk ==
  /\ job.pc = "hk"
  /\ IF flow.proto = 0 \/ flow.magic = magic
     THEN job' = [job EXCEPT !.pc = "nfw"] /\ UNCHANGED flow
     ELSE /\ flow' = [flow EXCEPT !.flags = flow_flags_clr(@)]
          /\ job' = [job EXCEPT !.pc = "control", !.magic = magic, !.proto = flow.proto]
  /\ UNCHANGED <<loaded, sets, rules, magic, refs, mutex, tool, app>>

\* The flags after one round of the loop in do_ac_table.
Judged(type) ==
  LET res == __do_ac_table(type, job.proto)
  IN  IF res = Mismatch THEN flow.flags ELSE process_check_result(flow.flags, type, res)

\* First round of do_ac_table, under the read lock.
JudgeControl ==
  /\ job.pc = "control"
  /\ flow' = [flow EXCEPT !.flags = Judged("control"), !.by = job.proto]
  /\ job' = [job EXCEPT !.pc = "audit"]
  /\ UNCHANGED <<loaded, sets, rules, magic, refs, mutex, tool, app>>

\* Second round, under the read lock again, and what follows do_ac_table:
\* nproto_update stores the new id, do_ac_table_hk the magic.
JudgeAudit ==
  /\ job.pc = "audit"
  /\ \/ /\ job.by = "cb"
        /\ flow' = [flow EXCEPT !.flags = Judged("audit"), !.proto = job.rule.id]
        /\ app' = job.rule
        /\ job' = [job EXCEPT !.pc = "hk", !.by = "hk"]
     \/ /\ job.by = "hk"
        /\ flow' = [flow EXCEPT !.flags = Judged("audit"), !.magic = job.magic]
        /\ job' = [job EXCEPT !.pc = "nfw"]
        /\ UNCHANGED app
  /\ UNCHANGED <<loaded, sets, rules, magic, refs, mutex, tool>>

\* nfw_hook_fn: the packet leaves with Verdict(flow.flags).
nfw_hook_fn ==
  /\ job.pc = "nfw"
  /\ job' = Idle
  /\ UNCHANGED <<loaded, sets, rules, magic, refs, mutex, tool, flow, app>>

-----------------------------------------------------------------------------
(* The rule tool *)

\* The ipsets of an info, with their multiplicity.
Names(info, i) == Cardinality({k \in DOMAIN info : info[k] = i})

ip_set_get(info) == [i \in Ipsets |-> refs[i] + Names(info, i)]
ip_set_put(info) == [i \in Ipsets |-> refs[i] - Names(info, i)]

\* An ipset that does not exist is IPSET_INVALID_ID.
translate_set(info) == [k \in DOMAIN info |-> IF info[k] \in Ipsets THEN info[k] ELSE NoSet]

ToolIdle == [pc |-> "idle"]

\* The tool starts to load a configuration.
do_commit_config(t) ==
  /\ loaded
  /\ tool[t] = ToolIdle
  /\ \E c \in Commits : tool' = [tool EXCEPT ![t] = [pc |-> "call", todo |-> c, info |-> <<>>]]
  /\ UNCHANGED <<loaded, sets, rules, magic, refs, mutex, flow, job, app>>

\* What is left when a call has returned: the next one, or nothing.
Return(t) ==
  tool' = [tool EXCEPT ![t] = IF Len(@.todo) = 1 THEN ToolIdle
                              ELSE [pc |-> "call", todo |-> Tail(@.todo), info |-> <<>>]]

\* do_replace_table up to the mutex: the new table is allocated, copied and
\* checked.
do_replace_table(t) ==
  /\ tool[t].pc = "call"
  /\ magic < FirstMagic + MaxMagic
  /\ Head(tool[t].todo).kind = "table"
  /\ tool' = [tool EXCEPT ![t].pc = "lock", ![t].info = Head(tool[t].todo).info]
  /\ UNCHANGED <<loaded, sets, rules, magic, refs, mutex, flow, job, app>>

\* do_replace_set up to the mutex: the ipsets of the new list are looked up
\* and held.
do_replace_set(t) ==
  /\ tool[t].pc = "call"
  /\ magic < FirstMagic + MaxMagic
  /\ Head(tool[t].todo).kind = "set"
  /\ LET info == translate_set(Head(tool[t].todo).info)
     IN  /\ tool' = [tool EXCEPT ![t].pc = "lock", ![t].info = info]
         /\ refs' = ip_set_get(info)
  /\ UNCHANGED <<loaded, sets, rules, magic, mutex, flow, job, app>>

\* No memory for the new info: the tool gives up the rest of the configuration.
NoMemory(t) ==
  /\ tool[t].pc = "call"
  /\ tool' = [tool EXCEPT ![t] = ToolIdle]
  /\ UNCHANGED <<loaded, sets, rules, magic, refs, mutex, flow, job, app>>

\* A packet in FORWARD sees the replacement or not.
Disturb == job' = IF job = Idle THEN job ELSE [job EXCEPT !.clean = FALSE]

\* Under the mutex and the write lock, the new info takes the place of the
\* old one.
__do_replace_table(t) ==
  /\ tool[t].pc = "lock"
  /\ Head(tool[t].todo).kind = "table"
  /\ mutex = Nobody
  /\ mutex' = t
  /\ LET type == Head(tool[t].todo).type
     IN  /\ rules' = [rules EXCEPT ![type] = tool[t].info]
         /\ tool' = [tool EXCEPT ![t].pc = "swapped", ![t].info = rules[type]]
  /\ Disturb
  /\ UNCHANGED <<loaded, sets, magic, refs, flow, app>>

__do_replace_set(t) ==
  /\ tool[t].pc = "lock"
  /\ Head(tool[t].todo).kind = "set"
  /\ mutex = Nobody
  /\ mutex' = t
  /\ LET type == Head(tool[t].todo).type
     IN  /\ sets' = [sets EXCEPT ![type] = tool[t].info]
         /\ tool' = [tool EXCEPT ![t].pc = "swapped", ![t].info = sets[type]]
  /\ Disturb
  /\ UNCHANGED <<loaded, rules, magic, refs, flow, app>>

\* The counter moves after the tables.
IncMagic(t) ==
  /\ tool[t].pc = "swapped"
  /\ magic' = magic + 1
  /\ tool' = [tool EXCEPT ![t].pc = "free"]
  /\ UNCHANGED <<loaded, sets, rules, refs, mutex, flow, job, app>>

\* Mutant: the old list is freed like a table, its ipsets stay held.
FreeTableOnly(t) ==
  /\ tool[t].pc = "free"
  /\ Return(t)
  /\ mutex' = Nobody
  /\ UNCHANGED <<loaded, sets, rules, magic, refs, flow, job, app>>

\* The old info is freed, its ipsets are put, the mutex is released.
FreeOld(t) ==
  /\ tool[t].pc = "free"
  /\ Return(t)
  /\ refs' = IF Head(tool[t].todo).kind = "set" THEN ip_set_put(tool[t].info) ELSE refs
  /\ mutex' = Nobody
  /\ UNCHANGED <<loaded, sets, rules, magic, flow, job, app>>

\* nacs_fini: the hooks and the sockopts are gone when table_fini runs.
nacs_fini ==
  /\ loaded
  /\ job = Idle
  /\ \A t \in Tools : tool[t] = ToolIdle
  /\ loaded' = FALSE
  /\ refs' = [i \in Ipsets |-> refs[i] - Names(sets["control"], i) - Names(sets["audit"], i)]
  /\ sets' = [type \in Types |-> <<>>]
  /\ rules' = [type \in Types |-> <<>>]
  /\ UNCHANGED <<magic, mutex, tool, flow, job, app>>

-----------------------------------------------------------------------------
Unknown == [id |-> 0, crc |-> 0]

Init ==
  /\ loaded = TRUE
  /\ sets = [type \in Types |-> <<>>]
  /\ rules = [type \in Types |-> <<>>]
  /\ magic = FirstMagic
  /\ refs = [i \in Ipsets |-> 0]
  /\ mutex = Nobody
  /\ tool = [t \in Tools |-> ToolIdle]
  /\ flow = [proto |-> 0, flags |-> {}, magic |-> 0, by |-> 0]
  /\ job = Idle
  /\ app = Unknown

Forward ==
  \/ \E r \in NpRules : nproto_update(r)
  \/ SameProto
  \/ do_ac_table_cb
  \/ do_ac_table_hk
  \/ JudgeControl
  \/ JudgeAudit
  \/ nfw_hook_fn

Tool(t) ==
  \/ do_commit_config(t)
  \/ do_replace_table(t)
  \/ do_replace_set(t)
  \/ NoMemory(t)
  \/ __do_replace_table(t)
  \/ __do_replace_set(t)
  \/ IncMagic(t)
  \/ FreeOld(t)

Next == Forward \/ (\E t \in Tools : Tool(t)) \/ nacs_fini

Spec == Init /\ [][Next]_vars
-----------------------------------------------------------------------------
(* What an administrator may expect of the tables *)

\* A rule covers the flow: one of its zones and groups on either side, or
\* the id that stands for all of them, and the application.
Covers(r, proto) ==
  /\ {Flow.srcZone, AC_ZONE_MAXID} \cap r.srcZones # {}
  /\ {Flow.dstZone, AC_ZONE_MAXID} \cap r.dstZones # {}
  /\ (Flow.srcGrps \cup {AC_IPGRP_MAXID}) \cap r.srcGrps # {}
  /\ (Flow.dstGrps \cup {AC_IPGRP_MAXID}) \cap r.dstGrps # {}
  /\ proto \in r.protos

\* The actions of the first ipset of a list, then rule of a table, that
\* applies to the flow.
FirstThatApplies(list, table, proto) ==
  LET ofSets == [k \in DOMAIN list |->
                   [hit |-> list[k] \in MemberOf, actions |-> ac_set_action_map[k]]]
      ofRules == [k \in DOMAIN table |->
                   [hit |-> Covers(table[k], proto), actions |-> table[k].actions]]
      all == ofSets \o ofRules
      first == {k \in DOMAIN all : all[k].hit /\ \A j \in 1 .. k - 1 : ~all[j].hit}
  IN  UNION {all[k].actions : k \in first}

Ruling(type, proto) == FirstThatApplies(sets[type], rules[type], proto)

\* A packet is about to be judged by nfw and no table has been replaced
\* since it came in.
Undisturbed == job.pc = "nfw" /\ loaded /\ job.clean

\* nfw drops exactly what the present tables reject, and audits at least
\* what they audit, when the flow goes by the number `proto'.
ControlFollows(proto) == (Verdict(flow.flags) = "drop") <=> Rejected(Ruling("control", proto))

Follows(proto) ==
  /\ ControlFollows(proto)
  /\ "audit" \in Ruling("audit", proto) => "audit" \in flow.flags

\* Whatever the order of replacements, identifications and packets, a packet
\* that came in after the last replacement (do_replace_set, do_replace_table)
\* is treated by nfw_hook_fn as the present tables say for the number the
\* flow was last judged for; no flag of an earlier judgement is left.
Current == Undisturbed /\ flow.by # 0 => Follows(flow.by)

\* The same for the number the rules are written with, the crc of the name
\* of the application: what the comment "crc(appname)" in ntrack_nacs.h and
\* the type of np_hook_t say proto_id is.
Enforced == Undisturbed /\ app # Unknown => Follows(app.crc)

\* The ipset module counts one reference for each place that names an ipset:
\* the lists in use, the ones a tool is about to install and the ones it has
\* replaced and not yet freed (translate_set, free_ac_set_info, table_fini).
\* An ipset in use can thus not be destroyed, and one out of use can.
RefsBalanced ==
  \A i \in Ipsets :
    refs[i] = Names(sets["control"], i) + Names(sets["audit"], i)
              + Cardinality({h \in Tools \X (1 .. 4) :
                               /\ tool[h[1]].pc \in {"lock", "swapped", "free"}
                               /\ Head(tool[h[1]].todo).kind = "set"
                               /\ h[2] \in DOMAIN tool[h[1]].info
                               /\ tool[h[1]].info[h[2]] = i})

-----------------------------------------------------------------------------
(* Types *)

\* The ids and crcs a flow may carry.
Numbers == {0} \cup {r.id : r \in NpRules} \cup {r.crc : r \in NpRules}

SetInfos == UNION {[1 .. n -> Ipsets \cup {NoSet}] : n \in 0 .. 4}

Flags == {"audit_fin", "control_fin", "audit", "drop_l4", "drop_l7", "accept_l4", "accept_l7"}

\* The state has its type: what a tool holds fits the call it is in, and a
\* packet that nacs works on has a rule of nproto where the code reads one.
TypeOK ==
  /\ loaded \in BOOLEAN
  /\ sets \in [Types -> SetInfos]
  /\ rules \in [Types -> Seq(Rules)]
  /\ magic \in Nat
  /\ refs \in [Ipsets -> Int]
  /\ tool \in [Tools -> {ToolIdle} \cup
                 [pc : {"call", "lock", "swapped", "free"}, todo : Seq(Replacements) \ {<<>>},
                  info : SetInfos \cup Seq(Rules)]]
  /\ \A t \in Tools : tool[t].pc \in {"lock", "swapped", "free"} =>
       tool[t].info \in IF Head(tool[t].todo).kind = "set" THEN SetInfos ELSE Seq(Rules)
  /\ flow \in [proto : Numbers, flags : SUBSET Flags, magic : Nat, by : Numbers]
  /\ job \in {Idle} \cup [pc : {"cb", "hk", "control", "audit", "nfw"}, rule : NpRules \cup {Unknown},
                          magic : Nat, proto : Numbers, by : {"hk", "cb"}, clean : BOOLEAN]
  /\ job.pc = "cb" \/ (job.pc \in {"control", "audit"} /\ job.by = "cb") => job.rule \in NpRules
  /\ job.pc = "hk" => job.by = "hk"
  /\ app \in NpRules \cup {Unknown}

=============================================================================
