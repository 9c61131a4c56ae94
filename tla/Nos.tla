-------------------------------- MODULE Nos ---------------------------------
(***************************************************************************)
(* The nos kernel module (drivers/nos/src): the zone and the ip groups of  *)
(* the terminal behind a connection, and the authentication rule that the  *)
(* terminal falls under.  Each of the three tables has a device; a script  *)
(* (ac-apps/nos-zone, nos-ipgrp, nos-auth) writes "clean", one line for    *)
(* each entry and "update magic" to it.  Terminals keep what was found for *)
(* them together with the magic it was found at.                           *)
(*                                                                         *)
(* The tables have no lock.  A line sets nos_hook_disable, waits with      *)
(* synchronize_rcu for the packets that are in the hooks, changes the      *)
(* table and clears the flag; a packet that finds the flag set passes.     *)
(* Nothing keeps two lines apart: the init scripts run in the background   *)
(* and hotplug starts nos-zone again, so that any number of writers is at  *)
(* work, on different devices or on the same one.  A line is cut into the  *)
(* steps between which another writer can tell the difference.             *)
(*                                                                         *)
(* The record of a terminal has no lock either: two CPUs with packets of   *)
(* one terminal look it up and store what they found in any order.  The    *)
(* record of the other end, filled by the same code and read nowhere in    *)
(* this module, is left out.                                               *)
(***************************************************************************)
EXTENDS Integers, Sequences, FiniteSets, SequencesExt

CONSTANTS
  Cpus,        \* CPUs that forward packets
  Terminals,   \* terminals, each with one connection
  Interfaces,  \* network interfaces
  InIf,        \* the interface of each terminal
  Ipsets,      \* the ipsets that exist
  Holds,       \* for each ipset, the terminals in it
  Kinds,       \* kinds of packets
  Writers,     \* processes that run scripts
  Scripts,     \* for each writer the scripts it may run: sequences of lines
  MaxScripts,  \* bound on the scripts each writer runs
  NoSet        \* no ipset: the group of all addresses, or no white list

INVALID_ZONE_ID == 255
INVALID_AUTH_RULE_ID == 255
MAX_IPGRP == 64
MAX_AUTH == 16
FirstMagic == 50855
Devices == {"zone", "ipgrp", "auth"}

ASSUME HoldsAssumption ==
  /\ NoSet \notin Ipsets
  /\ Holds \in [Ipsets -> SUBSET Terminals]

\* Each terminal is behind an interface.
ASSUME NodesAssumption == InIf \in [Terminals -> Interfaces]

\* The lines of all scripts.  A script writes at least one line, each names its
\* device, and only nos_auth has a list of free servers.
Lines == UNION {{s[k] : k \in DOMAIN s} : s \in UNION {Scripts[w] : w \in Writers}}

ASSUME ScriptsAssumption ==
  /\ Scripts \in [Writers -> SUBSET (Seq(Lines) \ {<<>>})]
  /\ \A l \in Lines : /\ l.dev \in Devices
                      /\ l.op \in {"clean", "set", "delete", "bypass", "magic"}
                      /\ l.op = "bypass" => l.dev = "auth"

ASSUME WritersAssumption == IsFiniteSet(Writers)

VARIABLES
  loaded,    \* the hooks are registered
  disable,   \* nos_hook_disable
  zones,     \* if_zone_map
  ipgrps,    \* ipgrp_conf: [id, set]
  auths,     \* auth_conf: [id, zone, grp, type, ip, mac]
  bypass,    \* auth_conf.bypass_dst_list_set
  magic,     \* g_zone_conf_magic, g_ipgrp_conf_magic, g_auth_conf_magic
  refs,      \* references the ipset module counts
  node,      \* hdr of a terminal: zone and groups
  term,      \* hdr of a terminal: type, status, rule_id, rule_magic
  ct,        \* mark of each connection
  job,       \* the packet each CPU is at
  writer,    \* for each writer: where it is, the lines left, the entry it found,
             \* the ipsets it holds, the CPUs it waits for
  runs,      \* scripts each writer started
  behind,    \* history: what changed since the rules were last announced
  clashed    \* history: devices whose lines were at work at the same time

config == <<zones, ipgrps, auths, bypass, magic, refs, behind, clashed>>
traffic == <<node, term, ct>>
vars == <<loaded, disable, zones, ipgrps, auths, bypass, magic, refs, node, term,
          ct, job, writer, runs, behind, clashed>>

Idle == [pc |-> "idle"]

\* A line of the device is writing its table: what is read from it is torn.
Line(w) == Head(writer[w].todo)
Storing(dev) == \E w \in Writers : writer[w].pc = "store" /\ Line(w).dev = dev

-----------------------------------------------------------------------------
(* Matching *)

\* 1 << id in an int of 32 bits, widened to the 64 bits of ipgrp_bits: the
\* shift uses the low five bits of id, and the sign fills the upper half.
Shift(id) == IF id % 32 = 31 THEN 31 .. 63 ELSE {id % 32}

nos_zone_match(if) == zones[if]

\* nos_ipgrp_match_src and nos_ipgrp_match_dst
nos_ipgrp_match(n) ==
  UNION {Shift(ipgrps[i].id) : i \in {k \in DOMAIN ipgrps :
           ipgrps[k].set = NoSet \/ n \in Holds[ipgrps[k].set]}}

\* What the loop over a table that is being written may find: any of the
\* groups of the lines, or the group 0 of all addresses of a cleared entry.
TornGroups ==
  SUBSET ({0} \cup UNION {Shift(l.id) : l \in {k \in Lines : k.dev = "ipgrp" /\ k.op = "set"}})

GroupsFound(n) == IF Storing("ipgrp") THEN TornGroups ELSE {nos_ipgrp_match(n)}

Listed(u, set) == set # NoSet /\ u \in Holds[set]

\* A rule of auth_conf applies to what is stored for the terminal.
Applies(r, u) == node[u].zone_id = r.zone /\ node[u].ipgrp_bits \cap Shift(r.grp) # {}

FirstApplying(u) == SelectInSeq(auths, LAMBDA r : Applies(r, u))

\* The entry the loop of nos_auth_hook stops at; one of a table that is being
\* written may be any rule of the lines or a cleared one, which is no "auto".
NotFound == [at |-> 0, id |-> INVALID_AUTH_RULE_ID, type |-> "unknown"]
Entry(i) == IF i = 0 THEN NotFound ELSE [at |-> i, id |-> auths[i].id, type |-> auths[i].type]
TornEntries ==
  {NotFound, [at |-> MAX_AUTH + 1, id |-> 0, type |-> "web"]}
    \cup {[at |-> MAX_AUTH + 1, id |-> l.id, type |-> l.type] :
            l \in {k \in Lines : k.dev = "auth" /\ k.op = "set"}}

RuleFound(u) == IF Storing("auth") THEN TornEntries ELSE {Entry(FirstApplying(u))}

-----------------------------------------------------------------------------
(* Hooks *)

\* A packet enters PRE_ROUTING.  From here to the end of FORWARD it is in
\* one RCU read section.
nos_pre_hook(c) ==
  /\ loaded
  /\ job[c] = Idle
  /\ \E u \in Terminals :
       /\ disable \/ ct[u] # "drop"
       /\ job' = [job EXCEPT ![c] = [pc |-> "fw", u |-> u, late |-> FALSE,
                                     zone |-> 0, bits |-> {}, at |-> 0]]
  /\ UNCHANGED <<loaded, disable, config, traffic, writer, runs>>

\* The end of the read section: the writers stop waiting for the CPU.
Released(x, c) == [x EXCEPT !.wait = @ \ {c}]

Leave(c) ==
  /\ job' = [job EXCEPT ![c] = Idle]
  /\ writer' = [w \in Writers |-> Released(writer[w], c)]

\* nos_fw_hook: nothing is looked up while the hooks are disabled, or for a
\* connection that is let through.
nos_fw_hook(c) ==
  /\ job[c].pc = "fw"
  /\ IF disable \/ ct[job[c].u] = "bypass"
     THEN Leave(c)
     ELSE job' = [job EXCEPT ![c].pc = "zone"] /\ UNCHANGED writer
  /\ UNCHANGED <<loaded, disable, config, traffic, runs>>

Goto(c, pc) == job' = [job EXCEPT ![c].pc = pc]

\* Mutant: a terminal keeps the zone it was found in first.
ZoneNew(n) == n.zone_magic = 0

\* What is stored was found at another magic.
ZoneStale(n)  == n.zone_magic # magic.zone
IpgrpStale(n) == n.ipgrp_magic # magic.ipgrp

Zoned(n, z)   == [n EXCEPT !.zone_id = z, !.zone_magic = magic.zone]
Grouped(n, b) == [n EXCEPT !.ipgrp_bits = b, !.ipgrp_magic = magic.ipgrp]

\* The table is read; the value is stored with the magic of that moment.
ZoneMatch(c) ==
  /\ job[c].pc = "zone"
  /\ IF ZoneStale(node[job[c].u])
     THEN job' = [job EXCEPT ![c].pc = "zoned", ![c].zone = nos_zone_match(InIf[job[c].u])]
     ELSE Goto(c, "ipgrp")
  /\ UNCHANGED <<loaded, disable, config, traffic, writer, runs>>

ZoneStore(c) ==
  /\ job[c].pc = "zoned"
  /\ node' = [node EXCEPT ![job[c].u] = Zoned(@, job[c].zone)]
  /\ job' = [job EXCEPT ![c].pc = "ipgrp", ![c].zone = 0]
  /\ UNCHANGED <<loaded, disable, config, term, ct, writer, runs>>

IpgrpMatch(c) ==
  /\ job[c].pc = "ipgrp"
  /\ IF IpgrpStale(node[job[c].u])
     THEN \E b \in GroupsFound(job[c].u) :
            job' = [job EXCEPT ![c].pc = "grouped", ![c].bits = b]
     ELSE Goto(c, "auth")
  /\ UNCHANGED <<loaded, disable, config, traffic, writer, runs>>

IpgrpStore(c) ==
  /\ job[c].pc = "grouped"
  /\ node' = [node EXCEPT ![job[c].u] = Grouped(@, job[c].bits)]
  /\ job' = [job EXCEPT ![c].pc = "auth", ![c].bits = {}]
  /\ UNCHANGED <<loaded, disable, config, term, ct, writer, runs>>

\* A terminal is looked up again when the rules were announced and it is not
\* authenticated, or when it is new.
MustClassify(t) == (t.rule_magic # magic.auth /\ t.status # "ok") \/ t.status = "none"

nos_auth_hook(c) ==
  /\ job[c].pc = "auth"
  /\ Goto(c, IF MustClassify(term[job[c].u]) THEN "reset" ELSE "judge")
  /\ UNCHANGED <<loaded, disable, config, traffic, writer, runs>>

\* The record is first that of a terminal without a rule, which passes.
AuthReset(c) ==
  /\ job[c].pc = "reset"
  /\ term' = [term EXCEPT ![job[c].u] = [type |-> "unknown", status |-> "bypass",
                                        rule_id |-> INVALID_AUTH_RULE_ID, rule_magic |-> magic.auth]]
  /\ Goto(c, "search")
  /\ UNCHANGED <<loaded, disable, config, node, ct, writer, runs>>

\* The first rule that applies is stored.  (nos_user_info_hold, which belongs
\* to another module, is left out.)
Ruled(t, e) ==
  IF e.at = 0 THEN t
  ELSE [t EXCEPT !.rule_id = e.id, !.type = e.type,
                 !.status = IF e.type = "auto" THEN "ok" ELSE "req"]

AuthSearch(c) ==
  /\ job[c].pc = "search"
  /\ \E e \in RuleFound(job[c].u) :
       /\ term' = [term EXCEPT ![job[c].u] = Ruled(@, e)]
       /\ job' = [job EXCEPT ![c].pc = IF e.type = "web" THEN "white" ELSE "judge",
                             ![c].at = IF e.type = "web" THEN e.at ELSE 0]
  /\ UNCHANGED <<loaded, disable, config, node, ct, writer, runs>>

\* The white lists of the entry, which is another or none if the table was changed.
WhiteFound(u, i) ==
  IF Storing("auth") \/ i \notin DOMAIN auths THEN BOOLEAN
  ELSE {Listed(u, auths[i].ip) \/ Listed(u, auths[i].mac)}

AuthWhite(c) ==
  /\ job[c].pc = "white"
  /\ \E listed \in WhiteFound(job[c].u, job[c].at) :
       term' = IF listed THEN [term EXCEPT ![job[c].u].status = "bypass"] ELSE term
  /\ job' = [job EXCEPT ![c].pc = "judge", ![c].at = 0]
  /\ UNCHANGED <<loaded, disable, config, node, ct, writer, runs>>

\* What a web terminal that has yet to log in may send: name and address
\* service, the listed servers, and TCP without data.  The rest is dropped,
\* and its connection with it.
Marked(u, kind) ==
  IF (kind = "listed" /\ bypass # NoSet) \/ kind = "dns" THEN "bypass"
  ELSE IF kind \in {"listed", "http", "data", "udp"} THEN "drop" ELSE ct[u]

\* The rest of nos_auth_hook, and the end of the read section with it: ending
\* it there only lets the writers go on earlier.  The message to authd for an
\* authenticated terminal, once in 30 seconds, is left out (its queue is NtMsg).
AuthJudge(c) ==
  /\ job[c].pc = "judge"
  /\ LET u == job[c].u
         t == term[u]
     IN  /\ term' = IF t.status = "req" /\ t.type = "auto"
                    THEN [term EXCEPT ![u].status = "ok"] ELSE term
         /\ \E kind \in Kinds :
              ct' = IF t.status = "req" /\ t.type = "web"
                    THEN [ct EXCEPT ![u] = Marked(u, kind)] ELSE ct
  /\ Leave(c)
  /\ UNCHANGED <<loaded, disable, config, node, runs>>

\* The connection of a terminal ends and another begins.
NewConnection(u) ==
  /\ ct[u] # "none"
  /\ \A c \in Cpus : job[c] # Idle => job[c].u # u
  /\ ct' = [ct EXCEPT ![u] = "none"]
  /\ UNCHANGED <<loaded, disable, config, node, term, job, writer, runs>>

\* authd writes the status of a terminal it knows into the shared memory.
user_set_status(u, status) ==
  /\ term[u].status # "none"
  /\ term[u].status # status
  /\ term' = [term EXCEPT ![u].status = status]
  /\ UNCHANGED <<loaded, disable, config, node, ct, job, writer, runs>>

-----------------------------------------------------------------------------
(* Lines written to the devices *)

\* The line is done with: the next one, or nothing.
Next1(w) == [pc |-> IF Len(writer[w].todo) = 1 THEN "idle" ELSE "call",
             todo |-> Tail(writer[w].todo), at |-> 0, held |-> <<>>, wait |-> {}, alone |-> TRUE]

StartScript(w) ==
  /\ loaded
  /\ writer[w].pc = "idle"
  /\ runs[w] < MaxScripts
  /\ runs' = [runs EXCEPT ![w] = @ + 1]
  /\ \E s \in Scripts[w] : writer' = [writer EXCEPT ![w].pc = "call", ![w].todo = s]
  /\ UNCHANGED <<loaded, disable, config, traffic, job>>

\* The ipsets a line names.
Named(l) ==
  CASE l.op = "set" /\ l.dev = "ipgrp" -> <<l.set>>
    [] l.op = "set" /\ l.dev = "auth"  -> <<l.ip, l.mac>>
    [] l.op = "bypass"                 -> <<l.set>>
    [] OTHER                           -> <<>>

\* The next of them to look up.
NextName(w) == Named(Line(w))[Len(writer[w].held) + 1]
AllHeld(w)  == Len(writer[w].held) = Len(Named(Line(w)))

Count(names, i) == Cardinality({k \in DOMAIN names : names[k] = i})
ip_set_get(names) == [i \in Ipsets |-> refs[i] + Count(names, i)]
ip_set_put(names) == [i \in Ipsets |-> refs[i] - Count(names, i)]

\* The line looks up the next ipset it names.
ip_set_get_byname(w) ==
  /\ writer[w].pc = "call"
  /\ ~AllHeld(w)
  /\ NextName(w) \in Ipsets \cup {NoSet}
  /\ refs' = ip_set_get(<<NextName(w)>>)
  /\ writer' = [writer EXCEPT ![w].held = Append(@, NextName(w))]
  /\ UNCHANGED <<loaded, disable, zones, ipgrps, auths, bypass, magic, behind, clashed,
                 traffic, job, runs>>

Position(seq, id) == SelectInSeq(seq, LAMBDA e : e.id = id)

\* What each device refuses before it disables the hooks.
nos_zone_refuses(l) == l.op = "set" /\ (l.id >= INVALID_ZONE_ID \/ l.if \notin Interfaces)

nos_ipgrp_refuses(l) ==
  \/ l.op = "set" /\ (l.id >= MAX_IPGRP \/ Position(ipgrps, l.id) # 0 \/ Len(ipgrps) = MAX_IPGRP)
  \/ l.op = "delete" /\ Position(ipgrps, l.id) = 0

nos_auth_refuses(l) ==
  \/ /\ l.op = "set"
     /\ \/ l.id >= MAX_AUTH
        \/ l.zone >= INVALID_ZONE_ID
        \/ l.grp >= MAX_IPGRP
        \/ Position(auths, l.id) # 0
        \/ Len(auths) = MAX_AUTH
  \/ l.op = "delete" /\ Position(auths, l.id) = 0

Refuses(l) ==
  \/ l.dev = "zone" /\ nos_zone_refuses(l)
  \/ l.dev = "ipgrp" /\ nos_ipgrp_refuses(l)
  \/ l.dev = "auth" /\ nos_auth_refuses(l)

\* Mutant: a refused line puts the first of its ipsets only.
RefusedPutsOne(w) ==
  /\ writer[w].pc = "call"
  /\ Line(w).op # "magic"
  /\ IF AllHeld(w) THEN Refuses(Line(w)) ELSE NextName(w) \notin Ipsets \cup {NoSet}
  /\ refs' = ip_set_put(SubSeq(writer[w].held, 1, 1))
  /\ writer' = [writer EXCEPT ![w] = Next1(w)]
  /\ UNCHANGED <<loaded, disable, zones, ipgrps, auths, bypass, magic, behind, clashed,
                 traffic, job, runs>>

\* A line that names an ipset that does not exist, or that its device refuses:
\* what it took is put.
Refused(w) ==
  /\ writer[w].pc = "call"
  /\ Line(w).op # "magic"
  /\ IF AllHeld(w) THEN Refuses(Line(w)) ELSE NextName(w) \notin Ipsets \cup {NoSet}
  /\ refs' = ip_set_put(writer[w].held)
  /\ writer' = [writer EXCEPT ![w] = Next1(w)]
  /\ UNCHANGED <<loaded, disable, zones, ipgrps, auths, bypass, magic, behind, clashed,
                 traffic, job, runs>>

\* Past the test of the flag.
Inside(c) == job[c].pc \notin {"idle", "fw"}

\* The packets under way read the tables before and after this step.
Outdated(j) == [j EXCEPT !.late = TRUE]
MarkLate == job' = [c \in Cpus |-> IF Inside(c) THEN Outdated(job[c]) ELSE job[c]]

\* The magics have 16 bits.
NextMagic(m) == (m + 1) % 65536

\* What an announcement settles: nothing while a packet is under way that began
\* before the last change, or while the table is being written.
Settled(dev) ==
  IF Storing(dev) \/ (\E c \in Cpus : Inside(c) /\ job[c].late) THEN {}
  ELSE IF dev = "auth" THEN {"auth", "zone magic", "ipgrp magic"} ELSE {dev}

\* What it leaves to the next announcement of the rules; and a magic that wraps
\* may be one that terminals still hold.
Unsettled(dev) ==
  (IF dev = "zone" THEN {"zone magic"} ELSE IF dev = "ipgrp" THEN {"ipgrp magic"} ELSE {})
    \cup (IF NextMagic(magic[dev]) = 0 THEN {"wrap"} ELSE {})

\* "update magic": no flag, no waiting.
UpdateMagic(w) ==
  /\ writer[w].pc = "call"
  /\ Line(w).op = "magic"
  /\ LET dev == Line(w).dev
     IN  /\ magic' = [magic EXCEPT ![dev] = NextMagic(@)]
         /\ behind' = (behind \ Settled(dev)) \cup Unsettled(dev)
         /\ IF dev = "auth" THEN UNCHANGED job ELSE MarkLate
  /\ writer' = [writer EXCEPT ![w] = Next1(w)]
  /\ UNCHANGED <<loaded, disable, zones, ipgrps, auths, bypass, refs, clashed, traffic, runs>>

\* Between its tests and its last store a line relies on the table it found.
AtWork(w, dev) == writer[w].pc \in {"wait", "change", "store"} /\ Line(w).dev = dev

\* The entry to delete is found before the hooks are disabled.
FoundAt(l) ==
  IF l.op # "delete" THEN 0
  ELSE CASE l.dev = "ipgrp" -> Position(ipgrps, l.id)
         [] l.dev = "auth"  -> Position(auths, l.id)
         [] OTHER           -> 0

\* Mutant: the hooks are disabled and nobody is waited for.
DisableOnly(w) ==
  /\ writer[w].pc = "call"
  /\ Line(w).op # "magic"
  /\ AllHeld(w)
  /\ ~Refuses(Line(w))
  /\ disable' = TRUE
  /\ clashed' = clashed \cup {dev \in {Line(w).dev} : \E v \in Writers : AtWork(v, dev)}
  /\ writer' = [writer EXCEPT ![w].pc = "wait", ![w].wait = {}, ![w].at = FoundAt(Line(w))]
  /\ UNCHANGED <<loaded, zones, ipgrps, auths, bypass, magic, refs, behind, traffic, job, runs>>

\* Every other line: nos_hook_disable = 1, and synchronize_rcu begins.
DisableHooks(w) ==
  /\ writer[w].pc = "call"
  /\ Line(w).op # "magic"
  /\ AllHeld(w)
  /\ ~Refuses(Line(w))
  /\ disable' = TRUE
  /\ clashed' = clashed \cup {dev \in {Line(w).dev} : \E v \in Writers : AtWork(v, dev)}
  /\ writer' = [writer EXCEPT ![w].pc = "wait",
                              ![w].wait = {c \in Cpus : job[c] # Idle},
                              ![w].at = FoundAt(Line(w))]
  /\ UNCHANGED <<loaded, zones, ipgrps, auths, bypass, magic, refs, behind, traffic, job, runs>>

\* Mutant: a moment without packets on any CPU is waited for.
QuietMoment(w) ==
  /\ writer[w].pc = "wait"
  /\ \A c \in Cpus : job[c] = Idle
  /\ writer' = [writer EXCEPT ![w].pc = "change"]
  /\ UNCHANGED <<loaded, disable, config, traffic, job, runs>>

\* synchronize_rcu returns.
GracePeriod(w) ==
  /\ writer[w].pc = "wait"
  /\ writer[w].wait = {}
  /\ writer' = [writer EXCEPT ![w].pc = "change"]
  /\ UNCHANGED <<loaded, disable, config, traffic, job, runs>>

\* The ipsets held for a rule, for all of auth_conf and for all of ipgrp_conf.
White(r) == <<r.ip, r.mac>>
OfAuths == <<bypass>> \o [k \in DOMAIN auths |-> auths[k].ip] \o [k \in DOMAIN auths |-> auths[k].mac]
OfGroups == [k \in DOMAIN ipgrps |-> ipgrps[k].set]

\* The ipsets a line puts: those of the entries it removes, or the list it
\* replaces.  An entry that another line has removed meanwhile is not read.
Puts(l, at) ==
  CASE l.op = "clean" /\ l.dev = "ipgrp" -> OfGroups
    [] l.op = "clean" /\ l.dev = "auth"  -> OfAuths
    [] l.op = "bypass"                   -> <<bypass>>
    [] l.op = "delete" /\ l.dev = "ipgrp" /\ at \in DOMAIN ipgrps -> <<ipgrps[at].set>>
    [] l.op = "delete" /\ l.dev = "auth" /\ at \in DOMAIN auths   -> White(auths[at])
    [] OTHER -> <<>>

\* i = num of a "set"
Slot(l, at) ==
  IF l.op # "set" THEN at
  ELSE CASE l.dev = "ipgrp" -> Len(ipgrps) [] l.dev = "auth" -> Len(auths) [] OTHER -> 0

\* The first half of a change, up to the first store into the table.
Change(w) ==
  /\ writer[w].pc = "change"
  /\ refs' = ip_set_put(Puts(Line(w), writer[w].at))
  /\ behind' = behind \cup {Line(w).dev}
  /\ writer' = [writer EXCEPT ![w].pc = "store", ![w].at = Slot(Line(w), @)]
  /\ UNCHANGED <<loaded, disable, zones, ipgrps, auths, bypass, magic, clashed, traffic, job, runs>>

\* The second half: the table is as the line leaves it.
Store(w, dev, op) ==
  /\ writer[w].pc = "store"
  /\ Line(w).dev = dev
  /\ Line(w).op = op
  /\ behind' = behind \cup {dev}
  /\ MarkLate
  /\ writer' = [writer EXCEPT ![w].pc = "enable", ![w].at = 0, ![w].held = <<>>]
  /\ UNCHANGED <<loaded, disable, magic, refs, clashed, traffic, runs>>

\* Slot i is written and num becomes i + 1, whatever num is by then.
Stored(seq, i, e, blank) ==
  [k \in 1 .. (i + 1) |-> IF k = i + 1 THEN e ELSE IF k <= Len(seq) THEN seq[k] ELSE blank]

\* The entries behind i move up and num decreases.  (In an empty table num, an
\* unsigned int, wraps: see the README.)
Removed(seq, i) == IF i \in DOMAIN seq THEN RemoveAt(seq, i) ELSE IF seq = <<>> THEN <<>> ELSE Front(seq)

nos_zone_cleanup(w) ==
  /\ Store(w, "zone", "clean")
  /\ zones' = [if \in Interfaces |-> INVALID_ZONE_ID]
  /\ UNCHANGED <<ipgrps, auths, bypass>>

nos_zone_set(w) ==
  /\ Store(w, "zone", "set")
  /\ zones' = [zones EXCEPT ![Line(w).if] = Line(w).id]
  /\ UNCHANGED <<ipgrps, auths, bypass>>

nos_zone_delete(w) ==
  /\ Store(w, "zone", "delete")
  /\ zones' = [if \in Interfaces |-> IF zones[if] = Line(w).id THEN INVALID_ZONE_ID ELSE zones[if]]
  /\ UNCHANGED <<ipgrps, auths, bypass>>

nos_ipgrp_cleanup(w) ==
  /\ Store(w, "ipgrp", "clean")
  /\ ipgrps' = <<>>
  /\ UNCHANGED <<zones, auths, bypass>>

BlankGroup == [id |-> 0, set |-> NoSet]

nos_ipgrp_set(w) ==
  /\ Store(w, "ipgrp", "set")
  /\ ipgrps' = Stored(ipgrps, writer[w].at, [id |-> Line(w).id, set |-> Line(w).set], BlankGroup)
  /\ UNCHANGED <<zones, auths, bypass>>

nos_ipgrp_delete(w) ==
  /\ Store(w, "ipgrp", "delete")
  /\ ipgrps' = Removed(ipgrps, writer[w].at)
  /\ UNCHANGED <<zones, auths, bypass>>

nos_auth_cleanup(w) ==
  /\ Store(w, "auth", "clean")
  /\ auths' = <<>>
  /\ bypass' = NoSet
  /\ UNCHANGED <<zones, ipgrps>>

BlankRule == [id |-> 0, zone |-> 0, grp |-> 0, type |-> "web", ip |-> NoSet, mac |-> NoSet]
RuleOf(l) == [id |-> l.id, zone |-> l.zone, grp |-> l.grp, type |-> l.type, ip |-> l.ip, mac |-> l.mac]

nos_auth_set(w) ==
  /\ Store(w, "auth", "set")
  /\ auths' = Stored(auths, writer[w].at, RuleOf(Line(w)), BlankRule)
  /\ UNCHANGED <<zones, ipgrps, bypass>>

nos_auth_delete(w) ==
  /\ Store(w, "auth", "delete")
  /\ auths' = Removed(auths, writer[w].at)
  /\ UNCHANGED <<zones, ipgrps, bypass>>

\* "auth_global_bypass_dst_ip="
SetBypass(w) ==
  /\ Store(w, "auth", "bypass")
  /\ bypass' = Line(w).set
  /\ UNCHANGED <<zones, ipgrps, auths>>

Apply(w) ==
  \/ nos_zone_cleanup(w)
  \/ nos_zone_set(w)
  \/ nos_zone_delete(w)
  \/ nos_ipgrp_cleanup(w)
  \/ nos_ipgrp_set(w)
  \/ nos_ipgrp_delete(w)
  \/ nos_auth_cleanup(w)
  \/ nos_auth_set(w)
  \/ nos_auth_delete(w)
  \/ SetBypass(w)

\* nos_hook_disable = 0, also for the other lines that set it: they are no
\* longer alone with the tables.
Intruded(x) == IF x.pc \in {"wait", "change", "store"} THEN [x EXCEPT !.alone = FALSE] ELSE x

EnableHooks(w) ==
  /\ writer[w].pc = "enable"
  /\ disable' = FALSE
  /\ writer' = [v \in Writers |-> IF v = w THEN Next1(w) ELSE Intruded(writer[v])]
  /\ UNCHANGED <<loaded, config, traffic, job, runs>>

\* nos_exit: the hooks are gone, the three tables are cleaned.
nos_exit ==
  /\ loaded
  /\ \A w \in Writers : writer[w].pc = "idle"
  /\ \A c \in Cpus : job[c] = Idle
  /\ loaded' = FALSE
  /\ refs' = ip_set_put(OfAuths \o OfGroups)
  /\ zones' = [if \in Interfaces |-> INVALID_ZONE_ID]
  /\ ipgrps' = <<>>
  /\ auths' = <<>>
  /\ bypass' = NoSet
  /\ behind' = behind \cup Devices
  /\ UNCHANGED <<disable, magic, clashed, traffic, job, writer, runs>>

-----------------------------------------------------------------------------
Init ==
  /\ loaded = TRUE
  /\ disable = FALSE
  /\ zones = [if \in Interfaces |-> INVALID_ZONE_ID]
  /\ ipgrps = <<>>
  /\ auths = <<>>
  /\ bypass = NoSet
  /\ magic = [dev \in Devices |-> FirstMagic]
  /\ refs = [i \in Ipsets |-> 0]
  /\ node = [u \in Terminals |-> [zone_id |-> 0, zone_magic |-> 0, ipgrp_bits |-> {}, ipgrp_magic |-> 0]]
  /\ term = [u \in Terminals |-> [type |-> "unknown", status |-> "none", rule_id |-> 0, rule_magic |-> 0]]
  /\ ct = [u \in Terminals |-> "none"]
  /\ job = [c \in Cpus |-> Idle]
  /\ writer = [w \in Writers |-> [pc |-> "idle", todo |-> <<>>, at |-> 0, held |-> <<>>,
                                  wait |-> {}, alone |-> TRUE]]
  /\ runs = [w \in Writers |-> 0]
  /\ behind = {}
  /\ clashed = {}

Forward(c) ==
  \/ nos_fw_hook(c)
  \/ ZoneMatch(c)
  \/ ZoneStore(c)
  \/ IpgrpMatch(c)
  \/ IpgrpStore(c)
  \/ nos_auth_hook(c)
  \/ AuthReset(c)
  \/ AuthSearch(c)
  \/ AuthWhite(c)
  \/ AuthJudge(c)

Write(w) ==
  \/ ip_set_get_byname(w)
  \/ Refused(w)
  \/ UpdateMagic(w)
  \/ DisableHooks(w)
  \/ GracePeriod(w)
  \/ Change(w)
  \/ Apply(w)
  \/ EnableHooks(w)

Next ==
  \/ \E c \in Cpus : nos_pre_hook(c) \/ Forward(c)
  \/ \E w \in Writers : StartScript(w) \/ Write(w)
  \/ \E u \in Terminals : NewConnection(u)
  \/ \E u \in Terminals, status \in {"ok", "req", "bypass"} : user_set_status(u, status)
  \/ nos_exit

\* A packet gets out of the hooks, which never block.  A script goes on except in
\* synchronize_rcu, and that returns when nobody has to be waited for any more.
\* No new packet and no new script is promised.
Fairness ==
  /\ \A c \in Cpus : []<>(job[c] = Idle)
  /\ \A w \in Writers : []<>(writer[w].pc \in {"idle", "wait"}) /\ WF_vars(GracePeriod(w))

Spec == Init /\ [][Next]_vars /\ Fairness

-----------------------------------------------------------------------------
(* Properties *)

\* No packet is looked up in the tables while a line changes them, unless
\* another line, of any device, enabled the hooks after this one had disabled
\* them: that is all that keeps nos_fw_hook from a half copied entry or an ipset
\* that was put.  Any number of packets and of other lines may be under way.
Exclusive ==
  \A c \in Cpus, w \in Writers :
    writer[w].pc \in {"change", "store"} /\ writer[w].alone => ~Inside(c)

\* The same without the exception: NosOverlap.cfg shows a line of one device
\* that enables the hooks while one of another device is still waiting.
ExclusiveAlways == \A c \in Cpus, w \in Writers : writer[w].pc \in {"change", "store"} => ~Inside(c)

\* The rule an administrator expects: the first whose zone is that of the
\* interface and whose group the terminal is in.
Expected(u) ==
  {r \in DOMAIN auths :
     /\ zones[InIf[u]] = auths[r].zone
     /\ \E g \in DOMAIN ipgrps : /\ ipgrps[g].id = auths[r].grp
                                 /\ ipgrps[g].set = NoSet \/ u \in Holds[ipgrps[g].set]}

\* The record of a terminal names the rule the present tables give it.
Right(u, t) ==
  IF Expected(u) = {} THEN t.rule_id = INVALID_AUTH_RULE_ID
  ELSE \E r \in Expected(u) : /\ \A q \in Expected(u) : r <= q
                              /\ t.rule_id = auths[r].id
                              /\ t.type = auths[r].type

Searching(u) == \E c \in Cpus : job[c].pc = "search" /\ job[c].u = u

\* Once the rules were announced after every other table, at a moment when no
\* packet was left from before, a terminal found at that magic is under the rule
\* the present tables give it, unless a packet is between the stores of
\* nos_auth_hook: whatever several packets of the terminal stored in whatever
\* order, and whatever was found while lines of several writers were at work.
Classified ==
  behind = {} =>
    \A u \in Terminals :
      term[u].rule_magic = magic.auth /\ ~Searching(u) => Right(u, term[u])

\* The entries whose ipsets a line has put and that it has yet to remove.
GivenUp(dev, k) ==
  \E w \in Writers :
    /\ writer[w].pc = "store"
    /\ Line(w).dev = dev
    /\ Line(w).op = "clean" \/ (Line(w).op = "delete" /\ writer[w].at = k)

BypassGivenUp ==
  \E w \in Writers : writer[w].pc = "store" /\ Line(w).dev = "auth" /\ Line(w).op \in {"clean", "bypass"}

\* The ipset module counts one reference for each place of the tables that
\* names an ipset and each one a line holds: through lines refused after none,
\* one or all of their ipsets were looked up, entries deleted at a position
\* found before the wait, lists replaced, writers on different devices and
\* unloading.  Two lines of one device at work at the same time may put an
\* ipset twice or lose an entry, and nothing is claimed after that.
RefsExact ==
  clashed \cap {"ipgrp", "auth"} = {} =>
    \A i \in Ipsets :
      refs[i] = Cardinality({k \in DOMAIN ipgrps : ipgrps[k].set = i /\ ~GivenUp("ipgrp", k)})
                + Cardinality({k \in DOMAIN auths : auths[k].ip = i /\ ~GivenUp("auth", k)})
                + Cardinality({k \in DOMAIN auths : auths[k].mac = i /\ ~GivenUp("auth", k)})
                + (IF bypass = i /\ ~BypassGivenUp THEN 1 ELSE 0)
                + Cardinality({h \in Writers \X (1 .. 2) :
                                 /\ h[2] \in DOMAIN writer[h[1]].held
                                 /\ writer[h[1]].held[h[2]] = i})

\* The hooks never stay disabled: synchronize_rcu ends although packets keep
\* coming, and every line enables what it disabled.
HooksBack == disable ~> ~disable

\* "every bit represent a ipgrp, eg, ipgrp_bits:10 been set, means ipgrp10
\* been set": after a look-up the bits of a terminal are the groups it is in.
BitsExact ==
  behind \cap {"ipgrp", "wrap"} = {} =>
    \A u \in Terminals :
      node[u].ipgrp_magic = magic.ipgrp
        => node[u].ipgrp_bits = {ipgrps[g].id : g \in {k \in DOMAIN ipgrps :
                                    ipgrps[k].set = NoSet \/ u \in Holds[ipgrps[k].set]}}

-----------------------------------------------------------------------------
(* What the proofs assume of the scripts *)

\* The groups have a bit of their own in an int: see BitsExact.
GroupsFit ==
  \A l \in Lines : /\ l.dev = "ipgrp" /\ l.op = "set" => l.id \in 0 .. 31
                   /\ l.dev = "auth" /\ l.op = "set" => l.grp \in 0 .. 31

=============================================================================
