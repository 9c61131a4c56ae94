------------------------------- MODULE MCNacs -------------------------------
(* One flow of zone 1, group 2 to zone 0; two applications; two rule tools. *)
EXTENDS Nacs, TLC

CONSTANTS w, b, gone, tool1, tool2

Symmetry == Permutations({tool1, tool2})

FlowEnds == [srcZone |-> 1, dstZone |-> 0, srcGrps |-> {2}, dstGrps |-> {}]
Apps == {[id |-> 1, crc |-> 7001], [id |-> 2, crc |-> 7002]}

Rule(srcZones, srcGrps, protos, actions) ==
  [srcZones |-> srcZones, srcGrps |-> srcGrps, dstZones |-> {AC_ZONE_MAXID},
   dstGrps |-> {AC_IPGRP_MAXID}, protos |-> protos, actions |-> actions]

Table(type, info) == [kind |-> "table", type |-> type, info |-> info]
Set(type, info) == [kind |-> "set", type |-> type, info |-> info]

\* Rules only: the first does not apply to the flow, the second rejects one
\* application, the third passes another.
ByRules ==
  << Table("control", << Rule({3}, {AC_IPGRP_MAXID}, {7001, 7002}, {"accept"}),
                         Rule({1}, {1, 2}, {7001}, {"reject", "audit"}),
                         Rule({AC_ZONE_MAXID}, {AC_IPGRP_MAXID}, {7001, 7002}, {"accept"}) >>),
     Table("audit", << Rule({1}, {AC_IPGRP_MAXID}, {7002}, {"audit"}) >>) >>

\* Lists: a white list that no longer exists, a black list with the flow.
ByLists ==
  << Set("control", << gone, NoSet, b, NoSet >>), Set("audit", << w, NoSet >>) >>

\* The white list comes first, and the rules are cleared.
Cleared ==
  << Table("control", <<>>), Set("control", << w, NoSet, b, NoSet >>) >>

Configurations == {ByRules, ByLists, Cleared}

\* The rules alone, for one application.
OneRule == { << Table("control", << Rule({1}, {2}, {7001}, {"reject"}) >>) >> }
=============================================================================
