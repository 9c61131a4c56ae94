-------------------------------- MODULE MCNos -------------------------------
(* One terminal behind the interface lan. *)
EXTENDS Nos, TLC

CONSTANTS t1, lan, wan, office, guests, gone, c1, c2, w1, w2

OfTerminal == [x \in {t1} |-> lan]
Members == [i \in {office, guests} |-> IF i = office THEN {t1} ELSE {}]

Clean(dev) == [dev |-> dev, op |-> "clean"]
Magic(dev) == [dev |-> dev, op |-> "magic"]
Delete(dev, id) == [dev |-> dev, op |-> "delete", id |-> id]
Zone(id, if) == [dev |-> "zone", op |-> "set", id |-> id, if |-> if]
Group(id, set) == [dev |-> "ipgrp", op |-> "set", id |-> id, set |-> set]
Rule(id, zone, grp, type, ip, mac) ==
  [dev |-> "auth", op |-> "set", id |-> id, zone |-> zone, grp |-> grp, type |-> type,
   ip |-> ip, mac |-> mac]
Bypass(set) == [dev |-> "auth", op |-> "bypass", set |-> set]

\* What nos-zone and nos-ipgrp write after their "clean", which finds nothing.
Tables == << Zone(1, lan), Magic("zone"), Group(1, office), Magic("ipgrp") >>

\* Other writers: a group set and deleted by hand; nos-ipgrp and nos-zone stopped;
\* nos-auth stopped, after a rule whose second ipset is gone; the list of free
\* servers, and a rule set by hand, which is refused if its id is taken, and deleted.
GroupEdit == << Group(1, office), Delete("ipgrp", 1) >>
Stops == << Clean("ipgrp"), Delete("zone", 1), Clean("zone") >>
AuthStop == << Rule(2, 1, 1, "web", office, gone), Clean("auth") >>
AuthEdit == << Bypass(office), Rule(1, 1, 1, "web", office, guests), Delete("auth", 1) >>

\* What nos-auth writes after its "clean".
AuthStart == << Rule(1, 1, 1, "web", guests, guests), Magic("auth") >>

\* nos-auth runs in the background while any of the others does.
AllScripts == w1 :> {Tables, GroupEdit, Stops, AuthStop, AuthEdit} @@ w2 :> {AuthStart}

\* The scripts above meet the hypothesis of the theorems of NosProofs.
ASSUME ProvedInstance == Scripts = AllScripts => GroupsFit

\* A group beyond the width of an int.
WideGroup == w1 :> { << Clean("ipgrp"), Group(33, office), Magic("ipgrp") >> }
=============================================================================
