\* Two writers on different devices: one enables the hooks under the other.
SPECIFICATION Spec
CONSTANTS
  t1 = t1
  lan = lan
  wan = wan
  office = office
  guests = guests
  gone = gone
  NoSet = NoSet
  c1 = c1
  c2 = c2
  w1 = w1
  w2 = w2
  Cpus = {c1}
  Terminals = {t1}
  Interfaces = {lan, wan}
  InIf <- OfTerminal
  Ipsets = {office, guests}
  Holds <- Members
  Kinds = {"listed"}
  Writers = {w1, w2}
  Scripts <- AllScripts
  MaxScripts = 1
INVARIANT
  ExclusiveAlways
CHECK_DEADLOCK FALSE
