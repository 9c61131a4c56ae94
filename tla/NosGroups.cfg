SPECIFICATION Spec
CONSTANTS
  t1 = t1
  lan = lan
  wan = wan
  office = office
  guests = guests
  gone = gone
  NoSet = NoSet
  c1 = c1
  c2 = c2
  w1 = w1
  w2 = w2
  Cpus = {c1}
  Terminals = {t1}
  Interfaces = {lan, wan}
  InIf <- OfTerminal
  Ipsets = {office, guests}
  Holds <- Members
  Kinds = {"listed", "dns", "ack"}
  Writers = {w1}
  Scripts <- WideGroup
  MaxScripts = 1
INVARIANT
  BitsExact
CHECK_DEADLOCK FALSE
