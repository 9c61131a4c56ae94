------------------------------ MODULE MsgFifo ------------------------------
(***************************************************************************)
(* What the ring of messages promises its two ends: a bounded queue, in    *)
(* order, from the kernel to one reader.  The reader removes a message     *)
(* after it has handled it, and may be started again at any time, so that  *)
(* a message is handled at least once and none is passed over.             *)
(***************************************************************************)
EXTENDS Naturals, Sequences

CONSTANTS Messages, Capacity

VARIABLES
  queue,   \* messages written and not yet removed
  phase,   \* the reader: "poll", "handle" or "remove"
  handled  \* the messages given to the handler, in order

vars == <<queue, phase, handled>>

Init == queue = <<>> /\ phase = "poll" /\ handled = <<>>

Put(m) ==
  /\ Len(queue) < Capacity
  /\ queue' = Append(queue, m)
  /\ UNCHANGED <<phase, handled>>

Find ==
  /\ phase = "poll" /\ queue # <<>>
  /\ phase' = "handle"
  /\ UNCHANGED <<queue, handled>>

Handle ==
  /\ phase = "handle"
  /\ handled' = Append(handled, Head(queue))
  /\ phase' = "remove"
  /\ UNCHANGED queue

Remove ==
  /\ phase = "remove"
  /\ queue' = Tail(queue)
  /\ phase' = "poll"
  /\ UNCHANGED handled

Restart == phase' = "poll" /\ UNCHANGED <<queue, handled>>

Next == (\E m \in Messages : Put(m)) \/ Find \/ Handle \/ Remove \/ Restart

Spec == Init /\ [][Next]_vars
=============================================================================
