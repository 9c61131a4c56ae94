------------------------------- MODULE NtMsg -------------------------------
(***************************************************************************)
(* Messages from the kernel to ntrackd (drivers/nos/src/ntrack_msg.c,      *)
(* include/src/ntrack_rbf.h, libs/utils/src/nt_message.c): packet contexts *)
(* put nodes on a list, a work item moves them to a ring in memory shared  *)
(* with user space, and a thread of ntrackd reads the ring.                *)
(*                                                                         *)
(* All callers pass key 0, so there is one list, one work item, one ring   *)
(* and one reader.  A node is named by the number of its message.  The     *)
(* producer fills the node after it has released the lock: a worker that   *)
(* comes first copies and frees a node without contents, and the producer  *)
(* then writes to freed memory.  What is delivered in its place is Garbage *)
(* if nothing else was hit; otherwise memory is no longer what the code    *)
(* says it is, and the model ends in wild.                                 *)
(***************************************************************************)
EXTENDS Integers, Sequences, SequencesExt, FiniteSets

CONSTANTS
  Producers,       \* contexts that call nt_msg_enqueue
  NCAP_MAX_COUNT,  \* limit of the list
  Slots,           \* hdr.count: nodes of the ring
  MaxMsgs,         \* calls of nt_msg_enqueue
  MaxRestarts,     \* restarts of ntrackd
  Garbage

ASSUME NtMsgAssumption ==
  /\ {NCAP_MAX_COUNT, MaxMsgs, MaxRestarts} \subseteq Nat
  /\ Slots \in Nat /\ Slots > 1
  /\ Garbage \notin 1..MaxMsgs
  /\ IsFiniteSet(Producers)

VARIABLES
  prod,     \* Producers -> [pc, msg]: where nt_msg_enqueue is, and its message
  next,     \* messages so far
  list,     \* cur_msgq->list
  count,    \* cur_msgq->count
  filled,   \* nodes of the list that have their contents
  pending,  \* the work item is queued
  worker,   \* "idle", "test", "lock", "copy", "release" or "end"
  slots,    \* the buffers of the ring
  r, w,     \* hdr.r, hdr.w
  reader,   \* "poll", "handle" or "remove"
  handled,  \* messages given to fn_message_disp
  restarts,
  wild      \* a write has hit foreign memory

vars == <<prod, next, list, count, filled, pending, worker, slots, r, w,
          reader, handled, restarts, wild>>

Idle     == [pc |-> "idle", msg |-> 0]
Messages == 1..MaxMsgs \union {Garbage}
Locked   == worker \in {"copy", "release"}

TypeOK ==
  /\ prod \in [Producers -> [pc : {"idle", "add", "fill", "work"}, msg : 0..MaxMsgs]]
  /\ next \in 0..MaxMsgs /\ count \in Nat /\ restarts \in 0..MaxRestarts
  /\ list \in Seq(1..MaxMsgs) /\ handled \in Seq(Messages) /\ filled \subseteq 1..MaxMsgs
  /\ pending \in BOOLEAN /\ wild \in BOOLEAN
  /\ worker \in {"idle", "test", "lock", "copy", "release", "end"}
  /\ reader \in {"poll", "handle", "remove"}
  /\ slots \in [0..Slots - 1 -> Messages] /\ {r, w} \subseteq 0..Slots - 1

-----------------------------------------------------------------------------
(* nt_msg_enqueue *)

ProducerKeeps == UNCHANGED <<worker, slots, r, w, reader, handled, restarts>>

At(p, pc) == prod' = [prod EXCEPT ![p].pc = pc]

\* The limit is tested without the lock; a message that is too large or for which
\* there is no memory is refused.
Enqueue(p) ==
  /\ ~wild /\ prod[p].pc = "idle" /\ next < MaxMsgs
  /\ next' = next + 1
  /\ \/ count <= NCAP_MAX_COUNT /\ prod' = [prod EXCEPT ![p] = [pc |-> "add", msg |-> next']]
     \/ UNCHANGED prod
  /\ ProducerKeeps /\ UNCHANGED <<list, count, filled, pending, wild>>

\* list_add: the newest node comes first.
EnqueueAdd(p) ==
  /\ ~wild /\ prod[p].pc = "add" /\ ~Locked
  /\ list' = <<prod[p].msg>> \o list
  /\ count' = count + 1
  /\ At(p, "fill")
  /\ ProducerKeeps /\ UNCHANGED <<next, filled, pending, wild>>

EnqueueFill(p) ==
  /\ ~wild /\ prod[p].pc = "fill"
  /\ IF prod[p].msg \in Range(list)
     THEN filled' = filled \union {prod[p].msg} /\ UNCHANGED wild
     ELSE UNCHANGED filled /\ wild' \in BOOLEAN
  /\ At(p, "work")
  /\ ProducerKeeps /\ UNCHANGED <<next, list, count, pending>>

\* Mutant: the work is not queued while the worker runs.
EnqueueWorkIfIdle(p) ==
  /\ ~wild /\ prod[p].pc = "work"
  /\ pending' = (pending \/ worker = "idle")
  /\ prod' = [prod EXCEPT ![p] = Idle]
  /\ ProducerKeeps /\ UNCHANGED <<next, list, count, filled, wild>>

EnqueueWork(p) ==
  /\ ~wild /\ prod[p].pc = "work"
  /\ pending' = TRUE
  /\ prod' = [prod EXCEPT ![p] = Idle]
  /\ ProducerKeeps /\ UNCHANGED <<next, list, count, filled, wild>>

-----------------------------------------------------------------------------
(* The work item; an item queued while it runs runs again *)

WorkerKeeps == UNCHANGED <<prod, next, r, reader, handled, restarts>>

nmsg_wq_dequeue_func ==
  /\ ~wild /\ worker = "idle" /\ pending
  /\ pending' = FALSE /\ worker' = "test"
  /\ WorkerKeeps /\ UNCHANGED <<list, count, filled, slots, w, wild>>

\* The list is tested without the lock.
DequeueTest ==
  /\ ~wild /\ worker = "test"
  /\ worker' = IF list = <<>> THEN "end" ELSE "lock"
  /\ WorkerKeeps /\ UNCHANGED <<list, count, filled, pending, slots, w, wild>>

WorkEnd ==
  /\ ~wild /\ worker = "end"
  /\ worker' = "idle"
  /\ WorkerKeeps /\ UNCHANGED <<list, count, filled, pending, slots, w, wild>>

\* Mutant: the free slot that tells full from empty is used.
GetBuffLast == TRUE

rbf_get_buff == (w + 1) % Slots # r

\* nmsg_dequeue has the lock; with the ring full the node is freed all the same.
\* (The list is not empty: nobody else takes from it.)
DequeueLock ==
  /\ ~wild /\ worker = "lock"
  /\ IF rbf_get_buff
     THEN worker' = "copy" /\ UNCHANGED <<list, count, filled>>
     ELSE /\ list' = Tail(list) /\ count' = count - 1 /\ filled' = filled \ {Head(list)}
          /\ worker' = "test"
  /\ WorkerKeeps /\ UNCHANGED <<pending, slots, w, wild>>

\* A node without contents has no length either.
FillCopy ==
  /\ ~wild /\ worker = "copy"
  /\ \/ /\ slots' = [slots EXCEPT ![w] = IF Head(list) \in filled THEN Head(list) ELSE Garbage]
        /\ UNCHANGED wild
     \/ Head(list) \notin filled /\ wild' = TRUE /\ UNCHANGED slots
  /\ worker' = "release"
  /\ WorkerKeeps /\ UNCHANGED <<list, count, filled, pending, w>>

\* Mutant: the node is freed but not counted off.
FillReleaseNoCount ==
  /\ ~wild /\ worker = "release"
  /\ w' = (w + 1) % Slots
  /\ list' = Tail(list) /\ UNCHANGED count /\ filled' = filled \ {Head(list)}
  /\ worker' = "test"
  /\ WorkerKeeps /\ UNCHANGED <<pending, slots, wild>>

\* rbf_release_buff, and the node is taken off the list and freed.
FillRelease ==
  /\ ~wild /\ worker = "release"
  /\ w' = (w + 1) % Slots
  /\ list' = Tail(list) /\ count' = count - 1 /\ filled' = filled \ {Head(list)}
  /\ worker' = "test"
  /\ WorkerKeeps /\ UNCHANGED <<pending, slots, wild>>

-----------------------------------------------------------------------------
(* nt_message_process in ntrackd *)

ReaderKeeps == UNCHANGED <<prod, next, list, count, filled, pending, worker, slots, w, wild>>

rbf_get_data ==
  /\ ~wild /\ reader = "poll" /\ r # w
  /\ reader' = "handle"
  /\ ReaderKeeps /\ UNCHANGED <<r, handled, restarts>>

fn_message_disp ==
  /\ ~wild /\ reader = "handle"
  /\ handled' = Append(handled, slots[r])
  /\ reader' = "remove"
  /\ ReaderKeeps /\ UNCHANGED <<r, restarts>>

rbf_release_data ==
  /\ ~wild /\ reader = "remove"
  /\ r' = (r + 1) % Slots
  /\ reader' = "poll"
  /\ ReaderKeeps /\ UNCHANGED <<handled, restarts>>

\* ntrackd dies and is started again; rbf_init leaves r and w alone.
Restart ==
  /\ ~wild /\ restarts < MaxRestarts
  /\ restarts' = restarts + 1
  /\ reader' = "poll"
  /\ ReaderKeeps /\ UNCHANGED <<r, handled>>

-----------------------------------------------------------------------------
\* nt_msg_init; the work item is queued once to test it.
Init ==
  /\ prod = [p \in Producers |-> Idle] /\ next = 0
  /\ list = <<>> /\ count = 0 /\ filled = {}
  /\ pending = TRUE /\ worker = "idle"
  /\ slots = [i \in 0..Slots - 1 |-> Garbage] /\ r = 0 /\ w = 0
  /\ reader = "poll" /\ handled = <<>> /\ restarts = 0 /\ wild = FALSE

Finish(p) == EnqueueAdd(p) \/ EnqueueFill(p) \/ EnqueueWork(p)
Worker    == nmsg_wq_dequeue_func \/ DequeueTest \/ WorkEnd \/ DequeueLock \/ FillCopy \/ FillRelease
Reader    == rbf_get_data \/ fn_message_disp \/ rbf_release_data

Next == (\E p \in Producers : Enqueue(p) \/ Finish(p)) \/ Worker \/ Reader \/ Restart

\* Contexts that entered nt_msg_enqueue leave it, the work queue runs its items and
\* the reader is scheduled; that there are messages is not promised.
Fairness ==
  /\ \A p \in Producers : SF_vars(Finish(p))
  /\ WF_vars(Worker) /\ WF_vars(Reader)

Spec == Init /\ [][Next]_vars /\ Fairness

-----------------------------------------------------------------------------
\* The ring is a queue: what lies between r and w, oldest first.
InRing == [i \in 1..((w - r) % Slots) |-> slots[(r + i - 1) % Slots]]

Fifo == INSTANCE MsgFifo WITH Capacity <- Slots - 1, queue <- InRing, phase <- reader

\* The list, the worker, the ring's two indices and the reader together implement the
\* bounded queue of MsgFifo: a slot that is being read is never written, nothing between
\* r and w is lost or overtaken, and a restarted reader skips nothing (ntrack_rbf.h:75-106).
RingIsFifo == Fifo!Spec

\* count is the length of the list whenever the lock is free (ntrack_msg.c:106, 147), and the
\* unlocked test lets it exceed the limit by one for each context that passed the test, no more.
CountExact ==
  /\ ~wild => count = Len(list)
  /\ Len(list) <= NCAP_MAX_COUNT + Cardinality(Producers)

\* What CountExact rests on: the worker took the lock with a node on the list, which
\* nobody else takes off, and the contexts past the test have their place counted.
Adders == {p \in Producers : prod[p].pc = "add"}
CountInv ==
  /\ worker \in {"lock", "copy", "release"} => list # <<>>
  /\ count = Len(list)
  /\ Len(list) + Cardinality(Adders) <= NCAP_MAX_COUNT + Cardinality(Producers)

\* What RingIsFifo rests on: the worker has a free slot until it releases it, and the
\* reader a message until it removes it.
RingInv ==
  /\ worker \in {"copy", "release"} => rbf_get_buff
  /\ reader \in {"handle", "remove"} => r # w

\* A context has a message from the moment it passes the test.
MsgInv == \A p \in Producers : prod[p].pc # "idle" => prod[p].msg \in 1..MaxMsgs

\* No node is forgotten on the list: the work item is queued after the node was added,
\* and again when it runs already (queue_work_on), so that a list is always emptied.
Drained == (list # <<>>) ~> (list = <<>> \/ wild)
=============================================================================
