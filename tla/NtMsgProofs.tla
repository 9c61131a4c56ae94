---------------------------- MODULE NtMsgProofs -----------------------------
(***************************************************************************)
(* Proofs about the message queue and the ring, for any number of contexts *)
(* and messages, any limit of the list and any ring of two slots or more.  *)
(***************************************************************************)
EXTENDS NtMsg, FiniteSetTheorems, TLAPS

-----------------------------------------------------------------------------
\* Arithmetic of the ring's indices: both lie below Slots.
LEMMA ModBelow ==
  ASSUME NEW n \in Nat \ {0}, NEW x \in 0..n - 1
  PROVE  x % n = x
  OBVIOUS

LEMMA ModWrap ==
  ASSUME NEW n \in Nat \ {0}, NEW x \in n..2 * n - 1
  PROVE  x % n = x - n
  OBVIOUS

LEMMA ModNegative ==
  ASSUME NEW n \in Nat \ {0}, NEW x \in -n..-1
  PROVE  x % n = x + n
  OBVIOUS

\* The number of messages in the ring, and the slot of the i-th, without a modulus.
Used == IF w >= r THEN w - r ELSE w - r + Slots
Place(i) == IF r + i - 1 < Slots THEN r + i - 1 ELSE r + i - 1 - Slots

LEMMA UsedIs ==
  ASSUME TypeOK PROVE (w - r) % Slots = Used /\ Used \in 0..Slots - 1
<1>1. Slots \in Nat \ {0} /\ r \in 0..Slots - 1 /\ w \in 0..Slots - 1
  BY NtMsgAssumption DEF TypeOK
<1>2. CASE w >= r
  BY <1>1, <1>2, ModBelow DEF Used
<1>3. CASE w < r
  BY <1>1, <1>3, ModNegative DEF Used
<1>. QED BY <1>1, <1>2, <1>3

LEMMA PlaceIs ==
  ASSUME TypeOK, NEW i \in 1..Slots
  PROVE  (r + i - 1) % Slots = Place(i) /\ Place(i) \in 0..Slots - 1
<1>1. Slots \in Nat \ {0} /\ r \in 0..Slots - 1
  BY NtMsgAssumption DEF TypeOK
<1>2. CASE r + i - 1 < Slots
  BY <1>1, <1>2, ModBelow DEF Place
<1>3. CASE r + i - 1 >= Slots
  BY <1>1, <1>3, ModWrap DEF Place
<1>. QED BY <1>1, <1>2, <1>3

\* The index after j.
Succ(j) == IF j = Slots - 1 THEN 0 ELSE j + 1

LEMMA SuccIs ==
  ASSUME NEW j \in 0..Slots - 1 PROVE (j + 1) % Slots = Succ(j) /\ Succ(j) \in 0..Slots - 1
<1>1. Slots \in Nat \ {0}
  BY NtMsgAssumption
<1>2. CASE j = Slots - 1
  BY <1>1, <1>2, ModWrap DEF Succ
<1>3. CASE j # Slots - 1
  BY <1>1, <1>3, ModBelow DEF Succ
<1>. QED BY <1>2, <1>3

\* InRing is a sequence of Used messages.
LEMMA InRingIs ==
  ASSUME TypeOK
  PROVE  /\ InRing = [i \in 1..Used |-> slots[Place(i)]]
         /\ InRing \in Seq(Messages) /\ Len(InRing) = Used
<1>1. Used \in 0..Slots - 1 /\ (w - r) % Slots = Used
  BY UsedIs
<1>2. \A i \in 1..Used : i \in 1..Slots
  BY <1>1, NtMsgAssumption
<1>3. InRing = [i \in 1..Used |-> slots[Place(i)]]
  BY <1>1, <1>2, PlaceIs DEF InRing
<1>4. \A i \in 1..Used : slots[Place(i)] \in Messages
  BY <1>2, PlaceIs DEF TypeOK
<1>. QED BY <1>1, <1>3, <1>4

-----------------------------------------------------------------------------
\* Taking the first node off the list.
LEMMA TailList ==
  ASSUME NEW S, NEW s \in Seq(S), s # <<>>
  PROVE  /\ Tail(s) \in Seq(S) /\ Head(s) \in S
         /\ Len(s) \in Nat \ {0} /\ Len(Tail(s)) = Len(s) - 1
  OBVIOUS

\* list_add in front.
LEMMA PushList ==
  ASSUME NEW S, NEW s \in Seq(S), NEW x \in S
  PROVE  <<x>> \o s \in Seq(S) /\ Len(<<x>> \o s) = Len(s) + 1 /\ <<x>> \o s # <<>>
  OBVIOUS

\* Prods is the type of prod.
Prods == [Producers -> [pc : {"idle", "add", "fill", "work"}, msg : 0..MaxMsgs]]

LEMMA AtType ==
  ASSUME prod \in Prods, NEW p \in Producers, NEW pc \in {"fill", "work"}, At(p, pc)
  PROVE  /\ prod' \in Prods /\ prod'[p].pc = pc /\ prod'[p].msg = prod[p].msg
         /\ \A q \in Producers : q # p => prod'[q] = prod[q]
  BY DEF At, Prods

\* The steps of one context in nt_msg_enqueue keep the types.
LEMMA ProducerType ==
  ASSUME TypeOK, MsgInv, NEW p \in Producers, Enqueue(p) \/ Finish(p)
  PROVE  TypeOK' /\ MsgInv'
<1> USE NtMsgAssumption DEF TypeOK, MsgInv, ProducerKeeps
<1>t. prod \in Prods
  BY DEF Prods
<1>1. CASE Enqueue(p)
  <2>1. next' \in 1..MaxMsgs
    BY <1>1 DEF Enqueue
  <2>2. prod' \in Prods /\ MsgInv'
    <3>1. CASE UNCHANGED prod
      BY <1>t, <3>1
    <3>2. CASE prod' = [prod EXCEPT ![p] = [pc |-> "add", msg |-> next']]
      BY <1>t, <2>1, <3>2 DEF Prods
    <3>. QED BY <1>1, <3>1, <3>2 DEF Enqueue
  <2>. QED BY <1>1, <2>1, <2>2 DEF Enqueue, Prods
<1>2. CASE EnqueueAdd(p)
  <2>1. prod[p].msg \in 1..MaxMsgs
    BY <1>2 DEF EnqueueAdd
  <2>2. list' \in Seq(1..MaxMsgs)
    BY <1>2, <2>1, PushList DEF EnqueueAdd
  <2>3. prod' \in Prods /\ MsgInv'
    BY <1>2, <1>t, <2>1, AtType DEF EnqueueAdd
  <2>. QED BY <1>2, <2>2, <2>3 DEF EnqueueAdd, Prods
<1>3. CASE EnqueueFill(p)
  <2>1. prod[p].msg \in 1..MaxMsgs
    BY <1>3 DEF EnqueueFill
  <2>2. prod' \in Prods /\ MsgInv'
    BY <1>3, <1>t, <2>1, AtType DEF EnqueueFill
  <2>. QED BY <1>3, <2>1, <2>2 DEF EnqueueFill, Prods
<1>4. CASE EnqueueWork(p)
  <2>1. prod' \in Prods /\ MsgInv'
    BY <1>4, <1>t DEF EnqueueWork, Prods, Idle
  <2>. QED BY <1>4, <2>1 DEF EnqueueWork, Prods
<1>. QED BY <1>1, <1>2, <1>3, <1>4 DEF Finish

\* The steps of the work item keep the types.
LEMMA WorkerType ==
  ASSUME TypeOK, MsgInv, CountInv, Worker
  PROVE  TypeOK' /\ MsgInv'
<1> USE NtMsgAssumption DEF TypeOK, MsgInv, WorkerKeeps
<1>1. CASE nmsg_wq_dequeue_func \/ DequeueTest \/ WorkEnd
  BY <1>1 DEF nmsg_wq_dequeue_func, DequeueTest, WorkEnd
<1>2. ASSUME list # <<>>, list' = Tail(list), count' = count - 1
      PROVE  list' \in Seq(1..MaxMsgs) /\ count' \in Nat
  BY <1>2, TailList DEF CountInv
<1>3. CASE DequeueLock
  BY <1>2, <1>3 DEF DequeueLock, CountInv
<1>4. CASE FillCopy
  <2>1. list # <<>> /\ Head(list) \in 1..MaxMsgs
    BY <1>4, TailList DEF FillCopy, CountInv
  <2>2. slots' \in [0..Slots - 1 -> Messages]
    BY <1>4, <2>1 DEF FillCopy, Messages
  <2>. QED BY <1>4, <2>2 DEF FillCopy
<1>5. CASE FillRelease
  <2>1. w' \in 0..Slots - 1
    BY <1>5, SuccIs DEF FillRelease
  <2>. QED BY <1>2, <1>5, <2>1 DEF FillRelease, CountInv
<1>. QED BY <1>1, <1>3, <1>4, <1>5 DEF Worker

\* The steps of ntrackd keep the types.
LEMMA ReaderType ==
  ASSUME TypeOK, MsgInv, Reader \/ Restart
  PROVE  TypeOK' /\ MsgInv'
<1> USE NtMsgAssumption DEF TypeOK, MsgInv, ReaderKeeps
<1>1. CASE rbf_get_data
  BY <1>1 DEF rbf_get_data
<1>2. CASE fn_message_disp
  BY <1>2 DEF fn_message_disp
<1>3. CASE rbf_release_data
  <2>1. r' \in 0..Slots - 1
    BY <1>3, SuccIs DEF rbf_release_data
  <2>. QED BY <1>3, <2>1 DEF rbf_release_data
<1>4. CASE Restart
  BY <1>4 DEF Restart
<1>. QED BY <1>1, <1>2, <1>3, <1>4 DEF Reader

-----------------------------------------------------------------------------
\* Contexts past the test: a finite set, which a context joins or leaves alone.
LEMMA AddersFinite ==
  /\ IsFiniteSet(Adders) /\ Cardinality(Adders) \in Nat /\ Cardinality(Producers) \in Nat
  /\ Cardinality(Adders) <= Cardinality(Producers)
<1>1. IsFiniteSet(Producers) /\ Adders \subseteq Producers
  BY NtMsgAssumption DEF Adders
<1>. QED BY <1>1, FS_Subset, FS_CardinalityType

\* Steps of a context.
LEMMA ProducerCount ==
  ASSUME TypeOK, TypeOK', CountInv, NEW p \in Producers, Enqueue(p) \/ Finish(p)
  PROVE  CountInv'
<1> USE NtMsgAssumption DEF CountInv, ProducerKeeps
<1>n. Len(list) \in Nat /\ Len(list') \in Nat /\ NCAP_MAX_COUNT \in Nat
  BY DEF TypeOK
<1>f. /\ IsFiniteSet(Adders) /\ Cardinality(Adders) \in Nat /\ Cardinality(Producers) \in Nat
      /\ Cardinality(Adders') \in Nat /\ Cardinality(Adders') <= Cardinality(Producers)
  <2>1. IsFiniteSet(Adders') /\ Adders' \subseteq Producers
    BY FS_Subset DEF Adders
  <2>. QED BY <2>1, AddersFinite, FS_Subset, FS_CardinalityType
<1>1. CASE Enqueue(p)
  <2>1. CASE UNCHANGED prod
    BY <1>1, <2>1 DEF Enqueue, Adders
  <2>2. CASE count <= NCAP_MAX_COUNT
    BY <1>1, <1>n, <1>f, <2>2 DEF Enqueue
  <2>. QED BY <1>1, <2>1, <2>2 DEF Enqueue
<1>2. CASE EnqueueAdd(p)
  <2>1. Adders' = Adders \ {p} /\ p \in Adders
    BY <1>2 DEF EnqueueAdd, At, Adders, TypeOK
  <2>2. Cardinality(Adders') = Cardinality(Adders) - 1
    BY <1>f, <2>1, FS_RemoveElement
  <2>3. Len(list') = Len(list) + 1 /\ list' # <<>> /\ count' = count + 1
    BY <1>2 DEF EnqueueAdd, TypeOK
  <2>. QED BY <1>2, <1>n, <1>f, <2>2, <2>3 DEF EnqueueAdd
<1>3. CASE EnqueueFill(p)
  <2>1. Adders' = Adders
    BY <1>3 DEF EnqueueFill, At, Adders, TypeOK
  <2>. QED BY <1>3, <2>1 DEF EnqueueFill
<1>4. CASE EnqueueWork(p)
  <2>1. Adders' = Adders
    BY <1>4 DEF EnqueueWork, Adders, TypeOK, Idle
  <2>. QED BY <1>4, <2>1 DEF EnqueueWork
<1>. QED BY <1>1, <1>2, <1>3, <1>4 DEF Finish

\* Steps of the work item: a node it takes off was there.
LEMMA WorkerCount ==
  ASSUME TypeOK, CountInv, Worker
  PROVE  CountInv'
<1>f. /\ Cardinality(Adders) \in Nat /\ Cardinality(Producers) \in Nat
      /\ NCAP_MAX_COUNT \in Nat /\ Len(list) \in Nat
  BY AddersFinite, NtMsgAssumption DEF TypeOK
<1>a. Adders' = Adders
  BY DEF Worker, WorkerKeeps, Adders, nmsg_wq_dequeue_func, DequeueTest, WorkEnd, DequeueLock,
         FillCopy, FillRelease
<1> USE DEF CountInv, WorkerKeeps
<1>1. CASE nmsg_wq_dequeue_func \/ WorkEnd
  BY <1>1, <1>a DEF nmsg_wq_dequeue_func, WorkEnd
<1>2. CASE DequeueTest
  BY <1>2, <1>a DEF DequeueTest
<1>3. ASSUME list # <<>>, list' = Tail(list), count' = count - 1, worker' = "test"
      PROVE  CountInv'
  BY <1>3, <1>a, <1>f, TailList DEF TypeOK
<1>4. CASE DequeueLock
  BY <1>3, <1>4, <1>a DEF DequeueLock
<1>5. CASE FillCopy
  BY <1>5, <1>a DEF FillCopy
<1>6. CASE FillRelease
  BY <1>3, <1>6 DEF FillRelease
<1>. QED BY <1>1, <1>2, <1>4, <1>5, <1>6 DEF Worker

\* The reader of the ring touches neither list nor count.
LEMMA ReaderCount ==
  ASSUME CountInv, Reader \/ Restart
  PROVE  CountInv'
  BY DEF CountInv, Adders, Reader, Restart, ReaderKeeps, rbf_get_data, fn_message_disp, rbf_release_data

-----------------------------------------------------------------------------
\* A slot that is free stays free while the reader moves on, and a message found
\* stays until it is removed, whatever the worker does.
LEMMA RingStep ==
  ASSUME TypeOK, RingInv, Next
  PROVE  RingInv'
<1> USE DEF RingInv, rbf_get_buff
<1>i. r \in 0..Slots - 1 /\ w \in 0..Slots - 1 /\ Slots \in Nat /\ Slots > 1
  BY NtMsgAssumption DEF TypeOK
<1>s. (r + 1) % Slots = Succ(r) /\ (w + 1) % Slots = Succ(w)
  BY <1>i, SuccIs
<1>1. ASSUME NEW p \in Producers, Enqueue(p) \/ Finish(p) PROVE RingInv'
  BY <1>1 DEF Finish, Enqueue, EnqueueAdd, EnqueueFill, EnqueueWork, ProducerKeeps
<1>2. CASE nmsg_wq_dequeue_func \/ DequeueTest \/ WorkEnd \/ DequeueLock \/ FillCopy
  BY <1>2 DEF nmsg_wq_dequeue_func, DequeueTest, WorkEnd, DequeueLock, FillCopy, WorkerKeeps
<1>3. CASE FillRelease
  BY <1>3, <1>s, <1>i DEF FillRelease, WorkerKeeps, Succ
<1>4. CASE rbf_get_data \/ fn_message_disp \/ Restart
  BY <1>4 DEF rbf_get_data, fn_message_disp, Restart, ReaderKeeps
<1>5. CASE rbf_release_data
  <2>1. r' = Succ(r) /\ w' = w /\ worker' = worker /\ reader' = "poll" /\ r # w
    BY <1>5, <1>s DEF rbf_release_data, ReaderKeeps
  <2>2. Succ(w) # Succ(r)
    BY <1>i, <2>1 DEF Succ
  <2>. QED BY <2>1, <2>2, <1>s
<1>. QED BY <1>1, <1>2, <1>3, <1>4, <1>5 DEF Next, Worker, Reader

\* Everything the theorems below use.
Inv == TypeOK /\ MsgInv /\ CountInv /\ RingInv

LEMMA InvInit == Init => Inv
<1> SUFFICES ASSUME Init PROVE Inv
  OBVIOUS
<1>1. TypeOK /\ MsgInv /\ RingInv
  <2>1. prod \in Prods /\ MsgInv
    BY NtMsgAssumption DEF Init, Prods, MsgInv, Idle
  <2>2. {r, w} \subseteq 0..Slots - 1 /\ slots \in [0..Slots - 1 -> Messages]
    BY NtMsgAssumption DEF Init, Messages
  <2>3. pending \in BOOLEAN /\ wild \in BOOLEAN
    BY DEF Init
  <2>4. RingInv
    BY DEF Init, RingInv
  <2>5. /\ next \in 0..MaxMsgs /\ count \in Nat /\ restarts \in 0..MaxRestarts
        /\ list \in Seq(1..MaxMsgs) /\ handled \in Seq(Messages) /\ filled \subseteq 1..MaxMsgs
        /\ worker \in {"idle", "test", "lock", "copy", "release", "end"}
        /\ reader \in {"poll", "handle", "remove"}
    BY NtMsgAssumption DEF Init
  <2>. QED BY <2>1, <2>2, <2>3, <2>4, <2>5 DEF TypeOK, Prods
<1>2. Len(list) = 0 /\ NCAP_MAX_COUNT \in Nat
  BY NtMsgAssumption DEF Init
<1>3. CountInv
  BY <1>2, AddersFinite DEF Init, CountInv
<1>. QED BY <1>1, <1>3 DEF Inv

LEMMA InvStep == Inv /\ [Next]_vars => Inv'
<1> SUFFICES ASSUME Inv, [Next]_vars PROVE Inv'
  OBVIOUS
<1>1. CASE UNCHANGED vars
  BY <1>1 DEF vars, Inv, TypeOK, MsgInv, CountInv, RingInv, Adders, rbf_get_buff
<1>2. ASSUME NEW p \in Producers, Enqueue(p) \/ Finish(p) PROVE Inv'
  BY <1>2, ProducerType, ProducerCount, RingStep DEF Inv, Next
<1>3. CASE Worker
  BY <1>3, WorkerType, WorkerCount, RingStep DEF Inv, Next
<1>4. CASE Reader \/ Restart
  BY <1>4, ReaderType, ReaderCount, RingStep DEF Inv, Next
<1>. QED BY <1>1, <1>2, <1>3, <1>4 DEF Next

LEMMA InvAlways == Spec => []Inv
  BY InvInit, InvStep, PTL DEF Spec

\* The list never exceeds its limit by more than one node for each context, and its
\* count is right under whatever interleaving of contexts, work item and reader.
THEOREM ListBounded == Spec => []CountExact
<1>1. Inv => CountExact
  <2> SUFFICES ASSUME Inv PROVE CountExact
    OBVIOUS
  <2>1. Len(list) \in Nat /\ NCAP_MAX_COUNT \in Nat
    BY NtMsgAssumption DEF Inv, TypeOK
  <2>. QED BY <2>1, AddersFinite DEF Inv, CountInv, CountExact
<1>. QED BY <1>1, InvAlways, PTL

-----------------------------------------------------------------------------
(* The refinement: each step is a step of MsgFifo or leaves its variables alone *)

\* InRingIs for the state after a step.
Listed == InRing = [i \in 1..Used |-> slots[Place(i)]]

LEMMA InRingNext == Inv' => InRing' = [i \in 1..Used' |-> slots'[Place(i)']]
<1>1. Inv => Listed
  BY InRingIs DEF Inv, Listed
<1>2. Inv' => Listed'
  BY <1>1, PTL
<1>. QED BY <1>2 DEF Listed

\* A step that keeps the two indices and the slots keeps the queue.
LEMMA SameQueue ==
  ASSUME UNCHANGED <<slots, r, w>> PROVE InRing' = InRing
  BY DEF InRing

\* The slot behind the last message is not one of the messages' slots.
LEMMA FreeSlot ==
  ASSUME TypeOK, NEW i \in 1..Used PROVE Place(i) # w /\ i \in 1..Slots
<1>1. Slots \in Nat /\ r \in 0..Slots - 1 /\ w \in 0..Slots - 1
  BY NtMsgAssumption DEF TypeOK
<1>. QED BY <1>1 DEF Used, Place

\* fill_work's copy: what is being written is not yet in the queue.
LEMMA CopyHidden ==
  ASSUME Inv, Inv', FillCopy PROVE InRing' = InRing
<1>1. r' = r /\ w' = w /\ Used' = Used
  BY DEF FillCopy, WorkerKeeps, Used
<1>2. \A i : Place(i)' = Place(i)
  BY <1>1 DEF Place
<1>3. \A j \in 0..Slots - 1 : j # w => slots'[j] = slots[j]
  BY DEF FillCopy, Inv, TypeOK
<1>4. \A i \in 1..Used : slots'[Place(i)] = slots[Place(i)]
  BY <1>3, FreeSlot, PlaceIs DEF Inv
<1>5. InRing' = [i \in 1..Used |-> slots'[Place(i)]]
  BY <1>1, <1>2, InRingNext
<1>. QED BY <1>4, <1>5, InRingIs DEF Inv

\* rbf_release_buff puts the message that was copied.
LEMMA ReleasePuts ==
  ASSUME Inv, Inv', FillRelease
  PROVE  /\ Len(InRing) < Slots - 1
         /\ InRing' = Append(InRing, slots[w]) /\ slots[w] \in Messages
<1>1. /\ r' = r /\ w' = Succ(w) /\ slots' = slots /\ Succ(w) # r
      /\ Slots \in Nat /\ Slots > 1 /\ r \in 0..Slots - 1 /\ w \in 0..Slots - 1
  BY SuccIs, NtMsgAssumption DEF FillRelease, WorkerKeeps, Inv, TypeOK, RingInv, rbf_get_buff
<1>2. Used \in Nat /\ Used' = Used + 1 /\ Used < Slots - 1
  BY <1>1 DEF Used, Succ
<1>3. \A i : Place(i)' = Place(i)
  BY <1>1 DEF Place
<1>4. Place(Used + 1) = w
  BY <1>1, <1>2 DEF Used, Place
<1>5. InRing = [i \in 1..Used |-> slots[Place(i)]] /\ Len(InRing) = Used /\ InRing \in Seq(Messages)
  BY InRingIs DEF Inv
<1>6. slots[w] \in Messages
  BY <1>1 DEF Inv, TypeOK
<1>7. InRing' = [i \in 1..Used + 1 |-> slots[Place(i)]]
  BY <1>1, <1>2, <1>3, InRingNext
<1>8. Append(InRing, slots[w]) = [i \in 1..Used + 1 |-> slots[Place(i)]]
  BY <1>2, <1>4, <1>5, <1>6
<1>. QED BY <1>2, <1>5, <1>6, <1>7, <1>8

\* The message at r is the first of the queue.
LEMMA HeadIs ==
  ASSUME Inv, r # w PROVE InRing # <<>> /\ Head(InRing) = slots[r]
<1>1. Slots \in Nat /\ r \in 0..Slots - 1 /\ w \in 0..Slots - 1
  BY NtMsgAssumption DEF Inv, TypeOK
<1>2. Used \in Nat \ {0} /\ Place(1) = r
  BY <1>1 DEF Used, Place
<1>. QED BY <1>2, InRingIs DEF Inv

\* rbf_release_data removes it.
LEMMA ReleaseRemoves ==
  ASSUME Inv, Inv', rbf_release_data PROVE InRing' = Tail(InRing)
<1>1. /\ r' = Succ(r) /\ w' = w /\ slots' = slots /\ r # w
      /\ Slots \in Nat /\ Slots > 1 /\ r \in 0..Slots - 1 /\ w \in 0..Slots - 1
  BY SuccIs, NtMsgAssumption DEF rbf_release_data, ReaderKeeps, Inv, TypeOK, RingInv
<1>2. Used \in Nat \ {0} /\ Used' = Used - 1 /\ Used < Slots
  BY <1>1 DEF Used, Succ
<1>3. \A i \in 1..Used - 1 : Place(i)' = Place(i + 1)
  BY <1>1, <1>2 DEF Place, Succ
<1>4. InRing = [i \in 1..Used |-> slots[Place(i)]] /\ Len(InRing) = Used /\ InRing \in Seq(Messages)
  BY InRingIs DEF Inv
<1>5. InRing' = [i \in 1..Used - 1 |-> slots[Place(i + 1)]]
  BY <1>1, <1>2, <1>3, InRingNext
<1>6. Tail(InRing) = [i \in 1..Used - 1 |-> slots[Place(i + 1)]]
  BY <1>2, <1>4
<1>. QED BY <1>5, <1>6

\* Every step of the kernel and of ntrackd is a step of the queue, or none.
LEMMA StepRefines == Inv /\ Inv' /\ [Next]_vars => [Fifo!Next]_(Fifo!vars)
<1> SUFFICES ASSUME Inv, Inv', [Next]_vars PROVE [Fifo!Next]_(Fifo!vars)
  OBVIOUS
<1> USE DEF Fifo!Next, Fifo!vars
<1>1. CASE UNCHANGED vars
  BY <1>1, SameQueue DEF vars
<1>2. ASSUME NEW p \in Producers, Enqueue(p) \/ Finish(p) PROVE [Fifo!Next]_(Fifo!vars)
  BY <1>2, SameQueue DEF Finish, Enqueue, EnqueueAdd, EnqueueFill, EnqueueWork, ProducerKeeps
<1>3. CASE nmsg_wq_dequeue_func \/ DequeueTest \/ WorkEnd \/ DequeueLock
  BY <1>3, SameQueue DEF nmsg_wq_dequeue_func, DequeueTest, WorkEnd, DequeueLock, WorkerKeeps
<1>4. CASE FillCopy
  BY <1>4, CopyHidden DEF FillCopy, WorkerKeeps
<1>5. CASE FillRelease
  <2>1. Fifo!Put(slots[w])
    BY <1>5, ReleasePuts DEF Fifo!Put, FillRelease, WorkerKeeps
  <2>. QED BY <1>5, <2>1, ReleasePuts
<1>6. CASE rbf_get_data
  <2>1. Fifo!Find
    BY <1>6, SameQueue, HeadIs DEF Fifo!Find, rbf_get_data, ReaderKeeps
  <2>. QED BY <2>1
<1>7. CASE fn_message_disp
  <2>1. r # w
    BY <1>7 DEF fn_message_disp, Inv, RingInv
  <2>2. Fifo!Handle
    BY <1>7, <2>1, SameQueue, HeadIs DEF Fifo!Handle, fn_message_disp, ReaderKeeps
  <2>. QED BY <2>2
<1>8. CASE rbf_release_data
  <2>1. Fifo!Remove
    BY <1>8, ReleaseRemoves DEF Fifo!Remove, rbf_release_data
  <2>. QED BY <2>1
<1>9. CASE Restart
  <2>1. Fifo!Restart
    BY <1>9, SameQueue DEF Fifo!Restart, Restart, ReaderKeeps
  <2>. QED BY <2>1
<1>. QED BY <1>1, <1>2, <1>3, <1>4, <1>5, <1>6, <1>7, <1>8, <1>9 DEF Next, Worker, Reader

LEMMA InitRefines == Init => Fifo!Init
<1> SUFFICES ASSUME Init PROVE Fifo!Init
  OBVIOUS
<1>1. Inv /\ Used = 0
  BY InvInit DEF Init, Used
<1>2. InRing = <<>>
  BY <1>1, InRingIs DEF Inv
<1>. QED BY <1>2 DEF Init, Fifo!Init

\* The list, the work item, the ring and the reader implement the bounded queue: no
\* message between r and w is lost, overtaken or overwritten while it is read, and a
\* restarted reader passes none over (rbf_get_buff, rbf_release_buff, rbf_get_data,
\* rbf_release_data), for rings of any size.
THEOREM RingRefines == Spec => RingIsFifo
  BY InvAlways, InitRefines, StepRefines, PTL DEF Spec, RingIsFifo, Fifo!Spec
=============================================================================
