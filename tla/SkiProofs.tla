----------------------------- MODULE SkiProofs -----------------------------
(***************************************************************************)
(* Proofs about the scheduler and the channels of ski, for any number of   *)
(* threads and channels of any length.                                     *)
(***************************************************************************)
EXTENDS Ski, TLAPS

-----------------------------------------------------------------------------
(* ski_running_list and wakeup_common *)

In(Q, t) == \E i \in DOMAIN Q : Q[i] = t

\* What RunningOnce says, of any threads, list and running thread.
ListOK(T, Q, cu) ==
  /\ \A i, j \in DOMAIN Q : Q[i] = Q[j] => i = j
  /\ \A t \in Threads : In(Q, t) <=> T[t].pend = "yes"
  /\ \A t \in Threads : In(Q, t) => T[t].life = "live" /\ t # cu

\* A wakeup changes nothing of a thread but its pending flag.
Same(T, T2) ==
  \A u \in Threads : /\ T2[u].life = T[u].life /\ T2[u].sig = T[u].sig /\ T2[u].wait = T[u].wait
                     /\ T2[u].at = T[u].at /\ T2[u].chans = T[u].chans /\ T2[u].timer = T[u].timer

LEMMA ListIs == /\ RunningOnce <=> ListOK(thread, running, cur)
                /\ \A t : InList(t) <=> In(running, t)
  BY DEF RunningOnce, ListOK, InList, In

LEMMA AppendIn ==
  ASSUME NEW S, NEW Q \in Seq(S), NEW t \in S, ~In(Q, t), \A i, j \in DOMAIN Q : Q[i] = Q[j] => i = j
  PROVE  /\ Append(Q, t) \in Seq(S) /\ Len(Append(Q, t)) = Len(Q) + 1 /\ Len(Q) \in Nat
         /\ \A i, j \in DOMAIN Append(Q, t) : Append(Q, t)[i] = Append(Q, t)[j] => i = j
         /\ \A u : In(Append(Q, t), u) <=> In(Q, u) \/ u = t
<1>1. /\ Append(Q, t) \in Seq(S) /\ Len(Append(Q, t)) = Len(Q) + 1 /\ Len(Q) \in Nat
      /\ Append(Q, t)[Len(Q) + 1] = t /\ DOMAIN Append(Q, t) = 1..(Len(Q) + 1) /\ DOMAIN Q = 1..Len(Q)
  OBVIOUS
<1>2. \A i \in 1..Len(Q) : Append(Q, t)[i] = Q[i] /\ Q[i] # t
  BY DEF In
<1>3. \A i \in 1..(Len(Q) + 1) : i \in 1..Len(Q) \/ i = Len(Q) + 1
  BY <1>1
<1>4. \A i, j \in DOMAIN Append(Q, t) : Append(Q, t)[i] = Append(Q, t)[j] => i = j
  BY <1>1, <1>2, <1>3
<1>5. \A u : In(Append(Q, t), u) <=> In(Q, u) \/ u = t
  BY <1>1, <1>2, <1>3 DEF In
<1>. QED BY <1>1, <1>4, <1>5

\* wakeup_common keeps the list in order, and afterwards a thread that takes the
\* wakeup is in it.
LEMMA WakeOK ==
  ASSUME NEW T \in [Threads -> Thread], NEW Q \in Seq(Threads), NEW cu, NEW t \in Threads, NEW sig,
         ListOK(T, Q, cu), T[t].sig = sig => T[t].life = "live" /\ t # cu
  PROVE  /\ WakeT(T, t, sig) \in [Threads -> Thread] /\ Same(T, WakeT(T, t, sig))
         /\ WakeQ(T, Q, t, sig) \in Seq(Threads)
         /\ Len(Q) \in Nat /\ Len(WakeQ(T, Q, t, sig)) \in Nat /\ Len(WakeQ(T, Q, t, sig)) >= Len(Q)
         /\ ListOK(WakeT(T, t, sig), WakeQ(T, Q, t, sig), cu)
         /\ \A u \in Threads : In(WakeQ(T, Q, t, sig), u) <=> In(Q, u) \/ (u = t /\ T[t].sig = sig)
<1>1. CASE ~Wakeup(T, t, sig)
  <2>1. WakeT(T, t, sig) = T /\ WakeQ(T, Q, t, sig) = Q /\ Len(Q) \in Nat
    BY <1>1 DEF WakeT, WakeQ
  <2>2. T[t].sig = sig => In(Q, t)
    BY <1>1 DEF Wakeup, ListOK, Thread
  <2>. QED BY <2>1, <2>2 DEF Same
<1>2. CASE Wakeup(T, t, sig)
  <2> DEFINE T2 == [T EXCEPT ![t].pend = "yes"]
             Q2 == Append(Q, t)
  <2>1. WakeT(T, t, sig) = T2 /\ WakeQ(T, Q, t, sig) = Q2 /\ T[t].sig = sig /\ T[t].pend = "no"
    BY <1>2 DEF WakeT, WakeQ, Wakeup
  <2>2. T2 \in [Threads -> Thread]
    BY DEF Thread
  <2>3. Same(T, T2) /\ T2[t].pend = "yes" /\ \A u \in Threads : u # t => T2[u].pend = T[u].pend
    BY DEF Same, Thread
  <2>4. ~In(Q, t)
    BY <2>1 DEF ListOK
  <2>5. /\ Q2 \in Seq(Threads) /\ Len(Q2) = Len(Q) + 1 /\ Len(Q) \in Nat
        /\ \A i, j \in DOMAIN Q2 : Q2[i] = Q2[j] => i = j
        /\ \A u : In(Q2, u) <=> In(Q, u) \/ u = t
    BY <2>4, AppendIn DEF ListOK
  <2> HIDE DEF T2, Q2
  <2>6. ListOK(T2, Q2, cu)
    BY <2>1, <2>3, <2>5 DEF ListOK, Same
  <2>7. Len(Q2) \in Nat /\ Len(Q2) >= Len(Q)
    BY <2>5
  <2>. QED BY <2>1, <2>2, <2>3, <2>5, <2>6, <2>7
<1>. QED BY <1>1, <1>2

\* The end e of channel c waits for it and takes its wakeup.
Takes(T, e, c) == e # NoThread /\ T[e].wait = c /\ T[e].sig = "chan"

\* wakeup_chan, likewise.
LEMMA WakeChanOK ==
  ASSUME NEW T \in [Threads -> Thread], NEW Q \in Seq(Threads), NEW cu,
         NEW e \in Threads \union {NoThread}, NEW c, ListOK(T, Q, cu),
         Takes(T, e, c) => T[e].life = "live" /\ e # cu
  PROVE  /\ WakeChanT(T, e, c) \in [Threads -> Thread] /\ Same(T, WakeChanT(T, e, c))
         /\ WakeChanQ(T, Q, e, c) \in Seq(Threads)
         /\ Len(Q) \in Nat /\ Len(WakeChanQ(T, Q, e, c)) \in Nat /\ Len(WakeChanQ(T, Q, e, c)) >= Len(Q)
         /\ ListOK(WakeChanT(T, e, c), WakeChanQ(T, Q, e, c), cu)
         /\ \A u \in Threads : In(WakeChanQ(T, Q, e, c), u) <=> In(Q, u) \/ (u = e /\ Takes(T, e, c))
<1>1. CASE ~WaitsFor(T, e, c)
  <2>1. WakeChanT(T, e, c) = T /\ WakeChanQ(T, Q, e, c) = Q /\ ~Takes(T, e, c) /\ Len(Q) \in Nat
    BY <1>1 DEF WakeChanT, WakeChanQ, WaitsFor, Takes
  <2>. QED BY <2>1 DEF Same
<1>2. CASE WaitsFor(T, e, c)
  <2>1. /\ WakeChanT(T, e, c) = WakeT(T, e, "chan") /\ WakeChanQ(T, Q, e, c) = WakeQ(T, Q, e, "chan")
        /\ e \in Threads /\ (Takes(T, e, c) <=> T[e].sig = "chan")
    BY <1>2 DEF WakeChanT, WakeChanQ, WaitsFor, Takes
  <2>. QED BY <2>1, WakeOK
<1>. QED BY <1>1, <1>2

\* A thread yields.
LEMMA YieldIs ==
  ASSUME NEW T \in [Threads -> Thread], NEW t \in Threads,
         NEW at \in {"run", "read", "write", "sleep", "exit"}, NEW sig \in {"none", "self", "chan"},
         NEW c \in Chans \union {NoChan}
  PROVE  /\ Yield(T, t, at, sig, c) \in [Threads -> Thread]
         /\ \A v \in Threads \ {t} : Yield(T, t, at, sig, c)[v] = T[v]
         /\ LET Y == Yield(T, t, at, sig, c)[t] IN
            /\ Y.at = at /\ Y.sig = sig /\ Y.wait = c /\ Y.life = T[t].life /\ Y.pend = T[t].pend
            /\ Y.chans = T[t].chans /\ Y.timer = T[t].timer
<1> DEFINE A == [T EXCEPT ![t].at = at]
           B == [A EXCEPT ![t].sig = sig]
           C == [B EXCEPT ![t].wait = c]
<1>1. Yield(T, t, at, sig, c) = C
  BY DEF Yield
<1>2. /\ A \in [Threads -> Thread] /\ \A v \in Threads \ {t} : A[v] = T[v]
      /\ A[t].at = at /\ A[t].life = T[t].life /\ A[t].pend = T[t].pend
      /\ A[t].chans = T[t].chans /\ A[t].timer = T[t].timer
  BY DEF Thread
<1> HIDE DEF A
<1>3. /\ B \in [Threads -> Thread] /\ \A v \in Threads \ {t} : B[v] = T[v]
      /\ B[t].at = at /\ B[t].sig = sig /\ B[t].life = T[t].life /\ B[t].pend = T[t].pend
      /\ B[t].chans = T[t].chans /\ B[t].timer = T[t].timer
  BY <1>2 DEF Thread
<1> HIDE DEF B
<1>4. /\ C \in [Threads -> Thread] /\ \A v \in Threads \ {t} : C[v] = T[v]
      /\ C[t].at = at /\ C[t].sig = sig /\ C[t].wait = c /\ C[t].life = T[t].life /\ C[t].pend = T[t].pend
      /\ C[t].chans = T[t].chans /\ C[t].timer = T[t].timer
  BY <1>3 DEF Thread
<1> HIDE DEF C
<1>. QED BY <1>1, <1>4

\* The first thread of the list is resumed.
LEMMA PopIn ==
  ASSUME NEW Q \in Seq(Threads), Q # <<>>, \A i, j \in DOMAIN Q : Q[i] = Q[j] => i = j
  PROVE  /\ Tail(Q) \in Seq(Threads) /\ Head(Q) \in Threads
         /\ Len(Q) \in Nat \ {0} /\ Len(Tail(Q)) = Len(Q) - 1 /\ In(Q, Head(Q))
         /\ \A i, j \in DOMAIN Tail(Q) : Tail(Q)[i] = Tail(Q)[j] => i = j
         /\ \A t : In(Tail(Q), t) <=> In(Q, t) /\ t # Head(Q)
<1>1. /\ Tail(Q) \in Seq(Threads) /\ Head(Q) \in Threads /\ Head(Q) = Q[1]
      /\ Len(Q) \in Nat \ {0} /\ Len(Tail(Q)) = Len(Q) - 1
      /\ DOMAIN Q = 1..Len(Q) /\ DOMAIN Tail(Q) = 1..(Len(Q) - 1)
  OBVIOUS
<1>2. \A i \in 1..(Len(Q) - 1) : i + 1 \in 1..Len(Q) /\ Tail(Q)[i] = Q[i + 1] /\ i + 1 # 1
  BY <1>1
<1>3. \A i \in 1..Len(Q) : i # 1 => i - 1 \in 1..(Len(Q) - 1) /\ Tail(Q)[i - 1] = Q[i]
  BY <1>1
<1>4. \A i, j \in DOMAIN Tail(Q) : Tail(Q)[i] = Tail(Q)[j] => i = j
  BY <1>1, <1>2
<1>5. ASSUME NEW t PROVE In(Tail(Q), t) <=> In(Q, t) /\ t # Head(Q)
  <2>1. ASSUME In(Tail(Q), t) PROVE In(Q, t) /\ t # Head(Q)
    <3>1. PICK i \in 1..(Len(Q) - 1) : Tail(Q)[i] = t
      BY <1>1, <2>1 DEF In
    <3>2. i + 1 \in DOMAIN Q /\ Q[i + 1] = t /\ i + 1 # 1 /\ 1 \in DOMAIN Q
      BY <1>1, <1>2, <3>1
    <3>. QED BY <1>1, <3>2 DEF In
  <2>2. ASSUME In(Q, t), t # Head(Q) PROVE In(Tail(Q), t)
    <3>1. PICK i \in 1..Len(Q) : Q[i] = t
      BY <1>1, <2>2 DEF In
    <3>2. i # 1
      BY <1>1, <2>2, <3>1
    <3>. QED BY <1>1, <1>3, <3>1, <3>2 DEF In
  <2>. QED BY <2>1, <2>2
<1>6. In(Q, Head(Q))
  BY <1>1 DEF In
<1>. QED BY <1>1, <1>4, <1>5, <1>6

-----------------------------------------------------------------------------
(* The inductive invariant *)

\* The thread runs or is about to.
Ready(t) == InList(t) \/ cur = t

\* What WakeupKept says, channel by channel.
KeptInv ==
  \A t \in Threads : \A c \in Chans : thread[t].wait = c =>
    /\ ~Active(c) => Ready(t)
    /\ thread[t].at = "read" /\ Active(c) /\ chan[c].list # <<>> => Ready(t)
    /\ thread[t].at = "write" /\ Active(c) /\ Len(chan[c].list) < MaxLen[c] => Ready(t)

ChanInv == EndsInv /\ on_debug /\ ReadyInv /\ KeptInv /\ Fifo
SkiInv  == TypeOK /\ RunningOnce /\ ThreadInv /\ ChanInv

LEMMA KeptIs == SkiInv => WakeupKept
<1> SUFFICES ASSUME SkiInv, NEW t \in Threads
             PROVE  LET c == thread[t].wait IN
                    /\ c # NoChan /\ ~Active(c) => Ready(t)
                    /\ thread[t].at = "read" /\ Active(c) /\ chan[c].list # <<>> => Ready(t)
                    /\ thread[t].at = "write" /\ Active(c) /\ Len(chan[c].list) < MaxLen[c] => Ready(t)
  BY DEF WakeupKept, Ready
<1>1. thread[t].wait # NoChan => thread[t].wait \in Chans
  BY DEF SkiInv, TypeOK, Thread
<1>2. thread[t].at \in {"read", "write"} => thread[t].wait # NoChan
  BY DEF SkiInv, ThreadInv, Waiting
<1>. QED BY <1>1, <1>2 DEF SkiInv, ChanInv, KeptInv

\* The numbers in a channel after its first is taken, and after one is added.
LEMMA TakeFifo ==
  ASSUME NEW m \in Nat, NEW L \in Seq(1..m), L # <<>>, NEW n \in Nat, \A i \in DOMAIN L : L[i] = n + i
  PROVE  /\ Tail(L) \in Seq(1..m) /\ Len(L) \in Nat /\ Len(L) > 0 /\ Len(Tail(L)) = Len(L) - 1
         /\ Head(L) = n + 1 /\ Head(L) \in 1..m
         /\ \A i \in DOMAIN Tail(L) : Tail(L)[i] = n + 1 + i
<1>1. /\ Tail(L) \in Seq(1..m) /\ Len(L) \in Nat /\ Len(L) > 0 /\ Len(Tail(L)) = Len(L) - 1
      /\ DOMAIN Tail(L) = 1..(Len(L) - 1) /\ DOMAIN L = 1..Len(L) /\ Head(L) = L[1] /\ L[1] \in 1..m
  OBVIOUS
<1>2. 1 \in DOMAIN L
  BY <1>1
<1>3. ASSUME NEW i \in DOMAIN Tail(L) PROVE Tail(L)[i] = n + 1 + i
  <2>1. i \in Nat /\ i + 1 \in DOMAIN L /\ Tail(L)[i] = L[i + 1]
    BY <1>1
  <2>2. L[i + 1] = n + (i + 1)
    BY <2>1
  <2>. QED BY <2>1, <2>2
<1>. QED BY <1>1, <1>2, <1>3

LEMMA PutFifo ==
  ASSUME NEW m \in Nat, NEW L \in Seq(1..m), NEW n \in Nat, NEW k \in 0..m, k < m, n + Len(L) = k,
         \A i \in DOMAIN L : L[i] = n + i
  PROVE  /\ Append(L, k + 1) \in Seq(1..m) /\ Len(L) \in Nat /\ Len(Append(L, k + 1)) = Len(L) + 1
         /\ \A i \in DOMAIN Append(L, k + 1) : Append(L, k + 1)[i] = n + i
<1>1. k + 1 \in 1..m /\ Len(L) \in Nat
  OBVIOUS
<1>2. /\ Append(L, k + 1) \in Seq(1..m) /\ Len(Append(L, k + 1)) = Len(L) + 1
      /\ Append(L, k + 1)[Len(L) + 1] = k + 1 /\ \A i \in DOMAIN L : Append(L, k + 1)[i] = L[i]
      /\ DOMAIN Append(L, k + 1) = 1..(Len(L) + 1) /\ DOMAIN L = 1..Len(L)
  BY <1>1
<1>3. ASSUME NEW i \in 1..(Len(L) + 1) PROVE Append(L, k + 1)[i] = n + i
  <2>1. CASE i = Len(L) + 1
    BY <1>1, <1>2, <2>1
  <2>2. CASE i # Len(L) + 1
    BY <1>1, <1>2, <2>2
  <2>. QED BY <2>1, <2>2
<1>. QED BY <1>1, <1>2, <1>3

LEMMA InitInv == Init => SkiInv
<1> SUFFICES ASSUME Init PROVE SkiInv
  OBVIOUS
<1> DEFINE T == [t \in Threads |-> [NewThread EXCEPT !.life = IF t = Main THEN "live" ELSE "none"]]
<1>1. /\ T \in [Threads -> Thread]
      /\ \A t \in Threads : /\ T[t].life = (IF t = Main THEN "live" ELSE "none")
                            /\ T[t].sig = "self" /\ T[t].pend = "no" /\ T[t].wait = NoChan
                            /\ T[t].at = "run" /\ T[t].chans = {} /\ T[t].timer = "off"
  BY DEF NewThread, Thread
<1>2. thread = WakeT(T, Main, "self") /\ running = <<Main>> /\ left = 0 /\ cur = NoThread
  BY DEF Init
<1> HIDE DEF T
<1>3. ListOK(T, <<>>, NoThread)
  BY <1>1 DEF ListOK, In
<1>4. /\ thread \in [Threads -> Thread] /\ Same(T, thread)
      /\ ListOK(thread, running, NoThread)
  <2>1. <<>> \in Seq(Threads) /\ Main \in Threads
    BY SkiAssumption
  <2>2. NoThread # Main
    BY SkiAssumption
  <2>3. T[Main].sig = "self" => T[Main].life = "live" /\ Main # NoThread
    BY <1>1, <2>1, <2>2
  <2>4. WakeQ(T, <<>>, Main, "self") = <<Main>>
    BY <1>1, <2>1 DEF WakeQ, Wakeup
  <2>5. /\ WakeT(T, Main, "self") \in [Threads -> Thread] /\ Same(T, WakeT(T, Main, "self"))
        /\ ListOK(WakeT(T, Main, "self"), WakeQ(T, <<>>, Main, "self"), NoThread)
    BY <1>1, <1>3, <2>1, <2>3, WakeOK
  <2>. QED BY <1>2, <2>4, <2>5
<1>5. TypeOK
  <2>1. chan \in [Chans -> Chan]
    BY DEF Init, Chan
  <2>2. running \in Seq(Threads) /\ left \in Nat /\ left <= Len(running)
    BY <1>2, SkiAssumption
  <2>. QED BY <1>2, <1>4, <2>1, <2>2, SkiAssumption DEF TypeOK, Init
<1>6. RunningOnce
  BY <1>2, <1>4, ListIs
<1>7. ThreadInv
  BY <1>1, <1>2, <1>4 DEF ThreadInv, Same, Waiting
<1>8. \A c \in Chans : /\ Active(c) /\ chan[c].list = <<>> /\ chan[c].r = NoThread /\ chan[c].w = NoThread
                       /\ sent[c] = 0 /\ recv[c] = 0
  BY DEF Init, Active
<1>9. \A t \in Threads : thread[t].wait = NoChan /\ thread[t].at = "run" /\ thread[t].chans = {}
  BY <1>1, <1>4 DEF Same
<1>10. EndsInv /\ ReadyInv
  BY <1>8, <1>9 DEF EndsInv, ReadyInv
<1>11. on_debug /\ KeptInv
  BY <1>8, <1>9, SkiAssumption DEF on_debug, KeptInv
<1>12. Fifo
  BY <1>8, SkiAssumption DEF Fifo
<1>. QED BY <1>5, <1>6, <1>7, <1>10, <1>11, <1>12 DEF SkiInv, ChanInv

\* A step that leaves the channels and their ends alone keeps what is said of them.
LEMMA Quiet ==
  ASSUME TypeOK, ThreadInv, ChanInv, UNCHANGED <<chan, sent, recv>>,
         \A t \in Threads :
           /\ thread'[t].chans = thread[t].chans /\ thread'[t].wait = thread[t].wait
           /\ Waiting(t) => thread'[t].at = thread[t].at /\ (Ready(t)' <=> Ready(t))
           /\ ~Waiting(t) => ~Waiting(t)'
           /\ thread[t].chans # {} /\ thread[t].life = "live" => thread'[t].life = "live"
  PROVE  ChanInv'
<1>a. \A c : Active(c)' <=> Active(c)
  BY DEF Active
<1>1. EndsInv'
  BY <1>a DEF ChanInv, EndsInv, Waiting
<1>2. on_debug'
  <2>1. ASSUME NEW c \in Chans, Active(c), NEW t \in {chan[c].r, chan[c].w} \ {NoThread}
        PROVE  c \in thread'[t].chans /\ thread'[t].life = "live"
    <3>1. t \in Threads /\ c \in thread[t].chans /\ thread[t].life = "live"
      BY <2>1 DEF ChanInv, on_debug, TypeOK, Chan
    <3>. QED BY <3>1
  <2>2. \A t \in Threads : \A c \in thread'[t].chans : t \in {chan[c].r, chan[c].w}
    BY DEF ChanInv, on_debug
  <2>. QED BY <1>a, <2>1, <2>2 DEF on_debug
<1>3. ReadyInv'
  BY <1>a DEF ChanInv, ReadyInv, Waiting, Ready
<1>4. KeptInv'
  <2>1. ASSUME NEW t \in Threads, NEW c \in Chans, thread'[t].wait = c
        PROVE  /\ ~Active(c) => Ready(t)'
               /\ thread'[t].at = "read" /\ Active(c) /\ chan[c].list # <<>> => Ready(t)'
               /\ thread'[t].at = "write" /\ Active(c) /\ Len(chan[c].list) < MaxLen[c] => Ready(t)'
    <3>1. Waiting(t)
      BY <2>1, SkiAssumption DEF ThreadInv
    <3>. QED BY <2>1, <3>1 DEF ChanInv, KeptInv
  <2>. QED BY <1>a, <2>1 DEF KeptInv
<1>5. Fifo'
  BY <1>a DEF ChanInv, Fifo
<1>. QED BY <1>1, <1>2, <1>3, <1>4, <1>5 DEF ChanInv

-----------------------------------------------------------------------------
(* The steps that leave the channels alone *)

LEMMA goKeeps ==
  ASSUME SkiInv, NEW t \in Threads, NEW u \in Threads, go(t, u)
  PROVE  SkiInv'
<1> DEFINE T == [thread EXCEPT ![u] = NewThread]
<1>t. /\ thread \in [Threads -> Thread] /\ running \in Seq(Threads) /\ ListOK(thread, running, cur)
  BY ListIs DEF SkiInv, TypeOK
<1>1. /\ cur = t /\ thread[u].life = "none" /\ u # cur
      /\ UNCHANGED <<chan, left, cur, process, sent, recv>>
      /\ thread' = WakeT(T, u, "self") /\ running' = WakeQ(T, running, u, "self")
  <2>1. t # NoThread
    BY SkiAssumption
  <2>2. cur = t /\ thread[u].life = "none"
    BY DEF go, Runs
  <2>3. u # cur
    BY <2>1, <2>2 DEF SkiInv, ThreadInv
  <2>. QED BY <2>2, <2>3 DEF go
<1>2. ~In(running, u)
  BY <1>t, <1>1 DEF ListOK
<1>3. /\ T \in [Threads -> Thread] /\ T[u] = NewThread /\ \A v \in Threads \ {u} : T[v] = thread[v]
  BY <1>t DEF NewThread, Thread
<1> HIDE DEF T
<1>4. ListOK(T, running, cur)
  BY <1>t, <1>2, <1>3 DEF ListOK, NewThread
<1>5. /\ thread' \in [Threads -> Thread] /\ Same(T, thread') /\ running' \in Seq(Threads)
      /\ Len(running) \in Nat /\ Len(running') \in Nat /\ Len(running') >= Len(running)
      /\ ListOK(thread', running', cur)
      /\ \A v \in Threads : In(running', v) <=> In(running, v) \/ v = u
  <2>1. T[u].sig = "self" => T[u].life = "live" /\ u # cur
    BY <1>1, <1>3 DEF NewThread
  <2>2. T[u].sig = "self"
    BY <1>3 DEF NewThread
  <2>. QED BY <1>t, <1>1, <1>3, <1>4, <2>1, <2>2, WakeOK
<1>6. TypeOK'
  BY <1>1, <1>5 DEF SkiInv, TypeOK
<1>7. RunningOnce'
  BY <1>1, <1>5 DEF RunningOnce, ListOK, InList, In
<1>8. \A v \in Threads \ {u} : /\ thread'[v].life = thread[v].life /\ thread'[v].sig = thread[v].sig
                               /\ thread'[v].wait = thread[v].wait /\ thread'[v].at = thread[v].at
                               /\ thread'[v].chans = thread[v].chans /\ thread'[v].timer = thread[v].timer
  BY <1>3, <1>5 DEF Same
<1>9. /\ thread'[u].life = "live" /\ thread'[u].wait = NoChan /\ thread'[u].at = "run"
      /\ thread'[u].chans = {} /\ thread'[u].timer = "off"
  BY <1>3, <1>5 DEF Same, NewThread
<1>10. ThreadInv'
  BY <1>1, <1>8, <1>9 DEF SkiInv, ThreadInv, Waiting
<1>11. /\ thread[u].chans = {} /\ thread[u].wait = NoChan /\ ~Waiting(u)
  BY <1>1 DEF SkiInv, ThreadInv
<1>12. ASSUME NEW v \in Threads
       PROVE /\ thread'[v].chans = thread[v].chans /\ thread'[v].wait = thread[v].wait
             /\ Waiting(v) => thread'[v].at = thread[v].at /\ (Ready(v)' <=> Ready(v))
             /\ ~Waiting(v) => ~Waiting(v)'
             /\ thread[v].chans # {} /\ thread[v].life = "live" => thread'[v].life = "live"
  <2>1. CASE v = u
    BY <1>9, <1>11, <2>1 DEF Waiting
  <2>2. CASE v # u
    <3>1. Ready(v)' <=> Ready(v)
      BY <1>1, <1>5, <2>2 DEF Ready, InList, In
    <3>. QED BY <1>8, <2>2, <3>1 DEF Waiting
  <2>. QED BY <2>1, <2>2
<1>13. ChanInv'
  BY <1>1, <1>12, Quiet DEF SkiInv
<1>. QED BY <1>6, <1>7, <1>10, <1>13 DEF SkiInv

\* The running thread goes to sleep, goes on after a sleep, or ends.
LEMMA OwnStep ==
  ASSUME SkiInv, NEW t \in Threads, sleep(t) \/ sleep_resumed(t) \/ exit(t) \/ exit_end(t)
  PROVE  SkiInv'
<1>t. /\ thread \in [Threads -> Thread] /\ ListOK(thread, running, cur)
  BY ListIs DEF SkiInv, TypeOK
<1>1. /\ cur = t /\ ~Waiting(t) /\ UNCHANGED <<chan, running, left, process, sent, recv>>
      /\ cur' \in {cur, NoThread}
  BY DEF sleep, sleep_resumed, exit, exit_end, Runs, Waiting
<1>2. /\ thread' \in [Threads -> Thread] /\ \A v \in Threads \ {t} : thread'[v] = thread[v]
  <2>1. CASE sleep(t)
    <3> DEFINE Y == Yield(thread, t, "sleep", "self", NoChan)
    <3>1. Y \in [Threads -> Thread] /\ \A v \in Threads \ {t} : Y[v] = thread[v]
      BY <1>t, YieldIs
    <3>2. thread' = [Y EXCEPT ![t].timer = "armed"]
      BY <2>1 DEF sleep
    <3> HIDE DEF Y
    <3>. QED BY <3>1, <3>2 DEF Thread
  <2>2. CASE sleep_resumed(t)
    BY <1>t, <2>2 DEF sleep_resumed, Thread
  <2>3. CASE exit(t)
    BY <1>t, <2>3 DEF exit, Thread
  <2>4. CASE exit_end(t)
    BY <1>t, <2>4 DEF exit_end, Thread
  <2>. QED BY <2>1, <2>2, <2>3, <2>4
<1>3. /\ thread'[t].pend = thread[t].pend /\ thread'[t].chans = thread[t].chans
      /\ thread'[t].wait = thread[t].wait /\ thread'[t].at \notin {"read", "write"}
      /\ thread[t].life = "live" /\ thread[t].sig = "none" /\ thread[t].wait = NoChan
      /\ \/ thread'[t].life = "live" /\ (cur' = t => thread'[t].sig = "none")
         \/ thread'[t].life = "dead" /\ thread'[t].sig = "none" /\ cur' = NoThread /\ thread[t].chans = {}
  <2>1. thread[t].life = "live" /\ thread[t].sig = "none" /\ thread[t].wait = NoChan /\ t # NoThread
    BY <1>1, SkiAssumption DEF SkiInv, ThreadInv
  <2>2. CASE sleep(t)
    BY <1>t, <2>1, <2>2 DEF sleep, Yield, Thread
  <2>3. CASE sleep_resumed(t)
    BY <1>t, <2>1, <2>3 DEF sleep_resumed, Thread
  <2>4. CASE exit(t)
    BY <1>t, <2>1, <2>4 DEF exit, Thread
  <2>5. CASE exit_end(t)
    BY <1>t, <2>1, <2>5 DEF exit_end, Thread
  <2>. QED BY <2>2, <2>3, <2>4, <2>5
<1>4. TypeOK'
  BY <1>1, <1>2 DEF SkiInv, TypeOK
<1>5. RunningOnce'
  <2>1. ~In(running, t)
    BY <1>t, <1>1 DEF ListOK
  <2>2. NoThread \notin Threads
    BY SkiAssumption
  <2>3. ListOK(thread', running, cur')
    BY <1>t, <1>1, <1>2, <1>3, <2>1, <2>2 DEF ListOK
  <2>. QED BY <1>1, <2>3 DEF RunningOnce, ListOK, InList, In
<1>6. ThreadInv'
  BY <1>1, <1>2, <1>3 DEF SkiInv, ThreadInv, Waiting
<1>7. \A v \in Threads \ {t} : Ready(v)' <=> Ready(v)
  BY <1>1, SkiAssumption DEF Ready, InList
<1>8. ChanInv'
  <2>1. ASSUME NEW v \in Threads
        PROVE /\ thread'[v].chans = thread[v].chans /\ thread'[v].wait = thread[v].wait
              /\ Waiting(v) => thread'[v].at = thread[v].at /\ (Ready(v)' <=> Ready(v))
              /\ ~Waiting(v) => ~Waiting(v)'
              /\ thread[v].chans # {} /\ thread[v].life = "live" => thread'[v].life = "live"
    <3>1. CASE v = t
      BY <1>1, <1>3, <3>1 DEF Waiting
    <3>2. CASE v # t
      BY <1>2, <1>7, <3>2 DEF Waiting
    <3>. QED BY <3>1, <3>2
  <2>. QED BY <1>1, <2>1, Quiet DEF SkiInv
<1>. QED BY <1>4, <1>5, <1>6, <1>8 DEF SkiInv

\* The prepare hook starts a round or ends the process; a failed assert ends it.
LEMMA LoopStep ==
  ASSUME SkiInv, UNCHANGED <<thread, chan, running, cur, sent, recv>>,
         left' \in {left, Round}, process' \in {"running", "failed", "exited"}
  PROVE  SkiInv'
<1>1. TypeOK'
  BY DEF SkiInv, TypeOK, Round
<1>2. RunningOnce'
  BY DEF SkiInv, RunningOnce, InList
<1>3. ThreadInv'
  BY DEF SkiInv, ThreadInv, Waiting
<1>4. ChanInv'
  <2>1. \A t \in Threads : /\ Ready(t)' <=> Ready(t)
                           /\ Waiting(t)' <=> Waiting(t)
    BY DEF Ready, InList, Waiting
  <2>. QED BY <2>1, Quiet DEF SkiInv
<1>. QED BY <1>1, <1>2, <1>3, <1>4 DEF SkiInv

LEMMA resumeKeeps ==
  ASSUME SkiInv, resume
  PROVE  SkiInv'
<1> DEFINE h == Head(running)
<1>t. /\ thread \in [Threads -> Thread] /\ running \in Seq(Threads) /\ ListOK(thread, running, cur)
      /\ left \in Nat /\ left <= Len(running)
  BY ListIs DEF SkiInv, TypeOK
<1>1. /\ cur = NoThread /\ left > 0 /\ cur' = h /\ running' = Tail(running) /\ left' = left - 1
      /\ thread' = ClearSig(thread, h) /\ UNCHANGED <<chan, process, sent, recv>>
  BY DEF resume
<1>2. running # <<>>
  BY <1>t, <1>1
<1>3. /\ Tail(running) \in Seq(Threads) /\ h \in Threads
      /\ Len(running) \in Nat \ {0} /\ Len(Tail(running)) = Len(running) - 1 /\ In(running, h)
      /\ \A i, j \in DOMAIN Tail(running) : Tail(running)[i] = Tail(running)[j] => i = j
      /\ \A t : In(Tail(running), t) <=> In(running, t) /\ t # h
  BY <1>t, <1>2, PopIn DEF ListOK
<1>4. /\ thread' \in [Threads -> Thread] /\ \A v \in Threads \ {h} : thread'[v] = thread[v]
      /\ thread'[h].sig = "none" /\ thread'[h].pend = "no" /\ thread'[h].life = thread[h].life
      /\ thread'[h].wait = thread[h].wait /\ thread'[h].at = thread[h].at
      /\ thread'[h].chans = thread[h].chans /\ thread'[h].timer = thread[h].timer
  <2> DEFINE A == [thread EXCEPT ![h].sig = "none"]
  <2>1. /\ A \in [Threads -> Thread] /\ \A v \in Threads \ {h} : A[v] = thread[v]
        /\ A[h].sig = "none" /\ A[h].life = thread[h].life /\ A[h].wait = thread[h].wait
        /\ A[h].at = thread[h].at /\ A[h].chans = thread[h].chans /\ A[h].timer = thread[h].timer
    BY <1>t, <1>3 DEF Thread
  <2>2. thread' = [A EXCEPT ![h].pend = "no"]
    BY <1>1 DEF ClearSig
  <2> HIDE DEF A, h
  <2>. QED BY <1>3, <2>1, <2>2 DEF Thread
<1> HIDE DEF h
<1>5. thread[h].life = "live"
  BY <1>t, <1>3 DEF ListOK
<1>6. TypeOK'
  <2>1. left' \in Nat /\ left' <= Len(running')
    BY <1>t, <1>1, <1>3
  <2>. QED BY <1>1, <1>3, <1>4, <2>1 DEF SkiInv, TypeOK
<1>7. RunningOnce'
  <2>1. ListOK(thread', Tail(running), h)
    BY <1>t, <1>3, <1>4 DEF ListOK
  <2>. QED BY <1>1, <2>1 DEF RunningOnce, ListOK, InList, In
<1>8. ThreadInv'
  <2>1. ASSUME NEW v \in Threads
        PROVE  /\ thread'[v].life = thread[v].life /\ thread'[v].wait = thread[v].wait
               /\ thread'[v].at = thread[v].at /\ thread'[v].chans = thread[v].chans
               /\ thread'[v].timer = thread[v].timer
               /\ thread'[v].sig = IF v = h THEN "none" ELSE thread[v].sig
               /\ v # cur
    BY <1>1, <1>4, SkiAssumption
  <2>. QED BY <1>1, <1>3, <1>5, <2>1 DEF SkiInv, ThreadInv, Waiting
<1>9. ASSUME NEW v \in Threads PROVE Ready(v)' <=> Ready(v)
  <2>1. cur # v
    BY <1>1, SkiAssumption
  <2>2. InList(v)' <=> In(running, v) /\ v # h
    BY <1>1, <1>3 DEF InList, In
  <2>. QED BY <1>1, <1>3, <2>1, <2>2, ListIs DEF Ready
<1>10. ChanInv'
  <2>1. ASSUME NEW v \in Threads
        PROVE /\ thread'[v].chans = thread[v].chans /\ thread'[v].wait = thread[v].wait
              /\ thread'[v].at = thread[v].at /\ thread'[v].life = thread[v].life
    BY <1>4
  <2>2. \A v \in Threads : Waiting(v)' <=> Waiting(v)
    BY <2>1 DEF Waiting
  <2>. QED BY <1>1, <1>9, <2>1, <2>2, Quiet DEF SkiInv
<1>. QED BY <1>6, <1>7, <1>8, <1>10 DEF SkiInv

\* A timer wakes a thread that sleeps, never one that waits for a channel.
LEMMA timerKeeps ==
  ASSUME SkiInv, NEW t \in Threads, timer(t)
  PROVE  SkiInv'
<1> DEFINE T == [thread EXCEPT ![t].timer = "off"]
<1>t. /\ thread \in [Threads -> Thread] /\ running \in Seq(Threads) /\ ListOK(thread, running, cur)
  BY ListIs DEF SkiInv, TypeOK
<1>1. /\ cur = NoThread /\ thread[t].timer = "armed" /\ UNCHANGED <<chan, left, cur, process, sent, recv>>
      /\ thread' = WakeT(T, t, "self") /\ running' = WakeQ(T, running, t, "self")
  BY DEF timer
<1>2. /\ T \in [Threads -> Thread] /\ \A v \in Threads : v # t => T[v] = thread[v]
      /\ T[t].life = thread[t].life /\ T[t].sig = thread[t].sig /\ T[t].pend = thread[t].pend
      /\ T[t].wait = thread[t].wait /\ T[t].at = thread[t].at /\ T[t].chans = thread[t].chans
      /\ T[t].timer = "off"
  BY <1>t DEF Thread
<1> HIDE DEF T
<1>3. ListOK(T, running, cur)
  BY <1>t, <1>2 DEF ListOK
<1>n. t # cur
  BY <1>1, SkiAssumption
<1>4. T[t].sig = "self" => T[t].life = "live" /\ t # cur
  <2>1. thread[t].life # "none" /\ (thread[t].life = "dead" => thread[t].sig = "none")
    BY <1>1 DEF SkiInv, ThreadInv
  <2>2. thread[t].life \in {"none", "live", "dead"}
    BY <1>t DEF Thread
  <2>. QED BY <1>n, <1>2, <2>1, <2>2
<1>5. /\ thread' \in [Threads -> Thread] /\ Same(T, thread') /\ running' \in Seq(Threads)
      /\ Len(running) \in Nat /\ Len(running') \in Nat /\ Len(running') >= Len(running)
      /\ ListOK(thread', running', cur)
      /\ \A v \in Threads : In(running', v) <=> In(running, v) \/ (v = t /\ T[t].sig = "self")
  BY <1>t, <1>1, <1>2, <1>3, <1>4, WakeOK
<1>6. TypeOK'
  BY <1>1, <1>5 DEF SkiInv, TypeOK
<1>7. RunningOnce'
  BY <1>1, <1>5 DEF RunningOnce, ListOK, InList, In
<1>8. \A v \in Threads : /\ thread'[v].life = thread[v].life /\ thread'[v].sig = thread[v].sig
                         /\ thread'[v].wait = thread[v].wait /\ thread'[v].at = thread[v].at
                         /\ thread'[v].chans = thread[v].chans
                         /\ thread[v].timer = "off" => thread'[v].timer = "off"
  BY <1>2, <1>5 DEF Same
<1>9. ThreadInv'
  BY <1>1, <1>8 DEF SkiInv, ThreadInv, Waiting
<1>10. ASSUME NEW v \in Threads, Waiting(v) PROVE Ready(v)' <=> Ready(v)
  <2>1. v = t => T[t].sig # "self"
    BY <1>2, <1>n, <1>10 DEF SkiInv, ThreadInv
  <2>2. InList(v)' <=> In(running, v)
    BY <1>5, <2>1 DEF InList, In
  <2>. QED BY <1>1, <2>2, ListIs DEF Ready
<1>11. ChanInv'
  <2>1. \A v \in Threads : Waiting(v)' <=> Waiting(v)
    BY <1>8 DEF Waiting
  <2>. QED BY <1>1, <1>8, <1>10, <2>1, Quiet DEF SkiInv
<1>. QED BY <1>6, <1>7, <1>9, <1>11 DEF SkiInv

-----------------------------------------------------------------------------
(* Reading, writing and closing a channel *)

\* A thread that takes the wakeup of a channel is alive and does not run.
LEMMA EndLive ==
  ASSUME SkiInv, NEW e \in Threads \union {NoThread}, NEW c \in Chans, Takes(thread, e, c)
  PROVE  e \in Threads /\ thread[e].life = "live" /\ Waiting(e) /\ e # cur
<1>1. e \in Threads /\ thread[e].wait = c /\ thread[e].sig = "chan" /\ c # NoChan
  BY SkiAssumption DEF Takes
<1>2. Waiting(e) /\ thread[e].life \in {"none", "live", "dead"}
  BY <1>1 DEF SkiInv, ThreadInv, TypeOK, Thread
<1>3. thread[e].life = "live"
  BY <1>1, <1>2 DEF SkiInv, ThreadInv
<1>4. e # cur
  BY <1>1, SkiAssumption DEF SkiInv, ThreadInv
<1>. QED BY <1>1, <1>2, <1>3, <1>4

\* The ends of a channel are threads or none.
LEMMA Ends ==
  ASSUME SkiInv, NEW c \in Chans
  PROVE  /\ chan[c].r \in Threads \union {NoThread} /\ chan[c].w \in Threads \union {NoThread}
         /\ chan[c].list \in Seq(1..MaxMsgs) /\ chan[c].active \in {"no", "yes"}
         /\ sent[c] \in 0..MaxMsgs /\ recv[c] \in 0..MaxMsgs /\ MaxLen[c] \in Nat \ {0}
         /\ Len(chan[c].list) \in Nat
<1>1. chan[c] \in Chan
  BY DEF SkiInv, TypeOK
<1>. QED BY <1>1, SkiAssumption DEF SkiInv, TypeOK, Chan

\* The channels other than c are as they were.
Others(c) == \A d \in Chans \ {c} : chan'[d] = chan[d] /\ sent'[d] = sent[d] /\ recv'[d] = recv[d]

\* The threads other than t are as they were, but for wakeups.
OtherThreads(t) ==
  \A u \in Threads \ {t} :
    /\ thread'[u].life = thread[u].life /\ thread'[u].sig = thread[u].sig
    /\ thread'[u].wait = thread[u].wait /\ thread'[u].at = thread[u].at
    /\ thread'[u].chans = thread[u].chans /\ thread'[u].timer = thread[u].timer

\* The wakeup of e for c is all that happened to ski_running_list.
OnlyWakes(e, c) ==
  \A u \in Threads : InList(u)' <=> InList(u) \/ (u = e /\ Takes(thread, e, c))

\* The running thread is not woken.
LEMMA CurNotListed ==
  ASSUME SkiInv, NEW t \in Threads, cur = t
  PROVE  /\ ~InList(t) /\ thread[t].life = "live" /\ thread[t].sig = "none" /\ t # NoThread
         /\ \A e, c : ~Takes(thread, e, c) \/ e # t
<1>1. t # NoThread
  BY SkiAssumption
<1>. QED BY <1>1 DEF SkiInv, ThreadInv, RunningOnce, Takes

\* The thread t, which runs, becomes or is the reader (or the writer) of c, and the
\* other end stays: threads and channels still know each other.
LEMMA DebugKept ==
  ASSUME SkiInv, NEW t \in Threads, NEW c \in Chans, Active(c), cur = t, OtherThreads(t),
         thread'[t].life = "live", thread'[t].chans = thread[t].chans \union {c},
         Active(c)', \A d \in Chans \ {c} : chan'[d] = chan[d],
         \/ chan'[c].r = t /\ chan'[c].w = chan[c].w /\ chan[c].r \in {t, NoThread}
         \/ chan'[c].w = t /\ chan'[c].r = chan[c].r /\ chan[c].w \in {t, NoThread}
  PROVE  on_debug'
<1>1. ASSUME NEW d \in Chans, Active(d)', NEW e \in {chan'[d].r, chan'[d].w} \ {NoThread}
      PROVE  d \in thread'[e].chans /\ thread'[e].life = "live"
  <2>1. CASE e = t /\ d = c
    BY <2>1
  <2>2. CASE ~(e = t /\ d = c)
    <3>1. Active(d) /\ e \in {chan[d].r, chan[d].w} \ {NoThread}
      BY <1>1, <2>2 DEF Active
    <3>2. d \in thread[e].chans /\ thread[e].life = "live" /\ e \in Threads
      BY <3>1, Ends DEF SkiInv, ChanInv, on_debug
    <3>. QED BY <3>2 DEF OtherThreads
  <2>. QED BY <2>1, <2>2
<1>2. ASSUME NEW v \in Threads, NEW d \in thread'[v].chans
      PROVE  v \in {chan'[d].r, chan'[d].w}
  <2>1. CASE v = t /\ d = c
    BY <2>1
  <2>2. CASE ~(v = t /\ d = c)
    <3>1. d \in thread[v].chans
      BY <1>2, <2>2 DEF OtherThreads
    <3>2. v \in {chan[d].r, chan[d].w} /\ d \in Chans
      BY <3>1 DEF SkiInv, ChanInv, on_debug, TypeOK, Thread
    <3>3. v # NoThread
      BY SkiAssumption
    <3>. QED BY <2>2, <3>2, <3>3
  <2>. QED BY <2>1, <2>2
<1>. QED BY <1>1, <1>2 DEF on_debug

\* A step that keeps channel c in order and leaves the others alone keeps them all so.
LEMMA FifoKept ==
  ASSUME SkiInv, NEW c \in Chans, Others(c), \A d \in Chans \ {c} : Active(d)' <=> Active(d),
         Active(c)' => /\ Len(chan'[c].list) <= MaxLen[c]
                       /\ recv'[c] + Len(chan'[c].list) = sent'[c]
                       /\ \A i \in DOMAIN chan'[c].list : chan'[c].list[i] = recv'[c] + i
  PROVE  Fifo'
<1>1. ASSUME NEW d \in Chans, Active(d)'
      PROVE  /\ Len(chan'[d].list) <= MaxLen[d]
             /\ recv'[d] + Len(chan'[d].list) = sent'[d]
             /\ \A i \in DOMAIN chan'[d].list : chan'[d].list[i] = recv'[d] + i
  <2>1. CASE d = c
    BY <1>1, <2>1
  <2>2. CASE d # c
    BY <1>1, <2>2 DEF Others, SkiInv, ChanInv, Fifo
  <2>. QED BY <2>1, <2>2
<1>. QED BY <1>1 DEF Fifo

\* A reader takes the first item.
LEMMA TakeKeeps ==
  ASSUME SkiInv, NEW t \in Threads, NEW c \in Chans, Active(c), cur = t, cur' = cur,
         t \in Readers[c], chan[c].r \in {t, NoThread}, t # chan[c].w, chan[c].list # <<>>,
         OtherThreads(t), thread'[t].life = thread[t].life, thread'[t].sig = thread[t].sig,
         thread'[t].chans = thread[t].chans \union {c}, thread'[t].wait = NoChan, thread'[t].at = "run",
         Others(c), Active(c)', chan'[c].r = t, chan'[c].w = chan[c].w, chan'[c].list = Tail(chan[c].list),
         sent'[c] = sent[c], recv'[c] = Head(chan[c].list), OnlyWakes(chan[c].w, c)
  PROVE  ThreadInv' /\ ChanInv'
<1>c. /\ ~InList(t) /\ thread[t].life = "live" /\ thread[t].sig = "none" /\ t # NoThread
      /\ NoChan \notin Chans /\ NoThread \notin Threads
  BY CurNotListed, SkiAssumption
<1>e. /\ chan[c].list \in Seq(1..MaxMsgs) /\ MaxLen[c] \in Nat \ {0} /\ Len(chan[c].list) \in Nat
      /\ recv[c] \in Nat /\ sent[c] \in Nat
  BY Ends
<1>f. /\ Len(chan[c].list) <= MaxLen[c] /\ recv[c] + Len(chan[c].list) = sent[c]
      /\ \A i \in DOMAIN chan[c].list : chan[c].list[i] = recv[c] + i
  BY DEF SkiInv, ChanInv, Fifo
<1>l. /\ Len(chan'[c].list) < MaxLen[c] /\ recv'[c] + Len(chan'[c].list) = sent[c]
      /\ \A i \in DOMAIN chan'[c].list : chan'[c].list[i] = recv'[c] + i
  <2> DEFINE L == chan[c].list
             n == recv[c]
             x == MaxLen[c]
  <2>1. /\ Len(Tail(L)) = Len(L) - 1 /\ Len(L) \in Nat /\ Len(L) > 0 /\ Head(L) = n + 1
        /\ \A i \in DOMAIN Tail(L) : Tail(L)[i] = n + 1 + i
    <3>1. L \in Seq(1..MaxMsgs) /\ MaxMsgs \in Nat /\ n \in Nat /\ L # <<>> /\ \A i \in DOMAIN L : L[i] = n + i
      BY <1>e, <1>f, SkiAssumption
    <3> HIDE DEF L, n
    <3>. QED BY <3>1, TakeFifo
  <2>2. Len(L) <= x /\ x \in Nat /\ n \in Nat /\ n + Len(L) = sent[c]
    BY <1>e, <1>f
  <2>3. chan'[c].list = Tail(L) /\ recv'[c] = Head(L)
    OBVIOUS
  <2> HIDE DEF L, n, x
  <2>4. Len(Tail(L)) < x /\ Head(L) + Len(Tail(L)) = sent[c]
    BY <2>1, <2>2
  <2>. QED BY <2>1, <2>3, <2>4 DEF x
<1>a. \A d \in Chans : Active(d)' <=> Active(d)
  BY DEF Others, Active
<1>1. ThreadInv'
  BY <1>c DEF SkiInv, ThreadInv, OtherThreads, Waiting
<1>2. EndsInv'
  <2>1. ASSUME NEW v \in Threads, NEW d \in Chans, thread'[v].wait = d, Active(d)
        PROVE  /\ thread'[v].at = "read" => chan'[d].r = v
               /\ thread'[v].at = "write" => chan'[d].w = v /\ sent'[d] < MaxMsgs
    <3>1. v # t
      BY <1>c, <2>1
    <3>2. /\ thread[v].wait = d /\ thread'[v].at = thread[v].at
      BY <2>1, <3>1 DEF OtherThreads
    <3>3. /\ thread[v].at = "read" => chan[d].r = v
          /\ thread[v].at = "write" => chan[d].w = v /\ sent[d] < MaxMsgs
      BY <2>1, <3>2 DEF SkiInv, ChanInv, EndsInv
    <3>. QED BY <1>c, <3>1, <3>2, <3>3 DEF Others
  <2>2. ASSUME NEW d \in Chans
        PROVE  /\ chan'[d].r # NoThread => chan'[d].r # chan'[d].w
               /\ chan'[d].r \in Readers[d] \union {NoThread} /\ chan'[d].w \in Writers[d] \union {NoThread}
    BY DEF SkiInv, ChanInv, EndsInv, Others
  <2>. QED BY <1>a, <2>1, <2>2 DEF EndsInv
<1>3. on_debug'
  BY <1>c, DebugKept DEF Others
<1>4. ReadyInv'
  <2>1. ASSUME NEW v \in Threads, NEW d \in Chans, thread'[v].wait = d, Active(d), InList(v)' \/ cur' = v
        PROVE  /\ thread'[v].at = "read" => chan'[d].list # <<>> /\ chan'[d].w # NoThread
               /\ thread'[v].at = "write" => Len(chan'[d].list) < MaxLen[d] /\ chan'[d].r # NoThread
    <3>1. v # t
      BY <1>c, <2>1
    <3>2. /\ thread[v].wait = d /\ thread'[v].at = thread[v].at
      BY <2>1, <3>1 DEF OtherThreads
    <3>3. CASE d # c
      <4>1. InList(v) \/ cur = v
        BY <2>1, <3>1, <3>2, <3>3 DEF OnlyWakes, Takes
      <4>. QED BY <2>1, <3>2, <3>3, <4>1 DEF SkiInv, ChanInv, ReadyInv, Others
    <3>4. CASE d = c
      <4>1. thread[v].at # "read"
        BY <1>c, <2>1, <3>1, <3>2, <3>4 DEF SkiInv, ChanInv, EndsInv
      <4>. QED BY <1>c, <1>l, <3>2, <3>4, <4>1
    <3>. QED BY <3>3, <3>4
  <2>. QED BY <1>a, <2>1 DEF ReadyInv
<1>5. KeptInv'
  <2>1. ASSUME NEW v \in Threads, NEW d \in Chans, thread'[v].wait = d
        PROVE  /\ ~Active(d) => Ready(v)'
               /\ thread'[v].at = "read" /\ Active(d) /\ chan'[d].list # <<>> => Ready(v)'
               /\ thread'[v].at = "write" /\ Active(d) /\ Len(chan'[d].list) < MaxLen[d] => Ready(v)'
    <3>1. v # t
      BY <1>c, <2>1
    <3>2. /\ thread[v].wait = d /\ thread'[v].at = thread[v].at
      BY <2>1, <3>1 DEF OtherThreads
    <3>3. Ready(v) => Ready(v)'
      BY DEF OnlyWakes, Ready
    <3>4. CASE d # c
      BY <3>2, <3>3, <3>4 DEF SkiInv, ChanInv, KeptInv, Others
    <3>5. CASE d = c
      <4>1. thread[v].at # "read"
        BY <1>c, <3>1, <3>2, <3>5 DEF SkiInv, ChanInv, EndsInv
      <4>2. Waiting(v) /\ thread[v].sig = "chan"
        BY <1>c, <3>1, <3>2 DEF SkiInv, ThreadInv
      <4>3. v = chan[c].w
        BY <3>2, <3>5, <4>1, <4>2 DEF Waiting, SkiInv, ChanInv, EndsInv
      <4>4. InList(v)'
        BY <1>c, <3>2, <3>5, <4>2, <4>3 DEF OnlyWakes, Takes
      <4>. QED BY <4>4 DEF Ready
    <3>. QED BY <3>4, <3>5
  <2>. QED BY <1>a, <2>1 DEF KeptInv
<1>6. Fifo'
  <2>1. /\ Len(chan'[c].list) <= MaxLen[c] /\ recv'[c] + Len(chan'[c].list) = sent'[c]
        /\ \A i \in DOMAIN chan'[c].list : chan'[c].list[i] = recv'[c] + i
    <3>1. Len(chan'[c].list) \in Nat
      BY <1>e
    <3>. QED BY <1>e, <1>l, <3>1
  <2>. QED BY <1>a, <2>1, FifoKept DEF Others
<1>. QED BY <1>1, <1>2, <1>3, <1>4, <1>5, <1>6 DEF ChanInv

\* A writer appends an item.
LEMMA PutKeeps ==
  ASSUME SkiInv, NEW t \in Threads, NEW c \in Chans, Active(c), cur = t, cur' = cur,
         t \in Writers[c], chan[c].w \in {t, NoThread}, t # chan[c].r, Len(chan[c].list) < MaxLen[c],
         sent[c] < MaxMsgs,
         OtherThreads(t), thread'[t].life = thread[t].life, thread'[t].sig = thread[t].sig,
         thread'[t].chans = thread[t].chans \union {c}, thread'[t].wait = NoChan, thread'[t].at = "run",
         Others(c), Active(c)', chan'[c].w = t, chan'[c].r = chan[c].r,
         chan'[c].list = Append(chan[c].list, sent[c] + 1),
         sent'[c] = sent[c] + 1, recv'[c] = recv[c], OnlyWakes(chan[c].r, c)
  PROVE  ThreadInv' /\ ChanInv'
<1>c. /\ ~InList(t) /\ thread[t].life = "live" /\ thread[t].sig = "none" /\ t # NoThread
      /\ NoChan \notin Chans /\ NoThread \notin Threads
  BY CurNotListed, SkiAssumption
<1>e. /\ chan[c].list \in Seq(1..MaxMsgs) /\ MaxLen[c] \in Nat \ {0} /\ Len(chan[c].list) \in Nat
      /\ recv[c] \in Nat /\ sent[c] \in 0..MaxMsgs
  BY Ends
<1>f. /\ Len(chan[c].list) <= MaxLen[c] /\ recv[c] + Len(chan[c].list) = sent[c]
      /\ \A i \in DOMAIN chan[c].list : chan[c].list[i] = recv[c] + i
  BY DEF SkiInv, ChanInv, Fifo
<1>l. /\ chan'[c].list # <<>> /\ Len(chan'[c].list) <= MaxLen[c]
      /\ recv'[c] + Len(chan'[c].list) = sent'[c]
      /\ \A i \in DOMAIN chan'[c].list : chan'[c].list[i] = recv'[c] + i
  <2> DEFINE L == chan[c].list
             n == recv[c]
             k == sent[c]
             x == MaxLen[c]
  <2>1. /\ Append(L, k + 1) \in Seq(1..MaxMsgs) /\ Len(Append(L, k + 1)) = Len(L) + 1 /\ Len(L) \in Nat
        /\ \A i \in DOMAIN Append(L, k + 1) : Append(L, k + 1)[i] = n + i
    <3>1. /\ L \in Seq(1..MaxMsgs) /\ MaxMsgs \in Nat /\ n \in Nat /\ k \in 0..MaxMsgs /\ k < MaxMsgs
          /\ n + Len(L) = k /\ \A i \in DOMAIN L : L[i] = n + i
      BY <1>e, <1>f, SkiAssumption
    <3> HIDE DEF L, n, k
    <3>. QED BY <3>1, PutFifo
  <2>2. Len(L) < x /\ x \in Nat /\ n \in Nat /\ n + Len(L) = k
    BY <1>e, <1>f
  <2>3. chan'[c].list = Append(L, k + 1) /\ recv'[c] = n /\ sent'[c] = k + 1
    OBVIOUS
  <2> HIDE DEF L, n, k, x
  <2>4. Len(Append(L, k + 1)) <= x /\ n + Len(Append(L, k + 1)) = k + 1 /\ Append(L, k + 1) # <<>>
    BY <2>1, <2>2
  <2>. QED BY <2>1, <2>3, <2>4 DEF x
<1>a. \A d \in Chans : Active(d)' <=> Active(d)
  BY DEF Others, Active
<1>1. ThreadInv'
  BY <1>c DEF SkiInv, ThreadInv, OtherThreads, Waiting
<1>2. EndsInv'
  <2>1. ASSUME NEW v \in Threads, NEW d \in Chans, thread'[v].wait = d, Active(d)
        PROVE  /\ thread'[v].at = "read" => chan'[d].r = v
               /\ thread'[v].at = "write" => chan'[d].w = v /\ sent'[d] < MaxMsgs
    <3>1. v # t
      BY <1>c, <2>1
    <3>2. ASSUME v # t
          PROVE  /\ thread'[v].at = "read" => chan'[d].r = v
                 /\ thread'[v].at = "write" => chan'[d].w = v /\ sent'[d] < MaxMsgs
      <4>1. /\ thread[v].wait = d /\ thread'[v].at = thread[v].at
        BY <2>1, <3>2 DEF OtherThreads
      <4>2. /\ thread[v].at = "read" => chan[d].r = v
            /\ thread[v].at = "write" => chan[d].w = v /\ sent[d] < MaxMsgs
        BY <2>1, <4>1 DEF SkiInv, ChanInv, EndsInv
      <4>. QED BY <1>c, <3>2, <4>1, <4>2 DEF Others
    <3>. QED BY <3>1, <3>2
  <2>2. ASSUME NEW d \in Chans
        PROVE  /\ chan'[d].r # NoThread => chan'[d].r # chan'[d].w
               /\ chan'[d].r \in Readers[d] \union {NoThread} /\ chan'[d].w \in Writers[d] \union {NoThread}
    BY DEF SkiInv, ChanInv, EndsInv, Others
  <2>. QED BY <1>a, <2>1, <2>2 DEF EndsInv
<1>3. on_debug'
  BY <1>c, DebugKept DEF Others
<1>4. ReadyInv'
  <2>1. ASSUME NEW v \in Threads, NEW d \in Chans, thread'[v].wait = d, Active(d), InList(v)' \/ cur' = v
        PROVE  /\ thread'[v].at = "read" => chan'[d].list # <<>> /\ chan'[d].w # NoThread
               /\ thread'[v].at = "write" => Len(chan'[d].list) < MaxLen[d] /\ chan'[d].r # NoThread
    <3>1. v # t
      BY <1>c, <2>1
    <3>2. /\ thread[v].wait = d /\ thread'[v].at = thread[v].at
      BY <2>1, <3>1 DEF OtherThreads
    <3>3. CASE d # c
      <4>1. InList(v)
        BY <1>c, <2>1, <3>1, <3>2, <3>3 DEF OnlyWakes, Takes
      <4>. QED BY <2>1, <3>2, <3>3, <4>1 DEF SkiInv, ChanInv, ReadyInv, Others
    <3>4. CASE d = c
      <4>1. thread[v].at # "write"
        BY <1>c, <2>1, <3>1, <3>2, <3>4 DEF SkiInv, ChanInv, EndsInv
      <4>. QED BY <1>c, <1>l, <3>2, <3>4, <4>1
    <3>. QED BY <3>3, <3>4
  <2>. QED BY <1>a, <2>1 DEF ReadyInv
<1>5. KeptInv'
  <2>1. ASSUME NEW v \in Threads, NEW d \in Chans, thread'[v].wait = d
        PROVE  /\ ~Active(d) => Ready(v)'
               /\ thread'[v].at = "read" /\ Active(d) /\ chan'[d].list # <<>> => Ready(v)'
               /\ thread'[v].at = "write" /\ Active(d) /\ Len(chan'[d].list) < MaxLen[d] => Ready(v)'
    <3>1. v # t
      BY <1>c, <2>1
    <3>2. ASSUME v # t
          PROVE  /\ ~Active(d) => Ready(v)'
                 /\ thread'[v].at = "read" /\ Active(d) /\ chan'[d].list # <<>> => Ready(v)'
                 /\ thread'[v].at = "write" /\ Active(d) /\ Len(chan'[d].list) < MaxLen[d] => Ready(v)'
      <4>1. /\ thread[v].wait = d /\ thread'[v].at = thread[v].at
        BY <2>1, <3>2 DEF OtherThreads
      <4>2. Ready(v) => Ready(v)'
        BY <3>2 DEF OnlyWakes, Ready
      <4>3. CASE d # c
        BY <4>1, <4>2, <4>3 DEF SkiInv, ChanInv, KeptInv, Others
      <4>4. CASE d = c
        <5>1. thread[v].at # "write"
          BY <1>c, <3>2, <4>1, <4>4 DEF SkiInv, ChanInv, EndsInv
        <5>2. Waiting(v) /\ thread[v].sig = "chan"
          BY <1>c, <3>2, <4>1 DEF SkiInv, ThreadInv
        <5>3. v = chan[c].r
          BY <4>1, <4>4, <5>1, <5>2 DEF Waiting, SkiInv, ChanInv, EndsInv
        <5>4. InList(v)'
          BY <1>c, <4>1, <4>4, <5>2, <5>3 DEF OnlyWakes, Takes
        <5>. QED BY <5>4 DEF Ready
      <4>. QED BY <4>3, <4>4
    <3>. QED BY <3>1, <3>2
  <2>. QED BY <1>a, <2>1 DEF KeptInv
<1>6. Fifo'
  BY <1>a, <1>l, FifoKept DEF Others
<1>. QED BY <1>1, <1>2, <1>3, <1>4, <1>5, <1>6 DEF ChanInv

\* A reader finds the channel empty and waits.
LEMMA ReadWaits ==
  ASSUME SkiInv, NEW t \in Threads, NEW c \in Chans, Active(c), cur = t, cur' = NoThread,
         t \in Readers[c], chan[c].r \in {t, NoThread}, t # chan[c].w, chan[c].list = <<>>,
         OtherThreads(t), thread'[t].life = thread[t].life, thread'[t].sig = "chan",
         thread'[t].chans = thread[t].chans \union {c}, thread'[t].wait = c, thread'[t].at = "read",
         Others(c), Active(c)', chan'[c].r = t, chan'[c].w = chan[c].w, chan'[c].list = chan[c].list,
         sent'[c] = sent[c], recv'[c] = recv[c], OnlyWakes(chan[c].w, c)
  PROVE  ThreadInv' /\ ChanInv'
<1>c. /\ ~InList(t) /\ thread[t].life = "live" /\ thread[t].sig = "none" /\ t # NoThread
      /\ NoChan \notin Chans /\ NoThread \notin Threads
  BY CurNotListed, SkiAssumption
<1>e. /\ chan[c].list \in Seq(1..MaxMsgs) /\ MaxLen[c] \in Nat \ {0} /\ Len(chan[c].list) \in Nat
      /\ recv[c] \in Nat /\ sent[c] \in 0..MaxMsgs
  BY Ends
<1>f. /\ Len(chan[c].list) <= MaxLen[c] /\ recv[c] + Len(chan[c].list) = sent[c]
      /\ \A i \in DOMAIN chan[c].list : chan[c].list[i] = recv[c] + i
  BY DEF SkiInv, ChanInv, Fifo
<1>l. chan'[c].list = <<>> /\ Len(chan'[c].list) < MaxLen[c]
  BY <1>e
<1>a. \A d \in Chans : Active(d)' <=> Active(d)
  BY DEF Others, Active
<1>1. ThreadInv'
  BY <1>c DEF SkiInv, ThreadInv, OtherThreads, Waiting
<1>2. EndsInv'
  <2>1. ASSUME NEW v \in Threads, NEW d \in Chans, thread'[v].wait = d, Active(d)
        PROVE  /\ thread'[v].at = "read" => chan'[d].r = v
               /\ thread'[v].at = "write" => chan'[d].w = v /\ sent'[d] < MaxMsgs
    <3>1. ASSUME v = t
          PROVE  /\ thread'[v].at = "read" => chan'[d].r = v
                 /\ thread'[v].at = "write" => chan'[d].w = v /\ sent'[d] < MaxMsgs
      BY <2>1, <3>1
    <3>2. ASSUME v # t
          PROVE  /\ thread'[v].at = "read" => chan'[d].r = v
                 /\ thread'[v].at = "write" => chan'[d].w = v /\ sent'[d] < MaxMsgs
      <4>1. /\ thread[v].wait = d /\ thread'[v].at = thread[v].at
        BY <2>1, <3>2 DEF OtherThreads
      <4>2. /\ thread[v].at = "read" => chan[d].r = v
            /\ thread[v].at = "write" => chan[d].w = v /\ sent[d] < MaxMsgs
        BY <2>1, <4>1 DEF SkiInv, ChanInv, EndsInv
      <4>. QED BY <1>c, <3>2, <4>1, <4>2 DEF Others
    <3>. QED BY <3>1, <3>2
  <2>2. ASSUME NEW d \in Chans
        PROVE  /\ chan'[d].r # NoThread => chan'[d].r # chan'[d].w
               /\ chan'[d].r \in Readers[d] \union {NoThread} /\ chan'[d].w \in Writers[d] \union {NoThread}
    BY DEF SkiInv, ChanInv, EndsInv, Others
  <2>. QED BY <1>a, <2>1, <2>2 DEF EndsInv
<1>3. on_debug'
  BY <1>c, DebugKept DEF Others
<1>4. ReadyInv'
  <2>1. ASSUME NEW v \in Threads, NEW d \in Chans, thread'[v].wait = d, Active(d), InList(v)' \/ cur' = v
        PROVE  /\ thread'[v].at = "read" => chan'[d].list # <<>> /\ chan'[d].w # NoThread
               /\ thread'[v].at = "write" => Len(chan'[d].list) < MaxLen[d] /\ chan'[d].r # NoThread
    <3>1. v # t
      BY <1>c, <2>1 DEF OnlyWakes, Takes
    <3>2. /\ thread[v].wait = d /\ thread'[v].at = thread[v].at
      BY <2>1, <3>1 DEF OtherThreads
    <3>3. CASE d # c
      <4>1. InList(v)
        BY <1>c, <2>1, <3>1, <3>2, <3>3 DEF OnlyWakes, Takes
      <4>. QED BY <2>1, <3>2, <3>3, <4>1 DEF SkiInv, ChanInv, ReadyInv, Others
    <3>4. CASE d = c
      <4>1. thread[v].at # "read"
        BY <1>c, <2>1, <3>1, <3>2, <3>4 DEF SkiInv, ChanInv, EndsInv
      <4>. QED BY <1>c, <1>l, <3>2, <3>4, <4>1
    <3>. QED BY <3>3, <3>4
  <2>. QED BY <1>a, <2>1 DEF ReadyInv
<1>5. KeptInv'
  <2>1. ASSUME NEW v \in Threads, NEW d \in Chans, thread'[v].wait = d
        PROVE  /\ ~Active(d) => Ready(v)'
               /\ thread'[v].at = "read" /\ Active(d) /\ chan'[d].list # <<>> => Ready(v)'
               /\ thread'[v].at = "write" /\ Active(d) /\ Len(chan'[d].list) < MaxLen[d] => Ready(v)'
    <3>1. ASSUME v = t
          PROVE  /\ ~Active(d) => Ready(v)'
                 /\ thread'[v].at = "read" /\ Active(d) /\ chan'[d].list # <<>> => Ready(v)'
                 /\ thread'[v].at = "write" /\ Active(d) /\ Len(chan'[d].list) < MaxLen[d] => Ready(v)'
      BY <1>l, <2>1, <3>1
    <3>2. ASSUME v # t
          PROVE  /\ ~Active(d) => Ready(v)'
                 /\ thread'[v].at = "read" /\ Active(d) /\ chan'[d].list # <<>> => Ready(v)'
                 /\ thread'[v].at = "write" /\ Active(d) /\ Len(chan'[d].list) < MaxLen[d] => Ready(v)'
      <4>1. /\ thread[v].wait = d /\ thread'[v].at = thread[v].at
        BY <2>1, <3>2 DEF OtherThreads
      <4>2. Ready(v) => Ready(v)'
        BY <3>2 DEF OnlyWakes, Ready
      <4>3. CASE d # c
        BY <4>1, <4>2, <4>3 DEF SkiInv, ChanInv, KeptInv, Others
      <4>4. CASE d = c
        <5>1. thread[v].at # "read"
          BY <1>c, <3>2, <4>1, <4>4 DEF SkiInv, ChanInv, EndsInv
        <5>2. Waiting(v) /\ thread[v].sig = "chan"
          BY <1>c, <3>2, <4>1 DEF SkiInv, ThreadInv
        <5>3. v = chan[c].w
          BY <4>1, <4>4, <5>1, <5>2 DEF Waiting, SkiInv, ChanInv, EndsInv
        <5>4. InList(v)'
          BY <1>c, <4>1, <4>4, <5>2, <5>3 DEF OnlyWakes, Takes
        <5>. QED BY <5>4 DEF Ready
      <4>. QED BY <4>3, <4>4
    <3>. QED BY <3>1, <3>2
  <2>. QED BY <1>a, <2>1 DEF KeptInv
<1>6. Fifo'
  BY <1>a, <1>f, FifoKept DEF Others
<1>. QED BY <1>1, <1>2, <1>3, <1>4, <1>5, <1>6 DEF ChanInv

\* A writer finds the channel full and waits.
LEMMA WriteWaits ==
  ASSUME SkiInv, NEW t \in Threads, NEW c \in Chans, Active(c), cur = t, cur' = NoThread,
         t \in Writers[c], chan[c].w \in {t, NoThread}, t # chan[c].r, Len(chan[c].list) >= MaxLen[c], sent[c] < MaxMsgs,
         OtherThreads(t), thread'[t].life = thread[t].life, thread'[t].sig = "chan",
         thread'[t].chans = thread[t].chans \union {c}, thread'[t].wait = c, thread'[t].at = "write",
         Others(c), Active(c)', chan'[c].w = t, chan'[c].r = chan[c].r, chan'[c].list = chan[c].list,
         sent'[c] = sent[c], recv'[c] = recv[c], OnlyWakes(chan[c].r, c)
  PROVE  ThreadInv' /\ ChanInv'
<1>c. /\ ~InList(t) /\ thread[t].life = "live" /\ thread[t].sig = "none" /\ t # NoThread
      /\ NoChan \notin Chans /\ NoThread \notin Threads
  BY CurNotListed, SkiAssumption
<1>e. /\ chan[c].list \in Seq(1..MaxMsgs) /\ MaxLen[c] \in Nat \ {0} /\ Len(chan[c].list) \in Nat
      /\ recv[c] \in Nat /\ sent[c] \in 0..MaxMsgs
  BY Ends
<1>f. /\ Len(chan[c].list) <= MaxLen[c] /\ recv[c] + Len(chan[c].list) = sent[c]
      /\ \A i \in DOMAIN chan[c].list : chan[c].list[i] = recv[c] + i
  BY DEF SkiInv, ChanInv, Fifo
<1>l. chan'[c].list # <<>> /\ ~(Len(chan'[c].list) < MaxLen[c])
  <2>1. Len(chan[c].list) # 0
    BY <1>e
  <2>. QED BY <1>e, <2>1
<1>a. \A d \in Chans : Active(d)' <=> Active(d)
  BY DEF Others, Active
<1>1. ThreadInv'
  BY <1>c DEF SkiInv, ThreadInv, OtherThreads, Waiting
<1>2. EndsInv'
  <2>1. ASSUME NEW v \in Threads, NEW d \in Chans, thread'[v].wait = d, Active(d)
        PROVE  /\ thread'[v].at = "read" => chan'[d].r = v
               /\ thread'[v].at = "write" => chan'[d].w = v /\ sent'[d] < MaxMsgs
    <3>1. ASSUME v = t
          PROVE  /\ thread'[v].at = "read" => chan'[d].r = v
                 /\ thread'[v].at = "write" => chan'[d].w = v /\ sent'[d] < MaxMsgs
      BY <2>1, <3>1
    <3>2. ASSUME v # t
          PROVE  /\ thread'[v].at = "read" => chan'[d].r = v
                 /\ thread'[v].at = "write" => chan'[d].w = v /\ sent'[d] < MaxMsgs
      <4>1. /\ thread[v].wait = d /\ thread'[v].at = thread[v].at
        BY <2>1, <3>2 DEF OtherThreads
      <4>2. /\ thread[v].at = "read" => chan[d].r = v
            /\ thread[v].at = "write" => chan[d].w = v /\ sent[d] < MaxMsgs
        BY <2>1, <4>1 DEF SkiInv, ChanInv, EndsInv
      <4>. QED BY <1>c, <3>2, <4>1, <4>2 DEF Others
    <3>. QED BY <3>1, <3>2
  <2>2. ASSUME NEW d \in Chans
        PROVE  /\ chan'[d].r # NoThread => chan'[d].r # chan'[d].w
               /\ chan'[d].r \in Readers[d] \union {NoThread} /\ chan'[d].w \in Writers[d] \union {NoThread}
    BY DEF SkiInv, ChanInv, EndsInv, Others
  <2>. QED BY <1>a, <2>1, <2>2 DEF EndsInv
<1>3. on_debug'
  BY <1>c, DebugKept DEF Others
<1>4. ReadyInv'
  <2>1. ASSUME NEW v \in Threads, NEW d \in Chans, thread'[v].wait = d, Active(d), InList(v)' \/ cur' = v
        PROVE  /\ thread'[v].at = "read" => chan'[d].list # <<>> /\ chan'[d].w # NoThread
               /\ thread'[v].at = "write" => Len(chan'[d].list) < MaxLen[d] /\ chan'[d].r # NoThread
    <3>1. v # t
      BY <1>c, <2>1 DEF OnlyWakes, Takes
    <3>2. /\ thread[v].wait = d /\ thread'[v].at = thread[v].at
      BY <2>1, <3>1 DEF OtherThreads
    <3>3. CASE d # c
      <4>1. InList(v)
        BY <1>c, <2>1, <3>1, <3>2, <3>3 DEF OnlyWakes, Takes
      <4>. QED BY <2>1, <3>2, <3>3, <4>1 DEF SkiInv, ChanInv, ReadyInv, Others
    <3>4. CASE d = c
      <4>1. thread[v].at # "write"
        BY <1>c, <2>1, <3>1, <3>2, <3>4 DEF SkiInv, ChanInv, EndsInv
      <4>. QED BY <1>c, <1>l, <3>2, <3>4, <4>1
    <3>. QED BY <3>3, <3>4
  <2>. QED BY <1>a, <2>1 DEF ReadyInv
<1>5. KeptInv'
  <2>1. ASSUME NEW v \in Threads, NEW d \in Chans, thread'[v].wait = d
        PROVE  /\ ~Active(d) => Ready(v)'
               /\ thread'[v].at = "read" /\ Active(d) /\ chan'[d].list # <<>> => Ready(v)'
               /\ thread'[v].at = "write" /\ Active(d) /\ Len(chan'[d].list) < MaxLen[d] => Ready(v)'
    <3>1. ASSUME v = t
          PROVE  /\ ~Active(d) => Ready(v)'
                 /\ thread'[v].at = "read" /\ Active(d) /\ chan'[d].list # <<>> => Ready(v)'
                 /\ thread'[v].at = "write" /\ Active(d) /\ Len(chan'[d].list) < MaxLen[d] => Ready(v)'
      BY <1>l, <2>1, <3>1
    <3>2. ASSUME v # t
          PROVE  /\ ~Active(d) => Ready(v)'
                 /\ thread'[v].at = "read" /\ Active(d) /\ chan'[d].list # <<>> => Ready(v)'
                 /\ thread'[v].at = "write" /\ Active(d) /\ Len(chan'[d].list) < MaxLen[d] => Ready(v)'
      <4>1. /\ thread[v].wait = d /\ thread'[v].at = thread[v].at
        BY <2>1, <3>2 DEF OtherThreads
      <4>2. Ready(v) => Ready(v)'
        BY <3>2 DEF OnlyWakes, Ready
      <4>3. CASE d # c
        BY <4>1, <4>2, <4>3 DEF SkiInv, ChanInv, KeptInv, Others
      <4>4. CASE d = c
        <5>1. thread[v].at # "write"
          BY <1>c, <3>2, <4>1, <4>4 DEF SkiInv, ChanInv, EndsInv
        <5>2. Waiting(v) /\ thread[v].sig = "chan"
          BY <1>c, <3>2, <4>1 DEF SkiInv, ThreadInv
        <5>3. v = chan[c].r
          BY <4>1, <4>4, <5>1, <5>2 DEF Waiting, SkiInv, ChanInv, EndsInv
        <5>4. InList(v)'
          BY <1>c, <4>1, <4>4, <5>2, <5>3 DEF OnlyWakes, Takes
        <5>. QED BY <5>4 DEF Ready
      <4>. QED BY <4>3, <4>4
    <3>. QED BY <3>1, <3>2
  <2>. QED BY <1>a, <2>1 DEF KeptInv
<1>6. Fifo'
  BY <1>a, <1>f, FifoKept DEF Others
<1>. QED BY <1>1, <1>2, <1>3, <1>4, <1>5, <1>6 DEF ChanInv

\* wakeup_chan called by the running thread, which has changed no thread but itself.
LEMMA WakeEnd ==
  ASSUME SkiInv, NEW t \in Threads, cur = t, NEW c \in Chans, NEW e \in Threads \union {NoThread},
         NEW T \in [Threads -> Thread], \A v \in Threads \ {t} : T[v] = thread[v],
         T[t].pend = thread[t].pend, T[t].life = thread[t].life, T[t].sig = thread[t].sig
  PROVE  /\ WakeChanT(T, e, c) \in [Threads -> Thread] /\ Same(T, WakeChanT(T, e, c))
         /\ WakeChanQ(T, running, e, c) \in Seq(Threads)
         /\ Len(running) \in Nat /\ Len(WakeChanQ(T, running, e, c)) \in Nat
         /\ Len(WakeChanQ(T, running, e, c)) >= Len(running)
         /\ ListOK(WakeChanT(T, e, c), WakeChanQ(T, running, e, c), cur)
         /\ \A u \in Threads : In(WakeChanQ(T, running, e, c), u)
                                 <=> In(running, u) \/ (u = e /\ Takes(thread, e, c))
<1>1. thread \in [Threads -> Thread] /\ running \in Seq(Threads) /\ ListOK(thread, running, cur)
  BY ListIs DEF SkiInv, TypeOK
<1>2. ListOK(T, running, cur)
  <2>1. \A v \in Threads : T[v].pend = thread[v].pend /\ T[v].life = thread[v].life
    OBVIOUS
  <2>. QED BY <1>1, <2>1 DEF ListOK
<1>3. thread[t].sig = "none"
  BY CurNotListed
<1>4. Takes(T, e, c) <=> Takes(thread, e, c)
  BY <1>3 DEF Takes
<1>5. Takes(T, e, c) => T[e].life = "live" /\ e # cur
  BY <1>4, EndLive
<1>. QED BY <1>1, <1>2, <1>4, <1>5, WakeChanOK

\* The rest of the state after the running thread has used channel c and perhaps
\* yielded: types and the list.
LEMMA UseType ==
  ASSUME SkiInv, NEW t \in Threads, cur = t, NEW T \in [Threads -> Thread], NEW Q \in Seq(Threads),
         Len(running) \in Nat, Len(Q) \in Nat, Len(Q) >= Len(running), ListOK(T, Q, cur),
         \/ cur' = cur /\ thread' = T
         \/ /\ cur' = NoThread /\ thread' \in [Threads -> Thread]
            /\ \A v \in Threads : thread'[v].pend = T[v].pend /\ thread'[v].life = T[v].life,
         running' = Q, chan' \in [Chans -> Chan], UNCHANGED <<left, process>>,
         sent' \in [Chans -> 0..MaxMsgs], recv' \in [Chans -> 0..MaxMsgs]
  PROVE  TypeOK' /\ RunningOnce'
<1>1. thread' \in [Threads -> Thread] /\ ListOK(thread', Q, cur')
  <2>1. CASE cur' = cur /\ thread' = T
    BY <2>1
  <2>2. CASE /\ cur' = NoThread /\ thread' \in [Threads -> Thread]
             /\ \A v \in Threads : thread'[v].pend = T[v].pend /\ thread'[v].life = T[v].life
    BY <2>2, SkiAssumption DEF ListOK
  <2>. QED BY <2>1, <2>2
<1>2. TypeOK'
  BY <1>1 DEF SkiInv, TypeOK
<1>3. RunningOnce'
  BY <1>1 DEF RunningOnce, ListOK, InList, In
<1>. QED BY <1>2, <1>3

\* The first use of a channel puts it into the thread's chan_map.
LEMMA RegisteredIs ==
  ASSUME SkiInv, NEW t \in Threads, NEW c \in Chans
  PROVE  /\ Registered(c, t) \in [Threads -> Thread]
         /\ \A v \in Threads \ {t} : Registered(c, t)[v] = thread[v]
         /\ LET R == Registered(c, t)[t] IN
            /\ R.life = thread[t].life /\ R.sig = thread[t].sig /\ R.pend = thread[t].pend
            /\ R.wait = thread[t].wait /\ R.at = thread[t].at /\ R.timer = thread[t].timer
            /\ R.chans = thread[t].chans \union {c}
<1>1. thread \in [Threads -> Thread]
  BY DEF SkiInv, TypeOK
<1>. QED BY <1>1 DEF Registered, Thread

\* The thread that may use an end of a channel is not the other end.
LEMMA MayUseOne ==
  ASSUME SkiInv, NEW t \in Threads, NEW c \in Chans, Active(c)
  PROVE  /\ MayUse(c, t, chan[c].r) => chan[c].r \in {t, NoThread} /\ t # chan[c].w
         /\ MayUse(c, t, chan[c].w) => chan[c].w \in {t, NoThread} /\ t # chan[c].r
  BY SkiAssumption DEF MayUse, SkiInv, ChanInv, EndsInv, on_debug

LEMMA HeadTail ==
  ASSUME NEW S, NEW L \in Seq(S), L # <<>>
  PROVE  Head(L) \in S /\ Tail(L) \in Seq(S)
  OBVIOUS

LEMMA AssertKeeps ==
  ASSUME SkiInv, AssertFails
  PROVE  SkiInv'
  BY LoopStep DEF AssertFails

LEMMA readKeeps ==
  ASSUME SkiInv, NEW t \in Threads, NEW c \in Chans, read(t, c)
  PROVE  SkiInv'
<1> DEFINE T == Registered(c, t)
           W == WakeChanT(T, chan[c].w, c)
           Q == WakeChanQ(T, running, chan[c].w, c)
<1>1. cur = t /\ thread[t].at = "run" /\ Active(c) /\ t \in Readers[c]
  BY DEF read, Runs
<1>2. CASE ~MayUse(c, t, chan[c].r)
  BY <1>2, AssertKeeps DEF read
<1>3. CASE MayUse(c, t, chan[c].r)
  <2>1. chan[c].r \in {t, NoThread} /\ t # chan[c].w
    BY <1>1, <1>3, MayUseOne
  <2>2. /\ T \in [Threads -> Thread] /\ \A v \in Threads \ {t} : T[v] = thread[v]
        /\ T[t].life = thread[t].life /\ T[t].sig = thread[t].sig /\ T[t].pend = thread[t].pend
        /\ T[t].wait = thread[t].wait /\ T[t].at = thread[t].at /\ T[t].timer = thread[t].timer
        /\ T[t].chans = thread[t].chans \union {c}
    BY RegisteredIs
  <2>e. /\ chan[c].w \in Threads \union {NoThread} /\ chan[c].list \in Seq(1..MaxMsgs)
        /\ thread[t].wait = NoChan /\ chan[c] \in Chan /\ chan \in [Chans -> Chan]
        /\ sent \in [Chans -> 0..MaxMsgs] /\ recv \in [Chans -> 0..MaxMsgs]
    BY <1>1, Ends DEF SkiInv, ThreadInv, Waiting, TypeOK
  <2>u. /\ running' = Q /\ UNCHANGED <<left, process, sent>>
        /\ \/ /\ chan[c].list # <<>>
              /\ chan' = [chan EXCEPT ![c].r = t, ![c].list = Tail(@)]
              /\ recv' = [recv EXCEPT ![c] = Head(chan[c].list)]
              /\ thread' = W /\ UNCHANGED cur
           \/ /\ chan[c].list = <<>>
              /\ chan' = [chan EXCEPT ![c].r = t]
              /\ thread' = Yield(W, t, "read", "chan", c)
              /\ cur' = NoThread /\ UNCHANGED recv
    BY <1>3 DEF read, AssertFails
  <2> HIDE DEF T
  <2>3. /\ W \in [Threads -> Thread] /\ Same(T, W) /\ Q \in Seq(Threads)
        /\ Len(running) \in Nat /\ Len(Q) \in Nat /\ Len(Q) >= Len(running)
        /\ ListOK(W, Q, cur)
        /\ \A u \in Threads : In(Q, u) <=> In(running, u) \/ (u = chan[c].w /\ Takes(thread, chan[c].w, c))
    BY <1>1, <2>2, <2>e, WakeEnd
  <2>4. OnlyWakes(chan[c].w, c)
    BY <2>3, <2>u DEF OnlyWakes, InList, In
  <2> HIDE DEF W, Q
  <2>5. CASE chan[c].list # <<>>
    <3>1. /\ chan' = [chan EXCEPT ![c].r = t, ![c].list = Tail(@)] /\ thread' = W /\ cur' = cur
          /\ recv' = [recv EXCEPT ![c] = Head(chan[c].list)]
      BY <2>5, <2>u
    <3>2. /\ chan' \in [Chans -> Chan] /\ chan'[c].r = t /\ chan'[c].w = chan[c].w
          /\ chan'[c].list = Tail(chan[c].list) /\ chan'[c].active = chan[c].active
          /\ \A d \in Chans \ {c} : chan'[d] = chan[d]
      <4> DEFINE A == [chan EXCEPT ![c].r = t]
      <4>1. /\ A \in [Chans -> Chan] /\ A[c].r = t /\ A[c].w = chan[c].w /\ A[c].list = chan[c].list
            /\ A[c].active = chan[c].active /\ \A d \in Chans \ {c} : A[d] = chan[d]
        BY <2>e DEF Chan
      <4>2. chan' = [A EXCEPT ![c].list = Tail(chan[c].list)]
        BY <3>1, <2>e DEF Chan
      <4>3. Tail(chan[c].list) \in Seq(1..MaxMsgs)
        BY <2>5, <2>e, HeadTail
      <4> HIDE DEF A
      <4>. QED BY <4>1, <4>2, <4>3 DEF Chan
    <3>3. Head(chan[c].list) \in 0..MaxMsgs
      <4>1. Head(chan[c].list) \in 1..MaxMsgs
        BY <2>5, <2>e, HeadTail
      <4>. QED BY <4>1, SkiAssumption
    <3>4. recv' \in [Chans -> 0..MaxMsgs] /\ sent' \in [Chans -> 0..MaxMsgs]
      BY <2>e, <2>u, <3>1, <3>3
    <3>5. TypeOK' /\ RunningOnce'
      BY <1>1, <2>3, <2>u, <3>1, <3>2, <3>4, UseType
    <3>6. Others(c) /\ recv'[c] = Head(chan[c].list) /\ sent'[c] = sent[c]
      BY <2>e, <2>u, <3>1, <3>2 DEF Others
    <3>7. /\ OtherThreads(t) /\ thread'[t].life = thread[t].life /\ thread'[t].sig = thread[t].sig
          /\ thread'[t].chans = thread[t].chans \union {c} /\ thread'[t].wait = NoChan
          /\ thread'[t].at = "run"
      <4>1. \A v \in Threads : /\ thread'[v].life = T[v].life /\ thread'[v].sig = T[v].sig
                               /\ thread'[v].wait = T[v].wait /\ thread'[v].at = T[v].at
                               /\ thread'[v].chans = T[v].chans /\ thread'[v].timer = T[v].timer
        BY <2>3, <3>1 DEF Same
      <4>2. OtherThreads(t)
        BY <2>2, <4>1 DEF OtherThreads
      <4>. QED BY <1>1, <2>2, <2>e, <4>1, <4>2
    <3>8. Active(c)'
      BY <1>1, <3>2 DEF Active
    <3>9. ThreadInv' /\ ChanInv'
      BY <1>1, <2>1, <2>4, <2>5, <3>1, <3>2, <3>6, <3>7, <3>8, TakeKeeps
    <3>. QED BY <3>5, <3>9 DEF SkiInv
  <2>6. CASE chan[c].list = <<>>
    <3>1. /\ chan' = [chan EXCEPT ![c].r = t] /\ thread' = Yield(W, t, "read", "chan", c)
          /\ cur' = NoThread /\ UNCHANGED recv
      BY <2>6, <2>u
    <3>2. /\ chan' \in [Chans -> Chan] /\ chan'[c].r = t /\ chan'[c].w = chan[c].w
          /\ chan'[c].list = chan[c].list /\ chan'[c].active = chan[c].active
          /\ \A d \in Chans \ {c} : chan'[d] = chan[d]
      BY <2>e, <3>1 DEF Chan
    <3>3. /\ thread' \in [Threads -> Thread] /\ \A v \in Threads \ {t} : thread'[v] = W[v]
          /\ thread'[t].at = "read" /\ thread'[t].sig = "chan" /\ thread'[t].wait = c
          /\ thread'[t].life = W[t].life /\ thread'[t].pend = W[t].pend /\ thread'[t].chans = W[t].chans
      BY <2>3, <3>1, YieldIs
    <3>4. \A v \in Threads : thread'[v].pend = W[v].pend /\ thread'[v].life = W[v].life
      BY <3>3
    <3>5. TypeOK' /\ RunningOnce'
      BY <1>1, <2>3, <2>e, <2>u, <3>1, <3>2, <3>3, <3>4, UseType
    <3>6. Others(c) /\ recv'[c] = recv[c] /\ sent'[c] = sent[c]
      BY <2>u, <3>1, <3>2 DEF Others
    <3>7. /\ OtherThreads(t) /\ thread'[t].life = thread[t].life
          /\ thread'[t].chans = thread[t].chans \union {c}
      BY <2>2, <2>3, <3>3 DEF OtherThreads, Same
    <3>8. Active(c)'
      BY <1>1, <3>2 DEF Active
    <3>9. ThreadInv' /\ ChanInv'
      BY <1>1, <2>1, <2>4, <2>6, <3>1, <3>2, <3>3, <3>6, <3>7, <3>8, ReadWaits
    <3>. QED BY <3>5, <3>9 DEF SkiInv
  <2>. QED BY <2>5, <2>6
<1>. QED BY <1>2, <1>3
LEMMA writeKeeps ==
  ASSUME SkiInv, NEW t \in Threads, NEW c \in Chans, write(t, c)
  PROVE  SkiInv'
<1> DEFINE T == Registered(c, t)
           W == WakeChanT(T, chan[c].r, c)
           Q == WakeChanQ(T, running, chan[c].r, c)
<1>1. cur = t /\ thread[t].at = "run" /\ Active(c) /\ t \in Writers[c] /\ sent[c] < MaxMsgs
  BY DEF write, Runs
<1>2. CASE ~MayUse(c, t, chan[c].w)
  BY <1>2, AssertKeeps DEF write
<1>3. CASE MayUse(c, t, chan[c].w)
  <2>1. chan[c].w \in {t, NoThread} /\ t # chan[c].r
    BY <1>1, <1>3, MayUseOne
  <2>2. /\ T \in [Threads -> Thread] /\ \A v \in Threads \ {t} : T[v] = thread[v]
        /\ T[t].life = thread[t].life /\ T[t].sig = thread[t].sig /\ T[t].pend = thread[t].pend
        /\ T[t].wait = thread[t].wait /\ T[t].at = thread[t].at /\ T[t].timer = thread[t].timer
        /\ T[t].chans = thread[t].chans \union {c}
    BY RegisteredIs
  <2>e. /\ chan[c].r \in Threads \union {NoThread} /\ chan[c].list \in Seq(1..MaxMsgs)
        /\ thread[t].wait = NoChan /\ chan[c] \in Chan /\ chan \in [Chans -> Chan]
        /\ sent \in [Chans -> 0..MaxMsgs] /\ recv \in [Chans -> 0..MaxMsgs]
    BY <1>1, Ends DEF SkiInv, ThreadInv, Waiting, TypeOK
  <2>u. /\ running' = Q /\ UNCHANGED <<left, process, recv>>
        /\ \/ /\ HasRoom(c)
              /\ chan' = [chan EXCEPT ![c].w = t, ![c].list = Append(@, sent[c] + 1)]
              /\ sent' = [sent EXCEPT ![c] = @ + 1]
              /\ thread' = W /\ UNCHANGED cur
           \/ /\ ~HasRoom(c)
              /\ chan' = [chan EXCEPT ![c].w = t]
              /\ thread' = Yield(W, t, "write", "chan", c)
              /\ cur' = NoThread /\ UNCHANGED sent
    BY <1>3 DEF write, AssertFails
  <2> HIDE DEF T
  <2>3. /\ W \in [Threads -> Thread] /\ Same(T, W) /\ Q \in Seq(Threads)
        /\ Len(running) \in Nat /\ Len(Q) \in Nat /\ Len(Q) >= Len(running)
        /\ ListOK(W, Q, cur)
        /\ \A u \in Threads : In(Q, u) <=> In(running, u) \/ (u = chan[c].r /\ Takes(thread, chan[c].r, c))
    BY <1>1, <2>2, <2>e, WakeEnd
  <2>4. OnlyWakes(chan[c].r, c)
    BY <2>3, <2>u DEF OnlyWakes, InList, In
  <2> HIDE DEF W, Q
  <2>5. CASE HasRoom(c)
    <3>1. /\ chan' = [chan EXCEPT ![c].w = t, ![c].list = Append(@, sent[c] + 1)] /\ thread' = W
          /\ cur' = cur /\ sent' = [sent EXCEPT ![c] = @ + 1]
      BY <2>5, <2>u
    <3>2. sent[c] + 1 \in 1..MaxMsgs /\ sent[c] + 1 \in 0..MaxMsgs
      BY <1>1, <2>e, SkiAssumption
    <3>3. /\ chan' \in [Chans -> Chan] /\ chan'[c].w = t /\ chan'[c].r = chan[c].r
          /\ chan'[c].list = Append(chan[c].list, sent[c] + 1) /\ chan'[c].active = chan[c].active
          /\ \A d \in Chans \ {c} : chan'[d] = chan[d]
      <4> DEFINE A == [chan EXCEPT ![c].w = t]
      <4>1. /\ A \in [Chans -> Chan] /\ A[c].w = t /\ A[c].r = chan[c].r /\ A[c].list = chan[c].list
            /\ A[c].active = chan[c].active /\ \A d \in Chans \ {c} : A[d] = chan[d]
        BY <2>e DEF Chan
      <4>2. chan' = [A EXCEPT ![c].list = Append(chan[c].list, sent[c] + 1)]
        BY <3>1, <2>e DEF Chan
      <4>3. Append(chan[c].list, sent[c] + 1) \in Seq(1..MaxMsgs)
        BY <2>e, <3>2
      <4> HIDE DEF A
      <4>. QED BY <4>1, <4>2, <4>3 DEF Chan
    <3>4. recv' \in [Chans -> 0..MaxMsgs] /\ sent' \in [Chans -> 0..MaxMsgs]
      BY <2>e, <2>u, <3>1, <3>2
    <3>5. TypeOK' /\ RunningOnce'
      BY <1>1, <2>3, <2>u, <3>1, <3>3, <3>4, UseType
    <3>6. Others(c) /\ recv'[c] = recv[c] /\ sent'[c] = sent[c] + 1
      BY <2>e, <2>u, <3>1, <3>3 DEF Others
    <3>7. /\ OtherThreads(t) /\ thread'[t].life = thread[t].life /\ thread'[t].sig = thread[t].sig
          /\ thread'[t].chans = thread[t].chans \union {c} /\ thread'[t].wait = NoChan
          /\ thread'[t].at = "run"
      <4>1. \A v \in Threads : /\ thread'[v].life = T[v].life /\ thread'[v].sig = T[v].sig
                               /\ thread'[v].wait = T[v].wait /\ thread'[v].at = T[v].at
                               /\ thread'[v].chans = T[v].chans /\ thread'[v].timer = T[v].timer
        BY <2>3, <3>1 DEF Same
      <4>2. OtherThreads(t)
        BY <2>2, <4>1 DEF OtherThreads
      <4>. QED BY <1>1, <2>2, <2>e, <4>1, <4>2
    <3>8. Active(c)' /\ Len(chan[c].list) < MaxLen[c]
      BY <1>1, <2>5, <3>3 DEF Active, HasRoom
    <3>9. ThreadInv' /\ ChanInv'
      BY <1>1, <2>1, <2>4, <3>1, <3>3, <3>6, <3>7, <3>8, PutKeeps
    <3>. QED BY <3>5, <3>9 DEF SkiInv
  <2>6. CASE ~HasRoom(c)
    <3>1. /\ chan' = [chan EXCEPT ![c].w = t] /\ thread' = Yield(W, t, "write", "chan", c)
          /\ cur' = NoThread /\ UNCHANGED sent
      BY <2>6, <2>u
    <3>2. /\ chan' \in [Chans -> Chan] /\ chan'[c].w = t /\ chan'[c].r = chan[c].r
          /\ chan'[c].list = chan[c].list /\ chan'[c].active = chan[c].active
          /\ \A d \in Chans \ {c} : chan'[d] = chan[d]
      BY <2>e, <3>1 DEF Chan
    <3>3. /\ thread' \in [Threads -> Thread] /\ \A v \in Threads \ {t} : thread'[v] = W[v]
          /\ thread'[t].at = "write" /\ thread'[t].sig = "chan" /\ thread'[t].wait = c
          /\ thread'[t].life = W[t].life /\ thread'[t].pend = W[t].pend /\ thread'[t].chans = W[t].chans
      BY <2>3, <3>1, YieldIs
    <3>4. \A v \in Threads : thread'[v].pend = W[v].pend /\ thread'[v].life = W[v].life
      BY <3>3
    <3>5. TypeOK' /\ RunningOnce'
      BY <1>1, <2>3, <2>e, <2>u, <3>1, <3>2, <3>3, <3>4, UseType
    <3>6. Others(c) /\ recv'[c] = recv[c] /\ sent'[c] = sent[c]
      BY <2>u, <3>1, <3>2 DEF Others
    <3>7. /\ OtherThreads(t) /\ thread'[t].life = thread[t].life
          /\ thread'[t].chans = thread[t].chans \union {c}
      BY <2>2, <2>3, <3>3 DEF OtherThreads, Same
    <3>8. Active(c)'
      BY <1>1, <3>2 DEF Active
    <3>9. Len(chan[c].list) >= MaxLen[c]
      <4>1. Len(chan[c].list) \in Nat /\ MaxLen[c] \in Nat
        BY Ends
      <4>. QED BY <2>6, <4>1 DEF HasRoom
    <3>10. ThreadInv' /\ ChanInv'
      BY <1>1, <2>1, <2>4, <3>1, <3>2, <3>3, <3>6, <3>7, <3>8, <3>9, WriteWaits
    <3>. QED BY <3>5, <3>10 DEF SkiInv
  <2>. QED BY <2>5, <2>6
<1>. QED BY <1>2, <1>3

\* A thread that waited for a channel goes on because it was closed.
LEMMA StopsWaiting ==
  ASSUME SkiInv, NEW t \in Threads, cur = t, UNCHANGED <<chan, running, left, cur, process, sent, recv>>,
         NEW T \in [Threads -> Thread], thread' = T, \A v \in Threads \ {t} : T[v] = thread[v],
         T[t].life = thread[t].life, T[t].sig = thread[t].sig, T[t].pend = thread[t].pend,
         T[t].chans = thread[t].chans, T[t].wait = NoChan, T[t].at = "run"
  PROVE  SkiInv'
<1>c. /\ thread[t].life = "live" /\ thread[t].sig = "none" /\ NoChan \notin Chans
  BY CurNotListed, SkiAssumption
<1>i. /\ \A v : InList(v)' <=> InList(v)
      /\ \A d : Active(d)' <=> Active(d)
  BY DEF InList, Active
<1>1. TypeOK'
  BY DEF SkiInv, TypeOK
<1>2. RunningOnce'
  <2>1. \A v \in Threads : thread'[v].pend = thread[v].pend /\ thread'[v].life = thread[v].life
    OBVIOUS
  <2>. QED BY <1>i, <2>1 DEF SkiInv, RunningOnce
<1>3. ThreadInv'
  BY <1>c DEF SkiInv, ThreadInv, Waiting
<1>w. \A v \in Threads : \A d \in Chans : thread'[v].wait = d =>
        v # t /\ thread[v].wait = d /\ thread'[v].at = thread[v].at
  BY <1>c
<1>4. EndsInv'
  BY <1>i, <1>w DEF SkiInv, ChanInv, EndsInv
<1>5. on_debug'
  <2>1. \A v \in Threads : thread'[v].chans = thread[v].chans /\ thread'[v].life = thread[v].life
    OBVIOUS
  <2>2. \A d \in Chans : chan[d].r \in Threads \union {NoThread} /\ chan[d].w \in Threads \union {NoThread}
    BY Ends
  <2>. QED BY <1>i, <2>1, <2>2 DEF SkiInv, ChanInv, on_debug
<1>6. ReadyInv'
  BY <1>i, <1>w DEF SkiInv, ChanInv, ReadyInv
<1>7. KeptInv'
  BY <1>i, <1>w DEF SkiInv, ChanInv, KeptInv, Ready
<1>8. Fifo'
  BY <1>i DEF SkiInv, ChanInv, Fifo
<1>. QED BY <1>1, <1>2, <1>3, <1>4, <1>5, <1>6, <1>7, <1>8 DEF SkiInv, ChanInv

LEMMA read_resumedKeeps ==
  ASSUME SkiInv, NEW t \in Threads, read_resumed(t)
  PROVE  SkiInv'
<1> DEFINE T == [thread EXCEPT ![t].wait = NoChan, ![t].at = "run"]
<1>1. cur = t /\ thread[t].at = "read" /\ UNCHANGED <<left, cur, sent>> /\ Waiting(t)
  BY DEF read_resumed, Waiting
<1>0. thread[t].wait \in Chans /\ thread \in [Threads -> Thread]
  BY <1>1 DEF SkiInv, ThreadInv, TypeOK, Thread
<1>2. PICK c \in Chans : c = thread[t].wait
  BY <1>0
<1> DEFINE W == WakeChanT(T, chan[c].w, c)
           Q == WakeChanQ(T, running, chan[c].w, c)
<1>3. /\ T \in [Threads -> Thread] /\ \A v \in Threads \ {t} : T[v] = thread[v]
      /\ T[t].life = thread[t].life /\ T[t].sig = thread[t].sig /\ T[t].pend = thread[t].pend
      /\ T[t].timer = thread[t].timer /\ T[t].chans = thread[t].chans
      /\ T[t].wait = NoChan /\ T[t].at = "run"
  <2> DEFINE A == [thread EXCEPT ![t].wait = NoChan]
  <2>1. /\ A \in [Threads -> Thread] /\ \A v \in Threads \ {t} : A[v] = thread[v]
        /\ A[t].life = thread[t].life /\ A[t].sig = thread[t].sig /\ A[t].pend = thread[t].pend
        /\ A[t].timer = thread[t].timer /\ A[t].chans = thread[t].chans /\ A[t].wait = NoChan
    BY <1>0 DEF Thread
  <2>2. T = [A EXCEPT ![t].at = "run"]
    BY <1>0 DEF Thread
  <2> HIDE DEF A, T
  <2>. QED BY <2>1, <2>2 DEF Thread
<1>u. \/ ~Active(c) /\ thread' = T /\ UNCHANGED <<chan, running, recv, process>>
      \/ /\ Active(c) /\ chan[c].list # <<>> /\ chan[c].w # NoThread
         /\ thread' = W /\ running' = Q
         /\ chan' = [chan EXCEPT ![c].list = Tail(@)]
         /\ recv' = [recv EXCEPT ![c] = Head(chan[c].list)]
         /\ UNCHANGED process
      \/ process' = "failed" /\ UNCHANGED <<thread, chan, running, recv>>
  BY <1>2 DEF read_resumed
<1> HIDE DEF T
<1>4. CASE process' = "failed" /\ UNCHANGED <<thread, chan, running, recv>>
  BY <1>1, <1>4, LoopStep
<1>5. CASE ~Active(c) /\ thread' = T /\ UNCHANGED <<chan, running, recv, process>>
  BY <1>1, <1>3, <1>5, StopsWaiting
<1>6. CASE /\ Active(c) /\ chan[c].list # <<>> /\ chan[c].w # NoThread
           /\ thread' = W /\ running' = Q
           /\ chan' = [chan EXCEPT ![c].list = Tail(@)]
           /\ recv' = [recv EXCEPT ![c] = Head(chan[c].list)]
           /\ UNCHANGED process
  <2>e. /\ chan[c].w \in Threads \union {NoThread} /\ chan[c].list \in Seq(1..MaxMsgs)
        /\ chan[c] \in Chan /\ chan \in [Chans -> Chan]
        /\ sent \in [Chans -> 0..MaxMsgs] /\ recv \in [Chans -> 0..MaxMsgs]
    BY <1>2, Ends DEF SkiInv, TypeOK
  <2>1. chan[c].r = t /\ t # chan[c].w /\ t \in Readers[c] /\ c \in thread[t].chans
    <3>1. chan[c].r = t
      BY <1>1, <1>2, <1>6 DEF SkiInv, ChanInv, EndsInv
    <3>2. t # NoThread
      BY SkiAssumption
    <3>3. t # chan[c].w /\ t \in Readers[c]
      BY <1>2, <3>1, <3>2 DEF SkiInv, ChanInv, EndsInv
    <3>4. c \in thread[t].chans
      BY <1>2, <1>6, <3>1, <3>2 DEF SkiInv, ChanInv, on_debug
    <3>. QED BY <3>1, <3>3, <3>4
  <2>3. /\ W \in [Threads -> Thread] /\ Same(T, W) /\ Q \in Seq(Threads)
        /\ Len(running) \in Nat /\ Len(Q) \in Nat /\ Len(Q) >= Len(running)
        /\ ListOK(W, Q, cur)
        /\ \A u \in Threads : In(Q, u) <=> In(running, u) \/ (u = chan[c].w /\ Takes(thread, chan[c].w, c))
    <3>1. cur = t /\ c \in Chans /\ chan[c].w \in Threads \union {NoThread}
      BY <1>1, <1>2, <2>e
    <3>. QED BY <1>3, <3>1, WakeEnd
  <2>4. OnlyWakes(chan[c].w, c)
    BY <1>6, <2>3 DEF OnlyWakes, InList, In
  <2> HIDE DEF W, Q
  <2>5. Head(chan[c].list) \in 0..MaxMsgs
    <3>1. Head(chan[c].list) \in 1..MaxMsgs
      BY <1>6, <2>e, HeadTail
    <3>. QED BY <3>1, SkiAssumption
  <2>6. /\ chan' \in [Chans -> Chan] /\ chan'[c].r = chan[c].r /\ chan'[c].w = chan[c].w
        /\ chan'[c].list = Tail(chan[c].list) /\ chan'[c].active = chan[c].active
        /\ \A d \in Chans \ {c} : chan'[d] = chan[d]
    <3>1. Tail(chan[c].list) \in Seq(1..MaxMsgs)
      BY <1>6, <2>e, HeadTail
    <3>. QED BY <1>2, <1>6, <2>e, <3>1 DEF Chan
  <2>7. recv' \in [Chans -> 0..MaxMsgs] /\ sent' \in [Chans -> 0..MaxMsgs]
    BY <1>1, <1>6, <2>e, <2>5
  <2>8. TypeOK' /\ RunningOnce'
    BY <1>1, <1>6, <2>3, <2>6, <2>7, UseType
  <2>9. Others(c) /\ recv'[c] = Head(chan[c].list) /\ sent'[c] = sent[c]
    BY <1>1, <1>2, <1>6, <2>e, <2>6 DEF Others
  <2>10. /\ OtherThreads(t) /\ thread'[t].life = thread[t].life /\ thread'[t].sig = thread[t].sig
         /\ thread'[t].chans = thread[t].chans \union {c} /\ thread'[t].wait = NoChan
         /\ thread'[t].at = "run"
    <3>1. \A v \in Threads : /\ thread'[v].life = T[v].life /\ thread'[v].sig = T[v].sig
                             /\ thread'[v].wait = T[v].wait /\ thread'[v].at = T[v].at
                             /\ thread'[v].chans = T[v].chans /\ thread'[v].timer = T[v].timer
      BY <1>6, <2>3 DEF Same
    <3>2. OtherThreads(t)
      BY <1>3, <3>1 DEF OtherThreads
    <3>3. thread[t].chans = thread[t].chans \union {c}
      BY <2>1
    <3>. QED BY <1>3, <3>1, <3>2, <3>3
  <2>11. Active(c)'
    BY <1>6, <2>6 DEF Active
  <2>12. ThreadInv' /\ ChanInv'
    BY <1>1, <1>2, <1>6, <2>1, <2>4, <2>6, <2>9, <2>10, <2>11, TakeKeeps
  <2>. QED BY <2>8, <2>12 DEF SkiInv
<1>. QED BY <1>4, <1>5, <1>6, <1>u

LEMMA write_resumedKeeps ==
  ASSUME SkiInv, NEW t \in Threads, write_resumed(t)
  PROVE  SkiInv'
<1> DEFINE T == [thread EXCEPT ![t].wait = NoChan, ![t].at = "run"]
<1>1. cur = t /\ thread[t].at = "write" /\ UNCHANGED <<left, cur, recv>> /\ Waiting(t)
  BY DEF write_resumed, Waiting
<1>0. thread[t].wait \in Chans /\ thread \in [Threads -> Thread]
  BY <1>1 DEF SkiInv, ThreadInv, TypeOK, Thread
<1>2. PICK c \in Chans : c = thread[t].wait
  BY <1>0
<1> DEFINE W == WakeChanT(T, chan[c].r, c)
           Q == WakeChanQ(T, running, chan[c].r, c)
<1>3. /\ T \in [Threads -> Thread] /\ \A v \in Threads \ {t} : T[v] = thread[v]
      /\ T[t].life = thread[t].life /\ T[t].sig = thread[t].sig /\ T[t].pend = thread[t].pend
      /\ T[t].timer = thread[t].timer /\ T[t].chans = thread[t].chans
      /\ T[t].wait = NoChan /\ T[t].at = "run"
  <2> DEFINE A == [thread EXCEPT ![t].wait = NoChan]
  <2>1. /\ A \in [Threads -> Thread] /\ \A v \in Threads \ {t} : A[v] = thread[v]
        /\ A[t].life = thread[t].life /\ A[t].sig = thread[t].sig /\ A[t].pend = thread[t].pend
        /\ A[t].timer = thread[t].timer /\ A[t].chans = thread[t].chans /\ A[t].wait = NoChan
    BY <1>0 DEF Thread
  <2>2. T = [A EXCEPT ![t].at = "run"]
    BY <1>0 DEF Thread
  <2> HIDE DEF A, T
  <2>. QED BY <2>1, <2>2 DEF Thread
<1>u. \/ ~Active(c) /\ thread' = T /\ UNCHANGED <<chan, running, sent, process>>
      \/ /\ Active(c) /\ chan[c].r # NoThread
         /\ thread' = W /\ running' = Q
         /\ chan' = [chan EXCEPT ![c].list = Append(@, sent[c] + 1)]
         /\ sent' = [sent EXCEPT ![c] = @ + 1]
         /\ UNCHANGED process
      \/ process' = "failed" /\ UNCHANGED <<thread, chan, running, sent>>
  BY <1>2 DEF write_resumed
<1> HIDE DEF T
<1>4. CASE process' = "failed" /\ UNCHANGED <<thread, chan, running, sent>>
  BY <1>1, <1>4, LoopStep
<1>5. CASE ~Active(c) /\ thread' = T /\ UNCHANGED <<chan, running, sent, process>>
  BY <1>1, <1>3, <1>5, StopsWaiting
<1>6. CASE /\ Active(c) /\ chan[c].r # NoThread
           /\ thread' = W /\ running' = Q
           /\ chan' = [chan EXCEPT ![c].list = Append(@, sent[c] + 1)]
           /\ sent' = [sent EXCEPT ![c] = @ + 1]
           /\ UNCHANGED process
  <2>e. /\ chan[c].r \in Threads \union {NoThread} /\ chan[c].list \in Seq(1..MaxMsgs)
        /\ chan[c] \in Chan /\ chan \in [Chans -> Chan]
        /\ sent \in [Chans -> 0..MaxMsgs] /\ recv \in [Chans -> 0..MaxMsgs]
    BY <1>2, Ends DEF SkiInv, TypeOK
  <2>1. chan[c].w = t /\ t # chan[c].r /\ t \in Writers[c] /\ c \in thread[t].chans
        /\ sent[c] < MaxMsgs /\ Len(chan[c].list) < MaxLen[c]
    <3>1. chan[c].w = t /\ sent[c] < MaxMsgs
      BY <1>1, <1>2, <1>6 DEF SkiInv, ChanInv, EndsInv
    <3>2. t # NoThread
      BY SkiAssumption
    <3>3. t # chan[c].r /\ t \in Writers[c]
      BY <1>2, <3>1, <3>2 DEF SkiInv, ChanInv, EndsInv
    <3>4. c \in thread[t].chans
      BY <1>2, <1>6, <3>1, <3>2 DEF SkiInv, ChanInv, on_debug
    <3>5. Len(chan[c].list) < MaxLen[c]
      BY <1>1, <1>2, <1>6 DEF SkiInv, ChanInv, ReadyInv
    <3>. QED BY <3>1, <3>3, <3>4, <3>5
  <2>3. /\ W \in [Threads -> Thread] /\ Same(T, W) /\ Q \in Seq(Threads)
        /\ Len(running) \in Nat /\ Len(Q) \in Nat /\ Len(Q) >= Len(running)
        /\ ListOK(W, Q, cur)
        /\ \A u \in Threads : In(Q, u) <=> In(running, u) \/ (u = chan[c].r /\ Takes(thread, chan[c].r, c))
    <3>1. cur = t /\ c \in Chans /\ chan[c].r \in Threads \union {NoThread}
      BY <1>1, <1>2, <2>e
    <3>. QED BY <1>3, <3>1, WakeEnd
  <2>4. OnlyWakes(chan[c].r, c)
    BY <1>6, <2>3 DEF OnlyWakes, InList, In
  <2> HIDE DEF W, Q
  <2>5. sent[c] + 1 \in 1..MaxMsgs /\ sent[c] + 1 \in 0..MaxMsgs
    BY <1>2, <2>1, <2>e, SkiAssumption
  <2>6. /\ chan' \in [Chans -> Chan] /\ chan'[c].r = chan[c].r /\ chan'[c].w = chan[c].w
        /\ chan'[c].list = Append(chan[c].list, sent[c] + 1) /\ chan'[c].active = chan[c].active
        /\ \A d \in Chans \ {c} : chan'[d] = chan[d]
    <3>1. Append(chan[c].list, sent[c] + 1) \in Seq(1..MaxMsgs)
      BY <1>6, <2>e, <2>5
    <3>. QED BY <1>2, <1>6, <2>e, <3>1 DEF Chan
  <2>7. recv' \in [Chans -> 0..MaxMsgs] /\ sent' \in [Chans -> 0..MaxMsgs]
    BY <1>1, <1>6, <2>e, <2>5
  <2>8. TypeOK' /\ RunningOnce'
    BY <1>1, <1>6, <2>3, <2>6, <2>7, UseType
  <2>9. Others(c) /\ recv'[c] = recv[c] /\ sent'[c] = sent[c] + 1
    BY <1>1, <1>2, <1>6, <2>e, <2>6 DEF Others
  <2>10. /\ OtherThreads(t) /\ thread'[t].life = thread[t].life /\ thread'[t].sig = thread[t].sig
         /\ thread'[t].chans = thread[t].chans \union {c} /\ thread'[t].wait = NoChan
         /\ thread'[t].at = "run"
    <3>1. \A v \in Threads : /\ thread'[v].life = T[v].life /\ thread'[v].sig = T[v].sig
                             /\ thread'[v].wait = T[v].wait /\ thread'[v].at = T[v].at
                             /\ thread'[v].chans = T[v].chans /\ thread'[v].timer = T[v].timer
      BY <1>6, <2>3 DEF Same
    <3>2. OtherThreads(t)
      BY <1>3, <3>1 DEF OtherThreads
    <3>3. thread[t].chans = thread[t].chans \union {c}
      BY <2>1
    <3>. QED BY <1>3, <3>1, <3>2, <3>3
  <2>11. Active(c)'
    BY <1>6, <2>6 DEF Active
  <2>12. ThreadInv' /\ ChanInv'
    <3>1. /\ cur = t /\ cur' = cur /\ c \in Chans /\ Active(c) /\ chan[c].w \in {t, NoThread}
          /\ chan'[c].w = t /\ chan'[c].r = chan[c].r /\ chan'[c].list = Append(chan[c].list, sent[c] + 1)
      BY <1>1, <1>2, <1>6, <2>1, <2>6
    <3>. QED BY <2>1, <2>4, <2>9, <2>10, <2>11, <3>1, PutKeeps
  <2>. QED BY <2>8, <2>12 DEF SkiInv
<1>. QED BY <1>4, <1>5, <1>6, <1>u

\* What thread:unregister makes of threads T and list Q, for the end e of channel c.
Unregistered(T, Q, U, P, e, c, cu) ==
  /\ U \in [Threads -> Thread] /\ P \in Seq(Threads)
  /\ Len(Q) \in Nat /\ Len(P) \in Nat /\ Len(P) >= Len(Q) /\ ListOK(U, P, cu)
  /\ \A u \in Threads : /\ U[u].life = T[u].life /\ U[u].sig = T[u].sig /\ U[u].wait = T[u].wait
                        /\ U[u].at = T[u].at /\ U[u].timer = T[u].timer
                        /\ u = e => U[u].chans = T[u].chans \ {c}
                        /\ u # e => U[u].chans = T[u].chans
  /\ \A u \in Threads : In(P, u) <=> In(Q, u) \/ (u = e /\ Takes(T, e, c) /\ c \in T[e].chans)

LEMMA UnregisterOK ==
  ASSUME NEW T \in [Threads -> Thread], NEW Q \in Seq(Threads), NEW cu, NEW c,
         NEW e \in Threads \union {NoThread}, ListOK(T, Q, cu),
         Takes(T, e, c) => T[e].life = "live" /\ e # cu
  PROVE  Unregistered(T, Q, Unregister(T, e, c), UnregisterQ(T, Q, e, c), e, c, cu)
<1>1. CASE ~(e # NoThread /\ c \in T[e].chans)
  <2>1. Unregister(T, e, c) = T /\ UnregisterQ(T, Q, e, c) = Q /\ Len(Q) \in Nat
    BY <1>1 DEF Unregister, UnregisterQ
  <2>2. \A u \in Threads : u = e => T[u].chans = T[u].chans \ {c}
    BY <1>1, SkiAssumption
  <2>3. \A u \in Threads : In(Q, u) <=> In(Q, u) \/ (u = e /\ Takes(T, e, c) /\ c \in T[e].chans)
    BY <1>1 DEF Takes
  <2>. QED BY <2>1, <2>2, <2>3 DEF Unregistered
<1>2. CASE e # NoThread /\ c \in T[e].chans
  <2> DEFINE A == [T EXCEPT ![e].chans = @ \ {c}]
  <2>1. /\ Unregister(T, e, c) = WakeChanT(A, e, c) /\ UnregisterQ(T, Q, e, c) = WakeChanQ(T, Q, e, c)
        /\ e \in Threads
    BY <1>2 DEF Unregister, UnregisterQ
  <2>2. /\ A \in [Threads -> Thread] /\ \A u \in Threads \ {e} : A[u] = T[u]
        /\ A[e].life = T[e].life /\ A[e].sig = T[e].sig /\ A[e].pend = T[e].pend /\ A[e].wait = T[e].wait
        /\ A[e].at = T[e].at /\ A[e].timer = T[e].timer /\ A[e].chans = T[e].chans \ {c}
    BY <2>1 DEF Thread
  <2> HIDE DEF A
  <2>3. WakeChanQ(T, Q, e, c) = WakeChanQ(A, Q, e, c)
    BY <2>2 DEF WakeChanQ, WaitsFor, WakeQ, Wakeup
  <2>4. Takes(A, e, c) <=> Takes(T, e, c)
    BY <2>2 DEF Takes
  <2>5. ListOK(A, Q, cu)
    <3>1. \A u \in Threads : A[u].pend = T[u].pend /\ A[u].life = T[u].life
      BY <2>2
    <3>. QED BY <3>1 DEF ListOK
  <2>6. Takes(A, e, c) => A[e].life = "live" /\ e # cu
    BY <2>2, <2>4
  <2>7. /\ WakeChanT(A, e, c) \in [Threads -> Thread] /\ Same(A, WakeChanT(A, e, c))
        /\ WakeChanQ(A, Q, e, c) \in Seq(Threads)
        /\ Len(Q) \in Nat /\ Len(WakeChanQ(A, Q, e, c)) \in Nat /\ Len(WakeChanQ(A, Q, e, c)) >= Len(Q)
        /\ ListOK(WakeChanT(A, e, c), WakeChanQ(A, Q, e, c), cu)
        /\ \A u \in Threads : In(WakeChanQ(A, Q, e, c), u) <=> In(Q, u) \/ (u = e /\ Takes(A, e, c))
    BY <2>2, <2>5, <2>6, WakeChanOK
  <2>8. ASSUME NEW u \in Threads
        PROVE  /\ Unregister(T, e, c)[u].life = T[u].life /\ Unregister(T, e, c)[u].sig = T[u].sig
               /\ Unregister(T, e, c)[u].wait = T[u].wait /\ Unregister(T, e, c)[u].at = T[u].at
               /\ Unregister(T, e, c)[u].timer = T[u].timer
               /\ u = e => Unregister(T, e, c)[u].chans = T[u].chans \ {c}
               /\ u # e => Unregister(T, e, c)[u].chans = T[u].chans
    BY <2>1, <2>2, <2>7 DEF Same
  <2>. QED BY <1>2, <2>1, <2>3, <2>4, <2>7, <2>8 DEF Unregistered
<1>. QED BY <1>1, <1>2

\* A channel is closed: both ends that wait for it are woken.
LEMMA CloseKeeps ==
  ASSUME SkiInv, NEW t \in Threads, cur = t, ~Waiting(t), NEW c \in Chans, CloseChan(thread, c),
         UNCHANGED <<left, cur, process, sent, recv>>
  PROVE  SkiInv'
<1> DEFINE r == chan[c].r
           w == chan[c].w
           R == Unregister(thread, r, c)
           Q == UnregisterQ(thread, running, r, c)
           S == Unregister(R, w, c)
           P == UnregisterQ(R, Q, w, c)
<1>1. /\ thread' = S /\ running' = P
      /\ chan' = [chan EXCEPT ![c] = [active |-> "no", list |-> <<>>, r |-> NoThread, w |-> NoThread]]
  BY DEF CloseChan
<1>2. /\ thread \in [Threads -> Thread] /\ running \in Seq(Threads) /\ ListOK(thread, running, cur)
      /\ r \in Threads \union {NoThread} /\ w \in Threads \union {NoThread}
      /\ NoThread \notin Threads /\ NoChan \notin Chans
  BY ListIs, Ends, SkiAssumption DEF SkiInv, TypeOK
<1>3. \A e \in Threads \union {NoThread} :
        Takes(thread, e, c) => e \in Threads /\ thread[e].life = "live" /\ e # cur
  BY EndLive
<1> HIDE DEF r, w
<1>4. /\ R \in [Threads -> Thread] /\ Q \in Seq(Threads)
      /\ Len(running) \in Nat /\ Len(Q) \in Nat /\ Len(Q) >= Len(running)
      /\ ListOK(R, Q, cur)
      /\ \A u \in Threads : /\ R[u].life = thread[u].life /\ R[u].sig = thread[u].sig
                            /\ R[u].wait = thread[u].wait /\ R[u].at = thread[u].at
                            /\ R[u].timer = thread[u].timer
                            /\ u = r => R[u].chans = thread[u].chans \ {c}
                            /\ u # r => R[u].chans = thread[u].chans
      /\ \A u \in Threads : In(Q, u) <=> In(running, u) \/ (u = r /\ Takes(thread, r, c) /\ c \in thread[r].chans)
  <2>1. Takes(thread, r, c) => thread[r].life = "live" /\ r # cur
    BY <1>2, <1>3
  <2>2. thread \in [Threads -> Thread] /\ running \in Seq(Threads) /\ r \in Threads \union {NoThread} /\ ListOK(thread, running, cur)
    BY <1>2
  <2>3. Unregistered(thread, running, R, Q, r, c, cur)
    BY <2>1, <2>2, UnregisterOK
  <2> HIDE DEF R, Q
  <2>. QED BY <2>3 DEF Unregistered
<1> HIDE DEF R, Q
<1>5. Takes(R, w, c) <=> Takes(thread, w, c)
  BY <1>2, <1>4 DEF Takes
<1>6. Takes(R, w, c) => R[w].life = "live" /\ w # cur
  BY <1>2, <1>3, <1>4, <1>5
<1>7. /\ S \in [Threads -> Thread] /\ P \in Seq(Threads) /\ Len(P) \in Nat /\ Len(P) >= Len(Q)
      /\ ListOK(S, P, cur)
      /\ \A u \in Threads : /\ S[u].life = R[u].life /\ S[u].sig = R[u].sig
                            /\ S[u].wait = R[u].wait /\ S[u].at = R[u].at /\ S[u].timer = R[u].timer
                            /\ u = w => S[u].chans = R[u].chans \ {c}
                            /\ u # w => S[u].chans = R[u].chans
      /\ \A u \in Threads : In(P, u) <=> In(Q, u) \/ (u = w /\ Takes(R, w, c) /\ c \in R[w].chans)
  <2>2. R \in [Threads -> Thread] /\ Q \in Seq(Threads) /\ w \in Threads \union {NoThread} /\ ListOK(R, Q, cur)
    BY <1>2, <1>4
  <2>3. Unregistered(R, Q, S, P, w, c, cur)
    BY <1>6, <2>2, UnregisterOK
  <2> HIDE DEF S, P
  <2>. QED BY <2>3 DEF Unregistered
<1> HIDE DEF S, P
<1>8. /\ chan' \in [Chans -> Chan] /\ chan'[c].active = "no" /\ chan'[c].r = NoThread /\ chan'[c].w = NoThread
      /\ \A d \in Chans \ {c} : chan'[d] = chan[d]
  <2>1. [active |-> "no", list |-> <<>>, r |-> NoThread, w |-> NoThread] \in Chan
    BY DEF Chan
  <2>2. chan \in [Chans -> Chan]
    BY DEF SkiInv, TypeOK
  <2>. QED BY <1>1, <2>1, <2>2
<1>9. TypeOK' /\ RunningOnce'
  <2>1. left <= Len(P) /\ left \in Nat
    BY <1>4, <1>7 DEF SkiInv, TypeOK
  <2>2. TypeOK'
    BY <1>1, <1>7, <1>8, <2>1 DEF SkiInv, TypeOK
  <2>3. RunningOnce'
    BY <1>1, <1>7 DEF RunningOnce, ListOK, InList, In
  <2>. QED BY <2>2, <2>3
<1>10. \A u \in Threads : /\ thread'[u].life = thread[u].life /\ thread'[u].sig = thread[u].sig
                          /\ thread'[u].wait = thread[u].wait /\ thread'[u].at = thread[u].at
                          /\ thread'[u].timer = thread[u].timer
  BY <1>1, <1>4, <1>7
<1>11. \A u \in Threads : thread'[u].chans = thread[u].chans \ {c}
  <2>1. \A u \in Threads : c \in thread[u].chans => u \in {r, w}
    BY DEF SkiInv, ChanInv, on_debug, r, w
  <2>. QED BY <1>1, <1>4, <1>7, <2>1
<1>12. \A u \in Threads : /\ InList(u) => InList(u)'
                          /\ InList(u)' => InList(u) \/ thread[u].wait = c
  <2>1. \A u \in Threads : InList(u)' <=> In(P, u)
    BY <1>1 DEF InList, In
  <2>. QED BY <1>4, <1>5, <1>7, <2>1, ListIs DEF Takes
<1>13. ASSUME NEW v \in Threads, thread[v].wait = c, Active(c) PROVE InList(v)'
  <2>1. Waiting(v) /\ v # cur
    BY <1>2, <1>13 DEF SkiInv, ThreadInv
  <2>2. thread[v].sig = "chan"
    BY <2>1 DEF SkiInv, ThreadInv
  <2>3. v \in {r, w} /\ v # NoThread
    BY <1>2, <1>13, <2>1 DEF Waiting, SkiInv, ChanInv, EndsInv, r, w
  <2>4. c \in thread[v].chans
    BY <1>13, <2>3 DEF SkiInv, ChanInv, on_debug, r, w
  <2>5. Takes(thread, v, c)
    BY <1>13, <2>2, <2>3 DEF Takes
  <2>6. In(P, v)
    <3>1. CASE v = r
      BY <1>4, <1>7, <2>4, <2>5, <3>1
    <3>2. CASE v = w /\ v # r
      BY <1>4, <1>5, <1>7, <2>4, <2>5, <3>2
    <3>. QED BY <2>3, <3>1, <3>2
  <2>. QED BY <1>1, <2>6 DEF InList, In
<1>14. ThreadInv'
  BY <1>10, <1>11 DEF SkiInv, ThreadInv, Waiting
<1>a. \A d \in Chans : Active(d)' <=> Active(d) /\ d # c
  BY <1>8 DEF Active
<1>15. EndsInv'
  <2>1. ASSUME NEW v \in Threads, NEW d \in Chans, thread'[v].wait = d, Active(d)'
        PROVE  /\ thread'[v].at = "read" => chan'[d].r = v
               /\ thread'[v].at = "write" => chan'[d].w = v /\ sent'[d] < MaxMsgs
    BY <1>8, <1>10, <1>a, <2>1 DEF SkiInv, ChanInv, EndsInv
  <2>2. ASSUME NEW d \in Chans
        PROVE  /\ chan'[d].r # NoThread => chan'[d].r # chan'[d].w
               /\ chan'[d].r \in Readers[d] \union {NoThread} /\ chan'[d].w \in Writers[d] \union {NoThread}
    BY <1>8 DEF SkiInv, ChanInv, EndsInv
  <2>. QED BY <2>1, <2>2 DEF EndsInv
<1>16. on_debug'
  <2>1. ASSUME NEW d \in Chans, Active(d)', NEW e \in {chan'[d].r, chan'[d].w} \ {NoThread}
        PROVE  d \in thread'[e].chans /\ thread'[e].life = "live"
    <3>1. Active(d) /\ d # c /\ e \in {chan[d].r, chan[d].w} \ {NoThread}
      BY <1>8, <1>a, <2>1
    <3>2. d \in thread[e].chans /\ thread[e].life = "live" /\ e \in Threads
      BY <3>1, Ends DEF SkiInv, ChanInv, on_debug
    <3>. QED BY <1>10, <1>11, <3>1, <3>2
  <2>2. ASSUME NEW v \in Threads, NEW d \in thread'[v].chans PROVE v \in {chan'[d].r, chan'[d].w}
    <3>1. d \in thread[v].chans /\ d # c
      BY <1>11, <2>2
    <3>2. v \in {chan[d].r, chan[d].w} /\ d \in Chans
      BY <1>2, <3>1 DEF SkiInv, ChanInv, on_debug, Thread
    <3>. QED BY <1>8, <3>1, <3>2
  <2>. QED BY <2>1, <2>2 DEF on_debug
<1>17. ReadyInv'
  <2>1. ASSUME NEW v \in Threads, NEW d \in Chans, thread'[v].wait = d, Active(d)', InList(v)' \/ cur' = v
        PROVE  /\ thread'[v].at = "read" => chan'[d].list # <<>> /\ chan'[d].w # NoThread
               /\ thread'[v].at = "write" => Len(chan'[d].list) < MaxLen[d] /\ chan'[d].r # NoThread
    <3>1. thread[v].wait = d /\ Active(d) /\ d # c /\ (InList(v) \/ cur = v) /\ chan'[d] = chan[d]
      BY <1>8, <1>10, <1>12, <1>a, <2>1
    <3>. QED BY <1>10, <3>1 DEF SkiInv, ChanInv, ReadyInv
  <2>. QED BY <2>1 DEF ReadyInv
<1>18. KeptInv'
  <2>1. ASSUME NEW v \in Threads, NEW d \in Chans, thread'[v].wait = d
        PROVE  /\ ~Active(d)' => Ready(v)'
               /\ thread'[v].at = "read" /\ Active(d)' /\ chan'[d].list # <<>> => Ready(v)'
               /\ thread'[v].at = "write" /\ Active(d)' /\ Len(chan'[d].list) < MaxLen[d] => Ready(v)'
    <3>1. Ready(v) => Ready(v)'
      BY <1>12 DEF Ready
    <3>2. thread[v].wait = d /\ thread'[v].at = thread[v].at
      BY <1>10, <2>1
    <3>3. CASE d = c
      BY <1>13, <1>a, <3>1, <3>2, <3>3 DEF SkiInv, ChanInv, KeptInv, Ready
    <3>4. CASE d # c
      BY <1>8, <1>a, <3>1, <3>2, <3>4 DEF SkiInv, ChanInv, KeptInv
    <3>. QED BY <3>3, <3>4
  <2>. QED BY <2>1 DEF KeptInv
<1>19. Fifo'
  BY <1>8, <1>a, FifoKept DEF Others
<1>. QED BY <1>9, <1>14, <1>15, <1>16, <1>17, <1>18, <1>19 DEF SkiInv, ChanInv

-----------------------------------------------------------------------------
(* The theorems *)

LEMMA NextInv == SkiInv /\ [Next]_vars => SkiInv'
<1> SUFFICES ASSUME SkiInv, [Next]_vars PROVE SkiInv'
  OBVIOUS
<1>1. CASE UNCHANGED vars
  <2>1. left' = left /\ process' \in {"running", "failed", "exited"}
    BY <1>1 DEF vars, SkiInv, TypeOK
  <2>. QED BY <1>1, <2>1, LoopStep DEF vars
<1>2. CASE prepare
  <2>1. /\ left' \in {left, Round} /\ process' \in {"running", "exited"}
        /\ UNCHANGED <<thread, chan, running, cur, sent, recv>>
    BY <1>2 DEF prepare
  <2>. QED BY <2>1, LoopStep
<1>3. CASE resume
  BY <1>3, resumeKeeps
<1>4. ASSUME NEW t \in Threads, timer(t) PROVE SkiInv'
  BY <1>4, timerKeeps
<1>5. ASSUME NEW t \in Threads, Coroutine(t) PROVE SkiInv'
  <2>1. CASE \E u \in Threads : go(t, u)
    BY <2>1, goKeeps
  <2>2. ASSUME NEW c \in Chans, read(t, c) \/ write(t, c) PROVE SkiInv'
    BY <2>2, readKeeps, writeKeeps
  <2>3. ASSUME NEW c \in Chans, close(t, c) \/ exit_chan(t, c) PROVE SkiInv'
    <3>1. /\ cur = t /\ ~Waiting(t) /\ CloseChan(thread, c)
          /\ UNCHANGED <<left, cur, process, sent, recv>>
      BY <2>3 DEF close, exit_chan, Runs, Waiting
    <3>. QED BY <3>1, CloseKeeps
  <2>4. CASE read_resumed(t) \/ write_resumed(t)
    BY <2>4, read_resumedKeeps, write_resumedKeeps
  <2>5. CASE sleep(t) \/ sleep_resumed(t) \/ exit(t) \/ exit_end(t)
    BY <2>5, OwnStep
  <2>. QED BY <1>5, <2>1, <2>2, <2>3, <2>4, <2>5 DEF Coroutine
<1>. QED BY <1>1, <1>2, <1>3, <1>4, <1>5 DEF Next

LEMMA Invariance == Spec => []SkiInv
  BY InitInv, NextInv, PTL DEF Spec

\* The state of the scheduler stays within its types (core.lua).
THEOREM TypeCorrect == Spec => []TypeOK
<1>1. SkiInv => TypeOK
  BY DEF SkiInv
<1>. QED BY <1>1, Invariance, PTL

\* wakeup_common never puts a thread on ski_running_list twice, and never a dead one
\* or the one that runs.
THEOREM ListedOnce == Spec => []RunningOnce
<1>1. SkiInv => RunningOnce
  BY DEF SkiInv
<1>. QED BY <1>1, Invariance, PTL

\* No wakeup of a channel is lost: a waiting reader whose channel has data, a waiting
\* writer whose channel has room, and either when the channel is closed, is about to
\* be resumed.
THEOREM NoLostWakeup == Spec => []WakeupKept
  BY KeptIs, Invariance, PTL

\* A channel delivers what was written to it in order, and never holds more than its
\* bound, although a resumed writer appends without testing the length again.
THEOREM ChannelsFifo == Spec => []Fifo
<1>1. SkiInv => Fifo
  BY DEF SkiInv, ChanInv
<1>. QED BY <1>1, Invariance, PTL

NotFailed == process # "failed"

\* A step from a state without failed assert does not fail one, when each channel has
\* one reader and one other writer.
LEMMA NoFail ==
  ASSUME OneReaderOneWriter
  PROVE  SkiInv /\ NotFailed /\ [Next]_vars => NotFailed'
<1> SUFFICES ASSUME SkiInv, process # "failed", [Next]_vars PROVE process' # "failed"
  BY DEF NotFailed
<1>1. ASSUME NEW t \in Threads, NEW c \in Chans, read(t, c) PROVE process' # "failed"
  <2>1. Active(c) /\ t \in Readers[c] /\ chan[c].r \in Readers[c] \union {NoThread}
    BY <1>1 DEF read, SkiInv, ChanInv, EndsInv
  <2>2. c \in thread[t].chans => t \in {chan[c].r, chan[c].w} /\ chan[c].w \in Writers[c] \union {NoThread}
    BY DEF SkiInv, ChanInv, on_debug, EndsInv
  <2>3. MayUse(c, t, chan[c].r)
    BY <2>1, <2>2, SkiAssumption DEF MayUse, OneReaderOneWriter
  <2>. QED BY <1>1, <2>3 DEF read
<1>2. ASSUME NEW t \in Threads, NEW c \in Chans, write(t, c) PROVE process' # "failed"
  <2>1. Active(c) /\ t \in Writers[c] /\ chan[c].w \in Writers[c] \union {NoThread}
    BY <1>2 DEF write, SkiInv, ChanInv, EndsInv
  <2>2. c \in thread[t].chans => t \in {chan[c].r, chan[c].w} /\ chan[c].r \in Readers[c] \union {NoThread}
    BY DEF SkiInv, ChanInv, on_debug, EndsInv
  <2>3. MayUse(c, t, chan[c].w)
    BY <2>1, <2>2, SkiAssumption DEF MayUse, OneReaderOneWriter
  <2>. QED BY <1>2, <2>3 DEF write
<1>3. ASSUME NEW t \in Threads, read_resumed(t) PROVE process' # "failed"
  <2>1. thread[t].at = "read" /\ cur = t /\ thread[t].wait \in Chans
    BY <1>3 DEF read_resumed, SkiInv, ThreadInv, Waiting, TypeOK, Thread
  <2>2. Active(thread[t].wait) => chan[thread[t].wait].list # <<>> /\ chan[thread[t].wait].w # NoThread
    BY <2>1 DEF SkiInv, ChanInv, ReadyInv
  <2>. QED BY <1>3, <2>2 DEF read_resumed
<1>4. ASSUME NEW t \in Threads, write_resumed(t) PROVE process' # "failed"
  <2>1. thread[t].at = "write" /\ cur = t /\ thread[t].wait \in Chans
    BY <1>4 DEF write_resumed, SkiInv, ThreadInv, Waiting, TypeOK, Thread
  <2>2. Active(thread[t].wait) => chan[thread[t].wait].r # NoThread
    BY <2>1 DEF SkiInv, ChanInv, ReadyInv
  <2>. QED BY <1>4, <2>2 DEF write_resumed
<1>5. CASE UNCHANGED process \/ prepare
  BY <1>5 DEF prepare
<1>6. CASE resume \/ \E t \in Threads : timer(t) \/ sleep(t) \/ sleep_resumed(t) \/ exit(t) \/ exit_end(t)
  BY <1>5, <1>6 DEF resume, timer, sleep, sleep_resumed, exit, exit_end
<1>7. CASE \E t \in Threads : \/ \E u \in Threads : go(t, u)
                              \/ \E c \in Chans : close(t, c) \/ exit_chan(t, c)
  BY <1>5, <1>7 DEF go, close, exit_chan
<1>8. CASE UNCHANGED vars
  BY <1>5, <1>8 DEF vars
<1>. QED BY <1>1, <1>2, <1>3, <1>4, <1>5, <1>6, <1>7, <1>8 DEF Next, Coroutine

\* While each channel has one reader and one other writer, no assert of core.lua fails,
\* and threads and channels know each other whenever the debug timer looks.
THEOREM AssertsHold ==
  ASSUME OneReaderOneWriter
  PROVE  Spec => []NoAssertFails
<1>1. Init => SkiInv /\ NotFailed
  BY InitInv DEF Init, NotFailed
<1>2. SkiInv /\ NotFailed /\ [Next]_vars => SkiInv' /\ NotFailed'
  BY NextInv, NoFail
<1>3. SkiInv /\ NotFailed => NoAssertFails
  BY DEF SkiInv, ChanInv, NoAssertFails, NotFailed
<1>. QED BY <1>1, <1>2, <1>3, PTL DEF Spec
=============================================================================
