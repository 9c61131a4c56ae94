-------------------------- MODULE SandcQueryProofs --------------------------
(***************************************************************************)
(* Proofs about request and answer over the bus, for any number of queries *)
(* and answers.                                                            *)
(***************************************************************************)
EXTENDS SandcQuery, FiniteSetTheorems, TLAPS

-----------------------------------------------------------------------------
(* ski_running_list *)

In(Q, t) == \E i \in DOMAIN Q : Q[i] = t

\* A thread that leaves the list leaves the others in it.
LEMMA InTail ==
  ASSUME NEW S, NEW Q \in Seq(S), Q # <<>>
  PROVE  /\ Tail(Q) \in Seq(S) /\ Head(Q) \in S
         /\ Len(Q) \in Nat \ {0} /\ Len(Tail(Q)) = Len(Q) - 1
         /\ \A t : In(Q, t) /\ t # Head(Q) => In(Tail(Q), t)
<1>1. /\ Tail(Q) \in Seq(S) /\ Head(Q) \in S
      /\ Len(Q) \in Nat \ {0} /\ Len(Tail(Q)) = Len(Q) - 1
  OBVIOUS
<1>2. ASSUME NEW t, In(Q, t), t # Head(Q) PROVE In(Tail(Q), t)
  <2>1. PICK i \in 1..Len(Q) : Q[i] = t
    BY <1>2 DEF In
  <2>2. i # 1
    BY <1>2, <2>1
  <2>3. i - 1 \in DOMAIN Tail(Q) /\ Tail(Q)[i - 1] = t
    BY <1>1, <2>1, <2>2
  <2>. QED BY <2>3 DEF In
<1>. QED BY <1>1, <1>2

\* A woken thread is in the list, and nobody is lost from it.
LEMMA InWoken ==
  ASSUME NEW S, NEW Q \in Seq(S), NEW u \in S
  PROVE  /\ Woken(Q, u) \in Seq(S) /\ Len(Woken(Q, u)) \in Nat /\ Len(Q) \in Nat
         /\ Len(Woken(Q, u)) >= Len(Q)
         /\ In(Woken(Q, u), u)
         /\ \A t : In(Q, t) => In(Woken(Q, u), t)
<1>1. CASE In(Q, u)
  BY <1>1 DEF Woken, In
<1>2. CASE ~In(Q, u)
  <2>1. Woken(Q, u) = Append(Q, u)
    BY <1>2 DEF Woken, In
  <2>2. Append(Q, u) \in Seq(S) /\ Len(Append(Q, u)) = Len(Q) + 1 /\ Append(Q, u)[Len(Q) + 1] = u
    OBVIOUS
  <2>3. \A i \in DOMAIN Q : i \in DOMAIN Append(Q, u) /\ Append(Q, u)[i] = Q[i]
    OBVIOUS
  <2>. QED BY <2>1, <2>2, <2>3 DEF In
<1>. QED BY <1>1, <1>2

LEMMA InListIs == \A t : InList(t) <=> In(running, t)
  BY DEF InList, In

\* The thread that runs is at the head of the list.
LEMMA RunsHead ==
  ASSUME TypeOK, NEW t, Runs(t)
  PROVE  running # <<>> /\ Head(running) = t /\ left \in Nat /\ left - 1 \in 0..Len(Tail(running))
<1>1. running \in Seq(Threads) /\ left \in 0..Len(running) /\ left > 0 /\ Len(running) \in Nat
  BY DEF TypeOK, Runs
<1>2. running # <<>>
  BY <1>1
<1>. QED BY <1>1, <1>2, InTail DEF Runs

-----------------------------------------------------------------------------
(* Types *)

\* What WakeWriter and WakeReader do to a list.
LEMMA WakeType ==
  ASSUME TypeOK, NEW Q \in Seq(Threads), NEW q \in Queries
  PROVE  /\ WakeWriter(Q, q) \in Seq(Threads) /\ Len(WakeWriter(Q, q)) >= Len(Q)
         /\ WakeReader(Q, q) \in Seq(Threads) /\ Len(WakeReader(Q, q)) >= Len(Q)
         /\ Len(Q) \in Nat /\ Len(WakeWriter(Q, q)) \in Nat /\ Len(WakeReader(Q, q)) \in Nat
         /\ \A t : In(Q, t) => In(WakeWriter(Q, q), t) /\ In(WakeReader(Q, q), t)
<1>1. Len(Q) \in Nat /\ q \in Threads
  BY DEF Threads
<1>2. chan[q].w # None => chan[q].w \in Threads
  BY DEF TypeOK, Threads, Writers
<1>3. ASSUME NEW Q2 \in {WakeWriter(Q, q), WakeReader(Q, q)}
      PROVE  Q2 \in Seq(Threads) /\ Len(Q2) >= Len(Q) /\ Len(Q2) \in Nat /\ \A t : In(Q, t) => In(Q2, t)
  <2>1. Q2 = Q \/ \E u \in Threads : Q2 = Woken(Q, u)
    BY <1>1, <1>2 DEF WakeWriter, WakeReader
  <2>2. CASE Q2 = Q
    BY <1>1, <2>2
  <2>3. ASSUME NEW u \in Threads, Q2 = Woken(Q, u)
        PROVE  Q2 \in Seq(Threads) /\ Len(Q2) >= Len(Q) /\ Len(Q2) \in Nat /\ \A t : In(Q, t) => In(Q2, t)
    BY <2>3, InWoken
  <2>. QED BY <2>1, <2>2, <2>3
<1>. QED BY <1>1, <1>3

\* The list and the rest of the round after the thread at the head has run and woken
\* an end of a channel.
LEMMA PopType ==
  ASSUME TypeOK, NEW Q \in Seq(Threads), NEW n \in Nat, n - 1 \in 0..Len(Q), NEW q \in Queries,
         NEW Q2 \in {WakeWriter(Q, q), WakeReader(Q, q)}
  PROVE  Q2 \in Seq(Threads) /\ n - 1 \in 0..Len(Q2)
<1>1. CASE Q2 = WakeWriter(Q, q)
  <2>1. Len(WakeWriter(Q, q)) >= Len(Q) /\ Len(Q) \in Nat /\ Len(WakeWriter(Q, q)) \in Nat
    BY WakeType
  <2>2. n - 1 \in 0..Len(WakeWriter(Q, q))
    BY <2>1
  <2>. QED BY <1>1, <2>2, WakeType
<1>2. CASE Q2 = WakeReader(Q, q)
  <2>1. Len(WakeReader(Q, q)) >= Len(Q) /\ Len(Q) \in Nat /\ Len(WakeReader(Q, q)) \in Nat
    BY WakeType
  <2>2. n - 1 \in 0..Len(WakeReader(Q, q))
    BY <2>1
  <2>. QED BY <1>2, <2>2, WakeType
<1>. QED BY <1>1, <1>2

\* The types of query and chan.
QueryT == [Queries -> [pc: {"new", "publish", "read", "done"}, res: {"none", "answer", "timeout"}]]
ChanT  == [Queries -> [active: {"no", "yes"}, list: Seq({"answer", "timeout"}),
                       r: {"no", "yes"}, w: Writers \union {None}]]

LEMMA StartType ==
  ASSUME TypeOK, AnswersInv, NEW q \in Queries,
         query_start(q) \/ published(q) \/ answer(q) \/ expire(q)
  PROVE  TypeOK'
<1> USE QueryAssumption DEF TypeOK
<1>1. CASE query_start(q)
  BY <1>1 DEF query_start, bus
<1>2. CASE published(q)
  <2>1. q \in Threads
    BY DEF Threads
  <2>2. running' \in Seq(Threads) /\ left' \in 0..Len(running')
    BY <1>2, <2>1, InWoken DEF published
  <2>. QED BY <1>2, <2>2 DEF published, bus
<1>3. CASE answer(q)
  <2>1. answers' \in [Queries -> 0..MaxAnswers] /\ asked' \in [Queries -> 0..MaxAnswers]
    BY <1>3 DEF answer, AnswersInv
  <2>. QED BY <1>3, <2>1 DEF answer
<1>4. CASE expire(q)
  BY <1>4 DEF expire
<1>. QED BY <1>1, <1>2, <1>3, <1>4

LEMMA QueryType ==
  ASSUME TypeOK, NEW q \in Queries, query_run(q)
  PROVE  TypeOK'
<1>r. /\ Tail(running) \in Seq(Threads) /\ left \in Nat /\ left - 1 \in 0..Len(Tail(running))
      /\ running # <<>>
  BY RunsHead, InTail DEF query_run, TypeOK
<1>1. CASE chan[q].list # <<>> /\ Returns(q)
  <2>1. Head(chan[q].list) \in {"answer", "timeout"}
    BY <1>1 DEF TypeOK
  <2>2. running' \in Seq(Threads) /\ left' \in 0..Len(running')
    <3>1. running' = WakeWriter(Tail(running), q) /\ left' = left - 1
      BY <1>1 DEF Returns
    <3>. QED BY <1>r, <3>1, PopType
  <2>3. query' \in QueryT
    BY <1>1, <2>1 DEF Returns, TypeOK, QueryT
  <2>4. chan' \in ChanT
    BY <1>1 DEF Returns, TypeOK, ChanT
  <2>. QED BY <1>1, <2>2, <2>3, <2>4 DEF Returns, TypeOK, DropSeq, bus, QueryT, ChanT
<1>2. CASE chan[q].list = <<>> /\ query[q].pc = "publish"
  <2>1. running' \in Seq(Threads) /\ left' \in 0..Len(running')
    BY <1>2, <1>r DEF query_run
  <2>2. /\ query' = [query EXCEPT ![q].pc = "read"] /\ chan' = [chan EXCEPT ![q].r = "yes"]
        /\ UNCHANGED <<scan, seqmap, todo, blocked, bus, process>>
    BY <1>2 DEF query_run
  <2>3. query' \in QueryT
    BY <2>2 DEF TypeOK, QueryT
  <2>4. chan' \in ChanT
    BY <2>2 DEF TypeOK, ChanT
  <2>. QED BY <2>1, <2>2, <2>3, <2>4 DEF TypeOK, bus, QueryT, ChanT
<1>. QED BY <1>1, <1>2 DEF query_run

LEMMA writeType ==
  ASSUME TypeOK, NEW x \in Writers, NEW q \in Queries, Runs(x), todo[x] # <<>>, write(x, q)
  PROVE  TypeOK'
<1>r. /\ Tail(running) \in Seq(Threads) /\ left \in Nat /\ left - 1 \in 0..Len(Tail(running))
      /\ running \in Seq(Threads) /\ left \in 0..Len(running)
  BY RunsHead, InTail DEF TypeOK
<1>1. CASE Dies
  BY <1>1 DEF Dies, TypeOK, bus
<1>2. CASE chan[q].list = <<>> /\ WriterOK(x, q)
  <2>1. Tail(todo[x]) \in Seq(Queries) /\ <<Item(x)>> \in Seq({"answer", "timeout"})
    BY InTail DEF TypeOK, Item
  <2>2. running' \in Seq(Threads) /\ left' \in 0..Len(running')
    <3>1. running' = WakeReader(running, q) /\ left' = left
      BY <1>2 DEF write
    <3>. QED BY <1>r, <3>1, WakeType
  <2>3. /\ chan' = [chan EXCEPT ![q].w = x, ![q].list = <<Item(x)>>]
        /\ todo' = [todo EXCEPT ![x] = Tail(@)]
        /\ UNCHANGED <<blocked, scan, query, seqmap, bus, process>>
    BY <1>2 DEF write
  <2>4. chan' \in ChanT
    <3> DEFINE c == [chan EXCEPT ![q].w = x]
    <3>1. c \in ChanT
      BY DEF TypeOK, ChanT
    <3>2. chan' = [c EXCEPT ![q].list = <<Item(x)>>]
      BY <2>3 DEF TypeOK
    <3> HIDE DEF c
    <3>. QED BY <2>1, <3>1, <3>2 DEF ChanT
  <2>5. todo' \in [Writers -> Seq(Queries)]
    BY <2>1, <2>3 DEF TypeOK
  <2>. QED BY <2>2, <2>3, <2>4, <2>5 DEF TypeOK, bus, ChanT
<1>3. CASE chan[q].list # <<>> /\ WriterOK(x, q)
  <2>2. running' \in Seq(Threads) /\ left' \in 0..Len(running')
    <3>1. running' = WakeReader(Tail(running), q) /\ left' = left - 1
      BY <1>3 DEF write
    <3>. QED BY <1>r, <3>1, PopType
  <2>3. /\ chan' = [chan EXCEPT ![q].w = x] /\ blocked' = [blocked EXCEPT ![x] = q]
        /\ UNCHANGED <<todo, scan, query, seqmap, bus, process>>
    BY <1>3 DEF write
  <2>4. chan' \in ChanT /\ blocked' \in [Writers -> Queries \union {None}]
    BY <2>3 DEF TypeOK, ChanT
  <2>. QED BY <2>2, <2>3, <2>4 DEF TypeOK, bus, ChanT
<1>. QED BY <1>1, <1>2, <1>3 DEF write

LEMMA WriterType ==
  ASSUME TypeOK, WaitInv, NEW x \in Writers, write_resumed(x) \/ writer_idle(x)
  PROVE  TypeOK'
<1>r. /\ Tail(running) \in Seq(Threads) /\ left \in Nat /\ left - 1 \in 0..Len(Tail(running))
  BY RunsHead, InTail DEF TypeOK, write_resumed, writer_idle
<1>1. CASE write_resumed(x)
  <2>1. Tail(todo[x]) \in Seq(Queries)
    BY <1>1, InTail DEF write_resumed, TypeOK, WaitInv
  <2>2. todo' \in [Writers -> Seq(Queries)]
    BY <1>1, <2>1 DEF write_resumed, TypeOK
  <2>3. blocked' \in [Writers -> Queries \union {None}]
    BY <1>1 DEF write_resumed, TypeOK
  <2>. QED BY <1>1, <2>2, <2>3 DEF write_resumed, TypeOK, bus
<1>2. CASE writer_idle(x)
  BY <1>2, <1>r DEF writer_idle, TypeOK, bus
<1>. QED BY <1>1, <1>2

\* The order of pairs() is any enumeration of the expired queries.
LEMMA DueFinite ==
  ASSUME TypeOK
  PROVE  Cardinality(Due) \in Nat /\ \A s \in [1..Cardinality(Due) -> Due] : s \in Seq(Queries)
<1>1. Due \subseteq Queries
  BY DEF Due, TypeOK
<1>2. IsFiniteSet(Due)
  BY <1>1, QueryAssumption, FS_Subset
<1>3. Cardinality(Due) \in Nat
  BY <1>2, FS_CardinalityType
<1>. QED BY <1>1, <1>3

\* The loops of the two writer threads.
LEMMA LoopType ==
  ASSUME TypeOK, recv_step \/ timer_scan \/ timer_step
  PROVE  TypeOK'
<1>r. Recv \in Writers /\ Timer \in Writers
  BY DEF Writers
<1>1. CASE recv_step
  <2>1. Runs(Recv) /\ todo[Recv] # <<>> /\ Head(todo[Recv]) \in Queries /\ Tail(todo[Recv]) \in Seq(Queries)
    BY <1>1, <1>r, InTail DEF recv_step, TypeOK
  <2>2. CASE write(Recv, Head(todo[Recv]))
    BY <2>1, <2>2, <1>r, writeType
  <2>3. CASE ~write(Recv, Head(todo[Recv]))
    <3>1. /\ todo' = [todo EXCEPT ![Recv] = Tail(@)]
          /\ UNCHANGED <<running, left, scan, query, seqmap, chan, blocked, bus, process>>
      BY <1>1, <2>3 DEF recv_step
    <3>2. todo' \in [Writers -> Seq(Queries)]
      BY <3>1, <2>1 DEF TypeOK
    <3>. QED BY <3>1, <3>2 DEF TypeOK, bus
  <2>. QED BY <2>2, <2>3
<1>2. CASE timer_scan
  <2>1. todo' \in [Writers -> Seq(Queries)]
    BY <1>2, <1>r, DueFinite DEF timer_scan, TypeOK
  <2>. QED BY <1>2, <2>1 DEF timer_scan, TypeOK, bus
<1>3. CASE timer_step
  <2>1. Runs(Timer) /\ todo[Timer] # <<>> /\ Head(todo[Timer]) \in Queries
    BY <1>3, <1>r, InTail DEF timer_step, TypeOK
  <2>2. CASE write(Timer, Head(todo[Timer]))
    BY <2>1, <2>2, <1>r, writeType
  <2>3. CASE Dies
    BY <2>3 DEF Dies, TypeOK, bus
  <2>. QED BY <1>3, <2>2, <2>3 DEF timer_step
<1>. QED BY <1>1, <1>2, <1>3

LEMMA ChunkCount ==
  ASSUME NEW s \in Chunks, NEW q \in Queries
  PROVE  s \in Seq(Queries) /\ Count(s, q) \in Nat
<1>1. s \in Seq(Queries)
  <2>1. CASE \E p \in Queries : s = <<p>>
    BY <2>1
  <2>2. CASE \E p, r \in Queries : s = <<p, r>>
    BY <2>2
  <2>. QED BY <2>1, <2>2 DEF Chunks
<1>2. DOMAIN s = 1..Len(s) /\ Len(s) \in Nat
  BY <1>1
<1>3. IsFiniteSet(1..Len(s))
  BY <1>2, FS_Interval
<1>4. IsFiniteSet({i \in DOMAIN s : s[i] = q})
  BY <1>2, <1>3, FS_Subset
<1>. QED BY <1>1, <1>4, FS_CardinalityType DEF Count

LEMMA WorldType ==
  ASSUME TypeOK, tick \/ round \/ \E s \in Chunks : receive(s)
  PROVE  TypeOK'
<1>r. Recv \in Threads /\ Timer \in Threads /\ Recv \in Writers /\ Timer \in Writers
  BY DEF Threads, Writers
<1>1. CASE tick
  <2>1. running' \in Seq(Threads) /\ left' \in 0..Len(running')
    BY <1>1, <1>r, InWoken DEF tick, TypeOK
  <2>. QED BY <1>1, <2>1 DEF tick, TypeOK, bus
<1>2. CASE round
  BY <1>2 DEF round, Round, TypeOK, bus
<1>3. ASSUME NEW s \in Chunks, receive(s) PROVE TypeOK'
  <2>1. running' \in Seq(Threads) /\ left' \in 0..Len(running')
    BY <1>3, <1>r, InWoken DEF receive, TypeOK
  <2>2. s \in Seq(Queries) /\ \A q \in Queries : Count(s, q) \in Nat
    BY ChunkCount DEF Chunks
  <2>3. todo' \in [Writers -> Seq(Queries)]
    BY <1>3, <1>r, <2>2 DEF receive, TypeOK
  <2>4. ASSUME NEW q \in Queries PROVE answers[q] - Count(s, q) \in 0..MaxAnswers
    <3>1. Count(s, q) <= answers[q] /\ Count(s, q) \in Nat /\ answers[q] \in 0..MaxAnswers
      BY <1>3, <2>2 DEF receive, TypeOK
    <3>. QED BY <3>1, QueryAssumption
  <2>5. answers' \in [Queries -> 0..MaxAnswers]
    BY <1>3, <2>4 DEF receive
  <2>. QED BY <1>3, <2>1, <2>3, <2>5 DEF receive, TypeOK
<1>. QED BY <1>1, <1>2, <1>3

-----------------------------------------------------------------------------
(* The steps of the specification, as the proofs below split them. *)

LEMMA Steps ==
  ASSUME Next
  PROVE  \/ \E q \in Queries : query_start(q) \/ published(q) \/ answer(q) \/ expire(q)
         \/ \E q \in Queries : query_run(q)
         \/ \E x \in Writers : write_resumed(x) \/ writer_idle(x)
         \/ recv_step \/ timer_scan \/ timer_step
         \/ tick \/ round \/ \E s \in Chunks : receive(s)
  BY DEF Next, Run

\* Answers on their way have been sent.
LEMMA AnswersStep ==
  ASSUME TypeOK, AnswersInv, [Next]_vars
  PROVE  AnswersInv'
<1>1. CASE \E q \in Queries : answer(q)
  BY <1>1 DEF answer, AnswersInv, TypeOK
<1>2. ASSUME NEW s \in Chunks, receive(s) PROVE AnswersInv'
  <2>1. ASSUME NEW q \in Queries PROVE answers'[q] <= asked'[q]
    <3>1. Count(s, q) \in Nat
      BY ChunkCount
    <3>2. answers'[q] = answers[q] - Count(s, q) /\ asked'[q] = asked[q]
      BY <1>2 DEF receive
    <3>. QED BY <3>1, <3>2 DEF AnswersInv, TypeOK
  <2>. QED BY <2>1 DEF AnswersInv
<1>3. CASE UNCHANGED <<answers, asked>>
  BY <1>3 DEF AnswersInv
<1>4. CASE (\E q \in Queries : query_start(q) \/ published(q) \/ expire(q) \/ query_run(q))
  BY <1>4, <1>3 DEF query_start, published, expire, query_run, Returns, bus
<1>5. CASE (\E x \in Writers : write_resumed(x) \/ writer_idle(x)) \/ tick \/ round \/ timer_scan
  BY <1>5, <1>3 DEF write_resumed, writer_idle, tick, round, timer_scan, bus
<1>6. CASE recv_step \/ timer_step
  BY <1>6, <1>3 DEF recv_step, timer_step, write, Dies, bus
<1>7. CASE UNCHANGED vars
  BY <1>7, <1>3 DEF vars
<1>. QED BY <1>1, <1>2, <1>4, <1>5, <1>6, <1>7, Steps

LEMMA TypeStep ==
  ASSUME TypeOK, AnswersInv, WaitInv, [Next]_vars
  PROVE  TypeOK'
<1>1. CASE UNCHANGED vars
  BY <1>1 DEF vars, TypeOK
<1>2. CASE Next
  BY <1>2, Steps, StartType, QueryType, WriterType, LoopType, WorldType
<1>. QED BY <1>1, <1>2

-----------------------------------------------------------------------------
(* What each step does to the state that the invariants relate.             *)

\* A step that leaves the channels, the queries and the writers alone, and takes
\* nobody off the list, keeps all of them.
LEMMA Quiet ==
  ASSUME WaitInv, RegisteredWhileWaiting, NoWakeupLost,
         UNCHANGED <<query, seqmap, chan, blocked, process>>,
         scan' => scan \/ blocked[Timer] = None,
         \A x \in Writers : blocked[x] # None => todo'[x] # <<>>,
         \A t : In(running, t) => In(running', t)
  PROVE  WaitInv' /\ RegisteredWhileWaiting' /\ NoWakeupLost'
<1>1. WaitInv'
  BY DEF WaitInv
<1>2. RegisteredWhileWaiting'
  BY DEF RegisteredWhileWaiting
<1>3. \A t : InList(t) => InList(t)'
  BY DEF InList, In
<1>4. WriterReleased'
  BY <1>3 DEF NoWakeupLost, WriterReleased
<1>5. ReaderWoken'
  BY <1>3 DEF NoWakeupLost, ReaderWoken
<1>. QED BY <1>1, <1>2, <1>4, <1>5 DEF NoWakeupLost

LEMMA DiesKeeps ==
  ASSUME WaitInv, RegisteredWhileWaiting, NoWakeupLost, Dies
  PROVE  WaitInv' /\ RegisteredWhileWaiting' /\ NoWakeupLost'
  BY DEF Dies, WaitInv, RegisteredWhileWaiting, NoWakeupLost, WriterReleased, ReaderWoken

\* What happens between the rounds, and the start of a round.
LEMMA BetweenKeeps ==
  ASSUME TypeOK, WaitInv, RegisteredWhileWaiting, NoWakeupLost,
         \/ \E q \in Queries : query_start(q) \/ published(q) \/ answer(q) \/ expire(q)
         \/ tick \/ round \/ \E s \in Chunks : receive(s)
  PROVE  WaitInv' /\ RegisteredWhileWaiting' /\ NoWakeupLost'
<1>t. /\ running \in Seq(Threads) /\ Recv \in Threads /\ Timer \in Threads
      /\ Recv \in Writers /\ Timer \in Writers
  BY DEF TypeOK, Threads, Writers
<1>w. \A x \in Writers : blocked[x] # None => todo[x] # <<>>
  BY DEF WaitInv
<1>1. ASSUME NEW q \in Queries, query_start(q) PROVE WaitInv' /\ RegisteredWhileWaiting' /\ NoWakeupLost'
  <2>1. query'[q].pc = "publish" /\ \A p \in Queries \ {q} : query'[p] = query[p]
    BY <1>1 DEF query_start, TypeOK
  <2>2. /\ query[q].pc = "new" /\ seqmap' = seqmap \union {q}
        /\ UNCHANGED <<running, scan, chan, todo, blocked, process>>
    BY <1>1 DEF query_start
  <2>3. WaitInv'
    BY <2>1, <2>2 DEF WaitInv
  <2>4. RegisteredWhileWaiting'
    BY <2>1, <2>2 DEF RegisteredWhileWaiting
  <2>5. WriterReleased'
    BY <2>2 DEF NoWakeupLost, WriterReleased, InList
  <2>6. ReaderWoken'
    BY <2>1, <2>2 DEF NoWakeupLost, ReaderWoken, InList
  <2>. QED BY <2>3, <2>4, <2>5, <2>6 DEF NoWakeupLost
<1>2. ASSUME NEW q \in Queries, published(q) PROVE WaitInv' /\ RegisteredWhileWaiting' /\ NoWakeupLost'
  <2>1. running' = Woken(running, q) /\ UNCHANGED <<scan, query, seqmap, chan, todo, blocked, process>>
    BY <1>2 DEF published
  <2>2. \A t : In(running, t) => In(running', t)
    BY <1>t, <2>1, InWoken DEF Threads
  <2>. QED BY <1>w, <2>1, <2>2, Quiet
<1>3. ASSUME NEW q \in Queries, answer(q) \/ expire(q) PROVE WaitInv' /\ RegisteredWhileWaiting' /\ NoWakeupLost'
  <2>1. UNCHANGED <<running, scan, query, seqmap, chan, todo, blocked, process>>
    BY <1>3 DEF answer, expire
  <2>. QED BY <1>w, <2>1, Quiet
<1>4. CASE tick
  <2>1. /\ running' = Woken(running, Timer) /\ blocked[Timer] = None
        /\ UNCHANGED <<query, seqmap, chan, todo, blocked, process>>
    BY <1>4 DEF tick, Idle
  <2>2. \A t : In(running, t) => In(running', t)
    BY <1>t, <2>1, InWoken
  <2>. QED BY <1>w, <2>1, <2>2, Quiet
<1>5. CASE round
  <2>1. UNCHANGED <<running, scan, query, seqmap, chan, todo, blocked, process>>
    BY <1>5 DEF round
  <2>. QED BY <1>w, <2>1, Quiet
<1>6. ASSUME NEW s \in Chunks, receive(s) PROVE WaitInv' /\ RegisteredWhileWaiting' /\ NoWakeupLost'
  <2>1. /\ running' = Woken(running, Recv) /\ blocked[Recv] = None
        /\ UNCHANGED <<scan, query, seqmap, chan, blocked, process>>
    BY <1>6 DEF receive, Idle
  <2>2. \A t : In(running, t) => In(running', t)
    BY <1>t, <2>1, InWoken
  <2>3. \A x \in Writers : blocked[x] # None => todo'[x] # <<>>
    BY <1>6, <1>w, <2>1 DEF receive, TypeOK
  <2>. QED BY <2>1, <2>2, <2>3, Quiet
<1>. QED BY <1>1, <1>2, <1>3, <1>4, <1>5, <1>6

\* The thread of a query runs: a writer that waits for room in its channel is woken
\* by the return, before the channel is seen closed.
LEMMA QueryKeeps ==
  ASSUME TypeOK, WaitInv, RegisteredWhileWaiting, NoWakeupLost, NEW q \in Queries, query_run(q)
  PROVE  WaitInv' /\ RegisteredWhileWaiting' /\ NoWakeupLost'
<1>r. /\ running \in Seq(Threads) /\ running # <<>> /\ Head(running) = q
      /\ Tail(running) \in Seq(Threads) /\ process = "up"
      /\ \A t : In(running, t) /\ t # q => In(Tail(running), t)
  BY RunsHead, InTail DEF query_run, Runs, TypeOK
<1>d. \A x \in Writers : x # q /\ x \in Threads /\ x # None
  BY QueryAssumption DEF Writers, Threads
<1>1. CASE chan[q].list # <<>> /\ Returns(q)
  <2>1. /\ query'[q].pc = "done" /\ \A p \in Queries \ {q} : query'[p] = query[p]
        /\ seqmap' = seqmap \ {q} /\ running' = WakeWriter(Tail(running), q)
        /\ UNCHANGED <<scan, todo, blocked, process>>
    BY <1>1 DEF Returns, DropSeq, TypeOK
  <2>2. /\ chan'[q].active = "no" /\ chan'[q].list = <<>> /\ chan'[q].w = chan[q].w
        /\ \A p \in Queries \ {q} : chan'[p] = chan[p]
    <3>1. chan' = [chan EXCEPT ![q].active = "no", ![q].list = <<>>]
      BY <1>1 DEF Returns
    <3>. QED BY <3>1 DEF TypeOK
  <2>3. \A t : In(Tail(running), t) => In(running', t)
    BY <1>r, <2>1, WakeType
  <2>4. WaitInv'
    <3>1. \A p \in Queries : chan'[p].active = "no" => query'[p].pc = "done"
      BY <2>1, <2>2 DEF WaitInv
    <3>2. \A p \in Queries : chan'[p].w = chan[p].w
      BY <2>2
    <3>3. \A x \in Writers : blocked[x] # None => blocked[x] \in Queries
      BY DEF TypeOK
    <3>. QED BY <2>1, <3>1, <3>2, <3>3 DEF WaitInv
  <2>5. RegisteredWhileWaiting'
    BY <2>1 DEF RegisteredWhileWaiting
  <2>6. ASSUME NEW x \in Writers, blocked[x] # None, chan'[blocked[x]].active = "no" PROVE In(running', x)
    <3>1. CASE blocked[x] = q
      <4>1. chan[q].w = x
        BY <2>6, <3>1 DEF WaitInv
      <4>2. running' = Woken(Tail(running), x)
        BY <2>1, <3>1, <4>1, <1>d DEF WakeWriter
      <4>. QED BY <1>d, <1>r, <4>2, InWoken
    <3>2. CASE blocked[x] # q
      <4>1. chan[blocked[x]].active = "no"
        BY <2>2, <2>6, <3>2 DEF TypeOK
      <4>2. InList(x)
        BY <1>r, <2>6, <4>1 DEF NoWakeupLost, WriterReleased
      <4>. QED BY <1>d, <1>r, <2>3, <4>2, InListIs
    <3>. QED BY <3>1, <3>2
  <2>7. WriterReleased'
    BY <2>1, <2>6 DEF WriterReleased, InList, In
  <2>8. ASSUME NEW p \in Queries, query'[p].pc = "read", chan'[p].list # <<>> PROVE In(running', p)
    <3>1. p # q
      BY <2>1, <2>8
    <3>2. InList(p)
      BY <1>r, <2>1, <2>2, <2>8, <3>1 DEF NoWakeupLost, ReaderWoken
    <3>. QED BY <1>r, <2>3, <3>1, <3>2, InListIs
  <2>9. ReaderWoken'
    BY <2>8 DEF ReaderWoken, InList, In
  <2>. QED BY <2>4, <2>5, <2>7, <2>9 DEF NoWakeupLost
<1>2. CASE chan[q].list = <<>> /\ query[q].pc = "publish"
  <2>1. /\ query' = [query EXCEPT ![q].pc = "read"] /\ chan' = [chan EXCEPT ![q].r = "yes"]
        /\ running' = Tail(running) /\ UNCHANGED <<scan, seqmap, todo, blocked, process>>
    BY <1>2 DEF query_run
  <2>2. /\ query'[q].pc = "read" /\ \A p \in Queries \ {q} : query'[p] = query[p]
        /\ \A p \in Queries : /\ chan'[p].active = chan[p].active /\ chan'[p].list = chan[p].list
                              /\ chan'[p].w = chan[p].w
    BY <2>1 DEF TypeOK
  <2>4. WaitInv'
    BY <1>2, <2>1, <2>2 DEF WaitInv, TypeOK
  <2>5. RegisteredWhileWaiting'
    BY <1>2, <2>1, <2>2 DEF RegisteredWhileWaiting
  <2>6. ASSUME NEW x \in Writers, blocked[x] # None, chan'[blocked[x]].active = "no" PROVE In(running', x)
    <3>1. chan[blocked[x]].active = "no"
      BY <2>2, <2>6 DEF TypeOK
    <3>2. InList(x)
      BY <1>r, <2>6, <3>1 DEF NoWakeupLost, WriterReleased
    <3>. QED BY <1>d, <1>r, <2>1, <3>2, InListIs
  <2>7. WriterReleased'
    BY <2>1, <2>6 DEF WriterReleased, InList, In
  <2>8. ASSUME NEW p \in Queries, query'[p].pc = "read", chan'[p].list # <<>> PROVE In(running', p)
    <3>1. p # q
      BY <1>2, <2>2, <2>8
    <3>2. InList(p)
      BY <1>r, <2>2, <2>8, <3>1 DEF NoWakeupLost, ReaderWoken
    <3>. QED BY <1>r, <2>1, <3>1, <3>2, InListIs
  <2>9. ReaderWoken'
    BY <2>8 DEF ReaderWoken, InList, In
  <2>. QED BY <2>4, <2>5, <2>7, <2>9 DEF NoWakeupLost
<1>. QED BY <1>1, <1>2 DEF query_run

\* A writer thread writes to the channel of a query that is registered, which is
\* therefore open: it wakes the reader, or waits for room with nobody else waiting.
LEMMA writeKeeps ==
  ASSUME TypeOK, WaitInv, RegisteredWhileWaiting, NoWakeupLost,
         NEW x \in Writers, NEW q \in Queries, Runs(x), blocked[x] = None, todo[x] # <<>>,
         x = Timer => ~scan, q \in seqmap, write(x, q)
  PROVE  WaitInv' /\ RegisteredWhileWaiting' /\ NoWakeupLost'
<1>r. /\ running \in Seq(Threads) /\ running # <<>> /\ Head(running) = x
      /\ Tail(running) \in Seq(Threads) /\ process = "up"
      /\ \A t : In(running, t) /\ t # x => In(Tail(running), t)
  BY RunsHead, InTail DEF Runs, TypeOK
<1>d. \A y \in Writers : y \notin Queries /\ y \in Threads /\ y # None
  BY QueryAssumption DEF Writers, Threads
<1>n. None \notin Queries /\ q \in Threads
  BY QueryAssumption DEF Threads
<1>o. chan[q].active = "yes"
  BY DEF RegisteredWhileWaiting, WaitInv, TypeOK
<1>1. CASE Dies
  BY <1>1, DiesKeeps
<1>2. CASE WriterOK(x, q) /\ ~Dies
  <2>1. UNCHANGED <<scan, query, seqmap, process>>
    BY <1>2 DEF write
  <2>2. /\ chan'[q].w = x /\ chan'[q].active = "yes"
        /\ \A p \in Queries \ {q} : chan'[p] = chan[p]
    <3>1. CASE chan[q].list = <<>>
      <4>1. chan' = [chan EXCEPT ![q].w = x, ![q].list = <<Item(x)>>]
        BY <1>2, <3>1 DEF write
      <4>. QED BY <1>o, <4>1 DEF TypeOK
    <3>2. CASE chan[q].list # <<>>
      <4>1. chan' = [chan EXCEPT ![q].w = x]
        BY <1>2, <3>2 DEF write
      <4>. QED BY <1>o, <4>1 DEF TypeOK
    <3>. QED BY <3>1, <3>2
  <2>3. /\ blocked'[x] \in {None, q}
        /\ blocked'[x] # None => todo' = todo
        /\ \A y \in Writers \ {x} : blocked'[y] = blocked[y] /\ todo'[y] = todo[y]
    <3>1. CASE chan[q].list = <<>>
      BY <1>2, <3>1 DEF write, TypeOK
    <3>2. CASE chan[q].list # <<>>
      BY <1>2, <3>2 DEF write, TypeOK
    <3>. QED BY <3>1, <3>2
  <2>4. /\ running' \in {WakeReader(running, q), WakeReader(Tail(running), q)}
        /\ \A t : In(running, t) /\ t # x => In(running', t)
        /\ query[q].pc = "read" => In(running', q)
    <3>1. running' \in {WakeReader(running, q), WakeReader(Tail(running), q)}
      BY <1>2 DEF write
    <3>2. \A t : In(running, t) /\ t # x => In(running', t)
      BY <1>r, <3>1, WakeType
    <3>3. query[q].pc = "read" => In(running', q)
      <4>1. \A Q \in Seq(Threads) : In(Woken(Q, q), q)
        BY <1>n, InWoken
      <4>2. query[q].pc = "read" => \E Q \in Seq(Threads) : running' = Woken(Q, q)
        BY <1>r, <3>1 DEF WakeReader
      <4>. QED BY <4>1, <4>2
    <3>. QED BY <3>1, <3>2, <3>3
  <2>5. WaitInv'
    <3>1. \A p \in Queries : chan'[p].active = "no" => query'[p].pc = "done"
      BY <2>1, <2>2 DEF WaitInv
    <3>2. ASSUME NEW y \in Writers, blocked'[y] # None
          PROVE  chan'[blocked'[y]].w = y /\ todo'[y] # <<>>
      <4>1. CASE y = x
        BY <2>2, <2>3, <3>2, <4>1
      <4>2. CASE y # x
        <5>1. blocked'[y] = blocked[y] /\ todo'[y] = todo[y]
          BY <2>3, <4>2
        <5>2. chan[blocked[y]].w = y /\ todo[y] # <<>> /\ blocked[y] \in Queries
          BY <3>2, <5>1 DEF WaitInv, TypeOK
        <5>3. blocked[y] # q
          BY <1>2, <1>d, <4>2, <5>2 DEF WriterOK
        <5>. QED BY <2>2, <5>1, <5>2, <5>3
      <4>. QED BY <4>1, <4>2
    <3>3. scan' => blocked'[Timer] = None
      BY <2>1, <2>3 DEF WaitInv, Writers
    <3>. QED BY <3>1, <3>2, <3>3 DEF WaitInv
  <2>6. RegisteredWhileWaiting'
    BY <2>1 DEF RegisteredWhileWaiting
  <2>7. ASSUME NEW y \in Writers, blocked'[y] # None, chan'[blocked'[y]].active = "no" PROVE In(running', y)
    <3>1. y # x
      BY <2>2, <2>3, <2>7
    <3>2. blocked[y] = blocked'[y] /\ blocked[y] \in Queries
      BY <2>3, <2>7, <3>1 DEF TypeOK
    <3>3. blocked[y] # q
      BY <2>2, <2>7, <3>2
    <3>4. chan[blocked[y]].active = "no"
      BY <2>2, <2>7, <3>2, <3>3
    <3>5. InList(y)
      BY <1>r, <2>7, <3>2, <3>4 DEF NoWakeupLost, WriterReleased
    <3>. QED BY <2>4, <3>1, <3>5, InListIs
  <2>8. WriterReleased'
    BY <2>7 DEF WriterReleased, InList, In
  <2>9. ASSUME NEW p \in Queries, query'[p].pc = "read", chan'[p].list # <<>> PROVE In(running', p)
    <3>1. CASE p = q
      BY <2>1, <2>4, <2>9, <3>1
    <3>2. CASE p # q
      <4>1. InList(p)
        BY <1>r, <2>1, <2>2, <2>9, <3>2 DEF NoWakeupLost, ReaderWoken
      <4>2. p # x
        BY <1>d
      <4>. QED BY <2>4, <4>1, <4>2, InListIs
    <3>. QED BY <3>1, <3>2
  <2>10. ReaderWoken'
    BY <2>9 DEF ReaderWoken, InList, In
  <2>. QED BY <2>5, <2>6, <2>8, <2>10 DEF NoWakeupLost
<1>. QED BY <1>1, <1>2 DEF write

\* The other steps of the writer threads.
LEMMA WriterKeeps ==
  ASSUME TypeOK, WaitInv, RegisteredWhileWaiting, NoWakeupLost,
         (\E x \in Writers : write_resumed(x) \/ writer_idle(x)) \/ recv_step \/ timer_scan \/ timer_step
  PROVE  WaitInv' /\ RegisteredWhileWaiting' /\ NoWakeupLost'
<1>w. /\ \A x \in Writers : blocked[x] # None => todo[x] # <<>>
      /\ Recv \in Writers /\ Timer \in Writers /\ Recv # Timer
  BY QueryAssumption DEF WaitInv, Writers
<1>d. \A x \in Writers : x \notin Queries
  BY QueryAssumption DEF Writers
<1>1. ASSUME NEW x \in Writers, write_resumed(x) PROVE WaitInv' /\ RegisteredWhileWaiting' /\ NoWakeupLost'
  <2>1. /\ blocked'[x] = None
        /\ \A y \in Writers \ {x} : blocked'[y] = blocked[y] /\ todo'[y] = todo[y]
        /\ UNCHANGED <<running, scan, query, seqmap, chan, process>>
    BY <1>1 DEF write_resumed, TypeOK
  <2>2. WaitInv'
    BY <1>w, <2>1 DEF WaitInv
  <2>3. RegisteredWhileWaiting'
    BY <2>1 DEF RegisteredWhileWaiting
  <2>4. WriterReleased'
    BY <2>1 DEF NoWakeupLost, WriterReleased, InList
  <2>5. ReaderWoken'
    BY <2>1 DEF NoWakeupLost, ReaderWoken, InList
  <2>. QED BY <2>2, <2>3, <2>4, <2>5 DEF NoWakeupLost
<1>2. ASSUME NEW x \in Writers, writer_idle(x) PROVE WaitInv' /\ RegisteredWhileWaiting' /\ NoWakeupLost'
  <2>1. /\ blocked[x] = None /\ running' = Tail(running)
        /\ UNCHANGED <<scan, query, seqmap, chan, todo, blocked, process>>
    BY <1>2 DEF writer_idle
  <2>2. \A t : In(running, t) /\ t # x => In(running', t)
    <3>1. running \in Seq(Threads) /\ running # <<>> /\ Head(running) = x
      BY <1>2, RunsHead DEF writer_idle, TypeOK
    <3>. QED BY <2>1, <3>1, InTail
  <2>3. WaitInv'
    BY <2>1 DEF WaitInv
  <2>4. RegisteredWhileWaiting'
    BY <2>1 DEF RegisteredWhileWaiting
  <2>5. \A t : InList(t) /\ t # x => InList(t)'
    BY <2>2 DEF InList, In
  <2>6. WriterReleased'
    BY <2>1, <2>5 DEF NoWakeupLost, WriterReleased
  <2>7. ReaderWoken'
    BY <1>d, <2>1, <2>5 DEF NoWakeupLost, ReaderWoken
  <2>. QED BY <2>3, <2>4, <2>6, <2>7 DEF NoWakeupLost
<1>3. CASE recv_step
  <2>1. Runs(Recv) /\ blocked[Recv] = None /\ todo[Recv] # <<>> /\ Head(todo[Recv]) \in Queries
    BY <1>3, <1>w, InTail DEF recv_step, TypeOK
  <2>2. CASE Head(todo[Recv]) \in seqmap /\ write(Recv, Head(todo[Recv]))
    BY <1>w, <2>1, <2>2, writeKeeps
  <2>3. CASE ~(Head(todo[Recv]) \in seqmap /\ write(Recv, Head(todo[Recv])))
    <3>1. /\ todo' = [todo EXCEPT ![Recv] = Tail(@)]
          /\ UNCHANGED <<running, left, scan, query, seqmap, chan, blocked, bus, process>>
      BY <1>3, <2>3 DEF recv_step
    <3>2. \A x \in Writers : blocked[x] # None => todo'[x] # <<>>
      BY <1>w, <2>1, <3>1 DEF TypeOK
    <3>. QED BY <3>1, <3>2, Quiet
  <2>. QED BY <2>2, <2>3
<1>4. CASE timer_scan
  <2>1. scan /\ ~scan' /\ UNCHANGED <<running, query, seqmap, chan, blocked, process>>
    BY <1>4 DEF timer_scan
  <2>2. \A x \in Writers : blocked[x] # None => todo'[x] # <<>>
    BY <1>4, <1>w, <2>1 DEF timer_scan, TypeOK, WaitInv
  <2>. QED BY <2>1, <2>2, Quiet
<1>5. CASE timer_step
  <2>1. /\ Runs(Timer) /\ ~scan /\ blocked[Timer] = None /\ todo[Timer] # <<>>
        /\ Head(todo[Timer]) \in Queries
    BY <1>5, <1>w, InTail DEF timer_step, TypeOK
  <2>2. CASE Head(todo[Timer]) \in seqmap /\ write(Timer, Head(todo[Timer]))
    BY <1>w, <2>1, <2>2, writeKeeps
  <2>3. CASE Dies
    BY <2>3, DiesKeeps
  <2>. QED BY <1>5, <2>2, <2>3 DEF timer_step
<1>. QED BY <1>1, <1>2, <1>3, <1>4, <1>5

-----------------------------------------------------------------------------
(* The theorems *)

\* The inductive invariant.
QueryInv == TypeOK /\ AnswersInv /\ WaitInv /\ RegisteredWhileWaiting /\ NoWakeupLost

LEMMA InitInv == Init => QueryInv
<1> SUFFICES ASSUME Init PROVE QueryInv
  OBVIOUS
<1> USE QueryAssumption
<1>1. TypeOK
  <2>1. running \in Seq(Threads) /\ left \in 0..Len(running)
    BY DEF Init
  <2>2. query \in QueryT
    BY DEF Init, QueryT
  <2>3. chan \in ChanT
    BY DEF Init, ChanT
  <2>4. todo \in [Writers -> Seq(Queries)] /\ blocked \in [Writers -> Queries \union {None}]
    BY DEF Init
  <2>5. answers \in [Queries -> 0..MaxAnswers] /\ asked \in [Queries -> 0..MaxAnswers]
    BY DEF Init
  <2>6. seqmap \subseteq Queries /\ expired \subseteq Queries /\ process \in {"up", "down"}
    BY DEF Init
  <2>7. scan \in BOOLEAN
    BY DEF Init
  <2>. QED BY <2>1, <2>2, <2>3, <2>4, <2>5, <2>6, <2>7 DEF TypeOK, QueryT, ChanT
<1>2. AnswersInv /\ WaitInv /\ RegisteredWhileWaiting
  BY DEF Init, AnswersInv, WaitInv, RegisteredWhileWaiting, Writers
<1>3. NoWakeupLost
  BY DEF Init, NoWakeupLost, WriterReleased, ReaderWoken
<1>. QED BY <1>1, <1>2, <1>3 DEF QueryInv

LEMMA NextInv == QueryInv /\ [Next]_vars => QueryInv'
<1> SUFFICES ASSUME QueryInv, [Next]_vars PROVE QueryInv'
  OBVIOUS
<1> USE DEF QueryInv
<1>1. TypeOK' /\ AnswersInv'
  BY TypeStep, AnswersStep
<1>2. CASE UNCHANGED vars
  BY <1>1, <1>2 DEF vars, WaitInv, RegisteredWhileWaiting, NoWakeupLost, WriterReleased,
                    ReaderWoken, InList
<1>3. CASE Next
  BY <1>1, <1>3, Steps, BetweenKeeps, QueryKeeps, WriterKeeps
<1>. QED BY <1>2, <1>3

LEMMA Invariance == Spec => []QueryInv
  BY InitInv, NextInv, PTL DEF Spec

\* The state stays within its types (sandcproxy.lua and the channels it uses).
THEOREM TypeCorrect == Spec => []TypeOK
<1>1. QueryInv => TypeOK
  BY DEF QueryInv
<1>. QED BY <1>1, Invariance, PTL

\* out_seq_map holds exactly the queries that wait for an answer: a query that has
\* returned, by an answer or by the timer, has left no number behind.
THEOREM QueriesRegistered == Spec => []RegisteredWhileWaiting
<1>1. QueryInv => RegisteredWhileWaiting
  BY DEF QueryInv
<1>. QED BY <1>1, Invariance, PTL

\* No end of a channel is left waiting for what has happened: a written item puts the
\* waiting query on ski_running_list, and closing a channel puts the thread blocked
\* on it there.
THEOREM WakeupsKept == Spec => []NoWakeupLost
<1>1. QueryInv => NoWakeupLost
  BY DEF QueryInv
<1>. QED BY <1>1, Invariance, PTL
=============================================================================
