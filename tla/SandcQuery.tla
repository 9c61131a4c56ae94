----------------------------- MODULE SandcQuery -----------------------------
(***************************************************************************)
(* Request and answer over the bus (sands/files/lib/sandcproxy.lua on      *)
(* sandc.lua, ski.tcp and ski's channels).  A query registers a channel of *)
(* length one under its sequence number, publishes the request and reads   *)
(* the channel; the receiving thread writes the answer to it, and a timer  *)
(* thread writes a timeout to it once a second has passed too many times.  *)
(* Each action is one run of a coroutine from a yield to the next; the     *)
(* order in which woken threads run is ski_running_list.                   *)
(***************************************************************************)
EXTENDS Naturals, Sequences, FiniteSets

CONSTANTS
  Queries,      \* the calls of query / query_r, each in a thread of its own
  Recv, Timer,  \* the threads of sandc's run_internal and of sandcproxy's run
  None,
  MaxAnswers    \* bound: answers the peer sends to one query

ASSUME QueryAssumption ==
  /\ Recv \notin Queries /\ Timer \notin Queries /\ Recv # Timer
  /\ None \notin Queries \union {Recv, Timer} /\ MaxAnswers \in Nat
  /\ IsFiniteSet(Queries)

Threads == Queries \union {Recv, Timer}
Writers == {Recv, Timer}

VARIABLES
  running,   \* ski_running_list, the thread that runs still at its head
  left,      \* threads the round of the prepare hook has still to run
  scan,      \* the timer thread has slept and has not yet looked for expired queries
  query,     \* per query: where its thread is, and what it returned
  seqmap,    \* out_seq_map: the queries that are registered
  chan,      \* per query: the channel's list (at most one item), reader and writer
  todo,      \* per writer thread: the items of its loop it has still to write
  blocked,   \* per writer thread: the query on whose channel it waits, or None
  expired,   \* queries whose time is over
  answers,   \* per query: answers on their way
  asked,     \* per query: answers the peer has sent
  process    \* a failed assert or a nil index ends the process

vars == <<running, left, scan, query, seqmap, chan, todo, blocked, expired, answers, asked,
          process>>
bus == <<expired, answers, asked>>

TypeOK ==
  /\ running \in Seq(Threads) /\ left \in 0..Len(running) /\ scan \in BOOLEAN
  /\ query \in [Queries -> [pc: {"new", "publish", "read", "done"},
                            res: {"none", "answer", "timeout"}]]
  /\ seqmap \subseteq Queries
  /\ chan \in [Queries -> [active: {"no", "yes"}, list: Seq({"answer", "timeout"}),
                           r: {"no", "yes"}, w: Writers \union {None}]]
  /\ todo \in [Writers -> Seq(Queries)] /\ blocked \in [Writers -> Queries \union {None}]
  /\ expired \subseteq Queries
  /\ answers \in [Queries -> 0..MaxAnswers] /\ asked \in [Queries -> 0..MaxAnswers]
  /\ process \in {"up", "down"}

Init ==
  /\ running = <<>> /\ left = 0 /\ scan = FALSE
  /\ query = [q \in Queries |-> [pc |-> "new", res |-> "none"]]
  /\ seqmap = {} /\ expired = {}
  /\ chan = [q \in Queries |-> [active |-> "yes", list |-> <<>>, r |-> "no", w |-> None]]
  /\ todo = [x \in Writers |-> <<>>] /\ blocked = [x \in Writers |-> None]
  /\ answers = [q \in Queries |-> 0] /\ asked = [q \in Queries |-> 0]
  /\ process = "up"

InList(t) == \E i \in DOMAIN running : running[i] = t
Woken(Q, t) == IF \E i \in DOMAIN Q : Q[i] = t THEN Q ELSE Append(Q, t)
Runs(t) == process = "up" /\ left > 0 /\ Head(running) = t
BetweenRounds == process = "up" /\ left = 0
Dies == process' = "down" /\ UNCHANGED <<running, left, scan, query, seqmap, chan, todo, blocked, bus>>

-----------------------------------------------------------------------------
\* query: new channel, next sequence number, registration, publish.  The write
\* to the socket yields until libuv reports it.
query_start(q) ==
  /\ BetweenRounds /\ query[q].pc = "new"
  /\ query' = [query EXCEPT ![q].pc = "publish"] /\ seqmap' = seqmap \union {q}
  /\ UNCHANGED <<running, left, scan, chan, todo, blocked, bus, process>>

\* libuv: the write of the request is done.
published(q) ==
  /\ BetweenRounds /\ query[q].pc = "publish" /\ ~InList(q)
  /\ running' = Woken(running, q)
  /\ UNCHANGED <<left, scan, query, seqmap, chan, todo, blocked, bus, process>>

\* The writer that waits for room in q's channel is woken by the read and finds
\* the channel closed: close comes before it runs.
WakeNoWriter(Q, q) == Q     \* mutant: close wakes nobody
WakeWriter(Q, q) == IF chan[q].w # None /\ blocked[chan[q].w] = q THEN Woken(Q, chan[q].w) ELSE Q
KeepSeq(q) == seqmap        \* mutant: the sequence number stays registered
DropSeq(q) == seqmap \ {q}

\* The end of query: take the item, unregister, close the channel, return.
Returns(q) ==
  /\ query' = [query EXCEPT ![q] = [pc |-> "done", res |-> Head(chan[q].list)]]
  /\ seqmap' = DropSeq(q)
  /\ chan' = [chan EXCEPT ![q].active = "no", ![q].list = <<>>]
  /\ running' = WakeWriter(Tail(running), q) /\ left' = left - 1
  /\ UNCHANGED <<scan, todo, blocked, bus, process>>

\* The query's thread runs: after its publish it reads the channel, and waits
\* when there is nothing in it.
query_run(q) ==
  /\ Runs(q) /\ query[q].pc \in {"publish", "read"}
  /\ \/ chan[q].list # <<>> /\ Returns(q)
     \/ /\ chan[q].list = <<>> /\ query[q].pc = "publish"
        /\ query' = [query EXCEPT ![q].pc = "read"]
        /\ chan' = [chan EXCEPT ![q].r = "yes"]
        /\ running' = Tail(running) /\ left' = left - 1
        /\ UNCHANGED <<scan, seqmap, todo, blocked, bus, process>>

-----------------------------------------------------------------------------
\* A writer thread's ch:write(item) to the first query of its list.
WriterOK(x, q) == chan[q].w \in {None, x}           \* promise only one writer routine
Item(x) == IF x = Recv THEN "answer" ELSE "timeout"

\* r waits in read: woken by the write.
WakeNoReader(Q, q) == Q     \* mutant: the reader is not woken
WakeReader(Q, q) == IF query[q].pc = "read" THEN Woken(Q, q) ELSE Q

write(x, q) ==
  \/ ~WriterOK(x, q) /\ Dies
  \/ /\ WriterOK(x, q)
     /\ \/ /\ chan[q].list = <<>>
           /\ chan' = [chan EXCEPT ![q].w = x, ![q].list = <<Item(x)>>]
           /\ todo' = [todo EXCEPT ![x] = Tail(@)]
           /\ running' = WakeReader(running, q)           \* and goes on with its loop
           /\ UNCHANGED <<blocked, left>>
        \/ /\ chan[q].list # <<>>
           /\ chan' = [chan EXCEPT ![q].w = x]
           /\ blocked' = [blocked EXCEPT ![x] = q]
           /\ running' = WakeReader(Tail(running), q) /\ left' = left - 1
           /\ UNCHANGED todo
     /\ UNCHANGED <<scan, query, seqmap, bus, process>>

\* The writer resumes where it waited; the channel has been closed meanwhile.
write_resumed(x) ==
  /\ Runs(x) /\ blocked[x] # None
  /\ blocked' = [blocked EXCEPT ![x] = None] /\ todo' = [todo EXCEPT ![x] = Tail(@)]
  /\ UNCHANGED <<running, left, scan, query, seqmap, chan, bus, process>>

\* run_internal: on_message looks the sequence number up and writes the payload.
recv_step ==
  /\ Runs(Recv) /\ blocked[Recv] = None /\ todo[Recv] # <<>>
  /\ LET q == Head(todo[Recv]) IN
     \/ q \in seqmap /\ write(Recv, q)
     \/ /\ q \notin seqmap                                  \* nobody waits: dropped
        /\ todo' = [todo EXCEPT ![Recv] = Tail(@)]
        /\ UNCHANGED <<running, left, scan, query, seqmap, chan, blocked, bus, process>>

\* sandcproxy.run: the list of expired numbers (in the order of pairs()) is made
\* before the first write.
Due == expired \intersect seqmap
timer_scan ==
  /\ Runs(Timer) /\ scan
  /\ \E s \in [1..Cardinality(Due) -> Due] :
       /\ \A q \in Due : \E i \in DOMAIN s : s[i] = q
       /\ todo' = [todo EXCEPT ![Timer] = s]
  /\ scan' = FALSE
  /\ UNCHANGED <<running, left, query, seqmap, chan, blocked, bus, process>>

timer_step ==
  /\ Runs(Timer) /\ ~scan /\ blocked[Timer] = None /\ todo[Timer] # <<>>
  /\ LET q == Head(todo[Timer]) IN
     \/ q \in seqmap /\ write(Timer, q)
     \/ q \notin seqmap /\ Dies                             \* out_seq_map[seq] is nil

\* The thread's loop is over: it waits for data, or sleeps a second.
writer_idle(x) ==
  /\ Runs(x) /\ blocked[x] = None /\ todo[x] = <<>> /\ ~(x = Timer /\ scan)
  /\ running' = Tail(running) /\ left' = left - 1
  /\ UNCHANGED <<scan, query, seqmap, chan, todo, blocked, bus, process>>

-----------------------------------------------------------------------------
\* The peer answers a request that has been published, possibly more than once;
\* answers are lost, delayed and reordered.
answer(q) ==
  /\ query[q].pc # "new" /\ asked[q] < MaxAnswers
  /\ answers' = [answers EXCEPT ![q] = @ + 1] /\ asked' = [asked EXCEPT ![q] = @ + 1]
  /\ UNCHANGED <<running, left, scan, query, seqmap, chan, todo, blocked, expired, process>>

\* A chunk of data with one or two answers wakes the receiving thread.
Idle(x) == blocked[x] = None /\ todo[x] = <<>> /\ ~InList(x)
Chunks == {<<q>> : q \in Queries} \union {<<p, q>> : p, q \in Queries}
Count(s, q) == Cardinality({i \in DOMAIN s : s[i] = q})

receive(s) ==
  /\ BetweenRounds /\ Idle(Recv)
  /\ \A q \in Queries : Count(s, q) <= answers[q]
  /\ answers' = [q \in Queries |-> answers[q] - Count(s, q)]
  /\ todo' = [todo EXCEPT ![Recv] = s] /\ running' = Woken(running, Recv)
  /\ UNCHANGED <<left, scan, query, seqmap, chan, blocked, expired, asked, process>>

expire(q) ==
  /\ query[q].pc \in {"publish", "read"} /\ q \notin expired
  /\ expired' = expired \union {q}
  /\ UNCHANGED <<running, left, scan, query, seqmap, chan, todo, blocked, answers, asked, process>>

\* The sleep of the timer thread is over.
tick ==
  /\ BetweenRounds /\ Idle(Timer)
  /\ scan' = TRUE /\ running' = Woken(running, Timer)
  /\ UNCHANGED <<left, query, seqmap, chan, todo, blocked, bus, process>>

\* The prepare hook starts a round.
Round == Len(running)
round ==
  /\ BetweenRounds /\ running # <<>> /\ left' = Round
  /\ UNCHANGED <<running, scan, query, seqmap, chan, todo, blocked, bus, process>>

Run ==
  \/ \E q \in Queries : query_run(q)
  \/ \E x \in Writers : write_resumed(x) \/ writer_idle(x)
  \/ recv_step \/ timer_scan \/ timer_step \/ round

Next ==
  \/ Run \/ tick
  \/ \E q \in Queries : query_start(q) \/ published(q) \/ answer(q) \/ expire(q)
  \/ \E s \in Chunks : receive(s)

\* Woken threads run, time passes, the timer thread wakes up every second and the
\* local socket takes the request.  Nothing is assumed of the peer.
Fairness ==
  /\ WF_vars(Run) /\ WF_vars(tick)
  /\ \A q \in Queries : WF_vars(published(q)) /\ WF_vars(expire(q))
Spec == Init /\ [][Next]_vars /\ Fairness

-----------------------------------------------------------------------------
\* A query that is over has left nothing behind that a late or repeated answer
\* could reach, and one that is not is registered.
RegisteredWhileWaiting ==
  \A q \in Queries : q \in seqmap <=> query[q].pc \in {"publish", "read"}

\* A thread that waits for room in the channel of a query that has returned is
\* about to run.
WriterReleased ==
  process = "up" => \A x \in Writers :
    blocked[x] # None /\ chan[blocked[x]].active = "no" => InList(x)

\* A query whose channel holds an item is about to run or still publishes.
ReaderWoken ==
  process = "up" => \A q \in Queries :
    query[q].pc = "read" /\ chan[q].list # <<>> => InList(q)

\* No end of a channel is left waiting for what has happened: an answer wakes the
\* query, and closing the channel of a query that returned releases the receiving
\* thread, which may be blocked on it by a repeated answer.
NoWakeupLost == WriterReleased /\ ReaderWoken

\* What NoWakeupLost rests on: a channel is closed by the end of its query only, and
\* a thread that waits for room in a channel is the one the channel would wake, in
\* the middle of its loop.
WaitInv ==
  /\ \A q \in Queries : chan[q].active = "no" => query[q].pc = "done"
  /\ \A x \in Writers : blocked[x] # None => chan[blocked[x]].w = x /\ todo[x] # <<>>
  /\ scan => blocked[Timer] = None

\* Answers on their way have been sent.
AnswersInv == \A q \in Queries : answers[q] <= asked[q]

\* Every query returns, with an answer or with a timeout, whatever the peer does
\* (or the process ends).
QueryReturns ==
  \A q \in Queries : query[q].pc = "publish" ~> (query[q].pc = "done" \/ process = "down")

\* The receiving thread never stays blocked by a query that does not take its
\* answer: the bus is read again.
ReceiverReturns == ~Idle(Recv) ~> (Idle(Recv) \/ process = "down")

\* No assert fails: each channel has one writer ("promise only one writer
\* routine"), although two threads write to it.
NoCrash == process = "up"
=============================================================================
