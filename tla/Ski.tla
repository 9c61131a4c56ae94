-------------------------------- MODULE Ski --------------------------------
(***************************************************************************)
(* The coroutine scheduler and the channels of ski (ski/core.lua), on      *)
(* which every Lua service runs.  A coroutine runs until it yields; the    *)
(* libuv prepare hook resumes the threads that were in ski_running_list    *)
(* when it started, and timers fire between two such rounds.               *)
(***************************************************************************)
EXTENDS Naturals, Sequences, FiniteSets

CONSTANTS
  Threads, Chans, NoThread, NoChan,
  Main,          \* the thread run() starts
  MaxLen,        \* MaxLen[c]: new_chan's argument
  Readers,       \* Readers[c]: the threads that read channel c
  Writers,       \* Writers[c]: the threads that write it
  Closers,       \* Closers[c]: the threads that close it
  MaxMsgs        \* bound: messages written to one channel

ASSUME SkiAssumption ==
  /\ NoThread \notin Threads /\ NoChan \notin Chans /\ Main \in Threads
  /\ MaxLen \in [Chans -> Nat \ {0}] /\ MaxMsgs \in Nat
  /\ Readers \in [Chans -> SUBSET Threads] /\ Writers \in [Chans -> SUBSET Threads]
  /\ Closers \in [Chans -> SUBSET Threads]

VARIABLES
  thread,    \* per thread: life, sig_type, wait_seq, chan_map, timer, where it stopped
  chan,      \* per channel: active, list, reader and writer
  running,   \* ski_running_list
  left,      \* threads the current round of the prepare hook still resumes
  cur,       \* ski_cur_thread
  process,   \* a failed assert ends the process
  sent, recv \* history: messages put into and taken out of each channel

vars == <<thread, chan, running, left, cur, process, sent, recv>>

\* at: the call the coroutine is in.  sig and pend: sig_type[1] and sig_type[2].
Thread == [life: {"none", "live", "dead"}, sig: {"none", "self", "chan"}, pend: {"no", "yes"},
           wait: Chans \union {NoChan}, at: {"run", "read", "write", "sleep", "exit"},
           chans: SUBSET Chans, timer: {"off", "armed"}]
Chan == [active: {"no", "yes"}, list: Seq(1..MaxMsgs), r: Threads \union {NoThread},
         w: Threads \union {NoThread}]

TypeOK ==
  /\ thread \in [Threads -> Thread] /\ chan \in [Chans -> Chan]
  /\ running \in Seq(Threads) /\ left \in Nat /\ left <= Len(running)
  /\ cur \in Threads \union {NoThread} /\ process \in {"running", "failed", "exited"}
  /\ sent \in [Chans -> 0..MaxMsgs] /\ recv \in [Chans -> 0..MaxMsgs]

InList(t) == \E i \in DOMAIN running : running[i] = t
Active(c) == chan[c].active = "yes"

-----------------------------------------------------------------------------
\* new_thread: sig_type is {yt_self, false}, so that the first wakeup starts it.
NewThread == [life |-> "live", sig |-> "self", pend |-> "no", wait |-> NoChan, at |-> "run",
              chans |-> {}, timer |-> "off"]

\* wakeup_common: T and Q are the threads and the running list when it is called.
WakeupAlways(T, t, sig) == T[t].sig = sig      \* mutant: pending flag not tested
Wakeup(T, t, sig) == T[t].sig = sig /\ T[t].pend = "no"
WakeT(T, t, sig) == IF Wakeup(T, t, sig) THEN [T EXCEPT ![t].pend = "yes"] ELSE T
WakeQ(T, Q, t, sig) == IF Wakeup(T, t, sig) THEN Append(Q, t) ELSE Q

\* wakeup_chan: wakes the other end if that is what it waits for.
WaitsForAny(T, t, c) == t # NoThread            \* mutant: wait_seq not compared
WaitsFor(T, t, c) == t # NoThread /\ T[t].wait = c
WakeChanT(T, t, c) == IF WaitsFor(T, t, c) THEN WakeT(T, t, "chan") ELSE T
WakeChanQ(T, Q, t, c) == IF WaitsFor(T, t, c) THEN WakeQ(T, Q, t, "chan") ELSE Q

Init ==
  /\ thread = WakeT([t \in Threads |-> [NewThread EXCEPT !.life = IF t = Main THEN "live"
                                                                  ELSE "none"]], Main, "self")
  /\ chan = [c \in Chans |-> [active |-> "yes", list |-> <<>>, r |-> NoThread, w |-> NoThread]]
  /\ running = <<Main>> /\ left = 0 /\ cur = NoThread /\ process = "running"
  /\ sent = [c \in Chans |-> 0] /\ recv = [c \in Chans |-> 0]

AssertFails == process' = "failed" /\ UNCHANGED <<thread, chan, running, left, cur, sent, recv>>

\* chan_yield / yield: the coroutine stops and the round goes on.
Yield(T, t, at, sig, c) ==
  [T EXCEPT ![t].at = at, ![t].sig = sig, ![t].wait = c]

-----------------------------------------------------------------------------
\* What the running coroutine does.
Runs(t) == cur = t /\ process = "running" /\ thread[t].at = "run"

\* go(f): starts a thread.
go(t, u) ==
  /\ Runs(t) /\ thread[u].life = "none"
  /\ LET T == [thread EXCEPT ![u] = NewThread] IN
     /\ thread' = WakeT(T, u, "self") /\ running' = WakeQ(T, running, u, "self")
  /\ UNCHANGED <<chan, left, cur, process, sent, recv>>

\* The first read (write) makes the thread the channel's only reader (writer).
MayUse(c, t, old) == old = t \/ (old = NoThread /\ c \notin thread[t].chans)
Registered(c, t) == [thread EXCEPT ![t].chans = @ \union {c}]

\* chan:read up to its return or its yield.
read(t, c) ==
  /\ Runs(t) /\ Active(c) /\ t \in Readers[c]
  /\ \/ ~MayUse(c, t, chan[c].r) /\ AssertFails
     \/ /\ MayUse(c, t, chan[c].r)
        /\ LET T == Registered(c, t)
               W == WakeChanT(T, chan[c].w, c)
           IN
           /\ running' = WakeChanQ(T, running, chan[c].w, c)
           /\ \/ /\ chan[c].list # <<>>
                 /\ chan' = [chan EXCEPT ![c].r = t, ![c].list = Tail(@)]
                 /\ recv' = [recv EXCEPT ![c] = Head(chan[c].list)]
                 /\ thread' = W /\ UNCHANGED cur
              \/ /\ chan[c].list = <<>>
                 /\ chan' = [chan EXCEPT ![c].r = t]
                 /\ thread' = Yield(W, t, "read", "chan", c)
                 /\ cur' = NoThread /\ UNCHANGED recv
        /\ UNCHANGED <<left, process, sent>>

\* The rest of chan:read after its yield.
read_resumed(t) ==
  LET c == thread[t].wait
      T == [thread EXCEPT ![t].wait = NoChan, ![t].at = "run"]
  IN
  /\ cur = t /\ process = "running" /\ thread[t].at = "read"
  /\ \/ ~Active(c) /\ thread' = T /\ UNCHANGED <<chan, running, recv, process>>   \* "close"
     \/ /\ Active(c) /\ chan[c].list # <<>> /\ chan[c].w # NoThread
        /\ thread' = WakeChanT(T, chan[c].w, c) /\ running' = WakeChanQ(T, running, chan[c].w, c)
        /\ chan' = [chan EXCEPT ![c].list = Tail(@)]
        /\ recv' = [recv EXCEPT ![c] = Head(chan[c].list)]
        /\ UNCHANGED process
     \/ /\ Active(c) /\ (chan[c].list = <<>> \/ chan[c].w = NoThread)
        /\ process' = "failed" /\ UNCHANGED <<thread, chan, running, recv>>
  /\ UNCHANGED <<left, cur, sent>>

RoomForOneMore(c) == Len(chan[c].list) <= MaxLen[c]   \* mutant: one too many
HasRoom(c) == Len(chan[c].list) < MaxLen[c]

\* chan:write up to its return or its yield.  Messages are numbered.
write(t, c) ==
  /\ Runs(t) /\ Active(c) /\ t \in Writers[c] /\ sent[c] < MaxMsgs
  /\ \/ ~MayUse(c, t, chan[c].w) /\ AssertFails
     \/ /\ MayUse(c, t, chan[c].w)
        /\ LET T == Registered(c, t)
               W == WakeChanT(T, chan[c].r, c)
           IN
           /\ running' = WakeChanQ(T, running, chan[c].r, c)
           /\ \/ /\ HasRoom(c)
                 /\ chan' = [chan EXCEPT ![c].w = t, ![c].list = Append(@, sent[c] + 1)]
                 /\ sent' = [sent EXCEPT ![c] = @ + 1]
                 /\ thread' = W /\ UNCHANGED cur
              \/ /\ ~HasRoom(c)
                 /\ chan' = [chan EXCEPT ![c].w = t]
                 /\ thread' = Yield(W, t, "write", "chan", c)
                 /\ cur' = NoThread /\ UNCHANGED sent
        /\ UNCHANGED <<left, process, recv>>

\* The rest of chan:write after its yield; the length is not tested again.
write_resumed(t) ==
  LET c == thread[t].wait
      T == [thread EXCEPT ![t].wait = NoChan, ![t].at = "run"]
  IN
  /\ cur = t /\ process = "running" /\ thread[t].at = "write"
  /\ \/ ~Active(c) /\ thread' = T /\ UNCHANGED <<chan, running, sent, process>>   \* "close"
     \/ /\ Active(c) /\ chan[c].r # NoThread
        /\ thread' = WakeChanT(T, chan[c].r, c) /\ running' = WakeChanQ(T, running, chan[c].r, c)
        /\ chan' = [chan EXCEPT ![c].list = Append(@, sent[c] + 1)]
        /\ sent' = [sent EXCEPT ![c] = @ + 1]
        /\ UNCHANGED process
     \/ /\ Active(c) /\ chan[c].r = NoThread
        /\ process' = "failed" /\ UNCHANGED <<thread, chan, running, sent>>
  /\ UNCHANGED <<left, cur, recv>>

\* thread:unregister(chan) for both ends, the reader first.
Unregister(T, t, c) ==
  IF t # NoThread /\ c \in T[t].chans
  THEN WakeChanT([T EXCEPT ![t].chans = @ \ {c}], t, c) ELSE T
UnregisterQ(T, Q, t, c) ==
  IF t # NoThread /\ c \in T[t].chans THEN WakeChanQ(T, Q, t, c) ELSE Q

\* chan:close on threads T.
CloseChan(T, c) ==
  LET R == Unregister(T, chan[c].r, c) IN
  /\ thread' = Unregister(R, chan[c].w, c)
  /\ running' = UnregisterQ(R, UnregisterQ(T, running, chan[c].r, c), chan[c].w, c)
  /\ chan' = [chan EXCEPT ![c] = [active |-> "no", list |-> <<>>, r |-> NoThread, w |-> NoThread]]

close(t, c) ==
  /\ Runs(t) /\ Active(c) /\ t \in Closers[c]
  /\ CloseChan(thread, c) /\ UNCHANGED <<left, cur, process, sent, recv>>

\* sleep: the thread's timer is started; so is a libuv request of ski.tcp and the like.
sleep(t) ==
  /\ Runs(t)
  /\ thread' = [Yield(thread, t, "sleep", "self", NoChan) EXCEPT ![t].timer = "armed"]
  /\ cur' = NoThread /\ UNCHANGED <<chan, running, left, process, sent, recv>>

sleep_resumed(t) ==
  /\ cur = t /\ process = "running" /\ thread[t].at = "sleep"
  /\ thread' = [thread EXCEPT ![t].at = "run"]
  /\ UNCHANGED <<chan, running, left, cur, process, sent, recv>>

\* The coroutine returns; thread:close closes the channels it is registered with,
\* in any order.
exit(t) ==
  /\ Runs(t)
  /\ thread' = [thread EXCEPT ![t].at = "exit"]
  /\ UNCHANGED <<chan, running, left, cur, process, sent, recv>>

exit_chan(t, c) ==
  /\ cur = t /\ process = "running" /\ thread[t].at = "exit" /\ c \in thread[t].chans
  /\ CloseChan(thread, c) /\ UNCHANGED <<left, cur, process, sent, recv>>

exit_end(t) ==
  /\ cur = t /\ process = "running" /\ thread[t].at = "exit" /\ thread[t].chans = {}
  /\ thread' = [thread EXCEPT ![t].life = "dead"]
  /\ cur' = NoThread /\ UNCHANGED <<chan, running, left, process, sent, recv>>

-----------------------------------------------------------------------------
\* The event loop.

\* A round of the prepare hook resumes as many threads as there are now.
RoundTooShort == Len(running) - 1                  \* mutant: off by one
Round == Len(running)
prepare ==
  /\ cur = NoThread /\ left = 0 /\ process = "running"
  /\ \/ /\ running # <<>> /\ left' = Round /\ UNCHANGED process
     \/ /\ \A t \in Threads : thread[t].life # "live"            \* os.exit(0)
        /\ process' = "exited" /\ UNCHANGED left
  /\ UNCHANGED <<thread, chan, running, cur, sent, recv>>

ClearNoPend(T, t) == [T EXCEPT ![t].sig = "none"]   \* mutant: the flag stays set
ClearSig(T, t) == [T EXCEPT ![t].sig = "none", ![t].pend = "no"]

resume ==
  /\ cur = NoThread /\ left > 0 /\ process = "running"
  /\ cur' = Head(running) /\ running' = Tail(running) /\ left' = left - 1
  /\ thread' = ClearSig(thread, Head(running))
  /\ UNCHANGED <<chan, process, sent, recv>>

\* A timer fires between two rounds.
timer(t) ==
  /\ cur = NoThread /\ left = 0 /\ process = "running" /\ thread[t].timer = "armed"
  /\ LET T == [thread EXCEPT ![t].timer = "off"] IN
     /\ thread' = WakeT(T, t, "self") /\ running' = WakeQ(T, running, t, "self")
  /\ UNCHANGED <<chan, left, cur, process, sent, recv>>

Coroutine(t) ==
  \/ \E u \in Threads : go(t, u)
  \/ \E c \in Chans : read(t, c) \/ write(t, c) \/ close(t, c) \/ exit_chan(t, c)
  \/ read_resumed(t) \/ write_resumed(t) \/ sleep(t) \/ sleep_resumed(t)
  \/ exit(t) \/ exit_end(t)

Next ==
  \/ prepare \/ resume
  \/ \E t \in Threads : Coroutine(t) \/ timer(t)

\* A coroutine that runs goes on, the loop turns (imme_timer keeps it from
\* blocking while threads are runnable) and timers fire.
Fairness ==
  /\ \A t \in Threads : WF_vars(Coroutine(t)) /\ WF_vars(timer(t))
  /\ WF_vars(prepare) /\ WF_vars(resume)
Spec == Init /\ [][Next]_vars /\ Fairness

-----------------------------------------------------------------------------
\* A thread is in ski_running_list at most once, exactly when its pending flag
\* is set, and never once it is dead: wakeup_common may be called any number of
\* times before the thread is resumed.
RunningOnce ==
  /\ \A i, j \in DOMAIN running : running[i] = running[j] => i = j
  /\ \A t \in Threads : InList(t) <=> thread[t].pend = "yes"
  /\ \A t \in Threads : InList(t) => thread[t].life = "live" /\ t # cur

\* No lost wakeup: a reader that waits for a channel which has data or is closed,
\* and a writer that waits for one which has room or is closed, is about to be
\* resumed.
WakeupKept ==
  \A t \in Threads :
    LET c == thread[t].wait IN
    /\ c # NoChan /\ ~Active(c) => InList(t) \/ cur = t
    /\ thread[t].at = "read" /\ Active(c) /\ chan[c].list # <<>> => InList(t) \/ cur = t
    /\ thread[t].at = "write" /\ Active(c) /\ Len(chan[c].list) < MaxLen[c] => InList(t) \/ cur = t

\* A channel delivers in order, without loss or duplication, and holds no more
\* than its bound although a resumed writer does not test the length again.
Fifo ==
  \A c \in Chans : Active(c) =>
    /\ Len(chan[c].list) <= MaxLen[c]
    /\ recv[c] + Len(chan[c].list) = sent[c]
    /\ \A i \in DOMAIN chan[c].list : chan[c].list[i] = recv[c] + i

\* What the debug timer asserts: channels and threads know each other.
on_debug ==
  /\ \A c \in Chans : Active(c) => \A t \in {chan[c].r, chan[c].w} \ {NoThread} :
       c \in thread[t].chans /\ thread[t].life = "live"
  /\ \A t \in Threads : \A c \in thread[t].chans : t \in {chan[c].r, chan[c].w}

\* No assert of core.lua fails while every channel has one reader and one other
\* writer, those of the debug timer included, whenever it fires.
NoAssertFails == process # "failed" /\ on_debug

\* A runnable thread is resumed: the round-by-round loop starves nobody.
Resumed == \A t \in Threads : InList(t) ~> cur = t

-----------------------------------------------------------------------------
\* What RunningOnce, WakeupKept, Fifo and NoAssertFails rest on.
Waiting(t) == thread[t].at \in {"read", "write"}

\* Where a coroutine stopped says which wakeup it takes: one that waits for a channel
\* takes wakeup_chan only, one that runs or is dead none at all.
ThreadInv ==
  /\ \A t \in Threads :
       /\ thread[t].life = "none" => /\ thread[t].chans = {} /\ thread[t].timer = "off"
                                     /\ ~Waiting(t)
       /\ thread[t].life = "dead" => thread[t].sig = "none" /\ ~Waiting(t)
       /\ thread[t].wait # NoChan <=> Waiting(t)
       /\ Waiting(t) /\ t # cur => thread[t].sig = "chan"
  /\ cur # NoThread => thread[cur].life = "live" /\ thread[cur].sig = "none"

\* A thread that waits for an open channel is the end of it that the channel wakes,
\* and no thread is both ends.
EndsInv ==
  /\ \A c \in Chans :
       /\ chan[c].r # NoThread => chan[c].r # chan[c].w
       /\ chan[c].r \in Readers[c] \union {NoThread} /\ chan[c].w \in Writers[c] \union {NoThread}
  /\ \A t \in Threads : \A c \in Chans : thread[t].wait = c /\ Active(c) =>
       /\ thread[t].at = "read" => chan[c].r = t
       /\ thread[t].at = "write" => chan[c].w = t /\ sent[c] < MaxMsgs

\* A wakeup is not spurious: what a woken end of a channel waited for is still so
\* when it goes on, for nobody else takes the item or the room.
ReadyInv ==
  \A t \in Threads : \A c \in Chans :
    thread[t].wait = c /\ Active(c) /\ (InList(t) \/ cur = t) =>
      /\ thread[t].at = "read" => chan[c].list # <<>> /\ chan[c].w # NoThread
      /\ thread[t].at = "write" => Len(chan[c].list) < MaxLen[c] /\ chan[c].r # NoThread

\* Every channel has one reader and one writer, two threads: what the comments of
\* core.lua ask of its users.
OneReaderOneWriter ==
  \A c \in Chans :
    /\ \A t, u \in Readers[c] : t = u
    /\ \A t, u \in Writers[c] : t = u
    /\ Readers[c] \intersect Writers[c] = {}
=============================================================================
