---------------------------- MODULE SandsProofs ----------------------------
(***************************************************************************)
(* Proofs about the broker, for any number of clients, ids and topics.     *)
(***************************************************************************)
EXTENDS Sands, FiniteSetTheorems, TLAPS

-----------------------------------------------------------------------------
\* Pushing a frame and popping one keep a stack of frames a stack of frames.
LEMMA PushType ==
  ASSUME NEW S, NEW x \in S, NEW rest \in Seq(S)
  PROVE  <<x>> \o rest \in Seq(S)
  OBVIOUS

LEMMA PopType ==
  ASSUME NEW S, NEW s \in Seq(S), s # <<>>
  PROVE  Head(s) \in S /\ Tail(s) \in Seq(S)
  OBVIOUS

\* do_publish returns a stack of frames.
LEMMA do_publishType ==
  ASSUME NEW topic \in Topics \union {NoTopic}, NEW rest \in Seq(PubFrame)
  PROVE  do_publish(topic, rest) \in Seq(PubFrame)
<1>1. CASE topic = NoTopic
  BY <1>1 DEF do_publish
<1>2. CASE topic # NoTopic
  <2>1. [topic |-> topic, seen |-> {}] \in PubFrame
    BY <1>2 DEF PubFrame
  <2>. QED BY <1>2, <2>1, PushType DEF do_publish
<1>. QED BY <1>1, <1>2

\* close_client keeps the types, whatever the stack it is called from.
LEMMA close_clientType ==
  ASSUME TypeOK, NEW fd \in Fds, NEW rest \in Seq(PubFrame), close_client(fd, rest),
         call' \in Call, call'.pc # "idle" => call'.fd \in Fds
  PROVE  TypeOK'
<1> DEFINE m == clientmap[fd].param
<1>1. m \in Param /\ Closed \in Client
  BY DEF TypeOK, Client, Closed, Param, NoParam
<1>2. do_publish(m.wt, rest) \in Seq(PubFrame)
  BY <1>1, do_publishType DEF Param
<1>3. clientmap' \in [Fds -> Client]
  BY <1>1 DEF TypeOK, close_client
<1>4. topic2client' \in [Topics -> SUBSET Fds]
  BY DEF TypeOK, close_client, Unregister, registry
<1>5. clientid2fd' \in [Ids -> Fds \union {NoFd}]
  BY DEF TypeOK, close_client, ForgetId, registry
<1>6. pubs' \in Seq(PubFrame) /\ process' \in {"running", "crashed"}
  BY <1>2 DEF TypeOK, close_client
<1>. QED BY <1>3, <1>4, <1>5, <1>6 DEF TypeOK

\* A Lua error keeps the types.
LEMMA CrashType == TypeOK /\ Crash => TypeOK'
  BY DEF TypeOK, Crash, registry

\* The command at the head of the batch and the rest of the batch.
LEMMA DispatchType ==
  ASSUME TypeOK, NEW id, Dispatch(id)
  PROVE  /\ Head(call.cmds) \in Commands /\ Tail(call.cmds) \in Seq(Commands)
         /\ call.fd \in Fds /\ pubs = <<>>
  BY PopType DEF TypeOK, Call, Dispatch, InLoop

LEMMA ContinueType ==
  ASSUME TypeOK, NEW id, Dispatch(id), NEW pc \in {"loop", "cn", "fail"}, Continue(pc)
  PROVE  /\ call' \in Call /\ call'.fd \in Fds /\ call'.fd = call.fd
         /\ call'.pc = pc /\ call'.cmds = Tail(call.cmds)
  BY DispatchType DEF TypeOK, Call, Continue

\* Only a connect command has the id "cn", only a publish has "pb".
LEMMA CommandType ==
  ASSUME NEW c \in Commands
  PROVE  /\ c.id = "cn" => c \in Connects /\ c \in ConnectCmd
         /\ c.id = "pb" => c \in PublishCmd
  BY ConstantsAssumption DEF Commands, PublishCmd, PlainCmd, ConnectCmd

\* The types of the broker's maps and stacks, for every step.
LEMMA TypeStep == TypeOK /\ [Next]_vars => TypeOK'
<1> SUFFICES ASSUME TypeOK, [Next]_vars PROVE TypeOK'
  OBVIOUS
<1>e. <<>> \in Seq(PubFrame)
  OBVIOUS
<1>1. ASSUME NEW fd \in Fds, on_connection(fd) PROVE TypeOK'
  BY <1>1 DEF TypeOK, on_connection, registry, Client, Param, NoParam
<1>2. ASSUME NEW fd \in Fds, on_read_end(fd) \/ on_timeout(fd) \/ on_invalid_data(fd)
      PROVE TypeOK'
  BY <1>2, <1>e, close_clientType DEF on_read_end, on_timeout, on_invalid_data, TypeOK
<1>3. ASSUME NEW fd \in Fds, NEW cmds \in Batches, on_client_data(fd, cmds) PROVE TypeOK'
  <2>1. cmds \in Seq(Commands)
    BY ConstantsAssumption
  <2>2. clientmap' \in [Fds -> Client]
    BY <1>3 DEF TypeOK, on_client_data, Client
  <2>. QED BY <1>3, <2>1, <2>2 DEF TypeOK, on_client_data, registry, Call
<1>4. CASE cn
  <2> DEFINE m == Head(call.cmds)
  <2>0. Dispatch("cn")
    BY <1>4 DEF cn
  <2>1. m \in ConnectCmd /\ call.fd \in Fds
    BY <2>0, DispatchType, CommandType DEF Dispatch
  <2>2. ASSUME NEW form \in {"string", "table"},
               clientmap' = [clientmap EXCEPT ![call.fd].param = StoredParam(m, form)]
        PROVE  clientmap' \in [Fds -> Client]
    <3>1. StoredParam(m, form) \in Param
      BY <2>1 DEF ConnectCmd, StoredParam, Param
    <3>. QED BY <2>1, <2>2, <3>1 DEF TypeOK, Client
  <2>3. CASE ~Live(call.fd) /\ Crash
    BY <2>3, CrashType
  <2>4. CASE process' = process /\ Continue("fail") /\ pubs' = pubs
             /\ clientmap' = clientmap /\ UNCHANGED registry
    BY <2>0, <2>4, ContinueType DEF TypeOK, registry
  <2>5. CASE process' = process /\ Continue("fail") /\ pubs' = pubs /\ UNCHANGED registry
             /\ clientmap' = [clientmap EXCEPT ![call.fd].param = StoredParam(m, "string")]
    BY <2>0, <2>2, <2>5, ContinueType DEF TypeOK, registry
  <2>6. CASE /\ process' = process
             /\ check_param(m)
             /\ topic2client' = Register(call.fd, m.tp)
             /\ \E form \in {"string", "table"} :
                  clientmap' = [clientmap EXCEPT ![call.fd].param = StoredParam(m, form)]
             /\ \/ Continue("fail") /\ UNCHANGED <<clientid2fd, pubs>>
                \/ /\ Continue("cn") /\ pubs' = do_publish(m.ct, <<>>)
                   /\ clientid2fd' = [clientid2fd EXCEPT ![m.cd] = call.fd]
    <3>1. topic2client' \in [Topics -> SUBSET Fds]
      BY <2>1, <2>6 DEF Register, TypeOK
    <3>2. clientmap' \in [Fds -> Client]
      BY <2>2, <2>6
    <3>3. clientid2fd' \in [Ids -> Fds \union {NoFd}]
      BY <2>1, <2>6 DEF TypeOK
    <3>4. pubs' \in Seq(PubFrame)
      <4>1. m.ct \in Topics \union {NoTopic}
        BY <2>1 DEF ConnectCmd
      <4>2. do_publish(m.ct, <<>>) \in Seq(PubFrame)
        BY <4>1, <1>e, do_publishType
      <4>. QED BY <2>6, <4>2 DEF TypeOK
    <3>5. call' \in Call /\ call'.fd \in Fds
      BY <2>0, <2>6, ContinueType
    <3>. QED BY <2>6, <3>1, <3>2, <3>3, <3>4, <3>5 DEF TypeOK
  <2>. QED BY <1>4, <2>3, <2>4, <2>5, <2>6 DEF cn, registry
<1>5. CASE cn_finish
  <2>1. CASE Crash
    BY <2>1, CrashType
  <2>2. CASE ~Crash
    <3>1. call.fd \in Fds
      BY <1>5 DEF cn_finish, TypeOK
    <3>2. clientmap' \in [Fds -> Client]
      BY <1>5, <2>2, <3>1 DEF cn_finish, TypeOK, Client
    <3>. QED BY <1>5, <2>2, <3>1, <3>2 DEF cn_finish, TypeOK, registry, Call
  <2>. QED BY <2>1, <2>2
<1>6. CASE dc
  BY <1>6, <1>e, close_clientType, ContinueType, DispatchType DEF dc
<1>7. CASE pb
  <2>1. Dispatch("pb")
    BY <1>7 DEF pb
  <2>2. Head(call.cmds) \in PublishCmd
    BY <2>1, DispatchType, CommandType DEF Dispatch
  <2>3. do_publish(Head(call.cmds).tp, <<>>) \in Seq(PubFrame)
    BY <2>2, <1>e, do_publishType DEF PublishCmd
  <2>4. CASE Crash
    BY <2>4, CrashType
  <2>5. CASE ~Crash
    BY <1>7, <2>1, <2>3, <2>5, ContinueType DEF pb, TypeOK, registry
  <2>. QED BY <2>4, <2>5
<1>8. CASE pi
  <2>1. CASE Crash
    BY <2>1, CrashType
  <2>2. CASE ~Crash
    BY <1>8, <2>2, ContinueType DEF pi, TypeOK, registry
  <2>. QED BY <2>1, <2>2
<1>9. CASE unknown
  BY <1>9, ContinueType DEF unknown, TypeOK, registry
<1>10. CASE fail
  <2>1. call.fd \in Fds /\ Idle \in Call
    BY <1>10 DEF fail, TypeOK, Idle, Call
  <2>. QED BY <1>10, <2>1, <1>e, close_clientType DEF fail, Idle
<1>11. CASE data_end
  <2>1. CASE Crash
    BY <2>1, CrashType
  <2>2. CASE ~Crash
    <3>1. call.fd \in Fds /\ Idle \in Call
      BY <1>11 DEF data_end, InLoop, TypeOK, Idle, Call
    <3>2. clientmap' \in [Fds -> Client]
      BY <1>11, <2>2, <3>1 DEF data_end, RestartTimer, TypeOK, Client
    <3>. QED BY <1>11, <2>2, <3>1, <3>2 DEF data_end, TypeOK, registry, Idle
  <2>. QED BY <2>1, <2>2
<1>12. ASSUME NEW fd \in Fds, publish_write(fd) PROVE TypeOK'
  <2>1. Marked(fd) \in Seq(PubFrame)
    <3>1. Head(pubs) \in PubFrame /\ Tail(pubs) \in Seq(PubFrame)
      BY <1>12, PopType DEF TypeOK, publish_write
    <3>2. [Head(pubs) EXCEPT !.seen = @ \union {fd}] \in PubFrame
      BY <3>1 DEF PubFrame
    <3>. QED BY <3>1, <3>2, PushType DEF Marked
  <2>2. CASE Crash
    BY <2>2, CrashType
  <2>3. CASE pubs' = Marked(fd) /\ UNCHANGED <<clientmap, registry, process>>
    BY <1>12, <2>1, <2>3 DEF publish_write, TypeOK, registry
  <2>4. CASE close_client(fd, Marked(fd))
    BY <1>12, <2>1, <2>4, close_clientType DEF publish_write, TypeOK
  <2>. QED BY <1>12, <2>2, <2>3, <2>4 DEF publish_write
<1>13. CASE publish_end
  BY <1>13, PopType DEF publish_end, TypeOK, registry
<1>14. CASE UNCHANGED vars
  BY <1>14 DEF vars, TypeOK
<1>. QED BY <1>1, <1>2, <1>3, <1>4, <1>5, <1>6, <1>7, <1>8, <1>9, <1>10, <1>11, <1>12,
            <1>13, <1>14 DEF Next, Event, Step

\* Every reachable state of the broker is of the declared types, for every input
\* and every failing write.
THEOREM TypeCorrect == Spec => []TypeOK
<1>1. Init => TypeOK
  BY DEF Init, TypeOK, Client, Param, Closed, NoParam, Idle, Call
<1>. QED BY <1>1, TypeStep, PTL DEF Spec

-----------------------------------------------------------------------------
\* close_client touches nothing of the other clients.
LEMMA close_clientOthers ==
  ASSUME TypeOK, NEW fd \in Fds, NEW rest, close_client(fd, rest)
  PROVE  /\ \A g \in Fds : g # fd => clientmap'[g] = clientmap[g]
         /\ clientmap'[fd].state = "closed"
         /\ \A g \in Fds, t \in Topics :
              g # fd => (g \in topic2client'[t] <=> g \in topic2client[t])
<1>1. \A g \in Fds : g # fd => clientmap'[g] = clientmap[g]
  BY DEF TypeOK, close_client
<1>2. clientmap'[fd].state = "closed"
  BY DEF TypeOK, close_client, Live, Closed
<1>3. \A g \in Fds, t \in Topics :
        g # fd => (g \in topic2client'[t] <=> g \in topic2client[t])
  BY DEF TypeOK, close_client, Unregister, registry
<1>. QED BY <1>1, <1>2, <1>3

\* The timer that is off is the one of the client being served.
TimerInv ==
  \A fd \in Fds : Live(fd) /\ clientmap[fd].timer = "off" => call.pc # "idle" /\ fd = call.fd

\* What every step keeps, whatever the inputs.
AnyInv == TypeOK /\ TimerInv /\ SubscriberKept

LEMMA AnyStep == AnyInv /\ [Next]_vars => AnyInv'
<1> SUFFICES ASSUME AnyInv, [Next]_vars PROVE AnyInv'
  OBVIOUS
<1>t. TypeOK /\ TypeOK'
  BY TypeStep DEF AnyInv
<1> SUFFICES TimerInv' /\ SubscriberKept'
  BY <1>t DEF AnyInv
<1>c. ASSUME NEW fd \in Fds, NEW rest, close_client(fd, rest), call' = call \/ fd = call.fd,
             call' # call => call'.fd = call.fd \/ call'.pc = "idle",
             call'.pc = "idle" \/ (call.pc # "idle" /\ call'.pc # "idle")
      PROVE  TimerInv' /\ SubscriberKept'
  <2>1. TimerInv'
    BY <1>t, <1>c, close_clientOthers DEF AnyInv, TimerInv, Live
  <2>2. SubscriberKept'
    BY <1>t, <1>c, close_clientOthers DEF AnyInv, SubscriberKept, HasParam, Live
  <2>. QED BY <2>1, <2>2
<1>k. ASSUME UNCHANGED <<clientmap, topic2client>>,
             call'.pc = call.pc \/ (call.pc # "idle" /\ call'.pc # "idle"), call'.fd = call.fd
      PROVE  TimerInv' /\ SubscriberKept'
  BY <1>k DEF AnyInv, TimerInv, SubscriberKept, HasParam, Live
<1>r. Crash => TimerInv' /\ SubscriberKept'
  BY <1>k DEF Crash, registry
<1>1. ASSUME NEW fd \in Fds, on_connection(fd) PROVE TimerInv' /\ SubscriberKept'
  BY <1>1, <1>t DEF AnyInv, TypeOK, on_connection, registry, TimerInv, SubscriberKept,
     HasParam, Live, NoParam
<1>2. ASSUME NEW fd \in Fds, on_read_end(fd) \/ on_timeout(fd) \/ on_invalid_data(fd)
      PROVE TimerInv' /\ SubscriberKept'
  BY <1>2, <1>c DEF on_read_end, on_timeout, on_invalid_data, Quiet
<1>3. ASSUME NEW fd \in Fds, NEW cmds \in Batches, on_client_data(fd, cmds)
      PROVE TimerInv' /\ SubscriberKept'
  <2>1. /\ \A g \in Fds : clientmap'[g].state = clientmap[g].state
                          /\ clientmap'[g].param = clientmap[g].param
        /\ \A g \in Fds : g # fd => clientmap'[g] = clientmap[g]
    BY <1>3, <1>t DEF on_client_data, TypeOK, Client
  <2>2. call'.fd = fd /\ call'.pc = "loop" /\ call.pc = "idle" /\ topic2client' = topic2client
    BY <1>3 DEF on_client_data, Quiet, registry
  <2>. QED BY <2>1, <2>2 DEF AnyInv, TimerInv, SubscriberKept, HasParam, Live
<1>4. CASE cn
  <2> DEFINE m == Head(call.cmds)
             keep(form) == clientmap' =
               [clientmap EXCEPT ![call.fd].param = StoredParam(m, form)]
  <2>0. Dispatch("cn") /\ call.fd \in Fds
    BY <1>4, <1>t, DispatchType DEF cn
  <2>1. ASSUME NEW pc \in {"cn", "fail"}, Continue(pc)
        PROVE  call'.fd = call.fd /\ call'.pc = pc /\ call.pc # "idle"
    BY <1>t, <2>0, <2>1, ContinueType DEF Dispatch, InLoop
  <2>2. CASE Crash
    BY <2>2, <1>r
  <2>3. CASE Continue("fail") /\ UNCHANGED <<clientmap, registry>>
    BY <2>1, <2>3, <1>k DEF registry
  <2>4. ASSUME NEW form \in {"string", "table"}, keep(form)
        PROVE  /\ \A g \in Fds : g # call.fd => clientmap'[g] = clientmap[g]
               /\ clientmap'[call.fd].state = clientmap[call.fd].state
               /\ clientmap'[call.fd].timer = clientmap[call.fd].timer
               /\ clientmap'[call.fd].param = StoredParam(m, form)
    BY <2>0, <2>4, <1>t DEF TypeOK, Client
  <2>5. CASE keep("string") /\ Continue("fail") /\ UNCHANGED registry
    <3>1. TimerInv'
      BY <2>1, <2>4, <2>5 DEF AnyInv, TimerInv, Live
    <3>2. SubscriberKept'
      BY <2>1, <2>4, <2>5 DEF AnyInv, SubscriberKept, HasParam, Live, registry, StoredParam
    <3>. QED BY <3>1, <3>2
  <2>6. CASE /\ topic2client' = Register(call.fd, m.tp)
             /\ \/ keep("string") /\ Continue("fail")
                \/ keep("table") /\ (Continue("fail") \/ Continue("cn"))
    <3>1. TimerInv'
      BY <2>1, <2>4, <2>6 DEF AnyInv, TimerInv, Live
    <3>2. \A t \in Topics : /\ topic2client[t] \subseteq topic2client'[t]
                            /\ t \in m.tp => call.fd \in topic2client'[t]
      BY <2>6, <1>t DEF Register, TypeOK
    <3>3. SubscriberKept'
      BY <2>4, <2>6, <3>2 DEF AnyInv, SubscriberKept, HasParam, Live, StoredParam
    <3>. QED BY <3>1, <3>3
  <2>. QED BY <1>4, <2>2, <2>3, <2>5, <2>6 DEF cn
<1>5. CASE cn_finish
  <2>1. CASE Crash
    BY <2>1, <1>r
  <2>2. CASE ~Crash
    <3>1. call.fd \in Fds /\ call.pc = "cn"
      BY <1>5, <1>t DEF cn_finish, TypeOK
    <3>2. /\ \A g \in Fds : clientmap'[g].timer = clientmap[g].timer
                            /\ clientmap'[g].param = clientmap[g].param
                            /\ (clientmap'[g].state # "closed" => clientmap[g].state # "closed")
          /\ topic2client' = topic2client
      BY <1>5, <2>2, <3>1, <1>t DEF cn_finish, TypeOK, Client, Live, registry
    <3>3. call'.fd = call.fd /\ call'.pc # "idle"
      BY <1>5, <2>2, <1>t DEF cn_finish, TypeOK, Call
    <3>. QED BY <3>1, <3>2, <3>3 DEF AnyInv, TimerInv, SubscriberKept, HasParam, Live
  <2>. QED BY <2>1, <2>2
<1>6. CASE dc
  <2>1. Dispatch("dc") /\ Continue("fail") /\ close_client(call.fd, <<>>)
    BY <1>6 DEF dc
  <2>2. call'.fd = call.fd /\ call'.pc = "fail" /\ call.pc # "idle" /\ call.fd \in Fds
    BY <2>1, <1>t, ContinueType, DispatchType DEF Dispatch, InLoop
  <2>. QED BY <2>1, <2>2, <1>c
<1>7. CASE pb \/ pi \/ unknown
  <2>1. CASE Crash
    BY <2>1, <1>r
  <2>2. CASE ~Crash
    <3>1. /\ UNCHANGED <<clientmap, topic2client>>
          /\ \E id \in {"pb", "pi", "unknown"} : Dispatch(id)
          /\ \E pc \in {"loop", "fail"} : Continue(pc)
      BY <1>7, <2>2 DEF pb, pi, unknown, registry
    <3>2. call'.fd = call.fd /\ call'.pc # "idle" /\ call.pc # "idle"
      BY <3>1, <1>t, ContinueType DEF Dispatch, InLoop
    <3>. QED BY <3>1, <3>2, <1>k
  <2>. QED BY <2>1, <2>2
<1>8. CASE fail
  <2>1. call.fd \in Fds /\ close_client(call.fd, <<>>) /\ call'.pc = "idle"
    BY <1>8, <1>t DEF fail, TypeOK, Idle
  <2>. QED BY <2>1, <1>c
<1>9. CASE data_end
  <2>1. CASE Crash
    BY <2>1, <1>r
  <2>2. CASE ~Crash
    <3>1. call.fd \in Fds
      BY <1>9, <1>t DEF data_end, InLoop, TypeOK
    <3>2. /\ \A g \in Fds : clientmap'[g].state = clientmap[g].state
                            /\ clientmap'[g].param = clientmap[g].param
          /\ \A g \in Fds : g # call.fd => clientmap'[g].timer = clientmap[g].timer
          /\ clientmap'[call.fd].timer = "armed" /\ topic2client' = topic2client
      BY <1>9, <2>2, <3>1, <1>t DEF data_end, RestartTimer, TypeOK, Client, registry
    <3>. QED BY <3>2 DEF AnyInv, TimerInv, SubscriberKept, HasParam, Live
  <2>. QED BY <2>1, <2>2
<1>10. ASSUME NEW fd \in Fds, publish_write(fd) PROVE TimerInv' /\ SubscriberKept'
  <2>1. CASE Crash
    BY <2>1, <1>r
  <2>2. CASE UNCHANGED <<clientmap, registry, process>>
    BY <1>10, <2>2, <1>k DEF publish_write, registry
  <2>3. CASE close_client(fd, Marked(fd))
    BY <1>10, <2>3, <1>c DEF publish_write
  <2>. QED BY <1>10, <2>1, <2>2, <2>3 DEF publish_write
<1>11. CASE publish_end
  BY <1>11, <1>k DEF publish_end, registry
<1>12. CASE UNCHANGED vars
  BY <1>12, <1>k DEF vars
<1>. QED BY <1>1, <1>2, <1>3, <1>4, <1>5, <1>6, <1>7, <1>8, <1>9, <1>10, <1>11, <1>12
            DEF Next, Event, Step

LEMMA AnyInit == Init => AnyInv
<1>1. Init => TypeOK
  BY DEF Init, TypeOK, Client, Param, Closed, NoParam, Idle, Call
<1>2. Init => TimerInv /\ SubscriberKept
  BY DEF Init, TimerInv, SubscriberKept, HasParam, Live, Closed
<1>. QED BY <1>1, <1>2 DEF AnyInv

\* A client that was accepted keeps every one of its subscriptions until it is
\* closed, whatever the other clients send and whichever writes fail.
THEOREM SubscriptionsSafe == Spec => []SubscriberKept
<1>. QED BY AnyInit, AnyStep, PTL DEF Spec, AnyInv

\* Between two callbacks the keepalive timer of every open client is armed.
THEOREM TimersArmed == Spec => []TimerArmed
<1>1. AnyInv => TimerArmed
  BY DEF AnyInv, TypeOK, Client, TimerInv, TimerArmed, Quiet
<1>. QED BY <1>1, AnyInit, AnyStep, PTL DEF Spec

\* Pushing makes a stack longer, marking keeps its length, popping shortens it.
LEMMA PushLen ==
  ASSUME NEW S, NEW x, NEW s \in Seq(S)
  PROVE  Len(<<x>> \o s) = Len(s) + 1
  OBVIOUS

LEMMA PopLen ==
  ASSUME NEW S, NEW s \in Seq(S), s # <<>>
  PROVE  Len(Tail(s)) = Len(s) - 1 /\ Len(s) \in Nat
  OBVIOUS

LEMMA MarkedLen ==
  ASSUME TypeOK, pubs # <<>>, NEW fd \in Fds
  PROVE  Len(Marked(fd)) = Len(pubs) /\ Marked(fd) \in Seq(PubFrame)
<1>1. Head(pubs) \in PubFrame /\ Tail(pubs) \in Seq(PubFrame)
  BY PopType DEF TypeOK
<1>2. [Head(pubs) EXCEPT !.seen = @ \union {fd}] \in PubFrame
  BY <1>1 DEF PubFrame
<1>3. Marked(fd) \in Seq(PubFrame)
  BY <1>1, <1>2, PushType DEF Marked
<1>4. Len(Marked(fd)) = Len(Tail(pubs)) + 1
  BY <1>1, PushLen DEF Marked
<1>. QED BY <1>3, <1>4, PopLen DEF TypeOK

LEMMA close_clientLen ==
  ASSUME NEW fd, NEW rest \in Seq(PubFrame), close_client(fd, rest)
  PROVE  pubs' = rest \/ Len(pubs') = Len(rest) + 1
  BY PushLen DEF close_client, do_publish

\* A do_publish returns only when every open client that was accepted with its
\* topic has been written to, although the table changes while it runs.
THEOREM PublishComplete == Spec => PublishReaches
<1> DEFINE Reached == \A fd \in Fds :
       /\ pubs # <<>> /\ pubs' = Tail(pubs)
       /\ HasParam(fd) /\ clientmap[fd].param.form = "table"
       /\ Head(pubs).topic \in clientmap[fd].param.tp
       => fd \in Head(pubs).seen
<1>1. AnyInv /\ [Next]_vars => [Reached]_vars
  <2> SUFFICES ASSUME AnyInv, Next, NEW fd \in Fds, pubs # <<>>, pubs' = Tail(pubs),
                      HasParam(fd), clientmap[fd].param.form = "table",
                      Head(pubs).topic \in clientmap[fd].param.tp
               PROVE  fd \in Head(pubs).seen
    OBVIOUS
  <2>1. Len(pubs') = Len(pubs) - 1 /\ Len(pubs) \in Nat /\ Len(pubs') # Len(pubs)
    BY PopLen DEF AnyInv, TypeOK
  <2>2. ASSUME NEW g \in Fds, publish_write(g) PROVE FALSE
    <3>1. Len(Marked(g)) = Len(pubs) /\ Marked(g) \in Seq(PubFrame)
      BY MarkedLen DEF AnyInv
    <3>2. CASE Crash
      BY <3>2, <2>1 DEF Crash
    <3>3. CASE pubs' = Marked(g)
      BY <3>3, <3>1, <2>1
    <3>4. CASE close_client(g, Marked(g))
      BY <3>4, <3>1, <2>1, close_clientLen
    <3>. QED BY <2>2, <3>2, <3>3, <3>4 DEF publish_write
  <2>3. CASE publish_end
    <3>1. Head(pubs).topic \in Topics
      BY PopType DEF AnyInv, TypeOK, PubFrame
    <3>2. fd \in topic2client[Head(pubs).topic]
      BY <3>1 DEF AnyInv, SubscriberKept
    <3>. QED BY <2>3, <3>2 DEF publish_end, Unseen
  <2>. QED BY <2>2, <2>3 DEF Next, Event, Step, on_connection, on_read_end, on_timeout,
              on_invalid_data, on_client_data, cn, cn_finish, dc, pb, pi, unknown, fail,
              data_end, Quiet, Dispatch, InLoop
<1>. QED BY <1>1, AnyInit, AnyStep, PTL DEF Spec, PublishReaches

-----------------------------------------------------------------------------
\* A publish is nested in another only through the close of a client, which
\* leaves one open client less.
Lives == {fd \in Fds : Live(fd)}
DepthInv == Len(pubs) + Cardinality(Lives) <= Cardinality(Fds) + 1

LEMMA LivesFinite ==
  /\ IsFiniteSet(Lives) /\ Cardinality(Lives) \in Nat
  /\ Cardinality(Fds) \in Nat /\ Cardinality(Lives) <= Cardinality(Fds)
<1>1. Lives \subseteq Fds
  BY DEF Lives
<1>. QED BY <1>1, ConstantsAssumption, FS_Subset, FS_CardinalityType

\* close_client: either the stack is the caller's and no client was opened, or a
\* will was pushed and a client closed.
LEMMA close_clientDepth ==
  ASSUME TypeOK, TypeOK', NEW fd \in Fds, NEW rest \in Seq(PubFrame), close_client(fd, rest),
         Len(rest) + Cardinality(Lives) <= Cardinality(Fds) + 1
  PROVE  DepthInv'
<1>1. Lives' = Lives \ {fd}
  BY close_clientOthers DEF Lives, Live
<1>2. Cardinality(Lives') = IF fd \in Lives THEN Cardinality(Lives) - 1
                                            ELSE Cardinality(Lives)
  BY <1>1, LivesFinite, FS_RemoveElement
<1>3. Len(pubs') = Len(rest) \/ (fd \in Lives /\ Len(pubs') = Len(rest) + 1)
  BY PushLen DEF close_client, do_publish, Lives
<1>4. Len(rest) \in Nat
  OBVIOUS
<1>. QED BY <1>2, <1>3, <1>4, LivesFinite DEF DepthInv

LEMMA DepthStep == AnyInv /\ DepthInv /\ [Next]_vars => DepthInv'
<1> SUFFICES ASSUME AnyInv, DepthInv, [Next]_vars PROVE DepthInv'
  OBVIOUS
<1>t. TypeOK /\ TypeOK' /\ Len(pubs) \in Nat /\ Len(pubs') \in Nat
  BY TypeStep DEF AnyInv, TypeOK
<1>f. Lives' \subseteq Fds /\ Cardinality(Lives') \in Nat
      /\ Cardinality(Lives') <= Cardinality(Fds) /\ Cardinality(Fds) \in Nat
  BY ConstantsAssumption, FS_Subset, FS_CardinalityType DEF Lives
<1>e. <<>> \in Seq(PubFrame) /\ Len(<<>>) = 0
  OBVIOUS
\* Outside of a publish, at most one frame is pushed.
<1>s. ASSUME Len(pubs') <= 1 PROVE DepthInv'
  BY <1>s, <1>f, <1>t DEF DepthInv
<1>c. ASSUME NEW fd \in Fds, close_client(fd, <<>>) PROVE DepthInv'
  <2>1. Len(<<>>) + Cardinality(Lives) <= Cardinality(Fds) + 1
    BY <1>e, LivesFinite
  <2>. QED BY <1>c, <1>e, <1>t, <2>1, close_clientDepth
<1>1. ASSUME NEW fd \in Fds,
             on_connection(fd) \/ \E cmds \in Batches : on_client_data(fd, cmds)
      PROVE  DepthInv'
  <2>1. pubs' = <<>>
    BY <1>1 DEF on_connection, on_client_data, Quiet
  <2>2. Len(pubs') <= 1
    BY <2>1, <1>e
  <2>. QED BY <2>2, <1>s
<1>2. ASSUME NEW fd \in Fds, on_read_end(fd) \/ on_timeout(fd) \/ on_invalid_data(fd)
      PROVE  DepthInv'
  BY <1>2, <1>c DEF on_read_end, on_timeout, on_invalid_data
<1>3. CASE cn \/ cn_finish \/ pb \/ pi \/ unknown \/ data_end
  <2>1. pubs = <<>> /\ (pubs' = pubs \/ \E t : pubs' = do_publish(t, <<>>))
    BY <1>3 DEF cn, cn_finish, pb, pi, unknown, data_end, Crash, Dispatch, InLoop
  <2>2. Len(pubs') <= 1
    <3>1. \A x : Len(<<x>> \o <<>>) = 1
      BY <1>e, PushLen
    <3>2. CASE pubs' = pubs
      BY <2>1, <3>2, <1>e
    <3>3. ASSUME NEW t, pubs' = do_publish(t, <<>>) PROVE Len(pubs') <= 1
      <4>1. CASE t = NoTopic
        BY <3>3, <4>1, <1>e DEF do_publish
      <4>2. CASE t # NoTopic
        BY <3>1, <3>3, <4>2 DEF do_publish
      <4>. QED BY <4>1, <4>2
    <3>. QED BY <2>1, <3>2, <3>3
  <2>. QED BY <2>2, <1>s
<1>4. CASE dc \/ fail
  <2>1. call.fd \in Fds
    BY <1>4, <1>t DEF dc, fail, Dispatch, InLoop, TypeOK
  <2>. QED BY <1>4, <2>1, <1>c DEF dc, fail
<1>5. ASSUME NEW fd \in Fds, publish_write(fd) PROVE DepthInv'
  <2>1. Len(Marked(fd)) = Len(pubs) /\ Marked(fd) \in Seq(PubFrame)
    BY <1>5, <1>t, MarkedLen DEF publish_write
  <2>2. CASE UNCHANGED clientmap /\ Len(pubs') = Len(pubs)
    BY <2>2 DEF DepthInv, Lives, Live
  <2>3. CASE close_client(fd, Marked(fd))
    BY <2>1, <2>3, <1>t, close_clientDepth DEF DepthInv
  <2>. QED BY <1>5, <2>1, <2>2, <2>3 DEF publish_write, Crash
<1>6. CASE publish_end
  <2>1. Len(pubs') = Len(pubs) - 1
    BY <1>6, <1>t, PopLen DEF publish_end, TypeOK
  <2>2. Lives' = Lives
    BY <1>6 DEF publish_end, Lives, Live
  <2>. QED BY <2>1, <2>2, <1>t, LivesFinite DEF DepthInv
<1>7. CASE UNCHANGED vars
  BY <1>7 DEF vars, DepthInv, Lives, Live
<1>. QED BY <1>1, <1>2, <1>3, <1>4, <1>5, <1>6, <1>7 DEF Next, Event, Step

\* The recursion of close_client and do_publish is at most one deeper than there
\* are connections, for every input and every failing write.
THEOREM RecursionBounded == Spec => []DepthBound
<1>1. Init => DepthInv
  BY LivesFinite DEF Init, DepthInv
<1>2. AnyInv /\ DepthInv => DepthBound
  <2>1. AnyInv => Len(pubs) \in Nat
    BY DEF AnyInv, TypeOK
  <2>. QED BY <2>1, LivesFinite DEF DepthInv, DepthBound
<1>. QED BY <1>1, <1>2, DepthStep, AnyInit, AnyStep, PTL DEF Spec

-----------------------------------------------------------------------------
\* The part of GoodInv that does not speak of the running callback.
RegBack ==
  \A t \in Topics, fd \in Fds : fd \in topic2client[t] =>
    HasParam(fd) /\ clientmap[fd].param.form = "table" /\ t \in clientmap[fd].param.tp
MapsInv == RegBack /\ ParamInv /\ IdLive /\ NoCrash

LEMMA GoodParts ==
  GoodInv => MapsInv /\ CallInv /\ NewInv /\ SubscriberKept /\ TypeOK
<1>1. GoodInv => RegBack
  BY DEF GoodInv, RegBack, RegistryExact
<1>. QED BY <1>1 DEF GoodInv, MapsInv

\* Closing a client leaves no trace of it in the maps: its id is unregistered, be it
\* this client's or that of another with the same id, its topics are unregistered,
\* and the broker does not fail.
LEMMA close_clientMaps ==
  ASSUME TypeOK, MapsInv, NEW fd \in Fds, NEW rest, close_client(fd, rest)
  PROVE  MapsInv'
<1>1. /\ \A g \in Fds : g # fd => clientmap'[g] = clientmap[g]
      /\ clientmap'[fd].state = "closed"
      /\ \A g \in Fds, t \in Topics :
           g # fd => (g \in topic2client'[t] <=> g \in topic2client[t])
  BY close_clientOthers
<1>2. \A t \in Topics : fd \notin topic2client'[t]
  BY DEF TypeOK, MapsInv, RegBack, close_client, Unregister, registry, HasParam, Live
<1>3. \A c \in Ids : clientid2fd'[c] = IF HasParam(fd) /\ clientmap[fd].param.cd = c
                                     THEN NoFd ELSE clientid2fd[c]
  <2>1. CASE ~HasParam(fd)
    BY <2>1 DEF close_client, registry, HasParam
  <2>2. CASE HasParam(fd)
    <3>1. clientmap[fd].param.cd \in Ids /\ clientmap[fd].param.cd # NoId
      BY <2>2, ConstantsAssumption DEF MapsInv, ParamInv
    <3>2. clientid2fd' = ForgetId(clientmap[fd].param.cd)
      BY <2>2, <3>1 DEF close_client, HasParam
    <3>. QED BY <2>2, <3>1, <3>2 DEF ForgetId, TypeOK
  <2>. QED BY <2>1, <2>2
<1>4. NoCrash'
  <2>1. Live(fd) /\ clientmap[fd].param.form # "nil" => clientmap[fd].param.cd # NoId
    BY ConstantsAssumption DEF MapsInv, ParamInv, HasParam
  <2>. QED BY <2>1 DEF MapsInv, NoCrash, Running, close_client
<1>5. RegBack'
  BY <1>1, <1>2 DEF MapsInv, RegBack, HasParam, Live
<1>6. ParamInv'
  BY <1>1 DEF MapsInv, ParamInv, HasParam, Live
<1>7. IdLive'
  <2> SUFFICES ASSUME NEW c \in Ids, clientid2fd'[c] # NoFd
               PROVE  /\ HasParam(clientid2fd[c])'
                      /\ clientmap'[clientid2fd'[c]].param.cd = c
    BY DEF IdLive
  <2>1. clientid2fd'[c] = clientid2fd[c] /\ clientid2fd[c] \in Fds
    BY <1>3 DEF TypeOK
  <2>2. HasParam(clientid2fd[c]) /\ clientmap[clientid2fd[c]].param.cd = c
    BY <2>1 DEF MapsInv, IdLive
  <2>3. clientid2fd[c] # fd
    BY <1>3, <2>1, <2>2
  <2>. QED BY <1>1, <2>1, <2>2, <2>3 DEF HasParam, Live
<1>. QED BY <1>4, <1>5, <1>6, <1>7 DEF MapsInv

\* Every step keeps GoodInv.
LEMMA GoodStep == GoodInputs /\ AnyInv /\ GoodInv /\ [Next]_vars => GoodInv'
<1> SUFFICES ASSUME GoodInputs, AnyInv, GoodInv, [Next]_vars PROVE GoodInv'
  OBVIOUS
<1> SUFFICES MapsInv' /\ CallInv' /\ NewInv'
  <2>1. AnyInv'
    BY AnyStep
  <2>2. MapsInv' => RegistryExact'
    BY <2>1 DEF AnyInv, TypeOK, SubscriberKept, MapsInv, RegBack, RegistryExact
  <2>. QED BY <2>1, <2>2 DEF AnyInv, GoodInv, MapsInv
<1>t. TypeOK /\ TypeOK' /\ MapsInv /\ CallInv /\ NewInv
  BY AnyStep, GoodParts DEF AnyInv
\* Steps that leave the maps alone as far as MapsInv and NewInv look.
<1>k. ASSUME UNCHANGED <<registry, process>>,
             \A g \in Fds : /\ clientmap'[g].state = clientmap[g].state
                            /\ clientmap'[g].param = clientmap[g].param
      PROVE MapsInv'
  <2>1. \A g \in Fds : HasParam(g)' <=> HasParam(g)
    BY <1>k DEF HasParam, Live
  <2>2. RegBack' /\ ParamInv' /\ NoCrash'
    BY <1>k, <2>1, <1>t DEF MapsInv, RegBack, ParamInv, NoCrash, Running, registry
  <2>3. IdLive'
    BY <1>k, <2>1, <1>t DEF MapsInv, IdLive, registry, Live, TypeOK
  <2>. QED BY <2>2, <2>3 DEF MapsInv
\* Closing fd, when the callback ends with it or goes on with another client.
<1>n. ASSUME NEW fd \in Fds, NEW rest, close_client(fd, rest),
             call' = call \/ fd = call.fd \/ call.pc = "idle"
      PROVE  NewInv'
  <2>1. \A g \in Fds : HasParam(g)' => g # fd /\ HasParam(g) /\ clientmap'[g] = clientmap[g]
    BY <1>n, <1>t, close_clientOthers DEF HasParam, Live
  <2>. QED BY <1>n, <1>t, <2>1 DEF NewInv
<1>1. ASSUME NEW fd \in Fds, on_connection(fd)
      PROVE MapsInv' /\ CallInv' /\ NewInv'
  <2>1. /\ \A g \in Fds : g # fd => clientmap'[g] = clientmap[g]
        /\ clientmap'[fd] = [state |-> "st_new", timer |-> "armed", param |-> NoParam]
        /\ ~Live(fd) /\ call' = call /\ call.pc = "idle"
    BY <1>1, <1>t DEF on_connection, TypeOK, Quiet
  <2>2. RegBack' /\ ParamInv' /\ NewInv'
    BY <1>1, <1>t, <2>1 DEF MapsInv, RegBack, ParamInv, HasParam, Live, NoParam,
       on_connection, registry, NewInv
  <2>3. IdLive' /\ NoCrash'
    BY <1>1, <1>t, <2>1 DEF MapsInv, IdLive, HasParam, Live, NoParam,
       on_connection, registry, NoCrash, Running
  <2>. QED BY <2>1, <2>2, <2>3 DEF MapsInv, CallInv
<1>2. ASSUME NEW fd \in Fds, on_read_end(fd) \/ on_timeout(fd) \/ on_invalid_data(fd)
      PROVE MapsInv' /\ CallInv' /\ NewInv'
  <2>1. close_client(fd, <<>>) /\ call' = call /\ call.pc = "idle"
    BY <1>2 DEF on_read_end, on_timeout, on_invalid_data, Quiet
  <2>. QED BY <2>1, <1>n, <1>t, close_clientMaps DEF CallInv
<1>3. ASSUME NEW fd \in Fds, NEW cmds \in Batches, on_client_data(fd, cmds)
      PROVE MapsInv' /\ CallInv' /\ NewInv'
  <2>1. /\ \A g \in Fds : clientmap'[g].state = clientmap[g].state
                          /\ clientmap'[g].param = clientmap[g].param
        /\ call'.fd = fd /\ call'.pc = "loop" /\ call'.cmds = cmds /\ Live(fd)
        /\ call.pc = "idle" /\ UNCHANGED <<registry, process>>
    BY <1>3, <1>t DEF on_client_data, TypeOK, Client, Quiet
  <2>3. CallInv' /\ NewInv'
    BY <2>1, <1>t DEF CallInv, NewInv, HasParam, Live, GoodInputs
  <2>. QED BY <2>1, <2>3, <1>k
<1>4. CASE cn
  <2> DEFINE m == Head(call.cmds)
             fd == call.fd
             keep(form) == clientmap' = [clientmap EXCEPT ![fd].param = StoredParam(m, form)]
  <2>0. Dispatch("cn") /\ fd \in Fds /\ Live(fd) /\ call.pc = "loop"
    BY <1>4, <1>t, DispatchType DEF cn, Dispatch, InLoop, CallInv
  <2>1. m \in Connects /\ m \in ConnectCmd /\ m.parts = "full" /\ m.cd \in Ids
    <3>1. m \in Connects /\ m \in ConnectCmd
      BY <2>0, <1>t, DispatchType, CommandType DEF Dispatch
    <3>. QED BY <3>1 DEF GoodInputs, ConnectCmd
  <2>3. CASE Continue("fail") /\ UNCHANGED <<clientmap, registry, pubs, process>>
    <3>2. call'.pc = "fail" /\ call'.fd = fd
      BY <2>0, <2>3, <1>t, ContinueType
    <3>. QED BY <2>3, <3>2, <1>k, <1>t DEF CallInv, NewInv, HasParam, Live
  <2>4. CASE /\ clientmap[fd].state = "st_new" /\ process' = process
             /\ \E form \in {"string", "table"}, pc \in {"cn", "fail"} :
                  /\ keep(form) /\ Continue(pc)
                  /\ \/ UNCHANGED registry
                     \/ /\ topic2client' = Register(fd, m.tp) /\ form = "table"
                        /\ UNCHANGED clientid2fd
                     \/ /\ topic2client' = Register(fd, m.tp) /\ form = "table"
                        /\ clientid2fd' = [clientid2fd EXCEPT ![m.cd] = fd]
                  /\ pc = "cn" => /\ form = "table"
                                  /\ clientid2fd' = [clientid2fd EXCEPT ![m.cd] = fd]
    <3>0. PICK form \in {"string", "table"}, pc \in {"cn", "fail"} :
                  /\ keep(form) /\ Continue(pc)
                  /\ \/ UNCHANGED registry
                     \/ /\ topic2client' = Register(fd, m.tp) /\ form = "table"
                        /\ UNCHANGED clientid2fd
                     \/ /\ topic2client' = Register(fd, m.tp) /\ form = "table"
                        /\ clientid2fd' = [clientid2fd EXCEPT ![m.cd] = fd]
                  /\ pc = "cn" => /\ form = "table"
                                  /\ clientid2fd' = [clientid2fd EXCEPT ![m.cd] = fd]
      BY <2>4
    <3>1. /\ \A g \in Fds : g # fd => clientmap'[g] = clientmap[g]
          /\ clientmap'[fd].state = "st_new"
          /\ clientmap'[fd].param = StoredParam(m, form)
      BY <2>0, <2>4, <3>0, <1>t DEF TypeOK, Client
    <3>2. call'.fd = fd /\ call'.pc = pc
      BY <2>0, <3>0, <1>t, ContinueType
    <3>3. ~HasParam(fd)
      BY <2>0, <2>4, <1>t DEF NewInv
    <3>5. ParamInv' /\ NoCrash'
      BY <2>0, <2>1, <2>4, <3>1, <1>t
         DEF MapsInv, ParamInv, HasParam, Live, StoredParam, NoCrash, Running
    <3>6. RegBack'
      <4>1. \A t \in Topics, g \in Fds : g \in topic2client'[t] =>
              g \in topic2client[t] \/ (g = fd /\ t \in m.tp /\ form = "table")
        BY <3>0, <1>t DEF Register, TypeOK, registry
      <4>2. \A t \in Topics : fd \notin topic2client[t]
        BY <2>0, <3>3, <1>t DEF MapsInv, RegBack
      <4>. QED BY <2>0, <3>1, <4>1, <4>2, <1>t
               DEF MapsInv, RegBack, HasParam, Live, StoredParam
    <3>7. IdLive'
      <4>1. \A c \in Ids : \/ clientid2fd'[c] = clientid2fd[c]
                           \/ c = m.cd /\ clientid2fd'[c] = fd
        BY <2>1, <3>0, <1>t DEF TypeOK, registry
      <4>2. \A c \in Ids : clientid2fd[c] # fd
        BY <2>0, <3>3, <1>t, ConstantsAssumption DEF MapsInv, IdLive
      <4>. QED BY <2>0, <3>0, <3>1, <4>1, <4>2, <1>t
               DEF MapsInv, IdLive, HasParam, Live, StoredParam, TypeOK
    <3>9. CallInv' /\ NewInv'
      <4>1. NewInv'
        BY <3>1, <3>2, <2>0, <1>t DEF NewInv, HasParam, Live
      <4>2. CASE pc = "fail"
        BY <3>2, <4>1, <4>2 DEF CallInv
      <4>3. CASE pc = "cn"
        BY <4>1, <4>3, <3>0, <3>1, <3>2 DEF CallInv, Live, StoredParam
      <4>. QED BY <4>2, <4>3
    <3>. QED BY <3>5, <3>6, <3>7, <3>9 DEF MapsInv
  <2>. QED BY <1>4, <2>0, <2>1, <2>3, <2>4 DEF cn, registry
<1>5. CASE cn_finish
  <2> DEFINE fd == call.fd
  <2>1. fd \in Fds /\ call.pc = "cn" /\ HasParam(fd) /\ Live(fd)
    BY <1>5, <1>t DEF cn_finish, TypeOK, CallInv, HasParam
  <2>2. /\ clientmap' = [clientmap EXCEPT ![fd].state = "st_auth"]
        /\ UNCHANGED <<registry, process>>
        /\ \E pc \in {"loop", "fail"} : call' = [call EXCEPT !.pc = pc]
    BY <1>5, <2>1 DEF cn_finish
  <2>3. /\ \A g \in Fds : g # fd => clientmap'[g] = clientmap[g]
        /\ clientmap'[fd].state = "st_auth" /\ clientmap'[fd].param = clientmap[fd].param
        /\ call'.fd = fd /\ call'.cmds = call.cmds /\ call'.pc \in {"loop", "fail"}
    BY <2>1, <2>2, <1>t DEF TypeOK, Client, Call
  <2>4. \A g \in Fds : (HasParam(g)' <=> HasParam(g))
                       /\ clientmap'[g].param = clientmap[g].param
    BY <2>1, <2>3 DEF HasParam, Live
  <2>6. CallInv' /\ NewInv'
    BY <2>1, <2>3, <2>4, <1>t DEF CallInv, NewInv, HasParam, Live
  <2>7. RegBack' /\ NoCrash' /\ IdLive'
    BY <2>2, <2>4, <1>t
       DEF MapsInv, RegBack, NoCrash, Running, IdLive, registry, TypeOK
  <2>8. ParamInv'
    BY <2>1, <2>3, <2>4, <1>t DEF MapsInv, ParamInv, CallInv
  <2>. QED BY <2>6, <2>7, <2>8 DEF MapsInv
<1>6. CASE dc
  <2>1. Dispatch("dc") /\ Continue("fail") /\ close_client(call.fd, <<>>)
    BY <1>6 DEF dc
  <2>2. call'.fd = call.fd /\ call'.pc = "fail" /\ call.fd \in Fds
    BY <2>1, <1>t, ContinueType, DispatchType
  <2>. QED BY <2>1, <2>2, <1>n, <1>t, close_clientMaps DEF CallInv
<1>7. CASE pb \/ pi \/ unknown
  <2>1. \E id \in {"pb", "pi", "unknown"} : Dispatch(id)
    BY <1>7 DEF pb, pi, unknown
  <2>2. Live(call.fd) /\ call.fd \in Fds /\ call.pc = "loop"
    BY <2>1, <1>t, DispatchType DEF Dispatch, InLoop, CallInv
  <2>3. /\ UNCHANGED <<clientmap, registry, process>>
        /\ \/ Continue("fail")
           \/ Continue("loop") /\ clientmap[call.fd].state = "st_auth"
    BY <1>7, <2>2 DEF pb, pi, unknown
  <2>5. CallInv'
    <3>1. CASE Continue("fail")
      BY <3>1, <2>1, <1>t, ContinueType DEF CallInv
    <3>2. CASE Continue("loop") /\ clientmap[call.fd].state = "st_auth"
      <4>1. HasParam(call.fd)
        BY <3>2, <2>2, <1>t DEF MapsInv, ParamInv, HasParam
      <4>2. call'.fd = call.fd /\ call'.pc = "loop"
        BY <3>2, <2>1, <1>t, ContinueType
      <4>. QED BY <2>3, <4>1, <4>2 DEF CallInv, HasParam, Live
    <3>. QED BY <2>3, <3>1, <3>2
  <2>6. NewInv'
    BY <2>2, <2>3, <1>t DEF NewInv, HasParam, Live
  <2>. QED BY <2>3, <2>5, <2>6, <1>k
<1>8. CASE fail
  <2>1. call.fd \in Fds /\ close_client(call.fd, <<>>) /\ call'.pc = "idle"
    BY <1>8, <1>t DEF fail, TypeOK, Idle
  <2>. QED BY <2>1, <1>n, <1>t, close_clientMaps DEF CallInv
<1>9. CASE data_end
  <2>1. call.fd \in Fds /\ HasParam(call.fd) /\ call.pc = "loop"
    BY <1>9, <1>t DEF data_end, InLoop, TypeOK, CallInv
  <2>2. /\ \A g \in Fds : clientmap'[g].state = clientmap[g].state
                          /\ clientmap'[g].param = clientmap[g].param
        /\ call'.pc = "idle" /\ UNCHANGED <<registry, process>>
    BY <1>9, <2>1, <1>t DEF data_end, RestartTimer, TypeOK, Client, Idle
  <2>3. NewInv'
    BY <2>1, <2>2, <1>t DEF NewInv, HasParam, Live
  <2>. QED BY <2>2, <2>3, <1>k DEF CallInv
<1>10. ASSUME NEW fd \in Fds, publish_write(fd)
       PROVE  MapsInv' /\ CallInv' /\ NewInv'
  <2>1. Live(fd) /\ call' = call
    <3>1. fd \in topic2client[Head(pubs).topic] /\ Head(pubs).topic \in Topics
      <4>1. Head(pubs) \in PubFrame
        BY <1>10, <1>t, PopType DEF publish_write, TypeOK
      <4>. QED BY <1>10, <4>1 DEF publish_write, Unseen, PubFrame
    <3>. QED BY <1>10, <3>1, <1>t DEF publish_write, MapsInv, RegBack, HasParam
  <2>2. CASE UNCHANGED <<clientmap, registry, process>>
    BY <2>1, <2>2, <1>k, <1>t DEF CallInv, NewInv, HasParam, Live, registry
  <2>3. CASE close_client(fd, Marked(fd)) /\ fd # call.fd
    <3>1. MapsInv' /\ NewInv'
      BY <2>1, <2>3, <1>n, <1>t, close_clientMaps
    <3>2. \A g \in Fds : g # fd => clientmap'[g] = clientmap[g]
      BY <2>3, <1>t, close_clientOthers
    <3>3. \A g \in Fds : HasParam(g)' => HasParam(g) /\ clientmap'[g] = clientmap[g]
      BY <2>3, <1>t, <3>2, close_clientOthers DEF HasParam, Live
    <3>5. CallInv'
      <4>1. CASE call.pc = "idle"
        BY <4>1, <2>1 DEF CallInv
      <4>2. CASE call.pc # "idle"
        <5>1. call.fd \in Fds /\ clientmap'[call.fd] = clientmap[call.fd]
          BY <4>2, <3>2, <2>3, <1>t DEF TypeOK
        <5>. QED BY <2>1, <5>1, <1>t DEF CallInv, HasParam, Live
      <4>. QED BY <4>1, <4>2
    <3>. QED BY <3>1, <3>5
  <2>. QED BY <1>10, <2>1, <2>2, <2>3 DEF publish_write, GoodInputs
<1>11. CASE publish_end \/ UNCHANGED vars
  <2>1. UNCHANGED <<clientmap, registry, process, call>>
    BY <1>11 DEF publish_end, vars, registry
  <2>. QED BY <2>1, <1>k, <1>t DEF CallInv, NewInv, HasParam, Live, registry
<1>. QED BY <1>1, <1>2, <1>3, <1>4, <1>5, <1>6, <1>7, <1>8, <1>9, <1>10, <1>11
            DEF Next, Event, Step

\* With clients that behave as sandc does, several of them under one id or not, the
\* maps of the broker hold open clients only, topic2client holds exactly their
\* subscriptions, and no assert fails.
THEOREM BrokerCorrect ==
  ASSUME GoodInputs
  PROVE  Spec => [](RegistryExact /\ IdLive /\ NoCrash)
<1>1. Init => GoodInv
  <2>1. Init => TypeOK /\ SubscriberKept
    BY AnyInit DEF AnyInv
  <2>2. Init => RegistryExact /\ IdLive /\ NoCrash
    BY DEF Init, RegistryExact, IdLive, NoCrash, Running, HasParam, Live, Closed
  <2>3. Init => CallInv /\ NewInv /\ ParamInv
    BY DEF Init, CallInv, NewInv, ParamInv, HasParam, Live, Closed, Idle
  <2>. QED BY <2>1, <2>2, <2>3 DEF GoodInv
<1>2. AnyInv /\ GoodInv /\ [Next]_vars => GoodInv'
  BY GoodStep
<1>3. GoodInv => RegistryExact /\ IdLive /\ NoCrash
  BY DEF GoodInv
<1>. QED BY <1>1, <1>2, <1>3, AnyInit, AnyStep, PTL DEF Spec

\* For clients that behave as sandc does, clientid2fd names open clients that hold the
\* id, however often an id is used twice, refused and closed: a connection that is gone
\* never makes the broker refuse the client that comes back.
THEOREM IdsNotBlocked ==
  ASSUME GoodInputs
  PROVE  Spec => []IdLive
<1>1. Spec => [](RegistryExact /\ IdLive /\ NoCrash)
  BY BrokerCorrect
<1>. QED BY <1>1, PTL

\* For clients that behave as sandc does, no assert of sands.lua fails and no nil is
\* indexed, in any order of their packets, timeouts and writes that fail to other clients.
THEOREM BrokerUp ==
  ASSUME GoodInputs
  PROVE  Spec => []NoCrash
<1>1. Spec => [](RegistryExact /\ IdLive /\ NoCrash)
  BY BrokerCorrect
<1>. QED BY <1>1, PTL
=============================================================================
