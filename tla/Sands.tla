------------------------------- MODULE Sands -------------------------------
(***************************************************************************)
(* The sands message broker (sands/files/sands/sands.lua): a single-       *)
(* threaded libuv process in which local services connect, subscribe and   *)
(* publish.  One libuv callback (a connection, a chunk of data, an end of  *)
(* file or a keepalive timeout) runs to its end before the next one        *)
(* starts, but a callback can call itself back: a failed write closes the  *)
(* receiver, closing publishes the receiver's will, and that publish can   *)
(* fail on a further receiver.  The nested do_publish calls are the stack  *)
(* pubs, innermost first; what the callback does once they have returned   *)
(* is in call.  A Lua error in a callback ends the process.                 *)
(***************************************************************************)
EXTENDS Naturals, Sequences, FiniteSets

CONSTANTS
  Fds,            \* file descriptors the kernel hands out
  Ids,            \* client ids (field cd of a connect command)
  Topics,
  Connects,       \* the connect commands clients send
  Batches,        \* the sequences of commands one read may decode to
  NoFd, NoId, NoTopic,
  SelfWriteFails  \* may a write to the client being served fail?

\* A connect command: cd, vv, pw, kp are the fields that are checked; tp is the
\* set of topics in front of the first empty part of the topic list, and parts
\* tells whether there is such a part; wt and ct are the will and the connect
\* topic (each with a payload when present).
ConnectCmd == [id: {"cn"}, cd: Ids \union {NoId}, vv: {"v0.1", "v0.0"}, pw: {"good", "bad"},
               kp: {0, 5}, tp: SUBSET Topics, parts: {"full", "empty"},
               wt: Topics \union {NoTopic}, ct: Topics \union {NoTopic}]
PublishCmd == [id: {"pb"}, tp: Topics \union {NoTopic}]
PlainCmd   == [id: {"pi", "dc", "unknown"}]
Commands   == Connects \union PublishCmd \union PlainCmd

ASSUME ConstantsAssumption ==
  /\ NoFd \notin Fds /\ NoId \notin Ids /\ NoTopic \notin Topics
  /\ Connects \subseteq ConnectCmd
  /\ Batches \subseteq Seq(Commands)
  /\ SelfWriteFails \in BOOLEAN
  /\ IsFiniteSet(Fds)

VARIABLES
  clientmap,     \* ins.clientmap: per fd Closed or the connection's record
  clientid2fd,   \* ins.clientid2fd
  topic2client,  \* ins.topic2client: per topic the fds registered for it
  call,          \* the rest of the running callback
  pubs,          \* the do_publish calls in progress, innermost first
  process        \* running, until a Lua error ends it

vars == <<clientmap, clientid2fd, topic2client, call, pubs, process>>
registry == <<clientid2fd, topic2client>>

\* climap.param: nil, or the connect command as stored, in which m.tp is the
\* string it came as or the table of its topics (close_client only unregisters
\* the topics of a table).
Param  == [form: {"nil", "string", "table"}, cd: Ids \union {NoId},
           tp: SUBSET Topics, wt: Topics \union {NoTopic}]
Client == [state: {"closed", "st_new", "st_auth"}, timer: {"off", "armed"}, param: Param]

NoParam == [form |-> "nil", cd |-> NoId, tp |-> {}, wt |-> NoTopic]
Closed  == [state |-> "closed", timer |-> "off", param |-> NoParam]
PubFrame == [topic: Topics, seen: SUBSET Fds]
Idle == [fd |-> NoFd, cmds |-> <<>>, pc |-> "idle"]
Call == [fd: Fds \union {NoFd}, cmds: Seq(Commands), pc: {"idle", "loop", "cn", "fail"}]

TypeOK ==
  /\ clientmap \in [Fds -> Client]
  /\ clientid2fd \in [Ids -> Fds \union {NoFd}]
  /\ topic2client \in [Topics -> SUBSET Fds]
  /\ call \in Call /\ (call.pc # "idle" => call.fd \in Fds)
  /\ pubs \in Seq(PubFrame)
  /\ process \in {"running", "crashed"}

Live(fd) == clientmap[fd].state # "closed"
HasParam(fd) == Live(fd) /\ clientmap[fd].param.form # "nil"
Running == process = "running"

\* Between two callbacks.
Quiet == call.pc = "idle" /\ pubs = <<>> /\ Running

Init ==
  /\ clientmap = [fd \in Fds |-> Closed]
  /\ clientid2fd = [cd \in Ids |-> NoFd]
  /\ topic2client = [t \in Topics |-> {}]
  /\ call = Idle /\ pubs = <<>> /\ process = "running"

-----------------------------------------------------------------------------
\* do_publish(topic, ...): a new innermost frame on top of rest.
do_publish(topic, rest) ==
  IF topic = NoTopic THEN rest ELSE <<[topic |-> topic, seen |-> {}]>> \o rest

\* A Lua error: the process ends where it is.
Crash == process' = "crashed" /\ UNCHANGED <<clientmap, registry, call, pubs>>

\* The maps without the client that closes; the id is forgotten whichever
\* connection it is registered to.  Mutants: the table of topics is left alone;
\* the id stays registered.
UnregisterNone(fd, m) == topic2client
Unregister(fd, m) == [t \in Topics |->
  IF m.form = "table" /\ t \in m.tp THEN topic2client[t] \ {fd} ELSE topic2client[t]]
KeepId(cd) == clientid2fd
ForgetId(cd) == [clientid2fd EXCEPT ![cd] = NoFd]

\* Mutant: the will is published before the client is taken out of the maps.
close_client_late(fd, rest) ==
  /\ pubs' = IF HasParam(fd) THEN do_publish(clientmap[fd].param.wt, rest) ELSE rest
  /\ UNCHANGED <<clientmap, registry, process>>

\* close_client(fd): rest is the stack of publishes it was called from.
close_client(fd, rest) ==
  LET m == clientmap[fd].param IN
  \/ /\ ~Live(fd)                                   \* "already close"
     /\ pubs' = rest /\ UNCHANGED <<clientmap, registry, process>>
  \/ /\ Live(fd) /\ m.form = "nil"
     /\ clientmap' = [clientmap EXCEPT ![fd] = Closed]
     /\ pubs' = rest /\ UNCHANGED <<registry, process>>
  \/ /\ Live(fd) /\ m.form # "nil"
     /\ clientmap' = [clientmap EXCEPT ![fd] = Closed]
     /\ topic2client' = Unregister(fd, m)
     /\ \/ /\ m.cd = NoId                           \* clientid2fd[nil] = nil raises
           /\ process' = "crashed" /\ pubs' = rest /\ UNCHANGED clientid2fd
        \/ /\ m.cd # NoId
           /\ clientid2fd' = ForgetId(m.cd)
           /\ pubs' = do_publish(m.wt, rest)
           /\ UNCHANGED process

-----------------------------------------------------------------------------
\* Callbacks: what libuv starts between two callbacks.

on_connection(fd) ==
  /\ Quiet /\ ~Live(fd)
  /\ clientmap' = [clientmap EXCEPT ![fd] =
       [state |-> "st_new", timer |-> "armed", param |-> NoParam]]
  /\ UNCHANGED <<registry, call, pubs, process>>

\* End of file or a read error.
on_read_end(fd) == Quiet /\ Live(fd) /\ close_client(fd, <<>>) /\ UNCHANGED call

\* timeout_cb: the keepalive timer, while it is armed.
on_timeout(fd) ==
  /\ Quiet /\ Live(fd) /\ clientmap[fd].timer = "armed"
  /\ close_client(fd, <<>>) /\ UNCHANGED call

\* Data that the decoder refuses.
on_invalid_data(fd) == Quiet /\ Live(fd) /\ close_client(fd, <<>>) /\ UNCHANGED call

on_client_data(fd, cmds) ==
  /\ Quiet /\ Live(fd)
  /\ clientmap' = [clientmap EXCEPT ![fd].timer = "off"]
  /\ call' = [fd |-> fd, cmds |-> cmds, pc |-> "loop"]
  /\ UNCHANGED <<registry, pubs, process>>

-----------------------------------------------------------------------------
\* The rest of on_client_data: its loop and the command handlers.

InLoop == call.pc = "loop" /\ pubs = <<>> /\ Running
Dispatch(id) == InLoop /\ call.cmds # <<>> /\ Head(call.cmds).id = id
Continue(pc) == call' = [call EXCEPT !.cmds = Tail(call.cmds), !.pc = pc]

check_param(m)    == m.cd # NoId /\ m.kp >= 5 /\ (m.tp # {} \/ m.parts = "empty")
check_version(m)  == m.vv = "v0.1"
check_password(m) == m.pw = "good"

StoredParam(m, form) == [form |-> form, cd |-> m.cd, tp |-> m.tp, wt |-> m.wt]

\* The loop over the parts of map.tp registers each topic as it goes.
\* Mutant: each registration starts a new table.
RegisterFresh(fd, tps) ==
  [t \in Topics |-> IF t \in tps THEN {fd} ELSE topic2client[t]]
Register(fd, tps) ==
  [t \in Topics |-> IF t \in tps THEN topic2client[t] \union {fd} ELSE topic2client[t]]

cn ==
  /\ Dispatch("cn")
  /\ LET fd == call.fd
         m  == Head(call.cmds)
         accepted == check_param(m) /\ check_version(m) /\ check_password(m)
         keep(form) == clientmap' = [clientmap EXCEPT ![fd].param = StoredParam(m, form)]
     IN
     \/ ~Live(fd) /\ Crash                                      \* assert(climap)
     \/ /\ Live(fd) /\ clientmap[fd].state # "st_new"
        /\ Continue("fail") /\ UNCHANGED <<clientmap, registry, pubs, process>>
     \/ /\ Live(fd) /\ clientmap[fd].state = "st_new" /\ ~accepted
        /\ keep("string") /\ Continue("fail") /\ UNCHANGED <<registry, pubs, process>>
     \/ /\ Live(fd) /\ clientmap[fd].state = "st_new" /\ accepted
        /\ topic2client' = Register(fd, m.tp)
        /\ \/ /\ m.parts = "empty"                                         \* "invalid topics"
              /\ keep("string") /\ Continue("fail")
              /\ UNCHANGED <<clientid2fd, pubs>>
           \/ /\ m.parts = "full" /\ clientid2fd[m.cd] # NoFd            \* "already exist"
              /\ keep("table") /\ Continue("fail")
              /\ UNCHANGED <<clientid2fd, pubs>>
           \/ /\ m.parts = "full" /\ clientid2fd[m.cd] = NoFd
              /\ keep("table") /\ Continue("cn")
              /\ clientid2fd' = [clientid2fd EXCEPT ![m.cd] = fd]
              /\ pubs' = do_publish(m.ct, <<>>)
        /\ UNCHANGED process

\* The end of cn, once the connect topic has been published.
cn_finish ==
  /\ call.pc = "cn" /\ pubs = <<>> /\ Running
  /\ \/ ~Live(call.fd) /\ Crash                                  \* uv.write(nil, s)
     \/ /\ Live(call.fd)
        /\ clientmap' = [clientmap EXCEPT ![call.fd].state = "st_auth"]
        /\ \E pc \in {"loop", "fail"} : call' = [call EXCEPT !.pc = pc]
        /\ UNCHANGED <<registry, pubs, process>>

\* Mutant: dc returns true, and the loop goes on with a closed client.
dc_true == Dispatch("dc") /\ close_client(call.fd, <<>>) /\ Continue("loop")

\* dc closes the client itself; the nil it returns makes the loop close again.
dc == Dispatch("dc") /\ close_client(call.fd, <<>>) /\ Continue("fail")

pb ==
  /\ Dispatch("pb")
  /\ \/ ~Live(call.fd) /\ Crash                                  \* assert(climap)
     \/ /\ Live(call.fd)
        /\ LET topic == Head(call.cmds).tp
               ok == clientmap[call.fd].state = "st_auth" /\ topic # NoTopic
           IN \/ ok /\ pubs' = do_publish(topic, <<>>) /\ Continue("loop")
              \/ ~ok /\ Continue("fail") /\ UNCHANGED pubs
        /\ UNCHANGED <<clientmap, registry, process>>

pi ==
  /\ Dispatch("pi")
  /\ \/ ~Live(call.fd) /\ Crash                                  \* assert(climap)
     \/ /\ Live(call.fd)
        /\ \/ clientmap[call.fd].state = "st_auth" /\ Continue("loop")
           \/ clientmap[call.fd].state # "st_auth" /\ Continue("fail")
        /\ UNCHANGED <<clientmap, registry, pubs, process>>

\* A message without id, or with an id that is no command.
unknown ==
  /\ Dispatch("unknown")
  /\ Continue("fail") /\ UNCHANGED <<clientmap, registry, pubs, process>>

\* A handler returned nil: close and leave.
fail ==
  /\ call.pc = "fail" /\ pubs = <<>> /\ Running
  /\ close_client(call.fd, <<>>) /\ call' = Idle

\* Mutant: the timer is stopped and not started again.
RestartNoTimer(fd) == clientmap
RestartTimer(fd) == [clientmap EXCEPT ![fd].timer = "armed"]

\* The loop is over: arm the keepalive timer again.
data_end ==
  /\ InLoop /\ call.cmds = <<>>
  /\ \/ ~HasParam(call.fd) /\ Crash              \* no climap.timer, or no climap.param
     \/ /\ HasParam(call.fd)
        /\ clientmap' = RestartTimer(call.fd)
        /\ call' = Idle /\ UNCHANGED <<registry, pubs, process>>

-----------------------------------------------------------------------------
\* The loop of the innermost do_publish.  pairs() skips entries that were
\* removed after the loop started; nothing is added while it runs.

Unseen == topic2client[Head(pubs).topic] \ Head(pubs).seen
MarkedNone(fd) == pubs  \* mutant: the loop starts over
Marked(fd) ==
  <<[Head(pubs) EXCEPT !.seen = @ \union {fd}]>> \o Tail(pubs)

publish_write(fd) ==
  /\ pubs # <<>> /\ Running /\ fd \in Unseen
  /\ UNCHANGED call
  /\ \/ ~Live(fd) /\ Crash                                       \* assert(climap)
     \/ /\ Live(fd) /\ pubs' = Marked(fd)
        /\ UNCHANGED <<clientmap, registry, process>>
     \/ /\ Live(fd) /\ (SelfWriteFails \/ fd # call.fd)          \* the write failed
        /\ close_client(fd, Marked(fd))

publish_end ==
  /\ pubs # <<>> /\ Running /\ Unseen = {}
  /\ pubs' = Tail(pubs)
  /\ UNCHANGED <<clientmap, registry, call, process>>

-----------------------------------------------------------------------------
Event ==
  \E fd \in Fds :
    \/ on_connection(fd)
    \/ on_read_end(fd)
    \/ on_timeout(fd)
    \/ on_invalid_data(fd)
    \/ \E cmds \in Batches : on_client_data(fd, cmds)

Step ==
  \/ cn \/ cn_finish \/ dc \/ pb \/ pi \/ unknown \/ fail \/ data_end
  \/ \E fd \in Fds : publish_write(fd)
  \/ publish_end

Next == Event \/ Step

\* A running callback is never preempted: weak fairness on its steps.
Spec == Init /\ [][Next]_vars /\ WF_vars(Step)

-----------------------------------------------------------------------------
\* Properties.

\* A subscription a client was accepted with is never lost while the client is
\* open, whatever other clients send or however they close: the loop of cn and
\* the unregistering in close_client only touch their own fd.
SubscriberKept ==
  \A fd \in Fds, t \in Topics :
    HasParam(fd) /\ clientmap[fd].param.form = "table" /\ t \in clientmap[fd].param.tp
      => fd \in topic2client[t]

\* topic2client holds exactly the subscriptions of the open clients: no fd stays
\* behind in it when its client closes (do_publish asserts that there is none).
RegistryExact ==
  \A t \in Topics : topic2client[t] =
    {fd \in Fds : HasParam(fd) /\ clientmap[fd].param.form = "table" /\ t \in clientmap[fd].param.tp}

\* A registered id belongs to an open client with that id, so a client that comes
\* back is never refused ("already exist") because of a connection that is gone:
\* several connections may use one id, and refusing or closing one of them takes
\* the registration from another.
IdLive ==
  \A cd \in Ids : clientid2fd[cd] # NoFd =>
    HasParam(clientid2fd[cd]) /\ clientmap[clientid2fd[cd]].param.cd = cd

\* close_client unregisters the id "to this connection(fd)": the id of a client
\* that has been accepted would stay registered to that client's own fd.  The
\* broker does not keep it so: SandsDuplicateId.cfg.
IdOwner ==
  \A fd \in Fds : Live(fd) /\ clientmap[fd].state = "st_auth"
    => /\ HasParam(fd)
       /\ \E cd \in Ids : clientmap[fd].param.cd = cd /\ clientid2fd[cd] = fd

\* on_client_data stops the keepalive timer; every way out of the callback arms
\* it again or closes the client, so no open client escapes the timeout.
TimerArmed == Quiet => \A fd \in Fds : Live(fd) => clientmap[fd].timer = "armed"

\* No assert of the broker fails and no nil is indexed.
NoCrash == Running

\* close_client and do_publish call each other through wills: the recursion is
\* at most one deep per open client, since a client closes only once.
DepthBound == Len(pubs) <= Cardinality(Fds) + 1

\* When a do_publish returns, it has written to every open client that was
\* accepted with its topic, although clients are closed (and the table is
\* changed) while the loop runs.
PublishReaches ==
  [][\A fd \in Fds :
       /\ pubs # <<>> /\ pubs' = Tail(pubs)
       /\ HasParam(fd) /\ clientmap[fd].param.form = "table"
       /\ Head(pubs).topic \in clientmap[fd].param.tp
       => fd \in Head(pubs).seen]_vars

\* Every callback ends: a cascade of failing writes and wills does not keep the
\* single-threaded broker busy for ever.
CallbackEnds == ~Quiet ~> Quiet

\* Clients that behave as sandc does: every connect command has an id and a topic
\* list without empty part, every read completes a command, and no write to the
\* client being served fails.
GoodInputs ==
  /\ \A m \in Connects : m.parts = "full" /\ m.cd # NoId
  /\ <<>> \notin Batches
  /\ SelfWriteFails = FALSE

\* The inductive invariant behind RegistryExact, IdLive and NoCrash.
\* The client being served stays open until its handler fails, and the loop
\* ends only after a connect command has been stored.
CallInv ==
  /\ call.pc \in {"loop", "cn"} => Live(call.fd)
  /\ call.pc = "loop" /\ call.cmds = <<>> => HasParam(call.fd)
  /\ call.pc = "cn" => clientmap[call.fd].param.form = "table"

\* A client that is not accepted has a param only while its connect is handled.
NewInv ==
  \A fd \in Fds : HasParam(fd) /\ clientmap[fd].state = "st_new"
    => call.pc \in {"cn", "fail"} /\ fd = call.fd

ParamInv ==
  \A fd \in Fds :
    /\ HasParam(fd) => clientmap[fd].param.cd \in Ids
    /\ clientmap[fd].state = "st_auth" => clientmap[fd].param.form = "table"

GoodInv ==
  /\ TypeOK /\ SubscriberKept /\ NoCrash
  /\ RegistryExact /\ CallInv /\ NewInv /\ ParamInv /\ IdLive
=============================================================================
