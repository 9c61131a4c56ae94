# A TLA+ verification of the openwrt-ac-7621 gateway

The repository builds an access controller and gateway on OpenWrt: kernel modules that
classify, authenticate and shape traffic, and user-space services, most of them in Lua,
that talk to each other over a local publish/subscribe bus. This directory holds TLA+
models of the parts in which order, failure and concurrency matter, the TLC
configurations that check them on small instances, and TLAPS proofs of the results that
hold for every instance.

    tlc -config SandsCore.cfg MCSands      # one run; PROJECT.json lists them all
    tlapm SandsProofs.tla                  # the proofs of one component

PROJECT.json lists the runs, a mutant for every property of a passing run (the definition
changed as a plausible bug would change it, which TLC must then catch), the source lines
behind each definition, the hazards and the findings.

## 1. Inventory

### 1.1 Parts that carry the system's own logic

| part | state | operations | talks to |
|---|---|---|---|
| **ski** (`ski/files/ski`) | threads with a pending signal, channels, `ski_running_list` | `go`, `sleep`, channel `read` / `write` / `close`, the libuv prepare hook | every Lua service runs on it |
| **sands** (`sands/files/sands`) | per connection: state, keepalive timer, connect parameters; `clientid2fd`, `topic2client` | connection, `cn`, `pb`, `pi`, `dc`, end of file, timeout, `do_publish`, `close_client` | every service is a client of it |
| **sandc, sandcproxy, rpccli, rpcserv** (`sands/files/lib`) | connection state; table of outstanding queries | publish, query with time limit, answer, ping, reconnect | sands; callers are ski threads |
| **database** (`database`) | SQLite file in RAM, compressed copy and log on flash; trigger rows | statement, transaction, log, backup, restart and replay; sync to a second database and broadcast of changes | every service by rpc |
| **authd** (`authd`) | who is online, three times: in the kernel, in `memo.online`, in a cache | login of four kinds, keepalive, removal, time-out loop, restart | kernel, database, web pages |
| **lualib-ac** (`lualib-ac`) | batches of events; heap; IP ranges | `batch.emit`, `heap`, `ipops` | libraries of the services |
| **nos** (`drivers/nos`) | zones, address groups, authentication rules, their magics; per terminal what was found and its status | packet hooks, lines written to three devices, unloading | scripts of `ac-apps`, authd (through lua-nos), the message ring |
| **message ring** (`drivers/nos/src/ntrack_msg.c`, `ntrack_rbf.h`, `libs/utils`, `apps/ntrackd`) | list of nodes, work item, ring in shared memory | enqueue, worker, user-space reader, its restart | nos, ntrackd |
| **tbq** (`drivers/tbq`) | token classes, backlogs of users and flows, a timer wheel, status | packet hook, queue handler, timer, release of users and flows, control file, removal | packets |
| **nacs, nfw, nproto, ruletable** | rule tables and lists of ipsets, their magic; flags and magic of each flow | replacement of a table or list, judgement of a flow, verdict, identification | the rule tool, packets |
| **rdsparser** | bytes of a request received in part | decode | logserver, acmgr |
| **acmgr, cloudcli, proxybase** | queue of audit lines; flag files of a download; connection to the cloud | push, save; fetch, apply; relay | database, cloud |
| **cfgmgr, performer, status, web pages** | none of their own | one request, one statement or one file | database |

Vendored packages (luv, redis, resty-*, struct, netmap, cjson, ...) are left aside, and so
are shell glue and generated pages. PROJECT.json `components` names every part with the
reason where it is not modelled.

### 1.2 What is hard about them

* **Callbacks that call back.** A failing write in `do_publish` closes the receiver, which
  publishes its will, which may fail on a further receiver, all inside one loop over the
  table that is being changed.
* **Cooperative threads.** A ski thread is interrupted only where it yields, but a yield
  hides in every socket write; what was read before it may be stale after it.
* **Time-outs against late answers**, duplicated answers, and a channel of length one
  between the bus and the caller.
* **Crashes.** The database lives in RAM; flash is brought up to date by appending to a
  log and by a shell script of several moves.
* **Three copies of one fact** (who is online), each changed by a different call.
* **Tables replaced under traffic.** The kernel modules rewrite their tables while packets
  are in the hooks, nos behind a flag and `synchronize_rcu`, nacs under a lock that does not
  cover its counter; what was found in the old tables is stored with a magic and has to be found again.
* **A lock given up in the middle.** tbq tests its limits in the hook, hands the packet to
  the queue and takes the lock again; its timer gives it up between phases.
* **Shared memory** between kernel and user space and between CPUs.

### 1.3 What makes each part correct

* ski: no wakeup is lost or doubled, channels are bounded FIFOs, a runnable thread runs.
* sands: the maps hold exactly the open clients; an accepted client gets every message of
  its topics; no input of one client costs another one its registration; callbacks end.
* query: every query returns once, and a late answer reaches nobody.
* database: an answered write is there after any crash; every start succeeds.
* authd: the three copies agree once nothing is under way; no one is left online in the
  kernel that the table has forgotten; time limits put users offline.
* message ring: a bounded queue in order, with no message passed over by a restart, and a
  list that is always emptied.
* tbq: a backlog's list, token class and octet count change together, no packet waits for
  a class nobody will wake, and the shaper drains when it is told to stop.
* nacs: a flow is treated as the present tables say, whatever they replaced; the references
  to ipsets balance.
* nos: no packet reads a table that is being changed, the hooks come back, references
  are exact, and announced rules reach the terminals.

## 2. Plan

The parts below are modelled, in this order; each has its proofs in a module of its own.

1. `Sands`, `SandsProofs`.
2. `Ski`, `SkiProofs`.
3. `SandcQuery`, `SandcQueryProofs`: it uses the scheduler's rules of `Ski` at the grain of
   one run of a coroutine.
4. `UpdateLog`, `UpdateLogProofs`.
5. `Authd` with the batches of `batch.lua`, `AuthdProofs`.
6. `Tbq`: checked, without proofs.
7. `NtMsg` over the abstract `MsgFifo`, `NtMsgProofs`.
8. `Nacs`, `NacsProofs`.
9. `Nos`, `NosProofs`.

What is not in this list is in section 7.

## 3. The models

Every action is named after the function it stands for. Mutants (definitions whose
comment says so) are used by no specification.

### 3.1 `Sands`: the broker

`clientmap`, `clientid2fd` and `topic2client` are the tables of `sands.lua`. The process is
single-threaded: `on_connection`, `on_client_data`, `on_read_end`, `on_timeout` and
`on_invalid_data` start only when `Quiet`, that is when no callback runs. Within a callback
the steps are the commands it decoded (`cn`, `pb`, `pi`, `dc`, `unknown`, `data_end`,
`fail`) and the iterations of the running `do_publish` calls, whose nesting is the stack
`pubs`; `call` holds what the callback does once they have returned. A Lua error is
`process = "crashed"`.

Abstractions: a frame is decoded, so a read is a sequence of commands (possibly empty);
payloads are left out; a topic list is the set of topics in front of its first empty part;
a write succeeds or fails at once. The order of `pairs()` is a choice. The kernel reuses
descriptors in any order.

Environment: any number of connections may send one id, as a client does that reconnects
before its old connection was closed. `SelfWriteFails` lets a write to the client being
served fail. With it off and `WellBehavedBatches`, clients are as sandc builds them
(`GoodInputs`), refused connects included. `IdOwner`, what the comment in `close_client`
says of an id, is not kept then (finding 1). What is kept is `IdLive`: a registered id is
that of an open client, so that nobody is refused because of a connection that is gone.

### 3.2 `Ski`: scheduler and channels

`thread[t]` has the two parts of `sig_type`, the channel in `wait_seq`, the registered
channels and the call it is in; `running` is `ski_running_list`, `left` the count the
prepare hook took when its round started. A channel operation that yields is two actions:
`read` and `read_resumed`, `write` and `write_resumed`. A thread that returns closes its
channels one by one (`exit`, `exit_chan`, `exit_end`). `sleep` stands for every call that
waits for libuv. `sent` and `recv` are history: messages are numbered as they are put in.

`Readers` and `Writers` say which threads use a channel. core.lua demands one of each and
asserts it; `AssertFails` is the outcome when it is not so.

### 3.3 `SandcQuery`: a query and its answer

One action is one run of a coroutine between two yields. A query registers its sequence
number, publishes (and yields), reads its channel; the receiving thread and the timer
thread are the two writers. The peer answers any number of times up to `MaxAnswers`, at
any time, in any order, or never. The connection itself does not break in this model.

### 3.4 `UpdateLog`: durability of the database

`work` is the RAM database, `tgz`, `tmp` and `log` are the files on flash. A request
executes (committed at once if `Autocommit`), appends its record, commits and is answered;
`Full` requests take the log to its limit, which runs db.sh (`tar`, `mv_old`, `mv_new`,
`rm_log`) in the middle of it. A start unpacks, replays and adds default rows. `crash` is
possible in every state and, while the record is written, leaves it there, not there, or
in part. A statement is its request; `Inserts` are those that fail when repeated.

`exposed` records that one of three windows was met: a crash between the two moves, when
there is no copy at all; a crash between the second move and the removal of the log, with
an insert in the log; a log that filled up inside a transaction.

### 3.5 `Authd`: who is online

`kernel`, `rows` and `cache` are the three copies. `thread[t]` says, for the udp loop, each
batch and each time-out loop, which statement it waits for, with the ukeys it holds (`us`),
the result (`rs`), those already handled (`head`) and what comes after `offline_ukeys`
(`next`). One action is one run of a coroutine between two yields: it yields at every
statement and where it sends a datagram (the answers of `web.on_login`, the log line before
`force offline`). `rpc` holds the statements sent, `executed` how many of them the database
has done: it works in the order of the bus, and answers come back in that order. `Emit`,
`take` and `stop` are `batch.lua`.

Abstractions: what the database finds about accounts (registered, expired, acceptable to
`check_user`) is a choice; a row is within its limits, idle or old; one user name per
terminal; kv and authrule are in their caches; the retry of an rpc whose function the
server does not know yet is left out, and so are the sends of real-time logging, which is
off unless switched on by hand. A batch of more than 100 is handled in pieces by the code,
at once here. `crash` is the exit of authd at a failed or unanswered statement. The table is
the database's and survives it; what was sent before is executed or lost.

`crossed` is history: the terminals a removal was under way for while the cache was being
loaded for the first time. `check_module` tests `online_cache`, selects (and yields) and
assigns, so that several coroutines may load it, and the answer that comes last replaces what
`set_module` did meanwhile; `offline_ukeys` clears its terminals one by one and may itself
stop at the load. A removal in that window can be undone by the older answer, or an insert
that follows it by the removal's late `set_module(ukey, nil)`; TLC finds both with two web
terminals, three requests and one exit. `CacheFollowsTable` therefore speaks of
the terminals that are not in `crossed`.

### 3.6 `Tbq`: the traffic shaper

Everything under `tbq.lock` is one record `q`: the token classes of buckets and users
(tokens, age), the backlogs of users and flows with the class each is linked to,
the queued packets and their count, and `bug`, set when a `BUG_ON` would fire. The packet
path takes the lock twice, in `tbq_nf_hook` (with `tbq_filter_packet`) and in `tbq_enqueue`,
and `inflight` holds the packet between the two. The timer's function is cut where it turns:
`TimerBegin`, `TimerSlot`, `TimerActivate`, `tbq_user_dequeue`, `tbq_bucket_dequeue`,
`TimerUnlock`. After it the function holds no lock, and each of its reads is a step of its
own: the status (`TimerStatus`), what is pending (`TimerPending`), the walk over the lists
(`tbq_timer_assert_unused`), the completion (`TimerComplete`). The writer of the control file
disables (status, grace period, wait for the timer's completion, which may time out),
releases users and flows, reloads the configuration and removes the module. The `BUG_ON`s of
the list and token operations, those in `tbq_flow_backlog_emp` and `tbq_flow_backlog_add`
included, set `q.bug`; those of `tbq_timer_assert_unused` set `q.used`, and the model stops
there. `overrun` is history: a disable gave up while the timer was on its way to notify it.
`NoBug` says that `bug` is never set and `used` only after an `overrun` (finding 8); `Drains`
and the fairness speak of the behaviours that do not stop.

Time is relative: `age` is the jiffies since a class was fed, `lag` how late the timer is.
The parser of the configuration is left out, its result is in the constants; of the two
directions one is modelled; numbers are small, so that the 32 bits of
`tokens_per_jiffy << latency_shift` do not overflow (in the code a large rate with a large
shift would). Lists are sequences, hence a list head that is stale is not seen: a class that
sleeps for longer than the wheel is put back while its neighbours point into a list on the
stack (`tbq_core.c:1124`).

### 3.7 `MsgFifo` and `NtMsg`: messages to ntrackd

`MsgFifo` is what the ring promises: a bounded queue with one reader that removes a message
after handling it and may be restarted. `NtMsg` is the code: `nt_msg_enqueue` in four steps
(the test of the limit, the node on the list, its contents, the work item), the worker with
its unlocked test, the copy into a slot and the two indices, and the reader. The refinement
mapping takes what lies between `r` and `w` for the queue: the order promised is that of the
ring. The list in front of it is filled and emptied at its head (`list_add`), so that the newest
message of a burst is written first.

A node is on the list before it is filled (`ntrack_msg.c:107`). A worker on another CPU may
copy and free it first: what it copies is `Garbage`. When the producer then writes to the
freed node, or the length it copies is not one it may rely on, nothing more can be said;
the model stops with `wild`.

### 3.8 `Nacs`: access control and audit

`sets` and `rules` are the four tables, `magic` the counter, `flow` one flow with its flags.
A rule tool makes its `setsockopt` calls one after another and stops at the first that
fails; a replacement is: references to the new ipsets, the swap under the locks, the
counter, the release of the old info. The packet path is cut at each access to the shared
tables: `nproto_update` and the callback it makes, the hook that compares magics, the
judgement by control and by audit, nfw's verdict. Two numbers name an application, the 16
bit id nproto stores and the crc of its name, and the model keeps both.

The packets of the flow pass one after another. With two CPUs the flags and the magic, which
have no lock (`nacs_table.c:1290`), may be left from different tables; nothing is claimed
of that case. Loading nacs again is not modelled (it starts at magic 999 while flows keep
theirs).

### 3.9 `Nos`: zones, groups and authentication rules

A script is a sequence of lines for the three devices. Nothing keeps scripts apart: the init
files start them in the background (`SERVICE_DAEMONIZE=1`, all three with `START=95`), hotplug
restarts nos-zone at every ifup, and performer runs them too. `Writers` are any number of
processes, each at its own line, on any device. A line looks up the ipsets it names one by
one (`ip_set_get_byname`); it is refused, before or after they were all found, and puts what
it holds (`Refused`), or announces (`UpdateMagic`), or sets the flag (`DisableHooks`), waits
for the packets in the hooks (`GracePeriod`), puts what it will remove (`Change`), stores
(one action per kind of line) and clears the flag (`EnableHooks`). The entry to delete is
found before the wait and the slot of a new one read after it (`FoundAt`, `Slot`), and both
are used whatever other lines did to the table meanwhile (`Stored`, `Removed`).

A packet is cut between its reads of the tables and each of its stores: the zone and the
groups are read and stored (`ZoneMatch`, `ZoneStore`, `IpgrpMatch`, `IpgrpStore`), then
`nos_auth_hook` tests the magic, resets the record to BYPASS and rule 255 (`AuthReset`),
searches and stores the rule with REQ (`AuthSearch`), tests the white lists (`AuthWhite`) and
judges (`AuthJudge`). CPUs with packets of one terminal do so in any order. A table that is
being written is torn: a loop over it may find any entry of any line or a cleared one
(`TornGroups`, `TornEntries`), and a white list that has moved may say anything. authd sets
the status of a terminal at any time through lua-nos.

History: `behind` are the tables that were changed, or announced, since the rules were last
announced with no packet left from before (`late` marks such packets); `clashed` are the
devices of which two lines were at work at the same time; `alone` is cleared for a line under
which another one enabled the hooks.

Left out: the record of the other end (`pi`), filled by the same code and read by no code of
this module; `nos_user_info_hold`; the message to authd every 30 seconds, whose queue is
`NtMsg`; the lines `redirect_ip` and `no_flow_timeout`; the line buffer, which is shared by
all writers of a device. The loop of `nos_auth_hook` reads the zone and the groups of the
terminal at once. Deleting from a table that another line emptied makes `num` wrap in the
code; the model leaves it empty. Packets of the original direction are modelled, the only
ones the hook looks at.

## 4. The runs

| run | question | bounds |
|---|---|---|
| `sands_core` | With clients that behave as sandc does, are the maps exact, does every publish reach its subscribers, does every cascade end? | three connections, any of three ids for each, two topics; wills and subscriptions form a cycle |
| `ski_two_way` | Are wakeups kept, channels FIFO, threads resumed, whoever closes? | three threads, two channels of length 2 and 1, three messages each |
| `sandc_query` | Does every query return and the receiver go on reading? | two queries, two answers each |
| `updatelog` | Is every row the database has shown there again after crashes? | three requests, each a different mix of insert, update, transaction and full log; three crashes |
| `authd` | Do cache, table and kernel agree on every terminal nothing is under way for? | two auto terminals and one of the web page (symmetry of the two), one request, two statements under way, one miss |
| `authd_wechat` | Also across an exit of authd; is a terminal that passes without a row put right, and every batch taken? | one wechat terminal, two requests, one exit |
| `tbq` | Does no `BUG_ON` fire, do the accounts agree, does no packet wait for a class nobody wakes? | two users, two rules, a flow under both rules and one under one, backlog of two packets, timer one jiffy late, two commands |
| `tbq_disable` | How far is the limit exceeded, and does a command that stops the shaper end? | one user, one flow that both rules match, two CPUs, a limit of one packet, two commands |
| `ntmsg` | Do list, worker, ring and reader implement `MsgFifo`, and is the list always emptied? | two contexts, three messages, a ring of three slots (two messages), a list limited to one, one restart |
| `nacs` | Is a flow treated as the present tables say, and do the references balance? | two rule tools (symmetry), three configurations, four replacements, two applications, two ipsets and one that does not exist |
| `nacs_reload` | And as the rules name its application? No. | one tool, one rule, one replacement |
| `nos` | Does no packet read a table being changed, do the hooks come back, are references exact, do announced rules reach the terminal? | two CPUs, one terminal, two writers at the same time with one script each, five to choose from for one of them |

Nine further configurations are kept beside the runs. `SandsAny.cfg` checks the broker with
every input and every failing write (`TypeOK`, `SubscriberKept`, `TimerArmed`, `DepthBound`,
`PublishReaches`: all pass, and all are proved for every instance, section 5).
`SandsDuplicateId.cfg`, `SandsPartial.cfg`, `SandcQueryRace.cfg`, `UpdateLogFull.cfg`,
`AuthdTimeout.cfg`, `NosGroups.cfg`, `TbqTimeout.cfg` and `NosOverlap.cfg` each show a finding
of section 6 as a violation. The
parts of the inductive invariants of section 5 were checked in the instances of the runs before
they were proved.

Why the bounds are enough: three connections are the least in which a publish meets a
receiver that fails, whose will meets another one that fails, beside the client being
served; two topics make the wills a cycle. Three threads are a reader, a writer and one
that closes; lengths 1 and 2 with three messages make a writer wait and be resumed while
further messages are pending. Two auto terminals make a batch in which one has a row and
the other has not; expired accounts remove a web terminal without a request, so that one
request is enough for a login that meets a removal. Two queries let the receiving thread block on one while the
other waits. Three crashes allow a crash in a recovery from a crash in a recovery.

In `tbq`, two users under one bucket let the class that sleeps be the bucket's while a flow
waits in a user's list; the flow with two rules needs both classes. A packet is
as long as the quantum and as two jiffies of a user's tokens, so that classes fall asleep at
once; a timer that is one jiffy late serves two slots in one run. Two commands are a disable
and what follows it (enable, new configuration, removal), or two reloads. `tbq_disable` has
two CPUs because the limit is exceeded only between the two times the lock is taken; its
larger `LatencyShift` lets the limit, not the flow's share, be what holds the backlog. In `ntmsg` a ring of three slots holds two messages,
so that their order matters, and the third finds it full and wraps; two producers exceed the
limit of one. In `nacs` four
replacements let two tools finish one configuration each, interleaved; the configurations
reject, accept, audit, list and clear. In `nos`, one writer is
nos-auth, in the background, while the other runs nos-zone and nos-ipgrp, edits groups or
rules by hand, stops services or sets the list of free servers: lines of different devices
and of one device overlap, lines are refused for a taken id or for an ipset that is gone,
after none or one of two look-ups. A second CPU is what a writer can forget to wait for and
what stores between the stores of the first. More scripts per writer or more entries per
table exceed five minutes; the proofs cover them.

Deadlock is checked where the system has to go on (`sands_core`, `nacs`). It is off in the
others because the process may end (`ski_two_way`: all threads return; `nos`, `tbq`: the
module is removed) or because the bounded inputs are used up.

Fairness: a libuv callback is not preempted, so its steps are weakly fair; connections and
data come or do not come. In `Ski` a running coroutine goes on, the loop turns and timers
fire (`imme_timer` keeps the loop from blocking while threads are runnable). In
`SandcQuery` time passes and the local socket takes the request; nothing is assumed of the
peer. In `Authd` statements are answered and datagrams sent; the batch threads, the loops
and the kernel's report of a terminal that passes get strong fairness, because the bound
`MaxSent` and the udp loop's other messages disable them for a moment again and again.
`TimedOut` fails with more fairness than the code has: a terminal that is gone sends no
keepalive. In `UpdateLog` a started start, request or backup goes on, procd respawns the
service, and neither requests nor crashes are fair. In `Tbq` the timer's function does not
stop in the middle for ever, time passes, a packet that the hook has sent to the queue is
handled (strongly fair: it waits for a lock the timer takes again and again), the writer
goes on, and removal is strongly fair because `del_timer_sync` waits for a moment between two
runs of the timer's function; nothing is promised of packets, nor of the ends of users and flows. In
`NtMsg` a context that entered `nt_msg_enqueue` leaves it, the work item runs and the reader
is scheduled. In `Nos` a packet gets out of the hooks again and again, which never block
(`[]<>(job[c] = Idle)`); a script is again and again at its end or in `synchronize_rcu`, which
returns when nobody has to be waited for (weak fairness of `GracePeriod`). No new packet or
script is promised, and that packets keep coming does not keep `synchronize_rcu` from ending.
In `Tbq` a behaviour that ends at the `BUG_ON`s of the timer owes nothing more
(`<>q.used \/ Fairness`).

## 5. What is proved

TLAPS proves the following for every value of the constants that satisfies the named
assumptions of the modules: TLC's bounds (`MaxCrashes`, `MaxRequests`, `MaxSent`, `MaxMsgs`
and so on) are any natural numbers, the sets of connections, threads, queries, contexts,
CPUs, tools and terminals are of any size (finite where a theorem counts them). The assumptions
on configurations and scripts (`CommitsAssumption`, `ScriptsAssumption`) only say what a
parser lets through: a list has at most four ipsets, a line names its device and only nos_auth
has a list of free servers. In `Nos`, each terminal is behind an interface
(`NodesAssumption`), an ipset has members (`HoldsAssumption`) and the writers are finitely many
(`WritersAssumption`).

`SandsProofs`
* `TypeCorrect`; `SubscriptionsSafe`: an accepted client keeps its subscriptions;
  `TimersArmed`: no open client is without timer between callbacks; `PublishComplete`: a
  `do_publish` returns only after writing to every open client of its topic. These need no
  assumption on the inputs. The inductive invariant is `AnyInv`: beside `SubscriberKept` it
  says that a timer is off only for the client whose data are being handled.
* `RecursionBounded`: `close_client` and `do_publish` nest at most once per connection plus
  one. `DepthBound` is not inductive; `DepthInv` is: nested calls plus open clients never
  exceed the connections plus one, because each nesting closes a client for good.
* `BrokerCorrect` (`RegistryExact`), `IdsNotBlocked` (`IdLive`), `BrokerUp` (`NoCrash`): under
  `GoodInputs`, with any number of connections that use one id. `GoodInv` adds what the callback
  in progress may rely on: its client is open until its handler fails (`CallInv`), only it has
  unaccepted parameters (`NewInv`), an accepted client has a table of topics (`ParamInv`).
  `IdOwner` is not among them, since it is false (finding 1).

`SkiProofs`, for any threads and channels of any length
* `TypeCorrect`, `ListedOnce` (`RunningOnce`), `NoLostWakeup` (`WakeupKept`) and
  `ChannelsFifo` (`Fifo`), however the channels are used: where core.lua asserts, the process
  fails and stays as it is. `SkiInv` says of every thread which wakeup it takes
  (`ThreadInv`), that one that waits for a channel is the end the channel wakes (`EndsInv`),
  and that no wakeup is spurious (`ReadyInv`). The last is what keeps a channel within its
  bound: `write` does not test the length again after it was woken.
* `AssertsHold` (`NoAssertFails`), under `OneReaderOneWriter`: one reader and one other
  writer for each channel, which is what core.lua's comments ask of its users.

`SandcQueryProofs`, for any finite number of queries and any number of answers
* `TypeCorrect`, `QueriesRegistered` (`RegisteredWhileWaiting`), `WakeupsKept`
  (`NoWakeupLost`). `QueryInv` adds that a channel is closed by the end of its query only
  and that a blocked writer is the one the channel wakes, in the middle of its loop
  (`WaitInv`), and that answers under way were sent (`AnswersInv`).

`UpdateLogProofs`, for any number of requests and crashes
* `TypeCorrect`; `TornRemoved`: a record written in part is gone before the next append
  (`TornInv` follows it through replay and backup).
* `DatabaseDurable` and `StartSucceeds`, until `exposed`. The invariant `SafeInv` has three
  parts: requests are new when made (`FreshInv`); an insert is in the copy or in the log,
  once (`OnceInv`); and for every phase, what flash and RAM hold between them covers what
  the database has shown (`KeptInv`).

`AuthdProofs`, for any terminals, requests, statements under way and exits
* `TypeCorrect`, `PassingHasRow` (`OnlineHasRow`), `CacheAgrees` (`CacheFollowsTable`). The
  forty actions are first shown to be of five kinds (`Kinds`): quiet, a step of a coroutine
  that waits for no statement, one of the coroutine whose answer is next, an execution, a
  restart; the invariant is proved for the kinds. Its parts: the coroutines that wait are
  those with one statement under way (`RpcInv`); a terminal that passes has its row, or a
  coroutine holds it that will insert the row or put it offline, and whether it will depends
  on whether its statement was executed already (`RowInv`); while the cache is being loaded
  rows only come, the crossed terminals excepted, so that every answer is at worst too old
  in one direction (`LoadInv`); of the executed statements whose callers have yet to go on,
  the last that touches a terminal leaves it in the cache as the table has it (`CacheInv`).
  When nothing is under way for a terminal only loads can touch it, and they have not found
  it.

`NtMsgProofs`, for any finite set of contexts, any limit and any ring of two slots or more
* `ListBounded` (`CountExact`): the places of the contexts that have passed the unlocked
  test are counted with the list (`CountInv`).
* `RingRefines`: list, worker, ring and reader implement `MsgFifo`, step by step
  (`Spec => RingIsFifo`, safety part), under the mapping that takes the slots between `r` and
  `w` for the queue. `RingInv` says that the worker keeps its free slot until it
  releases it and the reader its message until it removes it.

`NacsProofs`, for any finite set of tools, any tables, lists and applications
* `TypeCorrect`; `ReferencesBalance` (`RefsBalanced`): references are counted as sums over
  the positions of tables and tools, and a call moves them between the places.
* `FlowsFollowTables` (`Current`), from `FlowInv`: nacs judges only while loaded
  (`LoadedInv`); a stored magic is not ahead of the counter, and behind it only if a table was
  replaced meanwhile (`MagicInv`); a flow at the present magic, while no counter lags behind
  its tables, has the flags these tables give (`FlagsInv`).

`NosProofs`, for any number of CPUs, terminals and writers, with lines of any device at work at
the same time and scripts and tables of any length
* `LookupsExcluded` (`Exclusive`), from `FlagInv`: for a line under which nobody enabled the
  hooks (`alone`), the flag is set from `DisableHooks` on, `synchronize_rcu` waits for every packet
  that passed the test before, and when it returns none is left. Without `alone` it is false
  (finding 9).
* `TerminalsClassified` (`Classified`), for groups below 32, whose bits do not meet
  (`GroupsFit`; finding 7); the MC module makes TLC evaluate that for the scripts of the run
  (`ProvedInstance`). `behind` is empty once the rules were announced after every other table at a
  moment with no packet left from before. The inductive invariant `ClassInv` follows a value from the
  tables to the record: a table that is being written is behind (`StoringInv`); a packet that met
  no announcement carries the zone and groups of the present tables (`ZonePending`,
  `GroupsPending`, `Fresh`), and one that did meet one keeps `behind` from being empty
  (`NotLate`); what is stored at the present magic of a table that is not behind is what the
  table says (`ZoneInv`, `GroupsInv`), and no stored magic is ahead (`MagicInv`; a magic that
  wraps is behind for good). Two packets of one terminal store in any order: between the reset
  and the search of one, another has left the record reset or right (`SearchKept`).
* `BitsNameGroups`: `BitsExact`, which `NosGroups.cfg` breaks with group 33, does hold for
  groups up to 30, unless the groups changed since they were announced; from the same invariant.
* `ReferencesExact` (`RefsExact`), until two lines of one device are at work at the same time
  (`clashed`). `RefsInv`: at every point a line holds the first of the ipsets it names
  (`HeldInv`), so that a refusal after any number of look-ups puts exactly these; on a device
  that never clashed one line is at work (`OneAtWork`), hence the entry it found before the
  wait is still there (`AtInv`); and the references are the sum of the columns of the
  tables and of what the lines hold (`BalanceInv`).

Where a proof needs a first or a last position (the rule that applies, the last statement that
touches a terminal), it comes from the well-foundedness of the natural numbers; no induction
over data is used.

Only model-checked:
* `CallbackEnds`, `Resumed`, `QueryReturns`, `ReceiverReturns`, `Recovers`, `Healed`,
  `BatchTaken`, `Drains`, `Drained` and `HooksBack`: liveness under fairness is beyond the
  prover used here.
* `Tbq`: `NoBug`, `Accounted`, `NeverStranded` and `BacklogBound`. Most of its
  operations and all of its accounts are folds over the rules of a flow, the packets of a
  queue or the users (`FoldLeft`, `FoldSet`, `MapThenSumSet`); what a fold computes needs induction over
  its list, which is beyond the prover.

## 6. Findings

1. **Id unregistered by a refused connect** (`sands.lua:100`, `SandsDuplicateId.cfg`). A
   connect refused as "already exist" has stored its parameters, so that closing it clears
   the entry of the client that owns the id; the next connect with that id is accepted
   beside it.
2. **Partial connect** (`sands.lua:284`, `SandsPartial.cfg`). When the first read holds
   part of a command, the loop decodes nothing and the restart of the timer indexes
   `climap.param`, which is nil.
3. **Answer against time-out** (`sandcproxy.lua:31`, `SandcQueryRace.cfg`). Both threads
   write to the query's channel in one round; core.lua asserts one writer.
4. **Full log inside a transaction** (`simplesql.lua:22`, `UpdateLogFull.cfg`). The copy
   is taken before the commit and the log is removed with the record.
5. **Time limits that put nobody offline** (`authlib.lua:97`, `AuthdTimeout.cfg`). The list
   of the terminals to remove is built from `t.ukey`, a field of the list itself, and stays
   empty. With `r.ukey` in its place TLC finds `TimedOut` satisfied.
6. **Rules forgotten at a reload** (`nacs_table.c:1246`, run `nacs_reload`). After any
   replacement a flow is judged again with the 16 bit id nproto stored, whereas the rules
   and the first judgement use the crc of the application's name: no rule applies to the
   flows already identified.
7. **Group bits in an int** (`nos_ipgrp.c:123`, `NosGroups.cfg`). `1 << id` is computed in 32
   bits with sign and stored in 64: group 33 sets bit 1, group 31 the bits 31 to 63, and
   nacs tests `1ULL << id`.
8. **Timer against a disable that timed out** (`tbq_core.c:1161`, `TbqTimeout.cfg`). The timer
   reads the status and what is pending without the lock and then asserts that every list is
   empty; a disable that times out meanwhile sets the status to running again
   (`tbq_config.c:699`, "TODO: bug ?"), and a packet that is queued in between fires the `BUG_ON`.
9. **Hooks enabled under another device's line** (`nos_auth.c:76`, `NosOverlap.cfg`).
   `nos_hook_disable` is one flag for three devices and is not counted; the init files and
   hotplug start the scripts in the background, so that a line of one device enables the hooks
   while one of another changes its table.

Met on the way, with no run of their own: a topic list with an empty part leaves its
earlier topics registered when the client closes, and the next publish asserts; a failing
write to the client being served closes it under its handler; a crash between the moves of
db.sh leaves no copy, and the next start creates an empty database beside the copy that was
moved away; a crash before the log is removed makes every start fail on the first insert it
repeats. In authd: the rows `wechat.on_login` reads have no user name, so that the login of
a terminal that has a row raises in `tomap` and ends the process (`wechat_login_raises`); a
bypass whose authd has exited, or whose login fails to insert its user (`wechat.lua:229`),
never ends; a login that meets a removal, or the forced removal after too many misses, can
leave a row whose terminal the kernel stops, and web.lua:127 then answers "online" to every
further login; a removal that meets the first load of the cache leaves cache and table in
disagreement (`cache.lua:42`, section 3.5); `miss_map` is never cleaned, because `each` gives the index first
(`kernel.lua:97`). Of those in the broker and the database, the runs exclude the first two
by `GoodInputs` and the last two by `exposed`.

In the kernel modules: removing tbq after a disable that timed out tears a running shaper
down, and a `BUG_ON` fires (`tbq_config.c:820`; with `UnloadRunning = TRUE` TLC breaks `NoBug`,
the runs exclude it). Two lines of one device that overlap may put an ipset twice or lose
an entry (no lock covers a table from look-up to store; nothing is claimed once `clashed`).
`nos_auth_hook` stores the new magic, BYPASS and rule 255 before it searches
(`nos_auth.c:158`): a packet of the same terminal on another CPU passes meanwhile, and a login
that authd sets between these stores is overwritten. "update magic" waits for nobody: a packet
may store the new magic with a rule found from the groups before. A
terminal that is classified before the zones are announced keeps rule 255 and passes until the
rules are announced again, and when hotplug restarts nos-zone nothing announces the rules:
terminals keep the rule of their former zone until nos-auth runs. `Classified` claims nothing
before the rules are announced last. A message node is listed before it
is filled (`ntrack_msg.c:107`). The error path of `do_replace_set` puts ids that were never
taken when the size is malformed (`nacs_table.c:536`), which the rule tool never sends; it is
left out of `Nacs`. `category >
RULE_TYPE_MAX` lets one value too many through (`nacs_table.c:611`). Group 63 acts as the
wildcard although `MAX_IPGRP` allows it. In the rule tool, the end of `do_commit_config` tests
`audit_table_info` and frees `control_table_info` (`rule_core.c:213`).

## 7. Not modelled

* Text formats and SQL; the byte level of the framing (a read is the commands it completes);
  loss of power without a sync of flash (the code asks for none); a failing command inside
  db.sh other than as a crash at that place.
* The connection loss of a sandc client (`close_client`, the ping thread, reconnect). The
  ping thread, the receiving thread and a publisher may each call `close_client` after a
  yield (`sandc.lua:43`), and a handler that sleeps keeps `run_internal` from reading.
* The database's sync and broadcast: rows the triggers add while a sync yields fall to the
  delete at its end (`database_x86/sync.lua:53`); the key column of the first row is used for
  every table (`database_ar71xx/sync.lua:125`). The caches of kv and authrule in authd.
* proxybase, whose error path after a failed write names a variable that does not exist
  (`sandc1.lua:50`); cloudcli's flag files; acmgr's queue.
* rdsparser, heap and ipops: sequential code on one argument.
* nproto's matching of patterns: which rule recognises a flow is a choice in `Nacs`. The
  kernel part of it carries a copy of PCRE2 with its JIT compiler: about 73 000 of
  the repository's 103 000 lines of C. It is third-party code and is not modelled, which is why
  the share of C lines behind the models is small although the modules that are the
  project's own (nos, nacs, tbq, the ring) are covered in their control. The Lua services
  come on top of these lines.
* Two CPUs with packets of one flow in nacs; nacs or nos loaded again; what happens after a
  wild write in `NtMsg`; the width of tbq's numbers and its list heads (section 3.6); the
  redirect and reset packets of nos, and the buffer in which its devices join lines.
