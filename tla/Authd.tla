------------------------------- MODULE Authd -------------------------------
(***************************************************************************)
(* Who is online, in authd (authd/files/authd).  The answer is kept three   *)
(* times: as the status of the terminal in the kernel, as a row of          *)
(* memo.online, and in online_cache.  Coroutines change the three in        *)
(* different orders and yield at statements and sends: the udp loop, a batch     *)
(* thread per kind of event (lualib-ac/files/batch.lua) and a time-out loop *)
(* per authentication module.  The database executes statements in the      *)
(* order they were sent, and the callers go on in that order.               *)
(***************************************************************************)
EXTENDS Naturals, Sequences, FiniteSets

CONSTANTS
  Ukeys,       \* terminals (uid_magic)
  Type,        \* Type[u]: the module that authenticates u
  MaxMiss,     \* keepalives without module before a terminal is put offline
  MaxRequests, \* bound: logins, removals and bypass requests
  MaxSent,     \* bound: statements under way at a time
  MaxCrashes   \* bound: exits of authd on a failed statement

Modules == {"auto", "web", "wechat"}

ASSUME AuthdAssumption ==
  /\ Type \in [Ukeys -> Modules]
  /\ MaxMiss \in Nat \ {0} /\ MaxRequests \in Nat /\ MaxSent \in Nat
  /\ MaxCrashes \in Nat

\* The coroutines: the udp loop; one per trigger; one loop per module.
Triggers == {"auto_alive", "web_alive", "wechat_alive", "web_login", "wechat_login"}
Loops    == {"auto_loop", "web_loop", "wechat_loop"}
Threads  == {"udp"} \union Triggers \union Loops
AliveOf(u) == CASE Type[u] = "auto" -> "auto_alive" [] Type[u] = "web" -> "web_alive"
                [] OTHER -> "wechat_alive"
LoginOf(u) == CASE Type[u] = "auto" -> {} [] Type[u] = "web" -> {"web_login"}
                [] OTHER -> {"wechat_login"}
TriggersOf(u) == {AliveOf(u)} \union LoginOf(u)
LoopType(t) == CASE t = "auto_loop" -> "auto" [] t = "web_loop" -> "web" [] OTHER -> "wechat"

VARIABLES
  kernel,        \* ui->hdr.status of each terminal
  rows,          \* memo.online: no row, one within the limits, or one that is without flow or
                 \* online (idle, old) for longer than the limits
  cache,         \* online_cache: <<>> until it is loaded, then <<ukeys>>
  miss,          \* miss_map: the count
  wechat_wait,   \* entries of wechat_wait_map, per terminal
  bypass_wait,   \* bypass_wait_map
  deadlines,     \* entries of the bypass time-out batch, per terminal
  batch,         \* per trigger: the cached events and whether its thread runs
  thread,        \* per coroutine: the statement it waits for, its ukeys, the result
  rpc, executed, \* statements sent, oldest first, and how many have been executed
  requests, crashes,
  restarted,     \* history: authd has been started again
  crossed        \* history: terminals a removal was under way for while the cache was being loaded

state == <<kernel, rows, cache, miss, wechat_wait, bypass_wait, deadlines, batch, thread,
           rpc, executed, requests, crashes, restarted>>
vars == <<state, crossed>>
waits  == <<wechat_wait, bypass_wait, deadlines>>
bounds == <<requests, crashes, restarted>>

\* next: what follows offline_ukeys; head: the ukeys it has put offline already.
Idle == [at |-> "idle", us |-> {}, rs |-> {}, next |-> "idle", head |-> {}]
Ats == {"idle", "get_module", "delete", "clear", "all", "user", "insert_user", "online",
        "insert", "set", "update", "expired", "stale", "reply", "force"}

TypeOK ==
  /\ kernel \in [Ukeys -> {"AUTH_OK", "AUTH_BYPASS", "AUTH_REQ"}]
  /\ rows \in [Ukeys -> {"none", "fresh", "idle", "old"}]
  /\ cache \in {<<>>} \union {<<S>> : S \in SUBSET Ukeys}
  /\ miss \in [Ukeys -> 0..MaxMiss]
  /\ wechat_wait \in [Ukeys -> 0..MaxRequests] /\ bypass_wait \subseteq Ukeys
  /\ deadlines \in [Ukeys -> 0..MaxRequests]
  /\ batch \in [Triggers -> [cache: SUBSET Ukeys, running: BOOLEAN]]
  /\ thread \in [Threads -> [at: Ats, us: SUBSET Ukeys, rs: SUBSET Ukeys,
                             next: {"idle", "stale"}, head: SUBSET Ukeys]]
  /\ rpc \in Seq(Threads) /\ executed \in 0..Len(rpc)
  /\ requests \in 0..MaxRequests /\ crashes \in 0..MaxCrashes /\ restarted \in BOOLEAN
  /\ crossed \subseteq Ukeys

Online == {u \in Ukeys : rows[u] # "none"}
Loaded == cache # <<>>

\* The state in which a started authd finds kernel and table.
Fresh ==
  /\ cache' = <<>> /\ miss' = [u \in Ukeys |-> 0]
  /\ wechat_wait' = [u \in Ukeys |-> 0] /\ bypass_wait' = {} /\ deadlines' = [u \in Ukeys |-> 0]
  /\ batch' = [b \in Triggers |-> [cache |-> {}, running |-> FALSE]]
  /\ thread' = [t \in Threads |-> Idle] /\ rpc' = <<>> /\ executed' = 0

Init ==
  /\ kernel = [u \in Ukeys |-> IF Type[u] = "auto" THEN "AUTH_OK" ELSE "AUTH_REQ"]
  /\ rows = [u \in Ukeys |-> "none"]
  /\ cache = <<>> /\ miss = [u \in Ukeys |-> 0]
  /\ wechat_wait = [u \in Ukeys |-> 0] /\ bypass_wait = {} /\ deadlines = [u \in Ukeys |-> 0]
  /\ batch = [b \in Triggers |-> [cache |-> {}, running |-> FALSE]]
  /\ thread = [t \in Threads |-> Idle] /\ rpc = <<>> /\ executed = 0
  /\ requests = 0 /\ crashes = 0 /\ restarted = FALSE /\ crossed = {}

Set(f, S, v) == [u \in Ukeys |-> IF u \in S THEN v ELSE f[u]]

-----------------------------------------------------------------------------
\* Statements.

\* A coroutine sends a statement and yields; q are the ones still on their way.
Ask(q, t, at, us, next, head) ==
  /\ thread' = [thread EXCEPT ![t] = [at |-> at, us |-> us, rs |-> {}, next |-> next, head |-> head]]
  /\ rpc' = Append(q, t)
Sleep(q, t) == thread' = [thread EXCEPT ![t] = Idle] /\ rpc' = q

\* What a statement does to the table, and what it may return.
\* An update of active ends the idle time, and lengthens the time online.
Written(at, us) ==
  CASE at = "insert" -> {Set(rows, us, "fresh")}
    [] at = "delete" -> {Set(rows, us, "none")}
    [] at = "update" -> {[u \in Ukeys |-> IF rows[u] = "none" \/ u \notin us THEN rows[u]
                                         ELSE IF u \in old \/ rows[u] = "old" THEN "old"
                                         ELSE "fresh"] : old \in SUBSET us}
    [] OTHER -> {rows}
Returned(t) ==
  LET at == thread[t].at
      us == thread[t].us
  IN CASE at = "online" -> {us \intersect Online}
       [] at = "user" -> SUBSET us                                \* registered users
       [] at = "stale" -> {{u \in Online : Type[u] = LoopType(t) /\ rows[u] \in {"idle", "old"}}}
       [] at = "expired" -> SUBSET {u \in Online : Type[u] = "web"} \* expired accounts
       [] at \in {"all", "get_module", "clear", "set"} -> {Online}
       [] OTHER -> {{}}

execute ==
  /\ executed < Len(rpc)
  /\ LET t == rpc[executed + 1] IN
     /\ rows' \in Written(thread[t].at, thread[t].us)
     /\ \E rs \in Returned(t) : thread' = [thread EXCEPT ![t].rs = rs]
  /\ executed' = executed + 1
  /\ UNCHANGED <<kernel, cache, miss, waits, batch, rpc, bounds>>

\* The answer to t's statement at is there and it is t's turn.
Resumes(t, at) ==
  /\ executed > 0 /\ Head(rpc) = t /\ thread[t].at = at
  /\ executed' = executed - 1
\* t has sent a datagram (an answer, a log line) and goes on.
Sent(t, at) == thread[t].at = at /\ UNCHANGED executed
Starts(t) == thread[t].at = "idle" /\ Len(rpc) < MaxSent /\ UNCHANGED executed
Rest == Tail(rpc)

-----------------------------------------------------------------------------
\* batch.lua.

EmitStopped(b, us) == [batch EXCEPT ![b].cache = @ \union us]     \* mutant: no thread
Emit(b, us) == [batch EXCEPT ![b] = [cache |-> @.cache \union us, running |-> TRUE]]

\* The loop of the batch thread takes what has gathered, or ends.
FirstStatement(b) ==
  CASE b \in {"web_login", "wechat_login"} -> "user" [] b = "auto_alive" -> "online"
    [] OTHER -> "update"
take(b) ==
  /\ batch[b].running /\ batch[b].cache # {} /\ Starts(b)
  /\ batch' = [batch EXCEPT ![b].cache = {}]
  /\ Ask(rpc, b, FirstStatement(b), batch[b].cache, "idle", {})
  /\ UNCHANGED <<kernel, rows, cache, miss, waits, bounds>>

stop(b) ==
  /\ batch[b].running /\ batch[b].cache = {} /\ Starts(b)
  /\ batch' = [batch EXCEPT ![b].running = FALSE]
  /\ UNCHANGED <<kernel, rows, cache, miss, waits, thread, rpc, bounds>>

-----------------------------------------------------------------------------
\* authlib.lua and cache.lua.

\* insert_online; q are the statements under way.
insert_online(q, t, us) ==
  /\ kernel' = Set(kernel, us, "AUTH_OK") /\ bypass_wait' = bypass_wait \ us
  /\ Ask(q, t, "insert", us, "idle", {})

\* Its end: set_module for each, which may have to load the cache first.
inserted(t) ==
  /\ Resumes(t, "insert")
  /\ \/ /\ Loaded
        /\ cache' = <<cache[1] \union thread[t].us>> /\ Sleep(Rest, t)
     \/ ~Loaded /\ Ask(Rest, t, "set", thread[t].us, "idle", {}) /\ UNCHANGED cache
  /\ UNCHANGED <<kernel, rows, miss, waits, batch, bounds>>

module_set(t) ==
  /\ Resumes(t, "set")
  /\ cache' = <<thread[t].rs \union thread[t].us>> /\ Sleep(Rest, t)
  /\ UNCHANGED <<kernel, rows, miss, waits, batch, bounds>>

\* offline_ukeys is the statement "delete" and what follows its reply: set_offline
\* and set_module(ukey, nil) for one ukey after the other.
Follow(t) ==
  \/ thread[t].next = "idle" /\ Sleep(Rest, t)
  \/ thread[t].next = "stale" /\ Ask(Rest, t, "stale", {}, "idle", {})

ForgetNone(S, us) == S                    \* mutant: set_module(ukey, nil) is missing
Forget(S, us) == S \ us
KeepKernel(us) == kernel                  \* mutant: set_offline is missing
PutOffline(us) == Set(kernel, us, "AUTH_REQ")
deleted(t) ==
  /\ Resumes(t, "delete")
  /\ LET us == thread[t].us IN
     \/ us = {} /\ Follow(t) /\ UNCHANGED <<kernel, cache>>
     \/ /\ us # {} /\ Loaded
        /\ kernel' = PutOffline(us) /\ cache' = <<Forget(cache[1], us)>> /\ Follow(t)
     \/ /\ us # {} /\ ~Loaded
        /\ \E u \in us : /\ kernel' = PutOffline({u})
                         /\ Ask(Rest, t, "clear", us \ {u}, thread[t].next, {u})
        /\ UNCHANGED cache
  /\ UNCHANGED <<rows, miss, waits, batch, bounds>>

cleared(t) ==
  /\ Resumes(t, "clear")
  /\ kernel' = PutOffline(thread[t].us)
  /\ cache' = <<Forget(thread[t].rs, thread[t].us \union thread[t].head)>> /\ Follow(t)
  /\ UNCHANGED <<rows, miss, waits, batch, bounds>>

\* The list timeout_offline makes of the rows it has read takes the ukey from the
\* list itself: it stays empty.
Listed(rs) == {}
loop_timeout_check(t) ==
  /\ Starts(t) /\ \E u \in Ukeys : Type[u] = LoopType(t)     \* the others find no row
  /\ Ask(rpc, t, IF t = "web_loop" THEN "expired" ELSE "stale", {}, "idle", {})
  /\ UNCHANGED <<kernel, rows, cache, miss, waits, batch, bounds>>

timeout_offline(t) ==
  /\ Resumes(t, "stale")
  /\ \/ thread[t].rs = {} /\ Sleep(Rest, t)
     \/ thread[t].rs # {} /\ Ask(Rest, t, "delete", Listed(thread[t].rs), "idle", {})
  /\ UNCHANGED <<kernel, rows, cache, miss, waits, batch, bounds>>

check_expire ==
  /\ Resumes("web_loop", "expired")
  /\ LET rs == thread["web_loop"].rs IN
     \/ rs = {} /\ Ask(Rest, "web_loop", "stale", {}, "idle", {})
     \/ rs # {} /\ Ask(Rest, "web_loop", "delete", rs, "stale", {})
  /\ UNCHANGED <<kernel, rows, cache, miss, waits, batch, bounds>>

-----------------------------------------------------------------------------
\* The udp loop (kernel.lua, act.lua and the commands of web.lua and wechat.lua).

\* keepalive, once online_cache is there: S is its content, q the statements.
\* A terminal of a module that is not there is counted, and put offline after the
\* log line when the count is full.
MissFull(u) == miss[u] >= MaxMiss
incr_miss(u, q) ==
  \/ /\ MissFull(u) /\ UNCHANGED miss
     /\ thread' = [thread EXCEPT !["udp"] = [Idle EXCEPT !.at = "force", !.us = {u}]] /\ rpc' = q
  \/ /\ ~MissFull(u) /\ Sleep(q, "udp")
     /\ miss' = [miss EXCEPT ![u] = @ + 1]
Keepalive(u, S, q) ==
  /\ \/ /\ u \in S \/ Type[u] = "auto"
        /\ cache' = <<S \union {u}>> /\ miss' = [miss EXCEPT ![u] = 0]
        /\ batch' = Emit(AliveOf(u), {u}) /\ Sleep(q, "udp")
     \/ /\ u \notin S /\ Type[u] # "auto" /\ incr_miss(u, q)
        /\ cache' = <<S>> /\ UNCHANGED batch
  /\ UNCHANGED <<kernel, rows, waits, bounds>>

force_offline ==
  /\ Sent("udp", "force") /\ kernel' = PutOffline(thread["udp"].us)
  /\ Sleep(rpc, "udp") /\ UNCHANGED <<rows, cache, miss, waits, batch, bounds>>

\* A keepalive may be handled long after the kernel has sent it.
keepalive(u) ==
  /\ Starts("udp")
  /\ \/ Loaded /\ Keepalive(u, cache[1], rpc)
     \/ /\ ~Loaded /\ Ask(rpc, "udp", "get_module", {u}, "idle", {})
        /\ UNCHANGED <<kernel, rows, cache, miss, waits, batch, bounds>>

module_got ==
  /\ Resumes("udp", "get_module")
  /\ \E u \in thread["udp"].us : Keepalive(u, thread["udp"].rs, Rest)

Request ==
  /\ Starts("udp") /\ requests < MaxRequests /\ requests' = requests + 1
  /\ UNCHANGED <<crashes, restarted>>

online_del(us) ==
  /\ Request /\ Ask(rpc, "udp", "delete", us, "idle", {})
  /\ UNCHANGED <<kernel, rows, cache, miss, waits, batch>>

online_delall ==
  /\ Request /\ Ask(rpc, "udp", "all", {}, "idle", {})
  /\ UNCHANGED <<kernel, rows, cache, miss, waits, batch>>
all_listed ==
  /\ Resumes("udp", "all") /\ Ask(Rest, "udp", "delete", thread["udp"].rs, "idle", {})
  /\ UNCHANGED <<kernel, rows, cache, miss, waits, batch, bounds>>

cloudlogin(u) ==
  /\ Type[u] = "web" /\ Request /\ batch' = Emit("web_login", {u})
  /\ UNCHANGED <<kernel, rows, cache, miss, waits, thread, rpc>>

\* cache.bypass: the terminal may pass for 20 seconds.
bypass(u) ==
  /\ kernel' = [kernel EXCEPT ![u] = "AUTH_BYPASS"]
  /\ bypass_wait' = bypass_wait \union {u} /\ deadlines' = [deadlines EXCEPT ![u] = @ + 1]

bypass_host(u) ==
  /\ Type[u] # "auto" /\ Request /\ bypass(u)
  /\ UNCHANGED <<rows, cache, miss, wechat_wait, batch, thread, rpc>>

wxlogin2info(u) ==
  /\ Type[u] = "wechat" /\ Request /\ bypass(u)
  /\ wechat_wait' = [wechat_wait EXCEPT ![u] = @ + 1]
  /\ UNCHANGED <<rows, cache, miss, batch, thread, rpc>>

weixin2_login(u) ==
  /\ Starts("udp") /\ wechat_wait[u] > 0
  /\ wechat_wait' = [wechat_wait EXCEPT ![u] = @ - 1] /\ bypass_wait' = bypass_wait \ {u}
  /\ batch' = Emit("wechat_login", {u})
  /\ UNCHANGED <<kernel, rows, cache, miss, deadlines, thread, rpc, bounds>>

on_wechat_timeout(u) ==
  /\ wechat_wait[u] > 0 /\ wechat_wait' = [wechat_wait EXCEPT ![u] = @ - 1]
  /\ UNCHANGED <<kernel, rows, cache, miss, bypass_wait, deadlines, batch, thread, rpc,
                 executed, bounds>>

on_bypass_timeout(u) ==
  /\ deadlines[u] > 0 /\ deadlines' = [deadlines EXCEPT ![u] = @ - 1]
  /\ kernel' = IF u \in bypass_wait THEN PutOffline({u}) ELSE kernel
  /\ bypass_wait' = bypass_wait \ {u}
  /\ UNCHANGED <<rows, cache, miss, wechat_wait, batch, thread, rpc, executed, bounds>>

-----------------------------------------------------------------------------
\* The callbacks of the triggers.

\* web.on_login: select from user, select from online, check, set_online, insert.
web_users ==
  /\ Resumes("web_login", "user")
  /\ Ask(Rest, "web_login", "online", thread["web_login"].rs, "idle", {})
  /\ UNCHANGED <<kernel, rows, cache, miss, waits, batch, bounds>>

web_login ==
  /\ Resumes("web_login", "online")
  /\ \E us \in SUBSET (thread["web_login"].us \ thread["web_login"].rs) :   \* check_user
       thread' = [thread EXCEPT !["web_login"] = [Idle EXCEPT !.at = "reply", !.us = us]]
  /\ rpc' = Rest /\ UNCHANGED <<kernel, rows, cache, miss, waits, batch, bounds>>

\* After the answers to the refused ones, set_online and an answer for each of the
\* others; head are the ones that have theirs.
web_reply(u) ==
  /\ Sent("web_login", "reply") /\ u \in thread["web_login"].us \ thread["web_login"].head
  /\ kernel' = Set(kernel, {u}, "AUTH_OK")
  /\ thread' = [thread EXCEPT !["web_login"].head = @ \union {u}]
  /\ UNCHANGED <<rows, cache, miss, waits, batch, rpc, bounds>>

web_insert ==
  /\ Sent("web_login", "reply") /\ thread["web_login"].us = thread["web_login"].head
  /\ LET us == thread["web_login"].us IN
     \/ us = {} /\ Sleep(rpc, "web_login") /\ UNCHANGED <<kernel, bypass_wait>>
     \/ us # {} /\ insert_online(rpc, "web_login", us)
  /\ UNCHANGED <<rows, cache, miss, wechat_wait, deadlines, batch, bounds>>

\* wechat.on_login: insert_new (two statements when a user is new; when the second
\* fails the login is dropped), then the online users.
wechat_users ==
  /\ Resumes("wechat_login", "user")
  /\ LET us == thread["wechat_login"].us IN
     \/ us = thread["wechat_login"].rs /\ Ask(Rest, "wechat_login", "online", us, "idle", {})
     \/ us # thread["wechat_login"].rs /\ Ask(Rest, "wechat_login", "insert_user", us, "idle", {})
  /\ UNCHANGED <<kernel, rows, cache, miss, waits, batch, bounds>>

wechat_user_inserted ==
  /\ Resumes("wechat_login", "insert_user")
  /\ \/ Ask(Rest, "wechat_login", "online", thread["wechat_login"].us, "idle", {})
     \/ Sleep(Rest, "wechat_login")
  /\ UNCHANGED <<kernel, rows, cache, miss, waits, batch, bounds>>

\* The rows have no username: tomap raises when there is one, and authd exits.
wechat_login ==
  /\ thread["wechat_login"].rs = {} /\ Resumes("wechat_login", "online")
  /\ insert_online(Rest, "wechat_login", thread["wechat_login"].us)
  /\ UNCHANGED <<rows, cache, miss, wechat_wait, deadlines, batch, bounds>>

wechat_login_raises ==
  /\ executed > 0 /\ Head(rpc) = "wechat_login" /\ thread["wechat_login"].at = "online"
  /\ thread["wechat_login"].rs # {}
  /\ restarted' = TRUE /\ Fresh /\ UNCHANGED <<kernel, rows, requests, crashes>>

\* auto.on_keepalive_batch: those with a row are updated, the others inserted.
auto_online ==
  /\ Resumes("auto_alive", "online")
  /\ LET rs == thread["auto_alive"].rs
         new == thread["auto_alive"].us \ rs
     IN \/ /\ rs # {}
           /\ thread' = [thread EXCEPT ![ "auto_alive"] =
                [at |-> "update", us |-> rs, rs |-> {}, next |-> "idle", head |-> new]]
           /\ rpc' = Append(Rest, "auto_alive") /\ UNCHANGED <<kernel, bypass_wait>>
        \/ rs = {} /\ insert_online(Rest, "auto_alive", new)
  /\ UNCHANGED <<rows, cache, miss, wechat_wait, deadlines, batch, bounds>>

\* The update is done; auto_alive goes on with the new ones, the others are finished.
updated(t) ==
  /\ Resumes(t, "update")
  /\ \/ thread[t].head = {} /\ Sleep(Rest, t) /\ UNCHANGED <<kernel, bypass_wait>>
     \/ thread[t].head # {} /\ insert_online(Rest, t, thread[t].head)
  /\ UNCHANGED <<rows, cache, miss, wechat_wait, deadlines, batch, bounds>>

-----------------------------------------------------------------------------
\* The kernel lets a terminal of an auto rule pass again with its next packet.
nos_auth_hook(u) ==
  /\ Type[u] = "auto" /\ kernel[u] = "AUTH_REQ"
  /\ kernel' = [kernel EXCEPT ![u] = "AUTH_OK"]
  /\ UNCHANGED <<rows, cache, miss, waits, batch, thread, rpc, executed, bounds>>

\* The time since a row's last keepalive runs over its limit.
expire(u) ==
  /\ rows[u] = "fresh" /\ rows' = [rows EXCEPT ![u] = "idle"]
  /\ UNCHANGED <<kernel, cache, miss, waits, batch, thread, rpc, executed, bounds>>

\* A statement fails or is not answered in time: an assert ends authd, and procd
\* starts it again.
crash ==
  /\ rpc # <<>> /\ crashes < MaxCrashes /\ crashes' = crashes + 1 /\ restarted' = TRUE
  /\ Fresh /\ UNCHANGED <<kernel, rows, requests>>

Reply ==
  \/ execute \/ module_got \/ all_listed \/ check_expire
  \/ web_users \/ web_login \/ wechat_users \/ wechat_user_inserted
  \/ wechat_login \/ wechat_login_raises \/ auto_online
  \/ \E t \in Threads : inserted(t) \/ module_set(t) \/ deleted(t) \/ cleared(t)
                        \/ timeout_offline(t) \/ updated(t)
Answered == force_offline \/ web_insert \/ \E u \in Ukeys : web_reply(u)
Message ==
  \E u \in Ukeys : \/ keepalive(u) \/ cloudlogin(u) \/ bypass_host(u) \/ wxlogin2info(u)
                   \/ weixin2_login(u)
Timeout == \E u \in Ukeys : on_wechat_timeout(u) \/ on_bypass_timeout(u)

\* The first look at online_cache loads it, and every coroutine that finds it
\* missing sends a select of its own; the last answer counts.
Loads == {"get_module", "set", "clear"}
Loading == ~Loaded \/ \E t \in Threads : thread[t].at \in Loads
Removing(u) == \E t \in Threads : /\ thread[t].at \in {"delete", "clear"}
                                  /\ u \in thread[t].us \union thread[t].head
Crossing == {u \in Ukeys : Loading /\ Removing(u)}

Step ==
  \/ Reply \/ Answered \/ Message \/ Timeout
  \/ (\E us \in SUBSET Ukeys \ {{}} : online_del(us)) \/ online_delall
  \/ (\E b \in Triggers : take(b) \/ stop(b))
  \/ (\E t \in Loops : loop_timeout_check(t))
  \/ (\E u \in Ukeys : nos_auth_hook(u) \/ expire(u))
  \/ crash

Next == Step /\ crossed' = IF cache' = <<>> /\ rpc' = <<>> THEN {} ELSE crossed \union Crossing'

\* Statements are answered, datagrams sent, batch threads and loops run, deadlines pass, and the
\* kernel reports each terminal that is online: the message is received when the
\* udp loop waits for one.  Strong fairness where MaxSent or the loop's other
\* messages disable a step again and again.
Fairness ==
  /\ WF_state(Reply) /\ WF_state(force_offline)
  /\ WF_state(web_insert) /\ \A u \in Ukeys : WF_state(web_reply(u))
  /\ \A u \in Ukeys :
       /\ \A b \in TriggersOf(u) : SF_state(take(b))
       /\ \A t \in Loops : LoopType(t) = Type[u] => SF_state(loop_timeout_check(t))
       /\ SF_state(kernel[u] = "AUTH_OK" /\ keepalive(u))
       /\ WF_state(on_bypass_timeout(u))
Spec == Init /\ [][Next]_vars /\ Fairness

-----------------------------------------------------------------------------
\* Something is under way for u: it is in a thread's hands or in a batch.
Busy(u) ==
  \/ \E t \in Threads : u \in thread[t].us \union thread[t].rs \union thread[t].head
  \/ \E b \in Triggers : u \in batch[b].cache

\* online_cache and memo.online agree on every terminal nothing is under way for,
\* although the cache is loaded, set and cleared in other coroutines, and at other
\* times, than the table; unless the terminal was removed while the cache was being
\* loaded, when an answer that comes late undoes what was set meanwhile.
CacheFollowsTable ==
  Loaded => \A u \in Ukeys \ crossed : ~Busy(u) => (u \in cache[1] <=> u \in Online)

\* No terminal that has to log in passes without a row: removing a row and
\* putting the terminal offline are two steps, and so are letting it pass and
\* inserting the row.
OnlineHasRow ==
  ~restarted => \A u \in Ukeys :
    Type[u] # "auto" /\ ~Busy(u) /\ kernel[u] = "AUTH_OK" => u \in Online

\* Whatever authd's exits leave behind, a terminal the kernel lets pass is in the
\* table again or is put offline by the count of its keepalives.
Healed ==
  \A u \in Ukeys : (kernel[u] = "AUTH_OK" /\ u \notin Online)
    ~> (kernel[u] # "AUTH_OK" \/ u \in Online)

\* Every event given to a batch is taken out of it: the thread does not end with
\* an event left and is not missing when one comes.
BatchTaken ==
  \A u \in Ukeys : \A b \in TriggersOf(u) :
    u \in batch[b].cache ~> u \notin batch[b].cache

\* "timed and no-flow offline" (authlib.lua:81): a terminal that is online for
\* longer than auth_offline_time is removed from the table.
TimedOut == \A u \in Ukeys : rows[u] = "old" ~> rows[u] # "old"

=============================================================================
