-------------------------------- MODULE Tbq --------------------------------
(***************************************************************************)
(* The traffic shaper (drivers/tbq): token classes, the backlogs of users  *)
(* and flows that wait for them, the timer that activates the classes      *)
(* again, the netfilter hook and queue handler, and the control file that  *)
(* disables, enables and reloads the shaper.                               *)
(*                                                                         *)
(* A token class (struct tbq_token_ctrl) belongs to a bucket, <<r>>, or to *)
(* a user of a rule, <<u, r>>.  A backlog (struct tbq_backlog) is the one  *)
(* of a flow, linked to a user's class, or that of a user, linked to its   *)
(* bucket's class and named as the user's class is.  One packet direction  *)
(* is modelled; the two share the lock, the timer and backlog_packets.     *)
(*                                                                         *)
(* Everything tbq.lock protects is one record, q.  The packet path holds   *)
(* the lock for one step each time it takes it, the timer for one step per *)
(* turn of its loops.  Time is kept relative: age is jiffies - tc->jiffies *)
(* (negative while the class waits, and cut off at HZ, beyond which the    *)
(* code does not tell values apart) and lag is jiffies - timer->jiffies.   *)
(***************************************************************************)
EXTENDS Integers, Sequences, SequencesExt, FiniteSets, FiniteSetsExt

CONSTANTS
  Rules,        \* the configured rules, numbered as their bits in rule_mask
  Users,        \* nos_user_track
  Flows,        \* nos_track
  UserOf,       \* Flows -> Users
  Mask,         \* Flows -> SUBSET Rules: rule_mask of the flow
  Weight,       \* the users' classes -> weight of the address rule that matched
  Rate,         \* tokens_per_jiffy of each class
  Lens,         \* packet lengths
  Quantum,      \* 1 << TBQ_DRR_QUANTUM_SHIFT
  LatencyShift, \* config.latency_shift
  MaxBacklog,   \* config.max_backlog_packets
  HZ,
  MaxLag,       \* how late the timer may run
  Cpus,         \* processors that handle packets
  MaxCommands,  \* writes to the control file
  UnloadRunning, \* TRUE: the module may be removed while the shaper runs
  None

Buckets   == {<<r>> : r \in Rules}
UserTcs   == Users \X Rules
Tcs       == Buckets \union UserTcs
Backlogs  == Flows \union UserTcs
Bucket(x) == <<x[2]>>

ASSUME TbqAssumption ==
  /\ Rules \subseteq Nat /\ IsFiniteSet(Rules)
  /\ UserOf \in [Flows -> Users] /\ Mask \in [Flows -> SUBSET Rules]
  /\ Weight \in [UserTcs -> Nat \ {0}] /\ Rate \in [Tcs -> Nat \ {0}]
  /\ Lens \subseteq Nat \ {0} /\ Quantum \in Nat \ {0}
  /\ {HZ, MaxBacklog, LatencyShift, MaxLag, MaxCommands} \subseteq Nat /\ MaxLag <= HZ
  /\ UnloadRunning \in BOOLEAN /\ None \notin Tcs

VARIABLES
  q,         \* what tbq.lock protects
  status,    \* tbq.status
  timer,     \* where tbq_timer_func is: "idle"; "feed", "user", "bucket" under the lock;
             \* "notify", "pending", "assert", "complete" after it ...
  cur,       \* ... and the class it is working on
  lag,       \* jiffies - timer->jiffies
  inflight,  \* Cpus -> the packet the hook sent to the queue and outfn has not had yet
  ctl,       \* where the writer of the control file is
  reload,    \* the command it carries out
  grace,     \* readers a synchronize_rcu still waits for
  done,      \* disable_done
  overrun,   \* history: a disable gave up while the timer means to notify it
  commands   \* writes to the control file so far

vars == <<q, status, timer, cur, lag, inflight, ctl, reload, grace, done, overrun, commands>>

NoPacket == [flow |-> None, len |-> 0]

-----------------------------------------------------------------------------
(* Backlogs *)

\* A BUG_ON whose condition is cond.
Bug(s, cond) == [s EXCEPT !.bug = @ \/ cond]

tbq_backlog_init(w) == [tc |-> None, octets |-> 0, weight |-> w, deficit |-> 0]

tbq_backlog_attach(s, b, t) ==
  IF s.bl[b].tc # None THEN s
  ELSE [s EXCEPT !.units[t] = Append(@, b),
                 !.bl[b].tc = t,
                 !.bl[b].deficit = s.bl[b].weight * Quantum]

\* The deficit means nothing until the next attach and is forgotten.
tbq_backlog_detach(s, b) ==
  IF s.bl[b].tc = None THEN s
  ELSE [s EXCEPT !.units[s.bl[b].tc] = SelectSeq(@, LAMBDA x : x # b),
                 !.bl[b].tc = None, !.bl[b].deficit = 0]

tbq_backlog_enqueue(s, b, n) == [s EXCEPT !.bl[b].octets = @ + n]

tbq_backlog_dequeue(s, b, n) ==
  LET t == [Bug(s, s.bl[b].octets < n) EXCEPT !.bl[b].octets = @ - n]
  IN  IF t.bl[b].octets = 0 THEN tbq_backlog_detach(t, b) ELSE t

tbq_backlog_drr_schedule(s, b, n) ==
  LET t == s.bl[b].tc
      d == s.bl[b].deficit - n
  IN  IF t = None THEN s
      ELSE IF d >= 0 THEN [s EXCEPT !.bl[b].deficit = d]
      ELSE [s EXCEPT !.bl[b].deficit = d + s.bl[b].weight * Quantum,
                     !.units[t] = Append(SelectSeq(@, LAMBDA x : x # b), b)]

\* The share of a backlog in what its class can send within the latency.
tbq_backlog_max_octets(s, b, parent) ==
  LET t == s.bl[b].tc
      latency == Rate[t] * 2^LatencyShift
      total == IF parent # None /\ parent < latency THEN parent ELSE latency
  IN  (total \div s.weight[t]) * s.bl[b].weight
        + ((total % s.weight[t]) * s.bl[b].weight) \div s.weight[t]

(* Flows *)

Linked(s, b) == \E x \in Tcs : b \in Range(s.units[x])

\* The BUG_ONs of tbq_backlog_empty: list, class and octets agree.
BacklogBug(s, b) == {Linked(s, b), s.bl[b].tc # None, s.bl[b].octets # 0} = BOOLEAN

\* Those of tbq_flow_backlog_empty: and so do the packets.
FlowBug(s, f) == BacklogBug(s, f) \/ Linked(s, f) # (s.packets[f] # <<>>)

tbq_flow_backlog_empty(s, f) == ~Linked(s, f)

\* A flow waits for the bucket if that is inactive, else for the user's class.
tbq_flow_backlog_attach(s, f, x) ==
  LET b  == Bucket(x)
      s1 == Bug(s, s.bl[f].tc # None \/ {b, x} \cap Range(s.timer) = {})
      s2 == IF b \in Range(s1.timer) THEN tbq_backlog_attach(s1, x, b) ELSE s1
      s3 == tbq_backlog_enqueue(s2, x, s2.bl[f].octets)
  IN  [tbq_backlog_attach(s3, f, x) EXCEPT !.bl[f].weight = 1]

tbq_flow_backlog_detach(s, f) ==
  tbq_backlog_detach(tbq_backlog_dequeue(s, s.bl[f].tc, s.bl[f].octets), f)

tbq_flow_backlog_enqueue(s, f, n) ==
  LET t == tbq_backlog_enqueue(tbq_backlog_enqueue(s, s.bl[f].tc, n), f, n)
  IN  [t EXCEPT !.packets[f] = Append(@, n)]

\* rest is what is left of the flow's packets.
tbq_flow_backlog_dequeue(s, f, n, rest) ==
  LET t == tbq_backlog_dequeue(tbq_backlog_dequeue(s, s.bl[f].tc, n), f, n)
  IN  [t EXCEPT !.packets[f] = rest]

tbq_user_backlog_update(s, x, n, w) ==
  LET b   == Bucket(x)
      old == s.octets[x]
      new == old + n
      in  == old = 0
      out == new = 0
  IN  [s EXCEPT !.bug = @ \/ (in /\ (s.weight[x] # 0 \/ w <= 0 \/ n <= 0))
                          \/ (out /\ (s.weight[x] + w # 0 \/ w >= 0 \/ n >= 0)),
                !.octets[b] = @ + n,
                !.octets[x] = new,
                !.weight[x] = @ + w,
                !.weight[b] = @ + (IF in THEN s.bl[x].weight ELSE 0)
                                - (IF out THEN s.bl[x].weight ELSE 0)]

Ascending(R) == SetToSortSeq(R, LAMBDA i, j : i < j)

\* edge: the packet is the first or the last of the flow's backlog.
tbq_packet_ctrl_backlog_update(s, f, n, edge) ==
  LET w == IF ~edge THEN 0 ELSE IF n < 0 THEN -1 ELSE 1
      update(t, r) == tbq_user_backlog_update(t, <<UserOf[f], r>>, n, w)
  IN  FoldLeft(update, s, Ascending(Mask[f]))

-----------------------------------------------------------------------------
(* Token classes and their timer *)

\* Sleep until the tokens are repaid.
tbq_token_ctrl_deactivate(s, x) ==
  LET expire == (Rate[x] - 1 - s.tokens[x]) \div Rate[x]
  IN  [Bug(s, s.tokens[x] >= 0 \/ x \in Range(s.timer)) EXCEPT
         !.inactive = @ \union {x},
         !.tokens[x] = @ + expire * Rate[x],
         !.age[x] = -expire,
         !.timer = Append(@, x)]

\* The tokens earned since the class was last fed, if they repay the debt.
tbq_token_ctrl_feed(s, x) ==
  LET fed == s.tokens[x] + Rate[x] * s.age[x]
  IN  IF s.age[x] = 0 \/ fed < 0 THEN tbq_token_ctrl_deactivate(s, x)
      ELSE [s EXCEPT !.tokens[x] = fed, !.age[x] = 0]

tbq_token_ctrl_consume(s, x, n) ==
  LET t == [Bug(s, s.tokens[x] < 0 \/ x \in Range(s.timer)) EXCEPT !.tokens[x] = @ - n]
  IN  IF t.tokens[x] >= 0 THEN t ELSE tbq_token_ctrl_feed(t, x)

\* Mutant: the classes of the buckets are not looked at.
PendingIgnoresBuckets(s, f) ==
  LET U == {r \in Mask[f] : <<UserOf[f], r>> \in s.inactive}
  IN  IF U # {} THEN <<UserOf[f], Min(U)>> ELSE None

\* The class a packet of the flow has to wait for, None if there is none.
PendingUser(s, f) ==
  LET B == {r \in Mask[f] : <<r>> \in s.inactive}
      U == {r \in Mask[f] : <<UserOf[f], r>> \in s.inactive}
  IN  IF B # {} THEN <<UserOf[f], Min(B)>>
      ELSE IF U # {} THEN <<UserOf[f], Min(U)>> ELSE None

tbq_packet_ctrl_consume(s, f, n) ==
  LET tbq_user_consume(t, r) ==
        tbq_token_ctrl_consume(tbq_token_ctrl_consume(t, <<r>>, n), <<UserOf[f], r>>, n)
  IN  FoldLeft(tbq_user_consume, s, Ascending(Mask[f]))

\* Packets beyond the flow's share are dropped, the last one first.
tbq_flow_backlog_drop(s, f) ==
  LET x    == s.bl[f].tc
      user == IF s.bl[x].tc = None THEN None ELSE tbq_backlog_max_octets(s, x, None)
      max  == tbq_backlog_max_octets(s, f, user)
      drop(t, i) ==
        IF t.bl[f].octets <= max THEN t
        ELSE LET n == Last(t.packets[f])
                 u == tbq_flow_backlog_dequeue(t, f, n, Front(t.packets[f]))
             IN  [tbq_packet_ctrl_backlog_update(u, f, -n, u.bl[f].octets = 0)
                    EXCEPT !.dropped = @ + 1]
  IN  FoldLeft(drop, s, s.packets[f])

\* Send the flow's first packet, or let the flow wait for another class.
tbq_flow_backlog_try_dequeue(s, f) ==
  LET s0   == tbq_flow_backlog_drop(Bug(s, FlowBug(s, f) \/ tbq_flow_backlog_empty(s, f)), f)
      x    == s0.bl[f].tc
      s1   == Bug(s0, FlowBug(s0, f) \/ x \in Range(s0.timer))
      n    == Head(s1.packets[f])
      pend == PendingUser(s1, f)
      s2   == tbq_packet_ctrl_consume(s1, f, n)
      s3   == tbq_backlog_drr_schedule(tbq_backlog_drr_schedule(s2, x, n), f, n)
      s4   == tbq_flow_backlog_dequeue(s3, f, n, Tail(s3.packets[f]))
  IN  IF tbq_flow_backlog_empty(s1, f) THEN s1
      ELSE IF pend # None
      THEN Bug(tbq_flow_backlog_attach(tbq_flow_backlog_detach(s1, f), f, pend), pend = x)
      ELSE [tbq_packet_ctrl_backlog_update(s4, f, -n, s4.bl[f].octets = 0)
              EXCEPT !.sent = @ + 1]

-----------------------------------------------------------------------------
(* The packet path: tbq_nf_hook and tbq_enqueue *)

LockFree == timer \notin {"feed", "user", "bucket"}
Readers  == {c \in Cpus : inflight[c] # NoPacket} \union (IF timer = "idle" THEN {} ELSE {"timer"})

\* Mutant: the limit is off by one.
FilterOneMore(s, f, n) ==
  LET s1 == [s EXCEPT !.users = @ \union {UserOf[f]}, !.flows = @ \union {f}]
  IN  IF Mask[f] = {} THEN [verdict |-> "accept", q |-> s1]
      ELSE IF tbq_flow_backlog_empty(s1, f) /\ PendingUser(s1, f) = None
      THEN [verdict |-> "accept", q |-> tbq_packet_ctrl_consume(s1, f, n)]
      ELSE [verdict |-> IF s1.backlog_packets > MaxBacklog THEN "drop" ELSE "queue", q |-> s1]

tbq_filter_packet(s, f, n) ==
  LET s0 == [s EXCEPT !.users = @ \union {UserOf[f]}, !.flows = @ \union {f}]
      s1 == Bug(s0, Mask[f] # {} /\ FlowBug(s0, f))
  IN  IF Mask[f] = {} THEN [verdict |-> "accept", q |-> s1]
      ELSE IF tbq_flow_backlog_empty(s1, f) /\ PendingUser(s1, f) = None
      THEN [verdict |-> "accept", q |-> tbq_packet_ctrl_consume(s1, f, n)]
      ELSE IF s1.backlog_packets >= MaxBacklog THEN [verdict |-> "drop", q |-> s1]
      ELSE [verdict |-> "queue", q |-> s1]

tbq_nf_hook(c, f, n) ==
  /\ inflight[c] = NoPacket /\ status = "running" /\ LockFree
  /\ LET res == tbq_filter_packet(q, f, n)
     IN  /\ q' = res.q
         /\ inflight' = IF res.verdict = "queue"
                        THEN [inflight EXCEPT ![c] = [flow |-> f, len |-> n]] ELSE inflight
  /\ UNCHANGED <<status, timer, cur, lag, ctl, reload, grace, done, overrun, commands>>

Enqueued(s, f, n, edge) ==
  [tbq_packet_ctrl_backlog_update(tbq_flow_backlog_enqueue(s, f, n), f, n, edge)
     EXCEPT !.backlog_packets = @ + 1]

\* The packet joins the flow's backlog; is sent, if no class holds it back any
\* more; or is lost together with the packets that exceed the flow's share.
EnqueueUnderLock(s, f, n) ==
  LET pend == PendingUser(s, f)
      d    == tbq_flow_backlog_drop(s, f)
  IN  IF tbq_flow_backlog_empty(s, f)
      THEN IF pend = None THEN tbq_packet_ctrl_consume(s, f, n)
           ELSE Enqueued(tbq_flow_backlog_attach(s, f, pend), f, n, TRUE)
      ELSE IF d.dropped > 0
      THEN [d EXCEPT !.backlog_packets = @ - d.dropped, !.dropped = 0]
      ELSE Enqueued(d, f, n, FALSE)

tbq_enqueue(c) ==
  /\ inflight[c] # NoPacket
  /\ \/ status # "running" /\ UNCHANGED q
     \/ /\ status = "running" /\ LockFree
        /\ q' = EnqueueUnderLock(Bug(q, FlowBug(q, inflight[c].flow)),
                                 inflight[c].flow, inflight[c].len)
  /\ inflight' = [inflight EXCEPT ![c] = NoPacket]
  /\ grace' = grace \ {c}
  /\ UNCHANGED <<status, timer, cur, lag, ctl, reload, done, overrun, commands>>

-----------------------------------------------------------------------------
(* tbq_timer_func: one step per turn of a loop, the lock held from Begin to Unlock *)

Due == SelectSeq(q.timer, LAMBDA x : q.age[x] = lag)

Goto(t, x) == timer' = t /\ cur' = x

TimerKeeps == UNCHANGED <<status, inflight, ctl, reload, overrun, commands>>

TimerBegin ==
  /\ timer = "idle" /\ lag >= 0 /\ status # "removed"
  /\ Goto("feed", None)
  /\ TimerKeeps /\ UNCHANGED <<q, lag, grace, done>>

\* tbq_token_ctrl_activate: the class leaves the timer and its backlog is served,
\* that of a user only if it does not wait for the bucket.
TimerActivate ==
  /\ timer = "feed" /\ Due # <<>>
  /\ LET x == Head(Due)
     IN  /\ q' = [Bug(q, q.tokens[x] < 0) EXCEPT
                    !.timer = SelectSeq(@, LAMBDA y : y # x), !.inactive = @ \ {x}]
         /\ IF x \in Buckets THEN Goto("bucket", x)
            ELSE IF q.bl[x].tc = None THEN Goto("user", x) ELSE Goto("feed", None)
  /\ TimerKeeps /\ UNCHANGED <<lag, grace, done>>

\* Mutant: a user whose bucket sleeps is left alone.
UserDequeueNoAttach ==
  /\ timer = "user"
  /\ IF cur \in Range(q.timer) \/ q.units[cur] = <<>> \/ Bucket(cur) \in Range(q.timer)
     THEN Goto("feed", None) /\ UNCHANGED q
     ELSE q' = tbq_flow_backlog_try_dequeue(q, Head(q.units[cur])) /\ UNCHANGED <<timer, cur>>
  /\ TimerKeeps /\ UNCHANGED <<lag, grace, done>>

tbq_user_dequeue ==
  /\ timer = "user"
  /\ IF cur \in Range(q.timer) \/ q.units[cur] = <<>> THEN Goto("feed", None) /\ UNCHANGED q
     ELSE IF Bucket(cur) \in Range(q.timer)
     THEN q' = tbq_backlog_attach(q, cur, Bucket(cur)) /\ Goto("feed", None)
     ELSE /\ LET first == Head(q.units[cur])
             IN  q' = tbq_flow_backlog_try_dequeue(Bug(q, q.bl[first].tc # cur), first)
          /\ UNCHANGED <<timer, cur>>
  /\ TimerKeeps /\ UNCHANGED <<lag, grace, done>>

tbq_bucket_dequeue ==
  /\ timer = "bucket"
  /\ IF cur \in Range(q.timer) \/ q.units[cur] = <<>> THEN Goto("feed", None) /\ UNCHANGED q
     ELSE LET x == Head(q.units[cur])
              s == Bug(q, q.bl[x].tc # cur \/ BacklogBug(q, x))
              first == Head(q.units[x])
          IN  /\ q' = IF x \in Range(q.timer) THEN tbq_backlog_detach(s, x)
                      ELSE IF q.units[x] = <<>> THEN Bug(s, TRUE)
                      ELSE tbq_flow_backlog_try_dequeue(Bug(s, q.bl[first].tc # x), first)
              /\ UNCHANGED <<timer, cur>>
  /\ TimerKeeps /\ UNCHANGED <<lag, grace, done>>

\* timer->jiffies++ once the slot is served.
TimerSlot ==
  /\ timer = "feed" /\ Due = <<>> /\ lag >= 0
  /\ lag' = lag - 1
  /\ TimerKeeps /\ UNCHANGED <<q, timer, cur, grace, done>>

\* Mutant: dropped packets stay in the count.
UnlockSentOnly ==
  /\ timer = "feed" /\ lag < 0
  /\ q' = [q EXCEPT !.backlog_packets = @ - q.sent, !.sent = 0, !.dropped = 0]
  /\ Goto("notify", None)
  /\ TimerKeeps /\ UNCHANGED <<lag, grace, done>>

TimerUnlock ==
  /\ timer = "feed" /\ lag < 0
  /\ q' = [q EXCEPT !.backlog_packets = @ - (q.sent + q.dropped), !.sent = 0, !.dropped = 0]
  /\ Goto("notify", None)
  /\ TimerKeeps /\ UNCHANGED <<lag, grace, done>>

\* The rest of tbq_timer_func holds no lock: each of its reads is a step of its own, in
\* the read section that tbq_status_set waits for. The section ends with the last of
\* them; ending it there and not a moment later only lets the others go on.
TimerLeaves ==
  /\ Goto("idle", None)
  /\ grace' = grace \ {"timer"}
  /\ overrun' = FALSE

TimerReads(at, cond, then) ==
  /\ timer = at
  /\ IF cond THEN Goto(then, None) /\ UNCHANGED <<grace, overrun>> ELSE TimerLeaves
  /\ UNCHANGED <<q, status, lag, inflight, ctl, reload, done, commands>>

\* Mutant: only a timer that ran before WAITING_STOP notifies.
NotifyEarlyOnly == TimerReads("notify", status = "stopping", "pending")

TimerStatus  == TimerReads("notify", status = "waiting", "pending")
TimerPending == TimerReads("pending", q.timer = <<>>, "assert")

\* Its BUG_ONs are recorded apart from the others.
tbq_timer_assert_unused ==
  /\ timer = "assert"
  /\ q' = [q EXCEPT !.used = @ \/ q.timer # <<>>]
  /\ Goto("complete", None)
  /\ TimerKeeps /\ UNCHANGED <<lag, grace, done>>

TimerComplete ==
  /\ timer = "complete" /\ done' = TRUE
  /\ TimerLeaves
  /\ UNCHANGED <<q, status, lag, inflight, ctl, reload, commands>>

\* jiffies advances; not while the timer only steps over slots, which takes no time.
Tick ==
  /\ lag < MaxLag /\ status # "removed" /\ timer # "feed"
  /\ lag' = lag + 1
  /\ q' = [q EXCEPT !.age = [x \in Tcs |->
             IF x \in UserTcs /\ x[1] \notin q.users THEN 0
             ELSE IF q.age[x] = HZ THEN HZ ELSE q.age[x] + 1]]
  /\ UNCHANGED <<status, timer, cur, inflight, ctl, reload, grace, done, overrun, commands>>

Timer == TimerBegin \/ TimerActivate \/ tbq_user_dequeue \/ tbq_bucket_dequeue
           \/ TimerSlot \/ TimerUnlock \/ TimerStatus \/ TimerPending
           \/ tbq_timer_assert_unused \/ TimerComplete

-----------------------------------------------------------------------------
(* Users and flows that go away *)

\* tbq_token_ctrl_assert_unused
Used(s, x) == s.units[x] # <<>> \/ s.octets[x] # 0 \/ s.weight[x] # 0

\* Fields of class x and, for a user, of its backlog, as their init functions leave them.
tbq_token_ctrl_init(s, X) ==
  [s EXCEPT !.tokens = [x \in Tcs |-> IF x \in X THEN 0 ELSE @[x]],
            !.age    = [x \in Tcs |-> IF x \in X THEN 0 ELSE @[x]],
            !.bl     = [b \in Backlogs |->
                          IF b \in X \cap UserTcs THEN tbq_backlog_init(Weight[b]) ELSE @[b]]]

\* Classes of the user that still sleep are taken from the timer.
tbq_user_track_free(s, u) ==
  LET X == {x \in UserTcs : x[1] = u}
      t == [s EXCEPT !.timer = SelectSeq(@, LAMBDA x : x \notin X), !.inactive = @ \ X,
                     !.users = @ \ {u}]
  IN  tbq_token_ctrl_init(
        Bug(t, \E x \in X : \/ Used(s, x) \/ s.bl[x].tc # None \/ s.bl[x].octets # 0
                            \/ (x \in s.inactive /\ (s.tokens[x] < 0 \/ x \notin Range(s.timer)))),
        X)

tbq_flow_track_cleanup(s, f) ==
  [Bug(s, s.bl[f].tc # None \/ s.bl[f].octets # 0 \/ s.packets[f] # <<>>) EXCEPT
     !.flows = @ \ {f}, !.bl[f] = tbq_backlog_init(0)]

InHook(f) == \E c \in Cpus : inflight[c].flow = f

Freed(s) == q' = s /\ UNCHANGED <<status, timer, cur, lag, inflight, ctl, reload, grace, done, overrun, commands>>

\* The connection is destroyed: no packet refers to it any more.
tbq_on_flow_free(f) ==
  /\ LockFree /\ f \in q.flows /\ q.packets[f] = <<>> /\ ~InHook(f)
  /\ Freed(tbq_flow_track_cleanup(q, f))

\* The user is released: none of its connections is left.
tbq_on_user_free(u) ==
  /\ LockFree /\ u \in q.users /\ \A f \in Flows : UserOf[f] = u => f \notin q.flows /\ ~InHook(f)
  /\ Freed(tbq_user_track_free(q, u))

-----------------------------------------------------------------------------
(* The control file, written by one process at a time *)

tbq_global_set_config(s) ==
  LET s1 == Bug(s, status # "stopped" \/ s.backlog_packets # 0)
      s2 == FoldSet(LAMBDA u, t : tbq_user_track_free(t, u), s1, s1.users)
      s3 == FoldSet(LAMBDA f, t : tbq_flow_track_cleanup(t, f), s2, s2.flows)
      s4 == Bug(s3, \E x \in Buckets : x \in s3.inactive \/ Used(s3, x))
  IN  tbq_token_ctrl_init(s4, Buckets)

CtlKeeps == UNCHANGED <<timer, cur, lag, inflight, overrun>>

\* tbq_status_set: the new status, then synchronize_rcu.
tbq_status_set(new, then) == status' = new /\ grace' = Readers /\ ctl' = then

tbq_sysfs_attr_store(kind) ==
  /\ ctl = "idle" /\ commands < MaxCommands /\ commands' = commands + 1
  /\ \/ /\ kind = "enable" /\ status = "stopped"
        /\ tbq_status_set("running", "sync")
     \/ /\ kind \in {"disable", "reload"} \/ (UnloadRunning /\ kind = "unload")
        /\ status = "running"
        /\ tbq_status_set("stopping", "stopping")
     \/ /\ kind \in {"replace", "unload"} /\ status = "stopped"
        /\ ctl' = IF kind = "replace" THEN "config" ELSE "unload"
        /\ UNCHANGED <<status, grace>>
  /\ reload' = kind
  /\ CtlKeeps /\ UNCHANGED <<q, done>>

\* tbq_disable up to the wait for the timer.
CtlDisable ==
  /\ grace = {}
  /\ \/ ctl = "stopping" /\ tbq_status_set("waiting", "waiting") /\ UNCHANGED done
     \/ ctl = "waiting" /\ done' = FALSE /\ ctl' = "wait" /\ UNCHANGED <<status, grace>>
  /\ CtlKeeps /\ UNCHANGED <<q, reload, commands>>

CtlDone ==
  /\ ctl = "wait" /\ done
  /\ tbq_status_set("stopped", "stopped")
  /\ CtlKeeps /\ UNCHANGED <<q, reload, done, commands>>

\* The timeout, or a signal.
CtlTimeout ==
  /\ ctl = "wait" /\ ~done
  /\ tbq_status_set("running", "failed")
  /\ overrun' = (overrun \/ timer \in {"pending", "assert", "complete"})
  /\ UNCHANGED <<q, timer, cur, lag, inflight, reload, done, commands>>

\* tbq_disable has returned; removing the module does not look at its result.
CtlReturn ==
  /\ ctl \in {"stopped", "failed", "sync"} /\ grace = {}
  /\ ctl' = IF reload = "unload" THEN "unload"
            ELSE IF ctl = "stopped" /\ reload = "reload" THEN "config" ELSE "idle"
  /\ reload' = IF ctl' = "idle" THEN "none" ELSE reload
  /\ done' = FALSE
  /\ CtlKeeps /\ UNCHANGED <<q, status, grace, commands>>

CtlConfig ==
  /\ ctl = "config" /\ LockFree
  /\ q' = tbq_global_set_config(q)
  /\ IF reload = "reload" THEN tbq_status_set("running", "sync")
     ELSE ctl' = "idle" /\ UNCHANGED <<status, grace>>
  /\ reload' = "none"
  /\ CtlKeeps /\ UNCHANGED <<done, commands>>

\* The rest of nos_tbq_fini once the hook and the queue handler are gone.
nos_tbq_fini ==
  /\ ctl = "unload" /\ Readers = {}
  /\ q' = tbq_global_set_config(Bug(q, q.timer # <<>>))
  /\ ctl' = "removed" /\ status' = "removed"
  /\ CtlKeeps /\ UNCHANGED <<reload, grace, done, commands>>

Control ==
  \/ \E kind \in {"enable", "disable", "reload", "replace", "unload"} : tbq_sysfs_attr_store(kind)
  \/ CtlDisable \/ CtlDone \/ CtlTimeout \/ CtlReturn \/ CtlConfig \/ nos_tbq_fini

-----------------------------------------------------------------------------
tbq_global_init ==
  [tokens |-> [x \in Tcs |-> 0], age |-> [x \in Tcs |-> 0],
   octets |-> [x \in Tcs |-> 0], weight |-> [x \in Tcs |-> 0],
   units |-> [x \in Tcs |-> <<>>], timer |-> <<>>, inactive |-> {},
   bl |-> [b \in Backlogs |-> tbq_backlog_init(IF b \in UserTcs THEN Weight[b] ELSE 0)],
   packets |-> [f \in Flows |-> <<>>], users |-> {}, flows |-> {},
   backlog_packets |-> 0, sent |-> 0, dropped |-> 0, bug |-> FALSE, used |-> FALSE]

Init ==
  /\ q = tbq_global_init /\ status = "running"
  /\ timer = "idle" /\ cur = None /\ lag = 0
  /\ inflight = [c \in Cpus |-> NoPacket]
  /\ ctl = "idle" /\ reload = "none" /\ grace = {} /\ done = FALSE
  /\ overrun = FALSE /\ commands = 0

Packet == \E c \in Cpus : tbq_enqueue(c) \/ \E f \in Flows, n \in Lens : tbq_nf_hook(c, f, n)
Free   == (\E f \in Flows : tbq_on_flow_free(f)) \/ (\E u \in Users : tbq_on_user_free(u))

\* The BUG_ON of the timer, in interrupt context, stops the machine.
Next == ~q.used /\ (Packet \/ Timer \/ Tick \/ Free \/ Control)

\* The kernel gives a queued packet to outfn.
Handled(c) == inflight[c] # NoPacket /\ LockFree /\ inflight' = [inflight EXCEPT ![c] = NoPacket]

\* tbq_timer_func, once called, returns or goes on.
TimerGoesOn == []<>(timer = "idle") \/ []<><<Timer>>_vars

\* Time passes, the kernel runs an expired timer and finishes what it began, and its
\* spin locks are fair; removal goes on between two runs of the timer's function
\* (del_timer_sync waits for one). The packets that come, the commands and the
\* timeout of a disable are not promised.
Fairness ==
  /\ WF_vars(Tick) /\ WF_vars(TimerBegin) /\ TimerGoesOn
  /\ \A c \in Cpus : SF_inflight(Handled(c))
  /\ WF_vars(CtlDisable) /\ WF_vars(CtlDone) /\ WF_vars(CtlReturn) /\ SF_vars(CtlConfig)
  /\ SF_vars(nos_tbq_fini)

Spec == Init /\ [][Next]_vars /\ (<>q.used \/ Fairness)

-----------------------------------------------------------------------------
Sum(f(_), S) == MapThenSumSet(f, S)

\* No BUG_ON of the shaper fires: in its list and token operations, when a user or
\* a flow goes away, when the configuration is replaced (tbq_core.c:20-31, 252, 291 ...);
\* and those of the timer that is about to notify a disable (230-234) only if that
\* disable has timed out meanwhile and let packets in again (tbq_config.c:698).
NoBug == ~q.bug /\ (q.used => overrun)

\* The same without the exception: TbqTimeout.cfg shows the timer that reads the lists
\* after the disable it wants to notify gave up and a packet put a class to sleep.
NeverUsed == ~q.used

\* Whenever the lock is free the four accounts of the queued packets agree: the
\* packets themselves, the octets of flow and user backlogs, the octets and weights
\* of the classes (tbq_user_backlog_update), and backlog_packets.
Accounted ==
  LockFree =>
    /\ q.backlog_packets = Sum(LAMBDA f : Len(q.packets[f]), Flows)
    /\ \A f \in Flows : q.bl[f].octets = FoldLeft(LAMBDA x, y : x + y, 0, q.packets[f])
    /\ \A x \in UserTcs :
         LET F == {f \in Flows : UserOf[f] = x[1] /\ x[2] \in Mask[f] /\ q.packets[f] # <<>>}
         IN  /\ q.octets[x] = Sum(LAMBDA f : q.bl[f].octets, F)
             /\ q.weight[x] = Cardinality(F)
             /\ q.bl[x].octets = Sum(LAMBDA f : q.bl[f].octets, Range(q.units[x]))
    /\ \A b \in Buckets :
         LET X == {x \in UserTcs : Bucket(x) = b /\ q.octets[x] # 0}
         IN  /\ q.octets[b] = Sum(LAMBDA x : q.octets[x], X)
             /\ q.weight[b] = Sum(LAMBDA x : Weight[x], X)

\* No queued packet is forgotten: its flow waits for a user's class that sleeps in
\* the timer, or whose backlog waits for a bucket that does; and no sleeping class
\* is one whose slot the timer has already passed (tbq_timer_feed).
Asleep(x) == x \in Range(q.timer) /\ q.age[x] <= lag
NeverStranded ==
  LockFree =>
    /\ q.inactive = Range(q.timer)
    /\ \A x \in Range(q.timer) : Asleep(x)
    /\ \A f \in Flows : q.packets[f] # <<>> =>
         LET x == q.bl[f].tc
         IN  x # None /\ (Asleep(x) \/ (q.bl[x].tc = Bucket(x) /\ Asleep(Bucket(x))))

\* The limit is tested before the lock is given up and taken again, so that each
\* further processor may exceed it by one packet, and no more.
BacklogBound == q.backlog_packets <= MaxBacklog + Cardinality(Cpus) - 1

\* A disable that waits for the backlog ends without its timeout: the shaper drains
\* (tbq_disable, tbq_timer_func), unless a timeout lets the timer's BUG_ON fire.
Drains == (ctl # "idle") ~> (ctl \in {"idle", "removed"} \/ q.used)
=============================================================================
