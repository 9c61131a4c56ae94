------------------------------ MODULE UpdateLog ------------------------------
(***************************************************************************)
(* Durability of the configuration database (database/).  The working     *)
(* database is a file in a RAM disk; flash holds a compressed copy of it   *)
(* (disk.db.tgz) and a log of the statements executed since (log.bin).     *)
(* updatelog.lua appends to the log and, when it is full or on request,    *)
(* runs db.sh to replace the copy and remove the log.  At start the copy   *)
(* is unpacked and the log replayed (init/disk_00_new.sh, disk_91, _92).   *)
(* The process can die at any instruction; flash keeps what was written.   *)
(***************************************************************************)
EXTENDS Naturals, Sequences, FiniteSets

CONSTANTS
  Tx,         \* the write requests, each with one statement
  Default,    \* the rows disk_92_default.lua inserts when they are missing
  None, Torn, \* no request; a record of which only a part was written
  Inserts,    \* statements that fail when they are executed a second time
  Autocommit, \* requests that run outside a transaction: committed by execute
  Full,       \* requests whose record takes the log to max_log_size
  MaxCrashes  \* bound: crashes

PCs == {"boot", "replay", "default", "idle", "log", "commit", "failed",
        "tar", "mvold", "mvnew", "rmlog"}
Rows == Tx \union {Default}

ASSUME UpdateLogAssumption ==
  /\ Default \notin Tx /\ None \notin Rows /\ Torn \notin Rows /\ None # Torn
  /\ Inserts \subseteq Tx /\ Autocommit \subseteq Tx /\ Full \subseteq Tx
  /\ MaxCrashes \in Nat

VARIABLES
  pc,           \* where the database process is
  ret,          \* where it goes on after a backup
  work,         \* rows committed to the working database
  cur,          \* the request being executed
  pos,          \* the log record to be replayed next
  tgz, tmp,     \* the copy, and the file db.sh prepares: <<rows>>, or <<>> if missing
  log,          \* log.bin
  used,         \* requests made so far
  seen,         \* history: rows the database had while it served requests
  exposed,      \* history: one of the three windows described below was met
  crashes

vars == <<pc, ret, work, cur, pos, tgz, tmp, log, used, seen, exposed, crashes>>
flash == <<tgz, tmp, log>>

Files == {<<>>} \union {<<S>> : S \in SUBSET Rows}
TypeOK ==
  /\ pc \in PCs /\ ret \in {"default", "idle", "commit"}
  /\ work \in SUBSET Rows /\ cur \in Tx \union {None} /\ pos \in Nat \ {0}
  /\ tgz \in Files /\ tmp \in Files
  /\ log \in Seq(Tx \union {Torn})
  /\ used \in SUBSET Tx /\ seen \in SUBSET Rows /\ exposed \in {"no", "yes"} /\ crashes \in 0..MaxCrashes

Init ==
  /\ pc = "boot" /\ ret = "idle" /\ work = {} /\ cur = None /\ pos = 1
  /\ tgz = <<>> /\ tmp = <<>> /\ log = <<>>
  /\ used = {} /\ seen = {} /\ exposed = "no" /\ crashes = 0

-----------------------------------------------------------------------------
\* Start.

\* The rows of the copy; without one an empty database is created.
Unpacked == IF tgz = <<>> THEN {} ELSE tgz[1]

First == 1

disk_00_new ==
  /\ pc = "boot"
  /\ work' = Unpacked /\ pos' = First /\ pc' = "replay"
  /\ UNCHANGED <<ret, cur, flash, used, seen, exposed, crashes>>

\* disk_91_restore.lua: one record.  A torn one ends the replay, and the log is
\* replaced by a new copy; a statement that fails ends the start.
FailsRepeated(t) == t \in work     \* mutant: no statement may be repeated
Fails(t) == t \in Inserts \intersect work
disk_91_restore ==
  /\ pc = "replay"
  /\ \/ /\ pos > Len(log)
        /\ pc' = "default" /\ UNCHANGED <<ret, work, pos>>
     \/ /\ pos <= Len(log) /\ log[pos] = Torn
        /\ pc' = "tar" /\ ret' = "default" /\ UNCHANGED <<work, pos>>
     \/ /\ pos <= Len(log) /\ log[pos] # Torn /\ Fails(log[pos])
        /\ pc' = "failed" /\ UNCHANGED <<ret, work, pos>>
     \/ /\ pos <= Len(log) /\ log[pos] # Torn /\ ~Fails(log[pos])
        /\ work' = work \union {log[pos]} /\ pos' = pos + 1
        /\ UNCHANGED <<pc, ret>>
  /\ UNCHANGED <<cur, flash, used, seen, exposed, crashes>>

\* disk_92_default.lua: missing default rows are inserted and copied at once.
disk_92_default ==
  /\ pc = "default"
  /\ \/ /\ Default \in work
        /\ pc' = "idle" /\ seen' = seen \union work /\ UNCHANGED <<ret, work>>
     \/ /\ Default \notin work
        /\ work' = work \union {Default} /\ pc' = "tar" /\ ret' = "idle" /\ UNCHANGED seen
  /\ UNCHANGED <<cur, pos, flash, used, exposed, crashes>>

\* procd starts the service again.
respawn ==
  /\ pc = "failed" /\ pc' = "boot"
  /\ UNCHANGED <<ret, work, cur, pos, flash, used, seen, exposed, crashes>>

-----------------------------------------------------------------------------
\* A write request: execute, save_log, commit, answer.
execute(t) ==
  /\ pc = "idle" /\ t \notin used
  /\ used' = used \union {t} /\ cur' = t /\ pc' = "log"
  /\ work' = IF t \in Autocommit THEN work \union {t} ELSE work
  /\ UNCHANGED <<ret, pos, flash, seen, exposed, crashes>>

\* save: write and flush; a full log is replaced by a copy of the working file,
\* in which the open transaction is not yet.
NoRecord(t) == log                 \* mutant: the statement is not logged
Record(t) == Append(log, t)
save ==
  /\ pc = "log"
  /\ log' = Record(cur)
  /\ \/ cur \in Full /\ pc' = "tar" /\ ret' = "commit"
     \/ cur \notin Full /\ pc' = "commit" /\ UNCHANGED ret
  /\ exposed' = IF cur \in Full \ Autocommit THEN "yes" ELSE exposed      \* third window
  /\ UNCHANGED <<work, cur, pos, tgz, tmp, used, seen, crashes>>

commit ==
  /\ pc = "commit"
  /\ work' = work \union {cur} /\ seen' = seen \union work \union {cur}
  /\ cur' = None /\ pc' = "idle"
  /\ UNCHANGED <<ret, pos, flash, used, exposed, crashes>>

\* backup, asked for by a tool or an upgrade, or timeout_save finding the log full.
backup ==
  /\ pc = "idle" /\ pc' = "tar" /\ ret' = "idle"
  /\ UNCHANGED <<work, cur, pos, flash, used, seen, exposed, crashes>>

-----------------------------------------------------------------------------
\* db.sh backup.
tar ==
  /\ pc = "tar" /\ tmp' = <<work>> /\ pc' = "mvold"
  /\ UNCHANGED <<ret, work, cur, pos, tgz, log, used, seen, exposed, crashes>>

mv_old ==        \* to disk.db.tgz.del, which nothing ever reads
  /\ pc = "mvold" /\ tgz' = <<>> /\ pc' = "mvnew"
  /\ UNCHANGED <<ret, work, cur, pos, tmp, log, used, seen, exposed, crashes>>

mv_new ==
  /\ pc = "mvnew" /\ tgz' = tmp /\ tmp' = <<>> /\ pc' = "rmlog"
  /\ UNCHANGED <<ret, work, cur, pos, log, used, seen, exposed, crashes>>

KeepLog == log                     \* mutant: the log is not removed
NoLog == <<>>
rm_log ==
  /\ pc = "rmlog" /\ log' = NoLog /\ pc' = ret
  /\ seen' = IF ret = "idle" THEN seen \union work ELSE seen
  /\ UNCHANGED <<ret, work, cur, pos, tgz, tmp, used, exposed, crashes>>

\* The process dies, or exits on an error of db.sh; while it writes the log, the
\* record may be there, not there, or there in part.
\* Two windows of db.sh: between the moves there is no copy, and before the log
\* is removed its statements are in the copy as well.
InWindow ==
  pc = "mvnew" \/ (pc = "rmlog" /\ \E i \in 1..Len(log) : log[i] \in Inserts)
crash ==
  /\ crashes < MaxCrashes
  /\ exposed' = IF InWindow THEN "yes" ELSE exposed
  /\ crashes' = crashes + 1 /\ pc' = "boot" /\ cur' = None
  /\ log' \in {log} \union (IF pc = "log" THEN {Append(log, cur), Append(log, Torn)} ELSE {})
  /\ UNCHANGED <<ret, work, pos, tgz, tmp, used, seen>>

Start == disk_00_new \/ disk_91_restore \/ disk_92_default \/ respawn
Work == save \/ commit \/ tar \/ mv_old \/ mv_new \/ rm_log
Next == Start \/ Work \/ (\E t \in Tx : execute(t)) \/ backup \/ crash

\* A started step goes on; requests and crashes come or do not come.
Spec == Init /\ [][Next]_vars /\ WF_vars(Start \/ Work)

-----------------------------------------------------------------------------
\* What the database held while it served requests, it holds again whenever it
\* serves: answered writes, and what an earlier start recovered.
NothingLost == pc \in {"idle", "log", "commit"} => seen \subseteq work

\* It holds unless a crash met one of the windows of db.sh or the log filled up
\* inside a transaction.
Durable == exposed = "no" => NothingLost

\* The start never fails on a statement of its own log: disk_91_restore.lua exits
\* when one cannot be executed.
RestoreOK == exposed = "no" => pc # "failed"

\* A torn record is removed before the log is appended to, so that no record is
\* written where the decoder will not reach it.
TornIsLast ==
  /\ \A i \in 1..Len(log) : log[i] = Torn => i = Len(log)
  /\ pc \in {"idle", "log", "commit"} => \A i \in 1..Len(log) : log[i] # Torn

\* Every start ends with a database that serves, with the same exception.
Recovers == pc = "boot" ~> (pc = "idle" \/ exposed = "yes")

-----------------------------------------------------------------------------
\* The inductive invariant behind TornIsLast, RestoreOK and Durable.
Saving == {"tar", "mvold", "mvnew", "rmlog"}
Logged == {log[i] : i \in 1..Len(log)}
OnFlash == Unpacked \union Logged
InRequest == pc \in {"log", "commit"} \/ (pc \in Saving /\ ret = "commit")

TornInv ==
  /\ TornIsLast
  /\ pc = "default" \/ (pc \in Saving /\ ret # "default") => Torn \notin Logged
  /\ pc = "replay" => \A i \in 1..Len(log) : i < pos => log[i] # Torn
  /\ InRequest => cur \in Tx

\* Requests are new when they are made, and only then.
FreshInv ==
  /\ Logged \subseteq used \union {Torn} /\ Unpacked \subseteq used \union {Default}
  /\ work \subseteq used \union {Default}
  /\ InRequest => cur \in used
  /\ pc = "log" => cur \notin Logged /\ cur \notin Unpacked

\* A statement that cannot be repeated is in the copy or in the log, once.
OnceInv ==
  /\ \A i, j \in 1..Len(log) : log[i] = log[j] => i = j
  /\ pc # "rmlog" => \A i \in 1..Len(log) : log[i] \in Inserts => log[i] \notin Unpacked

\* What flash holds in each phase.
KeptInv ==
  /\ pc # "mvnew" => seen \subseteq OnFlash
  /\ pc \notin {"boot", "replay", "failed"} => seen \subseteq work
  /\ pc = "replay" => /\ work = Unpacked \union {log[i] : i \in 1..(pos - 1)}
                      /\ pos <= Len(log) + 1
  /\ pc \in {"mvold", "mvnew"} => tmp = <<work>>
  /\ pc = "rmlog" => tgz = <<work>>
  /\ pc \in {"default", "idle"} => work \subseteq OnFlash
  /\ pc = "log" => work \subseteq OnFlash \union {cur} /\ (cur \in Autocommit => cur \in work)
  /\ pc = "commit" => work \union {cur} \subseteq OnFlash
  /\ pc \in Saving /\ ret = "commit" => cur \in work

Safe == FreshInv /\ OnceInv /\ KeptInv /\ pc # "failed"
SafeInv == exposed = "no" => Safe
=============================================================================
