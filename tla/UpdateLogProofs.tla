--------------------------- MODULE UpdateLogProofs ---------------------------
(***************************************************************************)
(* Proofs about UpdateLog, for any set of requests and any number of       *)
(* crashes: types and the torn record whatever happens, durability and a   *)
(* start that succeeds until one of the three windows is met.             *)
(***************************************************************************)
EXTENDS UpdateLog, TLAPS

-----------------------------------------------------------------------------
\* What appending a record does to the set of records.
LEMMA AppendLogged ==
  ASSUME NEW S, NEW s \in Seq(S), NEW e \in S
  PROVE  /\ Append(s, e) \in Seq(S) /\ Len(Append(s, e)) = Len(s) + 1 /\ Len(s) \in Nat
         /\ \A i \in 1..Len(s) : Append(s, e)[i] = s[i]
         /\ Append(s, e)[Len(s) + 1] = e
  OBVIOUS

\* TypeOK holds initially.
LEMMA TypeInit == Init => TypeOK /\ TornInv
  BY UpdateLogAssumption DEF Init, TypeOK, Files, TornInv, TornIsLast, PCs, Rows, InRequest, Logged, Saving

\* Every step keeps the types; the request being executed is one.
LEMMA TypeStep ==
  ASSUME TypeOK, TornInv, [Next]_vars PROVE TypeOK'
<1> USE UpdateLogAssumption DEF TypeOK, PCs, Rows, Files
<1>1. CASE disk_00_new BY <1>1 DEF disk_00_new, First, Unpacked, flash
<1>2. CASE disk_91_restore
  <2>1. ASSUME pos <= Len(log), log[pos] # Torn PROVE log[pos] \in Tx
    BY <2>1
  <2>. QED BY <1>2, <2>1 DEF disk_91_restore, flash
<1>3. CASE disk_92_default BY <1>3 DEF disk_92_default, flash
<1>4. CASE respawn BY <1>4 DEF respawn, flash
<1>5. CASE save
  <2>1. cur \in Tx BY <1>5 DEF save, TornInv, InRequest
  <2>2. log' \in Seq(Tx \union {Torn}) BY <1>5, <2>1, AppendLogged DEF save, Record
  <2>. QED BY <1>5, <2>2 DEF save
<1>6. CASE commit BY <1>6 DEF commit, flash, TornInv, InRequest
<1>7. CASE tar BY <1>7 DEF tar
<1>8. CASE mv_old BY <1>8 DEF mv_old
<1>9. CASE mv_new BY <1>9 DEF mv_new
<1>10. CASE rm_log BY <1>10 DEF rm_log, NoLog
<1>11. ASSUME NEW t \in Tx, execute(t) PROVE TypeOK' BY <1>11 DEF execute, flash
<1>12. CASE backup BY <1>12 DEF backup, flash
<1>13. CASE crash
  <2>1. pc = "log" => cur \in Tx BY DEF TornInv, InRequest
  <2>2. log' \in Seq(Tx \union {Torn})
    <3>1. CASE pc = "log" BY <1>13, <2>1, <3>1, AppendLogged DEF crash
    <3>2. CASE pc # "log" BY <1>13, <3>2 DEF crash
    <3>. QED BY <3>1, <3>2
  <2>3. crashes' \in 0..MaxCrashes BY <1>13 DEF crash
  <2>. QED BY <1>13, <2>2, <2>3 DEF crash
<1>14. CASE UNCHANGED vars BY <1>14 DEF vars
<1>. QED BY <1>1, <1>2, <1>3, <1>4, <1>5, <1>6, <1>7, <1>8, <1>9, <1>10, <1>11, <1>12, <1>13, <1>14
         DEF Next, Start, Work

\* Every step keeps a torn record last and out of the way of later ones.
LEMMA TornStep ==
  ASSUME TypeOK, TornInv, [Next]_vars PROVE TornInv'
<1> USE UpdateLogAssumption DEF TypeOK, TornInv, TornIsLast, InRequest, Saving, Logged
<1>1. CASE disk_00_new BY <1>1 DEF disk_00_new, First, flash
<1>2. CASE disk_91_restore
  <2>1. ASSUME pos > Len(log) PROVE TornInv'
    BY <1>2, <2>1 DEF disk_91_restore, flash
  <2>2. ASSUME pos <= Len(log) PROVE TornInv'
    BY <1>2, <2>2 DEF disk_91_restore, flash
  <2>. QED BY <2>1, <2>2
<1>3. CASE disk_92_default BY <1>3 DEF disk_92_default, flash
<1>4. CASE respawn BY <1>4 DEF respawn, flash
<1>5. CASE save
  <2>1. cur \in Tx /\ cur # Torn BY <1>5 DEF save, Rows
  <2>2. \A i \in 1..Len(log) : log[i] # Torn BY <1>5 DEF save
  <2>3. \A i \in 1..Len(log') : log'[i] # Torn
    BY <1>5, <2>1, <2>2, AppendLogged DEF save, Record
  <2>. QED BY <1>5, <2>1, <2>3 DEF save
<1>6. CASE commit BY <1>6 DEF commit, flash
<1>7. CASE tar BY <1>7 DEF tar
<1>8. CASE mv_old BY <1>8 DEF mv_old
<1>9. CASE mv_new BY <1>9 DEF mv_new
<1>10. CASE rm_log
  <2>1. \A i \in 1..Len(log') : FALSE BY <1>10 DEF rm_log, NoLog
  <2>. QED BY <1>10, <2>1 DEF rm_log
<1>11. ASSUME NEW t \in Tx, execute(t) PROVE TornInv' BY <1>11 DEF execute, flash
<1>12. CASE backup BY <1>12 DEF backup, flash
<1>13. CASE crash
  <2>1. CASE pc = "log"
    <3>1. cur \in Tx /\ \A i \in 1..Len(log) : log[i] # Torn BY <2>1
    <3>2. \A i \in 1..Len(log') : log'[i] = Torn => i = Len(log')
      BY <1>13, <2>1, <3>1, AppendLogged DEF crash
    <3>. QED BY <1>13, <3>2 DEF crash
  <2>2. CASE pc # "log" BY <1>13, <2>2 DEF crash
  <2>. QED BY <2>1, <2>2
<1>14. CASE UNCHANGED vars BY <1>14 DEF vars
<1>. QED BY <1>1, <1>2, <1>3, <1>4, <1>5, <1>6, <1>7, <1>8, <1>9, <1>10, <1>11, <1>12, <1>13, <1>14
         DEF Next, Start, Work

-----------------------------------------------------------------------------
\* The safe invariant, one lemma per part.
Good == TypeOK /\ TornInv /\ Safe

\* Initially nothing has been requested, logged or copied.
LEMMA SafeInit == Init => SafeInv
  BY UpdateLogAssumption
  DEF Init, SafeInv, Safe, FreshInv, OnceInv, KeptInv, Logged, Unpacked, OnFlash, InRequest, Saving

\* The set of records after an append.
LEMMA LoggedAppend ==
  ASSUME TypeOK, NEW e \in Tx \union {Torn}, log' = Append(log, e)
  PROVE  Logged' = Logged \union {e}
  BY AppendLogged DEF TypeOK, Logged

\* Requests are new when they are made: no step puts another one into the
\* database, the copy or the log.
LEMMA FreshStep ==
  ASSUME Good, exposed' = "no", TypeOK', [Next]_vars PROVE FreshInv'
<1> USE UpdateLogAssumption DEF Good, Safe, TypeOK, Files, TornInv, FreshInv, InRequest, Saving, Rows
<1>1. CASE disk_00_new BY <1>1 DEF disk_00_new, flash, Logged, Unpacked
<1>2. CASE disk_91_restore
  <2>1. ASSUME pos <= Len(log), log[pos] # Torn PROVE log[pos] \in used
    BY <2>1 DEF Logged
  <2>2. Logged' = Logged /\ Unpacked' = Unpacked
    BY <1>2 DEF disk_91_restore, flash, Logged, Unpacked
  <2>3. work' \subseteq used' \union {Default} BY <1>2, <2>1 DEF disk_91_restore
  <2>. QED BY <1>2, <2>2, <2>3 DEF disk_91_restore, flash
<1>3. CASE disk_92_default BY <1>3 DEF disk_92_default, flash, Logged, Unpacked
<1>4. CASE respawn BY <1>4 DEF respawn, flash, Logged, Unpacked
<1>5. CASE save
  <2>1. Logged' = Logged \union {cur} BY <1>5, LoggedAppend DEF save, Record
  <2>. QED BY <1>5, <2>1 DEF save, Unpacked
<1>6. CASE commit BY <1>6 DEF commit, flash, Logged, Unpacked
<1>7. CASE tar BY <1>7 DEF tar, Logged, Unpacked
<1>8. CASE mv_old BY <1>8 DEF mv_old, Logged, Unpacked
<1>9. CASE mv_new
  <2>1. tgz' = <<work>> BY <1>9 DEF mv_new, KeptInv
  <2>2. Unpacked' \subseteq used' \union {Default} BY <1>9, <2>1 DEF mv_new, Unpacked
  <2>3. Logged' = Logged BY <1>9 DEF mv_new, Logged
  <2>. QED BY <1>9, <2>2, <2>3 DEF mv_new
<1>10. CASE rm_log
  <2>1. Logged' = {} BY <1>10 DEF rm_log, NoLog, Logged
  <2>. QED BY <1>10, <2>1 DEF rm_log, Unpacked
<1>11. ASSUME NEW t \in Tx, execute(t) PROVE FreshInv'
  <2>1. t \notin Logged /\ t \notin Unpacked BY <1>11 DEF execute
  <2>2. Logged' = Logged /\ Unpacked' = Unpacked BY <1>11 DEF execute, flash, Logged, Unpacked
  <2>. QED BY <1>11, <2>1, <2>2 DEF execute
<1>12. CASE backup BY <1>12 DEF backup, flash, Logged, Unpacked
<1>13. CASE crash
  <2>1. Logged' \subseteq used \union {Torn}
    <3>1. CASE log' = log BY <3>1 DEF Logged
    <3>2. CASE log' # log
      <4>1. PICK e \in Tx \union {Torn} : log' = Append(log, e) /\ e \in used \union {Torn}
        BY <1>13, <3>2 DEF crash
      <4>. QED BY <4>1, LoggedAppend
    <3>. QED BY <3>1, <3>2
  <2>. QED BY <1>13, <2>1 DEF crash, Unpacked
<1>14. CASE UNCHANGED vars BY <1>14 DEF vars, Logged, Unpacked
<1>. QED BY <1>1, <1>2, <1>3, <1>4, <1>5, <1>6, <1>7, <1>8, <1>9, <1>10, <1>11, <1>12, <1>13, <1>14
         DEF Next, Start, Work

\* No statement that cannot be repeated is both in the copy and in the log, but
\* between the move of the copy and the removal of the log.
LEMMA OnceStep ==
  ASSUME Good, exposed' = "no", TypeOK', [Next]_vars PROVE OnceInv'
<1> USE UpdateLogAssumption DEF Good, Safe, TypeOK, Files, TornInv, OnceInv, Rows
<1>0. ASSUME log' = log, tgz' = tgz, pc' = "rmlog" \/ pc # "rmlog" PROVE OnceInv'
  BY <1>0 DEF Unpacked
<1>1. CASE disk_00_new BY <1>0, <1>1 DEF disk_00_new, flash
<1>2. CASE disk_91_restore BY <1>0, <1>2 DEF disk_91_restore, flash
<1>3. CASE disk_92_default BY <1>0, <1>3 DEF disk_92_default, flash
<1>4. CASE respawn BY <1>0, <1>4 DEF respawn, flash
<1>5. CASE save
  <2>1. cur \in Tx /\ cur \notin Logged /\ cur \notin Unpacked
    BY <1>5 DEF save, FreshInv, InRequest
  <2>2. \A i, j \in 1..Len(log') : log'[i] = log'[j] => i = j
    BY <1>5, <2>1, AppendLogged DEF save, Record, Logged
  <2>3. Unpacked' = Unpacked BY <1>5 DEF save, Unpacked
  <2>4. \A i \in 1..Len(log') : log'[i] \in Inserts => log'[i] \notin Unpacked'
    BY <1>5, <2>1, <2>3, AppendLogged DEF save, Record
  <2>. QED BY <2>2, <2>4
<1>6. CASE commit BY <1>0, <1>6 DEF commit, flash
<1>7. CASE tar BY <1>0, <1>7 DEF tar
<1>8. CASE mv_old
  <2>1. Unpacked' = {} BY <1>8 DEF mv_old, Unpacked
  <2>. QED BY <1>8, <2>1 DEF mv_old
<1>9. CASE mv_new BY <1>9 DEF mv_new
<1>10. CASE rm_log
  <2>1. \A i \in 1..Len(log') : FALSE BY <1>10 DEF rm_log, NoLog
  <2>. QED BY <2>1
<1>11. ASSUME NEW t \in Tx, execute(t) PROVE OnceInv' BY <1>0, <1>11 DEF execute, flash
<1>12. CASE backup BY <1>0, <1>12 DEF backup, flash
<1>13. CASE crash
  <2>1. CASE pc = "rmlog"
    <3>1. \A i \in 1..Len(log) : log[i] \notin Inserts BY <1>13, <2>1 DEF crash, InWindow
    <3>2. log' = log BY <1>13, <2>1 DEF crash
    <3>. QED BY <3>1, <3>2
  <2>2. CASE pc # "rmlog" /\ log' = log BY <1>0, <1>13, <2>2 DEF crash
  <2>3. CASE log' # log
    <3>1. pc = "log" BY <1>13, <2>3 DEF crash
    <3>2. cur \in Tx /\ cur \notin Logged /\ cur \notin Unpacked
      BY <3>1 DEF FreshInv, InRequest
    <3>3. Torn \notin Logged BY <3>1 DEF TornIsLast, Logged
    <3>4. PICK e \in Tx \union {Torn} : log' = Append(log, e) /\ e \notin Logged /\ e \notin Unpacked
      BY <1>13, <2>3, <3>2, <3>3 DEF crash, Unpacked
    <3>5. \A i, j \in 1..Len(log') : log'[i] = log'[j] => i = j
      BY <3>4, AppendLogged DEF Logged
    <3>6. Unpacked' = Unpacked BY <1>13 DEF crash, Unpacked
    <3>7. \A i \in 1..Len(log') : log'[i] \in Inserts => log'[i] \notin Unpacked'
      BY <3>1, <3>4, <3>6, AppendLogged
    <3>. QED BY <3>5, <3>7
  <2>. QED BY <2>1, <2>2, <2>3
<1>14. CASE UNCHANGED vars BY <1>0, <1>14 DEF vars
<1>. QED BY <1>1, <1>2, <1>3, <1>4, <1>5, <1>6, <1>7, <1>8, <1>9, <1>10, <1>11, <1>12, <1>13, <1>14
         DEF Next, Start, Work

\* A start outside the windows meets no statement that fails.
LEMMA RestoreStep ==
  ASSUME Good, exposed' = "no", TypeOK', [Next]_vars PROVE pc' # "failed"
<1> USE UpdateLogAssumption DEF Good, Safe
<1>1. CASE disk_91_restore
  <2>1. ASSUME pos <= Len(log), log[pos] \in Inserts PROVE log[pos] \notin work
    <3>1. pos \in 1..Len(log) BY <2>1 DEF TypeOK
    <3>2. log[pos] \notin Unpacked BY <1>1, <2>1, <3>1 DEF OnceInv, disk_91_restore
    <3>3. \A i \in 1..(pos - 1) : log[i] # log[pos]
      <4>1. \A i \in 1..(pos - 1) : i \in 1..Len(log) /\ i # pos BY <3>1 DEF TypeOK
      <4>. QED BY <3>1, <4>1 DEF OnceInv
    <3>4. work = Unpacked \union {log[i] : i \in 1..(pos - 1)} BY <1>1 DEF KeptInv, disk_91_restore
    <3>. QED BY <3>2, <3>3, <3>4
  <2>2. ~(pos <= Len(log) /\ Fails(log[pos])) BY <2>1 DEF Fails
  <2>. QED BY <1>1, <2>2 DEF disk_91_restore
<1>2. CASE rm_log BY <1>2 DEF rm_log, TypeOK
<1>3. CASE UNCHANGED vars BY <1>3 DEF vars
<1>. QED BY <1>1, <1>2, <1>3 DEF Next, Start, Work, disk_00_new, disk_92_default, respawn, save,
           commit, tar, mv_old, mv_new, execute, backup, crash

\* Flash holds in every phase what the database has shown.
LEMMA KeptStep ==
  ASSUME Good, exposed' = "no", TypeOK', [Next]_vars PROVE KeptInv'
<1> USE UpdateLogAssumption DEF Good, Safe, TypeOK, Files, KeptInv, Saving, PCs
<1>1. CASE disk_00_new
  <2>1. Unpacked' = Unpacked /\ OnFlash' = OnFlash BY <1>1 DEF disk_00_new, flash, Unpacked, OnFlash, Logged
  <2>2. {log'[i] : i \in 1..(pos' - 1)} = {} BY <1>1 DEF disk_00_new, First
  <2>3. pos' <= Len(log') + 1 BY <1>1 DEF disk_00_new, First, flash
  <2>. QED BY <1>1, <2>1, <2>2, <2>3 DEF disk_00_new
<1>2. CASE disk_91_restore
  <2>1. Unpacked' = Unpacked /\ OnFlash' = OnFlash /\ log' = log
    BY <1>2 DEF disk_91_restore, flash, Unpacked, OnFlash, Logged
  <2>2. work = Unpacked \union {log[i] : i \in 1..(pos - 1)} /\ pos <= Len(log) + 1
    BY <1>2 DEF disk_91_restore
  <2>3. CASE pos > Len(log)
    <3>1. pos - 1 = Len(log) BY <2>2, <2>3
    <3>2. work = OnFlash BY <2>2, <3>1 DEF OnFlash, Logged
    <3>3. pc = "replay" /\ pc' = "default" /\ work' = work /\ seen' = seen
      BY <1>2, <2>3 DEF disk_91_restore
    <3>4. seen' \subseteq OnFlash' /\ seen' \subseteq work' /\ work' \subseteq OnFlash'
      BY <2>1, <3>2, <3>3
    <3>. QED BY <3>3, <3>4
  <2>4. CASE pos <= Len(log) /\ log[pos] = Torn
    <3>1. pos = Len(log) BY <2>4 DEF TornInv, TornIsLast
    <3>2. Logged \subseteq {log[i] : i \in 1..(pos - 1)} \union {Torn}
      BY <2>4, <3>1 DEF Logged
    <3>3. seen \subseteq work
      BY <1>2, <2>2, <3>2 DEF disk_91_restore, OnFlash, Rows
    <3>4. pc = "replay" /\ pc' = "tar" /\ ret' = "default" /\ work' = work /\ seen' = seen
      BY <1>2, <2>4 DEF disk_91_restore
    <3>5. seen' \subseteq OnFlash' /\ seen' \subseteq work' BY <2>1, <3>3, <3>4
    <3>. QED BY <3>4, <3>5
  <2>5. CASE pos <= Len(log) /\ log[pos] # Torn /\ Fails(log[pos])
    <3>1. pc = "replay" /\ pc' = "failed" /\ seen' = seen BY <1>2, <2>5 DEF disk_91_restore
    <3>2. seen' \subseteq OnFlash' BY <2>1, <3>1
    <3>. QED BY <3>1, <3>2
  <2>6. CASE pos <= Len(log) /\ log[pos] # Torn /\ ~Fails(log[pos])
    <3>1. pos' = pos + 1 /\ work' = work \union {log[pos]} /\ pc' = "replay"
      BY <1>2, <2>6 DEF disk_91_restore
    <3>2. {log[i] : i \in 1..pos} = {log[i] : i \in 1..(pos - 1)} \union {log[pos]}
      OBVIOUS
    <3>3. pos' - 1 = pos BY <3>1
    <3>4. work' = Unpacked' \union {log'[i] : i \in 1..(pos' - 1)} BY <2>1, <2>2, <3>1, <3>2, <3>3
    <3>5. pos' <= Len(log') + 1 BY <2>1, <2>6, <3>1
    <3>. QED BY <1>2, <2>1, <3>1, <3>4, <3>5 DEF disk_91_restore
  <2>7. pos > Len(log) \/ pos <= Len(log) BY DEF TypeOK
  <2>. QED BY <2>3, <2>4, <2>5, <2>6, <2>7
<1>3. CASE disk_92_default
  BY <1>3 DEF disk_92_default, flash, Unpacked, OnFlash, Logged
<1>4. CASE respawn BY <1>4 DEF respawn, flash, Unpacked, OnFlash, Logged
<1>5. CASE save
  <2>1. cur \in Tx BY <1>5 DEF save, TornInv, InRequest
  <2>2. Logged' = Logged \union {cur} BY <1>5, <2>1, LoggedAppend DEF save, Record
  <2>3. OnFlash' = OnFlash \union {cur} BY <1>5, <2>2 DEF save, OnFlash, Unpacked
  <2>4. cur \in Full => cur \in work BY <1>5 DEF save
  <2>. QED BY <1>5, <2>3, <2>4 DEF save
<1>6. CASE commit BY <1>6 DEF commit, flash, Unpacked, OnFlash, Logged
<1>7. CASE tar BY <1>7 DEF tar, Unpacked, OnFlash, Logged
<1>8. CASE mv_old BY <1>8 DEF mv_old
<1>9. CASE mv_new
  <2>1. tgz' = <<work>> /\ work' = work /\ seen' = seen BY <1>9 DEF mv_new
  <2>2. work \subseteq OnFlash' BY <2>1 DEF OnFlash, Unpacked
  <2>. QED BY <1>9, <2>1, <2>2 DEF mv_new
<1>10. CASE rm_log
  <2>1. tgz' = <<work>> /\ work' = work BY <1>10 DEF rm_log
  <2>2. work \subseteq OnFlash' BY <2>1 DEF OnFlash, Unpacked
  <2>3. seen' \subseteq work BY <1>10 DEF rm_log
  <2>. QED BY <1>10, <2>1, <2>2, <2>3 DEF rm_log
<1>11. ASSUME NEW t \in Tx, execute(t) PROVE KeptInv'
  BY <1>11 DEF execute, flash, Unpacked, OnFlash, Logged
<1>12. CASE backup BY <1>12 DEF backup, flash, Unpacked, OnFlash, Logged
<1>13. CASE crash
  <2>1. pc # "mvnew" BY <1>13 DEF crash, InWindow
  <2>2. OnFlash \subseteq OnFlash'
    <3>1. CASE log' = log BY <1>13, <3>1 DEF crash, OnFlash, Unpacked, Logged
    <3>2. CASE log' # log
      <4>1. PICK e \in Tx \union {Torn} : log' = Append(log, e)
        BY <1>13, <3>2 DEF crash, TornInv, InRequest
      <4>2. Logged' = Logged \union {e} BY <4>1, LoggedAppend
      <4>. QED BY <1>13, <4>2 DEF crash, OnFlash, Unpacked
    <3>. QED BY <3>1, <3>2
  <2>. QED BY <1>13, <2>1, <2>2 DEF crash
<1>14. CASE UNCHANGED vars BY <1>14 DEF vars, Unpacked, OnFlash, Logged
<1>. QED BY <1>1, <1>2, <1>3, <1>4, <1>5, <1>6, <1>7, <1>8, <1>9, <1>10, <1>11, <1>12, <1>13, <1>14
         DEF Next, Start, Work

\* Once a window is met it stays so.
LEMMA ExposedStays ==
  ASSUME [Next]_vars, exposed' = "no" PROVE exposed = "no"
  BY DEF Next, Start, Work, vars, disk_00_new, disk_91_restore, disk_92_default, respawn, save,
         commit, tar, mv_old, mv_new, rm_log, execute, backup, crash

\* The whole invariant, in every behaviour.
LEMMA SafeAlways == Spec => [](TypeOK /\ TornInv /\ SafeInv)
<1>1. Init => TypeOK /\ TornInv /\ SafeInv BY TypeInit, SafeInit
<1>2. TypeOK /\ TornInv /\ SafeInv /\ [Next]_vars => (TypeOK /\ TornInv /\ SafeInv)'
  <2> SUFFICES ASSUME TypeOK, TornInv, SafeInv, [Next]_vars
               PROVE  TypeOK' /\ TornInv' /\ SafeInv'
    OBVIOUS
  <2>1. TypeOK' /\ TornInv' BY TypeStep, TornStep
  <2>2. ASSUME exposed' = "no" PROVE Safe'
    <3>1. Good BY <2>2, ExposedStays DEF SafeInv, Good
    <3>. QED BY <2>1, <2>2, <3>1, FreshStep, OnceStep, KeptStep, RestoreStep DEF Safe
  <2>. QED BY <2>1, <2>2 DEF SafeInv
<1>. QED BY <1>1, <1>2, PTL DEF Spec

\* Whatever fails and whenever, the state is well formed (updatelog.lua and the
\* start scripts).
THEOREM TypeCorrect == Spec => []TypeOK
<1>1. TypeOK /\ TornInv /\ [Next]_vars => (TypeOK /\ TornInv)' BY TypeStep, TornStep
<1>. QED BY <1>1, TypeInit, PTL DEF Spec

\* Whatever fails and whenever, a torn record is removed before the next one is
\* written (disk_91_restore.lua's error_return).
THEOREM TornRemoved == Spec => []TornIsLast
<1>1. TypeOK /\ TornInv /\ [Next]_vars => (TypeOK /\ TornInv)' BY TypeStep, TornStep
<1>2. TornInv => TornIsLast BY DEF TornInv
<1>. QED BY <1>1, <1>2, TypeInit, PTL DEF Spec
\* Unless a crash has met one of the two windows of db.sh, or the log has filled
\* up inside a transaction, every answered write survives every crash.
THEOREM DatabaseDurable == Spec => []Durable
<1>1. SafeInv => Durable BY DEF SafeInv, Safe, KeptInv, Durable, NothingLost
<1>. QED BY <1>1, SafeAlways, PTL

\* With the same exceptions disk_91_restore.lua never gives up on its own log.
THEOREM StartSucceeds == Spec => []RestoreOK
<1>1. SafeInv => RestoreOK BY DEF SafeInv, Safe, RestoreOK
<1>. QED BY <1>1, SafeAlways, PTL
=============================================================================
