-------------------------- MODULE StackRecordsProofs --------------------------
(***************************************************************************)
(* Manifest ownership for any number of processes, PIDs and files.  The    *)
(* argument: the lock makes "read every record, then write mine" atomic    *)
(* with respect to other writers (ScanInv), the only thing that can happen *)
(* to a record between the check and the write is that its owner dies, and *)
(* a dead owner's PID never makes its record look live to a check that     *)
(* matters (PidInv, RecordInv).                                            *)
(***************************************************************************)
EXTENDS StackRecords, TLAPS

\* Running processes have distinct PIDs.
PidInv ==
  \A p, q \in Proc : Running(p) => pid[p] \in Pid /\ (Running(q) /\ pid[p] = pid[q] => p = q)

\* Only a process inside an operation on the records holds the lock.
LockInv == \A p \in Proc : lock = p => pc[p] \in Locked

\* n.json was written by a process that has started, and under PID n.
RecordInv ==
  \A n \in Pid : \A r \in records[n] :
    /\ pc[r.owner] # "off"
    /\ Running(r.owner) => pid[r.owner] = n
    /\ \A s \in records[n] : s = r

\* Records of different running processes name different files.
ExclusiveInv ==
  \A n, m \in Pid : \A r \in records[n], s \in records[m] :
    (n # m /\ Running(r.owner) /\ Running(s.owner)) => r.files \cap s.files = {}

\* What the lock holder has read does not stand in its way.
ScanInv ==
  \A p \in Proc : (lock = p /\ pc[p] \in Registering) =>
    \A n \in Pid : \A r \in records[n] :
      (n \notin unread[p] /\ n # pid[p] /\ Running(r.owner)) => r.files \cap Requested(p) = {}

\* The stages between registration and shutdown.
Registered == {"serving", "reserve", "reloading", "accept", "reject"}

\* The record of a registered stack is what it believes, and covers its use
\* whichever way a reload under way ends.
UseInv ==
  \A p \in Proc :
    /\ pc[p] \notin Registered => accepted[p] = {}
    /\ pc[p] \in Registered =>
         /\ \E r \in records[pid[p]] : r.owner = p /\ r.files = manifestFiles[p]
         /\ accepted[p] \subseteq manifestFiles[p]
    /\ pc[p] \in {"reserve", "reloading", "reject"} => accepted[p] \subseteq previous[p]
    /\ pc[p] = "reloading" => candidate[p] \subseteq manifestFiles[p]
    /\ pc[p] = "accept" => accepted[p] \subseteq candidate[p]

IInv == TypeOK /\ PidInv /\ LockInv /\ RecordInv /\ ExclusiveInv /\ ScanInv /\ UseInv

-----------------------------------------------------------------------------
\* The initial state has no process, no record and no lock.
LEMMA InitIInv == Init => IInv
<1> SUFFICES ASSUME Init PROVE IInv
  OBVIOUS
<1> USE NoneAssumption, RootAssumption DEF Init
<1>1. TypeOK
  BY DEF TypeOK, Activities
<1>2. PidInv /\ RecordInv /\ ExclusiveInv /\ UseInv
  BY DEF PidInv, RecordInv, ExclusiveInv, UseInv, Running, Registered
<1>3. LockInv /\ ScanInv
  BY DEF LockInv, ScanInv
<1>4. QED
  BY <1>1, <1>2, <1>3 DEF IInv

\* What an operation requests is a set of files.
LEMMA RequestedType == ASSUME TypeOK, NEW p \in Proc PROVE Requested(p) \in SUBSET File
BY RootAssumption DEF TypeOK, Requested

\* Every step preserves the types.
LEMMA TypeStep == TypeOK /\ [Next]_vars => TypeOK'
<1> SUFFICES ASSUME TypeOK, [Next]_vars PROVE TypeOK'
  OBVIOUS
<1> USE RootAssumption DEF TypeOK, Activities, Locked, Registering, files
<1>1. ASSUME NEW p \in Proc, NEW n \in Pid, NEW S \in SUBSET File, Spawn(p, n, S) PROVE TypeOK'
  BY <1>1 DEF Spawn
<1>2. ASSUME NEW p \in Proc, NEW S \in SUBSET File, Reload(p, S) PROVE TypeOK'
  BY <1>2 DEF Reload
<1>3. ASSUME NEW p \in Proc, TakeLock(p) PROVE TypeOK'
  BY <1>3 DEF TakeLock
<1>4. ASSUME NEW p \in Proc, CleanupDone(p) PROVE TypeOK'
  BY <1>4 DEF CleanupDone
<1>5. ASSUME NEW p \in Proc, Write(p) PROVE TypeOK'
  <2>1. Requested(p) \in SUBSET File
    BY RequestedType
  <2> DEFINE new == [owner |-> p, files |-> Requested(p)]
  <2>2. new \in Record
    BY <2>1 DEF Record
  <2> HIDE DEF new
  <2>3. records' = [records EXCEPT ![pid[p]] = {new}]
    BY <1>5 DEF Write, new
  <2>4. records' \in [Pid -> SUBSET Record]
    BY <2>2, <2>3
  <2>5. QED
    BY <1>5, <2>1, <2>4 DEF Write
<1>6. ASSUME NEW p \in Proc, Unregister(p) PROVE TypeOK'
  BY <1>6 DEF Unregister
<1>7. ASSUME NEW p \in Proc, NEW n \in Pid, CleanEntry(p, n) PROVE TypeOK'
  BY <1>7 DEF CleanEntry
<1>8. ASSUME NEW p \in Proc, NEW n \in Pid, PassEntry(p, n) PROVE TypeOK'
  BY <1>8 DEF PassEntry
<1>9. ASSUME NEW p \in Proc, NEW n \in Pid, Refuse(p, n) PROVE TypeOK'
  BY <1>9 DEF Refuse, EndWithError, AfterError
<1>10. ASSUME NEW p \in Proc, IOError(p) PROVE TypeOK'
  BY <1>10 DEF IOError, EndWithError, AfterError
<1>11. ASSUME NEW p \in Proc, Accept(p) \/ Reject(p) \/ Leave(p) \/ Crash(p) PROVE TypeOK'
  BY <1>11 DEF Accept, Reject, Leave, Crash
<1>12. CASE UNCHANGED vars
  BY <1>12 DEF vars
<1>13. QED
  BY <1>1, <1>2, <1>3, <1>4, <1>5, <1>6, <1>7, <1>8, <1>9, <1>10, <1>11, <1>12 DEF Next, Step

\* Type correctness: the variables keep their types in every run.
THEOREM TypeCorrect == Spec => []TypeOK
<1>1. Init => TypeOK
  BY InitIInv DEF IInv
<1>2. QED
  BY <1>1, TypeStep, PTL DEF Spec

-----------------------------------------------------------------------------
\* No process appears and no record is written: processes may die and records
\* may be removed.
Shrinks ==
  /\ \A q \in Proc : Running(q)' => Running(q) /\ pid'[q] = pid[q]
  /\ \A q \in Proc : pc[q] # "off" => pc'[q] # "off"
  /\ \A n \in Pid : records'[n] \subseteq records[n]

\* Nobody comes to hold the lock, and the holder's scan is as it was.
ScanUndisturbed ==
  \A q \in Proc : (lock' = q /\ pc'[q] \in Registering) =>
    lock = q /\ pc[q] = pc'[q] /\ unread'[q] = unread[q] /\ Requested(q)' = Requested(q)

\* Every step but a process's start and a record's write shrinks the state.
LEMMA ShrinkStep ==
  ASSUME TypeOK, NEW p \in Proc, NEW n \in Pid, NEW S \in SUBSET File,
         \/ Reload(p, S) \/ TakeLock(p) \/ IOError(p) \/ Accept(p) \/ Reject(p) \/ Leave(p) \/ Crash(p)
         \/ CleanupDone(p) \/ Unregister(p) \/ CleanEntry(p, n) \/ PassEntry(p, n) \/ Refuse(p, n)
  PROVE Shrinks
<1> USE DEF Shrinks, Running, TypeOK, Locked, Registering, files
<1>1. CASE Reload(p, S) \/ TakeLock(p) \/ Accept(p) \/ Reject(p) \/ Leave(p) \/ Crash(p)
  BY <1>1 DEF Reload, TakeLock, Accept, Reject, Leave, Crash
<1>2. CASE IOError(p) \/ Refuse(p, n)
  BY <1>2 DEF IOError, Refuse, EndWithError, AfterError
<1>3. CASE CleanupDone(p) \/ Unregister(p) \/ CleanEntry(p, n) \/ PassEntry(p, n)
  BY <1>3 DEF CleanupDone, Unregister, CleanEntry, PassEntry
<1>4. QED
  BY <1>1, <1>2, <1>3

\* What a state that shrinks keeps.
LEMMA ShrinkKeeps ==
  ASSUME TypeOK, TypeOK', PidInv, RecordInv, ExclusiveInv, Shrinks
  PROVE  PidInv' /\ RecordInv' /\ ExclusiveInv'
<1> USE DEF Shrinks
<1>1. PidInv'
  BY DEF PidInv
<1>2. \A m \in Pid : \A r \in records'[m] : r \in records[m] /\ r.owner \in Proc
  BY DEF TypeOK, Record
<1>3. RecordInv'
  BY <1>2 DEF RecordInv, Running
<1>4. ExclusiveInv'
  BY <1>2 DEF ExclusiveInv
<1>5. QED
  BY <1>1, <1>3, <1>4

\* Every step but Write and the two that move a scan on leaves scans alone.
LEMMA UndisturbedStep ==
  ASSUME TypeOK, LockInv, NEW p \in Proc, NEW n \in Pid, NEW S \in SUBSET File,
         \/ Spawn(p, n, S) \/ Reload(p, S) \/ IOError(p) \/ Accept(p) \/ Reject(p) \/ Leave(p) \/ Crash(p)
         \/ CleanupDone(p) \/ Unregister(p) \/ CleanEntry(p, n) \/ Refuse(p, n) \/ Write(p)
  PROVE ScanUndisturbed /\ LockInv'
<1> USE NoneAssumption DEF ScanUndisturbed, LockInv, Requested, TypeOK, Locked, Registering, files
<1>1. CASE Spawn(p, n, S) \/ Reload(p, S)
  BY <1>1 DEF Spawn, Reload
<1>2. CASE Accept(p) \/ Reject(p) \/ Leave(p) \/ Crash(p)
  BY <1>2 DEF Accept, Reject, Leave, Crash
<1>3. CASE IOError(p) \/ Refuse(p, n)
  BY <1>3 DEF IOError, Refuse, EndWithError, AfterError
<1>4. CASE CleanupDone(p) \/ Unregister(p) \/ CleanEntry(p, n)
  BY <1>4 DEF CleanupDone, Unregister, CleanEntry
<1>5. CASE Write(p)
  BY <1>5 DEF Write
<1>6. QED
  BY <1>1, <1>2, <1>3, <1>4, <1>5

\* The lock holder goes on from the same stage, whatever others do.
LEMMA UndisturbedKeeps ==
  ASSUME TypeOK, TypeOK', ScanInv, Shrinks, ScanUndisturbed
  PROVE  ScanInv'
<1> SUFFICES ASSUME NEW q \in Proc, lock' = q, pc'[q] \in Registering,
                    NEW m \in Pid, NEW r \in records'[m],
                    m \notin unread'[q], m # pid'[q], Running(r.owner)'
             PROVE  r.files \cap Requested(q)' = {}
  BY DEF ScanInv
<1>1. r \in records[m] /\ r.owner \in Proc /\ Running(r.owner)
  BY DEF Shrinks, TypeOK, Record
<1>2. lock = q /\ pc[q] = pc'[q] /\ unread'[q] = unread[q] /\ Requested(q)' = Requested(q)
  BY DEF ScanUndisturbed
<1>3. pid'[q] = pid[q]
  <2>1. Running(q)'
    BY DEF Running, Registering
  <2>2. QED
    BY <2>1 DEF Shrinks
<1>4. QED
  BY <1>1, <1>2, <1>3 DEF ScanInv

-----------------------------------------------------------------------------
\* The lock is taken with a complete list of the records to read.
LEMMA TakeLockKeeps ==
  ASSUME IInv, TypeOK', NEW p \in Proc, TakeLock(p)
  PROVE  LockInv' /\ ScanInv'
<1> USE NoneAssumption DEF IInv, TakeLock, TypeOK, files
<1>1. LockInv'
  BY DEF LockInv
<1>2. ScanInv'
  BY DEF ScanInv, Locked, Registering
<1>3. QED
  BY <1>1, <1>2

\* An entry that was read and found harmless is harmless while the lock is held.
LEMMA PassEntryKeeps ==
  ASSUME IInv, TypeOK', NEW p \in Proc, NEW n \in Pid, PassEntry(p, n)
  PROVE  LockInv' /\ ScanInv'
<1> USE NoneAssumption DEF IInv, PassEntry, TypeOK, files
<1>1. LockInv'
  BY DEF LockInv
<1>2. SUFFICES ASSUME NEW m \in Pid, NEW r \in records[m],
                      m \notin unread'[p], m # pid[p], Running(r.owner), pc[p] \in Registering
               PROVE  r.files \cap Requested(p) = {}
  BY <1>1 DEF ScanInv, Requested, Running
<1>3. CASE m = n
  <2>1. r.owner \in Proc /\ pid[r.owner] = n
    BY <1>2, <1>3 DEF RecordInv, Record
  <2>2. FALSE \notin IsOwnerAlive(n, r)
    BY <1>2, <2>1 DEF IsOwnerAlive
  <2>3. QED
    BY <1>2, <1>3, <2>2 DEF Harmless
<1>4. CASE m # n
  BY <1>2, <1>4 DEF ScanInv
<1>5. QED
  BY <1>3, <1>4

\* A new process takes a PID nobody runs under, and has no record of its own.
LEMMA SpawnKeeps ==
  ASSUME IInv, TypeOK', NEW p \in Proc, NEW n \in Pid, NEW S \in SUBSET File, Spawn(p, n, S)
  PROVE  PidInv' /\ RecordInv' /\ ExclusiveInv' /\ ScanInv'
<1> USE DEF IInv, Spawn, TypeOK
<1>1. \A q \in Proc : (Running(q)' <=> (Running(q) \/ q = p)) /\ (q # p => pid'[q] = pid[q])
  BY DEF Running
<1>2. \A m \in Pid : \A r \in records[m] : r.owner \in Proc /\ r.owner # p
  BY DEF RecordInv, Record
<1>3. PidInv'
  BY <1>1 DEF PidInv
<1>4. RecordInv'
  BY <1>1, <1>2 DEF RecordInv
<1>5. ExclusiveInv'
  BY <1>1, <1>2 DEF ExclusiveInv
<1>6. ScanInv'
  <2>1. ScanUndisturbed
    BY UndisturbedStep
  <2>2. ASSUME NEW q \in Proc, lock' = q, pc'[q] \in Registering PROVE q # p
    BY <2>2 DEF Registering
  <2>3. QED
    BY <1>1, <1>2, <2>1, <2>2 DEF ScanInv, ScanUndisturbed
<1>7. QED
  BY <1>3, <1>4, <1>5, <1>6

\* The record a process writes is exclusive because its scan found no overlap.
LEMMA WriteKeeps ==
  ASSUME IInv, TypeOK', NEW p \in Proc, Write(p)
  PROVE  PidInv' /\ RecordInv' /\ ExclusiveInv' /\ ScanInv'
<1> DEFINE new == [owner |-> p, files |-> Requested(p)]
<1> USE DEF IInv, TypeOK
<1>1. pc[p] \in Registering /\ Running(p) /\ pid[p] \in Pid
  BY DEF Write, Registering, Running, PidInv
<1>2. /\ pid' = pid /\ \A q \in Proc : (Running(q)' <=> Running(q)) /\ (pc[q] # "off" => pc'[q] # "off")
      /\ pc'[p] # "off"
  BY <1>1 DEF Write, Running, Registering
<1>3. \A m \in Pid : records'[m] = IF m = pid[p] THEN {new} ELSE records[m]
  BY <1>1 DEF Write
<1>4. PidInv'
  BY <1>2 DEF PidInv
<1>5. RecordInv'
  BY <1>1, <1>2, <1>3 DEF RecordInv, Record
<1>6. ASSUME NEW m \in Pid, NEW r \in records[m], m # pid[p], Running(r.owner)
      PROVE  r.files \cap Requested(p) = {}
  BY <1>1, <1>6 DEF ScanInv, Write
<1>7. ExclusiveInv'
  BY <1>2, <1>3, <1>6 DEF ExclusiveInv, Record
<1>8. ScanInv'
  BY NoneAssumption DEF ScanInv, Write
<1>9. QED
  BY <1>4, <1>5, <1>7, <1>8

-----------------------------------------------------------------------------
\* No other process touches the record of a registered stack.
LEMMA RegisteredRecord ==
  ASSUME IInv, [Next]_vars, NEW q \in Proc, pc[q] \in Registered, pc'[q] \in Registered,
         lock # q \/ records' = records
  PROVE  records'[pid'[q]] = records[pid[q]]
<1> USE DEF IInv, TypeOK
<1>1. Running(q) /\ pid[q] \in Pid
  BY DEF Running, Registered, PidInv
<1>2. \E r \in records[pid[q]] : r.owner = q
  BY DEF UseInv
<1>3. PICK r \in records[pid[q]] : r.owner = q
  BY <1>2
<1>4. ASSUME NEW p \in Proc, p # q, pid[p] = pid[q] PROVE ~Running(p)
  BY <1>1, <1>4 DEF PidInv
<1>5. ASSUME NEW p \in Proc, NEW n \in Pid, CleanEntry(p, n) PROVE records'[pid[q]] = records[pid[q]]
  <2>1. CASE n # pid[q]
    <3>1. records' = records \/ records' = [records EXCEPT ![n] = {}]
      BY <1>5 DEF CleanEntry
    <3>2. QED
      BY <1>1, <2>1, <3>1
  <2>2. CASE n = pid[q]
    <3>1. \A s \in records[n] : FALSE \notin IsOwnerAlive(n, s)
      BY <1>1, <1>3, <2>2 DEF RecordInv, IsOwnerAlive
    <3>2. QED
      BY <1>5, <3>1 DEF CleanEntry
  <2>3. QED
    BY <2>1, <2>2
<1>6. ASSUME NEW p \in Proc, Write(p) \/ Unregister(p) PROVE records'[pid[q]] = records[pid[q]]
  <2>1. CASE p = q
    BY <1>6, <2>1 DEF Write, Unregister, Registered
  <2>2. CASE p # q
    <3>1. Running(p)
      BY <1>6 DEF Write, Unregister, Running, Registering
    <3>2. pid[p] # pid[q]
      BY <1>4, <2>2, <3>1
    <3>3. PICK new : records' = [records EXCEPT ![pid[p]] = new]
      BY <1>6 DEF Write, Unregister
    <3>4. QED
      BY <1>1, <3>2, <3>3
  <2>3. QED
    BY <2>1, <2>2
<1>7. records'[pid[q]] = records[pid[q]]
  <2>1. ASSUME NEW p \in Proc, NEW n \in Pid, NEW S \in SUBSET File,
               \/ Spawn(p, n, S) \/ Reload(p, S) \/ TakeLock(p) \/ IOError(p)
               \/ Accept(p) \/ Reject(p) \/ Leave(p) \/ Crash(p)
        PROVE  records' = records
    BY <2>1 DEF Spawn, Reload, TakeLock, IOError, EndWithError, Accept, Reject, Leave, Crash
  <2>2. ASSUME NEW p \in Proc, NEW n \in Pid, CleanupDone(p) \/ PassEntry(p, n) \/ Refuse(p, n)
        PROVE  records' = records
    BY <2>2 DEF CleanupDone, PassEntry, Refuse, EndWithError
  <2>3. CASE UNCHANGED vars
    BY <2>3 DEF vars
  <2>4. CASE Next
    <3>1. PICK p \in Proc :
            \/ \E n \in Pid, S \in SUBSET File : Spawn(p, n, S)
            \/ \E S \in SUBSET File : Reload(p, S)
            \/ TakeLock(p) \/ Step(p) \/ IOError(p)
            \/ Accept(p) \/ Reject(p) \/ Leave(p) \/ Crash(p)
      BY <2>4 DEF Next
    <3>2. CASE Step(p)
      BY <1>1, <1>5, <1>6, <2>2, <3>2 DEF Step
    <3>3. CASE ~Step(p)
      BY <1>1, <2>1, <3>1, <3>3
    <3>4. QED
      BY <3>2, <3>3
  <2>5. QED
    BY <2>3, <2>4
<1>8. pid'[q] = pid[q]
  BY <1>1 DEF Next, Step, Registered, Spawn, Reload, TakeLock, IOError, EndWithError, AfterError, Accept, Reject,
       Leave, Crash, CleanupDone, CleanEntry, PassEntry, Refuse, Write, Unregister, Registering, Locked, vars, files
<1>9. QED
  BY <1>7, <1>8

\* Use stays covered by what is registered, whatever becomes of a reload.
LEMMA UseStep == ASSUME IInv, TypeOK', [Next]_vars PROVE UseInv'
<1> SUFFICES ASSUME NEW q \in Proc
             PROVE  /\ pc'[q] \notin Registered => accepted'[q] = {}
                    /\ pc'[q] \in Registered =>
                         /\ \E r \in records'[pid'[q]] : r.owner = q /\ r.files = manifestFiles'[q]
                         /\ accepted'[q] \subseteq manifestFiles'[q]
                    /\ pc'[q] \in {"reserve", "reloading", "reject"} => accepted'[q] \subseteq previous'[q]
                    /\ pc'[q] = "reloading" => candidate'[q] \subseteq manifestFiles'[q]
                    /\ pc'[q] = "accept" => accepted'[q] \subseteq candidate'[q]
  BY DEF UseInv
<1> DEFINE Goal(A) == A => /\ pc'[q] \notin Registered => accepted'[q] = {}
                           /\ pc'[q] \in Registered => accepted'[q] \subseteq manifestFiles'[q]
                           /\ pc'[q] \in {"reserve", "reloading", "reject"} => accepted'[q] \subseteq previous'[q]
                           /\ pc'[q] = "reloading" => candidate'[q] \subseteq manifestFiles'[q]
                           /\ pc'[q] = "accept" => accepted'[q] \subseteq candidate'[q]
<1> USE DEF Registered, Registering, Locked, files
<1>1. /\ pc[q] \notin Registered => accepted[q] = {}
      /\ pc[q] \in Registered =>
           /\ \E r \in records[pid[q]] : r.owner = q /\ r.files = manifestFiles[q]
           /\ accepted[q] \subseteq manifestFiles[q]
      /\ pc[q] \in {"reserve", "reloading", "reject"} => accepted[q] \subseteq previous[q]
      /\ pc[q] = "reloading" => candidate[q] \subseteq manifestFiles[q]
      /\ pc[q] = "accept" => accepted[q] \subseteq candidate[q]
  BY DEF IInv, UseInv
<1>2. ASSUME NEW p \in Proc, TakeLock(p) \/ \E S \in SUBSET File : Reload(p, S) \/ \E n \in Pid : Spawn(p, n, S)
      PROVE Goal(TRUE) /\ records' = records /\ (pc'[q] \in Registered => manifestFiles'[q] = manifestFiles[q] /\ pc[q] \in Registered)
  BY <1>1, <1>2 DEF Spawn, Reload, TakeLock, IInv, TypeOK
<1>3. ASSUME NEW p \in Proc, Accept(p) \/ Reject(p) \/ Leave(p) \/ Crash(p)
      PROVE Goal(TRUE) /\ records' = records /\ (pc'[q] \in Registered => manifestFiles'[q] = manifestFiles[q] /\ pc[q] \in Registered)
  BY <1>1, <1>3 DEF Accept, Reject, Leave, Crash, IInv, TypeOK
<1>4. ASSUME NEW p \in Proc, IOError(p) \/ \E n \in Pid : Refuse(p, n)
      PROVE Goal(TRUE) /\ records' = records /\ (pc'[q] \in Registered => manifestFiles'[q] = manifestFiles[q] /\ pc[q] \in Registered)
  BY <1>1, <1>4 DEF IOError, Refuse, EndWithError, AfterError, IInv, TypeOK
<1>5. ASSUME NEW p \in Proc, CleanupDone(p) \/ Unregister(p) \/ \E n \in Pid : PassEntry(p, n) \/ CleanEntry(p, n)
      PROVE /\ Goal(TRUE)
            /\ pc'[q] \in Registered => manifestFiles'[q] = manifestFiles[q] /\ pc[q] \in Registered /\ (lock # q \/ records' = records)
  BY <1>1, <1>5 DEF CleanupDone, PassEntry, CleanEntry, Unregister, IInv, TypeOK
<1>6. ASSUME NEW p \in Proc, Write(p), p # q
      PROVE /\ Goal(TRUE)
            /\ pc'[q] \in Registered => manifestFiles'[q] = manifestFiles[q] /\ pc[q] \in Registered /\ lock # q
  BY <1>1, <1>6 DEF Write, IInv, TypeOK
<1>7. ASSUME Write(q)
      PROVE Goal(TRUE) /\ \E r \in records'[pid'[q]] : r.owner = q /\ r.files = manifestFiles'[q]
  <2>1. pid'[q] = pid[q] /\ pid[q] \in Pid
    BY <1>7 DEF Write, IInv, PidInv, Running
  <2>2. records'[pid'[q]] = {[owner |-> q, files |-> Requested(q)]} /\ manifestFiles'[q] = Requested(q)
    BY <1>7, <2>1 DEF Write, IInv, TypeOK
  <2>3. Goal(TRUE)
    BY <1>1, <1>7, <2>2 DEF Write, Requested, IInv, TypeOK
  <2>4. QED
    BY <2>2, <2>3
<1>8. CASE UNCHANGED vars
  BY <1>1, <1>8 DEF vars
<1>9. ASSUME pc'[q] \in Registered, pc[q] \in Registered, lock # q \/ records' = records, manifestFiles'[q] = manifestFiles[q]
      PROVE  \E r \in records'[pid'[q]] : r.owner = q /\ r.files = manifestFiles'[q]
  BY <1>1, <1>9, RegisteredRecord
<1>10. CASE Next
  <2>1. PICK p \in Proc :
          \/ \E n \in Pid, S \in SUBSET File : Spawn(p, n, S)
          \/ \E S \in SUBSET File : Reload(p, S)
          \/ TakeLock(p) \/ Step(p) \/ IOError(p)
          \/ Accept(p) \/ Reject(p) \/ Leave(p) \/ Crash(p)
    BY <1>10 DEF Next
  <2>2. CASE \E n \in Pid, S \in SUBSET File : Spawn(p, n, S)
    BY <1>2, <1>9, <2>2
  <2>3. CASE Step(p)
    <3>1. CASE \E n \in Pid : Refuse(p, n)
      BY <1>4, <1>9, <3>1
    <3>2. CASE Write(p)
      BY <1>6, <1>7, <1>9, <3>2
    <3>3. CASE CleanupDone(p) \/ Unregister(p) \/ \E n \in Pid : CleanEntry(p, n) \/ PassEntry(p, n)
      <4>1. /\ Goal(TRUE)
            /\ pc'[q] \in Registered => manifestFiles'[q] = manifestFiles[q] /\ pc[q] \in Registered /\ (lock # q \/ records' = records)
        BY <1>5, <3>3
      <4>2. QED
        BY <1>9, <4>1
    <3>4. QED
      BY <2>3, <3>1, <3>2, <3>3 DEF Step
  <2>4. CASE \E S \in SUBSET File : Reload(p, S)
    BY <1>2, <1>9, <2>4
  <2>5. CASE TakeLock(p) \/ IOError(p) \/ Accept(p) \/ Reject(p) \/ Leave(p) \/ Crash(p)
    BY <1>2, <1>3, <1>4, <1>9, <2>5
  <2>6. QED
    BY <2>1, <2>2, <2>3, <2>4, <2>5
<1>11. QED
  BY <1>8, <1>10

-----------------------------------------------------------------------------
\* The inductive invariant is preserved by every step.
LEMMA NextIInv == IInv /\ [Next]_vars => IInv'
<1> SUFFICES ASSUME IInv, [Next]_vars PROVE IInv'
  OBVIOUS
<1>1. TypeOK' /\ UseInv'
  BY TypeStep, UseStep DEF IInv
<1>2. ASSUME NEW p \in Proc, NEW n \in Pid, NEW S \in SUBSET File,
             \/ Reload(p, S) \/ IOError(p) \/ Accept(p) \/ Reject(p) \/ Leave(p) \/ Crash(p)
             \/ CleanupDone(p) \/ Unregister(p) \/ CleanEntry(p, n) \/ Refuse(p, n)
      PROVE  IInv'
  <2>1. Shrinks
    BY <1>2, ShrinkStep DEF IInv
  <2>2. ScanUndisturbed /\ LockInv'
    BY <1>2, UndisturbedStep DEF IInv
  <2>3. QED
    BY <1>1, <2>1, <2>2, ShrinkKeeps, UndisturbedKeeps DEF IInv
<1>3. ASSUME NEW p \in Proc, NEW n \in Pid, NEW S \in SUBSET File, TakeLock(p) \/ PassEntry(p, n) PROVE IInv'
  <2>1. Shrinks
    BY <1>3, ShrinkStep DEF IInv
  <2>2. QED
    BY <1>1, <1>3, <2>1, ShrinkKeeps, TakeLockKeeps, PassEntryKeeps DEF IInv
<1>4. ASSUME NEW p \in Proc, NEW n \in Pid, NEW S \in SUBSET File, Spawn(p, n, S) PROVE IInv'
  BY <1>1, <1>4, SpawnKeeps, UndisturbedStep DEF IInv
<1>5. ASSUME NEW p \in Proc, NEW n \in Pid, NEW S \in SUBSET File, Write(p) PROVE IInv'
  BY <1>1, <1>5, WriteKeeps, UndisturbedStep DEF IInv
<1>6. CASE UNCHANGED vars
  BY <1>6 DEF vars, IInv, TypeOK, PidInv, LockInv, RecordInv, ExclusiveInv, ScanInv, UseInv, Running, Requested
<1>7. CASE Next
  <2>1. PICK p \in Proc :
          \/ \E n \in Pid, S \in SUBSET File : Spawn(p, n, S)
          \/ \E S \in SUBSET File : Reload(p, S)
          \/ TakeLock(p) \/ Step(p) \/ IOError(p)
          \/ Accept(p) \/ Reject(p) \/ Leave(p) \/ Crash(p)
    BY <1>7 DEF Next
  <2>2. CASE \E n \in Pid, S \in SUBSET File : Spawn(p, n, S)
    BY <1>4, <2>2
  <2>3. CASE Pid = {}
    \* Nothing runs without PIDs.
    <3>1. \A q \in Proc : ~Running(q)
      BY <2>3 DEF IInv, PidInv
    <3>2. QED
      BY <2>1, <2>3, <3>1 DEF Running, Reload, TakeLock, Step, IOError, Accept, Reject, Leave, Crash, CleanupDone,
           Write, Unregister, Locked, Registering
  <2>4. CASE Pid # {} /\ ~ \E n \in Pid, S \in SUBSET File : Spawn(p, n, S)
    <3>1. PICK n0 \in Pid : TRUE
      BY <2>4
    <3>2. PICK S0 \in SUBSET File : TRUE
      OBVIOUS
    <3>3. QED
      BY <1>2, <1>3, <1>5, <2>1, <2>4, <3>1, <3>2 DEF Step
  <2>5. QED
    BY <2>2, <2>3, <2>4
<1>8. QED
  BY <1>6, <1>7

\* IInv holds in every reachable state.
THEOREM Inductive == Spec => []IInv
BY InitIInv, NextIInv, PTL DEF Spec

-----------------------------------------------------------------------------
\* Every file a stack reads is named by its own record on disk.
THEOREM Covered == Spec => []RecordCoversUse
<1>1. IInv => RecordCoversUse
  <2> SUFFICES ASSUME IInv, NEW p \in Proc PROVE Using(p) \subseteq Holds[p]
    BY DEF RecordCoversUse
  <2>1. CASE pc[p] \notin Registered
    BY <2>1 DEF IInv, UseInv, Using, Registered
  <2>2. CASE pc[p] \in Registered
    <3>1. PICK r \in records[pid[p]] : r.owner = p /\ r.files = manifestFiles[p]
      BY <2>2 DEF IInv, UseInv
    <3>2. r \in OwnRecord(p)
      BY <2>2, <3>1 DEF OwnRecord, Running, Registered
    <3>3. Using(p) \subseteq manifestFiles[p]
      BY <2>2 DEF IInv, UseInv, Using
    <3>4. QED
      BY <3>1, <3>2, <3>3 DEF Holds
  <2>3. QED
    BY <2>1, <2>2
<1>2. QED
  BY <1>1, Inductive, PTL

\* The records of two running processes name no common file.
LEMMA HoldsExclusive ==
  ASSUME IInv, NEW p \in Proc, NEW q \in Proc, p # q
  PROVE  Holds[p] \cap Holds[q] = {}
<1> SUFFICES ASSUME NEW r \in OwnRecord(p), NEW s \in OwnRecord(q) PROVE r.files \cap s.files = {}
  BY DEF Holds
<1>1. /\ Running(p) /\ r \in records[pid[p]] /\ r.owner = p
      /\ Running(q) /\ s \in records[pid[q]] /\ s.owner = q
  BY DEF OwnRecord
<1>2. pid[p] \in Pid /\ pid[q] \in Pid /\ pid[p] # pid[q]
  BY <1>1 DEF IInv, PidInv
<1>3. QED
  BY <1>1, <1>2 DEF IInv, ExclusiveInv

\* No two running stacks read the same manifest file.
THEOREM Exclusivity == Spec => []ManifestExclusive
<1>1. IInv /\ RecordCoversUse => ManifestExclusive
  BY HoldsExclusive DEF RecordCoversUse, ManifestExclusive
<1>2. QED
  BY <1>1, Inductive, Covered, PTL

-----------------------------------------------------------------------------
\* What process p can do in one step.
Acts(p) ==
  \/ \E n \in Pid, S \in SUBSET File : Spawn(p, n, S)
  \/ \E S \in SUBSET File : Reload(p, S)
  \/ TakeLock(p) \/ Step(p) \/ IOError(p)
  \/ Accept(p) \/ Reject(p) \/ Leave(p) \/ Crash(p)

\* A step of p leaves the own records of the others alone.
LEMMA OthersKeep ==
  ASSUME IInv, NEW p \in Proc, Acts(p), NEW q \in Proc, q # p
  PROVE  OwnRecord(q)' = OwnRecord(q)
<1> USE DEF IInv, TypeOK
<1>1. pid'[q] = pid[q] /\ pc'[q] = pc[q]
  <2>1. CASE Step(p)
    BY <2>1 DEF Step, CleanupDone, Write, Unregister, CleanEntry, PassEntry, Refuse, EndWithError, files
  <2>2. CASE ~Step(p)
    BY <2>2 DEF Acts, Spawn, Reload, TakeLock, IOError, EndWithError, Accept, Reject, Leave, Crash, files
  <2>3. QED
    BY <2>1, <2>2
<1>2. CASE ~Running(q)
  BY <1>1, <1>2 DEF OwnRecord, Running
<1>3. CASE Running(q)
  <2>1. pid[q] \in Pid
    BY <1>3 DEF PidInv
  <2>2. CASE records' = records
    BY <1>1, <1>3, <2>2 DEF OwnRecord, Running
  <2>3. CASE Write(p) \/ Unregister(p)
    <3>1. pid[p] # pid[q]
      BY <1>3, <2>3 DEF PidInv, Write, Unregister, Running, Registering
    <3>2. PICK new : records' = [records EXCEPT ![pid[p]] = new]
      BY <2>3 DEF Write, Unregister
    <3>3. records'[pid[q]] = records[pid[q]]
      BY <2>1, <3>1, <3>2
    <3>4. QED
      BY <1>1, <1>3, <3>3 DEF OwnRecord, Running
  <2>4. ASSUME NEW n \in Pid, CleanEntry(p, n) PROVE OwnRecord(q)' = OwnRecord(q)
    <3>1. records' = records \/ records' = [records EXCEPT ![n] = {}]
      BY <2>4 DEF CleanEntry
    <3>2. CASE n = pid[q] /\ \E r \in records[n] : r.owner = q
      <4>1. \A s \in records[n] : FALSE \notin IsOwnerAlive(n, s)
        BY <1>3, <2>1, <3>2 DEF RecordInv, IsOwnerAlive
      <4>2. QED
        BY <2>2, <2>4, <4>1 DEF CleanEntry
    <3>3. CASE n = pid[q] /\ ~ \E r \in records[n] : r.owner = q
      BY <1>1, <1>3, <2>1, <3>1, <3>3 DEF OwnRecord, Running
    <3>4. CASE n # pid[q]
      <4>1. records'[pid[q]] = records[pid[q]]
        BY <2>1, <3>1, <3>4
      <4>2. QED
        BY <1>1, <1>3, <4>1 DEF OwnRecord, Running
    <3>5. QED
      BY <3>2, <3>3, <3>4
  <2>5. CASE Step(p)
    <3>1. ASSUME NEW n \in Pid, PassEntry(p, n) \/ Refuse(p, n) \/ CleanupDone(p) PROVE records' = records
      BY <3>1 DEF PassEntry, Refuse, EndWithError, CleanupDone
    <3>2. QED
      BY <2>1, <2>2, <2>3, <2>4, <2>5, <3>1 DEF Step
  <2>6. CASE ~Step(p)
    <3>1. records' = records
      BY <2>6 DEF Acts, Spawn, Reload, TakeLock, IOError, EndWithError, Accept, Reject, Leave, Crash
    <3>2. QED
      BY <2>2, <3>1
  <2>7. QED
    BY <2>5, <2>6
<1>4. QED
  BY <1>2, <1>3

\* What a step of p does to p's own record.
LEMMA OwnChange ==
  ASSUME IInv, NEW p \in Proc, Acts(p)
  PROVE  /\ \/ OwnRecord(p)' = OwnRecord(p)
            \/ OwnRecord(p)' = {}
            \/ Write(p) /\ OwnRecord(p)' = {[owner |-> p, files |-> Requested(p)]}
         /\ (OwnRecord(p)' # OwnRecord(p) /\ OwnRecord(p) # {} /\ Running(p)') => lock = p
<1> USE DEF IInv, TypeOK
<1>1. CASE ~Running(p)
  <2>1. OwnRecord(p) = {}
    BY <1>1 DEF OwnRecord
  <2>2. ASSUME NEW n \in Pid, NEW S \in SUBSET File, Spawn(p, n, S) PROVE OwnRecord(p)' = {}
    BY <2>2 DEF Spawn, OwnRecord, RecordInv, Record, Running
  <2>3. ASSUME ~ \E n \in Pid, S \in SUBSET File : Spawn(p, n, S) PROVE FALSE
    BY <1>1, <2>3 DEF Acts, Step, Running, Reload, TakeLock, IOError, Accept, Reject, Leave, Crash, CleanupDone, Write,
       Unregister, CleanEntry, PassEntry, Refuse, Locked, Registering
  <2>4. QED
    BY <2>1, <2>2, <2>3
<1>2. CASE Running(p)
  <2>1. pid[p] \in Pid
    BY <1>2 DEF PidInv
  <2>2. CASE Step(p)
    <3>1. CASE Write(p)
      <4>1. OwnRecord(p)' = {[owner |-> p, files |-> Requested(p)]}
        BY <1>2, <2>1, <3>1 DEF Write, OwnRecord, Running
      <4>2. QED
        BY <3>1, <4>1 DEF Write
    <3>2. CASE Unregister(p)
      BY <1>2, <2>1, <3>2 DEF Unregister, OwnRecord, Running
    <3>3. ASSUME NEW n \in Pid, CleanEntry(p, n) PROVE OwnRecord(p)' = OwnRecord(p)
      <4>1. records'[pid[p]] = records[pid[p]]
        BY <2>1, <3>3 DEF CleanEntry
      <4>2. pid' = pid /\ pc' = pc
        BY <3>3 DEF CleanEntry
      <4>3. QED
        BY <4>1, <4>2 DEF OwnRecord, Running
    <3>4. ASSUME NEW n \in Pid, PassEntry(p, n) \/ CleanupDone(p) PROVE OwnRecord(p)' = OwnRecord(p)
      BY <1>2, <3>4 DEF PassEntry, CleanupDone, OwnRecord, Running
    <3>5. ASSUME NEW n \in Pid, Refuse(p, n) PROVE OwnRecord(p)' = OwnRecord(p)
      BY <1>2, <3>5 DEF Refuse, EndWithError, AfterError, Registering, OwnRecord, Running
    <3>6. QED
      BY <2>1, <2>2, <3>1, <3>2, <3>3, <3>4, <3>5 DEF Step
  <2>3. CASE (\E S \in SUBSET File : Reload(p, S)) \/ TakeLock(p) \/ Accept(p) \/ Reject(p) \/ Leave(p)
    BY <1>2, <2>3 DEF Reload, TakeLock, Accept, Reject, Leave, OwnRecord, Running, Locked, Registering
  <2>4. CASE Crash(p)
    BY <1>2, <2>4 DEF Crash, OwnRecord, Running
  <2>5. CASE IOError(p)
    BY <1>2, <2>5 DEF IOError, EndWithError, AfterError, OwnRecord, Running
  <2>6. QED
    BY <1>2, <2>2, <2>3, <2>4, <2>5 DEF Acts, Spawn, Running
<1>3. QED
  BY <1>1, <1>2

\* Only a stack itself removes or replaces its record while it runs.
THEOREM Kept == Spec => RecordKept
<1>1. IInv /\ [Next]_vars =>
        [\A p \in Proc : (OwnRecord(p) # {} /\ Running(p)' /\ OwnRecord(p)' # OwnRecord(p)) => lock = p]_vars
  <2> SUFFICES ASSUME IInv, Next, NEW q \in Proc, OwnRecord(q) # {}, Running(q)', OwnRecord(q)' # OwnRecord(q)
               PROVE  lock = q
    OBVIOUS
  <2>1. PICK p \in Proc : Acts(p)
    BY DEF Next, Acts
  <2>2. QED
    BY <2>1, OthersKeep, OwnChange
<1>2. QED
  BY <1>1, Inductive, PTL DEF Spec, RecordKept

\* The records implement exclusive ownership of manifest files.
THEOREM Refinement == Spec => OwnershipRefined
<1>1. Init => Ownership!Init
  BY DEF Init, Ownership!Init, Holds, OwnRecord, Running
<1>2. IInv /\ [Next]_vars => [Ownership!Next]_Holds
  <2> SUFFICES ASSUME IInv, [Next]_vars PROVE Ownership!Next \/ Holds' = Holds
    OBVIOUS
  <2>1. CASE UNCHANGED vars
    BY <2>1 DEF vars, Holds, OwnRecord, Running
  <2>2. CASE Next
    <3>1. PICK p \in Proc : Acts(p)
      BY <2>2 DEF Next, Acts
    <3>2. \A q \in Proc \ {p} : Holds'[q] = Holds[q]
      BY <3>1, OthersKeep DEF Holds
    <3>3. Holds' = [Holds EXCEPT ![p] = Holds'[p]]
      BY <3>2 DEF Holds
    <3>4. CASE OwnRecord(p)' = OwnRecord(p)
      BY <3>2, <3>4 DEF Holds
    <3>5. CASE OwnRecord(p)' = {}
      <4>1. Holds'[p] = {}
        BY <3>5 DEF Holds
      <4>2. QED
        BY <3>3, <4>1 DEF Ownership!Next, Ownership!Drop
    <3>6. CASE Write(p) /\ OwnRecord(p)' = {[owner |-> p, files |-> Requested(p)]}
      <4> DEFINE new == [owner |-> p, files |-> Requested(p)]
      <4>1. Holds'[p] = Requested(p)
        <5>1. new.files = Requested(p)
          OBVIOUS
        <5>2. OwnRecord(p)' = {new}
          BY <3>6
        <5> HIDE DEF new
        <5>3. Holds'[p] = UNION {r.files : r \in {new}}
          BY <5>2 DEF Holds
        <5>4. QED
          BY <5>1, <5>3
      <4>2. Requested(p) \in SUBSET File
        BY RequestedType DEF IInv
      <4>3. ASSUME NEW q \in Proc \ {p}, NEW r \in OwnRecord(q) PROVE r.files \cap Requested(p) = {}
        <5>1. Running(q) /\ Running(p) /\ r \in records[pid[q]] /\ r.owner = q
          BY <3>6, <4>3 DEF OwnRecord, Write, Running, Registering
        <5>2. pid[q] \in Pid /\ pid[q] # pid[p]
          BY <4>3, <5>1 DEF IInv, PidInv
        <5>3. QED
          BY <3>6, <5>1, <5>2 DEF IInv, ScanInv, Write
      <4>4. \A q \in Proc \ {p} : Holds[q] \cap Requested(p) = {}
        BY <4>3 DEF Holds
      <4>5. Ownership!Take(p, Requested(p))
        BY <3>3, <4>1, <4>4 DEF Ownership!Take
      <4>6. QED
        BY <4>2, <4>5 DEF Ownership!Next
    <3>7. QED
      BY <3>1, <3>4, <3>5, <3>6, OwnChange
  <2>3. QED
    BY <2>1, <2>2
<1>3. QED
  BY <1>1, <1>2, Inductive, PTL DEF Spec, OwnershipRefined, Ownership!Spec
=============================================================================
