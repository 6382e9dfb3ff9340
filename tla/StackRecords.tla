----------------------------- MODULE StackRecords -----------------------------
(***************************************************************************)
(* The stack records of caddy/stack_record.go and caddy/stack_overlap.go:  *)
(* one file per devhost process, named by its PID, listing the manifest    *)
(* files its stack reads.  Every mutation holds an flock for the whole of  *)
(* its read-check-write.  A process can die at any step, its record stays  *)
(* behind, and the kernel hands its PID to a later process; a record names *)
(* the start identity of its writer, where the platform has one, to tell   *)
(* the two apart.  services/manifest_registration.go reserves the union of *)
(* old and new files around a reload and settles on one of them after it.  *)
(***************************************************************************)
EXTENDS Naturals, FiniteSets

CONSTANTS
  Proc,         \* devhost processes: an incarnation is never reused
  Pid,          \* PIDs, which are reused
  File,         \* canonical manifest and include paths
  Root,         \* Root[p]: the manifest p was started with
  HasIdentity,  \* does the platform have start identities?
  None

ASSUME RootAssumption == Root \in [Proc -> File]
ASSUME IdentityAssumption == HasIdentity \in BOOLEAN
ASSUME NoneAssumption == None \notin Proc /\ None \notin Pid

VARIABLES
  pid,           \* pid[p]: the PID of p while it runs, None before and after
  pc,            \* pc[p]: what p is doing
  lock,          \* the process holding the flock on the records, or None
  records,       \* records[n]: the record file named n.json, as a set of
                 \*   at most one [owner, files]
  unread,        \* unread[p]: directory entries p has still to read
  manifestFiles, \* stackRuntime.manifestFiles: what p believes is registered
  previous,      \* manifestFiles when p's reload began
  accepted,      \* files of p's accepted configuration
  candidate      \* files of the configuration p is reloading to

vars == <<pid, pc, lock, records, unread, manifestFiles, previous, accepted, candidate>>
files == <<manifestFiles, previous, accepted, candidate>>

-----------------------------------------------------------------------------
\* Operations that write the process's own record after an overlap check.
Registering == {"register", "reserve", "accept", "reject"}
\* Operations that run under the lock.
Locked == Registering \union {"cleanup", "unregister"}
Activities == Locked \union {"off", "serving", "reloading", "gone"}

Running(p) == pc[p] \notin {"off", "gone"}

Record == [owner : Proc, files : SUBSET File]

TypeOK ==
  /\ pid \in [Proc -> Pid \union {None}]
  /\ pc \in [Proc -> Activities]
  /\ lock \in Proc \union {None}
  /\ records \in [Pid -> SUBSET Record]
  /\ unread \in [Proc -> SUBSET Pid]
  /\ manifestFiles \in [Proc -> SUBSET File]
  /\ previous \in [Proc -> SUBSET File]
  /\ accepted \in [Proc -> SUBSET File]
  /\ candidate \in [Proc -> SUBSET File]

Init ==
  /\ pid = [p \in Proc |-> None]
  /\ pc = [p \in Proc |-> "off"]
  /\ lock = None
  /\ records = [n \in Pid |-> {}]
  /\ unread = [p \in Proc |-> {}]
  /\ manifestFiles = [p \in Proc |-> {}]
  /\ previous = [p \in Proc |-> {}]
  /\ accepted = [p \in Proc |-> {}]
  /\ candidate = [p \in Proc |-> {}]

\* Faulty variant: an owner that cannot be verified counts as dead.
IsOwnerAliveDoubted(n, r) ==
  LET withPid == {q \in Proc : Running(q) /\ pid[q] = n}
  IN  {alive \in BOOLEAN : alive => r.owner \in withPid}

\* The answers isRecordOwnerAlive can give for record r of n.json.  Without
\* start identities any process with the PID counts as the owner; with them
\* another process does only when its identity cannot be read.
IsOwnerAlive(n, r) ==
  LET withPid == {q \in Proc : Running(q) /\ pid[q] = n}
  IN  {alive \in BOOLEAN :
         /\ alive => withPid # {}
         /\ ~alive => /\ r.owner \notin withPid
                      /\ HasIdentity \/ withPid = {}}

\* Faulty variant: a reload reserves the next files in place of the old ones.
RequestedNextOnly(p) ==
  {Root[p]} \union (IF pc[p] \in {"reserve", "accept"} THEN candidate[p] ELSE manifestFiles[p])

\* The files p's current operation puts in its record.
Requested(p) ==
  {Root[p]} \union
    (IF pc[p] = "reserve" THEN manifestFiles[p] \union candidate[p]
     ELSE IF pc[p] = "accept" THEN candidate[p]
     ELSE IF pc[p] = "reject" THEN previous[p]
     ELSE manifestFiles[p])

\* The entry is not this process's own, its owner may be alive, and it names a
\* requested file.
Overlaps(p, n) ==
  /\ n # pid[p]
  /\ \E r \in records[n] : TRUE \in IsOwnerAlive(n, r) /\ r.files \cap Requested(p) # {}

\* Faulty variant: only root manifests are compared, not included files.
HarmlessRootOnly(p, n) ==
  \/ n = pid[p]
  \/ \A r \in records[n] : FALSE \in IsOwnerAlive(n, r) \/ Root[p] \notin r.files

\* The owner is answered dead or the files are disjoint (or the entry is gone).
Harmless(p, n) ==
  \/ n = pid[p]
  \/ \A r \in records[n] : FALSE \in IsOwnerAlive(n, r) \/ r.files \cap Requested(p) = {}

-----------------------------------------------------------------------------
\* A devhost process starts under a PID no running process has.
Spawn(p, n, S) ==
  /\ pc[p] = "off"
  /\ \A q \in Proc : Running(q) => pid[q] # n
  /\ pid' = [pid EXCEPT ![p] = n]
  /\ pc' = [pc EXCEPT ![p] = "cleanup"]
  /\ manifestFiles' = [manifestFiles EXCEPT ![p] = S \union {Root[p]}]
  /\ UNCHANGED <<lock, records, unread, previous, accepted, candidate>>

\* withFileLock: flock, then read the directory.
TakeLock(p) ==
  /\ pc[p] \in Locked
  /\ lock = None
  /\ lock' = p
  /\ unread' = [unread EXCEPT ![p] = IF pc[p] = "unregister" THEN {} ELSE {n \in Pid : records[n] # {}}]
  /\ UNCHANGED <<pid, pc, records, files>>

\* cleanupStaleStackRecords: keep an entry that is ours or whose owner lives,
\* remove it otherwise.
CleanEntry(p, n) ==
  /\ lock = p /\ pc[p] = "cleanup" /\ n \in unread[p]
  /\ unread' = [unread EXCEPT ![p] = @ \ {n}]
  /\ \/ n = pid[p] /\ UNCHANGED records
     \/ \E r \in records[n], alive \in BOOLEAN :
          /\ n # pid[p]
          /\ alive \in IsOwnerAlive(n, r)
          /\ records' = IF alive THEN records ELSE [records EXCEPT ![n] = {}]
  /\ UNCHANGED <<pid, pc, lock, files>>

CleanupDone(p) ==
  /\ lock = p /\ pc[p] = "cleanup" /\ unread[p] = {}
  /\ lock' = None
  /\ pc' = [pc EXCEPT ![p] = "register"]
  /\ UNCHANGED <<pid, records, unread, files>>

\* overlappingStacks: an entry that does not stand in the way is skipped.
PassEntry(p, n) ==
  /\ lock = p /\ pc[p] \in Registering /\ n \in unread[p]
  /\ Harmless(p, n)
  /\ unread' = [unread EXCEPT ![p] = @ \ {n}]
  /\ UNCHANGED <<pid, pc, lock, records, files>>

\* Where a process goes when its operation under the lock ends in an error: a
\* stack that could not register leaves through StartStack's deferred
\* UnregisterStack, a reload that could not reserve is rejected unapplied, one
\* that could not settle keeps the union registered.
AfterError(p) ==
  IF pc[p] \in {"cleanup", "register"} THEN "unregister"
  ELSE IF pc[p] = "unregister" THEN "gone" ELSE "serving"

EndWithError(p) ==
  /\ pc' = [pc EXCEPT ![p] = AfterError(p)]
  /\ pid' = IF pc[p] = "unregister" THEN [pid EXCEPT ![p] = None] ELSE pid
  /\ candidate' = [candidate EXCEPT ![p] = {}]
  /\ unread' = [unread EXCEPT ![p] = {}]
  /\ UNCHANGED <<records, manifestFiles, previous, accepted>>

\* checkManifestOverlap: another live stack has a requested file.
Refuse(p, n) ==
  /\ lock = p /\ pc[p] \in Registering /\ n \in unread[p]
  /\ Overlaps(p, n)
  /\ lock' = None
  /\ EndWithError(p)

\* The lock, the directory or the file system failed: nothing was renamed over
\* the record.
IOError(p) ==
  /\ pc[p] \in Locked
  /\ lock' = IF lock = p THEN None ELSE lock
  /\ EndWithError(p)

\* Faulty variant: the record is written before every other one was read.
WriteUnchecked(p) ==
  /\ lock = p /\ pc[p] \in Registering
  /\ records' = [records EXCEPT ![pid[p]] = {[owner |-> p, files |-> Requested(p)]}]
  /\ manifestFiles' = [manifestFiles EXCEPT ![p] = Requested(p)]
  /\ pc' = [pc EXCEPT ![p] = IF @ = "reserve" THEN "reloading" ELSE "serving"]
  /\ accepted' = IF pc[p] = "register" THEN [accepted EXCEPT ![p] = Requested(p)] ELSE accepted
  /\ candidate' = IF pc[p] = "reserve" THEN candidate ELSE [candidate EXCEPT ![p] = {}]
  /\ lock' = None
  /\ UNCHANGED <<pid, unread, previous>>

\* writeStackRecord: the rename replaces whatever n.json held.
Write(p) ==
  /\ lock = p /\ pc[p] \in Registering /\ unread[p] = {}
  /\ records' = [records EXCEPT ![pid[p]] = {[owner |-> p, files |-> Requested(p)]}]
  /\ manifestFiles' = [manifestFiles EXCEPT ![p] = Requested(p)]
  /\ pc' = [pc EXCEPT ![p] = IF @ = "reserve" THEN "reloading" ELSE "serving"]
  /\ accepted' = IF pc[p] = "register" THEN [accepted EXCEPT ![p] = Requested(p)] ELSE accepted
  /\ candidate' = IF pc[p] = "reserve" THEN candidate ELSE [candidate EXCEPT ![p] = {}]
  /\ lock' = None
  /\ UNCHANGED <<pid, unread, previous>>

\* applyConfiguration begins with reserveManifestFiles.
Reload(p, S) ==
  /\ pc[p] = "serving"
  /\ pc' = [pc EXCEPT ![p] = "reserve"]
  /\ previous' = [previous EXCEPT ![p] = manifestFiles[p]]
  /\ candidate' = [candidate EXCEPT ![p] = S \union {Root[p]}]
  /\ UNCHANGED <<pid, lock, records, unread, manifestFiles, accepted>>

\* The reload ends: r.configured = &next, or the previous configuration stays.
Accept(p) ==
  /\ pc[p] = "reloading"
  /\ pc' = [pc EXCEPT ![p] = "accept"]
  /\ accepted' = [accepted EXCEPT ![p] = candidate[p]]
  /\ UNCHANGED <<pid, lock, records, unread, manifestFiles, previous, candidate>>

Reject(p) ==
  /\ pc[p] = "reloading"
  /\ pc' = [pc EXCEPT ![p] = "reject"]
  /\ UNCHANGED <<pid, lock, records, unread, files>>

\* Shutdown has stopped everything else: UnregisterStack is its last step.
Leave(p) ==
  /\ pc[p] = "serving"
  /\ pc' = [pc EXCEPT ![p] = "unregister"]
  /\ accepted' = [accepted EXCEPT ![p] = {}]
  /\ UNCHANGED <<pid, lock, records, unread, manifestFiles, previous, candidate>>

Unregister(p) ==
  /\ lock = p /\ pc[p] = "unregister"
  /\ records' = [records EXCEPT ![pid[p]] = {}]
  /\ lock' = None
  /\ pc' = [pc EXCEPT ![p] = "gone"]
  /\ pid' = [pid EXCEPT ![p] = None]
  /\ UNCHANGED <<unread, files>>

\* Faulty variant: the lock is a file that outlives the process holding it.
CrashKeepingLock(p) ==
  /\ Running(p)
  /\ pc' = [pc EXCEPT ![p] = "gone"]
  /\ pid' = [pid EXCEPT ![p] = None]
  /\ unread' = [unread EXCEPT ![p] = {}]
  /\ accepted' = [accepted EXCEPT ![p] = {}]
  /\ candidate' = [candidate EXCEPT ![p] = {}]
  /\ UNCHANGED <<lock, records, manifestFiles, previous>>

\* The process dies; the kernel closes its lock file.
Crash(p) ==
  /\ Running(p)
  /\ pc' = [pc EXCEPT ![p] = "gone"]
  /\ pid' = [pid EXCEPT ![p] = None]
  /\ lock' = IF lock = p THEN None ELSE lock
  /\ unread' = [unread EXCEPT ![p] = {}]
  /\ accepted' = [accepted EXCEPT ![p] = {}]
  /\ candidate' = [candidate EXCEPT ![p] = {}]
  /\ UNCHANGED <<records, manifestFiles, previous>>

\* What a process does on its own once an operation has begun.
Step(p) ==
  \/ CleanupDone(p) \/ Write(p) \/ Unregister(p)
  \/ \E n \in Pid : CleanEntry(p, n) \/ PassEntry(p, n) \/ Refuse(p, n)

Next ==
  \E p \in Proc :
    \/ \E n \in Pid, S \in SUBSET File : Spawn(p, n, S)
    \/ \E S \in SUBSET File : Reload(p, S)
    \/ TakeLock(p) \/ Step(p) \/ IOError(p)
    \/ Accept(p) \/ Reject(p) \/ Leave(p) \/ Crash(p)

Spec == Init /\ [][Next]_vars

-----------------------------------------------------------------------------
\* The files p's stack reads: those of the accepted configuration and, while
\* it is applied, those of the next one.
Using(p) == accepted[p] \union (IF pc[p] = "reloading" THEN candidate[p] ELSE {})

\* The record on disk is p's own.
OwnRecord(p) == IF Running(p) THEN {r \in records[pid[p]] : r.owner = p} ELSE {}

\* The files p's record names, as other processes see it.
Holds == [p \in Proc |-> UNION {r.files : r \in OwnRecord(p)}]

Ownership == INSTANCE ManifestOwnership WITH holds <- Holds

\* Two running stacks never read the same manifest or include file, through
\* startup, hot reload, rejected reload, crash and PID reuse (the reason
\* RegisterStack checks overlap inside the lock).
ManifestExclusive ==
  \A p, q \in Proc : p # q => Using(p) \cap Using(q) = {}

\* Whatever a running stack reads is named by its own record, so no later
\* stack can take it: reserveManifestFiles keeps the union while a reload may
\* still go either way, and an unsettled reload never under-registers.
RecordCoversUse ==
  \A p \in Proc : Using(p) \subseteq Holds[p]

\* A running stack's record is removed or replaced only by that stack itself:
\* cleanup by another process never takes a live stack for a dead one.
RecordKept ==
  [][\A p \in Proc :
       (OwnRecord(p) # {} /\ Running(p)' /\ OwnRecord(p)' # OwnRecord(p)) => lock = p]_vars

\* Each step of the records is a step of exclusive ownership.
OwnershipRefined == Ownership!Spec

\* Whoever holds the lock is alive and has a step left of its own: nobody waits
\* for a process that died inside the lock or that is stuck on an entry.
LockNeverWedged ==
  lock # None => Running(lock) /\ ENABLED Step(lock)
=============================================================================
