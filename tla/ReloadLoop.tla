------------------------------ MODULE ReloadLoop ------------------------------
(***************************************************************************)
(* From a saved file to a reload: the debounced watchers of                *)
(* services/manifest_watch.go, one for the manifest and its includes and   *)
(* one for config.toml, and the main loop of StartStack, which runs one    *)
(* reload goroutine per watcher, both under operationMu.  What a reload    *)
(* does to the services is StackRuntime's; here it ends in a verdict on    *)
(* the contents it read.                                                   *)
(***************************************************************************)
EXTENDS Naturals, FiniteSets

CONSTANTS
  File,       \* the manifest, the files it may include, and config.toml
  Manifest,   \* the root manifest
  Config,     \* config.toml
  Includes,   \* Includes[v]: the files version v of the manifest includes
  Broken,     \* Broken[f]: the versions of f that do not parse
  Saved,      \* the files that are saved in a behaviour
  MaxSaves,   \* saves of one of them
  MaxFailures,\* in a behaviour: watchers that cannot be made, updated or heard
  None

Version == 0..MaxSaves
Source == {"manifest", "config"}
RootOf == [s \in Source |-> IF s = "manifest" THEN Manifest ELSE Config]

ASSUME FileAssumption == {Manifest, Config} \subseteq File /\ Manifest # Config
ASSUME BoundAssumption == MaxSaves \in Nat /\ MaxFailures \in Nat
ASSUME NoneAssumption == None \notin Source
ASSUME IncludesAssumption == Includes \in [Version -> SUBSET (File \ {Manifest, Config})]
ASSUME BrokenAssumption == Broken \in [File -> SUBSET Version]

VARIABLES
  disk,      \* disk[f]: the version of f that was saved last
  inputs,    \* inputs[s]: manifestWatcher.inputs
  watched,   \* watched[s]: files in directories the watcher has added
  inbox,     \* inbox[s]: files with undelivered file system events
  checks,    \* checks[s]: is manifestWatcher.checks full?
  armed,     \* armed[s]: is the debounce timer running?
  events,    \* events[s]: manifestWatcher.events, of capacity one
  stage,     \* stage[s]: the reload goroutine of s
  unread,    \* unread[s]: files the running read has still to open
  view,      \* view[s]: the <<file, version>> pairs it has read
  judged,    \* judged[s]: the pairs the last finished reload had read
  lock,      \* operationMu: the source holding it, or None
  loop,      \* what StartStack is doing
  failures,
  missed,    \* observer: was a file saved between a read of it and its being watched?
  unwatched  \* observer: the sources whose last update of the watch failed

watcher == <<inputs, watched, inbox, checks, armed, events>>
reload == <<stage, unread, view, judged, lock>>
vars == <<disk, watcher, reload, loop, failures, missed, unwatched>>

Loops == {"starting", "watching", "running", "cancelled", "closing", "stopped"}
Stages == {"idle", "lock", "read", "update", "install", "apply", "done"}

TypeOK ==
  /\ disk \in [File -> Version]
  /\ inputs \in [Source -> SUBSET File] /\ watched \in [Source -> SUBSET File]
  /\ inbox \in [Source -> SUBSET File]
  /\ checks \in [Source -> BOOLEAN] /\ armed \in [Source -> BOOLEAN]
  /\ events \in [Source -> {"none", "changed", "error"}]
  /\ stage \in [Source -> Stages] /\ unread \in [Source -> SUBSET File]
  /\ view \in [Source -> SUBSET (File \X Version)]
  /\ judged \in [Source -> SUBSET (File \X Version)]
  /\ lock \in Source \union {None}
  /\ loop \in Loops /\ failures \in 0..MaxFailures /\ missed \in BOOLEAN
  /\ unwatched \subseteq Source

Files(pairs) == {pair[1] : pair \in pairs}

\* The files a read visits.
Closure(s, d) ==
  {RootOf[s]} \union
    IF s = "manifest" /\ d[Manifest] \notin Broken[Manifest] THEN Includes[d[Manifest]] ELSE {}

\* What was read and accepted before StartStack began.
Accepted(s) == {<<f, 0>> : f \in Closure(s, [g \in File |-> 0])}

Init ==
  /\ disk = [f \in File |-> 0]
  /\ inputs = [s \in Source |-> {}] /\ watched = [s \in Source |-> {}]
  /\ inbox = [s \in Source |-> {}]
  /\ checks = [s \in Source |-> FALSE] /\ armed = [s \in Source |-> FALSE]
  /\ events = [s \in Source |-> "none"]
  /\ stage = [s \in Source |-> "idle"]
  /\ unread = [s \in Source |-> {}] /\ view = [s \in Source |-> {}]
  /\ judged = [s \in Source |-> Accepted(s)]
  /\ lock = None
  /\ loop = "starting"
  /\ failures = 0 /\ missed = FALSE /\ unwatched = {}

Closed(s) == loop \in (IF s = "config" THEN {"closing", "stopped"} ELSE {"stopped"})

-----------------------------------------------------------------------------
\* Somebody saves a file; the kernel reports it to who watches its directory.
Save(f) ==
  /\ f \in Saved /\ disk[f] < MaxSaves
  /\ loop # "stopped"
  /\ disk' = [disk EXCEPT ![f] = @ + 1]
  /\ inbox' = [s \in Source |-> IF f \in watched[s] /\ ~Closed(s) THEN inbox[s] \union {f} ELSE inbox[s]]
  /\ missed' = (missed \/ \E s \in Source : f \in Files(view[s]) \ inputs[s])
  /\ UNCHANGED <<inputs, watched, checks, armed, events, reload, loop, failures, unwatched>>

\* watchManifest reads the inputs while the services start; the watchers follow.
WatchInputs ==
  /\ loop = "starting"
  /\ loop' = "watching"
  /\ inputs' = [s \in Source |-> Closure(s, disk)]
  /\ UNCHANGED <<disk, watched, inbox, checks, armed, events, reload, failures, missed, unwatched>>

\* Faulty variant: the loop starts without a first check.
StartLoopUnchecked ==
  /\ loop = "watching"
  /\ loop' = "running"
  /\ watched' = inputs
  /\ UNCHANGED <<disk, inputs, inbox, checks, armed, events, reload, failures, missed, unwatched>>

\* The watchers watch, the stack is ready, and both files are checked once.
StartLoop ==
  /\ loop = "watching"
  /\ loop' = "running"
  /\ watched' = inputs
  /\ checks' = [s \in Source |-> TRUE]
  /\ UNCHANGED <<disk, inputs, inbox, armed, events, reload, failures, missed, unwatched>>

\* A watcher that cannot be made ends StartStack before the loop.
WatchersFail ==
  /\ loop = "watching" /\ failures < MaxFailures
  /\ failures' = failures + 1
  /\ loop' = "stopped"
  /\ UNCHANGED <<disk, watcher, reload, missed, unwatched>>

\* run: an event of a file that is an input restarts the debounce.
Deliver(s, f) ==
  /\ f \in inbox[s] /\ ~Closed(s)
  /\ inbox' = [inbox EXCEPT ![s] = @ \ {f}]
  /\ armed' = [armed EXCEPT ![s] = @ \/ f \in inputs[s]]
  /\ UNCHANGED <<disk, inputs, watched, checks, events, reload, loop, failures, missed, unwatched>>

Check(s) ==
  /\ checks[s] /\ ~Closed(s)
  /\ checks' = [checks EXCEPT ![s] = FALSE]
  /\ armed' = [armed EXCEPT ![s] = TRUE]
  /\ UNCHANGED <<disk, inputs, watched, inbox, events, reload, loop, failures, missed, unwatched>>

\* notify drops what does not fit.
Notify(s, event) == events' = [events EXCEPT ![s] = IF @ = "none" THEN event ELSE @]

Elapse(s) ==
  /\ armed[s] /\ ~Closed(s)
  /\ armed' = [armed EXCEPT ![s] = FALSE]
  /\ Notify(s, "changed")
  /\ UNCHANGED <<disk, inputs, watched, inbox, checks, reload, loop, failures, missed, unwatched>>

\* fsnotify reports an error, an overflow with the events it lost.
WatchFails(s) ==
  /\ failures < MaxFailures
  /\ loop = "running"
  /\ failures' = failures + 1
  /\ \E lost \in SUBSET inbox[s] : inbox' = [inbox EXCEPT ![s] = @ \ lost]
  /\ Notify(s, "error")
  /\ UNCHANGED <<disk, inputs, watched, checks, armed, reload, loop, missed, unwatched>>

-----------------------------------------------------------------------------
\* The loop takes an event only while no reload of that source runs; an error
\* is recorded like the result of a reload that read nothing.
Receive(s) ==
  /\ loop = "running" /\ stage[s] = "idle" /\ events[s] # "none"
  /\ events' = [events EXCEPT ![s] = "none"]
  /\ stage' = [stage EXCEPT ![s] = IF events[s] = "changed" THEN "lock" ELSE "done"]
  /\ view' = [view EXCEPT ![s] = IF events[s] = "changed" THEN {} ELSE judged[s]]
  /\ UNCHANGED <<disk, inputs, watched, inbox, checks, armed, unread, judged, lock, loop, failures, missed, unwatched>>

\* reloadFromDisk reads first and watches what it found; applySharedConfig,
\* whose only input is known, watches first.
Lock(s) ==
  /\ stage[s] = "lock" /\ lock = None
  /\ lock' = s
  /\ stage' = [stage EXCEPT ![s] = IF s = "manifest" THEN "read" ELSE "update"]
  /\ unread' = [unread EXCEPT ![s] = {RootOf[s]}]
  /\ UNCHANGED <<disk, watcher, view, judged, loop, failures, missed, unwatched>>

HasFailed(s) == \E pair \in view[s] : pair[2] \in Broken[pair[1]]

AfterRead(s) == IF s = "manifest" THEN "update" ELSE "apply"

\* Files are opened one at a time, the includes after the file that names them;
\* the first that does not parse ends the read.
Read(s, f) ==
  /\ stage[s] = "read" /\ f \in unread[s]
  /\ view' = [view EXCEPT ![s] = @ \union {<<f, disk[f]>>}]
  /\ LET rest == IF disk[f] \in Broken[f] THEN {}
                 ELSE IF f = Manifest THEN Includes[disk[f]] ELSE unread[s] \ {f}
     IN  /\ unread' = [unread EXCEPT ![s] = rest]
         /\ stage' = [stage EXCEPT ![s] = IF rest = {} THEN AfterRead(s) ELSE "read"]
  /\ UNCHANGED <<disk, watcher, judged, lock, loop, failures, missed, unwatched>>

\* Faulty variant: a read that failed changes nothing.
NextInputsAccepted(s) ==
  IF s = "config" THEN {Config} ELSE IF HasFailed(s) THEN inputs[s] ELSE Files(view[s])

\* A read that failed keeps what was watched and adds what it visited.
NextInputs(s) ==
  IF s = "config" THEN {Config}
  ELSE Files(view[s]) \union IF HasFailed(s) THEN inputs[s] ELSE {}

\* update adds directories, then removes others, before it exchanges the inputs.
Update(s) ==
  /\ stage[s] = "update"
  /\ watched' = [watched EXCEPT ![s] = NextInputs(s)]
  /\ stage' = [stage EXCEPT ![s] = "install"]
  /\ UNCHANGED <<disk, inputs, inbox, checks, armed, events, unread, view, judged, lock, loop, failures, missed, unwatched>>

Install(s) ==
  /\ stage[s] = "install"
  /\ inputs' = [inputs EXCEPT ![s] = NextInputs(s)]
  /\ unwatched' = unwatched \ {s}
  /\ stage' = [stage EXCEPT ![s] = IF s = "manifest" THEN "apply" ELSE "read"]
  /\ UNCHANGED <<disk, watched, inbox, checks, armed, events, unread, view, judged, lock, loop, failures, missed>>

\* Faulty variant: a reload that ends in an error keeps operationMu.
UnlockAccepted(s) == lock' = IF HasFailed(s) THEN lock ELSE None

Unlock(s) == lock' = None

\* The contents are accepted or rejected, and the lock is released.
Apply(s) ==
  /\ stage[s] = "apply"
  /\ stage' = [stage EXCEPT ![s] = "done"]
  /\ Unlock(s)
  /\ UNCHANGED <<disk, watcher, unread, view, judged, loop, failures, missed, unwatched>>

\* What is watched when update cannot add a directory, or cannot remove one.
PartlyUpdated(s) ==
  {files \in SUBSET (watched[s] \union NextInputs(s)) :
     watched[s] \subseteq files \/ NextInputs(s) \subseteq files}

\* A failed update keeps the inputs and ends the reload: a manifest has been
\* read and is rejected, config.toml is not read.
UpdateFails(s) ==
  /\ stage[s] = "update" /\ failures < MaxFailures
  /\ failures' = failures + 1
  /\ \E files \in PartlyUpdated(s) : watched' = [watched EXCEPT ![s] = files]
  /\ view' = [view EXCEPT ![s] = IF s = "manifest" THEN @ ELSE judged[s]]
  /\ unwatched' = unwatched \union {s}
  /\ stage' = [stage EXCEPT ![s] = "done"]
  /\ Unlock(s)
  /\ UNCHANGED <<disk, inputs, inbox, checks, armed, events, unread, judged, loop, missed>>

\* The loop records the result and takes events again; after a cancellation
\* the deferred function takes it.
Result(s) ==
  /\ loop \in {"running", "cancelled"} /\ stage[s] = "done"
  /\ stage' = [stage EXCEPT ![s] = "idle"]
  /\ judged' = [judged EXCEPT ![s] = view[s]]
  /\ view' = [view EXCEPT ![s] = {}]
  /\ UNCHANGED <<disk, watcher, unread, lock, loop, failures, missed, unwatched>>

-----------------------------------------------------------------------------
\* A signal, a runtime error or the idle timeout ends the loop.
Cancel ==
  /\ loop = "running"
  /\ loop' = "cancelled"
  /\ UNCHANGED <<disk, watcher, reload, failures, missed, unwatched>>

ResultsTaken == \A s \in Source : stage[s] = "idle"

\* The deferred functions: wait for the reloads, then close the watchers.
Close ==
  /\ \/ loop = "cancelled" /\ ResultsTaken /\ loop' = "closing"
     \/ loop = "closing" /\ loop' = "stopped"
  /\ UNCHANGED <<disk, watcher, reload, failures, missed, unwatched>>

Goroutine(s) ==
  \/ \E f \in File : Read(s, f)
  \/ Update(s) \/ UpdateFails(s) \/ Install(s) \/ Apply(s)

Watcher(s) == (\E f \in File : Deliver(s, f)) \/ Check(s) \/ Elapse(s)

Next ==
  \/ \E f \in File : Save(f)
  \/ WatchInputs \/ StartLoop \/ WatchersFail \/ Cancel \/ Close
  \/ \E s \in Source :
       Watcher(s) \/ WatchFails(s) \/ Receive(s) \/ Lock(s) \/ Goroutine(s) \/ Result(s)

Spec == Init /\ [][Next]_vars

\* Go runs every goroutine, select serves every ready case in the end, timers
\* fire, and a mutex is not taken from a waiter for ever.  Nobody has to save.
Fairness ==
  /\ WF_vars(WatchInputs) /\ WF_vars(StartLoop \/ WatchersFail) /\ WF_vars(Close)
  /\ \A s \in Source :
       /\ WF_vars(Watcher(s)) /\ WF_vars(Elapse(s))
       /\ WF_vars(Receive(s)) /\ SF_vars(Lock(s))
       /\ WF_vars(Goroutine(s)) /\ WF_vars(Result(s))

FairSpec == Spec /\ Fairness
-----------------------------------------------------------------------------
\* The last verdict was on what is on disk now.
Current(s) == \A pair \in judged[s] : disk[pair[1]] = pair[2]

\* Every save of the manifest, of a file it includes or of config.toml is
\* judged in the end, whenever it happens: while the stack starts, while the
\* debounce runs, while an earlier reload reads or applies.  Two cases are
\* excepted, in which the code can lose a save: a watcher that fails or cannot
\* be updated, and a new include that is saved before the reload that read it
\* has watched it.
SavesApplied ==
  \A s \in Source : loop = "running" ~> (Current(s) \/ loop # "running" \/ failures > 0 \/ missed)

\* A save was noticed, or the check is due, that brings a reload.
Reported(s) == checks[s] \/ armed[s] \/ events[s] # "none"

\* A save of these brings a reload: an event needs the watch and the input.
Noticed(s) == inputs[s] \intersect watched[s]

\* What the last verdict depends on stays watched, so that a fix is noticed,
\* also after a manifest that failed to parse.  The manifest the stack started
\* with may have been changed before the watchers read it; it is checked then,
\* unless an error of a watcher took the place of the report.  A reload that
\* could not update the watch can leave its verdict on an include that is not
\* watched; the manifest itself still is, and the next reload that can update
\* the watch makes it whole.
JudgedIsWatched ==
  \A s \in Source : loop = "running" /\ stage[s] = "idle" =>
    \/ Files(judged[s]) \subseteq Noticed(s)
    \/ judged[s] = Accepted(s) /\ (Reported(s) \/ failures > 0)
    \/ s \in unwatched /\ s = "manifest" /\ Manifest \in Noticed(s)

\* A stack told to stop gets there, whatever its reloads are doing.
ShutdownEnds == loop = "cancelled" ~> loop = "stopped"
=============================================================================
