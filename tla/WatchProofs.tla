----------------------------- MODULE WatchProofs -----------------------------
(* The two things the stack loop watches while a stack runs: the files it was *)
(* started from (ReloadLoop) and whether anybody uses it (IdleWatch), for any *)
(* files, includes, saves, watcher errors, timeouts, polls and pages.         *)
EXTENDS ReloadLoop, IdleWatch, TLAPS

(* The reload loop: what a reload has judged stays watched. *)

USE FileAssumption, BoundAssumption, NoneAssumption, IncludesAssumption

(* Reloads run while the loop does, and the watchers report nothing before it. *)
QuietInv == loop \in {"starting", "watching"} =>
  /\ failures = 0
  /\ \A s \in Source : /\ stage[s] = "idle" /\ judged[s] = Accepted(s)
                       /\ watched[s] = {} /\ inbox[s] = {}
                       /\ ~checks[s] /\ ~armed[s] /\ events[s] = "none"

(* Only an error of a watcher is reported as one. *)
ErrorInv == \A s \in Source : events[s] = "error" => failures > 0

(* The manifest and config.toml are noticed while the loop runs. *)
RootInv == \A s \in Source :
  /\ loop # "starting" => RootOf[s] \in inputs[s]
  /\ loop = "running" => RootOf[s] \in watched[s]

(* A verdict on pairs is about watched files, the one the stack started with, *)
(* or one whose includes could not be watched.                                *)
Watched(s, pairs) == Files(pairs) \subseteq Noticed(s)
Kept(s, pairs) ==
  \/ Watched(s, pairs)
  \/ pairs = Accepted(s) /\ failures > 0
  \/ s \in unwatched /\ s = "manifest" /\ Manifest \in Noticed(s)

(* config.toml is watched before it is read, and nothing else is judged with it. *)
ConfigInv ==
  /\ Files(judged["config"]) \subseteq {Config} /\ Files(view["config"]) \subseteq {Config}
  /\ stage["config"] \in {"update", "install", "read"} => unread["config"] = {Config}
  /\ stage["config"] = "install" => watched["config"] = {Config}

(* The manifest is read before what it includes. *)
ManifestInv ==
  /\ stage["manifest"] = "read" =>
       unread["manifest"] = {Manifest} \/ Manifest \in Files(view["manifest"])
  /\ stage["manifest"] \in {"update", "install"} => Manifest \in Files(view["manifest"])

(* What a reload read is watched before it is judged. *)
ReadInv == \A s \in Source :
  /\ stage[s] = "install" => watched[s] = NextInputs(s)
  /\ stage[s] = "apply" /\ loop = "running" => Watched(s, view[s])
  /\ stage[s] = "done" /\ loop = "running" => Kept(s, view[s])

IInv == QuietInv /\ ErrorInv /\ RootInv /\ ConfigInv /\ ManifestInv /\ ReadInv /\ JudgedIsWatched

-----------------------------------------------------------------------------
(* The files of a closure are files, for any versions on disk. *)
LEMMA ClosureFiles ==
  ASSUME NEW s \in Source, NEW d \in [File -> Version] PROVE Closure(s, d) \subseteq File
<1>1. d[Manifest] \in Version /\ Includes[d[Manifest]] \subseteq File
  OBVIOUS
<1>2. RootOf[s] \in File
  BY DEF RootOf, Source
<1> QED
  BY <1>1, <1>2 DEF Closure

(* The contents accepted before the start are contents of files. *)
LEMMA AcceptedFiles == ASSUME NEW s \in Source PROVE Accepted(s) \in SUBSET (File \X Version)
<1>1. 0 \in Version /\ [g \in File |-> 0] \in [File -> Version]
  BY DEF Version
<1>2. Closure(s, [g \in File |-> 0]) \subseteq File
  BY <1>1, ClosureFiles
<1> QED
  BY <1>1, <1>2 DEF Accepted

(* What a read visited are files. *)
LEMMA PairFiles == ASSUME NEW pairs \in SUBSET (File \X Version) PROVE Files(pairs) \subseteq File
  BY DEF Files

(* The next inputs are files, and take in what was read. *)
LEMMA NextInputsFiles ==
  ASSUME TypeOK, NEW s \in Source
  PROVE  /\ NextInputs(s) \subseteq File
         /\ s = "manifest" => Files(view[s]) \subseteq NextInputs(s)
<1>1. Files(view[s]) \subseteq File /\ inputs[s] \subseteq File
  BY PairFiles DEF TypeOK
<1> QED
  BY <1>1 DEF NextInputs

(* The state starts with its types. *)
LEMMA InitType == Init => TypeOK
<1> SUFFICES ASSUME Init PROVE TypeOK
  OBVIOUS
<1>1. disk \in [File -> Version] /\ failures \in 0..MaxFailures
  BY DEF Init, Version
<1>2. judged \in [Source -> SUBSET (File \X Version)]
  BY AcceptedFiles DEF Init
<1>3. /\ inputs \in [Source -> SUBSET File] /\ watched \in [Source -> SUBSET File]
      /\ inbox \in [Source -> SUBSET File] /\ unread \in [Source -> SUBSET File]
  BY DEF Init
<1>4. /\ checks \in [Source -> BOOLEAN] /\ armed \in [Source -> BOOLEAN] /\ missed \in BOOLEAN
  BY DEF Init
<1>5. events \in [Source -> {"none", "changed", "error"}] /\ stage \in [Source -> Stages] /\ loop \in Loops
  BY DEF Init, Stages, Loops
<1>6. view \in [Source -> SUBSET (File \X Version)] /\ lock \in Source \union {None}
  BY DEF Init
<1>7. unwatched \subseteq Source
  BY DEF Init
<1> QED
  BY <1>1, <1>2, <1>3, <1>4, <1>5, <1>6, <1>7 DEF TypeOK

(* Every step keeps the types. *)
LEMMA NextType == TypeOK /\ [Next]_vars => TypeOK'
<1> SUFFICES ASSUME TypeOK, [Next]_vars PROVE TypeOK'
  OBVIOUS
<1> USE DEF TypeOK, Stages, Loops
<1>1. ASSUME NEW f \in File, Save(f) PROVE TypeOK'
  <2>1. disk[f] + 1 \in Version
    BY <1>1 DEF Save, Version
  <2>2. disk' \in [File -> Version]
    BY <1>1, <2>1 DEF Save
  <2>3. inbox' \in [Source -> SUBSET File]
    BY <1>1 DEF Save
  <2>4. missed' \in BOOLEAN
    <3>1. missed' = (missed \/ \E s \in Source : f \in Files(view[s]) \ inputs[s])
      BY <1>1 DEF Save
    <3> QED
      BY <3>1, Zenon
  <2> QED
    BY <1>1, <2>2, <2>3, <2>4 DEF Save, reload
<1>2. CASE WatchInputs
  <2>1. inputs' \in [Source -> SUBSET File]
    BY <1>2, ClosureFiles DEF WatchInputs
  <2> QED
    BY <1>2, <2>1 DEF WatchInputs, reload
<1>3. CASE StartLoop \/ WatchersFail \/ Cancel \/ Close
  <2>1. failures' \in 0..MaxFailures /\ loop' \in Loops /\ watched' \in [Source -> SUBSET File]
    BY <1>3 DEF StartLoop, WatchersFail, Cancel, Close, watcher
  <2> QED
    BY <1>3, <2>1 DEF StartLoop, WatchersFail, Cancel, Close, watcher, reload
<1>4. ASSUME NEW s \in Source, NEW f \in File, Deliver(s, f) PROVE TypeOK'
  BY <1>4 DEF Deliver, reload
<1>5. ASSUME NEW s \in Source, Check(s) \/ Elapse(s) PROVE TypeOK'
  BY <1>5 DEF Check, Elapse, Notify, reload
<1>6. ASSUME NEW s \in Source, WatchFails(s) PROVE TypeOK'
  BY <1>6 DEF WatchFails, Notify, reload
<1>7. ASSUME NEW s \in Source, Receive(s) PROVE TypeOK'
  BY <1>7 DEF Receive
<1>8. ASSUME NEW s \in Source, Lock(s) PROVE TypeOK'
  BY <1>8 DEF Lock, RootOf, watcher, Source
<1>9. ASSUME NEW s \in Source, NEW f \in File, Read(s, f) PROVE TypeOK'
  <2>1. disk[f] \in Version /\ Includes[disk[f]] \subseteq File
    OBVIOUS
  <2>2. view' \in [Source -> SUBSET (File \X Version)]
    BY <1>9, <2>1 DEF Read
  <2>3. unread' \in [Source -> SUBSET File]
    BY <1>9, <2>1 DEF Read
  <2>4. stage' \in [Source -> Stages]
    BY <1>9 DEF Read, AfterRead
  <2> QED
    BY <1>9, <2>2, <2>3, <2>4 DEF Read, watcher
<1>10. ASSUME NEW s \in Source, Update(s) \/ Install(s) PROVE TypeOK'
  <2>1. watched' \in [Source -> SUBSET File] /\ inputs' \in [Source -> SUBSET File]
    BY <1>10, NextInputsFiles DEF Update, Install
  <2>2. stage' \in [Source -> Stages] /\ unwatched' \subseteq Source
    BY <1>10 DEF Update, Install
  <2> QED
    BY <1>10, <2>1, <2>2 DEF Update, Install
<1>11. ASSUME NEW s \in Source, Apply(s) \/ Result(s) PROVE TypeOK'
  BY <1>11 DEF Apply, Unlock, Result, watcher
<1>12. ASSUME NEW s \in Source, UpdateFails(s) PROVE TypeOK'
  <2>1. \A files \in PartlyUpdated(s) : files \subseteq File
    BY NextInputsFiles DEF PartlyUpdated
  <2>2. watched' \in [Source -> SUBSET File]
    BY <1>12, <2>1 DEF UpdateFails
  <2> QED
    BY <1>12, <2>2 DEF UpdateFails, Unlock
<1>13. CASE UNCHANGED vars
  BY <1>13 DEF vars, watcher, reload
<1> QED
  BY <1>1, <1>2, <1>3, <1>4, <1>5, <1>6, <1>7, <1>8, <1>9, <1>10, <1>11, <1>12, <1>13 DEF Next, Goroutine, Watcher

(* The state has its types throughout. *)
THEOREM TypeCorrect == Spec => []TypeOK
  BY InitType, NextType, PTL DEF Spec

-----------------------------------------------------------------------------
(* The next inputs of a reload that is about to change them take in its root. *)
LEMMA NextInputsRoot ==
  ASSUME TypeOK, IInv, NEW s \in Source, stage[s] \in {"update", "install"} PROVE RootOf[s] \in NextInputs(s)
  BY DEF IInv, ManifestInv, NextInputs, RootOf, Source

(* The invariant holds at the start. *)
LEMMA InitIInv == Init => IInv
<1> SUFFICES ASSUME Init PROVE IInv
  OBVIOUS
<1>1. Files(judged["config"]) \subseteq {Config} /\ Files(view["config"]) \subseteq {Config}
  BY DEF Init, Accepted, Closure, Files, RootOf, Source
<1> QED
  BY <1>1 DEF Init, IInv, QuietInv, ErrorInv, RootInv, ConfigInv, ManifestInv, ReadInv, JudgedIsWatched, Source

(* What a reload goes on to watch depends on what it has read and on the inputs. *)
LEMMA SameInputs ==
  ASSUME NEW s \in Source, UNCHANGED <<inputs, view>> \/ (inputs'[s] = inputs[s] /\ view'[s] = view[s])
  PROVE NextInputs(s)' = NextInputs(s)
  BY DEF NextInputs, HasFailed, Files

(* A read adds the file it opened. *)
LEMMA FilesAdd == ASSUME NEW pairs, NEW f, NEW v PROVE Files(pairs \union {<<f, v>>}) = Files(pairs) \union {f}
<1>1. <<f, v>>[1] = f
  OBVIOUS
<1>2. {pair[1] : pair \in pairs \union {<<f, v>>}} = {pair[1] : pair \in pairs} \union {<<f, v>>[1]}
  OBVIOUS
<1> QED
  BY <1>1, <1>2 DEF Files

(* Every step keeps it. *)
LEMMA NextIInv == TypeOK /\ IInv /\ [Next]_vars => IInv'
<1> SUFFICES ASSUME TypeOK, IInv, [Next]_vars PROVE IInv'
  OBVIOUS
<1> USE DEF TypeOK, IInv, QuietInv, ErrorInv, RootInv, ConfigInv, ManifestInv, ReadInv, JudgedIsWatched,
            Watched, Noticed, Kept, Reported
<1>1. ASSUME NEW f \in File, Save(f) PROVE IInv'
  BY <1>1 DEF Save, reload, NextInputs, HasFailed
<1>2. CASE WatchInputs
  <2>1. \A s \in Source : RootOf[s] \in Closure(s, disk)
    BY DEF Closure
  <2> QED
    BY <1>2, <2>1 DEF WatchInputs, reload, Source, NextInputs, HasFailed
<1>3. CASE StartLoop
  BY <1>3 DEF StartLoop, reload, Source, NextInputs, HasFailed
<1>4. CASE WatchersFail \/ Cancel \/ Close
  <2>1. UNCHANGED <<watcher, reload, unwatched>> /\ loop' # "running" /\ (loop = "starting" => loop' = "starting")
    BY <1>4 DEF WatchersFail, Cancel, Close
  <2>2. (failures' = failures \/ failures' > 0) /\ loop' \notin {"starting", "watching"}
    BY <1>4 DEF WatchersFail, Cancel, Close
  <2> QED
    BY <2>1, <2>2 DEF watcher, reload, NextInputs, HasFailed
<1>5. ASSUME NEW s \in Source, NEW f \in File, Deliver(s, f) PROVE IInv'
  BY <1>5 DEF Deliver, reload, NextInputs, HasFailed
<1>6. ASSUME NEW s \in Source, Check(s) PROVE IInv'
  BY <1>6 DEF Check, reload, NextInputs, HasFailed
<1>7. ASSUME NEW s \in Source, Elapse(s) PROVE IInv'
  <2>1. \A t \in Source : events'[t] = events[t] \/ (events[t] = "none" /\ events'[t] = "changed")
    BY <1>7 DEF Elapse, Notify
  <2>2. events'[s] # "none" /\ \A t \in Source : t # s => armed'[t] = armed[t]
    BY <1>7 DEF Elapse, Notify
  <2>3. UNCHANGED <<inputs, watched, checks, reload, loop, failures, unwatched>> /\ loop \notin {"starting", "watching"}
    BY <1>7 DEF Elapse
  <2>4. JudgedIsWatched'
    BY <2>1, <2>2, <2>3 DEF reload
  <2> QED
    BY <2>1, <2>3, <2>4 DEF reload, NextInputs, HasFailed
<1>8. ASSUME NEW s \in Source, WatchFails(s) PROVE IInv'
  <2>1. UNCHANGED <<inputs, watched, checks, armed, reload, loop, unwatched>> /\ loop = "running" /\ failures' > 0
    BY <1>8 DEF WatchFails
  <2>2. \A t \in Source : events[t] # "none" => events'[t] # "none"
    BY <1>8 DEF WatchFails, Notify
  <2> QED
    BY <2>1, <2>2 DEF reload, NextInputs, HasFailed
<1>9. ASSUME NEW s \in Source, Receive(s) PROVE IInv'
  <2>1. /\ UNCHANGED <<inputs, watched, checks, armed, unread, judged, lock, loop, failures, unwatched>>
        /\ loop = "running" /\ stage[s] = "idle" /\ stage'[s] \in {"lock", "done"} /\ events'[s] = "none"
        /\ stage'[s] = "done" => events[s] = "error" /\ view'[s] = judged[s]
        /\ view'[s] = {} \/ view'[s] = judged[s]
        /\ \A t \in Source \ {s} : stage'[t] = stage[t] /\ view'[t] = view[t] /\ events'[t] = events[t]
    BY <1>9 DEF Receive
  <2>2. ErrorInv' /\ QuietInv' /\ RootInv' /\ JudgedIsWatched'
    BY <2>1
  <2>3. ConfigInv' /\ ManifestInv'
    BY <2>1 DEF Files, Source
  <2>4. stage'[s] = "done" => Kept(s, judged[s])
    BY <2>1
  <2>5. ReadInv'
    BY <2>1, <2>4, SameInputs
  <2> QED
    BY <2>2, <2>3, <2>5
<1>10. ASSUME NEW s \in Source, Lock(s) PROVE IInv'
  BY <1>10 DEF Lock, watcher, RootOf, Source, NextInputs, HasFailed
<1>11. ASSUME NEW s \in Source, NEW f \in File, Read(s, f) PROVE IInv'
  <2>1. /\ UNCHANGED <<watcher, judged, lock, loop, failures, unwatched>> /\ stage[s] = "read" /\ f \in unread[s]
        /\ view'[s] = view[s] \union {<<f, disk[f]>>} /\ stage'[s] \in {"read", AfterRead(s)}
        /\ \A t \in Source \ {s} : stage'[t] = stage[t] /\ view'[t] = view[t] /\ unread'[t] = unread[t]
    BY <1>11 DEF Read
  <2>2. Files(view'[s]) = Files(view[s]) \union {f} /\ AfterRead(s) = (IF s = "manifest" THEN "update" ELSE "apply")
    <3>1. Files(view[s] \union {<<f, disk[f]>>}) = Files(view[s]) \union {f}
      BY ONLY FilesAdd
    <3> QED
      BY <2>1, <3>1 DEF AfterRead
  <2>3. s = "config" => f = Config /\ stage'[s] = "apply"
    BY <1>11 DEF Read, AfterRead, Source
  <2>4. s = "manifest" => Manifest \in Files(view'[s])
    BY <2>1, <2>2
  <2>5. QuietInv' /\ ErrorInv' /\ RootInv' /\ JudgedIsWatched'
    BY <2>1, <2>2 DEF watcher
  <2>6. ConfigInv' /\ ManifestInv'
    BY <2>1, <2>2, <2>3, <2>4 DEF watcher, Source
  <2>7. ReadInv'
    <3>1. \A t \in Source \ {s} : NextInputs(t)' = NextInputs(t)
      BY <2>1, SameInputs DEF watcher
    <3>2. \A t \in Source \ {s} : ReadInv!(t)'
      BY <2>1, <3>1 DEF watcher
    <3>3. s = "config" => stage'[s] = "apply" /\ Files(view'[s]) \subseteq {Config}
      BY <2>2, <2>3, <2>6
    <3>4. s = "manifest" => stage'[s] \in {"read", "update"}
      BY <2>1, <2>2
    <3>5. loop' = "running" => RootOf[s] \in Noticed(s)'
      BY <2>5
    <3>6. ReadInv!(s)'
      BY <3>3, <3>4, <3>5 DEF Source, RootOf
    <3> QED
      BY <3>2, <3>6
  <2> QED
    BY <2>5, <2>6, <2>7
<1>12. ASSUME NEW s \in Source, Update(s) PROVE IInv'
  BY <1>12, NextInputsRoot DEF Update, Source, NextInputs, HasFailed
<1>13. ASSUME NEW s \in Source, UpdateFails(s) PROVE IInv'
  <2>1. /\ UNCHANGED <<inputs, checks, armed, events, unread, judged, loop>> /\ stage[s] = "update" /\ stage'[s] = "done"
        /\ failures' > 0 /\ unwatched' = unwatched \union {s} /\ view'[s] = (IF s = "manifest" THEN view[s] ELSE judged[s])
        /\ \A t \in Source \ {s} : stage'[t] = stage[t] /\ view'[t] = view[t] /\ watched'[t] = watched[t]
        /\ watched[s] \subseteq watched'[s] \/ NextInputs(s) \subseteq watched'[s]
        /\ loop \notin {"starting", "watching"}
    BY <1>13 DEF UpdateFails, PartlyUpdated
  <2>2. RootOf[s] \in NextInputs(s)
    BY <2>1, NextInputsRoot
  <2>3. loop = "running" => RootOf[s] \in watched'[s] /\ RootOf[s] \in inputs[s]
    BY <2>1, <2>2
  <2>4. QuietInv' /\ ErrorInv' /\ RootInv'
    BY <2>1, <2>3
  <2>5. ConfigInv' /\ ManifestInv'
    BY <2>1 DEF Source
  <2>6. loop' = "running" => Kept(s, view[s])'
    BY <2>1, <2>3 DEF RootOf, Source
  <2>7. \A t \in Source \ {s} : NextInputs(t)' = NextInputs(t)
    BY <2>1, SameInputs
  <2>8. ReadInv'
    BY <2>1, <2>6, <2>7
  <2>9. JudgedIsWatched'
    BY <2>1
  <2> QED
    BY <2>4, <2>5, <2>8, <2>9
<1>14. ASSUME NEW s \in Source, Install(s) PROVE IInv'
  BY <1>14, NextInputsFiles, NextInputsRoot DEF Install, Source, NextInputs, HasFailed
<1>15. ASSUME NEW s \in Source, Apply(s) PROVE IInv'
  <2>1. UNCHANGED <<watcher, unread, view, judged, loop, failures, unwatched>> /\ stage[s] = "apply" /\ stage'[s] = "done"
        /\ \A t \in Source \ {s} : stage'[t] = stage[t]
    BY <1>15 DEF Apply
  <2>2. QuietInv' /\ ErrorInv' /\ RootInv' /\ JudgedIsWatched'
    BY <2>1 DEF watcher
  <2>3. ConfigInv' /\ ManifestInv'
    BY <2>1 DEF watcher, Source
  <2>4. \A t \in Source : NextInputs(t)' = NextInputs(t)
    BY <2>1, SameInputs DEF watcher
  <2>5. ReadInv'
    BY <2>1, <2>4 DEF watcher
  <2> QED
    BY <2>2, <2>3, <2>5
<1>16. ASSUME NEW s \in Source, Result(s) PROVE IInv'
  <2>1. /\ UNCHANGED <<watcher, unread, loop, failures, unwatched>> /\ stage[s] = "done" /\ stage'[s] = "idle"
        /\ judged'[s] = view[s] /\ view'[s] = {} /\ loop \notin {"starting", "watching"}
        /\ \A t \in Source \ {s} : stage'[t] = stage[t] /\ view'[t] = view[t] /\ judged'[t] = judged[t]
    BY <1>16 DEF Result
  <2>2. QuietInv' /\ ErrorInv' /\ RootInv' /\ JudgedIsWatched'
    BY <2>1 DEF watcher
  <2>4. ReadInv'
    BY <2>1, SameInputs DEF watcher
  <2>3. ConfigInv' /\ ManifestInv'
    BY <2>1 DEF watcher, Files, Source
  <2> QED
    BY <2>2, <2>3, <2>4
<1>17. CASE UNCHANGED vars
  BY <1>17 DEF vars, watcher, reload, NextInputs, HasFailed
<1> QED
  BY <1>1, <1>2, <1>3, <1>4, <1>5, <1>6, <1>7, <1>8, <1>9, <1>10, <1>11, <1>12, <1>13, <1>14, <1>15, <1>16, <1>17
     DEF Next, Goroutine, Watcher

(* A fix of what a verdict rests on is noticed: its files stay watched. *)
THEOREM VerdictsAreWatched == Spec => []JudgedIsWatched
<1>1. IInv => JudgedIsWatched
  BY DEF IInv
<1> QED
  BY <1>1, InitIInv, NextIInv, TypeCorrect, PTL DEF Spec

-----------------------------------------------------------------------------
(* The idle timeout: the countdown is never ahead of what it counts from.     *)
CountdownInv == idleFor <= ago["set"] /\ (open = 0 => idleFor <= ago["page"])

LEMMA LaterTypes ==
  /\ Timeout \in Nat /\ StatEvery \in Nat /\ CheckEvery \in Nat /\ MaxPages \in Nat
  /\ Timeout > 0 /\ StatEvery > 0 /\ CheckEvery > 0 /\ MaxPages > 0
  /\ \A n \in Ticks : Later(n) \in Ticks
  /\ \A m, n \in Ticks : m <= n => Later(m) <= Later(n)
  /\ 0 \in Ticks /\ 0 \in 0..StatEvery /\ 0 \in 0..CheckEvery /\ 0 \in 0..MaxPages
<1>1. /\ Timeout \in Nat /\ StatEvery \in Nat /\ CheckEvery \in Nat /\ MaxPages \in Nat
      /\ Timeout > 0 /\ StatEvery > 0 /\ CheckEvery > 0 /\ MaxPages > 0
  BY IdleWatchAssumption
<1> QED
  BY <1>1 DEF Later, Ticks

LEMMA TickTypes == ASSUME WatchTypeOK, Tick PROVE WatchTypeOK'
<1>1. /\ idleFor' \in Ticks /\ ago' \in [Kinds -> Ticks]
  BY LaterTypes DEF WatchTypeOK, Tick
<1>2. stat' \in 0..StatEvery /\ check' \in 0..CheckEvery
  <2>1. stat \in 0..StatEvery /\ check \in 0..CheckEvery /\ (watch = "wait" => stat < StatEvery /\ check < CheckEvery)
        /\ StatEvery \in Nat /\ CheckEvery \in Nat
    BY LaterTypes DEF WatchTypeOK, Tick
  <2>2. stat' = (IF watch = "wait" THEN stat + 1 ELSE stat) /\ check' = (IF watch = "wait" THEN check + 1 ELSE check)
    BY DEF Tick
  <2> QED
    BY <2>1, <2>2
<1> QED
  BY <1>1, <1>2 DEF WatchTypeOK, Tick

LEMMA PageTypes == ASSUME WatchTypeOK, OpenPage \/ ClosePage PROVE WatchTypeOK'
<1>1. open \in Nat /\ open <= MaxPages /\ MaxPages \in Nat
  BY LaterTypes DEF WatchTypeOK
<1>2. open' \in 0..MaxPages
  BY <1>1 DEF OpenPage, ClosePage
<1>3. idleFor' \in Ticks /\ ago' \in [Kinds -> Ticks]
  BY LaterTypes DEF WatchTypeOK, OpenPage, ClosePage, Seen
<1> QED
  BY <1>2, <1>3 DEF WatchTypeOK, OpenPage, ClosePage, timers

(* The countdown, the timers and the watch keep their types, and only a set timeout is watched. *)
THEOREM WatchTypeCorrect == WatchSpec => []WatchTypeOK
<1>1. WatchInit => WatchTypeOK
  BY LaterTypes DEF WatchInit, WatchTypeOK
<1>2. WatchTypeOK /\ [WatchNext]_watchVars => WatchTypeOK'
  <2> SUFFICES ASSUME WatchTypeOK, [WatchNext]_watchVars PROVE WatchTypeOK'
    OBVIOUS
  <2> USE DEF WatchTypeOK, tracker, timers
  <2>1. CASE Tick
    BY <2>1, TickTypes
  <2>2. CASE OpenPage \/ ClosePage
    BY <2>2, PageTypes
  <2>3. CASE Request \/ StartChat \/ Register \/ BeginTurn \/ EndTurn
    BY <2>3, LaterTypes DEF Request, StartChat, Register, BeginTurn, EndTurn, Seen
  <2>4. CASE Stat
    BY <2>4, LaterTypes DEF Stat
  <2>5. CASE CheckIdle
    BY <2>5, LaterTypes DEF CheckIdle
  <2>6. CASE CheckChat
    BY <2>6 DEF CheckChat
  <2>7. CASE TurnOff \/ Shutdown
    BY <2>7 DEF TurnOff, Shutdown
  <2>8. CASE TurnOn
    BY <2>8, LaterTypes DEF TurnOn, Seen
  <2>9. CASE UNCHANGED watchVars
    BY <2>9 DEF watchVars
  <2> QED
    BY <2>1, <2>2, <2>3, <2>4, <2>5, <2>6, <2>7, <2>8, <2>9 DEF WatchNext
<1> QED
  BY <1>1, <1>2, PTL DEF WatchSpec

LEMMA CountdownStep == ASSUME WatchTypeOK, CountdownInv, [WatchNext]_watchVars PROVE CountdownInv'
<1> USE DEF CountdownInv, tracker, timers
<1>1. idleFor \in Ticks /\ ago \in [Kinds -> Ticks] /\ ago["set"] \in Ticks /\ ago["page"] \in Ticks /\ open \in Nat
  BY LaterTypes DEF WatchTypeOK, Kinds
<1>2. \A n \in Ticks : 0 <= n
  BY LaterTypes DEF Ticks
<1>3. CASE Tick
  <2>1. idleFor' = Later(idleFor) /\ open' = open /\ ago'["set"] = Later(ago["set"])
        /\ (open = 0 => ago'["page"] = Later(ago["page"]))
    BY <1>1, <1>3 DEF Tick, Kinds
  <2> QED
    BY <1>1, <2>1, LaterTypes
<1>4. CASE OpenPage
  <2>1. open' # 0 /\ idleFor' = 0 /\ ago'["set"] = ago["set"]
    BY <1>1, <1>4 DEF OpenPage, Seen, Kinds
  <2> QED
    BY <1>1, <1>2, <2>1
<1>5. CASE ClosePage
  <2>1. idleFor' = (IF open' = 0 THEN 0 ELSE idleFor) /\ ago'["set"] = ago["set"] /\ ago'["page"] = 0
    BY <1>1, <1>5 DEF ClosePage, Seen, Kinds
  <2> QED
    BY <1>1, <1>2, <2>1
<1>6. CASE Request \/ Register \/ BeginTurn \/ EndTurn \/ CheckIdle \/ CheckChat \/ TurnOff \/ Shutdown
  <2>1. UNCHANGED <<idleFor, open>> /\ ago'["set"] = ago["set"] /\ ago'["page"] = ago["page"]
    BY <1>1, <1>6 DEF Request, Register, BeginTurn, EndTurn, CheckIdle, CheckChat, TurnOff, Shutdown, Seen, Kinds
  <2> QED
    BY <2>1
<1>7. CASE StartChat \/ Stat
  <2>1. (idleFor' = 0 \/ idleFor' = idleFor) /\ open' = open /\ ago'["set"] = ago["set"] /\ ago'["page"] = ago["page"]
    BY <1>1, <1>7 DEF StartChat, Stat, Seen, Kinds
  <2> QED
    BY <1>1, <1>2, <2>1
<1>8. CASE TurnOn
  <2>1. idleFor' = 0 /\ open' = open /\ ago'["set"] = 0 /\ ago'["page"] = ago["page"]
    BY <1>1, <1>8 DEF TurnOn, Seen, Kinds
  <2> QED
    BY <1>1, <1>2, <2>1
<1>9. CASE UNCHANGED watchVars
  BY <1>9 DEF watchVars
<1> QED
  BY <1>3, <1>4, <1>5, <1>6, <1>7, <1>8, <1>9 DEF WatchNext

(* A stack is found idle only a full timeout after the last page left and after the timeout was set. *)
THEOREM ReloadsRestartTheCountdown == WatchSpec => ReloadRestartsCountdown
<1>1. WatchInit => CountdownInv
  BY DEF WatchInit, CountdownInv, Kinds
<1>2. WatchTypeOK /\ CountdownInv /\ [WatchNext]_watchVars
      => [FindsIdle => ago["page"] > Timeout /\ ago["set"] > Timeout]_watchVars
  <2> SUFFICES ASSUME WatchTypeOK, CountdownInv, WatchNext, FindsIdle PROVE ago["page"] > Timeout /\ ago["set"] > Timeout
    OBVIOUS
  <2>1. CheckIdle
    BY DEF FindsIdle, WatchNext, Tick, OpenPage, ClosePage, Request, StartChat, Register, BeginTurn, EndTurn, Stat,
           CheckIdle, CheckChat, TurnOff, TurnOn, Shutdown
  <2>2. open = 0 /\ idleFor > Timeout
    BY <2>1 DEF CheckIdle, FindsIdle, IsIdle
  <2>3. idleFor \in Ticks /\ ago["set"] \in Ticks /\ ago["page"] \in Ticks /\ Timeout \in Nat
    BY LaterTypes DEF WatchTypeOK, Kinds
  <2>4. \A n \in Ticks : n \in Nat
    BY <2>3 DEF Ticks
  <2> QED
    BY <2>2, <2>3, <2>4 DEF CountdownInv
<1> QED
  BY <1>1, <1>2, CountdownStep, WatchTypeCorrect, PTL DEF WatchSpec, ReloadRestartsCountdown
=============================================================================
