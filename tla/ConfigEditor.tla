----------------------------- MODULE ConfigEditor -----------------------------
(* The config editor of a page (useConfigEditor, ConfigEditorPanel) and the   *)
(* routes that list and save the stack's manifests (config_files.go), with    *)
(* other programs that write the same files and the reloads that follow.      *)
(* A version is a hash of the content, so the content stands for both.  The   *)
(* files are the manifest and one it includes, whose reloads are counted      *)
(* together; the checks of the content are left to nondeterminism.            *)
EXTENDS Naturals, FiniteSets

CONSTANTS
  Files, Contents,
  First,        \* the content every file has at first
  MaxOpens,     \* times the editor opens
  MaxEdits,     \* changes to the text
  MaxSaves,     \* saves
  MaxOutside,   \* writes of other programs
  MaxActs,      \* these together
  None

ASSUME ContentsAssumption == First \in Contents /\ None \notin Contents

VARIABLES
  disk,
  due, reading, reloads,    \* an unread change, the reload under way and Reloads of recordConfigurationResult
  isOpen, listing,          \* the panel is open; the answer to its request for the files, or what became of it
  files, drafts, selected, outcome,   \* useConfigEditor's state; files[f] is the content f was opened at
  saves,        \* client.save calls that have not returned
  known,        \* the page's configuration: the reloads that finished, 0 without the health stream
  opens, edits, asked, outside,
  seen,         \* observer: the texts of each file the person was shown
  relapsed,     \* observer: files whose draft carried no change when a newer content was loaded
  raced         \* observer: files that another program wrote while a save of them was checked

stack == <<disk, due, reading, reloads>>
page == <<isOpen, listing, files, drafts, selected, outcome, known>>
counts == <<opens, edits, asked, outside>>
vars == <<stack, page, saves, counts, seen, relapsed, raced>>

idleOutcome == [kind |-> "idle"]
Unasked == [stage |-> "none"]
Draft(f) == drafts[f] # None /\ drafts[f] # files[f]     \* changedPaths
Text(f) == IF drafts[f] = None THEN files[f] ELSE drafts[f]
hasFile == files[selected] # None
May(count, bound) == count < bound /\ opens + edits + asked + outside < MaxActs

Conflict == [kind : {"conflict"}, path : Files, content : Contents]
Call == [id : Nat, path : Files, content : Contents, baseVersion : Contents, reloadsBeforeSave : Nat,
         answer : [kind : {"none", "checked", "saved", "failed"}] \cup Conflict]

TypeOK ==
  /\ disk \in [Files -> Contents] /\ due \in BOOLEAN /\ reading \in BOOLEAN /\ reloads \in Nat
  /\ isOpen \in BOOLEAN /\ selected \in Files
  /\ listing \in [stage : {"none", "asked"}] \cup [stage : {"answered"}, files : [Files -> Contents]]
  /\ files \in [Files -> Contents \cup {None}] /\ drafts \in [Files -> Contents \cup {None}]
  /\ outcome \in [kind : {"idle", "saving", "applied", "failed"}] \cup Conflict
                 \cup [kind : {"applying"}, reloadsBeforeSave : Nat]
  /\ saves \subseteq Call /\ known \in Nat
  /\ opens \in Nat /\ edits \in Nat /\ asked \in Nat /\ outside \in Nat
  /\ seen \in [Files -> SUBSET Contents] /\ relapsed \subseteq Files /\ raced \subseteq Files

Init ==
  /\ disk = [f \in Files |-> First] /\ due = FALSE /\ reading = FALSE /\ reloads = 0
  /\ isOpen = FALSE /\ listing = Unasked
  /\ files = [f \in Files |-> None] /\ drafts = [f \in Files |-> None]
  /\ selected \in Files /\ outcome = idleOutcome /\ saves = {} /\ known = 0
  /\ opens = 0 /\ edits = 0 /\ asked = 0 /\ outside = 0
  /\ seen = [f \in Files |-> {}] /\ relapsed = {} /\ raced = {}

(* What the person has been shown, after each step. *)
Shown ==
  seen' = [f \in Files |-> IF isOpen' /\ f = selected' /\ files'[f] # None THEN seen[f] \cup {Text(f)'} ELSE seen[f]]

-----------------------------------------------------------------------------
(* The panel. *)

Open ==
  /\ ~isOpen /\ May(opens, MaxOpens)
  /\ isOpen' = TRUE /\ opens' = opens + 1 /\ listing' = [stage |-> "asked"]
  /\ UNCHANGED <<stack, files, drafts, selected, outcome, saves, known, edits, asked, outside, relapsed, raced>>
  /\ Shown

(* The answer to a request of a panel that was closed since is not taken. *)
Close ==
  /\ isOpen /\ isOpen' = FALSE /\ listing' = Unasked
  /\ UNCHANGED <<stack, files, drafts, selected, outcome, saves, known, counts, relapsed, raced, seen>>

(* keepChangedFiles: a file with unsaved changes keeps the version it was opened at. *)
Kept(f) == IF files[f] # None /\ Draft(f) THEN files[f] ELSE listing.files[f]
TakeFiles ==
  /\ listing.stage = "answered" /\ listing' = Unasked
  /\ files' = [f \in Files |-> Kept(f)]
  /\ relapsed' = relapsed \cup {f \in Files : drafts[f] # None /\ ~Draft(f) /\ listing.files[f] # files[f]}
  /\ UNCHANGED <<stack, isOpen, drafts, selected, outcome, saves, known, counts, raced>>
  /\ Shown

Select(f) ==
  /\ isOpen /\ hasFile /\ f # selected
  /\ selected' = f /\ outcome' = idleOutcome
  /\ UNCHANGED <<stack, isOpen, listing, files, drafts, saves, known, counts, relapsed, raced>>
  /\ Shown

Change(c) ==
  /\ isOpen /\ hasFile /\ May(edits, MaxEdits) /\ c # Text(selected)
  /\ edits' = edits + 1 /\ drafts' = [drafts EXCEPT ![selected] = c]
  /\ UNCHANGED <<stack, isOpen, listing, files, selected, outcome, saves, known, opens, asked, outside, relapsed, raced>>
  /\ Shown

Revert ==
  /\ isOpen /\ Draft(selected) /\ outcome.kind # "saving"
  /\ drafts' = [drafts EXCEPT ![selected] = None]
  /\ UNCHANGED <<stack, isOpen, listing, files, selected, outcome, saves, known, counts, relapsed, raced>>
  /\ Shown

(* The save shortcut works while a save is under way, when the button does not. *)
Save ==
  /\ isOpen /\ Draft(selected) /\ May(asked, MaxSaves) /\ asked' = asked + 1
  /\ saves' = saves \cup {[id |-> asked, path |-> selected, content |-> drafts[selected],
                           baseVersion |-> files[selected], reloadsBeforeSave |-> known,
                           answer |-> [kind |-> "none"]]}
  /\ outcome' = [kind |-> "saving"]
  /\ UNCHANGED <<stack, isOpen, listing, files, drafts, selected, known, opens, edits, outside, relapsed, raced, seen>>

(* The effect that waits for the reload; `finished` is the count the page has. *)
Reported(o, finished) ==
  IF o.kind = "applying" /\ finished > o.reloadsBeforeSave THEN [kind |-> "applied"] ELSE o

(* The plausible mistake: the reloads are counted when the save is answered. *)
AnsweredLate(s) ==
  IF s.answer.kind = "saved" THEN [kind |-> "applying", reloadsBeforeSave |-> known] ELSE s.answer
Answered(s) ==
  IF s.answer.kind = "saved" THEN [kind |-> "applying", reloadsBeforeSave |-> s.reloadsBeforeSave] ELSE s.answer

(* The plausible mistake: a save puts the text it wrote in the place of the draft. *)
SavedDrafts(s) == [drafts EXCEPT ![s.path] = None]
Drafts(s) == drafts

TakeAnswer(s) ==
  /\ s.answer.kind \notin {"none", "checked"} /\ saves' = saves \ {s}
  /\ files' = IF s.answer.kind = "saved" THEN [files EXCEPT ![s.path] = s.content] ELSE files
  /\ drafts' = IF s.answer.kind = "saved" THEN Drafts(s) ELSE drafts
  /\ outcome' = Reported(Answered(s), known)
  /\ UNCHANGED <<stack, isOpen, listing, selected, known, counts, relapsed, raced>>
  /\ Shown

LoadDiskVersion ==
  /\ isOpen /\ outcome.kind = "conflict"
  /\ files' = [files EXCEPT ![outcome.path] = outcome.content]
  /\ drafts' = [drafts EXCEPT ![outcome.path] = None]
  /\ outcome' = idleOutcome
  /\ UNCHANGED <<stack, isOpen, listing, selected, saves, known, counts, relapsed, raced>>
  /\ Shown

(* The health that carries the configuration's status reaches the page. *)
ReceiveHealth ==
  /\ known # reloads /\ known' = reloads
  /\ outcome' = Reported(outcome, reloads)
  /\ UNCHANGED <<stack, isOpen, listing, files, drafts, selected, saves, counts, relapsed, raced, seen>>

(* Without the stream nothing is known of the configuration, and readReloads gives 0. *)
LoseHealth ==
  /\ known # 0 /\ known' = 0
  /\ UNCHANGED <<stack, isOpen, listing, files, drafts, selected, outcome, saves, counts, relapsed, raced, seen>>

-----------------------------------------------------------------------------
(* devhost and the other programs. *)

handleConfigFiles ==
  /\ listing.stage = "asked" /\ listing' = [stage |-> "answered", files |-> disk]
  /\ UNCHANGED <<stack, isOpen, files, drafts, selected, outcome, saves, known, counts, relapsed, raced, seen>>

(* The plausible mistake: the version is not compared. *)
MayWriteAny(s) == TRUE
MayWrite(s) == disk[s.path] = s.baseVersion

Checked(f) == \E s \in saves : s.answer.kind = "checked" /\ s.path = f

(* handleConfigSave, one save at a time: the file is read and compared, then its new *)
(* content is checked and written.  A refused content and a failed request leave the *)
(* page in the same state, and an answer can get lost after the file was written.    *)
CompareSave(s) ==
  /\ s.answer.kind = "none" /\ \A f \in Files : ~Checked(f)
  /\ LET answer == IF MayWrite(s) THEN [kind |-> "checked"]
                   ELSE [kind |-> "conflict", path |-> s.path, content |-> disk[s.path]]
     IN  saves' = (saves \ {s}) \cup {[s EXCEPT !.answer = answer]}
  /\ UNCHANGED <<stack, page, counts, relapsed, raced, seen>>
WriteSave(s) ==
  /\ s.answer.kind = "checked"
  /\ \E kind \in {"saved", "failed"} :
       /\ saves' = (saves \ {s}) \cup {[s EXCEPT !.answer = [kind |-> kind]]}
       /\ \/ disk' = [disk EXCEPT ![s.path] = s.content] /\ due' = TRUE
          \/ kind = "failed" /\ UNCHANGED <<disk, due>>
  /\ UNCHANGED <<reading, reloads, page, counts, relapsed, raced, seen>>

WriteOutside(f, c) ==
  /\ May(outside, MaxOutside) /\ outside' = outside + 1
  /\ c # disk[f] /\ disk' = [disk EXCEPT ![f] = c] /\ due' = TRUE
  /\ raced' = IF Checked(f) THEN raced \cup {f} ELSE raced
  /\ UNCHANGED <<reading, reloads, page, saves, opens, edits, asked, seen, relapsed>>

BeginReload ==
  /\ due /\ ~reading /\ due' = FALSE /\ reading' = TRUE
  /\ UNCHANGED <<disk, reloads, page, saves, counts, relapsed, raced, seen>>
FinishReload ==
  /\ reading /\ reading' = FALSE /\ reloads' = reloads + 1
  /\ UNCHANGED <<disk, due, page, saves, counts, relapsed, raced, seen>>

Devhost == BeginReload \/ FinishReload \/ handleConfigFiles \/ \E s \in saves : CompareSave(s) \/ WriteSave(s)
Page == TakeFiles \/ ReceiveHealth \/ LoseHealth \/ \E s \in saves : TakeAnswer(s)
Person ==
  \/ Open \/ Close \/ Revert \/ Save \/ LoadDiskVersion
  \/ \E f \in Files : Select(f)
  \/ \E c \in Contents : Change(c)

Next == Devhost \/ Page \/ Person \/ \E f \in Files, c \in Contents : WriteOutside(f, c)
Spec == Init /\ [][Next]_vars
-----------------------------------------------------------------------------
Overwritten(f) == disk'[f] # disk[f] /\ outside' = outside

(* A save writes over a content only if the person was shown it: what another  *)
(* program wrote is not lost unseen (handleConfigSave, keepChangedFiles).      *)
(* Exempt are a draft that carried no change when newer content was loaded,    *)
(* and a write of another program while the save was checked.                  *)
OverwritesSeen == [][\A f \in Files : Overwritten(f) => disk[f] \in seen[f] \/ f \in relapsed \cup raced]_vars

(* The same without the first exemption: useConfigEditor promises that saving *)
(* a file after it changed on disk is refused.                                *)
OverwritesOnlySeen == [][\A f \in Files : Overwritten(f) => disk[f] \in seen[f] \/ f \in raced]_vars

(* The unsaved text of a file stays whatever is loaded, saved or answered      *)
(* meanwhile; only the person's own typing, reverting and loading change it.   *)
UnsavedStays ==
  [][\A f \in Files : files[f] # None /\ Draft(f) /\ Text(f)' # Text(f)
       => LoadDiskVersion \/ Revert \/ \E c \in Contents : Change(c)]_vars

(* The panel does not wait for a reload that was reported already: when every *)
(* change was read and the page knows each reload, no save is still being     *)
(* applied, also when its reload finished before the save was answered.       *)
SavesReported == outcome.kind = "applying" => due \/ reading \/ known # reloads
=============================================================================
