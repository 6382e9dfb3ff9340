----------------------------- MODULE PanelProofs -----------------------------
(* The two panels of the page that keep a copy of what devhost has: the        *)
(* configuration editor (ConfigEditor) and the chat view (ChatView), for any   *)
(* files, contents, commands and bounds.                                       *)
EXTENDS ConfigEditor, ChatView, TLAPS

(* The configuration editor. *)

(* Only a file that was loaded has a draft. *)
Based == \A f \in Files : drafts[f] # None => files[f] # None
TypeInv == TypeOK /\ Based

(* Coming(before): the reload that follows a save at `before` is under way or counted. *)
Coming(before) == due \/ reading \/ reloads > before

(* The count a save was made at is one the page had, and a save that was written *)
(* has its reload before it.                                                     *)
CountInv ==
  /\ known <= reloads
  /\ \A s \in saves : s.reloadsBeforeSave <= reloads /\ (s.answer.kind = "saved" => Coming(s.reloadsBeforeSave))
  /\ outcome.kind = "applying" =>
       /\ known <= outcome.reloadsBeforeSave /\ outcome.reloadsBeforeSave <= reloads
       /\ Coming(outcome.reloadsBeforeSave)

(* The person has seen the text in the open editor, what every unsaved text was *)
(* based on, and what every save writes and expects.                            *)
WasSeen(f, c) == c \in seen[f] \/ f \in relapsed
DraftInv == \A f \in Files : Draft(f) => WasSeen(f, files[f])
ShownInv == isOpen /\ hasFile => Text(selected) \in seen[selected]
CallInv == \A s \in saves :
  /\ s.content \in seen[s.path] /\ WasSeen(s.path, s.baseVersion)
  /\ s.answer.kind = "checked" => disk[s.path] = s.baseVersion \/ s.path \in raced
AloneInv == \A s, t \in saves : s.answer.kind = "checked" /\ t.answer.kind = "checked" => s = t
SeenInv == DraftInv /\ ShownInv /\ CallInv /\ AloneInv

-----------------------------------------------------------------------------
(* The variables keep their types. *)
LEMMA InitType == Init => TypeInv
<1> SUFFICES ASSUME Init PROVE TypeInv
  OBVIOUS
<1> USE ContentsAssumption DEF Init
<1>1. disk \in [Files -> Contents] /\ files \in [Files -> Contents \cup {None}] /\ drafts \in [Files -> Contents \cup {None}]
  OBVIOUS
<1>2. outcome \in [kind : {"idle", "saving", "applied", "failed"}] /\ listing \in [stage : {"none", "asked"}]
  BY DEF idleOutcome, Unasked
<1>3. seen \in [Files -> SUBSET Contents] /\ relapsed \subseteq Files /\ raced \subseteq Files
  OBVIOUS
<1>4. due \in BOOLEAN /\ reading \in BOOLEAN /\ reloads \in Nat /\ isOpen \in BOOLEAN /\ selected \in Files
      /\ saves \subseteq Call /\ known \in Nat
      /\ opens \in Nat /\ edits \in Nat /\ asked \in Nat /\ outside \in Nat
  OBVIOUS
<1>5. Based
  BY DEF Based
<1> QED
  BY <1>1, <1>2, <1>3, <1>4, <1>5 DEF TypeInv, TypeOK

LEMMA NextType == TypeInv /\ [Next]_vars => TypeInv'
<1> SUFFICES ASSUME TypeInv, [Next]_vars PROVE TypeInv'
  OBVIOUS
<1>0. reloads + 1 \in Nat /\ opens + 1 \in Nat /\ edits + 1 \in Nat /\ asked + 1 \in Nat /\ outside + 1 \in Nat
  BY DEF TypeInv, TypeOK
<1> USE ContentsAssumption DEF TypeInv, Based, TypeOK, Call, Conflict
<1>1. CASE Open
  BY <1>0, <1>1 DEF Open, stack, Shown, Text
<1>2. CASE Close
  BY <1>2 DEF Close, stack, counts, Unasked
<1>3. CASE TakeFiles
  BY <1>3 DEF TakeFiles, Kept, Unasked, stack, counts, Shown, Text
<1>4. ASSUME NEW f \in Files, Select(f) PROVE TypeInv'
  BY <1>4 DEF Select, idleOutcome, stack, counts, Shown, Text
<1>5. ASSUME NEW c \in Contents, Change(c) PROVE TypeInv'
  <2>1. drafts' \in [Files -> Contents \cup {None}] /\ Based'
    BY <1>5 DEF Change, hasFile
  <2>2. \A f \in Files : files'[f] # None => Text(f)' \in Contents
    BY <2>1, <1>5 DEF Change, Text
  <2>3. seen' \in [Files -> SUBSET Contents]
    BY <2>2, <1>5 DEF Change, Shown
  <2> QED
    BY <1>0, <1>5, <2>1, <2>3 DEF Change, stack
<1>6. CASE Revert
  BY <1>6 DEF Revert, stack, counts, Shown, Text
<1>7. CASE Save
  <2>1. drafts[selected] \in Contents /\ files[selected] \in Contents
    BY <1>7 DEF Save, Draft
  <2>2. [id |-> asked, path |-> selected, content |-> drafts[selected], baseVersion |-> files[selected],
         reloadsBeforeSave |-> known, answer |-> [kind |-> "none"]] \in Call
    BY <2>1
  <2>3. saves' \subseteq Call /\ asked' \in Nat
    BY <1>0, <1>7, <2>2 DEF Save
  <2> QED
    BY <1>7, <2>3 DEF Save, stack
<1>8. ASSUME NEW s \in saves, TakeAnswer(s) PROVE TypeInv'
  BY <1>8 DEF TakeAnswer, Answered, Reported, Drafts, stack, counts, Shown, Text
<1>9. CASE LoadDiskVersion
  BY <1>9 DEF LoadDiskVersion, idleOutcome, stack, counts, Shown, Text
<1>10. CASE ReceiveHealth
  BY <1>10 DEF ReceiveHealth, Reported, stack, counts
<1>11. CASE LoseHealth
  BY <1>11 DEF LoseHealth, stack, counts
<1>12. CASE handleConfigFiles
  BY <1>12 DEF handleConfigFiles, stack, counts
<1>13. ASSUME NEW s \in saves, CompareSave(s) PROVE TypeInv'
  <2>1. \A answer : answer \in [kind : {"checked"}] \cup Conflict => [s EXCEPT !.answer = answer] \in Call
    OBVIOUS
  <2>2. saves' \subseteq Call
    BY <1>13, <2>1 DEF CompareSave
  <2> QED
    BY <1>13, <2>2 DEF CompareSave, stack, page, counts
<1>14. ASSUME NEW s \in saves, WriteSave(s) PROVE TypeInv'
  <2>1. PICK kind \in {"saved", "failed"} :
          /\ saves' = (saves \ {s}) \cup {[s EXCEPT !.answer = [kind |-> kind]]}
          /\ \/ disk' = [disk EXCEPT ![s.path] = s.content] /\ due' = TRUE
             \/ kind = "failed" /\ UNCHANGED <<disk, due>>
    BY <1>14 DEF WriteSave
  <2>2. [s EXCEPT !.answer = [kind |-> kind]] \in Call
    OBVIOUS
  <2>3. disk' \in [Files -> Contents] /\ due' \in BOOLEAN
    BY <2>1
  <2> QED
    BY <1>14, <2>1, <2>2, <2>3 DEF WriteSave, page, counts
<1>15. ASSUME NEW f \in Files, NEW c \in Contents, WriteOutside(f, c) PROVE TypeInv'
  BY <1>0, <1>15 DEF WriteOutside, page
<1>16. CASE BeginReload
  BY <1>16 DEF BeginReload, page, counts
<1>18. CASE FinishReload
  <2>1. reloads' \in Nat /\ reading' \in BOOLEAN
    BY <1>0, <1>18 DEF FinishReload
  <2> QED
    BY <1>18, <2>1 DEF FinishReload, page, counts
<1>17. CASE UNCHANGED vars
  BY <1>17 DEF vars, stack, page, counts
<1> QED
  BY <1>1, <1>2, <1>3, <1>4, <1>5, <1>6, <1>7, <1>8, <1>9, <1>10, <1>11, <1>12, <1>13, <1>14, <1>15, <1>16, <1>17, <1>18
     DEF Next, Devhost, Page, Person

(* Also, only files that were loaded have drafts. *)
LEMMA AlwaysTyped == Spec => []TypeInv
  BY InitType, NextType, PTL DEF Spec

(* The editor, its saves and the observers keep their types. *)
THEOREM TypeCorrect == Spec => []TypeOK
<1>1. TypeInv => TypeOK
  BY DEF TypeInv
<1> QED
  BY AlwaysTyped, <1>1, PTL

-----------------------------------------------------------------------------
(* The text of an unsaved file is its draft, whatever version the file is based *)
(* on, and only the three excepted actions and no other change a draft.         *)
LEMMA DraftStays == \A f \in Files : Draft(f) /\ drafts' = drafts => Text(f)' = Text(f)
  BY DEF Draft, Text

(* Loading, saving, answers and reloads leave unsaved text alone. *)
THEOREM UnsavedTextStays == Spec => UnsavedStays
<1>1. [Next]_vars => [\A f \in Files : files[f] # None /\ Draft(f) /\ Text(f)' # Text(f)
                        => LoadDiskVersion \/ Revert \/ \E c \in Contents : Change(c)]_vars
  <2> SUFFICES ASSUME [Next]_vars, NEW f \in Files, Draft(f), Text(f)' # Text(f)
               PROVE  LoadDiskVersion \/ Revert \/ \E c \in Contents : Change(c)
    OBVIOUS
  <2>1. drafts' # drafts
    BY DraftStays
  <2>2. UNCHANGED drafts \/ LoadDiskVersion \/ Revert \/ \E c \in Contents : Change(c)
    BY DEF Next, Devhost, Page, Person, Open, Close, TakeFiles, Select, Save, TakeAnswer, Drafts, ReceiveHealth,
       LoseHealth, handleConfigFiles, CompareSave, WriteSave, WriteOutside, BeginReload, FinishReload, vars, page
  <2> QED
    BY <2>1, <2>2
<1> QED
  BY <1>1, PTL DEF Spec, UnsavedStays

-----------------------------------------------------------------------------
(* An answer leaves the rest of the call as it was. *)
LEMMA AnswerOnly ==
  ASSUME NEW s \in Call, NEW answer, NEW t, t = [s EXCEPT !.answer = answer]
  PROVE  /\ t.path = s.path /\ t.content = s.content /\ t.baseVersion = s.baseVersion
         /\ t.reloadsBeforeSave = s.reloadsBeforeSave /\ t.answer = answer
  BY DEF Call

(* Nothing was saved at first. *)
LEMMA InitCount == Init => CountInv
  BY DEF Init, CountInv, idleOutcome

(* No step counts a reload that is missing from devhost, or loses one a save waits for. *)
LEMMA NextCount == TypeInv /\ CountInv /\ [Next]_vars => CountInv'
<1> SUFFICES ASSUME TypeInv, CountInv, [Next]_vars PROVE CountInv'
  OBVIOUS
<1>1. /\ known \in Nat /\ reloads \in Nat /\ \A s \in saves : s.reloadsBeforeSave \in Nat
      /\ outcome.kind = "applying" => outcome.reloadsBeforeSave \in Nat
  BY DEF TypeInv, TypeOK, Call, Conflict
<1> USE DEF CountInv, Coming
<1>2. ASSUME UNCHANGED <<due, reading, reloads, known>>, outcome' = outcome \/ outcome'.kind # "applying",
             \A s \in saves' : \/ s \in saves
                               \/ s.reloadsBeforeSave <= reloads /\ s.answer.kind # "saved"
      PROVE  CountInv'
  BY <1>2
<1>3. CASE Save
  BY <1>1, <1>2, <1>3 DEF Save, stack
<1>4. ASSUME NEW s \in saves, TakeAnswer(s) PROVE CountInv'
  <2>1. outcome'.kind = "applying" => /\ s.answer.kind = "saved" /\ known <= s.reloadsBeforeSave
                                      /\ outcome'.reloadsBeforeSave = s.reloadsBeforeSave
    BY <1>1, <1>4 DEF TypeInv, TypeOK, Call, Conflict, TakeAnswer, Answered, Reported
  <2> QED
    BY <1>4, <2>1 DEF TakeAnswer, stack
<1>5. CASE ReceiveHealth
  BY <1>1, <1>5 DEF ReceiveHealth, Reported, stack
<1>6. CASE LoseHealth
  BY <1>1, <1>6 DEF LoseHealth, stack
<1>7. ASSUME NEW s \in saves, CompareSave(s) PROVE CountInv'
  <2>1. \A t \in saves' : \/ t \in saves
                          \/ t.reloadsBeforeSave = s.reloadsBeforeSave /\ t.answer.kind # "saved"
    <3>1. PICK answer : answer.kind # "saved" /\ saves' = (saves \ {s}) \cup {[s EXCEPT !.answer = answer]}
      BY <1>7 DEF CompareSave
    <3>2. s \in Call
      BY DEF TypeInv, TypeOK
    <3>3. \A t : t = [s EXCEPT !.answer = answer] => t.reloadsBeforeSave = s.reloadsBeforeSave /\ t.answer = answer
      BY <3>2, AnswerOnly
    <3> QED
      BY <3>1, <3>3
  <2> QED
    BY <1>2, <1>7, <2>1 DEF CompareSave, stack, page
<1>8. ASSUME NEW s \in saves, WriteSave(s) PROVE CountInv'
  <2>1. \A t \in saves' : \/ t \in saves
                          \/ t.reloadsBeforeSave = s.reloadsBeforeSave /\ (t.answer.kind = "saved" => due')
    <3>1. PICK kind : /\ kind = "saved" => due'
                      /\ saves' = (saves \ {s}) \cup {[s EXCEPT !.answer = [kind |-> kind]]}
      BY <1>8 DEF WriteSave
    <3>2. s \in Call
      BY DEF TypeInv, TypeOK
    <3>3. \A t : t = [s EXCEPT !.answer = [kind |-> kind]]
                => t.reloadsBeforeSave = s.reloadsBeforeSave /\ t.answer.kind = kind
      BY <3>2, AnswerOnly
    <3> QED
      BY <3>1, <3>3
  <2>2. due => due'
    BY <1>8 DEF WriteSave
  <2> QED
    BY <1>8, <2>1, <2>2 DEF WriteSave, page
<1>9. ASSUME NEW f \in Files, NEW c \in Contents, WriteOutside(f, c) PROVE CountInv'
  BY <1>9 DEF WriteOutside, page
<1>10. CASE BeginReload
  BY <1>10 DEF BeginReload, page
<1>11. CASE FinishReload
  BY <1>1, <1>11 DEF FinishReload, page
<1>12. CASE handleConfigFiles \/ TakeFiles \/ Open \/ Close \/ Revert \/ LoadDiskVersion \/ UNCHANGED vars
  BY <1>2, <1>12 DEF handleConfigFiles, TakeFiles, Open, Close, Revert, LoadDiskVersion, vars, stack, page, idleOutcome
<1>13. ASSUME NEW f \in Files, Select(f) PROVE CountInv'
  BY <1>2, <1>13 DEF Select, stack, idleOutcome
<1>14. ASSUME NEW c \in Contents, Change(c) PROVE CountInv'
  BY <1>2, <1>14 DEF Change, stack
<1> QED
  BY <1>3, <1>4, <1>5, <1>6, <1>7, <1>8, <1>9, <1>10, <1>11, <1>12, <1>13, <1>14 DEF Next, Devhost, Page, Person

(* A reload that was reported ends the wait of the panel. *)
THEOREM ReportedSavesEnd == Spec => []SavesReported
<1>1. TypeInv /\ CountInv => SavesReported
  BY DEF TypeInv, TypeOK, Call, Conflict, CountInv, Coming, SavesReported
<1>2. Spec => []CountInv
  BY InitCount, NextCount, AlwaysTyped, PTL DEF Spec
<1> QED
  BY AlwaysTyped, <1>1, <1>2, PTL

-----------------------------------------------------------------------------
(* The observers only grow, and an editor that shows a text has shown it. *)
LEMMA ObserversGrow ==
  TypeInv /\ [Next]_vars => /\ \A f \in Files : seen[f] \subseteq seen'[f]
                           /\ relapsed \subseteq relapsed' /\ raced \subseteq raced'
<1> SUFFICES ASSUME TypeInv, [Next]_vars
             PROVE  /\ \A f \in Files : seen[f] \subseteq seen'[f]
                    /\ relapsed \subseteq relapsed' /\ raced \subseteq raced'
  OBVIOUS
<1>1. seen' = seen \/ Shown
  BY DEF Next, Devhost, Page, Person, Open, Close, Revert, Save, LoadDiskVersion, Select, Change, TakeFiles, TakeAnswer,
     ReceiveHealth, LoseHealth, handleConfigFiles, CompareSave, WriteSave, WriteOutside, BeginReload, FinishReload, vars
<1>2. Shown => \A f \in Files : seen[f] \subseteq seen'[f]
  BY DEF Shown
<1>3. relapsed \subseteq relapsed' /\ raced \subseteq raced'
  BY DEF Next, Devhost, Page, Person, Open, Close, Revert, Save, LoadDiskVersion, Select, Change, TakeFiles, TakeAnswer,
     ReceiveHealth, LoseHealth, handleConfigFiles, CompareSave, WriteSave, WriteOutside, BeginReload, FinishReload, vars
<1> QED
  BY <1>1, <1>2, <1>3

(* Each step that shows a text records it. *)
LEMMA ShownIsSeen == TypeInv' /\ Shown => ShownInv'
  BY DEF TypeInv, TypeOK, Shown, ShownInv, hasFile

(* The text in the open editor was seen. *)
LEMMA NextShown == TypeInv /\ TypeInv' /\ ShownInv /\ [Next]_vars => ShownInv'
<1> SUFFICES ASSUME TypeInv, TypeInv', ShownInv, [Next]_vars PROVE ShownInv'
  OBVIOUS
<1>1. UNCHANGED <<isOpen, selected, files, drafts, seen>> \/ isOpen' = FALSE \/ Shown
  BY DEF Next, Devhost, Page, Person, Open, Close, Revert, Save, LoadDiskVersion, Select, Change, TakeFiles, TakeAnswer,
     ReceiveHealth, LoseHealth, handleConfigFiles, CompareSave, WriteSave, WriteOutside, BeginReload, FinishReload, vars,
     page
<1>2. CASE UNCHANGED <<isOpen, selected, files, drafts, seen>>
  BY <1>2 DEF ShownInv, hasFile, Text
<1>3. CASE isOpen' = FALSE
  BY <1>3 DEF ShownInv
<1> QED
  BY <1>1, <1>2, <1>3, ShownIsSeen

(* An unsaved text is based on a content the person saw, or the file is excepted. *)
LEMMA NextDraft == TypeInv /\ SeenInv /\ [Next]_vars => DraftInv'
<1> SUFFICES ASSUME TypeInv, SeenInv, [Next]_vars, NEW f \in Files, Draft(f)' PROVE WasSeen(f, files[f])'
  BY DEF DraftInv
<1>1. \A c : WasSeen(f, c) => c \in seen'[f] \/ f \in relapsed'
  BY ObserversGrow DEF WasSeen
<1>2. Draft(f) => WasSeen(f, files[f])
  BY DEF SeenInv, DraftInv
<1>3. CASE files'[f] = files[f] /\ drafts'[f] = drafts[f]
  BY <1>1, <1>2, <1>3 DEF Draft, WasSeen
<1>4. CASE TakeFiles
  <2>1. files'[f] = Kept(f) /\ drafts' = drafts
    BY <1>4 DEF TakeFiles
  <2>2. CASE Draft(f)
    BY <1>3, <2>1, <2>2 DEF Kept, TypeInv, Based, Draft
  <2>3. CASE ~Draft(f)
    BY <1>4, <2>1, <2>3 DEF TakeFiles, Kept, Draft, WasSeen
  <2> QED
    BY <2>2, <2>3
<1>5. ASSUME NEW c \in Contents, Change(c) PROVE WasSeen(f, files[f])'
  <2>1. CASE f = selected
    <3>1. files[f] = Text(f) \/ Draft(f)
      BY DEF Text, Draft
    <3>2. Text(f) \in seen[f]
      BY <1>5, <2>1 DEF Change, SeenInv, ShownInv
    <3> QED
      BY <1>1, <1>2, <1>5, <3>1, <3>2 DEF Change, WasSeen
  <2>2. CASE f # selected
    BY <1>3, <1>5, <2>2 DEF Change, TypeInv, TypeOK
  <2> QED
    BY <2>1, <2>2
<1>6. CASE Revert
  BY <1>3, <1>6 DEF Revert, TypeInv, TypeOK, Draft
<1>7. ASSUME NEW s \in saves, TakeAnswer(s) PROVE WasSeen(f, files[f])'
  <2>1. drafts' = drafts
    BY <1>7 DEF TakeAnswer, Drafts
  <2>2. CASE f = s.path /\ s.answer.kind = "saved"
    <3>1. files'[f] = s.content
      BY <1>7, <2>2 DEF TakeAnswer, TypeInv, TypeOK
    <3>2. s.content \in seen[f]
      BY <2>2 DEF SeenInv, CallInv
    <3> QED
      BY <1>1, <3>1, <3>2 DEF WasSeen
  <2>3. CASE ~(f = s.path /\ s.answer.kind = "saved")
    BY <1>3, <1>7, <2>1, <2>3 DEF TakeAnswer, TypeInv, TypeOK
  <2> QED
    BY <2>2, <2>3
<1>8. CASE LoadDiskVersion
  BY <1>3, <1>8 DEF LoadDiskVersion, TypeInv, TypeOK, Draft
<1>9. CASE UNCHANGED <<files, drafts>>
  BY <1>3, <1>9
<1> QED
  BY <1>4, <1>5, <1>6, <1>7, <1>8, <1>9 DEF Next, Devhost, Page, Person, Open, Close, Save, Select, ReceiveHealth,
     LoseHealth, handleConfigFiles, CompareSave, WriteSave, WriteOutside, BeginReload, FinishReload, vars, page

(* Of the saves only one is between its comparison and its write. *)
LEMMA NextAlone == TypeInv /\ AloneInv /\ [Next]_vars => AloneInv'
<1> SUFFICES ASSUME TypeInv, AloneInv, [Next]_vars PROVE AloneInv'
  OBVIOUS
<1> USE DEF AloneInv
<1>1. ASSUME \A t \in saves' : t \in saves \/ t.answer.kind # "checked" PROVE AloneInv'
  BY <1>1
<1>2. CASE Save
  BY <1>1, <1>2 DEF Save
<1>3. ASSUME NEW s \in saves, CompareSave(s) PROVE AloneInv'
  <2>1. \A t \in saves : t.answer.kind # "checked"
    BY <1>3 DEF CompareSave, Checked, TypeInv, TypeOK, Call
  <2> QED
    BY <1>3, <2>1 DEF CompareSave
<1>4. ASSUME NEW s \in saves, WriteSave(s) PROVE AloneInv'
  <2>1. PICK kind \in {"saved", "failed"} : saves' = (saves \ {s}) \cup {[s EXCEPT !.answer = [kind |-> kind]]}
    BY <1>4 DEF WriteSave
  <2>2. \A t : t = [s EXCEPT !.answer = [kind |-> kind]] => t.answer.kind # "checked"
    BY AnswerOnly DEF TypeInv, TypeOK
  <2> QED
    BY <1>1, <2>1, <2>2
<1>5. CASE saves' \subseteq saves
  BY <1>1, <1>5
<1> QED
  BY <1>2, <1>3, <1>4, <1>5 DEF Next, Devhost, Page, Person, Open, Close, Revert, LoadDiskVersion, Select, Change, TakeFiles,
     TakeAnswer, ReceiveHealth, LoseHealth, handleConfigFiles, WriteOutside, BeginReload, FinishReload, vars, page

(* What a save writes was shown, and so was what it expects to find. *)
LEMMA NextCall == TypeInv /\ TypeInv' /\ SeenInv /\ [Next]_vars => CallInv'
<1> SUFFICES ASSUME TypeInv, TypeInv', SeenInv, [Next]_vars PROVE CallInv'
  OBVIOUS
<1> DEFINE Expects(t) == t.answer.kind = "checked" => disk[t.path] = t.baseVersion \/ t.path \in raced
<1>1. \A t \in saves : /\ t \in Call /\ t.path \in Files /\ Expects(t)
                       /\ t.content \in seen'[t.path] /\ WasSeen(t.path, t.baseVersion)'
  BY ObserversGrow DEF SeenInv, CallInv, WasSeen, TypeInv, TypeOK, Call
<1>2. CASE Save
  <2>1. drafts[selected] \in seen[selected] /\ WasSeen(selected, files[selected])
    BY <1>2 DEF Save, SeenInv, ShownInv, DraftInv, TypeInv, TypeOK, Based, hasFile, Draft, Text
  <2> QED
    BY <1>1, <1>2, <2>1 DEF Save, stack, CallInv, WasSeen
<1>3. ASSUME NEW s \in saves, CompareSave(s) PROVE CallInv'
  <2>1. PICK answer : /\ saves' = (saves \ {s}) \cup {[s EXCEPT !.answer = answer]}
                      /\ answer.kind = "checked" => disk[s.path] = s.baseVersion
    BY <1>3 DEF CompareSave, MayWrite
  <2>2. \A t : t = [s EXCEPT !.answer = answer] =>
          /\ t.path = s.path /\ t.content = s.content /\ t.baseVersion = s.baseVersion /\ t.answer = answer
    BY <1>1, AnswerOnly
  <2>3. disk' = disk /\ raced' = raced
    BY <1>3 DEF CompareSave, stack
  <2> QED
    BY <1>1, <2>1, <2>2, <2>3 DEF CallInv, WasSeen
<1>4. ASSUME NEW s \in saves, WriteSave(s) PROVE CallInv'
  <2>1. PICK kind \in {"saved", "failed"} : saves' = (saves \ {s}) \cup {[s EXCEPT !.answer = [kind |-> kind]]}
    BY <1>4 DEF WriteSave
  <2>2. \A t : t = [s EXCEPT !.answer = [kind |-> kind]] =>
          /\ t.path = s.path /\ t.content = s.content /\ t.baseVersion = s.baseVersion /\ t.answer.kind # "checked"
    BY <1>1, AnswerOnly
  <2>3. \A t \in saves \ {s} : t.answer.kind # "checked"
    BY <1>4 DEF WriteSave, SeenInv, AloneInv
  <2> QED
    BY <1>1, <2>1, <2>2, <2>3 DEF CallInv, WasSeen
<1>5. ASSUME NEW f \in Files, NEW c \in Contents, WriteOutside(f, c) PROVE CallInv'
  <2>1. saves' = saves
    BY <1>5 DEF WriteOutside
  <2>2. ASSUME NEW t \in saves, t.answer.kind = "checked" PROVE disk'[t.path] = t.baseVersion \/ t.path \in raced'
    <3>1. CASE t.path = f
      BY <1>5, <2>2, <3>1 DEF WriteOutside, Checked
    <3>2. CASE t.path # f
      BY <1>1, <1>5, <2>2, <3>2 DEF WriteOutside, TypeInv, TypeOK
    <3> QED
      BY <3>1, <3>2
  <2> QED
    BY <1>1, <2>1, <2>2 DEF CallInv, WasSeen
<1>6. CASE saves' \subseteq saves /\ disk' = disk /\ raced' = raced
  BY <1>1, <1>6 DEF CallInv, WasSeen
<1> QED
  BY <1>2, <1>3, <1>4, <1>5, <1>6 DEF Next, Devhost, Page, Person, Open, Close, Revert, LoadDiskVersion, Select, Change,
     TakeFiles, TakeAnswer, ReceiveHealth, LoseHealth, handleConfigFiles, BeginReload, FinishReload, vars, page, stack

(* The observers start with no draft and no save to account for. *)
LEMMA InitSeen == Init => SeenInv
  BY DEF Init, SeenInv, DraftInv, Draft, ShownInv, CallInv, AloneInv

(* The four parts are inductive only together. *)
LEMMA AlwaysSeen == Spec => []SeenInv
<1>1. TypeInv /\ TypeInv' /\ SeenInv /\ [Next]_vars => SeenInv'
  BY NextDraft, NextShown, NextCall, NextAlone DEF SeenInv
<1> QED
  BY InitSeen, <1>1, AlwaysTyped, PTL DEF Spec

(* What a save writes over was shown, or its file is excepted. *)
THEOREM SavesOverwriteTheSeen == Spec => OverwritesSeen
<1>1. TypeInv /\ SeenInv /\ [Next]_vars
        => [\A f \in Files : Overwritten(f) => disk[f] \in seen[f] \/ f \in relapsed \cup raced]_vars
  <2> SUFFICES ASSUME TypeInv, SeenInv, [Next]_vars, NEW f \in Files, Overwritten(f)
               PROVE  disk[f] \in seen[f] \/ f \in relapsed \cup raced
    OBVIOUS
  <2>1. outside' # outside + 1
    BY DEF Overwritten, TypeInv, TypeOK
  <2>2. PICK s \in saves : WriteSave(s)
    BY <2>1 DEF Overwritten, Next, Devhost, Page, Person, Open, Close, Revert, Save, LoadDiskVersion, Select, Change,
       TakeFiles, TakeAnswer, ReceiveHealth, LoseHealth, handleConfigFiles, CompareSave, WriteOutside, BeginReload,
       FinishReload, vars, stack
  <2>3. s.path = f /\ s.answer.kind = "checked"
    BY <2>2 DEF WriteSave, Overwritten, TypeInv, TypeOK
  <2> QED
    BY <2>3 DEF SeenInv, CallInv, WasSeen
<1> QED
  BY <1>1, AlwaysTyped, AlwaysSeen, PTL DEF Spec, OverwritesSeen

-----------------------------------------------------------------------------
(* The chat view. *)

USE ChatViewAssumption

(* The agent is done with the message. *)
Out(c) == native[c] \in {"ran", "dropped"}
Answers(f, c) == f.type = "result" /\ f.of = c
Confirms(f, c) == Answers(f, c) /\ f.state = "queued"
Before == {"none", "first", "next"}

(* The agent runs messages in turns only, and Codex forgets what waits for a turn that ended. *)
AgentInv ==
  /\ \A c \in Commands : native[c] = "running" => turn # 0
  /\ Codex => \A c \in Commands : native[c] = "queued" =>
       c \in retried \/ (status = "running" /\ \A o \in Commands : native[o] # "first")
  /\ \A c, d \in Commands : native[c] \in {"first", "next"} /\ native[d] \in {"first", "next"} => c = d

(* What devhost recorded says how far each message came. *)
Told(c) ==
  CASE native[c] = "running" -> {"started"}
    [] native[c] = "ran"     -> {"completed"}
    [] native[c] = "queued"  -> IF Codex THEN {Nothing} ELSE {"queued"}
    [] native[c] = "dropped" -> {Nothing, "cancelled", "failed"}
    [] OTHER                 -> {Nothing}
RecordInv == record.status = status /\ \A c \in Commands : record.states[c] \in Told(c)

(* A message that was not sent is nowhere. *)
UnsentInv == \A c \in Commands : sent[c].state = "idle" => native[c] = "none" /\ way[c] = "none"
(* One is sent at a time, and it is on its way until its answer is. *)
SendingInv == \A c \in Commands : sent[c].state = "sending" =>
  /\ (way[c] = "here" /\ native[c] \in Before) \/ \E i \in 1..Len(frames) : Answers(frames[i], c)
  /\ \A d \in Commands : sent[d].state = "sending" => c = d
(* devhost answers what the agent has answered. *)
AnswerInv == \A c \in Commands :
  /\ \A i \in 1..Len(frames) : Answers(frames[i], c) => native[c] \notin Before
  /\ sent[c].state = "queued" \/ (\E i \in 1..Len(frames) : Confirms(frames[i], c)) =>
       native[c] \notin Before /\ (Codex \/ record.states[c] # Nothing)

(* A view shows a message as over, or the agent as idle, only if the message is or waits for a turn of its own. *)
Fair(v, c) == v.states[c] \in {"completed", "cancelled", "failed"} => Out(c)
Known(v, c) ==
  /\ Codex \/ v.states[c] # Nothing
  /\ v.states[c] = Nothing /\ v.status = "idle" => Out(c) \/ c \in retried
(* What the page will have made of the frames under way, one after the other: honest of what it has been told. *)
Reads(v, f) == IF f.type = "result" THEN v ELSE Viewed(v, f)
Chain(vs, fs, v, w) ==
  /\ vs \in Seq(Views) /\ Len(vs) = Len(fs) + 1 /\ vs[1] = v /\ vs[Len(vs)] = w
  /\ \A i \in 1..Len(fs) : vs[i + 1] = Reads(vs[i], fs[i])
ToldBefore(fs, c, i) == sent[c].state = "queued" \/ \E j \in 1..Len(fs) : j < i /\ Confirms(fs[j], c)
Honest(vs, fs) == \A i \in 1..Len(vs), c \in Commands : Fair(vs[i], c) /\ (ToldBefore(fs, c, i) => Known(vs[i], c))
ReplayInv == \E vs : Chain(vs, frames, view, record) /\ Honest(vs, frames)
Confirmed(fs, c) == sent[c].state = "queued" \/ \E j \in 1..Len(fs) : Confirms(fs[j], c)
RecordHonest == \A c \in Commands : Fair(record, c) /\ (Confirmed(frames, c) => Known(record, c))

(* The panel awaits a reply only as long as there is something to come. *)
Sees(b) == b.isPending => b.hasStarted
IsRunning(f) == f.type = "state" /\ f.status = "running"
Comes(c) == \E i \in 1..Len(frames) : IsRunning(frames[i]) /\ \A j \in 1..i : ~Answers(frames[j], c)
BoundaryInv ==
  /\ ~isPreparing /\ boundary.isPending /\ view.status # "running" =>
       ~boundary.hasStarted /\ ~HasReply(boundary, view)
  /\ breaks = 0 =>
       /\ boundary.isPending => isPreparing \/ (boundary.hasStarted /\ view.status = "running")
       /\ isPreparing => Sees(previous)
       /\ \A c \in Commands : sent[c].state = "sending" /\ native[c] # "none" => Sees(boundary) \/ Comes(c)

-----------------------------------------------------------------------------
(* Types. *)
Opt(S) == {<<>>} \cup {<<x>> : x \in S}

(* y is s with the frame x, if there is one, put at the end. *)
Joins(y, s, x, S, T) ==
  /\ y \in Seq(S) /\ Len(s) \in Nat /\ Len(y) \in Nat /\ Len(s) <= Len(y)
  /\ \A i \in 1..Len(s) : i \in 1..Len(y) /\ y[i] = s[i]
  /\ \A i \in 1..Len(y) : i \in 1..Len(s) \/ (x # <<>> /\ i = Len(s) + 1 /\ y[i] = x[1])
  /\ x = <<>> => y = s
  /\ x # <<>> => x[1] \in T /\ Len(s) + 1 \in 1..Len(y) /\ y[Len(s) + 1] = x[1]

LEMMA Joined ==
  ASSUME NEW S, NEW s \in Seq(S), NEW T \in SUBSET S, NEW x \in Opt(T)
  PROVE  Joins(s \o x, s, x, S, T)
<1> DEFINE y == s \o x
<1> SUFFICES Joins(y, s, x, S, T)
  OBVIOUS
<1>1. CASE x = <<>>
  <2>1. y = s /\ Len(s) \in Nat
    BY <1>1
  <2> QED
    BY <1>1, <2>1 DEF Joins
<1>2. CASE x # <<>>
  <2>1. PICK t \in T : x = <<t>>
    BY <1>2 DEF Opt
  <2>2. y = Append(s, t) /\ x[1] = t /\ Len(s) \in Nat
    BY <2>1
  <2>3. Append(s, t) \in Seq(S) /\ Len(Append(s, t)) = Len(s) + 1 /\ Append(s, t)[Len(s) + 1] = t
        /\ \A i \in 1..Len(s) : Append(s, t)[i] = s[i]
    OBVIOUS
  <2>4. Len(s) <= Len(s) + 1 /\ Len(s) + 1 \in Nat /\ Len(s) + 1 \in 1..(Len(s) + 1)
        /\ \A i \in 1..Len(s) : i \in 1..(Len(s) + 1)
    BY <2>2
  <2>5. \A i \in 1..(Len(s) + 1) : i \in 1..Len(s) \/ i = Len(s) + 1
    BY <2>2
  <2> QED
    BY <1>2, <2>1, <2>2, <2>3, <2>4, <2>5 DEF Joins
<1> QED
  BY <1>1, <1>2

LEMMA StatesType ==
  ASSUME NEW states \in [Commands -> Deliveries \cup {Nothing}], NEW e \in Facts
  PROVE  States(states, e) \in [Commands -> Deliveries \cup {Nothing}]
<1>1. ASSUME e.kind \in {"queued", "started", "completed"}
      PROVE  Advance(states, e.of, e.kind) \in [Commands -> Deliveries \cup {Nothing}]
  BY <1>1 DEF Advance, Deliveries
<1>2. Cancelled(states, e.of) \in [Commands -> Deliveries \cup {Nothing}]
  BY DEF Cancelled, Deliveries
<1>3. [states EXCEPT ![e.of] = "failed"] \in [Commands -> Deliveries \cup {Nothing}]
  BY DEF Deliveries
<1>4. FinishStarted(states) \in [Commands -> Deliveries \cup {Nothing}]
  BY DEF FinishStarted, Deliveries
<1> QED
  BY <1>1, <1>2, <1>3, <1>4 DEF States

LEMMA MessagesType ==
  ASSUME NEW messages \in SUBSET AllMessages, NEW e \in Facts
  PROVE  Messages(messages, e) \in SUBSET AllMessages
<1>1. [id |-> e.id, turn |-> e.turn, isText |-> e.isText, status |-> "running"] \in AllMessages
  BY DEF Facts, AllMessages
<1>2. ASSUME NEW m \in AllMessages
      PROVE  [m EXCEPT !.status = "complete"] \in AllMessages /\ Ended(m, e) \in AllMessages
  BY DEF AllMessages, Ended, Ending
<1> QED
  BY <1>1, <1>2 DEF Messages

LEMMA FoldType == ASSUME NEW v \in Views, NEW e \in Facts PROVE Folded(v, e) \in Views
<1>1. States(v.states, e) \in [Commands -> Deliveries \cup {Nothing}]
  BY StatesType DEF Views
<1>2. Messages(v.messages, e) \in SUBSET AllMessages
  BY MessagesType DEF Views
<1>3. (IF Codex /\ e.kind = "ended" /\ e.how = "interrupted" THEN v.interrupts + 1 ELSE v.interrupts) \in Nat
  BY DEF Views
<1> DEFINE n == IF Codex /\ e.kind = "ended" /\ e.how = "interrupted" THEN v.interrupts + 1 ELSE v.interrupts
<1>4. Folded(v, e) = [v EXCEPT !.messages = Messages(v.messages, e), !.states = States(v.states, e), !.interrupts = n]
  BY DEF Folded, Views
<1> HIDE DEF n
<1>5. n \in Nat
  BY <1>3 DEF n
<1> QED
  BY <1>1, <1>2, <1>4, <1>5 DEF Views

LEMMA ViewedType ==
  ASSUME NEW v \in Views, NEW f \in EventFrames \cup StateFrames PROVE Viewed(v, f) \in Views
<1>1. CASE f \in EventFrames
  BY <1>1, FoldType DEF Viewed, EventFrames
<1>2. CASE f \in StateFrames
  BY <1>2 DEF Viewed, StateFrames, Views
<1> QED
  BY <1>1, <1>2

LEMMA AwaitedType ==
  ASSUME NEW b \in Boundaries, NEW v, NEW busy PROVE Awaited(b, v, busy) \in Boundaries
  BY DEF Awaited, Boundaries

-----------------------------------------------------------------------------
(* What the agent's steps record and send. *)
Speaks(e, s, r) ==
  /\ e \in Opt(EventFrames) /\ s \in Opt(StateFrames) /\ r \in Opt(ResultFrames)
  /\ Broadcast(e, s, r) /\ UNCHANGED <<harness, view, sent, panel, breaks>>
Drops(c, kind) == ~Codex /\ native[c] = "queued" /\ Speaks(Event(Of(kind, c)), <<>>, <<>>)
Acts ==
  \/ Said \/ (\E isText \in BOOLEAN : Say(isText))
  \/ (\E how \in {"completed", "interrupted", "failed"} : End(how))
  \/ \E c \in Commands : Dispatch(c) \/ Acknowledge(c) \/ Refuse(c) \/ Pick(c) \/ Discard(c) \/ Stop(c)

LEMMA FactTypes ==
  /\ \A c \in Commands, kind \in {"queued", "started", "completed", "cancelled", "refused"} : Event(Of(kind, c)) \in Opt(EventFrames)
  /\ \A t, i \in Nat, isText \in BOOLEAN :
       Event([Blank EXCEPT !.kind = "item", !.turn = t, !.id = i, !.isText = isText]) \in Opt(EventFrames)
  /\ \A t, i \in Nat : Event([Blank EXCEPT !.kind = "itemDone", !.turn = t, !.id = i]) \in Opt(EventFrames)
  /\ \A t \in Nat, how \in {"completed", "interrupted", "failed"} :
       Event([Blank EXCEPT !.kind = "ended", !.turn = t, !.how = how]) \in Opt(EventFrames)
  /\ \A st \in {"idle", "running"} : State(st) \in Opt(StateFrames)
  /\ <<>> \in Opt(EventFrames) /\ <<>> \in Opt(StateFrames) /\ <<>> \in Opt(ResultFrames)
  /\ \A c \in Commands, st \in {"queued", "failed"} : Result(c, st) \in Opt(ResultFrames)
<1>1. \A x \in EventFrames : <<x>> \in Opt(EventFrames)
  BY DEF Opt
<1>2. \A x \in StateFrames : <<x>> \in Opt(StateFrames)
  BY DEF Opt
<1>3. \A x \in ResultFrames : <<x>> \in Opt(ResultFrames)
  BY DEF Opt
<1>4. \A e \in Facts : [type |-> "event", event |-> e] \in EventFrames
  BY DEF EventFrames
<1>5. \A c \in Commands, kind \in {"queued", "started", "completed", "cancelled", "refused"} : Of(kind, c) \in Facts
  BY DEF Of, Blank, Facts
<1>6. \A t, i \in Nat, isText \in BOOLEAN : [Blank EXCEPT !.kind = "item", !.turn = t, !.id = i, !.isText = isText] \in Facts
  BY DEF Blank, Facts
<1>7. \A t, i \in Nat : [Blank EXCEPT !.kind = "itemDone", !.turn = t, !.id = i] \in Facts
  BY DEF Blank, Facts
<1>8. \A t \in Nat, how \in {"completed", "interrupted", "failed"} : [Blank EXCEPT !.kind = "ended", !.turn = t, !.how = how] \in Facts
  BY DEF Blank, Facts
<1>9. \A st \in {"idle", "running"} : State(st) \in Opt(StateFrames)
  BY <1>2 DEF State, StateFrames
<1>10. \A c \in Commands, st \in {"queued", "failed"} : Result(c, st) \in Opt(ResultFrames)
  <2> SUFFICES ASSUME NEW c \in Commands, NEW st \in {"queued", "failed"} PROVE Result(c, st) \in Opt(ResultFrames)
    OBVIOUS
  <2>1. [type |-> "result", of |-> c, state |-> st] \in ResultFrames
    BY DEF ResultFrames
  <2> QED
    BY <1>3, <2>1 DEF Result, Opt
<1>11. <<>> \in Opt(EventFrames) /\ <<>> \in Opt(StateFrames) /\ <<>> \in Opt(ResultFrames)
  BY DEF Opt
<1>12. \A c \in Commands, kind \in {"queued", "started", "completed", "cancelled", "refused"} : Event(Of(kind, c)) \in Opt(EventFrames)
  BY <1>1, <1>4, <1>5 DEF Event
<1>13. \A t, i \in Nat, isText \in BOOLEAN :
         Event([Blank EXCEPT !.kind = "item", !.turn = t, !.id = i, !.isText = isText]) \in Opt(EventFrames)
  BY <1>1, <1>4, <1>6 DEF Event
<1>14. \A t, i \in Nat : Event([Blank EXCEPT !.kind = "itemDone", !.turn = t, !.id = i]) \in Opt(EventFrames)
  BY <1>1, <1>4, <1>7 DEF Event
<1>15. \A t \in Nat, how \in {"completed", "interrupted", "failed"} :
         Event([Blank EXCEPT !.kind = "ended", !.turn = t, !.how = how]) \in Opt(EventFrames)
  BY <1>1, <1>4, <1>8 DEF Event
<1> QED
  BY <1>9, <1>10, <1>11, <1>12, <1>13, <1>14, <1>15

LEMMA Counters == ASSUME ViewTypeOK PROVE turn \in Nat /\ turns \in Nat /\ items \in Nat /\ items + 1 \in Nat /\ breaks \in Nat
<1>1. turn \in 0..turns /\ turns \in 0..MaxTurns /\ items \in 0..MaxItems /\ breaks \in 0..MaxBreaks
  BY DEF ViewTypeOK
<1> QED
  BY <1>1

LEMMA ActsSpeak ==
  ASSUME ViewTypeOK
  PROVE  /\ Said => \E e \in Opt(EventFrames) : e # <<>> /\ e[1].event.kind = "itemDone" /\ Speaks(e, <<>>, <<>>)
         /\ \A isText \in BOOLEAN : Say(isText) =>
              \E e \in Opt(EventFrames) : e # <<>> /\ e[1].event.kind = "item" /\ Speaks(e, <<>>, <<>>)
         /\ \A how \in {"completed", "interrupted", "failed"} : End(how) =>
              \E e \in Opt(EventFrames) : e # <<>> /\ e[1].event.kind = "ended" /\ Speaks(e, State("idle"), <<>>)
         /\ \A c \in Commands :
              /\ Dispatch(c) => Speaks(<<>>, State("running"), <<>>)
              /\ Acknowledge(c) => Speaks(IF Codex THEN <<>> ELSE Event(Of("queued", c)), <<>>, Result(c, "queued"))
              /\ Refuse(c) => Speaks(<<>>, IF native[c] = "first" THEN State("idle") ELSE <<>>, Result(c, "failed"))
              /\ Pick(c) => Speaks(Event(Of("started", c)), State("running"), <<>>)
              /\ Discard(c) => Drops(c, "cancelled") \/ Drops(c, "refused")
              /\ Stop(c) => \E kind \in {"completed", "cancelled"} : Speaks(Event(Of(kind, c)), <<>>, <<>>)
<1>1. turn \in Nat /\ items \in Nat /\ items + 1 \in Nat
  BY Counters
<1> USE FactTypes
<1>2. \A x : Event(x) # <<>> /\ Event(x)[1].event = x
  BY DEF Event
<1>3. ASSUME Said PROVE \E e \in Opt(EventFrames) : e # <<>> /\ e[1].event.kind = "itemDone" /\ Speaks(e, <<>>, <<>>)
  <2> DEFINE x == [Blank EXCEPT !.kind = "itemDone", !.turn = turn, !.id = items]
  <2>1. Broadcast(Event(x), <<>>, <<>>) /\ UNCHANGED <<harness, view, sent, panel, breaks>>
    BY <1>3 DEF Said
  <2>2. x.kind = "itemDone" /\ Event(x) \in Opt(EventFrames)
    BY <1>1 DEF Blank
  <2> QED
    BY <1>2, <2>1, <2>2 DEF Speaks
<1>4. ASSUME NEW isText \in BOOLEAN, Say(isText)
      PROVE \E e \in Opt(EventFrames) : e # <<>> /\ e[1].event.kind = "item" /\ Speaks(e, <<>>, <<>>)
  <2> DEFINE x == [Blank EXCEPT !.kind = "item", !.turn = turn, !.id = items + 1, !.isText = isText]
  <2>1. Broadcast(Event(x), <<>>, <<>>) /\ UNCHANGED <<harness, view, sent, panel, breaks>>
    BY <1>4 DEF Say
  <2>2. x.kind = "item" /\ Event(x) \in Opt(EventFrames)
    BY <1>1 DEF Blank
  <2> QED
    BY <1>2, <2>1, <2>2 DEF Speaks
<1>5. ASSUME NEW how \in {"completed", "interrupted", "failed"}, End(how)
      PROVE \E e \in Opt(EventFrames) : e # <<>> /\ e[1].event.kind = "ended" /\ Speaks(e, State("idle"), <<>>)
  <2> DEFINE x == [Blank EXCEPT !.kind = "ended", !.turn = turn, !.how = how]
  <2>1. Broadcast(Event(x), State("idle"), <<>>) /\ UNCHANGED <<harness, view, sent, panel, breaks>>
    BY <1>5 DEF End
  <2>2. x.kind = "ended" /\ Event(x) \in Opt(EventFrames)
    BY <1>1 DEF Blank
  <2>3. Speaks(Event(x), State("idle"), <<>>)
    BY <2>1, <2>2 DEF Speaks
  <2> HIDE DEF x
  <2> QED
    BY <1>2, <2>2, <2>3
<1>6. ASSUME NEW c \in Commands
      PROVE /\ Dispatch(c) => Speaks(<<>>, State("running"), <<>>)
            /\ Acknowledge(c) => Speaks(IF Codex THEN <<>> ELSE Event(Of("queued", c)), <<>>, Result(c, "queued"))
            /\ Refuse(c) => Speaks(<<>>, IF native[c] = "first" THEN State("idle") ELSE <<>>, Result(c, "failed"))
            /\ Pick(c) => Speaks(Event(Of("started", c)), State("running"), <<>>)
            /\ Discard(c) => Drops(c, "cancelled") \/ Drops(c, "refused")
            /\ Stop(c) => \E kind \in {"completed", "cancelled"} : Speaks(Event(Of(kind, c)), <<>>, <<>>)
  <2>1. Dispatch(c) => Speaks(<<>>, State("running"), <<>>)
    BY DEF Dispatch, Speaks
  <2>2. Acknowledge(c) => Speaks(IF Codex THEN <<>> ELSE Event(Of("queued", c)), <<>>, Result(c, "queued"))
    BY DEF Acknowledge, Speaks
  <2>3. Refuse(c) => Speaks(<<>>, IF native[c] = "first" THEN State("idle") ELSE <<>>, Result(c, "failed"))
    BY DEF Refuse, Speaks
  <2>4. Pick(c) => Speaks(Event(Of("started", c)), State("running"), <<>>)
    BY DEF Pick, Speaks
  <2>5. Discard(c) => Drops(c, "cancelled") \/ Drops(c, "refused")
    BY DEF Discard, Speaks, Drops
  <2>6. Stop(c) => \E kind \in {"completed", "cancelled"} : Speaks(Event(Of(kind, c)), <<>>, <<>>)
    BY DEF Stop, Speaks
  <2> QED
    BY <2>1, <2>2, <2>3, <2>4, <2>5, <2>6
<1> QED
  BY <1>3, <1>4, <1>5, <1>6

(* A frame recorded and sent changes the status and the deliveries; what was on its way stays. *)
LEMMA Recorded ==
  ASSUME record \in Views, frames \in Seq(Frames),
         NEW e \in Opt(EventFrames), NEW s \in Opt(StateFrames), NEW r \in Opt(ResultFrames), Broadcast(e, s, r)
  PROVE  /\ record' \in Views
         /\ record'.status = IF s = <<>> THEN record.status ELSE s[1].status
         /\ record'.states = IF e = <<>> THEN record.states ELSE States(record.states, e[1].event)
<1> DEFINE told == IF e = <<>> THEN record ELSE Viewed(record, e[1])
<1>1. e # <<>> => e[1] \in EventFrames
  BY DEF Opt
<1>2. s # <<>> => s[1] \in StateFrames
  BY DEF Opt
<1>3. told \in Views /\ told.status = record.status
      /\ told.states = IF e = <<>> THEN record.states ELSE States(record.states, e[1].event)
  <2>1. CASE e = <<>>
    BY <2>1
  <2>2. CASE e # <<>>
    <3>1. Viewed(record, e[1]) = Folded(record, e[1].event)
      BY <1>1, <2>2 DEF Viewed, EventFrames
    <3>2. Folded(record, e[1].event).status = record.status
          /\ Folded(record, e[1].event).states = States(record.states, e[1].event)
      BY DEF Folded, Views
    <3>3. Viewed(record, e[1]) \in Views
      BY <1>1, <2>2, ViewedType
    <3> QED
      BY <2>2, <3>1, <3>2, <3>3
  <2> QED
    BY <2>1, <2>2
<1>4. record' = IF s = <<>> THEN told ELSE Viewed(told, s[1])
  BY DEF Broadcast
<1> HIDE DEF told
<1>5. CASE s = <<>>
  BY <1>3, <1>4, <1>5
<1>6. CASE s # <<>>
  <2>1. Viewed(told, s[1]) = [told EXCEPT !.status = s[1].status]
    BY <1>2, <1>6 DEF Viewed, StateFrames
  <2>2. Viewed(told, s[1]) \in Views
    BY <1>2, <1>3, <1>6, ViewedType
  <2> QED
    BY <1>3, <1>4, <1>6, <2>1, <2>2 DEF Views
<1> QED
  BY <1>5, <1>6

LEMMA SentOn ==
  ASSUME frames \in Seq(Frames),
         NEW e \in Opt(EventFrames), NEW s \in Opt(StateFrames), NEW r \in Opt(ResultFrames), Broadcast(e, s, r)
  PROVE  /\ frames' \in Seq(Frames) /\ Len(frames') \in Nat /\ Len(frames) \in Nat /\ Len(frames) <= Len(frames')
         /\ \A i \in 1..Len(frames) : frames'[i] = frames[i]
         /\ \A i \in 1..Len(frames') : i \in 1..Len(frames)
              \/ (e # <<>> /\ frames'[i] = e[1]) \/ (s # <<>> /\ frames'[i] = s[1]) \/ (r # <<>> /\ frames'[i] = r[1])
         /\ s # <<>> => \E i \in 1..Len(frames') : frames'[i] = s[1]
              /\ \A j \in 1..i : j \in 1..Len(frames) \/ (e # <<>> /\ frames'[j] = e[1]) \/ frames'[j] = s[1]
         /\ r # <<>> => \E i \in 1..Len(frames') : frames'[i] = r[1]
<1> DEFINE a == frames \o e
           b == a \o s
           z == b \o r
<1>1. frames' = z
  BY DEF Broadcast
<1>2. EventFrames \in SUBSET Frames /\ StateFrames \in SUBSET Frames /\ ResultFrames \in SUBSET Frames
  BY DEF Frames
<1>3. a = frames \o e /\ b = a \o s /\ z = b \o r
  OBVIOUS
<1> HIDE DEF a, b, z
<1>4. Joins(a, frames, e, Frames, EventFrames)
  BY <1>2, <1>3, Joined
<1>5. Joins(b, a, s, Frames, StateFrames)
  <2>1. a \in Seq(Frames)
    BY <1>4 DEF Joins
  <2> QED
    BY <1>2, <1>3, <2>1, Joined
<1>6. Joins(frames', b, r, Frames, ResultFrames)
  <2>1. b \in Seq(Frames)
    BY <1>5 DEF Joins
  <2> QED
    BY <1>1, <1>2, <1>3, <2>1, Joined
<1>7. Len(frames) <= Len(frames')
  BY <1>4, <1>5, <1>6 DEF Joins
<1>8. \A i \in 1..Len(frames) : frames'[i] = frames[i]
  BY <1>4, <1>5, <1>6 DEF Joins
<1>9. \A i \in 1..Len(a) : i \in 1..Len(frames) \/ (e # <<>> /\ frames'[i] = e[1])
  BY <1>4, <1>5, <1>6 DEF Joins
<1>10. \A i \in 1..Len(frames') : i \in 1..Len(frames)
         \/ (e # <<>> /\ frames'[i] = e[1]) \/ (s # <<>> /\ frames'[i] = s[1]) \/ (r # <<>> /\ frames'[i] = r[1])
  BY <1>5, <1>6, <1>9 DEF Joins
<1>11. ASSUME s # <<>> PROVE \E i \in 1..Len(frames') : frames'[i] = s[1]
         /\ \A j \in 1..i : j \in 1..Len(frames) \/ (e # <<>> /\ frames'[j] = e[1]) \/ frames'[j] = s[1]
  <2>1. Len(a) + 1 \in 1..Len(frames') /\ frames'[Len(a) + 1] = s[1]
    BY <1>5, <1>6, <1>11 DEF Joins
  <2>2. \A j \in 1..(Len(a) + 1) : j \in 1..Len(a) \/ j = Len(a) + 1
    BY <1>4 DEF Joins
  <2> QED
    BY <1>9, <2>1, <2>2
<1>12. r # <<>> => \E i \in 1..Len(frames') : frames'[i] = r[1]
  BY <1>6 DEF Joins
<1> QED
  BY <1>4, <1>6, <1>7, <1>8, <1>10, <1>11, <1>12 DEF Joins

AgentTypes ==
  /\ native \in [Commands -> {"none", "first", "next", "queued", "running", "ran", "dropped"}]
  /\ retried \subseteq Commands /\ saying \in BOOLEAN /\ status \in {"idle", "running"}
  /\ turn \in 0..turns /\ turns \in 0..MaxTurns /\ items \in 0..MaxItems
  /\ way \in [Commands -> {"none", "here", "adrift"}]
PanelTypes ==
  /\ harness \in {"codex", "claude-code"}
  /\ frames \in Seq(Frames) /\ record \in Views /\ view \in Views
  /\ sent \in [Commands -> [state : {"idle", "sending", "queued", "failed", "unconfirmed"}, after : Nat]]
  /\ boundary \in Boundaries /\ previous \in Boundaries
  /\ tracked \in Commands \cup {Nothing} /\ breaks \in 0..MaxBreaks

LEMMA AllTypes == (ViewTypeOK <=> AgentTypes /\ PanelTypes) /\ (ViewTypeOK' <=> AgentTypes' /\ PanelTypes')
  BY DEF ViewTypeOK, AgentTypes, PanelTypes

LEMMA SpokenTypes ==
  ASSUME PanelTypes, NEW e, NEW s, NEW r, Speaks(e, s, r) PROVE PanelTypes'
<1>1. frames' \in Seq(Frames)
  BY SentOn DEF PanelTypes, Speaks
<1>2. record' \in Views
  BY Recorded DEF PanelTypes, Speaks
<1> QED
  BY <1>1, <1>2 DEF PanelTypes, Speaks, panel

LEMMA ActTypes == ASSUME ViewTypeOK, Acts PROVE ViewTypeOK'
<1> SUFFICES AgentTypes' /\ PanelTypes'
  BY AllTypes
<1>1. AgentTypes /\ PanelTypes
  BY AllTypes
<1>2. turn \in Nat /\ turns \in Nat /\ items \in Nat /\ turns <= MaxTurns /\ items <= MaxItems
  BY <1>1, Counters DEF AgentTypes
<1>3. CASE Said
  BY <1>1, <1>3, ActsSpeak, SpokenTypes DEF Said, AgentTypes
<1>4. ASSUME NEW isText \in BOOLEAN, Say(isText) PROVE AgentTypes' /\ PanelTypes'
  <2>1. PanelTypes'
    BY <1>1, <1>4, ActsSpeak, SpokenTypes
  <2>2. items' \in 0..MaxItems
    BY <1>2, <1>4 DEF Say
  <2> QED
    BY <1>1, <1>4, <2>1, <2>2 DEF Say, AgentTypes
<1>5. ASSUME NEW how \in {"completed", "interrupted", "failed"}, End(how) PROVE AgentTypes' /\ PanelTypes'
  <2>1. PanelTypes'
    BY <1>1, <1>5, ActsSpeak, SpokenTypes
  <2>2. turn' \in 0..turns
    BY <1>2, <1>5 DEF End
  <2>3. native' \in [Commands -> {"none", "first", "next", "queued", "running", "ran", "dropped"}]
    BY <1>1, <1>5 DEF End, AgentTypes
  <2> QED
    BY <1>1, <1>5, <2>1, <2>2, <2>3 DEF End, AgentTypes
<1>6. ASSUME NEW c \in Commands, Dispatch(c) PROVE AgentTypes' /\ PanelTypes'
  BY <1>1, <1>6, ActsSpeak, SpokenTypes DEF Dispatch, AgentTypes
<1>7. ASSUME NEW c \in Commands, Acknowledge(c) PROVE AgentTypes' /\ PanelTypes'
  <2>1. PanelTypes'
    BY <1>1, <1>7, ActsSpeak, SpokenTypes
  <2> QED
    BY <1>1, <1>7, <2>1 DEF Acknowledge, AgentTypes
<1>8. ASSUME NEW c \in Commands, Refuse(c) PROVE AgentTypes' /\ PanelTypes'
  <2>1. PanelTypes'
    BY <1>1, <1>8, ActsSpeak, SpokenTypes
  <2> QED
    BY <1>1, <1>8, <2>1 DEF Refuse, AgentTypes
<1>9. ASSUME NEW c \in Commands, Pick(c) PROVE AgentTypes' /\ PanelTypes'
  <2>1. PanelTypes'
    BY <1>1, <1>9, ActsSpeak, SpokenTypes
  <2>2. turns' \in 0..MaxTurns /\ turn' \in 0..turns'
    BY <1>1, <1>2, <1>9 DEF Pick, AgentTypes
  <2> QED
    BY <1>1, <1>9, <2>1, <2>2 DEF Pick, AgentTypes
<1>10. ASSUME NEW c \in Commands, Discard(c) PROVE AgentTypes' /\ PanelTypes'
  <2>1. PanelTypes'
    BY <1>1, <1>10, ActsSpeak, SpokenTypes DEF Drops
  <2> QED
    BY <1>1, <1>10, <2>1 DEF Discard, AgentTypes
<1>11. ASSUME NEW c \in Commands, Stop(c) PROVE AgentTypes' /\ PanelTypes'
  <2>1. PanelTypes'
    BY <1>1, <1>11, ActsSpeak, SpokenTypes
  <2> QED
    BY <1>1, <1>11, <2>1 DEF Stop, AgentTypes
<1> QED
  BY <1>3, <1>4, <1>5, <1>6, <1>7, <1>8, <1>9, <1>10, <1>11 DEF Acts

LEMMA NextActs == ViewNext => Acts \/ Receive \/ Reconnect \/ Interrupt \/ \E c \in Commands : Send(c)
  BY DEF ViewNext, Acts

(* A state of the panel that is typed is typed after each of its steps. *)
LEMMA FirstFrame ==
  ASSUME PanelTypes, frames # <<>>
  PROVE  /\ Head(frames) = frames[1] /\ Head(frames) \in Frames /\ Tail(frames) \in Seq(Frames)
         /\ Len(frames) \in Nat /\ Len(frames) >= 1 /\ Len(Tail(frames)) = Len(frames) - 1
         /\ \A i \in 1..Len(Tail(frames)) : i + 1 \in 1..Len(frames) /\ Tail(frames)[i] = frames[i + 1]
  BY DEF PanelTypes

LEMMA ReceiveTypes ==
  ASSUME ViewTypeOK, Receive PROVE ViewTypeOK'
<1>1. AgentTypes /\ PanelTypes
  BY AllTypes
<1> DEFINE f == Head(frames)
<1>2. frames # <<>> /\ frames' = Tail(frames)
  BY DEF Receive
<1>3. f \in Frames /\ frames' \in Seq(Frames)
  BY <1>1, <1>2, FirstFrame
<1>4. f.type # "result" => f \in EventFrames \cup StateFrames
  BY <1>3 DEF Frames, ResultFrames
<1>5. f.type = "result" => f \in ResultFrames
  BY <1>3 DEF Frames, EventFrames, StateFrames
<1>6. CASE f.type = "result"
  <2>1. f.of \in Commands /\ f.state \in {"queued", "failed"}
    BY <1>5, <1>6 DEF ResultFrames
  <2>2. CASE sent[f.of].state = "sending"
    <3>1. Settle(f.of, f.state) /\ UNCHANGED <<view, harness, agent, record, way, previous, breaks>>
      BY <1>6, <2>2 DEF Receive
    <3>2. boundary' \in Boundaries /\ tracked' \in Commands \cup {Nothing}
      BY <1>1, <2>1, <3>1, AwaitedType DEF Settle, PanelTypes
    <3>3. sent' \in [Commands -> [state : {"idle", "sending", "queued", "failed", "unconfirmed"}, after : Nat]]
      BY <1>1, <2>1, <3>1 DEF Settle, PanelTypes
    <3> QED
      BY <1>1, <1>3, <1>2, <3>1, <3>2, <3>3, AllTypes DEF PanelTypes, AgentTypes, agent
  <2>3. CASE sent[f.of].state # "sending"
    <3>1. UNCHANGED <<view, sent, boundary, tracked, harness, agent, record, way, previous, breaks>>
      BY <1>6, <2>3 DEF Receive
    <3> QED
      BY <1>1, <1>3, <1>2, <3>1, AllTypes DEF PanelTypes, AgentTypes, agent
  <2> QED
    BY <2>2, <2>3
<1>7. CASE f.type # "result"
  <2>1. view' = Viewed(view, f) /\ boundary' = Awaited(boundary, Viewed(view, f), isPreparing)
        /\ UNCHANGED <<sent, tracked, harness, agent, record, way, previous, breaks>>
    BY <1>7 DEF Receive
  <2>2. view' \in Views /\ boundary' \in Boundaries
    BY <1>1, <1>4, <1>7, <2>1, ViewedType, AwaitedType DEF PanelTypes
  <2> QED
    BY <1>1, <1>3, <1>2, <2>1, <2>2, AllTypes DEF PanelTypes, AgentTypes, agent
<1> QED
  BY <1>6, <1>7

LEMMA ReconnectTypes ==
  ASSUME ViewTypeOK, Reconnect PROVE ViewTypeOK'
<1>1. AgentTypes /\ PanelTypes
  BY AllTypes
<1>2. breaks' \in 0..MaxBreaks
  BY Counters DEF Reconnect
<1>3. frames' \in Seq(Frames)
  BY DEF Reconnect
<1>4. sent' \in [Commands -> [state : {"idle", "sending", "queued", "failed", "unconfirmed"}, after : Nat]]
  <2>1. sent \in [Commands -> [state : {"idle", "sending", "queued", "failed", "unconfirmed"}, after : Nat]]
    BY <1>1 DEF PanelTypes
  <2>2. sent' = [c \in Commands |-> IF sent[c].state = "sending" THEN [sent[c] EXCEPT !.state = "unconfirmed"] ELSE sent[c]]
    BY DEF Reconnect
  <2> QED
    BY <2>1, <2>2
<1>5. way' \in [Commands -> {"none", "here", "adrift"}]
  BY <1>1 DEF Reconnect, AgentTypes
<1>6. tracked' \in Commands \cup {Nothing}
  <2>1. isPreparing => (CHOOSE c \in Commands : sent[c].state = "sending") \in Commands
    BY DEF isPreparing
  <2> QED
    BY <1>1, <2>1 DEF Reconnect, PanelTypes
<1>7. view' \in Views /\ boundary' \in Boundaries
  BY <1>1, AwaitedType DEF Reconnect, PanelTypes
<1> QED
  BY <1>1, <1>2, <1>3, <1>4, <1>5, <1>6, <1>7, AllTypes DEF Reconnect, PanelTypes, AgentTypes, agent

LEMMA SendTypes ==
  ASSUME ViewTypeOK, NEW c \in Commands, Send(c) PROVE ViewTypeOK'
<1>1. AgentTypes /\ PanelTypes
  BY AllTypes
<1>2. sent' \in [Commands -> [state : {"idle", "sending", "queued", "failed", "unconfirmed"}, after : Nat]]
  <2>1. view.interrupts \in Nat
    BY <1>1 DEF PanelTypes, Views
  <2> QED
    BY <1>1, <2>1 DEF Send, PanelTypes
<1>3. way' \in [Commands -> {"none", "here", "adrift"}]
  BY <1>1 DEF Send, AgentTypes
<1>4. boundary' \in Boundaries
  <2>1. view.messages \in SUBSET AllMessages
    BY <1>1 DEF PanelTypes, Views
  <2> QED
    BY <2>1 DEF Send, Boundaries
<1> QED
  BY <1>1, <1>2, <1>3, <1>4, AllTypes DEF Send, PanelTypes, AgentTypes, agent, stream

LEMMA InterruptTypes == ASSUME ViewTypeOK, Interrupt PROVE ViewTypeOK'
<1>1. AgentTypes /\ PanelTypes
  BY AllTypes
<1>2. boundary' \in Boundaries
  BY <1>1 DEF Interrupt, PanelTypes, Boundaries
<1> QED
  BY <1>1, <1>2, AllTypes DEF Interrupt, PanelTypes, AgentTypes, agent, stream

LEMMA InitTypes == ViewInit => ViewTypeOK
<1> SUFFICES ASSUME ViewInit PROVE ViewTypeOK
  OBVIOUS
<1>1. view \in Views /\ record \in Views
  BY DEF ViewInit, Views
<1>2. NoBoundary \in Boundaries
  BY DEF NoBoundary, Boundaries
<1>3. frames \in Seq(Frames)
  BY DEF ViewInit
<1>4. sent \in [Commands -> [state : {"idle", "sending", "queued", "failed", "unconfirmed"}, after : Nat]]
  BY DEF ViewInit
<1>5. turn \in 0..turns /\ turns \in 0..MaxTurns /\ items \in 0..MaxItems /\ breaks \in 0..MaxBreaks
  BY DEF ViewInit
<1>6. AgentTypes
  BY <1>5 DEF ViewInit, AgentTypes
<1>7. PanelTypes
  BY <1>1, <1>2, <1>3, <1>4, <1>5 DEF ViewInit, PanelTypes
<1> QED
  BY <1>6, <1>7, AllTypes

LEMMA Stutter == UNCHANGED viewVars => UNCHANGED <<harness, native, retried, turn, turns, items, saying, status, record,
    frames, view, sent, way, boundary, previous, tracked, breaks>>
  BY DEF viewVars, agent, stream, panel

(* The state of the conversation, of the page and of what is on its way has its types. *)
THEOREM ViewTypeCorrect == ViewSpec => []ViewTypeOK
<1>1. ViewTypeOK /\ UNCHANGED viewVars => ViewTypeOK'
  BY Stutter DEF ViewTypeOK
<1>2. ViewTypeOK /\ ViewNext => ViewTypeOK'
  BY NextActs, ActTypes, ReceiveTypes, ReconnectTypes, InterruptTypes, SendTypes
<1> QED
  BY <1>1, <1>2, InitTypes, PTL DEF ViewSpec

-----------------------------------------------------------------------------
(* The agent, and what devhost recorded of it. *)
LEMMA Outside ==
  ASSUME ViewNext PROVE Acts \/ UNCHANGED <<harness, agent, record>>
  BY NextActs DEF Receive, Settle, Reconnect, Interrupt, Send, stream

LEMMA AgentInit == ViewInit => AgentInv /\ RecordInv
  BY DEF ViewInit, AgentInv, RecordInv, Told, Codex

LEMMA AgentStep == ASSUME ViewTypeOK, AgentInv, Acts PROVE AgentInv'
<1> USE DEF AgentInv, Codex
<1>1. turns \in Nat /\ turns + 1 # 0
  BY Counters
<1>2. native \in [Commands -> {"none", "first", "next", "queued", "running", "ran", "dropped"}] /\ status \in {"idle", "running"}
  BY DEF ViewTypeOK
<1>3. CASE Said
  BY <1>3 DEF Said
<1>4. ASSUME NEW isText \in BOOLEAN, Say(isText) PROVE AgentInv'
  BY <1>4 DEF Say
<1>5. ASSUME NEW how \in {"completed", "interrupted", "failed"}, End(how) PROVE AgentInv'
  BY <1>2, <1>5 DEF End
<1>6. ASSUME NEW c \in Commands, Dispatch(c) PROVE AgentInv'
  BY <1>2, <1>6 DEF Dispatch
<1>7. ASSUME NEW c \in Commands, Acknowledge(c) PROVE AgentInv'
  BY <1>2, <1>7 DEF Acknowledge
<1>8. ASSUME NEW c \in Commands, Refuse(c) PROVE AgentInv'
  BY <1>2, <1>8 DEF Refuse
<1>9. ASSUME NEW c \in Commands, Pick(c) PROVE AgentInv'
  BY <1>1, <1>2, <1>9 DEF Pick
<1>10. ASSUME NEW c \in Commands, Discard(c) PROVE AgentInv'
  BY <1>2, <1>10 DEF Discard
<1>11. ASSUME NEW c \in Commands, Stop(c) PROVE AgentInv'
  BY <1>2, <1>11 DEF Stop
<1> QED
  BY <1>3, <1>4, <1>5, <1>6, <1>7, <1>8, <1>9, <1>10, <1>11 DEF Acts

LEMMA RecordStep == ASSUME ViewTypeOK, AgentInv, RecordInv, Acts PROVE RecordInv'
<1>1. native \in [Commands -> {"none", "first", "next", "queued", "running", "ran", "dropped"}] /\ status \in {"idle", "running"}
      /\ record \in Views /\ frames \in Seq(Frames)
  BY DEF ViewTypeOK
<1>2. record.states \in [Commands -> Deliveries \cup {Nothing}]
  BY <1>1 DEF Views
<1>3. \A st \in {"idle", "running"} : State(st) # <<>> /\ State(st)[1].status = st
  BY DEF State
<1>4. ASSUME NEW c \in Commands, NEW kind \in {"queued", "started", "completed", "cancelled", "refused"}
      PROVE  Event(Of(kind, c)) # <<>>
             /\ States(record.states, Event(Of(kind, c))[1].event) =
                  IF kind \in {"queued", "started", "completed"} THEN Advance(record.states, c, kind)
                  ELSE IF kind = "cancelled" THEN Cancelled(record.states, c) ELSE [record.states EXCEPT ![c] = "failed"]
  <2>1. Event(Of(kind, c)) # <<>> /\ Event(Of(kind, c))[1].event = Of(kind, c)
    BY DEF Event
  <2>2. Of(kind, c).kind = kind /\ Of(kind, c).of = c
    BY DEF Of, Blank
  <2> HIDE DEF Of, Event
  <2> QED
    BY <2>1, <2>2 DEF States
<1>5. \A e, s, r : Speaks(e, s, r) =>
        /\ record'.status = (IF s = <<>> THEN record.status ELSE s[1].status)
        /\ record'.states = (IF e = <<>> THEN record.states ELSE States(record.states, e[1].event))
        /\ harness' = harness
  BY <1>1, Recorded DEF Speaks
<1> USE DEF RecordInv, Told, Codex
<1>6. ASSUME Said \/ \E isText \in BOOLEAN : Say(isText) PROVE RecordInv'
  <2>1. UNCHANGED <<native, status>>
    BY <1>6 DEF Said, Say
  <2>2. \E e \in Opt(EventFrames) : e # <<>> /\ e[1].event.kind \in {"item", "itemDone"} /\ Speaks(e, <<>>, <<>>)
    BY <1>6, ActsSpeak
  <2>3. record'.status = record.status /\ record'.states = record.states /\ harness' = harness
    BY <1>5, <2>2 DEF States
  <2> QED
    BY <2>1, <2>3
<1>7. ASSUME NEW how \in {"completed", "interrupted", "failed"}, End(how) PROVE RecordInv'
  <2>1. \E e \in Opt(EventFrames) : e # <<>> /\ e[1].event.kind = "ended" /\ Speaks(e, State("idle"), <<>>)
    BY <1>7, ActsSpeak
  <2>2. record'.status = "idle" /\ record'.states = FinishStarted(record.states) /\ harness' = harness
    BY <1>3, <1>5, <2>1 DEF States
  <2> QED
    BY <1>1, <1>2, <1>7, <2>2 DEF End, FinishStarted
<1>8. ASSUME NEW c \in Commands, Dispatch(c) PROVE RecordInv'
  <2>1. record'.status = "running" /\ record'.states = record.states /\ harness' = harness
    BY <1>3, <1>5, <1>8, ActsSpeak
  <2> QED
    BY <1>1, <1>2, <1>8, <2>1 DEF Dispatch
<1>9. ASSUME NEW c \in Commands, Acknowledge(c) PROVE RecordInv'
  <2>1. record'.status = record.status /\ harness' = harness
        /\ record'.states = IF Codex THEN record.states ELSE Advance(record.states, c, "queued")
    BY <1>4, <1>5, <1>9, ActsSpeak
  <2> QED
    BY <1>1, <1>2, <1>9, <2>1 DEF Acknowledge, Advance
<1>10. ASSUME NEW c \in Commands, Refuse(c) PROVE RecordInv'
  <2>1. record'.status = (IF native[c] = "first" THEN "idle" ELSE record.status)
        /\ record'.states = record.states /\ harness' = harness
    BY <1>3, <1>5, <1>10, ActsSpeak
  <2> QED
    BY <1>1, <1>2, <1>10, <2>1 DEF Refuse
<1>11. ASSUME NEW c \in Commands, Pick(c) PROVE RecordInv'
  <2>1. record'.status = "running" /\ record'.states = Advance(record.states, c, "started") /\ harness' = harness
    <3>1. Speaks(Event(Of("started", c)), State("running"), <<>>)
      BY <1>11, ActsSpeak
    <3> QED
      BY <1>3, <1>4, <1>5, <3>1
  <2> QED
    BY <1>1, <1>2, <1>11, <2>1 DEF Pick, Advance, Order
<1>12. ASSUME NEW c \in Commands, Discard(c) PROVE RecordInv'
  <2>1. record'.status = record.status /\ harness' = harness /\ ~Codex /\ native[c] = "queued"
        /\ (record'.states = Cancelled(record.states, c) \/ record'.states = [record.states EXCEPT ![c] = "failed"])
    BY <1>4, <1>5, <1>12, ActsSpeak DEF Drops
  <2> QED
    BY <1>1, <1>2, <1>12, <2>1 DEF Discard, Cancelled
<1>13. ASSUME NEW c \in Commands, Stop(c) PROVE RecordInv'
  <2>1. record'.status = record.status /\ harness' = harness
        /\ (record'.states = Cancelled(record.states, c) \/ record'.states = Advance(record.states, c, "completed"))
    <3>1. PICK kind \in {"completed", "cancelled"} : Speaks(Event(Of(kind, c)), <<>>, <<>>)
      BY <1>13, ActsSpeak
    <3> QED
      BY <1>4, <1>5, <3>1
  <2>2. record.states[c] = "started"
    BY <1>13 DEF Stop
  <2>3. record'.states = [record.states EXCEPT ![c] = "completed"]
    BY <2>1, <2>2 DEF Cancelled, Advance, Order
  <2> QED
    BY <1>1, <1>2, <1>13, <2>1, <2>3 DEF Stop
<1> QED
  BY <1>6, <1>7, <1>8, <1>9, <1>10, <1>11, <1>12, <1>13 DEF Acts

(* The agent runs messages in turns only, and the record says how far each came. *)
LEMMA RecordAlways == ViewSpec => [](AgentInv /\ RecordInv)
<1> USE DEF AgentInv, RecordInv, Told, Codex
<1>1. AgentInv /\ RecordInv /\ UNCHANGED <<harness, agent, record>> => (AgentInv /\ RecordInv)'
  BY DEF agent
<1>2. UNCHANGED viewVars => UNCHANGED <<harness, agent, record>>
  BY Stutter DEF agent
<1>3. ViewTypeOK /\ AgentInv /\ RecordInv /\ [ViewNext]_viewVars => (AgentInv /\ RecordInv)'
  BY <1>1, <1>2, Outside, AgentStep, RecordStep
<1> QED
  BY <1>3, AgentInit, ViewTypeCorrect, PTL DEF ViewSpec

-----------------------------------------------------------------------------
(* What was sent, and devhost's answers to it. *)
LEMMA ActsKeep ==
  ASSUME ViewTypeOK, Acts
  PROVE  /\ UNCHANGED <<harness, view, sent, panel, breaks>> /\ retried \subseteq retried'
         /\ \A c \in Commands :
              /\ native[c] \notin Before => native'[c] \notin Before
              /\ native[c] \in Before /\ native'[c] \notin Before => Acknowledge(c) \/ Refuse(c)
              /\ way'[c] # way[c] => way'[c] = "none" /\ (Acknowledge(c) \/ Refuse(c))
              /\ native'[c] # native[c] /\ native[c] = "none" => Dispatch(c)
              /\ Out(c) => Out(c)'
<1> USE DEF Before, Out
<1>1. /\ native \in [Commands -> {"none", "first", "next", "queued", "running", "ran", "dropped"}]
      /\ way \in [Commands -> {"none", "here", "adrift"}]
  BY DEF ViewTypeOK
<1> DEFINE Goal == /\ UNCHANGED <<harness, view, sent, panel, breaks>> /\ retried \subseteq retried'
                   /\ \A c \in Commands :
                        /\ native[c] \notin Before => native'[c] \notin Before
                        /\ native[c] \in Before /\ native'[c] \notin Before => Acknowledge(c) \/ Refuse(c)
                        /\ way'[c] # way[c] => way'[c] = "none" /\ (Acknowledge(c) \/ Refuse(c))
                        /\ native'[c] # native[c] /\ native[c] = "none" => Dispatch(c)
                        /\ Out(c) => Out(c)'
<1>2. CASE Said
  BY <1>1, <1>2 DEF Said
<1>3. ASSUME NEW isText \in BOOLEAN, Say(isText) PROVE Goal
  BY <1>1, <1>3 DEF Say
<1>4. ASSUME NEW how \in {"completed", "interrupted", "failed"}, End(how) PROVE Goal
  BY <1>1, <1>4 DEF End
<1>5. ASSUME NEW d \in Commands, Dispatch(d) PROVE Goal
  <2>1. UNCHANGED <<harness, view, sent, panel, breaks, retried, way>> /\ native[d] = "none"
        /\ (native' = [native EXCEPT ![d] = "first"] \/ native' = [native EXCEPT ![d] = "next"])
    BY <1>5 DEF Dispatch
  <2> QED
    BY <1>1, <1>5, <2>1
<1>6. ASSUME NEW d \in Commands, Acknowledge(d) PROVE Goal
  <2>1. UNCHANGED <<harness, view, sent, panel, breaks>> /\ native[d] \in {"first", "next"} /\ retried \subseteq retried'
        /\ native' = [native EXCEPT ![d] = "queued"] /\ way' = [way EXCEPT ![d] = "none"]
    BY <1>6 DEF Acknowledge
  <2> QED
    BY <1>1, <1>6, <2>1
<1>7. ASSUME NEW d \in Commands, Refuse(d) PROVE Goal
  <2>1. UNCHANGED <<harness, view, sent, panel, breaks, retried>> /\ native[d] \in {"first", "next"}
        /\ native' = [native EXCEPT ![d] = "dropped"] /\ way' = [way EXCEPT ![d] = "none"]
    BY <1>7 DEF Refuse
  <2> QED
    BY <1>1, <1>7, <2>1
<1>8. ASSUME NEW d \in Commands, Pick(d) PROVE Goal
  BY <1>1, <1>8 DEF Pick
<1>9. ASSUME NEW d \in Commands, Discard(d) PROVE Goal
  BY <1>1, <1>9 DEF Discard
<1>10. ASSUME NEW d \in Commands, Stop(d) PROVE Goal
  BY <1>1, <1>10 DEF Stop
<1> QED
  BY <1>2, <1>3, <1>4, <1>5, <1>6, <1>7, <1>8, <1>9, <1>10 DEF Acts

(* Every step of the agent speaks; only its answers are results. *)
Heard(r) == r # <<>> => \E c \in Commands :
  r[1].of = c /\ native'[c] \notin Before /\ (r[1].state = "queued" => native'[c] = "queued")
LEMMA ActsSay ==
  ASSUME ViewTypeOK, Acts
  PROVE  \E e, s, r : Speaks(e, s, r) /\ Heard(r)
<1> USE DEF Heard
<1>1. native \in [Commands -> {"none", "first", "next", "queued", "running", "ran", "dropped"}]
  BY DEF ViewTypeOK
<1>2. CASE Said
  BY <1>2, ActsSpeak
<1>3. ASSUME NEW isText \in BOOLEAN, Say(isText) PROVE \E e, s, r : Speaks(e, s, r) /\ Heard(r)
  BY <1>3, ActsSpeak
<1>4. ASSUME NEW how \in {"completed", "interrupted", "failed"}, End(how) PROVE \E e, s, r : Speaks(e, s, r) /\ Heard(r)
  BY <1>4, ActsSpeak
<1>5. ASSUME NEW d \in Commands, Dispatch(d) PROVE \E e, s, r : Speaks(e, s, r) /\ Heard(r)
  BY <1>5, ActsSpeak
<1>6. ASSUME NEW d \in Commands, Acknowledge(d) PROVE \E e, s, r : Speaks(e, s, r) /\ Heard(r)
  <2>1. native'[d] = "queued"
    BY <1>1, <1>6 DEF Acknowledge
  <2>2. Result(d, "queued") # <<>> => Result(d, "queued")[1].of = d
    BY DEF Result
  <2>3. Heard(Result(d, "queued"))
    BY <2>1, <2>2 DEF Before
  <2> QED
    BY <1>6, <2>3, ActsSpeak
<1>7. ASSUME NEW d \in Commands, Refuse(d) PROVE \E e, s, r : Speaks(e, s, r) /\ Heard(r)
  <2>1. native'[d] = "dropped"
    BY <1>1, <1>7 DEF Refuse
  <2>2. Result(d, "failed") # <<>> => Result(d, "failed")[1].of = d /\ Result(d, "failed")[1].state = "failed"
    BY DEF Result
  <2>3. Heard(Result(d, "failed"))
    BY <2>1, <2>2 DEF Before
  <2> QED
    BY <1>7, <2>3, ActsSpeak
<1>8. ASSUME NEW d \in Commands, Pick(d) PROVE \E e, s, r : Speaks(e, s, r) /\ Heard(r)
  BY <1>8, ActsSpeak
<1>9. ASSUME NEW d \in Commands, Discard(d) PROVE \E e, s, r : Speaks(e, s, r) /\ Heard(r)
  BY <1>9, ActsSpeak DEF Drops
<1>10. ASSUME NEW d \in Commands, Stop(d) PROVE \E e, s, r : Speaks(e, s, r) /\ Heard(r)
  BY <1>10, ActsSpeak
<1> QED
  BY <1>2, <1>3, <1>4, <1>5, <1>6, <1>7, <1>8, <1>9, <1>10 DEF Acts

LEMMA ActsAnswer ==
  ASSUME ViewTypeOK, Acts
  PROVE  /\ Len(frames) \in Nat /\ Len(frames') \in Nat /\ Len(frames) <= Len(frames')
         /\ \A i \in 1..Len(frames) : i \in 1..Len(frames') /\ frames'[i] = frames[i]
         /\ \A i \in 1..Len(frames'), c \in Commands : i \in 1..Len(frames) \/
              /\ Answers(frames'[i], c) => native'[c] \notin Before
              /\ Confirms(frames'[i], c) => native'[c] = "queued"
<1>1. frames \in Seq(Frames)
  BY DEF ViewTypeOK
<1>2. PICK e, s, r : Speaks(e, s, r) /\ Heard(r)
  BY ActsSay
<1>3. /\ e # <<>> => e[1].type = "event"
      /\ s # <<>> => s[1].type = "state"
  BY <1>2 DEF Speaks, Opt, EventFrames, StateFrames
<1>4. /\ Len(frames) \in Nat /\ Len(frames') \in Nat /\ Len(frames) <= Len(frames')
      /\ \A i \in 1..Len(frames) : frames'[i] = frames[i]
      /\ \A i \in 1..Len(frames') : i \in 1..Len(frames)
              \/ (e # <<>> /\ frames'[i] = e[1]) \/ (s # <<>> /\ frames'[i] = s[1]) \/ (r # <<>> /\ frames'[i] = r[1])
  BY <1>1, <1>2, SentOn DEF Speaks
<1>5. \A i \in 1..Len(frames) : i \in 1..Len(frames')
  BY <1>4
<1> QED
  BY <1>2, <1>3, <1>4, <1>5 DEF Answers, Confirms, Heard

LEMMA AnswerSent ==
  ASSUME ViewTypeOK, NEW c \in Commands, Acknowledge(c) \/ Refuse(c), way[c] = "here"
  PROVE  \E i \in 1..Len(frames') : Answers(frames'[i], c)
<1>1. frames \in Seq(Frames)
  BY DEF ViewTypeOK
<1>2. PICK st \in {"queued", "failed"} : \E e, s : Speaks(e, s, Result(c, st))
  BY ActsSpeak
<1>3. Result(c, st) # <<>> /\ Answers(Result(c, st)[1], c)
  BY DEF Result, Answers
<1> QED
  BY <1>1, <1>2, <1>3, SentOn DEF Speaks

LEMMA StatesKept ==
  ASSUME NEW states \in [Commands -> Deliveries \cup {Nothing}], NEW e \in Facts, NEW c \in Commands, states[c] # Nothing
  PROVE  States(states, e)[c] # Nothing
  BY DEF States, Advance, FinishStarted, Cancelled, Deliveries, Facts

LEMMA SendingStep ==
  ASSUME ViewTypeOK, RecordInv', UnsentInv, SendingInv, AnswerInv, Acts PROVE UnsentInv' /\ SendingInv' /\ AnswerInv'
<1>1. UNCHANGED <<sent, harness>>
  BY ActsKeep
<1>2. UnsentInv'
  BY <1>1, ActsKeep DEF UnsentInv, Dispatch
<1>3. SendingInv'
  <2> SUFFICES ASSUME NEW c \in Commands, sent[c].state = "sending"
               PROVE (way'[c] = "here" /\ native'[c] \in Before) \/ \E i \in 1..Len(frames') : Answers(frames'[i], c)
    BY <1>1 DEF SendingInv, Answers
  <2>1. CASE \E i \in 1..Len(frames) : Answers(frames[i], c)
    BY <2>1, ActsAnswer
  <2>2. CASE way[c] = "here" /\ native[c] \in Before
    BY <2>2, ActsKeep, AnswerSent
  <2> QED
    BY <2>1, <2>2 DEF SendingInv
<1>4. \A c \in Commands : record.states[c] # Nothing => record'.states[c] # Nothing
  <2>1. record \in Views /\ frames \in Seq(Frames) /\ record.states \in [Commands -> Deliveries \cup {Nothing}]
    BY DEF ViewTypeOK, Views
  <2>2. PICK e, s, r : Speaks(e, s, r)
    BY ActsSay
  <2>3. record'.states = IF e = <<>> THEN record.states ELSE States(record.states, e[1].event)
    BY <2>1, <2>2, Recorded DEF Speaks
  <2>4. e # <<>> => e[1].event \in Facts
    BY <2>2 DEF Speaks, Opt, EventFrames
  <2> QED
    BY <2>1, <2>3, <2>4, StatesKept
<1>5. AnswerInv'
  <2> SUFFICES ASSUME NEW c \in Commands
               PROVE /\ \A i \in 1..Len(frames') : Answers(frames'[i], c) => native'[c] \notin Before
                     /\ sent[c].state = "queued" \/ (\E i \in 1..Len(frames') : Confirms(frames'[i], c)) =>
                          native'[c] \notin Before /\ (Codex \/ record'.states[c] # Nothing)
    BY <1>1 DEF AnswerInv, Answers, Confirms, Codex
  <2>1. \A i \in 1..Len(frames') : Answers(frames'[i], c) => native'[c] \notin Before
    BY ActsAnswer, ActsKeep DEF AnswerInv
  <2>2. ASSUME sent[c].state = "queued" \/ \E i \in 1..Len(frames) : Confirms(frames[i], c)
        PROVE native'[c] \notin Before /\ (Codex \/ record'.states[c] # Nothing)
    BY <1>4, <2>2, ActsKeep DEF AnswerInv
  <2>3. ASSUME NEW i \in 1..Len(frames'), i \notin 1..Len(frames), Confirms(frames'[i], c)
        PROVE native'[c] \notin Before /\ (Codex \/ record'.states[c] # Nothing)
    <3>1. native'[c] = "queued"
      BY <2>3, ActsAnswer
    <3>2. record'.states[c] \in Told(c)'
      BY DEF RecordInv
    <3> QED
      BY <1>1, <3>1, <3>2 DEF Told, Codex, Before
  <2> QED
    BY <2>1, <2>2, <2>3, ActsAnswer
<1> QED
  BY <1>2, <1>3, <1>5

(* What the panel's own steps make of it. *)
LEMMA ShiftedFrames ==
  ASSUME ViewTypeOK, Receive
  PROVE  /\ frames # <<>> /\ Len(frames) \in Nat /\ Len(frames') = Len(frames) - 1 /\ 1 \in 1..Len(frames)
         /\ Head(frames) = frames[1] /\ Head(frames) \in Frames
         /\ \A i \in 1..Len(frames') : i + 1 \in 1..Len(frames) /\ frames'[i] = frames[i + 1]
         /\ \A i \in 1..Len(frames) : i = 1 \/ (i - 1 \in 1..Len(frames') /\ frames'[i - 1] = frames[i])
<1>1. PanelTypes /\ frames # <<>> /\ frames' = Tail(frames)
  BY AllTypes DEF Receive
<1>2. /\ Head(frames) = frames[1] /\ Head(frames) \in Frames
      /\ Len(frames) \in Nat /\ Len(frames) >= 1 /\ Len(frames') = Len(frames) - 1
      /\ \A i \in 1..Len(frames') : i + 1 \in 1..Len(frames) /\ frames'[i] = frames[i + 1]
  BY <1>1, FirstFrame
<1>3. ASSUME NEW i \in 1..Len(frames), i # 1
      PROVE i - 1 \in 1..Len(frames') /\ frames'[i - 1] = frames[i]
  <2>1. i - 1 \in 1..Len(frames') /\ (i - 1) + 1 = i
    BY <1>2, <1>3
  <2> QED
    BY <1>2, <2>1
<1> QED
  BY <1>1, <1>2, <1>3

LEMMA SendingReceive ==
  ASSUME ViewTypeOK, UnsentInv, SendingInv, AnswerInv, Receive PROVE UnsentInv' /\ SendingInv' /\ AnswerInv'
<1> DEFINE f == Head(frames)
<1>1. UNCHANGED <<harness, native, record, way>>
  BY DEF Receive, agent
<1>2. CASE f.type = "result" /\ sent[f.of].state = "sending"
  <2>1. f.of \in Commands /\ f.state \in {"queued", "failed"}
    BY <1>2, ShiftedFrames DEF Frames, EventFrames, StateFrames, ResultFrames
  <2>2. sent' = [sent EXCEPT ![f.of].state = f.state]
    BY <1>2 DEF Receive, Settle
  <2>3. sent \in [Commands -> [state : {"idle", "sending", "queued", "failed", "unconfirmed"}, after : Nat]]
    BY DEF ViewTypeOK
  <2>4. sent'[f.of].state = f.state /\ \A c \in Commands : c # f.of => sent'[c] = sent[c]
    BY <2>1, <2>2, <2>3
  <2>5. UnsentInv'
    BY <1>1, <2>1, <2>4 DEF UnsentInv
  <2>6. SendingInv'
    <3> SUFFICES ASSUME NEW c \in Commands, sent'[c].state = "sending" PROVE FALSE
      BY DEF SendingInv
    <3> QED
      BY <1>2, <2>1, <2>4 DEF SendingInv
  <2>7. f.state = "queued" => Confirms(frames[1], f.of)
    BY <1>2, ShiftedFrames DEF Confirms, Answers
  <2>8. AnswerInv'
    BY <1>1, <2>1, <2>4, <2>7, ShiftedFrames DEF AnswerInv, Answers, Confirms, Codex
  <2> QED
    BY <2>5, <2>6, <2>8
<1>3. CASE f.type # "result" \/ sent[f.of].state # "sending"
  <2>1. sent' = sent
    BY <1>3 DEF Receive
  <2>2. \A c \in Commands : sent[c].state = "sending" => ~Answers(frames[1], c)
    BY <1>3, ShiftedFrames DEF Answers
  <2>3. UnsentInv'
    BY <1>1, <2>1 DEF UnsentInv
  <2>4. SendingInv'
    BY <1>1, <2>1, <2>2, ShiftedFrames DEF SendingInv, Answers
  <2>5. AnswerInv'
    BY <1>1, <2>1, ShiftedFrames DEF AnswerInv, Answers, Confirms, Codex
  <2> QED
    BY <2>3, <2>4, <2>5
<1> QED
  BY <1>2, <1>3

LEMMA SendingPanel ==
  ASSUME ViewTypeOK, UnsentInv, SendingInv, AnswerInv,
         Reconnect \/ Interrupt \/ (\E c \in Commands : Send(c)) \/ UNCHANGED viewVars
  PROVE  UnsentInv' /\ SendingInv' /\ AnswerInv'
<1>1. /\ sent \in [Commands -> [state : {"idle", "sending", "queued", "failed", "unconfirmed"}, after : Nat]]
      /\ way \in [Commands -> {"none", "here", "adrift"}]
  BY DEF ViewTypeOK
<1>2. CASE Reconnect
  <2>1. UNCHANGED <<harness, native, record>> /\ frames' = <<>>
    BY <1>2 DEF Reconnect, agent
  <2>2. \A c \in Commands : sent'[c].state = IF sent[c].state = "sending" THEN "unconfirmed" ELSE sent[c].state
    BY <1>1, <1>2 DEF Reconnect
  <2>3. \A c \in Commands : way[c] = "none" => way'[c] = "none"
    BY <1>1, <1>2 DEF Reconnect
  <2>4. \A i \in 1..Len(frames') : FALSE
    BY <2>1
  <2> QED
    BY <2>1, <2>2, <2>3, <2>4 DEF UnsentInv, SendingInv, AnswerInv, Codex
<1>3. ASSUME Interrupt \/ UNCHANGED viewVars PROVE UnsentInv' /\ SendingInv' /\ AnswerInv'
  <2>1. UNCHANGED <<harness, native, record, frames, sent, way>>
    BY <1>3 DEF Interrupt, viewVars, agent, stream
  <2> QED
    BY <2>1 DEF UnsentInv, SendingInv, AnswerInv, Answers, Confirms, Codex
<1>4. ASSUME NEW d \in Commands, Send(d) PROVE UnsentInv' /\ SendingInv' /\ AnswerInv'
  <2>1. UNCHANGED <<harness, native, record, frames>> /\ ~isPreparing /\ sent[d].state = "idle"
    BY <1>4 DEF Send, agent, stream
  <2>2. sent'[d].state = "sending" /\ way'[d] = "here"
        /\ \A c \in Commands : c # d => sent'[c] = sent[c] /\ way'[c] = way[c]
    BY <1>1, <1>4 DEF Send
  <2>3. native[d] = "none" /\ \A c \in Commands : sent[c].state # "sending"
    BY <2>1 DEF UnsentInv, isPreparing
  <2> QED
    BY <2>1, <2>2, <2>3 DEF UnsentInv, SendingInv, AnswerInv, Answers, Confirms, Codex, Before
<1> QED
  BY <1>2, <1>3, <1>4

LEMMA SendingInit == ViewInit => UnsentInv /\ SendingInv /\ AnswerInv
<1> SUFFICES ASSUME ViewInit PROVE UnsentInv /\ SendingInv /\ AnswerInv
  OBVIOUS
<1>1. (\A i \in 1..Len(frames) : FALSE) /\ \A c \in Commands : sent[c].state = "idle" /\ native[c] = "none" /\ way[c] = "none"
  BY DEF ViewInit
<1> QED
  BY <1>1 DEF UnsentInv, SendingInv, AnswerInv

(* One message is sent at a time, and an answer comes to it only from the agent. *)
LEMMA SendingAlways == ViewSpec => [](UnsentInv /\ SendingInv /\ AnswerInv)
<1>1. ViewTypeOK /\ RecordInv' /\ UnsentInv /\ SendingInv /\ AnswerInv /\ [ViewNext]_viewVars
      => UnsentInv' /\ SendingInv' /\ AnswerInv'
  BY NextActs, SendingStep, SendingReceive, SendingPanel
<1> QED
  BY <1>1, SendingInit, ViewTypeCorrect, RecordAlways, PTL DEF ViewSpec

-----------------------------------------------------------------------------
(* The views of the page, from the one it has to the one devhost recorded. *)
LEMMA RecordIsHonest == ViewTypeOK /\ AgentInv /\ RecordInv /\ AnswerInv => RecordHonest
<1> SUFFICES ASSUME ViewTypeOK, AgentInv, RecordInv, AnswerInv, NEW c \in Commands
             PROVE  Fair(record, c) /\ (Confirmed(frames, c) => Known(record, c))
  BY DEF RecordHonest
<1>1. record.states[c] \in Told(c) /\ record.status = status
  BY DEF RecordInv
<1>2. Confirmed(frames, c) => native[c] \notin Before /\ (Codex \/ record.states[c] # Nothing)
  BY DEF AnswerInv, Confirmed
<1>3. Codex /\ native[c] = "queued" => c \in retried \/ status = "running"
  BY DEF AgentInv
<1>4. native[c] \in {"none", "first", "next", "queued", "running", "ran", "dropped"}
  BY DEF ViewTypeOK
<1> QED
  BY <1>1, <1>2, <1>3, <1>4 DEF Fair, Known, Told, Out, Before

LEMMA SameReads ==
  ASSUME harness' = harness, NEW fs, fs = frames', NEW v, NEW i PROVE Reads(v, frames[i])' = Reads(v, fs[i])
  BY DEF Reads, Viewed, Folded, Messages, Ended, Ending, States, Advance, Cancelled, FinishStarted, Order, Codex

LEMMA SameChain ==
  ASSUME harness' = harness, NEW vs, NEW fs, NEW v, NEW w, fs = frames', v = view', w = record', Chain(vs, fs, v, w)
  PROVE  Chain(vs, frames, view, record)'
<1>1. ASSUME NEW i \in 1..Len(fs) PROVE Reads(vs[i], frames[i])' = Reads(vs[i], fs[i])
  <2>1. PICK x : x = vs[i]
    OBVIOUS
  <2>2. Reads(x, frames[i])' = Reads(x, fs[i])
    BY SameReads
  <2> QED
    BY <2>1, <2>2
<1> QED
  BY <1>1 DEF Chain

(* The views that lead from v to w by the frames fs, honest in the state after the step. *)
Carried(fs, v, w) == \E vs : Chain(vs, fs, v, w) /\ Honest(vs, fs)'

LEMMA Extended ==
  ASSUME NEW fs \in Seq(Frames), NEW v, NEW w, Carried(fs, v, w),
         NEW T \in SUBSET Frames, NEW x \in Opt(T), NEW gs, gs = fs \o x,
         NEW u \in Views, u = IF x = <<>> THEN w ELSE Reads(w, x[1]),
         x # <<>> => \A c \in Commands : Fair(u, c)' /\ (Confirmed(gs, c)' => Known(u, c)')
  PROVE  Carried(gs, v, u)
<1>1. Joins(gs, fs, x, Frames, T)
  BY Joined
<1>2. PICK vs : Chain(vs, fs, v, w) /\ Honest(vs, fs)'
  BY DEF Carried
<1>3. CASE x = <<>>
  BY <1>1, <1>3 DEF Joins
<1>4. CASE x # <<>>
  <2> DEFINE ws == Append(vs, u)
  <2>1. vs \in Seq(Views) /\ Len(vs) = Len(fs) + 1 /\ Len(fs) \in Nat
    BY <1>1, <1>2 DEF Chain, Joins
  <2>2. /\ ws \in Seq(Views) /\ Len(ws) = Len(vs) + 1 /\ ws[Len(vs) + 1] = u
        /\ \A i \in 1..Len(vs) : ws[i] = vs[i]
    BY <2>1
  <2>3. Len(gs) = Len(fs) + 1 /\ gs[Len(fs) + 1] = x[1] /\ \A i \in 1..Len(fs) : gs[i] = fs[i]
    BY <1>1, <1>4 DEF Joins
  <2> HIDE DEF ws
  <2>4. Chain(ws, gs, v, u)
    <3>1. Len(ws) = Len(gs) + 1 /\ ws[1] = v /\ ws[Len(ws)] = u
      BY <1>2, <2>1, <2>2, <2>3 DEF Chain
    <3>2. ASSUME NEW i \in 1..Len(gs) PROVE ws[i + 1] = Reads(ws[i], gs[i])
      <4>1. CASE i \in 1..Len(fs)
        <5>1. i + 1 \in 1..Len(vs) /\ i \in 1..Len(vs)
          BY <2>1, <4>1
        <5> QED
          BY <1>2, <2>2, <2>3, <4>1, <5>1 DEF Chain
      <4>2. CASE i \notin 1..Len(fs)
        <5>1. i = Len(fs) + 1 /\ i = Len(vs) /\ i \in 1..Len(vs)
          BY <2>1, <2>3, <4>2
        <5> QED
          BY <1>2, <1>4, <2>2, <2>3, <5>1 DEF Chain
      <4> QED
        BY <4>1, <4>2
    <3> QED
      BY <2>2, <3>1, <3>2 DEF Chain
  <2>5. Honest(ws, gs)'
    <3> SUFFICES ASSUME NEW i \in 1..Len(ws), NEW c \in Commands
                 PROVE  Fair(ws[i], c)' /\ (ToldBefore(gs, c, i)' => Known(ws[i], c)')
      BY DEF Honest
    <3>1. CASE i \in 1..Len(vs)
      <4>1. ws[i] = vs[i]
        BY <2>2, <3>1
      <4>2. ToldBefore(gs, c, i)' => ToldBefore(fs, c, i)'
        <5>1. ASSUME NEW j \in 1..Len(gs), j < i PROVE j \in 1..Len(fs) /\ gs[j] = fs[j]
          <6>1. j \in 1..Len(fs)
            BY <2>1, <2>3, <3>1, <5>1
          <6> QED
            BY <2>3, <6>1
        <5> QED
          BY <5>1 DEF ToldBefore
      <4>3. Fair(vs[i], c)' /\ (ToldBefore(fs, c, i)' => Known(vs[i], c)')
        BY <1>2, <3>1 DEF Honest
      <4> QED
        BY <4>1, <4>2, <4>3 DEF Fair, Known
    <3>2. CASE i \notin 1..Len(vs)
      <4>1. i = Len(vs) + 1 /\ ws[i] = u
        BY <2>1, <2>2, <3>2
      <4>2. ToldBefore(gs, c, i)' => Confirmed(gs, c)'
        BY DEF ToldBefore, Confirmed
      <4>3. Fair(u, c)' /\ (Confirmed(gs, c)' => Known(u, c)')
        BY <1>4
      <4> QED
        BY <4>1, <4>2, <4>3 DEF Fair, Known
    <3> QED
      BY <3>1, <3>2
  <2> QED
    BY <2>4, <2>5 DEF Carried
<1> QED
  BY <1>3, <1>4

LEMMA RecordIsHonestStill ==
  ASSUME RecordHonest', NEW u, u = record', NEW fs, Len(fs) <= Len(frames'), Len(fs) \in Nat, Len(frames') \in Nat,
         \A i \in 1..Len(fs) : fs[i] = frames'[i], NEW c \in Commands
  PROVE  Fair(u, c)' /\ (Confirmed(fs, c)' => Known(u, c)')
<1>1. \A i \in 1..Len(fs) : i \in 1..Len(frames')
  OBVIOUS
<1>2. Confirmed(fs, c)' => Confirmed(frames, c)'
  BY <1>1 DEF Confirmed, Confirms, Answers
<1> QED
  BY <1>2 DEF RecordHonest, Fair, Known

(* Between the event and the status of one step the page knows no more than it should. *)
Midway(e, s, r) == e # <<>> /\ s # <<>> => r = <<>> /\ \A m, c : m = Viewed(record, e[1]) /\ c \in Commands =>
  Fair(m, c)' /\ (Confirmed(frames, c) => Known(m, c)')

LEMMA ActsMidway ==
  ASSUME ViewTypeOK, AgentInv, RecordInv, RecordHonest, Acts
  PROVE  \E e, s, r : Speaks(e, s, r) /\ Midway(e, s, r)
<1> DEFINE Goal == \E e, s, r : Speaks(e, s, r) /\ Midway(e, s, r)
<1>1. /\ native \in [Commands -> {"none", "first", "next", "queued", "running", "ran", "dropped"}]
      /\ record \in Views /\ record.states \in [Commands -> Deliveries \cup {Nothing}]
  BY DEF ViewTypeOK, Views
<1>2. harness' = harness /\ retried \subseteq retried' /\ \A c \in Commands : Out(c) => Out(c)'
  BY ActsKeep
<1>3. CASE Said
  BY <1>3, ActsSpeak DEF Midway
<1>4. ASSUME NEW isText \in BOOLEAN, Say(isText) PROVE Goal
  BY <1>4, ActsSpeak DEF Midway
<1>5. ASSUME NEW d \in Commands, Dispatch(d) PROVE Goal
  BY <1>5, ActsSpeak DEF Midway
<1>6. ASSUME NEW d \in Commands, Acknowledge(d) PROVE Goal
  BY <1>6, ActsSpeak DEF Midway
<1>7. ASSUME NEW d \in Commands, Refuse(d) PROVE Goal
  BY <1>7, ActsSpeak DEF Midway
<1>8. ASSUME NEW d \in Commands, Discard(d) PROVE Goal
  BY <1>8, ActsSpeak DEF Midway, Drops
<1>9. ASSUME NEW d \in Commands, Stop(d) PROVE Goal
  BY <1>9, ActsSpeak DEF Midway
<1>10. ASSUME NEW how \in {"completed", "interrupted", "failed"}, End(how) PROVE Goal
  <2>1. PICK e : e # <<>> /\ e[1].event.kind = "ended" /\ Speaks(e, State("idle"), <<>>)
    BY <1>10, ActsSpeak
  <2>2. e[1].type = "event"
    BY <2>1 DEF Speaks, Opt, EventFrames
  <2>3. ASSUME NEW m, NEW c \in Commands, m = Viewed(record, e[1])
        PROVE Fair(m, c)' /\ (Confirmed(frames, c) => Known(m, c)')
    <3>1. m.status = record.status /\ m.states = FinishStarted(record.states)
      BY <1>1, <2>1, <2>2, <2>3 DEF Viewed, Folded, States, Views
    <3>2. record.states[c] \in Told(c)
      BY DEF RecordInv
    <3>3. m.states[c] = IF record.states[c] = "started" THEN "completed" ELSE record.states[c]
      BY <3>1 DEF FinishStarted
    <3>4. record.states[c] = "started" => native'[c] = "ran"
      BY <1>1, <1>10, <3>2 DEF Told, End
    <3>5. Fair(record, c) /\ (Confirmed(frames, c) => Known(record, c))
      BY DEF RecordHonest
    <3>6. Fair(m, c)'
      BY <1>2, <3>3, <3>4, <3>5 DEF Fair, Out
    <3>7. Confirmed(frames, c) => Known(m, c)'
      BY <1>2, <3>1, <3>3, <3>5 DEF Known, Codex
    <3> QED
      BY <3>6, <3>7
  <2> QED
    BY <2>1, <2>3 DEF Midway
<1>11. ASSUME NEW d \in Commands, Pick(d) PROVE Goal
  <2> DEFINE e == Event(Of("started", d))
  <2>1. Speaks(e, State("running"), <<>>)
    BY <1>11, ActsSpeak
  <2>2. e[1].type = "event" /\ e[1].event.kind = "started" /\ e[1].event.of = d
    BY DEF Event, Of, Blank
  <2> HIDE DEF e
  <2>3. ASSUME NEW m, NEW c \in Commands, m = Viewed(record, e[1])
        PROVE Fair(m, c)' /\ (Confirmed(frames, c) => Known(m, c)')
    <3>1. m.status = record.status /\ m.states = Advance(record.states, d, "started")
      BY <1>1, <2>2, <2>3 DEF Viewed, Folded, States, Views
    <3>2. record.states[d] \in {Nothing, "queued"}
      BY <1>11 DEF RecordInv, Told, Pick
    <3>3. m.states[c] = IF c = d THEN "started" ELSE record.states[c]
      BY <1>1, <3>1, <3>2 DEF Advance, Order
    <3>4. Fair(record, c) /\ (Confirmed(frames, c) => Known(record, c))
      BY DEF RecordHonest
    <3>5. Fair(m, c)'
      BY <1>2, <3>3, <3>4 DEF Fair
    <3>6. Confirmed(frames, c) => Known(m, c)'
      BY <1>2, <3>1, <3>3, <3>4 DEF Known, Codex
    <3> QED
      BY <3>5, <3>6
  <2> QED
    BY <2>1, <2>3 DEF Midway
<1> QED
  BY <1>3, <1>4, <1>5, <1>6, <1>7, <1>8, <1>9, <1>10, <1>11 DEF Acts

LEMMA ReplayActs ==
  ASSUME ViewTypeOK, AgentInv, RecordInv, RecordHonest, RecordHonest', ReplayInv, Acts PROVE ReplayInv'
<1>1. PICK e, s, r : Speaks(e, s, r) /\ Midway(e, s, r)
  BY ActsMidway
<1>2. PICK fs, v, w : fs = frames /\ v = view /\ w = record
  OBVIOUS
<1>3. PICK vs : Chain(vs, frames, view, record) /\ Honest(vs, frames)
  BY DEF ReplayInv
<1>4. fs \in Seq(Frames) /\ w \in Views
  BY <1>2 DEF ViewTypeOK
<1>5. e \in Opt(EventFrames) /\ s \in Opt(StateFrames) /\ r \in Opt(ResultFrames)
      /\ EventFrames \in SUBSET Frames /\ StateFrames \in SUBSET Frames /\ ResultFrames \in SUBSET Frames
  BY <1>1 DEF Speaks, Frames
<1>6. Chain(vs, fs, v, w)
  BY <1>2, <1>3
<1>7. harness' = harness /\ sent' = sent /\ view' = view /\ retried \subseteq retried' /\ \A c \in Commands : Out(c) => Out(c)'
  BY ActsKeep
<1>8. Honest(vs, fs)'
  BY <1>2, <1>3, <1>7 DEF Honest, ToldBefore, Confirms, Answers, Fair, Known, Codex
<1>9. PICK es, bs, gs : es = fs \o e /\ bs = es \o s /\ gs = bs \o r
  OBVIOUS
<1>10. gs = frames'
  BY <1>1, <1>2, <1>9 DEF Speaks, Broadcast
<1>11. Joins(es, fs, e, Frames, EventFrames)
  BY <1>4, <1>5, <1>9, Joined
<1>12. es \in Seq(Frames) /\ Joins(bs, es, s, Frames, StateFrames)
  <2>1. es \in Seq(Frames)
    BY <1>11 DEF Joins
  <2> QED
    BY <1>5, <1>9, <2>1, Joined
<1>13. bs \in Seq(Frames) /\ Joins(gs, bs, r, Frames, ResultFrames)
  <2>1. bs \in Seq(Frames)
    BY <1>12 DEF Joins
  <2> QED
    BY <1>5, <1>9, <2>1, Joined
<1>14. PICK u1 : u1 = IF e = <<>> THEN w ELSE Reads(w, e[1])
  OBVIOUS
<1>15. PICK u2 : u2 = IF s = <<>> THEN u1 ELSE Reads(u1, s[1])
  OBVIOUS
<1>16. (e # <<>> => e[1] \in EventFrames /\ Reads(w, e[1]) = Viewed(w, e[1]))
       /\ (s # <<>> => s[1] \in StateFrames /\ Reads(u1, s[1]) = Viewed(u1, s[1]))
       /\ (r # <<>> => Reads(u2, r[1]) = u2)
  BY <1>5 DEF Opt, EventFrames, StateFrames, ResultFrames, Reads
<1>17. u1 \in Views /\ u2 \in Views
  <2>1. u1 \in Views
    BY <1>4, <1>14, <1>16, ViewedType
  <2> QED
    BY <1>15, <1>16, <2>1, ViewedType
<1>18. u2 = record'
  BY <1>1, <1>2, <1>14, <1>15, <1>16 DEF Speaks, Broadcast
<1>19. /\ Len(es) <= Len(frames') /\ Len(bs) <= Len(frames') /\ Len(es) \in Nat /\ Len(bs) \in Nat /\ Len(frames') \in Nat
       /\ \A i \in 1..Len(es) : es[i] = frames'[i]
       /\ \A i \in 1..Len(bs) : bs[i] = frames'[i]
  <2>1. /\ Len(bs) <= Len(gs) /\ Len(bs) \in Nat /\ Len(gs) \in Nat
        /\ \A i \in 1..Len(bs) : i \in 1..Len(gs) /\ bs[i] = gs[i]
    BY <1>13 DEF Joins
  <2>2. /\ Len(es) <= Len(bs) /\ Len(es) \in Nat
        /\ \A i \in 1..Len(es) : i \in 1..Len(bs) /\ es[i] = bs[i]
    BY <1>12 DEF Joins
  <2>3. Len(es) <= Len(gs)
    <3>1. Len(bs) <= Len(gs) /\ Len(bs) \in Nat /\ Len(gs) \in Nat /\ Len(es) <= Len(bs) /\ Len(es) \in Nat
      BY <2>1, <2>2
    <3> QED
      BY <3>1
  <2> QED
    BY <1>10, <2>1, <2>2, <2>3
<1>20. ASSUME e # <<>>, NEW c \in Commands PROVE Fair(u1, c)' /\ (Confirmed(es, c)' => Known(u1, c)')
  <2>1. CASE s = <<>>
    <3>1. u1 = record'
      BY <1>15, <1>18, <2>1
    <3> QED
      BY <1>19, <3>1, RecordIsHonestStill
  <2>2. CASE s # <<>>
    <3>1. u1 = Viewed(record, e[1])
      BY <1>2, <1>14, <1>16, <1>20
    <3>2. Fair(u1, c)' /\ (Confirmed(frames, c) => Known(u1, c)')
      BY <1>1, <1>20, <2>2, <3>1 DEF Midway
    <3>3. e[1].type = "event"
      BY <1>16, <1>20 DEF EventFrames
    <3>4. Confirmed(es, c)' => Confirmed(frames, c)
      BY <1>2, <1>7, <1>11, <3>3 DEF Confirmed, Confirms, Answers, Joins
    <3> QED
      BY <3>2, <3>4
  <2> QED
    BY <2>1, <2>2
<1>21. Carried(fs, v, w)
  BY <1>6, <1>8 DEF Carried
<1>22. Carried(es, v, u1)
  BY <1>4, <1>5, <1>9, <1>14, <1>17, <1>20, <1>21, Extended
<1>23. Carried(bs, v, u2)
  <2>1. s # <<>> => \A c \in Commands : Fair(u2, c)' /\ (Confirmed(bs, c)' => Known(u2, c)')
    BY <1>18, <1>19, RecordIsHonestStill
  <2> QED
    BY <1>5, <1>9, <1>12, <1>15, <1>17, <1>22, <2>1, Extended
<1>24. Carried(gs, v, u2)
  <2>1. r # <<>> => \A c \in Commands : Fair(u2, c)' /\ (Confirmed(gs, c)' => Known(u2, c)')
    BY <1>10, <1>13, <1>18, <1>19, RecordIsHonestStill
  <2>2. u2 = IF r = <<>> THEN u2 ELSE Reads(u2, r[1])
    BY <1>16
  <2> QED
    BY <1>5, <1>9, <1>13, <1>17, <1>23, <2>1, <2>2, Extended
<1>25. PICK ys : Chain(ys, gs, v, u2) /\ Honest(ys, gs)'
  BY <1>24 DEF Carried
<1>26. Chain(ys, frames, view, record)'
  BY <1>2, <1>7, <1>10, <1>18, <1>25, SameChain
<1>27. Honest(ys, frames)'
  BY <1>10, <1>25 DEF Honest, ToldBefore, Confirms, Answers
<1> QED
  BY <1>26, <1>27 DEF ReplayInv

(* Receiving a frame leaves the rest of the views; a new connection leaves the last of them. *)
LEMMA ReplayReceive == ASSUME ViewTypeOK, ReplayInv, Receive PROVE ReplayInv'
<1>1. PICK vs : Chain(vs, frames, view, record) /\ Honest(vs, frames)
  BY DEF ReplayInv
<1>2. PICK ws, fs, v, w : ws = Tail(vs) /\ fs = frames' /\ v = view' /\ w = record'
  OBVIOUS
<1>3. vs \in Seq(Views) /\ Len(vs) = Len(frames) + 1 /\ Len(frames) \in Nat /\ Len(frames) >= 1 /\ Len(fs) = Len(frames) - 1
  BY <1>1, <1>2, ShiftedFrames DEF Chain
<1>4. /\ ws \in Seq(Views) /\ Len(ws) = Len(frames) /\ Len(ws) = Len(fs) + 1
      /\ \A i \in 1..Len(ws) : i + 1 \in 1..Len(vs) /\ ws[i] = vs[i + 1]
  BY <1>2, <1>3
<1>5. UNCHANGED <<harness, native, retried, record>>
  BY DEF Receive, agent
<1>6. view' = Reads(view, frames[1])
  BY ShiftedFrames DEF Receive, Settle, Reads
<1>7. Chain(ws, fs, v, w)
  <2>1. 1 \in 1..Len(frames) /\ 1 + 1 = 2 /\ 1 \in 1..Len(ws) /\ Len(ws) \in 1..Len(ws) /\ Len(ws) + 1 = Len(vs)
    BY <1>3, <1>4
  <2>2. ws[1] = v
    BY <1>1, <1>2, <1>4, <1>6, <2>1 DEF Chain
  <2>3. ws[Len(ws)] = w
    BY <1>1, <1>2, <1>4, <1>5, <2>1 DEF Chain
  <2>4. ASSUME NEW i \in 1..Len(fs) PROVE ws[i + 1] = Reads(ws[i], fs[i])
    <3>1. i + 1 \in 1..Len(frames) /\ fs[i] = frames[i + 1]
      BY <1>2, ShiftedFrames
    <3>2. i \in 1..Len(ws) /\ i + 1 \in 1..Len(ws)
      BY <1>3, <1>4
    <3> QED
      BY <1>1, <1>4, <3>1, <3>2 DEF Chain
  <2> QED
    BY <1>4, <2>2, <2>3, <2>4 DEF Chain
<1>8. Chain(ws, frames, view, record)'
  BY <1>2, <1>5, <1>7, SameChain
<1>9. ASSUME NEW c \in Commands, sent'[c].state = "queued" PROVE sent[c].state = "queued" \/ Confirms(frames[1], c)
  <2>1. sent \in [Commands -> [state : {"idle", "sending", "queued", "failed", "unconfirmed"}, after : Nat]]
    BY DEF ViewTypeOK
  <2> DEFINE f == Head(frames)
  <2>2. f = frames[1]
    BY ShiftedFrames
  <2>3. CASE f.type = "result" /\ sent[f.of].state = "sending"
    <3>1. sent' = [sent EXCEPT ![f.of].state = f.state]
      BY <2>3 DEF Receive, Settle
    <3>2. c # f.of => sent'[c].state = sent[c].state
      BY <2>1, <3>1
    <3>3. c = f.of => sent'[c].state = f.state
      BY <2>1, <3>1
    <3> QED
      BY <1>9, <2>2, <2>3, <3>2, <3>3 DEF Confirms, Answers
  <2>4. CASE ~(f.type = "result" /\ sent[f.of].state = "sending")
    <3>1. sent' = sent
      BY <2>4 DEF Receive
    <3> QED
      BY <1>9, <3>1
  <2> QED
    BY <2>3, <2>4
<1>10. Honest(ws, frames)'
  <2> SUFFICES ASSUME NEW i \in 1..Len(ws), NEW c \in Commands
               PROVE  Fair(ws[i], c)' /\ (ToldBefore(frames, c, i)' => Known(ws[i], c)')
    BY DEF Honest
  <2>1. i + 1 \in 1..Len(vs) /\ ws[i] = vs[i + 1] /\ i \in Nat /\ i >= 1
    BY <1>4
  <2>2. ToldBefore(frames, c, i)' => ToldBefore(frames, c, i + 1)
    <3>1. CASE sent'[c].state = "queued"
      BY <1>3, <1>9, <2>1, <3>1, ShiftedFrames DEF ToldBefore
    <3>2. ASSUME NEW j \in 1..Len(frames'), j < i, Confirms(frames'[j], c)
          PROVE  j + 1 \in 1..Len(frames) /\ j + 1 < i + 1 /\ Confirms(frames[j + 1], c)
      BY <2>1, <3>2, ShiftedFrames DEF Confirms, Answers
    <3> QED
      BY <3>1, <3>2 DEF ToldBefore, Confirms, Answers
  <2>3. Fair(vs[i + 1], c) /\ (ToldBefore(frames, c, i + 1) => Known(vs[i + 1], c))
    BY <1>1, <2>1 DEF Honest
  <2> QED
    BY <1>5, <2>1, <2>2, <2>3 DEF Fair, Known, Out, Codex
<1> QED
  BY <1>8, <1>10 DEF ReplayInv

LEMMA ReplayPanel ==
  ASSUME ViewTypeOK, RecordHonest, ReplayInv, Reconnect \/ Interrupt \/ (\E c \in Commands : Send(c)) \/ UNCHANGED viewVars
  PROVE  ReplayInv'
<1>1. sent \in [Commands -> [state : {"idle", "sending", "queued", "failed", "unconfirmed"}, after : Nat]]
  BY DEF ViewTypeOK
<1>2. CASE Reconnect
  <2>1. UNCHANGED <<harness, native, retried, record>> /\ frames' = <<>> /\ view' = record
    BY <1>2 DEF Reconnect, agent
  <2>2. \A c \in Commands : sent'[c].state = "queued" => sent[c].state = "queued"
    BY <1>1, <1>2 DEF Reconnect
  <2>3. Chain(<<record>>, frames, view, record)'
    BY <2>1 DEF Chain, ViewTypeOK
  <2>4. Honest(<<record>>, frames)'
    <3> SUFFICES ASSUME NEW c \in Commands, NEW i \in 1..1
                 PROVE  Fair(record, c)' /\ (ToldBefore(frames, c, i)' => Known(record, c)')
      BY DEF Honest, Fair, Known
    <3>1. ToldBefore(frames, c, i)' => Confirmed(frames, c)
      BY <2>1, <2>2 DEF ToldBefore, Confirmed
    <3> QED
      BY <2>1, <3>1 DEF RecordHonest, Fair, Known, Out, Codex
  <2> QED
    BY <2>3, <2>4 DEF ReplayInv
<1>3. CASE Interrupt \/ (\E c \in Commands : Send(c)) \/ UNCHANGED viewVars
  <2>1. UNCHANGED <<harness, native, retried, record, frames, view>>
    BY <1>3 DEF Interrupt, Send, viewVars, agent, stream
  <2>2. \A c \in Commands : sent'[c].state = "queued" => sent[c].state = "queued"
    BY <1>1, <1>3 DEF Interrupt, Send, viewVars
  <2>3. PICK vs : Chain(vs, frames, view, record) /\ Honest(vs, frames)
    BY DEF ReplayInv
  <2>4. PICK fs, v, w : fs = frames' /\ v = view' /\ w = record'
    OBVIOUS
  <2>5. Chain(vs, frames, view, record)'
    BY <2>1, <2>3, <2>4, SameChain
  <2>6. Honest(vs, frames)'
    BY <2>1, <2>2, <2>3 DEF Honest, ToldBefore, Confirms, Answers, Fair, Known, Out, Codex
  <2> QED
    BY <2>5, <2>6 DEF ReplayInv
<1> QED
  BY <1>2, <1>3

LEMMA ReplayInit == ViewInit => ReplayInv
<1> SUFFICES ASSUME ViewInit PROVE ReplayInv
  OBVIOUS
<1>1. view \in Views /\ record = view /\ frames = <<>>
  BY InitTypes DEF ViewInit, ViewTypeOK
<1>2. Chain(<<view>>, frames, view, record)
  BY <1>1 DEF Chain
<1>3. Honest(<<view>>, frames)
  <2>1. \A c \in Commands : view.states[c] = Nothing /\ sent[c].state = "idle"
    BY DEF ViewInit
  <2>2. \A i \in 1..Len(<<view>>) : <<view>>[i] = view
    OBVIOUS
  <2>3. \A j \in 1..Len(frames) : FALSE
    BY <1>1
  <2>4. \A c \in Commands, i \in 1..Len(<<view>>) : Fair(view, c) /\ ~ToldBefore(frames, c, i)
    BY <2>1, <2>3 DEF Fair, ToldBefore
  <2> QED
    BY <2>2, <2>4 DEF Honest, Fair
<1> QED
  BY <1>2, <1>3 DEF ReplayInv

LEMMA ReplayAlways == ViewSpec => []ReplayInv
<1>1. ViewTypeOK /\ AgentInv /\ RecordInv /\ RecordHonest /\ RecordHonest' /\ ReplayInv /\ [ViewNext]_viewVars => ReplayInv'
  BY NextActs, ReplayActs, ReplayReceive, ReplayPanel
<1> QED
  BY <1>1, ReplayInit, RecordIsHonest, ViewTypeCorrect, RecordAlways, SendingAlways, PTL DEF ViewSpec

(* A message shown as cancelled or failed was not taken up by the agent: when nothing is under way, *)
(* the page shows what devhost recorded, and that says of a message that ran that it ran.           *)
THEOREM CancelledMessagesDidNotRun == ViewSpec => []CancelledDidNotRun
<1>1. ViewTypeOK /\ RecordInv /\ ReplayInv => CancelledDidNotRun
  <2> SUFFICES ASSUME ViewTypeOK, RecordInv, ReplayInv, NEW c \in Commands, frames = <<>>,
                      SendState(view, c) \in {"cancelled", "failed"}
               PROVE  native[c] \notin {"running", "ran"}
    BY DEF CancelledDidNotRun
  <2>1. view = record
    BY DEF ReplayInv, Chain
  <2>2. record.states[c] \in Told(c)
    BY DEF RecordInv
  <2> QED
    BY <2>1, <2>2 DEF SendState, Told
<1> QED
  BY <1>1, ViewTypeCorrect, RecordAlways, ReplayAlways, PTL

(* A tracked request counts as settled only when the agent is done with it: each view the page will have, from the *)
(* one that answered the request on, shows the request, or an agent at work, until then.                            *)
THEOREM TrackedRequestsAreOver == ViewSpec => []TrackedIsOver
<1>1. ViewTypeOK /\ ReplayInv => TrackedIsOver
  <2> SUFFICES ASSUME ViewTypeOK, ReplayInv, tracked # Nothing, sent[tracked].state = "queued", Settled(view, tracked)
               PROVE  native[tracked] \in {"ran", "dropped"} \/ tracked \in retried
    BY DEF TrackedIsOver
  <2>1. tracked \in Commands
    BY DEF ViewTypeOK
  <2>2. PICK vs : Chain(vs, frames, view, record) /\ Honest(vs, frames)
    BY DEF ReplayInv
  <2>3. 1 \in 1..Len(vs) /\ vs[1] = view
    BY <2>2 DEF Chain, ViewTypeOK
  <2>4. Fair(view, tracked) /\ Known(view, tracked)
    BY <2>1, <2>2, <2>3 DEF Honest, ToldBefore
  <2> QED
    BY <2>4 DEF Fair, Known, Settled, Out
<1> QED
  BY <1>1, ViewTypeCorrect, ReplayAlways, PTL

-----------------------------------------------------------------------------
(* Waiting for a reply. *)
LEMMA AwaitedRests ==
  ASSUME NEW b \in Boundaries, NEW v, NEW busy, NEW r, r = Awaited(b, v, busy)
  PROVE  /\ r.isPending => b.isPending
         /\ b.hasStarted => r.hasStarted
         /\ Sees(b) => Sees(r)
         /\ v.status = "running" => Sees(r)
         /\ r.isPending /\ b.hasStarted => v.status = "running"
         /\ ~busy /\ r.isPending /\ v.status # "running" => ~r.hasStarted /\ ~HasReply(r, v)
<1>1. b.isPending \in BOOLEAN /\ b.hasStarted \in BOOLEAN
  BY DEF Boundaries
<1>2. CASE b.isPending /\ v.status = "running" /\ ~b.hasStarted
  <2>1. r = [b EXCEPT !.hasStarted = TRUE]
    BY <1>2 DEF Awaited
  <2> QED
    BY <1>1, <1>2, <2>1 DEF Sees, Boundaries
<1>3. CASE b.isPending /\ v.status # "running" /\ (b.hasStarted \/ (~busy /\ HasReply(b, v)))
  <2>1. r = [b EXCEPT !.isPending = FALSE]
    BY <1>3 DEF Awaited
  <2> QED
    BY <1>1, <1>3, <2>1 DEF Sees, Boundaries
<1>4. CASE /\ ~(b.isPending /\ v.status = "running" /\ ~b.hasStarted)
           /\ ~(b.isPending /\ v.status # "running" /\ (b.hasStarted \/ (~busy /\ HasReply(b, v))))
  <2>1. r = b
    BY <1>4 DEF Awaited
  <2> QED
    BY <1>1, <1>4, <2>1 DEF Sees
<1> QED
  BY <1>2, <1>3, <1>4

LEMMA BoundaryActs == ASSUME ViewTypeOK, AnswerInv, BoundaryInv, Acts PROVE BoundaryInv'
<1>1. UNCHANGED <<view, sent, boundary, previous, breaks>>
  BY ActsKeep DEF panel
<1>2. ASSUME breaks = 0, NEW c \in Commands, sent[c].state = "sending", native'[c] # "none"
      PROVE  Sees(boundary) \/ Comes(c)'
  <2>1. CASE native[c] # "none"
    <3>1. Sees(boundary) \/ Comes(c)
      BY <1>2, <2>1 DEF BoundaryInv
    <3>2. ASSUME NEW i \in 1..Len(frames), IsRunning(frames[i]), \A j \in 1..i : ~Answers(frames[j], c)
          PROVE  i \in 1..Len(frames') /\ IsRunning(frames'[i]) /\ \A j \in 1..i : ~Answers(frames'[j], c)
      <4>1. \A j \in 1..i : j \in 1..Len(frames)
        BY ActsAnswer
      <4> QED
        BY <3>2, <4>1, ActsAnswer
    <3>3. Comes(c) => Comes(c)'
      BY <3>2 DEF Comes, IsRunning, Answers
    <3> QED
      BY <3>1, <3>3
  <2>2. CASE native[c] = "none"
    <3>1. Dispatch(c)
      BY <1>2, <2>2, ActsKeep
    <3>2. Speaks(<<>>, State("running"), <<>>)
      BY <3>1, ActsSpeak
    <3>3. State("running") # <<>> /\ IsRunning(State("running")[1]) /\ ~Answers(State("running")[1], c)
      BY DEF State, IsRunning, Answers
    <3>4. PICK i \in 1..Len(frames') : frames'[i] = State("running")[1]
            /\ \A j \in 1..i : j \in 1..Len(frames) \/ frames'[j] = State("running")[1]
      BY <3>2, <3>3, SentOn DEF Speaks, ViewTypeOK
    <3>5. \A j \in 1..Len(frames) : ~Answers(frames'[j], c)
      BY <2>2, ActsAnswer DEF AnswerInv, Before
    <3> QED
      BY <3>3, <3>4, <3>5 DEF Comes, IsRunning, Answers
  <2> QED
    BY <2>1, <2>2
<1> QED
  BY <1>1, <1>2 DEF BoundaryInv, isPreparing, HasReply, Sees

LEMMA BoundaryReceive == ASSUME ViewTypeOK, SendingInv, AnswerInv, BoundaryInv, Receive PROVE BoundaryInv'
<1> DEFINE f == Head(frames)
<1>1. /\ sent \in [Commands -> [state : {"idle", "sending", "queued", "failed", "unconfirmed"}, after : Nat]]
      /\ boundary \in Boundaries /\ previous \in Boundaries
  BY DEF ViewTypeOK
<1>2. UNCHANGED <<native, previous, breaks>> /\ f = frames[1] /\ f \in Frames /\ 1 \in 1..Len(frames)
  BY ShiftedFrames DEF Receive, agent
<1>3. ASSUME NEW c \in Commands, Comes(c), ~IsRunning(f) PROVE Comes(c)'
  <2>1. PICK i \in 1..Len(frames) : IsRunning(frames[i]) /\ \A j \in 1..i : ~Answers(frames[j], c)
    BY <1>3 DEF Comes
  <2>2. i # 1 /\ i - 1 \in 1..Len(frames') /\ frames'[i - 1] = frames[i]
    BY <1>2, <1>3, <2>1, ShiftedFrames
  <2>3. ASSUME NEW j \in 1..(i - 1) PROVE ~Answers(frames'[j], c)
    <3>1. j \in 1..Len(frames') /\ j + 1 \in 1..i
      BY <2>2, ShiftedFrames
    <3> QED
      BY <2>1, <3>1, ShiftedFrames
  <2> QED
    BY <2>1, <2>2, <2>3 DEF Comes, IsRunning, Answers
<1>4. CASE f.type = "result" /\ sent[f.of].state = "sending"
  <2>1. f.of \in Commands /\ f.state \in {"queued", "failed"}
    BY <1>2, <1>4 DEF Frames, EventFrames, StateFrames, ResultFrames
  <2> DEFINE b == IF f.state = "failed" THEN previous ELSE boundary
  <2>2. sent' = [sent EXCEPT ![f.of].state = f.state] /\ view' = view /\ boundary' = Awaited(b, view, FALSE)
    BY <1>4 DEF Receive, Settle
  <2>3. \A c \in Commands : sent'[c].state # "sending"
    BY <1>1, <1>4, <2>1, <2>2 DEF SendingInv
  <2>4. b \in Boundaries
    BY <1>1
  <2>5. ASSUME breaks = 0 PROVE Sees(b)
    <3>1. CASE f.state = "failed"
      BY <1>4, <2>1, <2>5, <3>1 DEF BoundaryInv, isPreparing
    <3>2. CASE f.state # "failed"
      <4>1. Answers(frames[1], f.of)
        BY <1>2, <1>4 DEF Answers
      <4>2. native[f.of] # "none"
        BY <1>2, <2>1, <4>1 DEF AnswerInv, Before
      <4>3. ~Comes(f.of)
        <5>1. \A i \in 1..Len(frames) : 1 \in 1..i
          BY ShiftedFrames
        <5> QED
          BY <4>1, <5>1 DEF Comes
      <4> QED
        BY <1>4, <2>1, <2>5, <3>2, <4>2, <4>3 DEF BoundaryInv
    <3> QED
      BY <3>1, <3>2
  <2> HIDE DEF b
  <2>6. /\ boundary'.isPending => b.isPending
        /\ b.hasStarted => boundary'.hasStarted
        /\ boundary'.isPending /\ b.hasStarted => view.status = "running"
        /\ boundary'.isPending /\ view.status # "running" => ~boundary'.hasStarted /\ ~HasReply(boundary', view)
    BY <2>2, <2>4, AwaitedRests
  <2>7. HasReply(boundary, view)' => HasReply(boundary', view)
    BY <2>2 DEF HasReply
  <2>8. ~isPreparing'
    BY <2>3 DEF isPreparing
  <2> QED
    BY <1>2, <2>2, <2>3, <2>5, <2>6, <2>7, <2>8 DEF BoundaryInv, Sees
<1>5. CASE f.type = "result" /\ sent[f.of].state # "sending"
  <2>1. UNCHANGED <<view, sent, boundary>>
    BY <1>5 DEF Receive
  <2>2. ~IsRunning(f)
    BY <1>5 DEF IsRunning
  <2> QED
    BY <1>2, <1>3, <2>1, <2>2 DEF BoundaryInv, isPreparing, HasReply, Sees
<1>6. CASE f.type # "result"
  <2>1. view' = Viewed(view, f) /\ boundary' = Awaited(boundary, view', isPreparing) /\ sent' = sent
    BY <1>6 DEF Receive
  <2>2. /\ boundary'.isPending => boundary.isPending
        /\ boundary.hasStarted => boundary'.hasStarted
        /\ Sees(boundary) => Sees(boundary')
        /\ view'.status = "running" => Sees(boundary')
        /\ boundary'.isPending /\ boundary.hasStarted => view'.status = "running"
        /\ ~isPreparing /\ boundary'.isPending /\ view'.status # "running" => ~boundary'.hasStarted /\ ~HasReply(boundary', view')
    BY <1>1, <2>1, AwaitedRests
  <2>3. IsRunning(f) => view'.status = "running"
    <3>1. view \in Views
      BY DEF ViewTypeOK
    <3> QED
      BY <2>1, <3>1 DEF IsRunning, Viewed, Views
  <2>4. HasReply(boundary, view)' => HasReply(boundary', view')
    BY DEF HasReply
  <2>5. isPreparing' = isPreparing
    BY <2>1 DEF isPreparing
  <2>6. \A c \in Commands : Sees(boundary) \/ Comes(c) => Sees(boundary') \/ Comes(c)'
    BY <1>3, <2>2, <2>3
  <2> QED
    BY <1>2, <2>1, <2>2, <2>4, <2>5, <2>6 DEF BoundaryInv, Sees
<1> QED
  BY <1>4, <1>5, <1>6

LEMMA BoundaryPanel ==
  ASSUME ViewTypeOK, UnsentInv, BoundaryInv, Reconnect \/ Interrupt \/ (\E c \in Commands : Send(c)) \/ UNCHANGED viewVars
  PROVE  BoundaryInv'
<1>1. /\ sent \in [Commands -> [state : {"idle", "sending", "queued", "failed", "unconfirmed"}, after : Nat]]
      /\ boundary \in Boundaries
  BY DEF ViewTypeOK
<1>2. CASE Reconnect
  <2>1. \A c \in Commands : sent'[c].state # "sending"
    BY <1>1, <1>2 DEF Reconnect
  <2>2. breaks' # 0
    BY <1>2, Counters DEF Reconnect
  <2>3. boundary' = Awaited(boundary, view', FALSE)
    BY <1>2 DEF Reconnect
  <2>4. boundary'.isPending /\ view'.status # "running" => ~boundary'.hasStarted /\ ~HasReply(boundary', view')
    BY <1>1, <2>3, AwaitedRests
  <2>5. HasReply(boundary, view)' => HasReply(boundary', view')
    BY DEF HasReply
  <2> QED
    BY <2>1, <2>2, <2>4, <2>5 DEF BoundaryInv
<1>3. CASE Interrupt
  <2>1. UNCHANGED <<native, sent, view, previous, breaks>> /\ ~boundary'.isPending
    BY <1>1, <1>3 DEF Interrupt, agent, Boundaries
  <2> QED
    BY <2>1 DEF BoundaryInv, Sees, isPreparing
<1>4. ASSUME NEW c \in Commands, Send(c) PROVE BoundaryInv'
  <2>1. UNCHANGED <<native, view, breaks>> /\ previous' = boundary /\ ~isPreparing /\ sent[c].state = "idle"
    BY <1>4 DEF Send, agent
  <2>2. sent'[c].state = "sending" /\ \A d \in Commands : d # c => sent'[d] = sent[d]
    BY <1>1, <1>4 DEF Send
  <2>3. isPreparing' /\ \A d \in Commands : sent'[d].state = "sending" => native'[d] = "none"
    BY <2>1, <2>2 DEF isPreparing, UnsentInv
  <2>4. breaks = 0 => Sees(boundary)
    BY <2>1 DEF BoundaryInv, Sees
  <2>5. Sees(boundary) => Sees(previous)'
    BY <2>1 DEF Sees
  <2> QED
    BY <2>1, <2>3, <2>4, <2>5 DEF BoundaryInv
<1>5. CASE UNCHANGED viewVars
  <2>1. UNCHANGED <<native, sent, view, boundary, previous, breaks, frames>>
    BY <1>5, Stutter
  <2> QED
    BY <2>1 DEF BoundaryInv, Sees, isPreparing, HasReply, Comes, IsRunning, Answers
<1> QED
  BY <1>2, <1>3, <1>4, <1>5

LEMMA BoundaryAlways == ViewSpec => []BoundaryInv
<1>1. ViewInit => BoundaryInv
  BY DEF ViewInit, BoundaryInv, NoBoundary, isPreparing, Sees
<1>2. ViewTypeOK /\ UnsentInv /\ SendingInv /\ AnswerInv /\ BoundaryInv /\ [ViewNext]_viewVars => BoundaryInv'
  BY NextActs, BoundaryActs, BoundaryReceive, BoundaryPanel
<1> QED
  BY <1>1, <1>2, ViewTypeCorrect, SendingAlways, PTL DEF ViewSpec

(* When the agent is idle and nothing is under way, the panel awaits no reply, but for what a lost connection hid. *)
THEOREM WaitingEnds == ViewSpec => []BusyEnds
<1>1. ViewTypeOK /\ RecordInv /\ SendingInv /\ ReplayInv /\ BoundaryInv => BusyEnds
  <2> SUFFICES ASSUME ViewTypeOK, RecordInv, SendingInv, ReplayInv, BoundaryInv,
                      frames = <<>>, status = "idle", \A c \in Commands : way[c] # "here", boundary.isPending
               PROVE  breaks > 0 /\ ~boundary.hasStarted /\ ~HasReply(boundary, view)
    BY DEF BusyEnds
  <2>1. view = record
    BY DEF ReplayInv, Chain
  <2>2. view.status # "running"
    BY <2>1 DEF RecordInv
  <2>3. \A i \in 1..Len(frames) : FALSE
    OBVIOUS
  <2>4. ~isPreparing
    BY <2>3 DEF SendingInv, isPreparing
  <2>5. ~boundary.hasStarted /\ ~HasReply(boundary, view) /\ breaks # 0
    BY <2>2, <2>4 DEF BoundaryInv
  <2>6. breaks \in Nat
    BY Counters
  <2> QED
    BY <2>5, <2>6
<1> QED
  BY <1>1, ViewTypeCorrect, RecordAlways, SendingAlways, ReplayAlways, BoundaryAlways, PTL
=============================================================================
