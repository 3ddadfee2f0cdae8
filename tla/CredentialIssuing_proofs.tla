----------------------- MODULE CredentialIssuing_proofs -----------------------
(* Type correctness of issuing, that a credential is about the robot that was  *)
(* checked for it, that what is anchored is recognised and that the page shows *)
(* true anchors, for any number of invocations, robots and types.              *)
EXTENDS CredentialIssuing, TLAPS

(* What is known of an invocation t while robot is selected.  Nothing is signed *)
(* before its check, and what it anchors is a credential.  Before it signs for *)
(* the selection, an invocation on the page has checked the selection, unless  *)
(* that has moved.  After it has signed, its subject is what it checked.       *)
Sound(t, robot) ==
  /\ t.at \in {"idle", "wallet", "record"} => t.vc = NoCredential
  /\ t.at = "anchor" => t.about # NoTask
  /\ t.at \in {"record", "check"} /\ t.place = "browser" /\ t.model # SELF /\ t.steady
       => t.checked = robot
  /\ t.vc # NoCredential /\ (t.steady \/ t.model = SELF \/ t.place = "cli")
       => t.vc.subject = t.checked

IssuingInv == TypeOK /\ \A c \in Task : Sound(task[c], selectedRobot)

LEMMA NewCredentialType ==
  ASSUME NEW type \in Type, NEW model, NEW subject \in Robot \cup {NoRobot}
  PROVE  NewCredential(type, model, subject) \in Credential
<1>1. type \in CredentialType
  BY TaskAssumption
<1> QED
  BY <1>1 DEF NewCredential, Credential

LEMMA InitTypes == Init => TypeOK
<1> SUFFICES ASSUME Init PROVE TypeOK
  OBVIOUS
<1>1. NotStarted \in Invocation
  BY DEF NotStarted, Invocation
<1>2. BlankPanels \in [Model -> [credential : Shown, anchor : Task \cup {NoTask}]]
  BY DEF BlankPanels, Placeholder, Shown
<1> QED
  BY <1>1, <1>2 DEF Init, TypeOK, Shown

(* One invocation changes, the others stay as they are.                        *)
LEMMA OneChanges ==
  ASSUME task \in [Task -> Invocation], NEW c \in Task, NEW e \in Invocation,
         task' = [task EXCEPT ![c] = e]
  PROVE  /\ task' \in [Task -> Invocation]
         /\ task'[c] = e
         /\ \A x \in Task \ {c} : task'[x] = task[x]
  OBVIOUS

LEMMA WithChecked ==
  ASSUME NEW e \in Invocation, NEW where \in {"record", "check"}, NEW r \in Robot \cup {NoRobot}
  PROVE  [e EXCEPT !.at = where, !.checked = r] \in Invocation
  BY DEF Invocation

LEMMA WithCredential ==
  ASSUME NEW e \in Invocation, NEW vc \in Credential
  PROVE  [e EXCEPT !.at = "signature", !.vc = vc] \in Invocation
  BY DEF Invocation

LEMMA WithAnchor ==
  ASSUME NEW e \in Invocation, NEW where \in {"done", "anchor"}, NEW a \in Task \cup {NoTask}
  PROVE  [e EXCEPT !.at = where, !.about = a] \in Invocation
  BY DEF Invocation

LEMMA SubjectType ==
  ASSUME TypeOK, NEW c \in Task PROVE SubjectOf(c) \in Robot \cup {NoRobot}
  BY DEF TypeOK, SubjectOf, Invocation

(* Every step but a selection changes one invocation, to one of the right type. *)
LEMMA IssueChangesOne ==
  ASSUME TypeOK, NEW c \in Task, Issue(c)
  PROVE  \E t \in Invocation : Continue(c, t)
<1>1. task[c] \in Invocation
  BY DEF TypeOK
<1>2. ASSUME NEW model \in Model, Click(c, model) PROVE \E t \in Invocation : Continue(c, t)
  <2>1. [task[c] EXCEPT !.place = "browser", !.model = model, !.at = "wallet"] \in Invocation
    BY <1>1 DEF Place, Invocation
  <2> QED
    BY <1>2, <2>1 DEF Click
<1>3. ASSUME NEW model \in Model, NEW r \in Robot, Run(c, model, r)
      PROVE  \E t \in Invocation : Continue(c, t)
  <2>1. [task[c] EXCEPT !.place = "cli", !.model = model, !.at = "check", !.checked = r]
          \in Invocation
    BY <1>1 DEF Place, Invocation
  <2> QED
    BY <1>3, <2>1 DEF Run
<1>4. CASE AskRegistry(c)
  <2> DEFINE where == IF task[c].model = SELF THEN "check" ELSE "record"
  <2>1. [task[c] EXCEPT !.at = where, !.checked = selectedRobot] \in Invocation
    BY <1>1, WithChecked DEF TypeOK
  <2> QED
    BY <1>4, <2>1 DEF AskRegistry
<1>5. CASE AskAuthority(c)
  <2> DEFINE robot == IF task[c].model = CONTROLLER THEN selectedRobot ELSE task[c].checked
  <2>1. robot \in Robot \cup {NoRobot}
    BY <1>1 DEF TypeOK, Invocation
  <2>2. [task[c] EXCEPT !.at = "check", !.checked = robot] \in Invocation
    BY <1>1, <2>1, WithChecked
  <2> QED
    BY <1>5, <2>2 DEF AskAuthority
<1>6. ASSUME NEW type \in Type, Sign(c, type) PROVE \E t \in Invocation : Continue(c, t)
  <2> DEFINE vc == NewCredential(type, task[c].model, SubjectOf(c))
  <2>1. vc \in Credential
    BY SubjectType, NewCredentialType
  <2>2. [task[c] EXCEPT !.at = "signature", !.vc = vc] \in Invocation
    BY <1>1, <2>1, WithCredential
  <2> QED
    BY <1>6, <2>2 DEF Sign
<1>7. ASSUME NEW ends \in BOOLEAN, GoOn(c, ends) PROVE \E t \in Invocation : Continue(c, t)
  <2> DEFINE where == IF ends THEN "done" ELSE "anchor"
             about == IF ends THEN NoTask ELSE c
  <2>1. [task[c] EXCEPT !.at = where, !.about = about] \in Invocation
    BY <1>1, WithAnchor
  <2> QED
    BY <1>7, <2>1 DEF GoOn
<1>8. ASSUME NEW type \in Type, AnchorFile(c, type) PROVE \E t \in Invocation : Continue(c, t)
  <2>1. file[type] \in Task \cup {NoTask}
    BY DEF TypeOK
  <2>2. [task[c] EXCEPT !.place = "cli", !.at = "anchor", !.about = file[type]] \in Invocation
    BY <1>1, <2>1 DEF Place, Invocation
  <2> QED
    BY <1>8, <2>2 DEF AnchorFile
<1>9. ASSUME NEW where \in {"receipt", "done"}, Await(c, where)
      PROVE  \E t \in Invocation : Continue(c, t)
  <2>1. [task[c] EXCEPT !.at = where] \in Invocation
    BY <1>1 DEF Invocation
  <2> QED
    BY <1>9, <2>1 DEF Await
<1>10. CASE \E gasMode \in GasMode : WriteOutput(c, gasMode) \/ WriteFile(c, gasMode)
  BY <1>10, <1>7 DEF WriteOutput, WriteFile
<1>11. CASE MineAnchor(c) \/ AppendAnchorResult(c) \/ Finish(c) \/ Fail(c)
  BY <1>11, <1>9 DEF MineAnchor, AppendAnchorResult, Finish, Fail
<1> QED
  BY <1>2, <1>3, <1>4, <1>5, <1>6, <1>8, <1>10, <1>11 DEF Issue

(* The rest of the page and the files.                                         *)
LEMMA IssueTypes ==
  ASSUME TypeOK, NEW c \in Task, Sound(task[c], selectedRobot), Issue(c) PROVE TypeOK'
<1>1. task' \in [Task -> Invocation]
  BY IssueChangesOne, OneChanges DEF Continue, TypeOK
<1>2. CASE UNCHANGED <<selectedRobot, panel, credentialText, replaced, file, anchored>>
  BY <1>1, <1>2 DEF TypeOK
<1>3. ASSUME NEW gasMode \in GasMode, WriteOutput(c, gasMode) PROVE TypeOK'
  <2>1. BlankPanels \in [Model -> [credential : Shown, anchor : Task \cup {NoTask}]]
    BY DEF BlankPanels, Placeholder, Shown
  <2>2. [BlankPanels EXCEPT ![task[c].model].credential = c]
          \in [Model -> [credential : Shown, anchor : Task \cup {NoTask}]]
    BY <2>1 DEF Shown
  <2>3. panel' \in [Model -> [credential : Shown, anchor : Task \cup {NoTask}]]
    BY <1>3, <2>1, <2>2 DEF WriteOutput
  <2> QED
    BY <1>1, <1>3, <2>3 DEF WriteOutput, WriteText, Anchoring, Shown, TypeOK
<1>4. CASE AppendAnchorResult(c)
  <2> DEFINE model == task[c].model
             shown == IF credentialText # NoTask THEN credentialText ELSE panel[model].credential
  <2>1. CASE model \in Model
    <3>1. shown \in Shown
      BY <2>1 DEF TypeOK
    <3>2. panel' = [panel EXCEPT ![model] = [credential |-> shown, anchor |-> c]]
      BY <1>4 DEF AppendAnchorResult
    <3> HIDE DEF shown, model
    <3>3. panel' \in [Model -> [credential : Shown, anchor : Task \cup {NoTask}]]
      BY <3>1, <3>2 DEF TypeOK
    <3> QED
      BY <1>1, <1>4, <3>3 DEF AppendAnchorResult, TypeOK
  <2>2. CASE model \notin Model
    <3>1. panel' = [panel EXCEPT ![model] = [credential |-> shown, anchor |-> c]]
      BY <1>4 DEF AppendAnchorResult
    <3> HIDE DEF shown, model
    <3>2. panel' \in [Model -> [credential : Shown, anchor : Task \cup {NoTask}]]
      BY <2>2, <3>1 DEF TypeOK
    <3> QED
      BY <1>1, <1>4, <3>2 DEF AppendAnchorResult, TypeOK
  <2> QED
    BY <2>1, <2>2
<1>5. ASSUME NEW gasMode \in GasMode, WriteFile(c, gasMode) PROVE TypeOK'
  BY <1>1, <1>5 DEF WriteFile, TypeOK
<1>6. CASE MineAnchor(c)
  <2>1. task[c].about # NoTask => task[c].about \in Task
    BY DEF TypeOK, Invocation
  <2>2. task[c].about \in Task
    BY <1>6, <2>1 DEF MineAnchor, Sound
  <2> QED
    BY <1>1, <1>6, <2>2 DEF MineAnchor, TypeOK
<1>7. CASE Fail(c)
  <2>1. BlankPanels \in [Model -> [credential : Shown, anchor : Task \cup {NoTask}]]
    BY DEF BlankPanels, Placeholder, Shown
  <2> QED
    BY <1>1, <1>7, <2>1 DEF Fail, TypeOK
<1> QED
  BY <1>2, <1>3, <1>4, <1>5, <1>6, <1>7
     DEF Issue, Click, Run, AskRegistry, AskAuthority, Sign, AnchorFile, Finish

------------------------------------------------------------------------------
LEMMA InitSound == Init => IssuingInv
<1> SUFFICES ASSUME Init PROVE IssuingInv
  OBVIOUS
<1>1. Sound(NotStarted, selectedRobot)
  BY DEF Sound, NotStarted
<1> QED
  BY <1>1, InitTypes DEF Init, IssuingInv

(* The invocation that goes on stays sound ...                                 *)
LEMMA IssueSound ==
  ASSUME IssuingInv, NEW c \in Task, Issue(c)
  PROVE  Sound(task'[c], selectedRobot') /\ selectedRobot' = selectedRobot
<1>1. task[c] \in Invocation /\ task \in [Task -> Invocation] /\ Sound(task[c], selectedRobot)
  BY DEF IssuingInv, TypeOK
<1>2. \A t : Continue(c, t) => task'[c] = t
  BY <1>1 DEF Continue
<1>3. selectedRobot' = selectedRobot
  BY DEF Issue, Click, Run, AskRegistry, AskAuthority, Sign, AnchorFile, WriteOutput,
         WriteFile, MineAnchor, AppendAnchorResult, Finish, Fail
<1> SUFFICES Sound(task'[c], selectedRobot)
  BY <1>3
<1>4. ASSUME NEW model \in Model, Click(c, model) PROVE Sound(task'[c], selectedRobot)
  <2>1. task'[c] = [task[c] EXCEPT !.place = "browser", !.model = model, !.at = "wallet"]
    BY <1>2, <1>4 DEF Click
  <2>2. task[c].at = "idle"
    BY <1>4 DEF Click
  <2> QED
    BY <1>1, <2>1, <2>2 DEF Sound, Invocation
<1>5. ASSUME NEW model \in Model, NEW r \in Robot, Run(c, model, r)
      PROVE  Sound(task'[c], selectedRobot)
  <2>1. task'[c] = [task[c] EXCEPT !.place = "cli", !.model = model, !.at = "check", !.checked = r]
    BY <1>2, <1>5 DEF Run
  <2>2. task[c].at = "idle"
    BY <1>5 DEF Run
  <2> QED
    BY <1>1, <2>1, <2>2 DEF Sound, Invocation
<1>6. CASE AskRegistry(c)
  <2> DEFINE where == IF task[c].model = SELF THEN "check" ELSE "record"
  <2>1. task'[c] = [task[c] EXCEPT !.at = where, !.checked = selectedRobot]
    BY <1>2, <1>6 DEF AskRegistry
  <2>2. task[c].at = "wallet" /\ where \in {"check", "record"}
    BY <1>6 DEF AskRegistry, In
  <2> HIDE DEF where
  <2> QED
    BY <1>1, <2>1, <2>2 DEF Sound, Invocation
<1>7. CASE AskAuthority(c)
  <2> DEFINE robot == IF task[c].model = CONTROLLER THEN selectedRobot ELSE task[c].checked
  <2>1. task'[c] = [task[c] EXCEPT !.at = "check", !.checked = robot]
    BY <1>2, <1>7 DEF AskAuthority
  <2>2. task[c].at = "record"
    BY <1>7 DEF AskAuthority, In
  <2>3. task[c].place = "browser" /\ task[c].model # SELF /\ task[c].steady => robot = selectedRobot
    BY <1>1, <2>2 DEF Sound
  <2> HIDE DEF robot
  <2> QED
    BY <1>1, <2>1, <2>2, <2>3 DEF Sound, Invocation
<1>8. ASSUME NEW type \in Type, Sign(c, type) PROVE Sound(task'[c], selectedRobot)
  <2> DEFINE vc == NewCredential(type, task[c].model, SubjectOf(c))
  <2>1. task'[c] = [task[c] EXCEPT !.at = "signature", !.vc = vc]
    BY <1>2, <1>8 DEF Sign
  <2>2. vc.subject = SubjectOf(c)
    BY DEF NewCredential
  <2>3. task[c].steady \/ task[c].model = SELF \/ task[c].place = "cli"
          => SubjectOf(c) = task[c].checked
    BY <1>1, <1>8 DEF Sound, SubjectOf, Sign
  <2> HIDE DEF vc
  <2> QED
    BY <1>1, <2>1, <2>2, <2>3 DEF Sound, Invocation
<1>9. ASSUME NEW ends \in BOOLEAN, GoOn(c, ends) PROVE Sound(task'[c], selectedRobot)
  <2> DEFINE where == IF ends THEN "done" ELSE "anchor"
             about == IF ends THEN NoTask ELSE c
  <2>1. task'[c] = [task[c] EXCEPT !.at = where, !.about = about]
    BY <1>2, <1>9 DEF GoOn
  <2>2. where \in {"done", "anchor"} /\ (where = "anchor" => about # NoTask)
    BY TaskAssumption
  <2> HIDE DEF where, about
  <2> QED
    BY <1>1, <2>1, <2>2 DEF Sound, Invocation
<1>10. ASSUME NEW type \in Type, AnchorFile(c, type) PROVE Sound(task'[c], selectedRobot)
  <2>1. task'[c] = [task[c] EXCEPT !.place = "cli", !.at = "anchor", !.about = file[type]]
    BY <1>2, <1>10 DEF AnchorFile
  <2>2. task[c].at = "idle" /\ file[type] # NoTask
    BY <1>10 DEF AnchorFile
  <2> QED
    BY <1>1, <2>1, <2>2 DEF Sound, Invocation
<1>11. ASSUME NEW where \in {"receipt", "done"}, Await(c, where)
       PROVE  Sound(task'[c], selectedRobot)
  <2>1. task'[c] = [task[c] EXCEPT !.at = where]
    BY <1>2, <1>11 DEF Await
  <2> QED
    BY <1>1, <2>1 DEF Sound, Invocation
<1>12. CASE \E gasMode \in GasMode : WriteOutput(c, gasMode) \/ WriteFile(c, gasMode)
  BY <1>9, <1>12 DEF WriteOutput, WriteFile
<1>13. CASE MineAnchor(c) \/ AppendAnchorResult(c) \/ Finish(c) \/ Fail(c)
  BY <1>11, <1>13 DEF MineAnchor, AppendAnchorResult, Finish, Fail
<1> QED
  BY <1>4, <1>5, <1>6, <1>7, <1>8, <1>10, <1>12, <1>13 DEF Issue

(* ... and so do all of them when the selection moves.                         *)
LEMMA SelectSound ==
  ASSUME IssuingInv, NEW r \in Robot \cup {NoRobot}, SelectRobot(r)
  PROVE  IssuingInv'
<1>1. task \in [Task -> Invocation]
  BY DEF IssuingInv, TypeOK
<1>2. ASSUME NEW c \in Task
      PROVE  task'[c] \in Invocation /\ Sound(task'[c], r)
  <2>1. task[c] \in Invocation /\ Sound(task[c], selectedRobot)
    BY DEF IssuingInv, TypeOK
  <2>2. CASE task[c].at \notin {"idle", "done"} /\ task[c].place = "browser"
    <3>1. task'[c] = [task[c] EXCEPT !.steady = FALSE]
      BY <2>2, <1>1 DEF SelectRobot
    <3> QED
      BY <2>1, <2>2, <3>1 DEF Sound, Invocation
  <2>3. CASE ~ (task[c].at \notin {"idle", "done"} /\ task[c].place = "browser")
    <3>1. task'[c] = task[c]
      BY <2>3, <1>1 DEF SelectRobot
    <3> QED
      BY <2>1, <2>3, <3>1 DEF Sound
  <2> QED
    BY <2>2, <2>3
<1>3. task' \in [Task -> Invocation]
  BY <1>1, <1>2 DEF SelectRobot
<1>4. TypeOK'
  BY <1>3 DEF SelectRobot, IssuingInv, TypeOK
<1>5. selectedRobot' = r
  BY DEF SelectRobot
<1> QED
  BY <1>2, <1>4, <1>5 DEF IssuingInv

LEMMA StepSound == IssuingInv /\ [Next]_vars => IssuingInv'
<1> SUFFICES ASSUME IssuingInv, [Next]_vars PROVE IssuingInv'
  OBVIOUS
<1>1. ASSUME NEW c \in Task, Issue(c) PROVE IssuingInv'
  <2>1. TypeOK /\ Sound(task[c], selectedRobot)
    BY DEF IssuingInv
  <2>2. TypeOK'
    BY <1>1, <2>1, IssueTypes
  <2>3. \A x \in Task \ {c} : task'[x] = task[x]
    BY <1>1, <2>1, IssueChangesOne, OneChanges DEF Continue, TypeOK
  <2>4. Sound(task'[c], selectedRobot') /\ selectedRobot' = selectedRobot
    BY <1>1, IssueSound
  <2>5. ASSUME NEW x \in Task PROVE Sound(task'[x], selectedRobot')
    BY <2>3, <2>4 DEF IssuingInv
  <2> QED
    BY <2>2, <2>5 DEF IssuingInv
<1>2. ASSUME NEW text \in Shown, EditText(text) PROVE IssuingInv'
  BY <1>2 DEF EditText, WriteText, Anchoring, IssuingInv, TypeOK, Sound
<1>3. CASE UNCHANGED vars
  BY <1>3 DEF vars, IssuingInv, TypeOK, Sound
<1> QED
  BY <1>1, <1>2, <1>3, SelectSound DEF Next

LEMMA IssuingCorrect == Spec => []IssuingInv
  BY InitSound, StepSound, PTL DEF Spec

(* Every variable of issuing has its type in every reachable state.            *)
THEOREM IssuingTypes == Spec => []TypeOK
<1>1. IssuingInv => TypeOK
  BY DEF IssuingInv
<1> QED
  BY <1>1, IssuingCorrect, PTL

(* Whatever is selected while credentials are being issued, one that is        *)
(* self-signed, or from the command line, or issued while the selection stood  *)
(* still, is about the robot that was checked for it (the three issuing        *)
(* handlers of ui/js/credentials/issue.js and the programs).                   *)
THEOREM SubjectWasChecked == Spec => []CheckedSubject
<1>1. IssuingInv => CheckedSubject
  BY DEF IssuingInv, Sound, CheckedSubject
<1> QED
  BY <1>1, IssuingCorrect, PTL
------------------------------------------------------------------------------
(* The tables.                                                                 *)

(* Of an issuer that is not the subject, the type tells the model.             *)
LEMMA NotBoth ==
  ASSUME NEW type \in CredentialType
  PROVE  ~ (SupportsIssuanceModel(type, CONTROLLER) /\ SupportsIssuanceModel(type, EXTERNAL))
  BY DEF CredentialType, AllowedIssuanceModels, SupportsIssuanceModel, SELF, CONTROLLER, EXTERNAL

LEMMA TemplateComplete ==
  ASSUME NEW type \in CredentialType
  PROVE  RequiredSubjectFields[type] \subseteq SubjectTemplate[type]
  BY DEF CredentialType, AllowedIssuanceModels, RequiredSubjectFields, SubjectTemplate

(* Whoever issues a credential, of any of the eight types, its subject has all *)
(* the fields that its type requires (credentialSubjectForType against         *)
(* verifyCredentialTypeAndSchema).                                             *)
THEOREM SchemaSatisfied ==
  ASSUME NEW type \in CredentialType, NEW model \in Model, NEW place \in Place
  PROVE  MissingSubjectFields(type, SubjectFields(place, model, type)) = {}
<1>1. SubjectTemplate[type] \subseteq SubjectFields(place, model, type)
  BY DEF SubjectFields
<1> QED
  BY <1>1, TemplateComplete DEF MissingSubjectFields

(* Whatever its model, a new credential about a robot is taken for what it is  *)
(* (buildSignedCredential against detectIssuanceModel).                        *)
LEMMA NewDetected ==
  ASSUME NEW type \in CredentialType, NEW model \in Model, NEW subject \in Robot,
         SupportsIssuanceModel(type, model)
  PROVE  DetectIssuanceModel(NewCredential(type, model, subject)) = model
<1> DEFINE vc == NewCredential(type, model, subject)
           possible == {m \in AllowedIssuanceModels[vc.type] : (m = SELF) <=> (vc.issuer = vc.subject)}
<1> SUFFICES DetectIssuanceModel(vc) = model
  OBVIOUS
<1>1. vc.type = type /\ vc.subject = subject /\ vc.subject # NoRobot
  BY NamesAssumption DEF NewCredential
<1>2. vc.issuer = vc.subject <=> model = SELF
  BY <1>1, NamesAssumption DEF NewCredential
<1>3. \A m : m \in possible <=> SupportsIssuanceModel(type, m) /\ ((m = SELF) <=> (model = SELF))
  BY <1>1, <1>2 DEF SupportsIssuanceModel
<1>4. SELF # CONTROLLER /\ SELF # EXTERNAL /\ CONTROLLER # EXTERNAL
  BY DEF SELF, CONTROLLER, EXTERNAL
<1>5. DetectIssuanceModel(vc) = CASE vc.subject = NoRobot -> "none"
        [] CONTROLLER \in possible -> CONTROLLER
        [] EXTERNAL \in possible -> EXTERNAL
        [] SELF \in possible -> SELF
        [] OTHER -> "none"
  BY DEF DetectIssuanceModel
<1> HIDE DEF vc, possible
<1>6. CASE model = SELF
  <2>1. CONTROLLER \notin possible /\ EXTERNAL \notin possible /\ SELF \in possible
    BY <1>3, <1>4, <1>6
  <2> QED
    BY <1>1, <1>4, <1>5, <1>6, <2>1
<1>7. CASE model = CONTROLLER
  <2>1. CONTROLLER \in possible /\ EXTERNAL \notin possible /\ SELF \notin possible
    BY <1>3, <1>4, <1>7, NotBoth
  <2> QED
    BY <1>1, <1>4, <1>5, <1>7, <2>1
<1>8. CASE model = EXTERNAL
  <2>1. CONTROLLER \notin possible /\ EXTERNAL \in possible /\ SELF \notin possible
    BY <1>3, <1>4, <1>8, NotBoth
  <2> QED
    BY <1>1, <1>4, <1>5, <1>8, <2>1
<1> QED
  BY <1>6, <1>7, <1>8 DEF Model
------------------------------------------------------------------------------
(* What an invocation signs and what becomes of it.  Nothing is signed before  *)
(* its check; what is signed is a new credential of a type that allows the     *)
(* model, and a program's is about a robot.                                    *)
Made(t) ==
  /\ t.at \in {"idle", "wallet", "record", "check"} => t.vc = NoCredential
  /\ t.at \in {"wallet", "record", "check", "signature"} => t.model \in Model /\ t.place \in Place
  /\ t.at \in {"check", "signature"} /\ t.place = "cli" => t.checked \in Robot
  /\ t.at = "signature" => t.vc # NoCredential
  /\ t.vc # NoCredential =>
       /\ t.model \in Model /\ t.place \in Place
       /\ SupportsIssuanceModel(t.vc.type, t.model)
       /\ t.vc = NewCredential(t.vc.type, t.model, t.vc.subject)
       /\ t.place = "cli" => t.vc.subject \in Robot

(* What is signed stays as it is.                                              *)
Kept(t, u) ==
  t.vc # NoCredential => u.vc = t.vc /\ u.model = t.model /\ u.place = t.place

LEMMA MadeNew ==
  ASSUME NEW type \in Type, NEW model \in Model, NEW subject \in Robot \cup {NoRobot}
  PROVE  LET vc == NewCredential(type, model, subject) IN
         /\ vc # NoCredential
         /\ vc.type = type /\ vc.subject = subject
         /\ vc = NewCredential(vc.type, model, vc.subject)
<1>1. type \in CredentialType /\ "none" \notin CredentialType
  BY TaskAssumption DEF CredentialType, AllowedIssuanceModels
<1> QED
  BY <1>1 DEF NewCredential, NoCredential

LEMMA IssueMade ==
  ASSUME TypeOK, NEW c \in Task, Made(task[c]), Issue(c)
  PROVE  Made(task'[c]) /\ Kept(task[c], task'[c])
<1>1. task[c] \in Invocation /\ task \in [Task -> Invocation]
  BY DEF TypeOK
<1>2. \A t : Continue(c, t) => task'[c] = t
  BY <1>1 DEF Continue
<1>3. ASSUME NEW model \in Model, Click(c, model) PROVE Made(task'[c]) /\ Kept(task[c], task'[c])
  <2>1. task'[c] = [task[c] EXCEPT !.place = "browser", !.model = model, !.at = "wallet"]
    BY <1>2, <1>3 DEF Click
  <2>2. task[c].at = "idle"
    BY <1>3 DEF Click
  <2> QED
    BY <1>1, <2>1, <2>2 DEF Made, Kept, Invocation, Place
<1>4. ASSUME NEW model \in Model, NEW r \in Robot, Run(c, model, r)
      PROVE  Made(task'[c]) /\ Kept(task[c], task'[c])
  <2>1. task'[c] = [task[c] EXCEPT !.place = "cli", !.model = model, !.at = "check", !.checked = r]
    BY <1>2, <1>4 DEF Run
  <2>2. task[c].at = "idle"
    BY <1>4 DEF Run
  <2> QED
    BY <1>1, <2>1, <2>2 DEF Made, Kept, Invocation, Place
<1>5. CASE AskRegistry(c)
  <2> DEFINE where == IF task[c].model = SELF THEN "check" ELSE "record"
  <2>1. task'[c] = [task[c] EXCEPT !.at = where, !.checked = selectedRobot]
    BY <1>2, <1>5 DEF AskRegistry
  <2>2. task[c].at = "wallet" /\ task[c].place = "browser" /\ where \in {"check", "record"}
    BY <1>5 DEF AskRegistry, In
  <2> HIDE DEF where
  <2> QED
    BY <1>1, <2>1, <2>2 DEF Made, Kept, Invocation
<1>6. CASE AskAuthority(c)
  <2> DEFINE robot == IF task[c].model = CONTROLLER THEN selectedRobot ELSE task[c].checked
  <2>1. task'[c] = [task[c] EXCEPT !.at = "check", !.checked = robot]
    BY <1>2, <1>6 DEF AskAuthority
  <2>2. task[c].at = "record" /\ task[c].place = "browser"
    BY <1>6 DEF AskAuthority, In
  <2> HIDE DEF robot
  <2> QED
    BY <1>1, <2>1, <2>2 DEF Made, Kept, Invocation
<1>7. ASSUME NEW type \in Type, Sign(c, type) PROVE Made(task'[c]) /\ Kept(task[c], task'[c])
  <2> DEFINE vc == NewCredential(type, task[c].model, SubjectOf(c))
  <2>1. task'[c] = [task[c] EXCEPT !.at = "signature", !.vc = vc]
    BY <1>2, <1>7 DEF Sign
  <2>2. task[c].at = "check" /\ SupportsIssuanceModel(type, task[c].model)
    BY <1>7 DEF Sign
  <2>3. task[c].vc = NoCredential /\ task[c].model \in Model /\ task[c].place \in Place
    BY <2>2 DEF Made
  <2>4. task[c].place = "cli" => SubjectOf(c) \in Robot
    BY <2>2 DEF Made, SubjectOf
  <2>5. /\ vc # NoCredential /\ vc.type = type /\ vc.subject = SubjectOf(c)
        /\ vc = NewCredential(vc.type, task[c].model, vc.subject)
    BY <2>3, SubjectType, MadeNew
  <2> HIDE DEF vc
  <2>6. /\ task'[c].at = "signature" /\ task'[c].vc = vc /\ task'[c].checked = task[c].checked
        /\ task'[c].model = task[c].model /\ task'[c].place = task[c].place
    BY <1>1, <2>1 DEF Invocation
  <2>7. task[c].place = "cli" => task[c].checked \in Robot
    BY <2>2 DEF Made
  <2> QED
    BY <2>2, <2>3, <2>4, <2>5, <2>6, <2>7 DEF Made, Kept
<1>8. ASSUME NEW ends \in BOOLEAN, GoOn(c, ends) PROVE Made(task'[c]) /\ Kept(task[c], task'[c])
  <2> DEFINE where == IF ends THEN "done" ELSE "anchor"
             about == IF ends THEN NoTask ELSE c
  <2>1. task'[c] = [task[c] EXCEPT !.at = where, !.about = about]
    BY <1>2, <1>8 DEF GoOn
  <2>2. where \in {"done", "anchor"}
    OBVIOUS
  <2> HIDE DEF where, about
  <2> QED
    BY <1>1, <2>1, <2>2 DEF Made, Kept, Invocation
<1>9. ASSUME NEW type \in Type, AnchorFile(c, type)
      PROVE  Made(task'[c]) /\ Kept(task[c], task'[c])
  <2>1. task'[c] = [task[c] EXCEPT !.place = "cli", !.at = "anchor", !.about = file[type]]
    BY <1>2, <1>9 DEF AnchorFile
  <2>2. task[c].at = "idle"
    BY <1>9 DEF AnchorFile
  <2> QED
    BY <1>1, <2>1, <2>2 DEF Made, Kept, Invocation
<1>10. ASSUME NEW where \in {"receipt", "done"}, Await(c, where)
       PROVE  Made(task'[c]) /\ Kept(task[c], task'[c])
  <2>1. task'[c] = [task[c] EXCEPT !.at = where]
    BY <1>2, <1>10 DEF Await
  <2> QED
    BY <1>1, <2>1 DEF Made, Kept, Invocation
<1>11. CASE \E gasMode \in GasMode : WriteOutput(c, gasMode) \/ WriteFile(c, gasMode)
  BY <1>8, <1>11 DEF WriteOutput, WriteFile
<1>12. CASE MineAnchor(c) \/ AppendAnchorResult(c) \/ Finish(c) \/ Fail(c)
  BY <1>10, <1>12 DEF MineAnchor, AppendAnchorResult, Finish, Fail
<1> QED
  BY <1>3, <1>4, <1>5, <1>6, <1>7, <1>9, <1>11, <1>12 DEF Issue

------------------------------------------------------------------------------
(* Where credentials may be found.  Files, and everything on its way to the    *)
(* chain or on it, are credentials about a robot.  A handler that awaits its   *)
(* anchor still finds its credential in the text field, unless it was replaced *)
(* there; the page shows an anchor that is on-chain, next to its credential or *)
(* that of a handler whose text was replaced.                                  *)
Ready(c) == c \in Task /\ task[c].vc # NoCredential /\ task[c].vc.subject \in Robot

Issued(c) == c \in Task /\ task[c].place = "browser" /\ task[c].vc # NoCredential

Sends(c) ==
  /\ task[c].at = "anchor" => Ready(task[c].about)
  /\ task[c].at = "receipt" => task[c].about \in anchored
  /\ task[c].at \in {"anchor", "receipt"} /\ task[c].place = "browser"
       => task[c].about = c /\ Issued(c) /\ (c \notin replaced => credentialText = c)

ShownOn(model) ==
  panel[model].anchor # NoTask =>
    /\ panel[model].anchor \in anchored /\ Issued(panel[model].anchor)
    /\ task[panel[model].anchor].model = model
    /\ panel[model].anchor \notin replaced => panel[model].credential = panel[model].anchor

AllMade == \A c \in Task : Made(task[c])
AllSends == \A c \in Task : Sends(c)
AllReady == (\A c \in anchored : Ready(c)) /\ \A type \in Type : file[type] # NoTask => Ready(file[type])
AllShown == \A model \in Model : ShownOn(model)

AnchorInv == AllMade /\ AllSends /\ AllReady /\ AllShown

LEMMA InitAnchor == Init => AnchorInv
<1> SUFFICES ASSUME Init PROVE AnchorInv
  OBVIOUS
<1>1. \A c \in Task : task[c] = NotStarted
  BY DEF Init
<1>2. AllMade /\ AllSends
  BY <1>1 DEF AllMade, AllSends, Made, Sends, NotStarted
<1>3. AllReady
  BY DEF Init, AllReady
<1>4. \A model \in Model : panel[model] = Placeholder
  BY DEF Init, BlankPanels
<1>5. AllShown
  BY <1>4 DEF Init, AllShown, ShownOn, Placeholder
<1> QED
  BY <1>2, <1>3, <1>5 DEF AnchorInv

(* What was ready or issued remains so.                                        *)
LEMMA Lasting ==
  ASSUME \A c \in Task : Kept(task[c], task'[c])
  PROVE  \A c : (Ready(c) => Ready(c)') /\ (Issued(c) => Issued(c)' /\ task'[c].model = task[c].model)
  BY DEF Ready, Issued, Kept

LEMMA IssueKeeps ==
  ASSUME TypeOK, AllMade, NEW c \in Task, Issue(c)
  PROVE  /\ AllMade' /\ \A x \in Task : Kept(task[x], task'[x])
         /\ \A x \in Task \ {c} : task'[x] = task[x]
<1>1. \A x \in Task \ {c} : task'[x] = task[x]
  BY IssueChangesOne, OneChanges DEF Continue, TypeOK
<1>2. Made(task'[c]) /\ Kept(task[c], task'[c])
  BY IssueMade DEF AllMade
<1>3. ASSUME NEW x \in Task PROVE Made(task'[x]) /\ Kept(task[x], task'[x])
  BY <1>1, <1>2 DEF AllMade, Kept
<1> QED
  BY <1>1, <1>3 DEF AllMade

(* What writing a credential does: it is complete, and goes on to be anchored  *)
(* only if it is about a robot.                                                *)
LEMMA GoesOn ==
  ASSUME TypeOK, NEW c \in Task, NEW ends \in BOOLEAN, GoOn(c, ends)
  PROVE  /\ ends => task'[c].at = "done"
         /\ ~ ends => task'[c].at = "anchor" /\ task'[c].about = c
         /\ task'[c].place = task[c].place /\ task'[c].vc = task[c].vc
<1>1. task \in [Task -> Invocation] /\ task[c] \in Invocation
  BY DEF TypeOK
<1>2. task'[c] = [task[c] EXCEPT !.at = IF ends THEN "done" ELSE "anchor",
                                 !.about = IF ends THEN NoTask ELSE c]
  BY <1>1 DEF GoOn, Continue
<1> QED
  BY <1>1, <1>2 DEF Invocation

LEMMA Awaits ==
  ASSUME TypeOK, NEW c \in Task, NEW where \in {"receipt", "done"}, Await(c, where)
  PROVE  task'[c] = [task[c] EXCEPT !.at = where] /\ task'[c].at = where
         /\ task'[c].about = task[c].about /\ task'[c].place = task[c].place
<1>1. task \in [Task -> Invocation] /\ task[c] \in Invocation
  BY DEF TypeOK
<1> QED
  BY <1>1 DEF Await, Continue, Invocation

LEMMA IssueAnchors ==
  ASSUME TypeOK, AnchorInv, NEW c \in Task, Issue(c)
  PROVE  AnchorInv'
<1> USE DEF AnchorInv
<1>1. /\ AllMade' /\ \A x \in Task : Kept(task[x], task'[x])
      /\ \A x \in Task \ {c} : task'[x] = task[x]
  BY IssueKeeps
<1>2. \A x : (Ready(x) => Ready(x)') /\ (Issued(x) => Issued(x)' /\ task'[x].model = task[x].model)
  BY <1>1, Lasting
<1>3. task \in [Task -> Invocation] /\ task[c] \in Invocation /\ Made(task[c]) /\ Sends(c)
  BY DEF TypeOK, AllMade, AllSends
<1>4. ASSUME anchored \subseteq anchored', Sends(c)',
             UNCHANGED <<credentialText, replaced>> \/ WriteText(c)
      PROVE  AllSends'
  <2>1. ASSUME NEW x \in Task \ {c} PROVE Sends(x)'
    BY <1>1, <1>2, <1>4, <2>1 DEF AllSends, Sends, WriteText, Anchoring
  <2> QED
    BY <1>4, <2>1 DEF AllSends
<1>5. ASSUME UNCHANGED <<file, anchored>> PROVE AllReady'
  BY <1>2, <1>5 DEF AllReady
<1>6. ASSUME anchored \subseteq anchored', replaced \subseteq replaced',
             NEW model \in Model, panel'[model] = panel[model]
      PROVE  ShownOn(model)'
  BY <1>2, <1>6 DEF AllShown, ShownOn
<1>7. ASSUME anchored \subseteq anchored', UNCHANGED <<panel, replaced>> PROVE AllShown'
  BY <1>2, <1>6, <1>7 DEF AllShown
<1>8. ASSUME NEW model \in Model, panel'[model] = Placeholder PROVE ShownOn(model)'
  BY <1>8 DEF ShownOn, Placeholder
<1>9. \A model \in Model : BlankPanels[model] = Placeholder
  BY DEF BlankPanels
<1>10. CASE task'[c].at \notin {"anchor", "receipt"} /\ UNCHANGED <<panel, credentialText, replaced, file, anchored>>
  <2>1. Sends(c)'
    BY <1>10 DEF Sends
  <2> QED
    BY <1>1, <1>4, <1>5, <1>7, <1>10, <2>1
<1>11. ASSUME NEW type \in Type, AnchorFile(c, type) PROVE AnchorInv'
  <2>1. UNCHANGED <<panel, credentialText, replaced, file, anchored>> /\ Ready(file[type])
    BY <1>11 DEF AnchorFile, AllReady
  <2>2. task'[c].place = "cli" /\ task'[c].at = "anchor" /\ task'[c].about = file[type]
    BY <1>3, <1>11 DEF AnchorFile, Continue, Invocation
  <2>3. Sends(c)'
    BY <1>2, <2>1, <2>2 DEF Sends
  <2> QED
    BY <1>1, <1>4, <1>5, <1>7, <2>1, <2>3
<1>12. ASSUME NEW gasMode \in GasMode, WriteOutput(c, gasMode) PROVE AnchorInv'
  <2> DEFINE refused == gasMode # "offchain" /\ task[c].vc.subject = NoRobot
             ends == refused \/ gasMode = "offchain"
             model == task[c].model
  <2>1. /\ WriteText(c) /\ UNCHANGED <<file, anchored>> /\ GoOn(c, ends)
        /\ panel' = IF refused THEN BlankPanels ELSE [BlankPanels EXCEPT ![model].credential = c]
        /\ task[c].place = "browser" /\ task[c].at = "signature"
    BY <1>12 DEF WriteOutput, In
  <2>2. task[c].vc # NoCredential /\ model \in Model /\ Issued(c)
    BY <1>3, <2>1 DEF Made, Issued
  <2>3. task[c].vc \in Credential
    BY <1>3, <2>2 DEF Invocation
  <2>4. ~ ends => Ready(c)
    BY <2>2, <2>3 DEF Ready, Credential
  <2>5. Sends(c)'
    <3> HIDE DEF ends, refused, model
    <3>1. ends \in BOOLEAN
      BY DEF ends, refused
    <3> QED
      BY <1>2, <2>1, <2>2, <2>4, <3>1, GoesOn DEF Sends, WriteText
  <2>6. ASSUME NEW m \in Model PROVE ShownOn(m)'
    <3>1. CASE panel'[m] = Placeholder
      BY <1>8, <3>1
    <3>2. CASE panel'[m] # Placeholder
      <4>1. panel'[m] = [Placeholder EXCEPT !.credential = c]
        BY <1>9, <2>1, <3>2 DEF BlankPanels
      <4> QED
        BY <4>1 DEF ShownOn, Placeholder
    <3> QED
      BY <3>1, <3>2
  <2>7. AllShown'
    BY <2>6 DEF AllShown
  <2> QED
    BY <1>1, <1>4, <1>5, <2>1, <2>5, <2>7
<1>13. ASSUME NEW gasMode \in GasMode, WriteFile(c, gasMode) PROVE AnchorInv'
  <2> DEFINE ends == gasMode = "offchain"
  <2>1. /\ UNCHANGED <<panel, credentialText, replaced, anchored>> /\ GoOn(c, ends)
        /\ file' = [file EXCEPT ![task[c].vc.type] = c]
        /\ task[c].place = "cli" /\ task[c].at = "signature"
    BY <1>13 DEF WriteFile, In
  <2>2. Ready(c)
    BY <1>3, <2>1 DEF Made, Ready
  <2>3. Sends(c)'
    <3> HIDE DEF ends
    <3>1. ends \in BOOLEAN
      BY DEF ends
    <3> QED
      BY <1>2, <2>1, <2>2, <3>1, GoesOn DEF Sends
  <2>4. ASSUME NEW type \in Type PROVE (file[type] # NoTask => Ready(file[type]))'
    <3>1. file'[type] = c \/ file'[type] = file[type]
      BY <2>1 DEF TypeOK
    <3> QED
      BY <1>2, <2>2, <3>1 DEF AllReady
  <2>5. AllReady'
    BY <1>2, <2>1, <2>4 DEF AllReady
  <2> QED
    BY <1>1, <1>4, <1>7, <2>1, <2>3, <2>5
<1>14. CASE MineAnchor(c)
  <2>1. /\ task[c].at = "anchor" /\ anchored' = anchored \cup {task[c].about}
        /\ UNCHANGED <<panel, credentialText, replaced, file>> /\ Await(c, "receipt")
    BY <1>14 DEF MineAnchor
  <2>2. Ready(task[c].about)
    BY <1>3, <2>1 DEF Sends
  <2>3. Sends(c)'
    BY <1>2, <1>3, <2>1, Awaits DEF Sends
  <2>4. AllReady'
    BY <1>2, <2>1, <2>2 DEF AllReady
  <2> QED
    BY <1>1, <1>4, <1>7, <2>1, <2>3, <2>4
<1>15. CASE AppendAnchorResult(c)
  <2> DEFINE model == task[c].model
             shown == IF credentialText # NoTask THEN credentialText ELSE panel[model].credential
  <2>1. /\ UNCHANGED <<credentialText, replaced, file, anchored>> /\ Await(c, "done")
        /\ panel' = [panel EXCEPT ![model] = [credential |-> shown, anchor |-> c]]
        /\ task[c].place = "browser" /\ task[c].at = "receipt"
    BY <1>15 DEF AppendAnchorResult, In
  <2>2. Issued(c) /\ c \in anchored /\ model \in Model
    BY <1>3, <2>1 DEF Sends, Issued, Made
  <2>3. c \notin replaced => shown = c
    BY <1>3, <2>1, TaskAssumption DEF Sends
  <2>4. Sends(c)'
    BY <2>1, Awaits DEF Sends
  <2> HIDE DEF shown
  <2>5. ASSUME NEW m \in Model PROVE ShownOn(m)'
    <3>1. CASE m = model
      <4>1. panel'[m] = [credential |-> shown, anchor |-> c]
        BY <2>1, <3>1 DEF TypeOK
      <4> QED
        BY <1>2, <2>1, <2>2, <2>3, <3>1, <4>1 DEF ShownOn
    <3>2. CASE m # model
      <4>1. panel'[m] = panel[m]
        BY <2>1, <3>2 DEF TypeOK
      <4> QED
        BY <1>6, <2>1, <4>1
    <3> QED
      BY <3>1, <3>2
  <2>6. AllShown'
    BY <2>5 DEF AllShown
  <2> QED
    BY <1>1, <1>4, <1>5, <2>1, <2>4, <2>6
<1>16. CASE Fail(c)
  <2>1. /\ panel' = IF task[c].place = "browser" THEN BlankPanels ELSE panel
        /\ Await(c, "done") /\ UNCHANGED <<credentialText, replaced, file, anchored>>
    BY <1>16 DEF Fail
  <2>2. Sends(c)'
    BY <2>1, Awaits DEF Sends
  <2>3. ASSUME NEW m \in Model PROVE ShownOn(m)'
    BY <1>6, <1>8, <1>9, <2>1
  <2>4. AllShown'
    BY <2>3 DEF AllShown
  <2> QED
    BY <1>1, <1>4, <1>5, <2>1, <2>2, <2>4
<1>17. ASSUME NEW model \in Model, Click(c, model) PROVE AnchorInv'
  BY <1>3, <1>10, <1>17 DEF Click, Continue, Invocation
<1>18. ASSUME NEW model \in Model, NEW r \in Robot, Run(c, model, r) PROVE AnchorInv'
  BY <1>3, <1>10, <1>18 DEF Run, Continue, Invocation
<1>19. CASE AskRegistry(c)
  BY <1>3, <1>10, <1>19 DEF AskRegistry, Continue, Invocation
<1>20. CASE AskAuthority(c)
  BY <1>3, <1>10, <1>20 DEF AskAuthority, Continue, Invocation
<1>21. ASSUME NEW type \in Type, Sign(c, type) PROVE AnchorInv'
  <2>1. task'[c].at = "signature"
    BY <1>3, <1>21 DEF Sign, Continue, Invocation
  <2> QED
    BY <1>10, <1>21, <2>1 DEF Sign
<1>22. CASE Finish(c)
  BY <1>10, <1>22, Awaits DEF Finish
<1> QED
  BY <1>11, <1>12, <1>13, <1>14, <1>15, <1>16, <1>17, <1>18, <1>19, <1>20, <1>21, <1>22 DEF Issue

LEMMA StepAnchors == TypeOK /\ AnchorInv /\ [Next]_vars => AnchorInv'
<1> SUFFICES ASSUME TypeOK, AnchorInv, [Next]_vars PROVE AnchorInv'
  OBVIOUS
<1>1. ASSUME NEW r \in Robot \cup {NoRobot}, SelectRobot(r) PROVE AnchorInv'
  <2>1. UNCHANGED <<panel, credentialText, replaced, file, anchored>>
    BY <1>1 DEF SelectRobot
  <2>2. ASSUME NEW c \in Task
        PROVE  /\ task'[c].place = task[c].place /\ task'[c].model = task[c].model
               /\ task'[c].at = task[c].at /\ task'[c].checked = task[c].checked
               /\ task'[c].vc = task[c].vc /\ task'[c].about = task[c].about
    <3>1. task[c] \in Invocation
      BY DEF TypeOK
    <3> QED
      BY <1>1, <3>1 DEF SelectRobot, Invocation
  <2>3. AllMade'
    BY <2>2 DEF AnchorInv, AllMade, Made
  <2>4. \A c : (Ready(c) => Ready(c)') /\ (Issued(c) => Issued(c)')
    BY <2>2 DEF Ready, Issued
  <2>5. AllSends'
    BY <2>1, <2>2, <2>4 DEF AnchorInv, AllSends, Sends
  <2>6. AllReady'
    BY <2>1, <2>4 DEF AnchorInv, AllReady
  <2>7. ASSUME NEW model \in Model PROVE ShownOn(model)'
    BY <2>1, <2>2, <2>4 DEF AnchorInv, AllShown, ShownOn, Issued
  <2> QED
    BY <2>1, <2>3, <2>4, <2>5, <2>6, <2>7 DEF AnchorInv, AllShown
<1>2. ASSUME NEW text \in Shown, EditText(text) PROVE AnchorInv'
  <2>1. UNCHANGED <<panel, file, anchored, task>> /\ WriteText(text)
    BY <1>2 DEF EditText
  <2>2. AllMade' /\ AllReady'
    BY <2>1 DEF AnchorInv, AllMade, Made, AllReady, Ready
  <2>3. AllSends'
    BY <2>1 DEF AnchorInv, AllSends, Sends, Ready, Issued, WriteText, Anchoring
  <2>4. AllShown'
    BY <2>1 DEF AnchorInv, AllShown, ShownOn, Issued, WriteText
  <2> QED
    BY <2>2, <2>3, <2>4 DEF AnchorInv
<1>3. CASE UNCHANGED vars
  BY <1>3 DEF vars, AnchorInv, AllMade, Made, AllSends, Sends, AllReady, AllShown, ShownOn,
     Ready, Issued
<1> QED
  BY <1>1, <1>2, <1>3, IssueAnchors DEF Next

LEMMA AnchorsCorrect == Spec => []AnchorInv
<1>1. IssuingInv => TypeOK
  BY DEF IssuingInv
<1> QED
  BY <1>1, IssuingCorrect, InitAnchor, StepAnchors, PTL DEF Spec

(* Whoever issues a credential, and whatever is selected meanwhile, once it is *)
(* anchored a verifier detects the model it was issued under and finds every   *)
(* field its type requires (buildSignedCredential and the programs against     *)
(* detectIssuanceModel and verifyCredentialTypeAndSchema).                     *)
THEOREM AnchoredIsDetected == Spec => []AnchoredDetected
<1>1. ASSUME AnchorInv, TypeOK PROVE AnchoredDetected
  <2> SUFFICES ASSUME NEW c \in anchored
               PROVE  /\ DetectIssuanceModel(task[c].vc) = task[c].model
                      /\ MissingSubjectFields(task[c].vc.type,
                           SubjectFields(task[c].place, task[c].model, task[c].vc.type)) = {}
    BY DEF AnchoredDetected
  <2>1. Ready(c) /\ Made(task[c])
    BY <1>1 DEF AnchorInv, AllReady, AllMade, TypeOK
  <2>2. task[c].vc # NoCredential /\ task[c].vc \in Credential
    BY <1>1, <2>1 DEF Ready, TypeOK, Invocation
  <2>3. task[c].vc.type \in CredentialType
    BY <2>2 DEF Credential
  <2> QED
    BY <2>1, <2>2, <2>3, NewDetected, SchemaSatisfied DEF Made, Ready
<1>2. IssuingInv => TypeOK
  BY DEF IssuingInv
<1> QED
  BY <1>1, <1>2, IssuingCorrect, AnchorsCorrect, PTL

(* The anchor shown in a model's panel is on-chain and was sent for that       *)
(* model; next to it stands the credential it anchors, unless the text field   *)
(* was written between that credential and its receipt (writeCredentialOutput  *)
(* and appendAnchorResultToOutput).                                            *)
THEOREM AnchorsAreShown == Spec => []AnchorShown
<1>1. AnchorInv => AnchorShown
  BY DEF AnchorInv, AllShown, ShownOn, Issued, AnchorShown
<1> QED
  BY <1>1, AnchorsCorrect, PTL
==============================================================================
