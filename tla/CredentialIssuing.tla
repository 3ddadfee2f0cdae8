--------------------------- MODULE CredentialIssuing ---------------------------
(* Issuing credentials and anchoring them, from the page                       *)
(* (ui/js/credentials/issue.js) and from the command line (robot/, controller/ *)
(* and issuer/ programs, scripts/anchorCredential.js).  The handlers of the    *)
(* page share the selected robot, three output panels and a text field; the    *)
(* programs share the directory credentials/.  An action is what one of them   *)
(* does between two awaits.  The contracts' answers are the environment's: a   *)
(* check passes, or the invocation fails.                                      *)
(*                                                                             *)
(* Each invocation signs at most one credential, which is named after it.      *)
EXTENDS CredentialPolicy

CONSTANTS
  Task,      \* invocations of handlers and programs
  NoTask,    \* no credential
  Foreign,   \* a credential of somebody else
  Flow(_),   \* how each of them may start, <<place, model>>: a bound of the model
  Type       \* the credential types considered: a bound of the model

Place == {"browser", "cli"}

ASSUME TaskAssumption ==
  /\ NoTask \notin Task /\ Foreign \notin Task \cup {NoTask}
  /\ Type \subseteq CredentialType
  /\ \A c \in Task : Flow(c) \subseteq Place \X Model

VARIABLES
  selectedRobot,   \* the selected robot, NoRobot if none or if its DID is gone
  panel,           \* the output of each model's card: a credential, an anchor
  credentialText,  \* the text field the verifier reads, where the user may paste another
  replaced,        \* history: whose credential it lost while the receipt was awaited
  file,            \* credentials/<type>.json
  anchored,        \* credentials with an anchor on-chain
  task             \* the invocations

vars == <<selectedRobot, panel, credentialText, replaced, file, anchored, task>>

NoCredential == [type |-> "none", issuer |-> NoRobot, subject |-> NoRobot]

(* The credential in the field: of an invocation, of somebody else, or none.   *)
Shown == Task \cup {NoTask, Foreign}

Placeholder == [credential |-> NoTask, anchor |-> NoTask]

BlankPanels == [model \in Model |-> Placeholder]

(* at: what the invocation awaits.  checked: the robot whose record, key or    *)
(* permission it asked for last.  vc: its credential.  about: the one whose    *)
(* anchor it sends.  steady (history): the selection is that of the click.     *)
Invocation ==
  [place : Place \cup {"none"}, model : Model \cup {"none"},
   at : {"idle", "wallet", "record", "check", "signature", "anchor", "receipt", "done"},
   checked : Robot \cup {NoRobot}, vc : Credential \cup {NoCredential},
   about : Task \cup {NoTask}, steady : BOOLEAN]

NotStarted == [place |-> "none", model |-> "none", at |-> "idle", checked |-> NoRobot,
               vc |-> NoCredential, about |-> NoTask, steady |-> TRUE]

Init ==
  /\ selectedRobot = NoRobot
  /\ panel = BlankPanels
  /\ credentialText = NoTask
  /\ replaced = {}
  /\ file = [type \in Type |-> NoTask]
  /\ anchored = {}
  /\ task = [c \in Task |-> NotStarted]

In(c, place, where) == task[c].place = place /\ task[c].at = where

Continue(c, t) == task' = [task EXCEPT ![c] = t]

Await(c, where) == Continue(c, [task[c] EXCEPT !.at = where])

------------------------------------------------------------------------------
(* The user.                                                                   *)
SelectRobot(r) ==
  /\ r # selectedRobot
  /\ selectedRobot' = r
  /\ task' = [c \in Task |-> IF task[c].at \notin {"idle", "done"} /\ task[c].place = "browser"
                               THEN [task[c] EXCEPT !.steady = FALSE] ELSE task[c]]
  /\ UNCHANGED <<panel, credentialText, replaced, file, anchored>>

(* The handlers that await an anchor of their own.                             *)
Anchoring == {c \in Task : task[c].place = "browser" /\ task[c].at \in {"anchor", "receipt"}}

WriteText(text) ==
  /\ credentialText' = text
  /\ replaced' = replaced \cup Anchoring

(* The field is emptied, or any credential that is about is pasted into it.    *)
EditText(text) ==
  /\ text # credentialText
  /\ text \in Task => task[text].vc # NoCredential /\ task[text].at # "signature"
  /\ WriteText(text)
  /\ UNCHANGED <<selectedRobot, panel, file, anchored, task>>

Click(c, model) ==
  /\ task[c].at = "idle" /\ <<"browser", model>> \in Flow(c)
  /\ selectedRobot # NoRobot
  /\ Continue(c, [task[c] EXCEPT !.place = "browser", !.model = model, !.at = "wallet"])
  /\ UNCHANGED <<selectedRobot, panel, credentialText, replaced, file, anchored>>

------------------------------------------------------------------------------
(* The page.  The wallet is there: of the robot selected by now the key        *)
(* history is asked (self-signed), or first the record.                        *)
AskRegistry(c) ==
  /\ In(c, "browser", "wallet")
  /\ selectedRobot # NoRobot
  /\ Continue(c, [task[c] EXCEPT !.at = IF task[c].model = SELF THEN "check" ELSE "record",
                          !.checked = selectedRobot])
  /\ UNCHANGED <<selectedRobot, panel, credentialText, replaced, file, anchored>>

(* The record is active.  A controller's permission is asked for the robot     *)
(* selected by now, an issuer's trust for the type only.                       *)
AskAuthority(c) ==
  /\ In(c, "browser", "record")
  /\ task[c].model = CONTROLLER => selectedRobot # NoRobot
  /\ Continue(c, [task[c] EXCEPT !.at = "check",
                          !.checked = IF task[c].model = CONTROLLER THEN selectedRobot ELSE @])
  /\ UNCHANGED <<selectedRobot, panel, credentialText, replaced, file, anchored>>

(* A slip: the robot is read from the selection once more.                     *)
SubjectReadAgain(c) == selectedRobot

(* The robot the credential is about: the page reads it again unless it signs  *)
(* with the robot's key.                                                       *)
SubjectOf(c) ==
  IF task[c].place = "browser" /\ task[c].model # SELF THEN selectedRobot ELSE task[c].checked

(* The check has passed: the credential is built and given to be signed.       *)
Sign(c, type) ==
  /\ task[c].at = "check"
  /\ SupportsIssuanceModel(type, task[c].model)
  /\ Continue(c, [task[c] EXCEPT !.at = "signature",
                          !.vc = NewCredential(type, task[c].model, SubjectOf(c))])
  /\ UNCHANGED <<selectedRobot, panel, credentialText, replaced, file, anchored>>

(* The credential is written: off-chain issuing ends, or the anchor is sent.   *)
GoOn(c, ends) ==
  Continue(c, [task[c] EXCEPT !.at = IF ends THEN "done" ELSE "anchor",
                       !.about = IF ends THEN NoTask ELSE c])

(* A slip: the panel alone is written.                                         *)
WritePanelOnly(c, gasMode) ==
  LET refused == gasMode # "offchain" /\ task[c].vc.subject = NoRobot IN
  /\ In(c, "browser", "signature")
  /\ panel' = IF refused THEN BlankPanels
              ELSE [BlankPanels EXCEPT ![task[c].model].credential = c]
  /\ GoOn(c, refused \/ gasMode = "offchain")
  /\ UNCHANGED <<selectedRobot, credentialText, replaced, file, anchored>>

(* writeCredentialOutput, then off-chain or on to the anchor transaction,      *)
(* which a credential about no DID does not reach.                             *)
WriteOutput(c, gasMode) ==
  LET refused == gasMode # "offchain" /\ task[c].vc.subject = NoRobot IN
  /\ In(c, "browser", "signature")
  /\ WriteText(c)
  /\ panel' = IF refused THEN BlankPanels
              ELSE [BlankPanels EXCEPT ![task[c].model].credential = c]
  /\ GoOn(c, refused \/ gasMode = "offchain")
  /\ UNCHANGED <<selectedRobot, file, anchored>>

(* appendAnchorResultToOutput pairs the receipt with whatever credential the   *)
(* text field holds by now, or else the panel.  (What is neither is Fail's.)   *)
AppendAnchorResult(c) ==
  LET model == task[c].model
      shown == IF credentialText # NoTask THEN credentialText ELSE panel[model].credential IN
  /\ In(c, "browser", "receipt")
  /\ shown # NoTask
  /\ panel' = [panel EXCEPT ![model] = [credential |-> shown, anchor |-> c]]
  /\ Await(c, "done")
  /\ UNCHANGED <<selectedRobot, credentialText, replaced, file, anchored>>

------------------------------------------------------------------------------
(* The command line: robot and type come from the environment; a controller's  *)
(* permission is asked, the others sign at once.                               *)
Run(c, model, r) ==
  /\ task[c].at = "idle" /\ <<"cli", model>> \in Flow(c)
  /\ Continue(c, [task[c] EXCEPT !.place = "cli", !.model = model, !.at = "check",
                          !.checked = r])
  /\ UNCHANGED <<selectedRobot, panel, credentialText, replaced, file, anchored>>

WriteFile(c, gasMode) ==
  /\ In(c, "cli", "signature")
  /\ file' = [file EXCEPT ![task[c].vc.type] = c]
  /\ GoOn(c, gasMode = "offchain")
  /\ UNCHANGED <<selectedRobot, panel, credentialText, replaced, anchored>>

(* scripts/anchorCredential.js: the credential a file holds.                   *)
AnchorFile(c, type) ==
  /\ task[c].at = "idle" /\ Flow(c) \cap ({"cli"} \X Model) # {}
  /\ file[type] # NoTask
  /\ Continue(c, [task[c] EXCEPT !.place = "cli", !.at = "anchor", !.about = file[type]])
  /\ UNCHANGED <<selectedRobot, panel, credentialText, replaced, file, anchored>>

Finish(c) ==
  /\ In(c, "cli", "receipt")
  /\ Await(c, "done")
  /\ UNCHANGED <<selectedRobot, panel, credentialText, replaced, file, anchored>>

------------------------------------------------------------------------------
(* The anchor transaction is mined: the contract takes each hash once.         *)
MineAnchor(c) ==
  /\ task[c].at = "anchor"
  /\ task[c].about \notin anchored
  /\ anchored' = anchored \cup {task[c].about}
  /\ Await(c, "receipt")
  /\ UNCHANGED <<selectedRobot, panel, credentialText, replaced, file>>

(* A call is refused or fails.  On the page, a message takes the place of      *)
(* whatever the panels show.                                                   *)
Fail(c) ==
  /\ task[c].at \notin {"idle", "done"}
  /\ panel' = IF task[c].place = "browser" THEN BlankPanels ELSE panel
  /\ Await(c, "done")
  /\ UNCHANGED <<selectedRobot, credentialText, replaced, file, anchored>>

GasMode == {"offchain", "owner", "actor"}

Issue(c) ==
  \/ \E model \in Model : Click(c, model) \/ \E r \in Robot : Run(c, model, r)
  \/ AskRegistry(c) \/ AskAuthority(c)
  \/ \E type \in Type : Sign(c, type) \/ AnchorFile(c, type)
  \/ \E gasMode \in GasMode : WriteOutput(c, gasMode) \/ WriteFile(c, gasMode)
  \/ MineAnchor(c) \/ AppendAnchorResult(c) \/ Finish(c) \/ Fail(c)

Next ==
  \/ \E r \in Robot \cup {NoRobot} : SelectRobot(r)
  \/ \E text \in Shown : EditText(text)
  \/ \E c \in Task : Issue(c)

Spec == Init /\ [][Next]_vars

------------------------------------------------------------------------------
(* Types.                                                                      *)
TypeOK ==
  /\ selectedRobot \in Robot \cup {NoRobot}
  /\ panel \in [Model -> [credential : Shown, anchor : Task \cup {NoTask}]]
  /\ credentialText \in Shown
  /\ replaced \subseteq Task
  /\ file \in [Type -> Task \cup {NoTask}]
  /\ anchored \subseteq Task
  /\ task \in [Task -> Invocation]

(* A verifier takes every anchored credential for what it was issued as, from  *)
(* its type, issuer and subject alone, whatever happened to the selection      *)
(* while it was issued, and finds all the fields that its type requires        *)
(* (detectIssuanceModel and verifyCredentialTypeAndSchema against the six ways *)
(* of issuing).                                                                *)
AnchoredDetected ==
  \A c \in anchored :
    LET vc == task[c].vc
        fields == SubjectFields(task[c].place, task[c].model, vc.type)
    IN /\ DetectIssuanceModel(vc) = task[c].model
       /\ MissingSubjectFields(vc.type, fields) = {}

(* A credential is about the robot that was checked for it, provided that the  *)
(* selection has not moved; a self-signed one, or one from the command line,   *)
(* in any case.                                                                *)
CheckedSubject ==
  \A c \in Task :
    /\ task[c].vc # NoCredential
    /\ task[c].steady \/ task[c].model = SELF \/ task[c].place = "cli"
    => task[c].vc.subject = task[c].checked

(* The anchor in a model's panel is on-chain and was sent for that model, and  *)
(* the credential next to it is the one it anchors, whatever else was issued,  *)
(* pasted and anchored, unless the text field was written again, by the user   *)
(* or another handler, after that credential and before its receipt.           *)
AnchorShown ==
  \A model \in Model : panel[model].anchor # NoTask =>
    /\ panel[model].anchor \in anchored
    /\ task[panel[model].anchor].model = model
    /\ panel[model].anchor \notin replaced => panel[model].credential = panel[model].anchor

(* A controller signs only for a robot it was found to have the assertion      *)
(* permission on (ui/js/credentials/issue.js, assertControllerAssertionPermission:   *)
(* "Controller lacks assertion permission on this robot DID"; README.md:       *)
(* "Controller delegated | Authorized operator").  Refuted: the subject is     *)
(* read from the selection after the permission has come back.                 *)
PermissionCoversSubject ==
  \A c \in Task : task[c].model = CONTROLLER /\ task[c].vc.subject # NoRobot =>
    task[c].vc.subject = task[c].checked
==============================================================================
