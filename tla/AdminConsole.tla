---------------------------- MODULE AdminConsole ----------------------------
(* The handlers behind the buttons of the administration page that act on the  *)
(* selected robot (ui/js/app.js, registry/robot-lifecycle.js, controllers.js,  *)
(* did-queries.js).  JavaScript runs one of them at a time, and only an await  *)
(* lets another go on: an action is what a handler does from one await to the  *)
(* next.  Between two awaits the user may click, select and type, and other    *)
(* accounts may change the DIDs.  They may also transfer the robots and change *)
(* the controllers, at any time, so that whether the wallet's account may do   *)
(* what it asks for is left open: a check of it or a transaction may fail.     *)
EXTENDS RobotsBrowser

CONSTANTS
  Task,      \* invocations of handlers that may be under way at once
  Offer(_)   \* the buttons that may start each of them: a bound of the model

Lifecycle == {"suspend", "unsuspend"}
Update == {"rotate", "controller"}
Look == {"showDid", "matrix"}
Buttons == {"show", "timeline", "revoke", "transfer"} \cup Lifecycle \cup Update \cup Look

ASSUME OfferAssumption == \A c \in Task : Offer(c) \subseteq Buttons

VARIABLES
  status,  \* of the robots' DIDs: "none", "active", "suspended" or "revoked"
  task     \* the handler invocations

vars == <<browser, status, task>>

(* at: what the invocation awaits.  sent: the robot its transaction, or the    *)
(* timeline it collects, is about.  record: the DID whose record or events it  *)
(* reads.  said: the DID it names in its report.  list: the list it has read.  *)
(* clicked (history): the robot selected at the click, as long as nothing else *)
(* touches the selection or the DID field.                                     *)
Idle == [op |-> "none", at |-> "idle", clicked |-> NoRobot, sent |-> NoRobot,
         record |-> NoRobot, said |-> NoRobot, list |-> NoList]

Running(c) == task[c].at \notin {"idle", "done"}

Init ==
  /\ BrowserInit
  /\ status \in [Robot -> {"none", "active"}]
  /\ task = [c \in Task |-> Idle]

(* Task c goes on as t; the others notice what it did to the page's globals.   *)
Noticed(x) ==
  IF Running(x) /\ <<selectedRobot, didField>>' # <<selectedRobot, didField>>
    THEN [task[x] EXCEPT !.clicked = NoRobot]
    ELSE task[x]

Others == task' = [x \in Task |-> Noticed(x)]

Continue(c, t) == task' = [x \in Task |-> IF x = c THEN t ELSE Noticed(x)]

Await(c, where) == Continue(c, [task[c] EXCEPT !.at = where])

------------------------------------------------------------------------------
(* The DIDs as the registry and the lists have them.                           *)
Exists(r) == r # NoRobot /\ status[r] # "none"

ActiveDIDs == [r \in Robot |-> IF status[r] \in {"active", "suspended"} THEN r ELSE NoRobot]

After(op) ==
  CASE op = "suspend" -> [from |-> {"active"}, to |-> "suspended"]
    [] op = "unsuspend" -> [from |-> {"suspended"}, to |-> "active"]
    [] op = "revoke" -> [from |-> {"active", "suspended"}, to |-> "revoked"]

(* Another client of the registry registers or changes a DID.                  *)
ChangedElsewhere(r) ==
  /\ \/ status[r] = "none" /\ status' = [status EXCEPT ![r] = "active"]
     \/ \E op \in Lifecycle \cup {"revoke"} :
          status[r] \in After(op).from /\ status' = [status EXCEPT ![r] = After(op).to]
  /\ UNCHANGED <<browser, task>>

------------------------------------------------------------------------------
(* The user, on the page itself.                                               *)
UseBrowser ==
  /\ \/ \E r \in Robot : ToggleRobotSelection(r) \/ TypeDid(r)
     \/ ToggleHideDeactivated
  /\ Others
  /\ UNCHANGED status

HideRobots ==
  /\ robotsBrowserVisible
  /\ ResetRobotsBrowser
  /\ Others
  /\ UNCHANGED status

ShowRobots(c) ==
  /\ "show" \in Offer(c)
  /\ ~ Running(c)
  /\ ~ robotsBrowserVisible
  /\ StartLoading
  /\ UNCHANGED <<selectedRobot, lastRobotsResult, lastVisibleRobots,
                 robotsBrowserVisible, hideDeactivated, didField, status>>
  /\ Continue(c, [Idle EXCEPT !.op = "show", !.at = "list"])

(* A click on one of the other buttons.  All of them want a selected robot and *)
(* all but two an active DID; suspend, unsuspend, details and the permission   *)
(* matrix put the DID in the field, and the latter two start to read its       *)
(* record at once.                                                             *)
Click(c, op) ==
  /\ op \in Offer(c) \ {"show"}
  /\ ~ Running(c)
  /\ selectedRobot.robot # NoRobot
  /\ op \notin {"transfer", "timeline"} => selectedRobot.did # NoRobot
  /\ didField' = IF op \in Lifecycle \cup Look THEN selectedRobot.did ELSE didField
  /\ UNCHANGED <<selectedRobot, lastRobotsResult, lastVisibleRobots, cards,
                 robotsBrowserVisible, hideDeactivated, status>>
  /\ Continue(c, [Idle EXCEPT
       !.op = op, !.clicked = selectedRobot.robot,
       !.at = CASE op \in Look -> "record" [] op = "timeline" -> "timeline" [] OTHER -> "wallet",
       !.record = IF op \in Look THEN selectedRobot.did ELSE NoRobot])

------------------------------------------------------------------------------
(* A slip: the list is read without waiting for the transaction.               *)
SubmitUnawaited(c) ==
  /\ task[c].at = "wallet"
  /\ selectedRobot.robot # NoRobot
  /\ UNCHANGED <<browser, status>>
  /\ Continue(c, [task[c] EXCEPT !.at = IF task[c].op = "revoke" THEN "list" ELSE "transaction",
                                 !.sent = selectedRobot.robot, !.said = selectedRobot.robot])

(* The wallet is connected (and, for a rotation, the key found unused): the    *)
(* selection is read again for the transaction.  A transfer only wants the     *)
(* token, and that the account owns it (or it ends in Fail).                   *)
Submit(c) ==
  /\ task[c].at = "wallet"
  /\ selectedRobot.robot # NoRobot
  /\ task[c].op # "transfer" => selectedRobot.did # NoRobot
  /\ UNCHANGED <<browser, status>>
  /\ Continue(c, [task[c] EXCEPT !.at = "transaction", !.sent = selectedRobot.robot])

(* The transaction is mined and accepted.                                      *)
Mine(c) ==
  LET op == task[c].op
      r == task[c].sent IN
  /\ task[c].at = "transaction"
  /\ IF op \in Lifecycle \cup {"revoke"}
       THEN status[r] \in After(op).from /\ status' = [status EXCEPT ![r] = After(op).to]
       ELSE UNCHANGED status
  /\ op = "rotate" => status[r] = "active"
  /\ op = "controller" => status[r] \in {"active", "suspended"}
  /\ UNCHANGED browser
  /\ Await(c, "receipt")

(* suspendSelectedRobotDID has its receipt and reads the record of the DID the *)
(* field holds by now.                                                         *)
LifecycleReceipt(c) ==
  /\ task[c].at = "receipt" /\ task[c].op \in Lifecycle
  /\ UNCHANGED <<browser, status>>
  /\ Continue(c, [task[c] EXCEPT !.at = "record", !.record = didField])

(* rotateSelectedRobotKey, updateDidController: the field is set first.        *)
UpdateReceipt(c) ==
  /\ task[c].at = "receipt" /\ task[c].op \in Update
  /\ selectedRobot # Null
  /\ didField' = selectedRobot.did
  /\ UNCHANGED <<selectedRobot, lastRobotsResult, lastVisibleRobots, cards,
                 robotsBrowserVisible, hideDeactivated, status>>
  /\ Continue(c, [task[c] EXCEPT !.at = "record", !.record = selectedRobot.did])

(* transferSelectedRobotNft reports, and the robots are loaded again.          *)
TransferReceipt(c) ==
  /\ task[c].at = "receipt" /\ task[c].op = "transfer"
  /\ selectedRobot # Null
  /\ StartLoading
  /\ UNCHANGED <<selectedRobot, lastRobotsResult, lastVisibleRobots,
                 robotsBrowserVisible, hideDeactivated, didField, status>>
  /\ Continue(c, [task[c] EXCEPT !.at = "list", !.said = selectedRobot.did])

(* A slip: the DID is named after it has been cleared.                         *)
RevokeReceiptNamedLate(c) ==
  /\ task[c].at = "receipt" /\ task[c].op = "revoke"
  /\ selectedRobot # Null
  /\ selectedRobot' = [selectedRobot EXCEPT !.did = NoRobot]
  /\ UNCHANGED <<lastRobotsResult, lastVisibleRobots, cards, didField,
                 robotsBrowserVisible, hideDeactivated, status>>
  /\ Continue(c, [task[c] EXCEPT !.at = "list", !.said = selectedRobot'.did])

(* The revoke handler takes the DID of the robot selected by now for the one   *)
(* it revoked, and clears it in the selection.                                 *)
RevokeReceipt(c) ==
  /\ task[c].at = "receipt" /\ task[c].op = "revoke"
  /\ selectedRobot # Null
  /\ selectedRobot' = [selectedRobot EXCEPT !.did = NoRobot]
  /\ didField' = selectedRobot.did
  /\ UNCHANGED <<lastRobotsResult, lastVisibleRobots, cards,
                 robotsBrowserVisible, hideDeactivated, status>>
  /\ Continue(c, [task[c] EXCEPT !.at = "refresh", !.said = selectedRobot.did,
                                 !.record = selectedRobot.did])

(* refreshSelectedRobotAfterRevoke, whose errors are caught.                   *)
Refreshed(c) ==
  /\ task[c].at = "refresh"
  /\ UNCHANGED <<browser, status>>
  /\ Await(c, "list")

(* The record has been read: the report names the robot selected by now.       *)
ReportRecord(c) ==
  /\ task[c].at = "record"
  /\ Exists(task[c].record)
  /\ selectedRobot # Null
  /\ IF task[c].op \in Lifecycle THEN StartLoading ELSE UNCHANGED cards
  /\ UNCHANGED <<selectedRobot, lastRobotsResult, lastVisibleRobots,
                 robotsBrowserVisible, hideDeactivated, didField, status>>
  /\ Continue(c, [task[c] EXCEPT !.said = selectedRobot.did,
                    !.at = IF task[c].op \in Lifecycle THEN "list" ELSE "done"])

(* getSelectedRobotTimeline collects the events of the token selected by now;  *)
(* after those it adds the DID of the robot selected by then, and in the end   *)
(* heads them all with the token selected last.                                *)
ReadTimelineToken(c) ==
  /\ task[c].at = "timeline"
  /\ selectedRobot # Null
  /\ UNCHANGED <<browser, status>>
  /\ Continue(c, [task[c] EXCEPT !.at = "token", !.sent = selectedRobot.robot])

ReadTimelineDid(c) ==
  /\ task[c].at = "token"
  /\ selectedRobot # Null
  /\ UNCHANGED <<browser, status>>
  /\ Continue(c, [task[c] EXCEPT !.at = "events", !.record = selectedRobot.did])

ReportTimeline(c) ==
  /\ task[c].at = "events"
  /\ selectedRobot # Null
  /\ UNCHANGED <<browser, status>>
  /\ Continue(c, [task[c] EXCEPT !.at = "done", !.said = selectedRobot.robot])

(* listRobots, read and rendered; the revoke handler renders without keeping   *)
(* the list.                                                                   *)
ListRobots(c) ==
  /\ task[c].at = "list"
  /\ UNCHANGED <<browser, status>>
  /\ Continue(c, [Idle EXCEPT !.op = task[c].op, !.at = "render", !.list = ActiveDIDs,
                           !.sent = task[c].sent])

Render(c) ==
  /\ task[c].at = "render"
  /\ IF task[c].op = "revoke"
       THEN /\ RenderRobots(task[c].list, hideDeactivated)
            /\ UNCHANGED <<lastRobotsResult, robotsBrowserVisible, hideDeactivated, didField>>
       ELSE FinishLoading(task[c].list)
  /\ UNCHANGED status
  /\ Continue(c, Idle)

(* A call is refused or fails, or the selection it needs is gone: the handler  *)
(* ends with INVALID.  Only the Show button cleans up.                         *)
Fail(c) ==
  /\ Running(c) /\ task[c].at \notin {"refresh", "render"}
  /\ IF task[c].op = "show"
       THEN robotsBrowserVisible' = FALSE /\ cards' = {}
       ELSE UNCHANGED <<robotsBrowserVisible, cards>>
  /\ UNCHANGED <<selectedRobot, lastRobotsResult, lastVisibleRobots,
                 hideDeactivated, didField, status>>
  /\ Continue(c, Idle)

Progress(c) ==
  \/ Submit(c) \/ Mine(c)
  \/ LifecycleReceipt(c) \/ UpdateReceipt(c) \/ TransferReceipt(c) \/ RevokeReceipt(c)
  \/ Refreshed(c) \/ ReportRecord(c) \/ ReadTimelineToken(c) \/ ReadTimelineDid(c)
  \/ ReportTimeline(c)
  \/ ListRobots(c) \/ Render(c) \/ Fail(c)

Next ==
  \/ \E r \in Robot : ChangedElsewhere(r)
  \/ UseBrowser
  \/ HideRobots
  \/ \E c \in Task : ShowRobots(c) \/ Progress(c) \/ \E op \in Buttons : Click(c, op)

Spec == Init /\ [][Next]_vars

------------------------------------------------------------------------------
(* Types.                                                                      *)
TypeOK ==
  /\ BrowserTypeOK
  /\ status \in [Robot -> {"none", "active", "suspended", "revoked"}]
  /\ \A c \in Task :
       /\ task[c] \in [op : Buttons \cup {"none"},
                       at : {"idle", "wallet", "transaction", "receipt", "record", "refresh",
                             "timeline", "token", "events", "list", "render", "done"},
                       clicked : Robot \cup {NoRobot}, sent : Robot \cup {NoRobot},
                       record : Robot \cup {NoRobot}, said : Robot \cup {NoRobot},
                       list : List]
       /\ task[c].at = "idle" <=> task[c] = Idle

(* The selected robot is one that was rendered last, with the DID it was       *)
(* rendered with or none at all, and every card can be selected: however       *)
(* loading, hiding, filtering and revoking overlap, the buttons never act on   *)
(* a robot that is not in the list (renderRobots, resetRobotsBrowser).         *)
SelectionListed ==
  /\ cards \subseteq DOMAIN lastVisibleRobots
  /\ selectedRobot.robot # NoRobot =>
       /\ selectedRobot.robot \in DOMAIN lastVisibleRobots
       /\ selectedRobot.did \in {lastVisibleRobots[selectedRobot.robot], NoRobot}

(* An operation acts on, reads and reports the robot that was selected when    *)
(* its button was clicked, provided that nothing else has touched the          *)
(* selection or the DID field in the meantime (README.md: "Actions apply to    *)
(* the selected robot from Robots Browser").                                   *)
ActsOnSelection ==
  \A c \in Task : task[c].clicked # NoRobot =>
    /\ task[c].sent \in {NoRobot, task[c].clicked}
    /\ task[c].record \in {NoRobot, task[c].clicked}
    /\ task[c].said \in {NoRobot, task[c].clicked}
    /\ task[c].at \in {"list", "done"} /\ task[c].op # "transfer" =>
         task[c].said = task[c].clicked

(* The list that a revoke handler renders shows the DID it revoked as gone:    *)
(* it is read after the receipt.                                               *)
OwnRevocationShown ==
  [][\A c \in Task :
       /\ task[c].op = "revoke" /\ task[c].at = "render" /\ Render(c)
       /\ task[c].sent \in DOMAIN lastVisibleRobots'
       => lastVisibleRobots'[task[c].sent] = NoRobot]_vars
==============================================================================
