------------------------- MODULE AdminConsole_proofs -------------------------
(* The selection of the administration page stays within the rendered list,    *)
(* its operations act on the robot they were clicked for, and the list shown   *)
(* after a revocation shows the DID as gone, for any robots, any number of     *)
(* handlers under way and any lists.                                           *)
EXTENDS AdminConsole, TLAPS

(* The inductive invariant: the selection is an entry and nothing else, which  *)
(* the revoke handler relies on when it spreads it into a new one.             *)
SelectionIsEntry ==
  selectedRobot = [robot |-> selectedRobot.robot, did |-> selectedRobot.did]

SelectionInv == SelectionIsEntry /\ SelectionListed

------------------------------------------------------------------------------
(* A rendering, of whatever list, replaces cards, list and selection at once.  *)
LEMMA RenderRobotsSelection ==
  ASSUME NEW list, NEW hide, RenderRobots(list, hide)
  PROVE  SelectionInv'
<1> DEFINE visible == Listed(list, hide)
<1>1. /\ lastVisibleRobots' = visible
      /\ cards' = DOMAIN visible
      /\ selectedRobot' = IF selectedRobot.robot \in DOMAIN visible
                            THEN Entry(visible, selectedRobot.robot) ELSE Null
  BY DEF RenderRobots
<1> HIDE DEF visible
<1>2. CASE selectedRobot.robot \in DOMAIN visible
  <2>1. /\ selectedRobot' = [robot |-> selectedRobot.robot, did |-> visible[selectedRobot.robot]]
        /\ selectedRobot'.robot = selectedRobot.robot
        /\ selectedRobot'.did = visible[selectedRobot.robot]
    BY <1>1, <1>2 DEF Entry
  <2> QED
    BY <1>1, <1>2, <2>1 DEF SelectionInv, SelectionIsEntry, SelectionListed
<1>3. CASE selectedRobot.robot \notin DOMAIN visible
  BY <1>1, <1>3 DEF Null, SelectionInv, SelectionIsEntry, SelectionListed
<1> QED
  BY <1>2, <1>3

(* Taking cards down, or clearing the DID of the selection, does no harm.      *)
LEMMA QuietSelection ==
  ASSUME SelectionInv,
         UNCHANGED <<selectedRobot, lastVisibleRobots>>,
         cards' \subseteq cards
  PROVE  SelectionInv'
  BY DEF SelectionInv, SelectionIsEntry, SelectionListed

LEMMA ClearedSelection ==
  ASSUME SelectionInv,
         UNCHANGED <<lastVisibleRobots, cards>>,
         selectedRobot' = [selectedRobot EXCEPT !.did = NoRobot]
  PROVE  SelectionInv'
<1>1. /\ selectedRobot' = [robot |-> selectedRobot.robot, did |-> NoRobot]
      /\ selectedRobot'.robot = selectedRobot.robot
      /\ selectedRobot'.did = NoRobot
  BY DEF SelectionInv, SelectionIsEntry
<1> QED
  BY <1>1 DEF SelectionInv, SelectionIsEntry, SelectionListed

LEMMA ToggledSelection ==
  ASSUME SelectionInv, NEW r, ToggleRobotSelection(r)
  PROVE  SelectionInv'
<1>1. /\ UNCHANGED <<lastVisibleRobots, cards>>
      /\ r \in DOMAIN lastVisibleRobots
      /\ selectedRobot' = IF selectedRobot.robot = r THEN Null ELSE Entry(lastVisibleRobots, r)
  BY DEF ToggleRobotSelection
<1>2. CASE selectedRobot' = Null
  BY <1>1, <1>2 DEF Null, SelectionInv, SelectionIsEntry, SelectionListed
<1>3. CASE selectedRobot' = Entry(lastVisibleRobots, r)
  BY <1>1, <1>3 DEF Entry, SelectionInv, SelectionIsEntry, SelectionListed
<1> QED
  BY <1>1, <1>2, <1>3

------------------------------------------------------------------------------
LEMMA SelectionInit == Init => SelectionInv
  BY DEF Init, BrowserInit, Null, SelectionInv, SelectionIsEntry, SelectionListed

LEMMA UserStep ==
  ASSUME SelectionInv, UseBrowser \/ HideRobots
  PROVE  SelectionInv'
<1>1. CASE \E r \in Robot : ToggleRobotSelection(r)
  BY <1>1, ToggledSelection
<1>2. CASE \E r \in Robot : TypeDid(r)
  BY <1>2, QuietSelection DEF TypeDid
<1>3. CASE ToggleHideDeactivated
  <2>1. CASE RenderRobots(lastRobotsResult, ~ hideDeactivated)
    BY <2>1, RenderRobotsSelection
  <2>2. CASE UNCHANGED <<selectedRobot, lastVisibleRobots, cards>>
    BY <2>2, QuietSelection
  <2> QED
    BY <1>3, <2>1, <2>2 DEF ToggleHideDeactivated
<1>4. CASE HideRobots
  BY <1>4 DEF HideRobots, ResetRobotsBrowser, Null,
              SelectionInv, SelectionIsEntry, SelectionListed
<1> QED
  BY <1>1, <1>2, <1>3, <1>4 DEF UseBrowser

LEMMA HandlerStep ==
  ASSUME SelectionInv, NEW c \in Task, Progress(c)
  PROVE  SelectionInv'
<1>1. CASE RevokeReceipt(c)
  BY <1>1, ClearedSelection DEF RevokeReceipt
<1>2. CASE Render(c)
  <2>1. RenderRobots(task[c].list, hideDeactivated)
    BY <1>2 DEF Render, FinishLoading
  <2> QED
    BY <2>1, RenderRobotsSelection
<1>3. CASE Submit(c) \/ Mine(c) \/ LifecycleReceipt(c) \/ UpdateReceipt(c)
           \/ Refreshed(c) \/ ReadTimelineToken(c) \/ ReadTimelineDid(c)
           \/ ReportTimeline(c) \/ ListRobots(c)
  BY <1>3, QuietSelection
     DEF Submit, Mine, LifecycleReceipt, UpdateReceipt, Refreshed, ReadTimelineToken,
         ReadTimelineDid, ReportTimeline, ListRobots, browser
<1>4. CASE TransferReceipt(c) \/ ReportRecord(c) \/ Fail(c)
  BY <1>4, QuietSelection DEF TransferReceipt, ReportRecord, Fail, StartLoading
<1> QED
  BY <1>1, <1>2, <1>3, <1>4 DEF Progress

LEMMA SelectionStep == SelectionInv /\ [Next]_vars => SelectionInv'
<1> SUFFICES ASSUME SelectionInv, [Next]_vars PROVE SelectionInv'
  OBVIOUS
<1>1. CASE UseBrowser \/ HideRobots
  BY <1>1, UserStep
<1>2. ASSUME NEW c \in Task, Progress(c) PROVE SelectionInv'
  BY <1>2, HandlerStep
<1>3. ASSUME NEW c \in Task, ShowRobots(c) PROVE SelectionInv'
  BY <1>3, QuietSelection DEF ShowRobots, StartLoading
<1>4. ASSUME NEW c \in Task, NEW op \in Buttons, Click(c, op) PROVE SelectionInv'
  BY <1>4, QuietSelection DEF Click
<1>5. CASE (\E r \in Robot : ChangedElsewhere(r)) \/ UNCHANGED vars
  BY <1>5, QuietSelection DEF ChangedElsewhere, vars, browser
<1> QED
  BY <1>1, <1>2, <1>3, <1>4, <1>5 DEF Next

(* However loading, hiding, filtering, selecting and revoking overlap, the     *)
(* selected robot is in the list rendered last and every card can be selected  *)
(* (renderRobots, resetRobotsBrowser, toggleRobotSelection and the revoke      *)
(* handler).                                                                   *)
THEOREM SelectionStaysListed == Spec => []SelectionListed
<1>1. SelectionInv => SelectionListed
  BY DEF SelectionInv
<1> QED
  BY <1>1, SelectionInit, SelectionStep, PTL DEF Spec

------------------------------------------------------------------------------
(* What the operations act on.  The lists name each robot's own DID or none,   *)
(* so the selection does.                                                      *)
Lists == {l \in List : \A r \in DOMAIN l : l[r] \in {r, NoRobot}}

Selections == {s \in [robot : Robot \cup {NoRobot}, did : Robot \cup {NoRobot}] :
                 s.did \in {s.robot, NoRobot}}

(* What an invocation can be, its op with what it awaits.                      *)
Place ==
  {"idle", "wallet", "transaction", "receipt", "record", "refresh", "timeline", "token",
   "events", "list", "render", "done"}

Invocation ==
  [op : Buttons \cup {"none"}, at : Place,
   clicked : Robot \cup {NoRobot}, sent : Robot \cup {NoRobot},
   record : Robot \cup {NoRobot}, said : Robot \cup {NoRobot}, list : Lists]

Writing == {"wallet", "transaction", "receipt"}

Coherent(t) ==
  /\ t.at \in Writing => t.op \in Lifecycle \cup Update \cup {"revoke", "transfer"}
  /\ t.at = "record" => t.op \in Lifecycle \cup Update \cup Look
  /\ t.at = "transaction" => t.sent \in Robot
  /\ t.at \in {"timeline", "token", "events"} => t.op = "timeline"
  /\ t.at = "refresh" => t.op = "revoke"
  /\ t.at \in {"idle", "render"} => t.clicked = NoRobot

(* An invocation that still knows what was clicked finds it selected, with the *)
(* DID it had, and in the DID field if it was put there.                       *)
Holding(t, selection, field) ==
  t.clicked # NoRobot =>
    /\ t.at \notin {"idle", "done"} => selection.robot = t.clicked
    /\ t.at \in Writing \cup {"record"} /\ t.op # "transfer" => selection.did = t.clicked
    /\ t.at \in Writing \cup {"record"} /\ t.op \in Lifecycle \cup Look => field = t.clicked

(* ActsOnSelection, of one invocation.                                         *)
Acted(t) ==
  t.clicked # NoRobot =>
    /\ t.sent \in {NoRobot, t.clicked}
    /\ t.record \in {NoRobot, t.clicked}
    /\ t.said \in {NoRobot, t.clicked}
    /\ t.at \in {"refresh", "list", "done"} /\ t.op # "transfer" => t.said = t.clicked

Kept(t, selection, field) == Coherent(t) /\ Holding(t, selection, field) /\ Acted(t)

ListsInv ==
  /\ selectedRobot \in Selections
  /\ lastRobotsResult \in Lists
  /\ lastVisibleRobots \in Lists
  /\ didField \in Robot \cup {NoRobot}

TasksInv ==
  /\ task \in [Task -> Invocation]
  /\ \A c \in Task : Kept(task[c], selectedRobot, didField)

ActsInv == ListsInv /\ TasksInv

------------------------------------------------------------------------------
LEMMA ListDomain ==
  ASSUME NEW l \in Lists
  PROVE  /\ DOMAIN l \subseteq Robot
         /\ \A r \in DOMAIN l : l[r] \in Robot \cup {NoRobot} /\ l[r] \in {r, NoRobot}
<1>1. l \in UNION {[S -> Robot \cup {NoRobot}] : S \in SUBSET Robot}
  BY DEF Lists, List
<1>2. PICK S \in SUBSET Robot : l \in [S -> Robot \cup {NoRobot}]
  BY <1>1
<1> QED
  BY <1>2 DEF Lists

LEMMA SomeLists == NoList \in Lists /\ ActiveDIDs \in Lists
<1>1. NoList \in [{} -> Robot \cup {NoRobot}] /\ {} \in SUBSET Robot
  BY DEF NoList
<1>2. ActiveDIDs \in [Robot -> Robot \cup {NoRobot}] /\ Robot \in SUBSET Robot
  BY DEF ActiveDIDs
<1>3. NoList \in List /\ ActiveDIDs \in List
  BY <1>1, <1>2 DEF List
<1>4. /\ \A r \in DOMAIN NoList : NoList[r] \in {r, NoRobot}
      /\ \A r \in DOMAIN ActiveDIDs : ActiveDIDs[r] \in {r, NoRobot}
  BY DEF NoList, ActiveDIDs
<1> QED
  BY <1>3, <1>4 DEF Lists

LEMMA ListedLists ==
  ASSUME NEW l \in Lists, NEW hide
  PROVE  Listed(l, hide) \in Lists
<1> DEFINE S == {r \in DOMAIN l : hide => l[r] # NoRobot}
<1>1. Listed(l, hide) = [r \in S |-> l[r]]
  BY DEF Listed, Restrict
<1>2. S \subseteq Robot /\ [r \in S |-> l[r]] \in [S -> Robot \cup {NoRobot}]
  BY ListDomain
<1>3. \A r \in S : l[r] \in {r, NoRobot}
  BY ListDomain
<1> HIDE DEF S
<1>4. [r \in S |-> l[r]] \in List
  BY <1>2 DEF List
<1> QED
  BY <1>1, <1>3, <1>4 DEF Lists

(* A rendering, and a click on a card, leave the selection sound.              *)
LEMMA EntrySelection ==
  ASSUME NEW l \in Lists, NEW r \in DOMAIN l
  PROVE  Entry(l, r) \in Selections
  BY ListDomain DEF Entry, Selections

LEMMA NullSelection == Null \in Selections
  BY DEF Null, Selections

LEMMA RenderLists ==
  ASSUME NEW l \in Lists, NEW hide, RenderRobots(l, hide)
  PROVE  selectedRobot' \in Selections /\ lastVisibleRobots' \in Lists
<1> DEFINE visible == Listed(l, hide)
<1>1. /\ lastVisibleRobots' = visible
      /\ selectedRobot' = IF selectedRobot.robot \in DOMAIN visible
                            THEN Entry(visible, selectedRobot.robot) ELSE Null
  BY DEF RenderRobots
<1>2. visible \in Lists
  BY ListedLists
<1> HIDE DEF visible
<1> QED
  BY <1>1, <1>2, EntrySelection, NullSelection

(* The other invocations stay sound: what they hold is unchanged, or they      *)
(* know that it is not.                                                        *)
LEMMA NoticedKept ==
  ASSUME TasksInv, NEW x \in Task
  PROVE  Noticed(x) \in Invocation /\ Kept(Noticed(x), selectedRobot', didField')
<1>1. task[x] \in Invocation /\ Kept(task[x], selectedRobot, didField)
  BY DEF TasksInv
<1>2. CASE Running(x) /\ <<selectedRobot, didField>>' # <<selectedRobot, didField>>
  <2> DEFINE t == [task[x] EXCEPT !.clicked = NoRobot]
  <2>1. /\ t \in Invocation /\ t.clicked = NoRobot
        /\ t.at = task[x].at /\ t.op = task[x].op /\ t.sent = task[x].sent
    BY <1>1 DEF Invocation
  <2>2. Noticed(x) = t
    BY <1>2 DEF Noticed
  <2> HIDE DEF t
  <2> QED
    BY <1>1, <2>1, <2>2 DEF Kept, Coherent, Holding, Acted
<1>3. CASE ~ Running(x)
  <2>1. Noticed(x) = task[x] /\ task[x].at \in {"idle", "done"}
    BY <1>3 DEF Noticed, Running
  <2> QED
    BY <1>1, <2>1 DEF Kept, Holding, Writing
<1>4. CASE <<selectedRobot, didField>>' = <<selectedRobot, didField>>
  <2>1. Noticed(x) = task[x] /\ selectedRobot' = selectedRobot /\ didField' = didField
    BY <1>4 DEF Noticed
  <2> QED
    BY <1>1, <2>1
<1> QED
  BY <1>2, <1>3, <1>4

LEMMA OthersKept ==
  ASSUME TasksInv, Others
  PROVE  TasksInv'
  BY NoticedKept DEF Others, TasksInv

LEMMA ContinueKept ==
  ASSUME TasksInv, NEW c \in Task, NEW t, Continue(c, t),
         t \in Invocation, Kept(t, selectedRobot', didField')
  PROVE  TasksInv'
  BY NoticedKept DEF Continue, TasksInv

LEMMA IdleKept ==
  /\ Idle \in Invocation
  /\ \A selection, field : Kept(Idle, selection, field)
  BY SomeLists DEF Idle, Invocation, Place, Kept, Coherent, Holding, Acted, Writing

------------------------------------------------------------------------------
LEMMA ActsInit == Init => ActsInv
<1> SUFFICES ASSUME Init PROVE ActsInv
  OBVIOUS
<1>1. ListsInv
  BY SomeLists, NullSelection DEF Init, BrowserInit, ListsInv
<1>2. task = [c \in Task |-> Idle]
  BY DEF Init
<1> HIDE DEF Init
<1>3. TasksInv
  BY <1>2, IdleKept DEF TasksInv
<1> QED
  BY <1>1, <1>3 DEF ActsInv

LEMMA UserActs ==
  ASSUME ActsInv, UseBrowser \/ HideRobots
  PROVE  ActsInv'
<1>1. TasksInv'
  BY OthersKept DEF ActsInv, UseBrowser, HideRobots
<1>2. ASSUME NEW r \in Robot, ToggleRobotSelection(r) PROVE ListsInv'
  BY <1>2, EntrySelection, NullSelection DEF ToggleRobotSelection, ActsInv, ListsInv
<1>3. ASSUME NEW r \in Robot, TypeDid(r) PROVE ListsInv'
  BY <1>3 DEF TypeDid, ActsInv, ListsInv
<1>4. ASSUME ToggleHideDeactivated PROVE ListsInv'
  <2>1. /\ lastRobotsResult' = lastRobotsResult /\ didField' = didField
        /\ \/ RenderRobots(lastRobotsResult, ~ hideDeactivated)
           \/ selectedRobot' = selectedRobot /\ lastVisibleRobots' = lastVisibleRobots
    BY <1>4, Zenon DEF ToggleHideDeactivated
  <2>2. selectedRobot' \in Selections /\ lastVisibleRobots' \in Lists
    BY <2>1, RenderLists DEF ActsInv, ListsInv
  <2> QED
    BY <2>1, <2>2 DEF ActsInv, ListsInv
<1>5. ASSUME HideRobots PROVE ListsInv'
  <2>1. /\ selectedRobot' = Null /\ lastRobotsResult' = NoList /\ lastVisibleRobots' = NoList
        /\ didField' = didField
    BY <1>5, Zenon DEF HideRobots, ResetRobotsBrowser
  <2> QED
    BY <2>1, SomeLists, NullSelection DEF ActsInv, ListsInv
<1> QED
  BY <1>1, <1>2, <1>3, <1>4, <1>5 DEF UseBrowser, ActsInv

LEMMA ShowActs ==
  ASSUME ActsInv, NEW c \in Task, ShowRobots(c)
  PROVE  ActsInv'
<1> DEFINE t == [Idle EXCEPT !.op = "show", !.at = "list"]
<1>1. t \in Invocation /\ t.at = "list" /\ t.clicked = NoRobot
  BY IdleKept DEF Idle, Invocation, Place, Buttons
<1>2. Continue(c, t)
  BY DEF ShowRobots
<1> HIDE DEF t
<1>3. Kept(t, selectedRobot', didField')
  BY <1>1 DEF Kept, Coherent, Holding, Acted, Writing
<1> QED
  BY <1>1, <1>2, <1>3, ContinueKept DEF ActsInv, ListsInv, ShowRobots

LEMMA ClickActs ==
  ASSUME ActsInv, NEW c \in Task, NEW op \in Buttons, Click(c, op)
  PROVE  ActsInv'
<1> DEFINE t == [Idle EXCEPT
       !.op = op, !.clicked = selectedRobot.robot,
       !.at = CASE op \in Look -> "record" [] op = "timeline" -> "timeline" [] OTHER -> "wallet",
       !.record = IF op \in Look THEN selectedRobot.did ELSE NoRobot]
<1>1. /\ op # "show" /\ selectedRobot \in Selections /\ selectedRobot' = selectedRobot
      /\ selectedRobot.robot \in Robot /\ selectedRobot.did \in {selectedRobot.robot, NoRobot}
      /\ op \notin {"transfer", "timeline"} => selectedRobot.did # NoRobot
      /\ didField' = IF op \in Lifecycle \cup Look THEN selectedRobot.did ELSE didField
  BY DEF ActsInv, ListsInv, Selections, Click
<1>2. /\ t.op = op /\ t.clicked = selectedRobot.robot
      /\ t.at \in {"record", "timeline", "wallet"}
      /\ t.at = "record" <=> op \in Look
      /\ t.at = "timeline" <=> op = "timeline"
      /\ t.record = IF op \in Look THEN selectedRobot.did ELSE NoRobot
      /\ t.sent = NoRobot /\ t.said = NoRobot /\ t.list = NoList
  BY <1>1 DEF Idle, Look
<1>3. Continue(c, t)
  BY DEF Click
<1>4. t \in Invocation
  BY <1>1, <1>2, SomeLists DEF Idle, Invocation, Place, Look
<1> HIDE DEF t
<1>5. Kept(t, selectedRobot', didField')
  BY <1>1, <1>2, RobotAssumption
     DEF Kept, Coherent, Holding, Acted, Writing, Buttons, Lifecycle, Update, Look
<1>6. ListsInv'
  BY <1>1 DEF ActsInv, ListsInv, Click
<1> QED
  BY <1>3, <1>4, <1>5, <1>6, ContinueKept DEF ActsInv

(* Most steps go on without touching what others hold.                         *)
LEMMA QuietActs ==
  ASSUME ActsInv, NEW c \in Task, NEW t, Continue(c, t), t \in Invocation,
         UNCHANGED <<selectedRobot, lastRobotsResult, lastVisibleRobots, didField>>,
         Kept(t, selectedRobot, didField)
  PROVE  ActsInv'
  BY ContinueKept DEF ActsInv, ListsInv

LEMMA OwnTask ==
  ASSUME ActsInv, NEW c \in Task
  PROVE  /\ task[c] \in Invocation /\ Kept(task[c], selectedRobot, didField)
         /\ selectedRobot.robot \in Robot \cup {NoRobot}
         /\ selectedRobot.did \in {selectedRobot.robot, NoRobot}
         /\ didField \in Robot \cup {NoRobot}
  BY DEF ActsInv, ListsInv, TasksInv, Selections

LEMMA AwaitActs ==
  ASSUME ActsInv, NEW c \in Task, Mine(c) \/ Refreshed(c)
  PROVE  ActsInv'
<1> DEFINE s == task[c]
           where == IF s.at = "transaction" THEN "receipt" ELSE "list"
           t == [s EXCEPT !.at = where]
<1>1. /\ s \in Invocation /\ Kept(s, selectedRobot, didField)
      /\ Continue(c, t)
      /\ s.at \in {"transaction", "refresh"}
      /\ UNCHANGED <<selectedRobot, lastRobotsResult, lastVisibleRobots, didField>>
  BY OwnTask DEF Mine, Refreshed, Await, browser
<1>2. /\ t \in Invocation /\ t.at = where
      /\ t.op = s.op /\ t.clicked = s.clicked /\ t.sent = s.sent
      /\ t.record = s.record /\ t.said = s.said
  BY <1>1 DEF Invocation, Place
<1> HIDE DEF t, s
<1>3. Kept(t, selectedRobot, didField)
  BY <1>1, <1>2 DEF Kept, Coherent, Holding, Acted, Writing
<1> QED
  BY <1>1, <1>2, <1>3, QuietActs

LEMMA SubmitActs ==
  ASSUME ActsInv, NEW c \in Task, Submit(c)
  PROVE  ActsInv'
<1> DEFINE s == task[c]
           t == [s EXCEPT !.at = "transaction", !.sent = selectedRobot.robot]
<1>1. /\ s \in Invocation /\ Kept(s, selectedRobot, didField)
      /\ Continue(c, t) /\ s.at = "wallet"
      /\ UNCHANGED <<selectedRobot, lastRobotsResult, lastVisibleRobots, didField>>
      /\ selectedRobot.robot \in Robot \cup {NoRobot}
  BY OwnTask DEF Submit, browser
<1>2. selectedRobot.robot \in Robot
  BY <1>1 DEF Submit
<1>3. /\ t \in Invocation /\ t.at = "transaction" /\ t.sent = selectedRobot.robot
      /\ t.op = s.op /\ t.clicked = s.clicked
      /\ t.record = s.record /\ t.said = s.said
  BY <1>1 DEF Invocation, Place
<1> HIDE DEF t, s
<1>4. Kept(t, selectedRobot, didField)
  BY <1>1, <1>2, <1>3 DEF Kept, Coherent, Holding, Acted, Writing
<1> QED
  BY <1>1, <1>3, <1>4, QuietActs

(* The token selected is the one whose events are read first.                  *)
LEMMA TokenActs ==
  ASSUME ActsInv, NEW c \in Task, ReadTimelineToken(c)
  PROVE  ActsInv'
<1> DEFINE s == task[c]
           t == [s EXCEPT !.at = "token", !.sent = selectedRobot.robot]
<1>1. /\ s \in Invocation /\ Kept(s, selectedRobot, didField)
      /\ Continue(c, t) /\ s.at = "timeline"
      /\ UNCHANGED <<selectedRobot, lastRobotsResult, lastVisibleRobots, didField>>
      /\ selectedRobot.robot \in Robot \cup {NoRobot}
  BY OwnTask DEF ReadTimelineToken, browser
<1>2. /\ t \in Invocation /\ t.at = "token" /\ t.sent = selectedRobot.robot
      /\ t.op = s.op /\ t.clicked = s.clicked
      /\ t.record = s.record /\ t.said = s.said
  BY <1>1 DEF Invocation, Place
<1> HIDE DEF t, s
<1>3. Kept(t, selectedRobot, didField)
  BY <1>1, <1>2 DEF Kept, Coherent, Holding, Acted, Writing
<1> QED
  BY <1>1, <1>2, <1>3, QuietActs

(* The record of the DID in the field, or of the DID selected, is read next.   *)
LEMMA RecordActs ==
  ASSUME ActsInv, NEW c \in Task, LifecycleReceipt(c) \/ ReadTimelineDid(c)
  PROVE  ActsInv'
<1> DEFINE s == task[c]
           where == IF s.at = "receipt" THEN "record" ELSE "events"
           what == IF s.at = "receipt" THEN didField ELSE selectedRobot.did
           t == [s EXCEPT !.at = where, !.record = what]
<1>1. /\ s \in Invocation /\ Kept(s, selectedRobot, didField)
      /\ Continue(c, t) /\ s.at \in {"receipt", "token"}
      /\ s.at = "receipt" => s.op \in Lifecycle
      /\ UNCHANGED <<selectedRobot, lastRobotsResult, lastVisibleRobots, didField>>
      /\ selectedRobot.robot \in Robot \cup {NoRobot}
      /\ selectedRobot.did \in {selectedRobot.robot, NoRobot}
      /\ didField \in Robot \cup {NoRobot}
  BY OwnTask DEF LifecycleReceipt, ReadTimelineDid, browser
<1>2. /\ t \in Invocation /\ t.at = where /\ t.record = what
      /\ t.op = s.op /\ t.clicked = s.clicked
      /\ t.sent = s.sent /\ t.said = s.said
  BY <1>1 DEF Invocation, Place
<1> HIDE DEF t, s
<1>3. Kept(t, selectedRobot, didField)
  BY <1>1, <1>2 DEF Kept, Coherent, Holding, Acted, Writing, Lifecycle
<1> QED
  BY <1>1, <1>2, <1>3, QuietActs

(* The report names the robot selected by now.                                 *)
LEMMA ReportActs ==
  ASSUME ActsInv, NEW c \in Task, ReportRecord(c) \/ ReportTimeline(c) \/ TransferReceipt(c)
  PROVE  ActsInv'
<1> DEFINE s == task[c]
<1>1. /\ s \in Invocation /\ Kept(s, selectedRobot, didField)
      /\ s.at \in {"record", "events", "receipt"}
      /\ s.at = "receipt" => s.op = "transfer"
      /\ selectedRobot.robot \in Robot \cup {NoRobot}
      /\ selectedRobot.did \in {selectedRobot.robot, NoRobot}
  BY OwnTask DEF ReportRecord, ReportTimeline, TransferReceipt
<1>2. UNCHANGED <<selectedRobot, lastRobotsResult, lastVisibleRobots, didField>>
  BY DEF ReportRecord, ReportTimeline, TransferReceipt, browser
<1>3. PICK where \in {"list", "done"}, what \in Robot \cup {NoRobot} :
        /\ what = IF s.at = "events" THEN selectedRobot.robot ELSE selectedRobot.did
        /\ Continue(c, [s EXCEPT !.at = where, !.said = what])
  <2>1. CASE ReportRecord(c)
    <3> DEFINE where == IF s.op \in Lifecycle THEN "list" ELSE "done"
    <3>1. s.at = "record" /\ Continue(c, [s EXCEPT !.said = selectedRobot.did, !.at = where])
      BY <2>1 DEF ReportRecord
    <3>2. [s EXCEPT !.said = selectedRobot.did, !.at = where]
            = [s EXCEPT !.at = where, !.said = selectedRobot.did]
      BY <1>1 DEF Invocation
    <3>3. where \in {"list", "done"}
      OBVIOUS
    <3> HIDE DEF where
    <3> QED BY <1>1, <3>1, <3>2, <3>3
  <2>2. CASE ReportTimeline(c)
    <3>1. s.at = "events" /\ Continue(c, [s EXCEPT !.at = "done", !.said = selectedRobot.robot])
      BY <2>2 DEF ReportTimeline
    <3> QED BY <1>1, <3>1
  <2>3. CASE TransferReceipt(c)
    <3>1. s.at = "receipt" /\ Continue(c, [s EXCEPT !.at = "list", !.said = selectedRobot.did])
      BY <2>3 DEF TransferReceipt
    <3> QED BY <1>1, <3>1
  <2> QED BY <2>1, <2>2, <2>3
<1> DEFINE t == [s EXCEPT !.at = where, !.said = what]
<1>4. /\ t \in Invocation /\ t.at = where /\ t.said = what
      /\ t.op = s.op /\ t.clicked = s.clicked
      /\ t.sent = s.sent /\ t.record = s.record
  BY <1>1 DEF Invocation, Place
<1> HIDE DEF t, s
<1>5. /\ t.at \in {"list", "done"}
      /\ t.clicked # NoRobot => selectedRobot.robot = t.clicked
      /\ s.at = "record" /\ t.clicked # NoRobot => selectedRobot.did = t.clicked
  <2>1. t.at \in {"list", "done"} /\ t.clicked = s.clicked
    BY <1>4
  <2>2. s.at = "record" => s.op # "transfer"
    BY <1>1 DEF Kept, Coherent, Lifecycle, Update, Look
  <2>3. s.clicked # NoRobot => selectedRobot.robot = s.clicked
    BY <1>1 DEF Kept, Holding
  <2>4. s.at = "record" /\ s.clicked # NoRobot => selectedRobot.did = s.clicked
    BY <1>1, <2>2 DEF Kept, Holding
  <2> QED
    BY <2>1, <2>3, <2>4
<1>6. Coherent(t) /\ Holding(t, selectedRobot, didField)
  BY <1>4, <1>5 DEF Coherent, Holding, Writing
<1>7. Acted(t)
  BY <1>1, <1>3, <1>4, <1>5 DEF Kept, Acted
<1> QED
  BY <1>2, <1>3, <1>4, <1>6, <1>7, QuietActs DEF Kept, t

LEMMA UpdateActs ==
  ASSUME ActsInv, NEW c \in Task, UpdateReceipt(c)
  PROVE  ActsInv'
<1> DEFINE s == task[c]
           t == [s EXCEPT !.at = "record", !.record = selectedRobot.did]
<1>1. /\ s \in Invocation /\ Kept(s, selectedRobot, didField)
      /\ Continue(c, t) /\ s.at = "receipt" /\ s.op \in Update
      /\ selectedRobot.robot \in Robot \cup {NoRobot}
      /\ selectedRobot.did \in {selectedRobot.robot, NoRobot}
      /\ selectedRobot' = selectedRobot /\ didField' = selectedRobot.did
  BY OwnTask DEF UpdateReceipt
<1>2. /\ t \in Invocation /\ t.at = "record" /\ t.record = selectedRobot.did
      /\ t.op = s.op /\ t.clicked = s.clicked
      /\ t.sent = s.sent /\ t.said = s.said
  BY <1>1 DEF Invocation, Place
<1> HIDE DEF t, s
<1>3. Kept(t, selectedRobot, didField')
  BY <1>1, <1>2 DEF Kept, Coherent, Holding, Acted, Writing, Lifecycle, Update, Look
<1>4. ListsInv'
  BY <1>1 DEF ActsInv, ListsInv, UpdateReceipt
<1> QED
  BY <1>1, <1>2, <1>3, <1>4, ContinueKept DEF ActsInv

LEMMA RevokeActs ==
  ASSUME ActsInv, NEW c \in Task, RevokeReceipt(c)
  PROVE  ActsInv'
<1> DEFINE s == task[c]
           t == [s EXCEPT !.at = "refresh", !.said = selectedRobot.did,
                          !.record = selectedRobot.did]
           cleared == [selectedRobot EXCEPT !.did = NoRobot]
<1>1. /\ s \in Invocation /\ Kept(s, selectedRobot, didField)
      /\ Continue(c, t) /\ s.at = "receipt" /\ s.op = "revoke"
      /\ selectedRobot.did \in {selectedRobot.robot, NoRobot}
      /\ selectedRobot.robot \in Robot \cup {NoRobot}
      /\ selectedRobot' = cleared /\ didField' = selectedRobot.did
  BY OwnTask DEF RevokeReceipt
<1>2. /\ t \in Invocation /\ t.at = "refresh" /\ t.record = selectedRobot.did
      /\ t.op = s.op /\ t.clicked = s.clicked
      /\ t.sent = s.sent /\ t.said = selectedRobot.did
  BY <1>1 DEF Invocation, Place
<1>3. cleared \in Selections /\ cleared.robot = selectedRobot.robot
  BY DEF ActsInv, ListsInv, Selections
<1> HIDE DEF t, s, cleared
<1>4. Kept(t, selectedRobot', didField')
  BY <1>1, <1>2, <1>3 DEF Kept, Coherent, Holding, Acted, Writing, Lifecycle, Update, Look
<1>5. ListsInv'
  BY <1>1, <1>3 DEF ActsInv, ListsInv, RevokeReceipt
<1> QED
  BY <1>1, <1>2, <1>4, <1>5, ContinueKept DEF ActsInv

LEMMA ListActs ==
  ASSUME ActsInv, NEW c \in Task, ListRobots(c)
  PROVE  ActsInv'
<1> DEFINE s == task[c]
           t == [Idle EXCEPT !.op = s.op, !.at = "render", !.list = ActiveDIDs, !.sent = s.sent]
<1>1. /\ s \in Invocation /\ Continue(c, t)
      /\ UNCHANGED <<selectedRobot, lastRobotsResult, lastVisibleRobots, didField>>
  BY OwnTask DEF ListRobots, browser
<1>2. t \in Invocation /\ t.at = "render" /\ t.clicked = NoRobot
  BY <1>1, SomeLists DEF Invocation, Place, Idle
<1> HIDE DEF t
<1>3. Kept(t, selectedRobot, didField)
  BY <1>2 DEF Kept, Coherent, Holding, Acted, Writing
<1> QED
  BY <1>1, <1>2, <1>3, QuietActs

LEMMA RenderActs ==
  ASSUME ActsInv, NEW c \in Task, Render(c)
  PROVE  ActsInv'
<1>1. /\ RenderRobots(task[c].list, hideDeactivated)
      /\ lastRobotsResult' \in {lastRobotsResult, task[c].list}
      /\ didField' = didField
  <2>1. CASE task[c].op = "revoke"
    BY <2>1 DEF Render
  <2>2. CASE task[c].op # "revoke"
    BY <2>2 DEF Render, FinishLoading
  <2> QED BY <2>1, <2>2
<1>2. task[c].list \in Lists
  BY OwnTask DEF Invocation
<1>3. selectedRobot' \in Selections /\ lastVisibleRobots' \in Lists
  BY <1>1, <1>2, RenderLists
<1>4. ListsInv'
  BY <1>1, <1>2, <1>3 DEF ActsInv, ListsInv
<1>5. Continue(c, Idle)
  BY DEF Render
<1> QED
  BY <1>4, <1>5, IdleKept, ContinueKept DEF ActsInv

LEMMA FailActs ==
  ASSUME ActsInv, NEW c \in Task, Fail(c)
  PROVE  ActsInv'
<1>1. /\ Continue(c, Idle)
      /\ UNCHANGED <<selectedRobot, lastRobotsResult, lastVisibleRobots, didField>>
  BY Zenon DEF Fail
<1> QED
  BY <1>1, IdleKept, QuietActs

LEMMA ActsStep == ActsInv /\ [Next]_vars => ActsInv'
<1> SUFFICES ASSUME ActsInv, [Next]_vars PROVE ActsInv'
  OBVIOUS
<1>1. CASE UseBrowser \/ HideRobots
  BY <1>1, UserActs
<1>2. ASSUME NEW c \in Task, Progress(c) PROVE ActsInv'
  BY <1>2, AwaitActs, SubmitActs, RecordActs, TokenActs, ReportActs, UpdateActs, RevokeActs,
     ListActs, RenderActs, FailActs DEF Progress
<1>3. ASSUME NEW c \in Task, ShowRobots(c) PROVE ActsInv'
  BY <1>3, ShowActs
<1>4. ASSUME NEW c \in Task, NEW op \in Buttons, Click(c, op) PROVE ActsInv'
  BY <1>4, ClickActs
<1>5. CASE (\E r \in Robot : ChangedElsewhere(r)) \/ UNCHANGED vars
  BY <1>5 DEF ChangedElsewhere, vars, browser, ActsInv, ListsInv, TasksInv
<1> QED
  BY <1>1, <1>2, <1>3, <1>4, <1>5 DEF Next

(* An operation acts on, reads and reports the robot that was selected when    *)
(* its button was clicked, unless something else touched the selection or the  *)
(* DID field: for any robots, any number of handlers under way and any         *)
(* interleaving with the user and other accounts (app.js,                      *)
(* registry/robot-lifecycle.js, controllers.js, did-queries.js).               *)
THEOREM ActionsFollowSelection == Spec => []ActsOnSelection
<1>1. ActsInv => ActsOnSelection
  BY DEF ActsInv, TasksInv, Kept, Acted, ActsOnSelection
<1> QED
  BY <1>1, ActsInit, ActsStep, PTL DEF Spec

------------------------------------------------------------------------------
(* A revoke handler that has its receipt is about a DID that is gone for good, *)
(* and the list it has read shows none for that robot.                         *)
Gone == {r \in Robot : status[r] = "revoked"}

Shows(t, gone) ==
  t.op = "revoke" =>
    /\ t.at \in {"receipt", "refresh", "list"} => t.sent \in gone
    /\ t.at = "render" /\ t.sent \in DOMAIN t.list => t.list[t.sent] = NoRobot

Statuses == {"none", "active", "suspended", "revoked"}

GoneInv ==
  /\ status \in [Robot -> Statuses]
  /\ \A c \in Task : Shows(task[c], Gone)

ChangeOf(op, r) ==
  status[r] \in After(op).from /\ status' = [status EXCEPT ![r] = After(op).to]

(* No call brings a DID back.                                                  *)
LEMMA ChangeGoes ==
  ASSUME status \in [Robot -> Statuses], NEW r \in Robot, NEW op \in Lifecycle \cup {"revoke"},
         ChangeOf(op, r)
  PROVE  /\ status' \in [Robot -> Statuses] /\ Gone \subseteq Gone'
         /\ op = "revoke" => r \in Gone'
<1>1. /\ After(op).to \in Statuses
      /\ "revoked" \notin After(op).from
      /\ op = "revoke" => After(op).to = "revoked"
  <2>1. CASE op = "suspend"
    BY <2>1 DEF After, Statuses
  <2>2. CASE op = "unsuspend"
    BY <2>2 DEF After, Statuses
  <2>3. CASE op = "revoke"
    BY <2>3 DEF After, Statuses
  <2> QED BY <2>1, <2>2, <2>3 DEF Lifecycle
<1> QED BY <1>1 DEF ChangeOf, Gone

LEMMA MineGoes ==
  ASSUME TasksInv, GoneInv, NEW c \in Task, Mine(c)
  PROVE  /\ status' \in [Robot -> Statuses] /\ Gone \subseteq Gone'
         /\ task[c].op = "revoke" => task[c].sent \in Gone'
<1>1. task[c].sent \in Robot
  BY DEF Mine, TasksInv, Kept, Coherent
<1>2. CASE task[c].op \in Lifecycle \cup {"revoke"}
  <2>1. ChangeOf(task[c].op, task[c].sent)
    BY <1>2 DEF Mine, ChangeOf
  <2> QED BY <1>1, <1>2, <2>1, ChangeGoes DEF GoneInv
<1>3. CASE task[c].op \notin Lifecycle \cup {"revoke"}
  BY <1>1, <1>3 DEF Mine, GoneInv, Gone
<1> QED BY <1>2, <1>3

LEMMA NoticedShows ==
  ASSUME TasksInv, GoneInv, NEW x \in Task, NEW gone, Gone \subseteq gone
  PROVE  Shows(Noticed(x), gone)
<1>1. task[x] \in Invocation /\ Shows(task[x], Gone)
  BY DEF TasksInv, GoneInv
<1>2. /\ Noticed(x).op = task[x].op /\ Noticed(x).at = task[x].at
      /\ Noticed(x).sent = task[x].sent /\ Noticed(x).list = task[x].list
  BY <1>1 DEF Noticed, Invocation
<1> QED BY <1>1, <1>2 DEF Shows

LEMMA ContinueShows ==
  ASSUME TasksInv, GoneInv, NEW c \in Task, NEW t, Continue(c, t),
         status' \in [Robot -> Statuses], Gone \subseteq Gone',
         Shows(t, Gone')
  PROVE  GoneInv'
  BY NoticedShows DEF GoneInv, Continue

LEMMA IdleShows == \A gone : Shows(Idle, gone)
  BY DEF Shows, Idle

(* A step that leaves the DIDs alone.                                          *)
LEMMA QuietShows ==
  ASSUME TasksInv, GoneInv, NEW c \in Task, NEW t, Continue(c, t),
         UNCHANGED status, Shows(t, Gone)
  PROVE  GoneInv'
<1>1. Gone' = Gone /\ status' \in [Robot -> Statuses]
  BY DEF Gone, GoneInv
<1> QED BY <1>1, ContinueShows

LEMMA MineShows ==
  ASSUME TasksInv, GoneInv, NEW c \in Task, Mine(c)
  PROVE  GoneInv'
<1> DEFINE t == [task[c] EXCEPT !.at = "receipt"]
<1>1. task[c] \in Invocation /\ Continue(c, t)
  BY DEF TasksInv, Mine, Await
<1>2. t.op = task[c].op /\ t.at = "receipt" /\ t.sent = task[c].sent
  BY <1>1 DEF Invocation
<1> HIDE DEF t
<1>3. Shows(t, Gone')
  BY <1>2, MineGoes DEF Shows
<1> QED BY <1>1, <1>3, MineGoes, ContinueShows

(* The handler goes on towards the list, or is not about a revocation.         *)
LEMMA OwnShows ==
  ASSUME TasksInv, GoneInv, NEW c \in Task,
         Submit(c) \/ LifecycleReceipt(c) \/ UpdateReceipt(c) \/ TransferReceipt(c)
           \/ RevokeReceipt(c) \/ Refreshed(c) \/ ReportRecord(c)
           \/ ReadTimelineToken(c) \/ ReadTimelineDid(c) \/ ReportTimeline(c)
  PROVE  GoneInv'
<1> DEFINE s == task[c]
<1>1. s \in Invocation /\ Shows(s, Gone) /\ Coherent(s)
  BY DEF TasksInv, GoneInv, Kept
<1>2. ASSUME NEW t, Continue(c, t), UNCHANGED status,
             t.op = s.op, t.at \notin {"receipt", "render"},
             t.at \in {"refresh", "list"} /\ s.op = "revoke" =>
               s.at \in {"receipt", "refresh"} /\ t.sent = s.sent
      PROVE  GoneInv'
  <2>1. Shows(t, Gone)
    BY <1>1, <1>2 DEF Shows
  <2> QED BY <1>2, <2>1, QuietShows
<1>3. CASE Submit(c)
  <2> DEFINE t == [s EXCEPT !.at = "transaction", !.sent = selectedRobot.robot]
  <2>1. Continue(c, t) /\ UNCHANGED status /\ t.op = s.op /\ t.at = "transaction"
    BY <1>1, <1>3 DEF Submit, Invocation
  <2> HIDE DEF t
  <2> QED BY <1>2, <2>1
<1>4. CASE LifecycleReceipt(c)
  <2> DEFINE t == [s EXCEPT !.at = "record", !.record = didField]
  <2>1. Continue(c, t) /\ UNCHANGED status /\ t.op = s.op /\ t.at = "record"
    BY <1>1, <1>4 DEF LifecycleReceipt, Invocation
  <2> HIDE DEF t
  <2> QED BY <1>2, <2>1
<1>5. CASE UpdateReceipt(c)
  <2> DEFINE t == [s EXCEPT !.at = "record", !.record = selectedRobot.did]
  <2>1. Continue(c, t) /\ UNCHANGED status /\ t.op = s.op /\ t.at = "record"
    BY <1>1, <1>5 DEF UpdateReceipt, Invocation
  <2> HIDE DEF t
  <2> QED BY <1>2, <2>1
<1>6. CASE TransferReceipt(c)
  <2> DEFINE t == [s EXCEPT !.at = "list", !.said = selectedRobot.did]
  <2>1. /\ Continue(c, t) /\ UNCHANGED status /\ t.op = s.op /\ t.at = "list"
        /\ s.op = "transfer"
    BY <1>1, <1>6 DEF TransferReceipt, Invocation
  <2> HIDE DEF t
  <2> QED BY <1>2, <2>1
<1>7. CASE RevokeReceipt(c)
  <2> DEFINE t == [s EXCEPT !.at = "refresh", !.said = selectedRobot.did,
                            !.record = selectedRobot.did]
  <2>1. /\ Continue(c, t) /\ UNCHANGED status /\ t.op = s.op /\ t.at = "refresh"
        /\ s.at = "receipt" /\ t.sent = s.sent
    BY <1>1, <1>7 DEF RevokeReceipt, Invocation
  <2> HIDE DEF t
  <2> QED BY <1>2, <2>1
<1>8. CASE Refreshed(c)
  <2> DEFINE t == [s EXCEPT !.at = "list"]
  <2>1. /\ Continue(c, t) /\ UNCHANGED status /\ t.op = s.op /\ t.at = "list"
        /\ s.at = "refresh" /\ t.sent = s.sent
    BY <1>1, <1>8 DEF Refreshed, Await, Invocation
  <2> HIDE DEF t
  <2> QED BY <1>2, <2>1
<1>9. CASE ReportRecord(c)
  <2> DEFINE t == [s EXCEPT !.said = selectedRobot.did,
                            !.at = IF s.op \in Lifecycle THEN "list" ELSE "done"]
  <2>1. /\ Continue(c, t) /\ UNCHANGED status /\ t.op = s.op
        /\ t.at \in {"list", "done"} /\ s.at = "record"
    BY <1>1, <1>9 DEF ReportRecord, Invocation
  <2>2. s.op # "revoke"
    BY <1>1, <2>1 DEF Coherent, Lifecycle, Update, Look
  <2> HIDE DEF t
  <2> QED BY <1>2, <2>1, <2>2
<1>10. CASE ReadTimelineDid(c)
  <2> DEFINE t == [s EXCEPT !.at = "events", !.record = selectedRobot.did]
  <2>1. Continue(c, t) /\ UNCHANGED status /\ t.op = s.op /\ t.at = "events"
    BY <1>1, <1>10 DEF ReadTimelineDid, Invocation
  <2> HIDE DEF t
  <2> QED BY <1>2, <2>1
<1>11. CASE ReportTimeline(c)
  <2> DEFINE t == [s EXCEPT !.at = "done", !.said = selectedRobot.robot]
  <2>1. Continue(c, t) /\ UNCHANGED status /\ t.op = s.op /\ t.at = "done"
    BY <1>1, <1>11 DEF ReportTimeline, Invocation
  <2> HIDE DEF t
  <2> QED BY <1>2, <2>1
<1>12. CASE ReadTimelineToken(c)
  <2> DEFINE t == [s EXCEPT !.at = "token", !.sent = selectedRobot.robot]
  <2>1. Continue(c, t) /\ UNCHANGED status /\ t.op = s.op /\ t.at = "token"
    BY <1>1, <1>12 DEF ReadTimelineToken, Invocation
  <2> HIDE DEF t
  <2> QED BY <1>2, <2>1
<1> QED
  BY <1>3, <1>4, <1>5, <1>6, <1>7, <1>8, <1>9, <1>10, <1>11, <1>12

LEMMA ListShows ==
  ASSUME TasksInv, GoneInv, NEW c \in Task, ListRobots(c)
  PROVE  GoneInv'
<1> DEFINE s == task[c]
           t == [Idle EXCEPT !.op = s.op, !.at = "render", !.list = ActiveDIDs, !.sent = s.sent]
<1>1. /\ Shows(s, Gone) /\ s.at = "list" /\ Continue(c, t) /\ UNCHANGED status
      /\ t.op = s.op /\ t.at = "render" /\ t.list = ActiveDIDs /\ t.sent = s.sent
  BY DEF GoneInv, ListRobots, Idle
<1>2. \A r \in Gone : ActiveDIDs[r] = NoRobot
  BY DEF Gone, ActiveDIDs
<1> HIDE DEF t
<1>3. Shows(t, Gone)
  BY <1>1, <1>2 DEF Shows
<1> QED BY <1>1, <1>3, QuietShows

LEMMA ElsewhereShows ==
  ASSUME GoneInv, NEW r \in Robot, ChangedElsewhere(r)
  PROVE  GoneInv'
<1>1. /\ UNCHANGED task
      /\ status \in [Robot -> Statuses]
  BY DEF ChangedElsewhere, GoneInv
<1>2. status' \in [Robot -> Statuses] /\ Gone \subseteq Gone'
  <2>1. CASE status[r] = "none" /\ status' = [status EXCEPT ![r] = "active"]
    BY <1>1, <2>1 DEF Gone, Statuses
  <2>2. CASE \E op \in Lifecycle \cup {"revoke"} : ChangeOf(op, r)
    BY <1>1, <2>2, ChangeGoes
  <2> QED BY <2>1, <2>2 DEF ChangedElsewhere, ChangeOf
<1> QED BY <1>1, <1>2 DEF GoneInv, Shows

LEMMA GoneInit == Init => GoneInv
<1> SUFFICES ASSUME Init PROVE GoneInv
  OBVIOUS
<1>1. /\ status \in [Robot -> Statuses]
      /\ \A c \in Task : task[c] = Idle
  BY DEF Init, Statuses
<1> QED BY <1>1, IdleShows DEF GoneInv

LEMMA GoneStep == ActsInv /\ GoneInv /\ [Next]_vars => GoneInv'
<1> SUFFICES ASSUME TasksInv, GoneInv, [Next]_vars PROVE GoneInv'
  BY DEF ActsInv
<1>1. CASE UseBrowser \/ HideRobots
  <2>1. Others /\ UNCHANGED status
    BY <1>1 DEF UseBrowser, HideRobots
  <2>2. Gone' = Gone /\ status' \in [Robot -> Statuses]
    BY <2>1 DEF Gone, GoneInv
  <2> QED BY <2>1, <2>2, NoticedShows DEF GoneInv, Others
<1>2. ASSUME NEW c \in Task, Progress(c) PROVE GoneInv'
  <2>1. CASE Render(c) \/ Fail(c)
    <3>1. Continue(c, Idle) /\ UNCHANGED status
      BY <2>1, Zenon DEF Render, Fail
    <3> QED BY <3>1, IdleShows, QuietShows
  <2> QED BY <1>2, <2>1, MineShows, OwnShows, ListShows DEF Progress
<1>3. ASSUME NEW c \in Task, ShowRobots(c) PROVE GoneInv'
  <2> DEFINE t == [Idle EXCEPT !.op = "show", !.at = "list"]
  <2>1. Continue(c, t) /\ UNCHANGED status /\ t.op = "show"
    BY <1>3 DEF ShowRobots, Idle
  <2> HIDE DEF t
  <2>2. Shows(t, Gone)
    BY <2>1 DEF Shows
  <2> QED BY <2>1, <2>2, QuietShows
<1>4. ASSUME NEW c \in Task, NEW op \in Buttons, Click(c, op) PROVE GoneInv'
  <2> DEFINE where == CASE op \in Look -> "record" [] op = "timeline" -> "timeline"
                        [] OTHER -> "wallet"
             t == [Idle EXCEPT
                    !.op = op, !.clicked = selectedRobot.robot, !.at = where,
                    !.record = IF op \in Look THEN selectedRobot.did ELSE NoRobot]
  <2>1. Continue(c, t) /\ UNCHANGED status
    BY <1>4 DEF Click
  <2>2. t.at = where /\ where \in {"record", "timeline", "wallet"}
    BY DEF Idle, Look
  <2> HIDE DEF t
  <2>3. Shows(t, Gone)
    BY <2>2 DEF Shows
  <2> QED BY <2>1, <2>3, QuietShows
<1>5. CASE \E r \in Robot : ChangedElsewhere(r)
  BY <1>5, ElsewhereShows
<1>6. CASE UNCHANGED vars
  BY <1>6 DEF vars, GoneInv, Gone
<1> QED
  BY <1>1, <1>2, <1>3, <1>4, <1>5, <1>6 DEF Next

(* The list that a revoke handler renders shows the DID it revoked as gone,    *)
(* however many handlers and other accounts are at work between the receipt,   *)
(* the reading of the list and its rendering (app.js, revoke handler).         *)
THEOREM RevocationAlwaysShown == Spec => OwnRevocationShown
<1> DEFINE Gives(c) ==
             /\ task[c].op = "revoke" /\ task[c].at = "render" /\ Render(c)
             /\ task[c].sent \in DOMAIN lastVisibleRobots'
             => lastVisibleRobots'[task[c].sent] = NoRobot
<1>1. ASSUME GoneInv, NEW c \in Task
      PROVE  Gives(c)
  <2>0. SUFFICES ASSUME task[c].op = "revoke", task[c].at = "render", Render(c),
                        task[c].sent \in DOMAIN lastVisibleRobots'
               PROVE  lastVisibleRobots'[task[c].sent] = NoRobot
    OBVIOUS
  <2>1. lastVisibleRobots' = Listed(task[c].list, hideDeactivated)
    BY <2>0 DEF Render, RenderRobots
  <2>2. /\ task[c].sent \in DOMAIN task[c].list
        /\ lastVisibleRobots'[task[c].sent] = task[c].list[task[c].sent]
    BY <2>0, <2>1 DEF Listed, Restrict
  <2>3. Shows(task[c], Gone)
    BY <1>1 DEF GoneInv
  <2> QED BY <2>0, <2>2, <2>3 DEF Shows
<1>2. GoneInv => [\A c \in Task : Gives(c)]_vars
  BY <1>1
<1> QED
  BY <1>2, ActsInit, ActsStep, GoneInit, GoneStep, PTL DEF Spec, OwnRevocationShown
==============================================================================
