---------------------------- MODULE RobotsBrowser ----------------------------
(* The Robots Browser of the administration page: the cards it shows, the      *)
(* lists behind them and the selected robot, all of them globals of the page   *)
(* that every handler reads and writes (ui/js/ui/robots-browser.js).           *)
(*                                                                             *)
(* A robot has at most one DID, so a DID is named by its robot; NoRobot is a   *)
(* null token, a null activeDID and an empty input field.                      *)
EXTENDS Functions

CONSTANTS Robot, NoRobot

ASSUME RobotAssumption == NoRobot \notin Robot

VARIABLES
  selectedRobot,          \* the selected entry of a list, [robot, did]
  lastRobotsResult,       \* the last list loaded: robot |-> activeDID
  lastVisibleRobots,      \* the part of a list that was rendered last
  cards,                  \* robots with a card in robotsOutput
  robotsBrowserVisible,   \* what the Show / Hide button believes
  hideDeactivated,        \* the checkbox
  didField                \* the input field "did", shared by all handlers

browser == <<selectedRobot, lastRobotsResult, lastVisibleRobots, cards,
             robotsBrowserVisible, hideDeactivated, didField>>

------------------------------------------------------------------------------
Null == [robot |-> NoRobot, did |-> NoRobot]

Entry(list, r) == [robot |-> r, did |-> list[r]]

NoList == [r \in {} |-> NoRobot]

(* Entries of a list of robots; the set of all lists of some of the robots.    *)
List == UNION {[S -> Robot \cup {NoRobot}] : S \in SUBSET Robot}

BrowserInit ==
  /\ selectedRobot = Null
  /\ lastRobotsResult = NoList
  /\ lastVisibleRobots = NoList
  /\ cards = {}
  /\ robotsBrowserVisible = FALSE
  /\ hideDeactivated \in BOOLEAN
  /\ didField = NoRobot

Listed(list, hide) == Restrict(list, {r \in DOMAIN list : hide => list[r] # NoRobot})

(* renderRobots: the selection survives if its token is still visible, and is  *)
(* replaced by the new entry.                                                  *)
RenderRobots(list, hide) ==
  LET visible == Listed(list, hide) IN
  /\ lastVisibleRobots' = visible
  /\ cards' = DOMAIN visible
  /\ selectedRobot' = IF selectedRobot.robot \in DOMAIN visible
                        THEN Entry(visible, selectedRobot.robot)
                        ELSE Null

(* loadRobotsBrowser, around its await: cards are taken down while it loads.   *)
StartLoading == cards' = {}

FinishLoading(list) ==
  /\ lastRobotsResult' = list
  /\ robotsBrowserVisible' = TRUE
  /\ RenderRobots(list, hideDeactivated)
  /\ UNCHANGED <<hideDeactivated, didField>>

(* A slip: the list goes, the selection stays.                                 *)
ResetKeepsSelection ==
  /\ robotsBrowserVisible' = FALSE
  /\ lastRobotsResult' = NoList
  /\ lastVisibleRobots' = NoList
  /\ cards' = {}
  /\ UNCHANGED <<selectedRobot, hideDeactivated, didField>>

ResetRobotsBrowser ==
  /\ robotsBrowserVisible' = FALSE
  /\ selectedRobot' = Null
  /\ lastRobotsResult' = NoList
  /\ lastVisibleRobots' = NoList
  /\ cards' = {}
  /\ UNCHANGED <<hideDeactivated, didField>>

------------------------------------------------------------------------------
(* A click on a card selects its robot, a second one deselects it.             *)
ToggleRobotSelection(r) ==
  /\ r \in cards \cap DOMAIN lastVisibleRobots
  /\ selectedRobot' = IF selectedRobot.robot = r THEN Null ELSE Entry(lastVisibleRobots, r)
  /\ UNCHANGED <<lastRobotsResult, lastVisibleRobots, cards,
                 robotsBrowserVisible, hideDeactivated, didField>>

(* "Hide deactivated bots" renders the last list loaded once more.             *)
ToggleHideDeactivated ==
  /\ hideDeactivated' = ~ hideDeactivated
  /\ IF lastRobotsResult # NoList /\ robotsBrowserVisible
       THEN RenderRobots(lastRobotsResult, ~ hideDeactivated)
       ELSE UNCHANGED <<selectedRobot, lastVisibleRobots, cards>>
  /\ UNCHANGED <<lastRobotsResult, robotsBrowserVisible, didField>>

(* The user types a DID to look up.                                            *)
TypeDid(r) ==
  /\ didField' = r
  /\ UNCHANGED <<selectedRobot, lastRobotsResult, lastVisibleRobots, cards,
                 robotsBrowserVisible, hideDeactivated>>

BrowserTypeOK ==
  /\ selectedRobot \in [robot : Robot \cup {NoRobot}, did : Robot \cup {NoRobot}]
  /\ lastRobotsResult \in List
  /\ lastVisibleRobots \in List
  /\ cards \subseteq Robot
  /\ robotsBrowserVisible \in BOOLEAN
  /\ hideDeactivated \in BOOLEAN
  /\ didField \in Robot \cup {NoRobot}
==============================================================================
