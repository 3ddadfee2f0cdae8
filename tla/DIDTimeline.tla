----------------------------- MODULE DIDTimeline -----------------------------
(***************************************************************************)
(* What RobotDIDRegistry.sol promises about the life of the robot DIDs,    *)
(* free of the contract's interval lists.  Time is divided in seconds (the *)
(* resolution of block.timestamp), several operations may happen within    *)
(* one.  For every DID the timeline remembers                              *)
(*   - blocked[d]: the elapsed seconds at whose end d was suspended, and   *)
(*   - signers[d]: the pairs <<key, t>> such that key was the robot key    *)
(*     of d at some moment of second t.                                    *)
(* A verifier's questions about a past second are answered from these two  *)
(* sets; nothing here is ever taken out of them.                           *)
(***************************************************************************)
EXTENDS Naturals

CONSTANTS DID,        \* robot DIDs
          Key,        \* robot key addresses
          NoKey       \* "no robot key yet"

VARIABLES now,        \* the current second
          status,     \* status[d] \in Status
          current,    \* current[d]: the robot key of d, NoKey before registration
          blocked,    \* blocked[d]: elapsed seconds that ended suspended
          signers     \* signers[d]: <<key, second>> pairs

timelineVars == <<now, status, current, blocked, signers>>

Status == {"none", "active", "suspended", "revoked"}

TimelineTypeOK ==
  /\ now \in Nat
  /\ status \in [DID -> Status]
  /\ current \in [DID -> Key \cup {NoKey}]
  /\ blocked \in [DID -> SUBSET Nat]
  /\ signers \in [DID -> SUBSET (Key \X Nat)]

Live(d) == status[d] \in {"active", "suspended"}

(* No two registrations or rotations ever use the same key. *)
NeverUsed(k) == \A d \in DID, t \in 0 .. now : <<k, t>> \notin signers[d]

Init ==
  /\ now = 1
  /\ status  = [d \in DID |-> "none"]
  /\ current = [d \in DID |-> NoKey]
  /\ blocked = [d \in DID |-> {}]
  /\ signers = [d \in DID |-> {}]

TakeKey(d, k) ==
  /\ NeverUsed(k)
  /\ current' = [current EXCEPT ![d] = k]
  /\ signers' = [signers EXCEPT ![d] = @ \cup {<<k, now>>}]

Register(d, k) ==
  /\ status[d] = "none"
  /\ status' = [status EXCEPT ![d] = "active"]
  /\ TakeKey(d, k)
  /\ UNCHANGED <<now, blocked>>

Rotate(d, k) ==
  /\ status[d] = "active"
  /\ TakeKey(d, k)
  /\ UNCHANGED <<now, status, blocked>>

Move(d, from, to) ==
  /\ status[d] \in from
  /\ status' = [status EXCEPT ![d] = to]
  /\ UNCHANGED <<now, current, blocked, signers>>

Suspend(d)   == Move(d, {"active"}, "suspended")
Unsuspend(d) == Move(d, {"suspended"}, "active")
Revoke(d)    == Move(d, {"active", "suspended"}, "revoked")

(* The second ends: what holds at its end is what is remembered of it. *)
EndSecond ==
  /\ now' = now + 1
  /\ blocked' = [d \in DID |->
                   blocked[d] \cup (IF status[d] = "suspended" THEN {now} ELSE {})]
  /\ signers' = [d \in DID |->
                   signers[d] \cup (IF Live(d) THEN {<<current[d], now + 1>>} ELSE {})]
  /\ UNCHANGED <<status, current>>

Next ==
  \/ \E d \in DID : \/ \E k \in Key : Register(d, k) \/ Rotate(d, k)
                    \/ Suspend(d)
                    \/ Unsuspend(d)
                    \/ Revoke(d)
  \/ EndSecond

Spec == Init /\ [][Next]_timelineVars
==============================================================================
