--------------------------- MODULE CredentialPolicy ---------------------------
(* Which credential types exist and who may issue them; what a verifier makes  *)
(* of a credential (lib/credentialPolicies.js; ui/js/core/config.js has the    *)
(* browser's copy of the table).                                               *)
EXTENDS CredentialSchema

CONSTANTS Robot, NoRobot,
          Actor    \* the controller's or the issuer's own DID

ASSUME NamesAssumption == NoRobot \notin Robot /\ Actor \notin Robot \cup {NoRobot}

SELF == "ROBOT_SELF_SIGNED"
CONTROLLER == "CONTROLLER_DELEGATED"
EXTERNAL == "EXTERNAL_ISSUER_SIGNED"

Model == {SELF, CONTROLLER, EXTERNAL}

AllowedIssuanceModels ==
  [SensorData |-> {SELF},
   Heartbeat |-> {SELF},
   OperationalLog |-> {SELF, CONTROLLER},
   MaintenanceLog |-> {CONTROLLER},
   Maintenance |-> {EXTERNAL},
   SafetyInspection |-> {EXTERNAL},
   Manufacturing |-> {EXTERNAL},
   OperationLicense |-> {EXTERNAL}]

CredentialType == DOMAIN AllowedIssuanceModels

SupportsIssuanceModel(type, model) == model \in AllowedIssuanceModels[type]

------------------------------------------------------------------------------
Credential == [type : CredentialType, issuer : Robot \cup {Actor, NoRobot},
               subject : Robot \cup {NoRobot}]

NewCredential(type, model, subject) ==
  [type |-> type, subject |-> subject, issuer |-> IF model = SELF THEN subject ELSE Actor]

(* A slip: the type decides, whoever the issuer is.                            *)
DetectByTypeOnly(vc) ==
  CASE vc.subject = NoRobot -> "none"
    [] SupportsIssuanceModel(vc.type, CONTROLLER) -> CONTROLLER
    [] SupportsIssuanceModel(vc.type, EXTERNAL) -> EXTERNAL
    [] OTHER -> SELF

(* detectIssuanceModel: the same DID twice means self-signed, otherwise the    *)
(* type tells controllers from external issuers.                               *)
DetectIssuanceModel(vc) ==
  LET possible == {model \in AllowedIssuanceModels[vc.type] :
                     (model = SELF) <=> (vc.issuer = vc.subject)} IN
  CASE vc.subject = NoRobot -> "none"
    [] CONTROLLER \in possible -> CONTROLLER
    [] EXTERNAL \in possible -> EXTERNAL
    [] SELF \in possible -> SELF
    [] OTHER -> "none"
==============================================================================
