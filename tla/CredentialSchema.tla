--------------------------- MODULE CredentialSchema ---------------------------
(* The fields of a credential's subject: those its type requires              *)
(* (lib/credentialPolicies.js, of which ui/js/core/config.js has a copy),      *)
(* those of the type's template, and those that the issuing program adds or    *)
(* overwrites (ui/js/credentials/build.js; robot/ and controller/ programs).   *)
(* None of the values written is empty, so a field that is there counts.       *)

RequiredSubjectFields ==
  [SensorData       |-> {"sensorType", "value", "unit", "timestamp"},
   Heartbeat        |-> {"onlineStatus", "lastHeartbeat", "timestamp"},
   OperationalLog   |-> {"eventType", "logMessage", "timestamp"},
   MaintenanceLog   |-> {"operator", "maintenanceAction", "site", "timestamp"},
   Maintenance      |-> {"maintenanceProvider", "maintenanceType", "maintenanceDate",
                         "softwareVersion", "complianceStatus"},
   SafetyInspection |-> {"inspector", "inspectionDate", "safetyStatus", "validUntil"},
   Manufacturing    |-> {"manufacturer", "productionDate", "hardwareRevision",
                         "factoryCertification"},
   OperationLicense |-> {"licenseIssuer", "operationScope", "licenseStatus", "validUntil"}]

SubjectTemplate ==
  [SensorData       |-> {"sensorType", "value", "unit", "timestamp"},
   Heartbeat        |-> {"onlineStatus", "lastHeartbeat", "timestamp"},
   OperationalLog   |-> {"eventType", "logMessage", "timestamp"},
   MaintenanceLog   |-> {"operator", "maintenanceAction", "site", "timestamp"},
   Maintenance      |-> {"maintenanceProvider", "maintenanceType", "maintenanceDate",
                         "softwareVersion", "complianceStatus"},
   SafetyInspection |-> {"inspector", "inspectionDate", "safetyStatus", "validUntil"},
   Manufacturing    |-> {"manufacturer", "productionDate", "hardwareRevision",
                         "factoryCertification"},
   OperationLicense |-> {"licenseIssuer", "operationScope", "licenseStatus", "validUntil"}]

(* What the page makes up for a robot, ... *)
GeneratedByRobot(type) ==
  CASE type = "SensorData"     -> {"sensorType", "value", "unit", "timestamp"}
    [] type = "OperationalLog" -> {"eventType", "logMessage", "timestamp"}
    [] OTHER                   -> {"onlineStatus", "lastHeartbeat", "timestamp"}

(* ... and for a controller. *)
GeneratedByController(type) ==
  IF type = "MaintenanceLog" THEN {"operator", "maintenanceAction", "site", "timestamp"}
  ELSE {"eventType", "logMessage", "operator", "timestamp"}

(* What the programs add. *)
AddedByRobot(type) ==
  {"timestamp"} \cup IF type = "SensorData" THEN {"sensorType", "value", "unit"} ELSE {}

AddedByController == {"operator", "timestamp"}

(* credentialSubjectForType: the template and what is added to it. *)
SubjectFields(place, model, type) ==
  {"id"} \cup SubjectTemplate[type] \cup
  CASE model = "ROBOT_SELF_SIGNED" ->
         IF place = "browser" THEN GeneratedByRobot(type) ELSE AddedByRobot(type)
    [] model = "CONTROLLER_DELEGATED" ->
         IF place = "browser" THEN GeneratedByController(type) ELSE AddedByController
    [] OTHER -> {}

MissingSubjectFields(type, fields) == RequiredSubjectFields[type] \ fields
==============================================================================
