SPECIFICATION FairPipelineSpec
CONSTANTS
  Objects = {o1}
  Requests = {r1, r2}
  NoRequest = NoRequest
  TypeOf <- MCTypeOf
  RowExists = FALSE
INVARIANTS
  AuditTrailExplainsStatus
  AcknowledgedVerdictStands
  AllRowsOrNone
  OnlyValidatedIsListed
PROPERTIES
  SettledStatusesNeverChange
  ImplementsKnowledgeLifecycle
  ValidationReachesDocument
  BegunRequestsReturn
