CONSTANTS
  Conns = {"c1", "c2"}
  Ids = {"u", "v", "piece"}
  Users = {"u", "v"}
  Forms <- OwnForms
  Descriptors = 2
  Faults = {"copy", "lookup", "abort", "crash"}
  None = None
SPECIFICATION Spec
INVARIANTS TypeOK AnsweredIsPublished AnsweredIsRecorded FailedIsNotAnswered
