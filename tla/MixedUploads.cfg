CONSTANTS
  Conns = {"c1", "c2"}
  Ids = {"u", "v", "piece"}
  Users = {"u", "v"}
  Forms <- SharedForms
  Descriptors = 3
  Faults = {}
  None = None
SPECIFICATION Spec
INVARIANT AnsweredIsPublished
