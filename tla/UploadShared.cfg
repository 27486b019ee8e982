CONSTANTS
  Conns = {"c1", "c2"}
  Ids = {"u", "v", "piece"}
  Users = {"u", "v"}
  Forms <- SharedForms
  Descriptors = 2
  Faults = {"block", "copy", "update"}
  None = None
SPECIFICATION FairSpec
INVARIANTS CacheOfRegistered DescriptorsOwned
PROPERTY UploadAnswered
