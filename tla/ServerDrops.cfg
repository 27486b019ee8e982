CONSTANTS
  Uids = {"u", "v", "x"}
  Emails = {"eu", "ev"}
  Urls = {"url"}
  Addresses = {"home"}
  Handles = {"h"}
  Flags = {"open", "closed"}
  ChannelIds = {"email", "phone"}
  PrefFlags = {"public", "private"}
  Places = {"p"}
  Absent = Absent
  MaxRows = 2
  Faults = {"drop", "crash"}
  Messages <- AllMessages
  Queries <- AllQueries
SPECIFICATION ServerSpec
INVARIANTS QueryTypeOK
PROPERTY ImplementsService
