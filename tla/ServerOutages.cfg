CONSTANTS
  Uids = {"u", "v", "w", "x"}
  Emails = {"eu", "ev", "ew"}
  Urls = {"url"}
  Addresses = {"home"}
  Handles = {"h"}
  Flags = {"open", "closed"}
  ChannelIds = {"email", "phone"}
  PrefFlags = {"public", "private"}
  Places = {"p"}
  Absent = Absent
  MaxRows = 2
  Faults = {"drop", "outage", "crash"}
  Messages <- ListMessages
  Queries <- ListsAndProfiles
SPECIFICATION FairObservedSpec
INVARIANTS ReplacedOnce NoTransactionAtRest AnswersCommitted ListsComplete
PROPERTY RequestAnswered
