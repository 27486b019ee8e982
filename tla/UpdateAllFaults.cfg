CONSTANTS
  Uids = {"u", "v", "x"}
  Emails = {"eu", "ev"}
  Urls = {"url"}
  Addresses = {"home"}
  Handles = {"h"}
  Flags = {"open", "closed"}
  ChannelIds = {"email", "phone"}
  PrefFlags = {"public", "private"}
  Places = {"p"}
  Absent = Absent
  Faults = {"drop", "outage", "reject", "crash"}
  Messages <- UpsertMessages
SPECIFICATION Spec
INVARIANTS TypeOK UpsertedOnce PhoneHasOwner CheckedKeyIsFree KeptInv
PROPERTY NeverForgets
