CONSTANTS
  Uids = {"u", "v", "x"}
  Emails = {"eu", "ev"}
  Urls = {"url"}
  Addresses = {"home"}
  Handles = {"h"}
  Flags = {"open", "closed"}
  ChannelIds = {"email", "phone"}
  PrefFlags = {"public", "private"}
  Places = {"p"}
  Absent = Absent
  Faults = {"reject", "crash"}
  Messages <- AllMessages
SPECIFICATION Spec
INVARIANTS ReferencesRegistered AcknowledgedIsStored ReplacedOnce EffectInv
