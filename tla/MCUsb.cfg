SPECIFICATION UsbSpec
CONSTANTS
  MaxChanges = 3
  MaxErrors = 2
  Latched = TRUE
  MaxRequests = 2
  MaxHangs = 1
  MaxBoots = 2
INVARIANTS
  ExposedWhenPublished GateFollowsRole BoundStaysResident MailboxSafe
PROPERTIES
  BootSafe UsbServed
CHECK_DEADLOCK FALSE
