SPECIFICATION FairSpec
CONSTANTS
  Size = 3
  MaxEvents = 4
  Kinds <- AllKinds
  Burst = 3
INVARIANTS
  BuffersOwned
  HandledInOrder
PROPERTY MailboxReturned
CHECK_DEADLOCK FALSE
