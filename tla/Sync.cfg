SPECIFICATION OldSpec
CONSTANTS
  own = own
  old = old
  Ids <- OwnAndOld
  QueueSize = 1
  MaxFailures = 0
  Outcomes = {"canceled"}
  MaxHeld = 1
CONSTRAINT OldListedFirst
INVARIANT FillsAreReal
PROPERTIES HeldIsHandled SyncFillIsRecorded OverIsSwept EndIsAgreed
