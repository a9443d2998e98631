\* Bookings, executions that call back, changes of delays and owners.
SPECIFICATION Spec
CONSTANTS
  alice = alice
  bob = bob
  NoOwner = NoOwner
  Self = Self
  NoBooking = NoBooking
  Txs <- TwoTxs
  Call <- TwoCalls
  Accounts <- TwoAccounts
  MinDelay0 = 1
  MaxDelay0 = 2
  MaxWord = 7
  MaxTime = 5
  MaxDepth = 3
  MaxBookings = 3
SYMMETRY AccountSymmetry
INVARIANTS
  DelaysWereBooked
  RunsOncePerBooking
PROPERTIES
  RunsAfterNotice
