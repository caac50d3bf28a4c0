CONSTANTS
  T1 = 1
  T2 = 2
  Lease = 3
  Leases = {"finite", "infinite"}
  Requests = {"renew", "stop"}
  MaxRetry = 1
  MaxDrops = 2
SPECIFICATION FairSpec
INVARIANTS NoWaitBeyondLease
PROPERTIES StopObeyed KeptToTheEnd
\* The client task may end.
CHECK_DEADLOCK FALSE
