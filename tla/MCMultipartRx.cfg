CONSTANTS
  Uploads <- Regular
  Heads <- MCHeads
  BufSize = 14
  Failures = {"rcv", "cbk", "ctype"}
  Word = 128
SPECIFICATION FairSpec
INVARIANTS TypeOK PartsExact
PROPERTY EndReached
