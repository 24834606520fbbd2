CONSTANTS
  RxPkts = {r1, r2}
  TxPkts = {p1, p2}
  Senders = {s1, s2}
  MaxFrames = 3
  None = None
SPECIFICATION FairSpec
INVARIANTS
  TypeOK
  NeverMisused
  NoLeak
  OneOwner
  SentOnce
PROPERTIES
  TransmitAsPromised
  TransmitReturns
  RxReturned
  AcceptedSent
