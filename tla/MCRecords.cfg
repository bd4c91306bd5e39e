SPECIFICATION SpecRecords
CONSTANTS
  Calls = {c1, c2}
  Intents = {1, 2}
  Keys = {k}
  NoKey = NoKey
  Documents = {f1, f2}
  RefundKeys = {k1, k2}
  Methods = {m1, m2}
  Accounts = {a}
  NoAccount = NoAccount
  NoMethod = NoMethod
  Applications = {1, 2}
  Decisions = {"editing", "approved"}
  MaxRequests = 4
  Txs = {t1, t2}
  NoTx = NoTx
  Worker = w
  NoIntent = NoIntent
  Lines = 2
INVARIANTS
  TypesOK
  SettledIsTold
  RecordsAgree
  OneIntentPerKey
  RefundedOnce
  OneDefault
  OneOngoing
  StatusFollows
  ShownIsFollowed
  SettledOnce
PROPERTIES
  PaymentSettlesOnce
  RefundsSettleOnce
CONSTRAINT Bound
SYMMETRY Symmetry
CHECK_DEADLOCK FALSE
