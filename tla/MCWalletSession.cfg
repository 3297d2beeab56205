SPECIFICATION FairClientSpec
CONSTANTS
  Call = {c1, c2, c3}
  Wallet = {w1, w2}
  Default = w1
  None = None
  StorageFaults = TRUE
  Invocation = {i1}
  Page <- MCPage
INVARIANTS
  Settled
  StoredIsShown
  OutcomeIsTrue
  AskedOnAppNetwork
  SignedByShown
PROPERTIES
  ConnectingEnds
  InvocationsEnd
