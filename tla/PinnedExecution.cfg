SPECIFICATION PinnedSpec
CONSTANTS
  f1 = f1
  f2 = f2
  k1 = k1
  k2 = k2
  file = file
  key = key
  None = None
  Unbound = Unbound
  Executions = {e1}
  Picks = {p1, p2}
  Tokens = {t1, t2}
  Auths <- MCAuths
  TicketTTL = 0
  MaxTime = 1
  Ids <- MCIds
  Configured <- MCConfigured
  Indexes <- MCIndexes
  Index <- MCIndex
  Provider <- MCProvider
  Account <- MCAccount
  Prefix <- MCPrefix
  Candidates = {c1}
  MaxChanges = 1
SYMMETRY Symmetry
INVARIANTS
  LiveTicketKept
  SingleSelection
  OwnershipProven
  NoStrayTicket
  AnswersPin
  ServesChosen
  PrefixOfPin
