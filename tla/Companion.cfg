SPECIFICATION Spec
CONSTANTS
  Never <- MCNever
  Empty <- MCNever
  c1 = c1
  c2 = c2
  Centrals = {c1, c2}
  RpaCentrals = {c1}
  MaxBonds = 1
  MaxLate = 1
  WindowPeriod = 2
  IdleLimit = 1
  AbsoluteLimit = 2
  DebounceSamples = 2
  Mtus = {64}
  Readings <- MCReadings
  Pages = {0, 60, 500}
  Budgets <- MCBudgets
  Catalog <- MCCatalog
  WellFormed = TRUE
  Slots <- MCSlots
  MaxSignals = 3
  MaxChoices = 2
  MaxKeyBytes = 8
  MaxTokenBytes = 9
  MaxDocumentBytes = 200
  PageBytes = 50
  FrameInterval = 2
  HeartbeatInterval = 4
  MinMtu = 64
  MaxPacketBytes = 26
CHECK_DEADLOCK FALSE
INVARIANTS
    LinkTrustBounded
    NothingOutlivesLink
    StreamPaced
PROPERTIES
    BondStoreGuarded
    FramesOnlyOnTrustedLink
