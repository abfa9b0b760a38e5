SPECIFICATION Spec
CONSTANTS
  l1 = l1
  a = a
  b = b
  p1 = p1
  p2 = p2
  calls2 = calls2
  offer = offer
  ring = ring
  Leads = {l1}
  NoLead = NoLead
  Instances = {i1, i2}
  Cadences = {calls2, offer, ring}
  Steps <- MCSteps
  TriggerStage <- MCTriggers
  Limit = 1
  LastDay = 1
  MaxEnrolled = 2
  Items = {a, b}
  Products = {p1, p2}
  NoProduct = NoProduct
  NoItem = NoItem
  Stages = {"new", "open", "won", "paid", "lost"}
  Won = {"won", "paid"}
  FirstStage = "new"
  FirstProduct <- MCFirstProduct
  FirstItem <- MCFirstItem
  Opening <- MCOpening
  MaxMoves = 4
  MaxFaults = 1
  Worlds <- MCWorlds
INVARIANTS
  TypeOK
  NoStepSkipped
  EachStepOnce
  NeverNegative
  LedgerAgrees
  OneSaleHeld
  HeldOnlyWhenWon
PROPERTIES
  CancelHolds
  DueIsServed
CHECK_DEADLOCK FALSE
