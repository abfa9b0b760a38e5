SPECIFICATION Spec
CONSTANTS
  ann = ann
  bob = bob
  cat = cat
  dan = dan
  Users <- MCUsers
  NoUser = NoUser
  Requestor = ann
  MemberRoles <- MCMemberRoles
  ImplicitAdmins = {}
  Delegators <- MCDelegators
  Designated = {}
  ProjectMembers <- MCUsers
  Limit <- MCLimit
  NoLimit = NoLimit
  PreApprovers = {}
  Verifier = NoUser
  LikeVerifier = {}
  Matrix <- MCSingle
  Context <- MCContext
  AnyValue = AnyValue
  Calls = {c1, c2, c3}
  NoSlot = NoSlot
  Amount = 20
  MaxRounds = 2
  Kinds = {"submit", "approve", "reject", "request_changes", "withdraw", "reopen", "cancel", "pay", "unpay", "finance_return", "inbox"}
  Overlap = {{"approve", "inbox"}}
  MayDie = {"submit", "reopen", "inbox"}
INVARIANTS
  ChainMoves
PROPERTIES
  LastSignatureDelivers
CHECK_DEADLOCK FALSE
