SPECIFICATION Spec
CONSTANTS
  ann = ann
  bob = bob
  cat = cat
  dan = dan
  Users <- MCUsers
  NoUser = NoUser
  Requestor = ann
  MemberRoles <- MCMemberRoles
  ImplicitAdmins = {}
  Delegators <- MCDelegators
  Designated = {}
  ProjectMembers <- MCUsers
  Limit <- MCLimit
  NoLimit = NoLimit
  PreApprovers = {}
  Verifier = NoUser
  LikeVerifier = {}
  Matrix <- MCParallel
  Context <- MCContext
  AnyValue = AnyValue
  Calls = {c1, c2, c3}
  NoSlot = NoSlot
  Amount = 20
  MaxRounds = 2
  Kinds = {"submit", "approve", "reject", "request_changes", "withdraw", "reopen", "cancel", "pay", "unpay", "finance_return", "inbox"}
  Overlap = {{"approve", "inbox", "cancel"}, {"reject", "request_changes", "inbox", "cancel"}, {"submit", "cancel"}, {"withdraw", "reopen", "inbox", "cancel"}, {"pay", "unpay", "finance_return", "inbox", "cancel"}}
  MayDie = {"approve", "reopen", "inbox"}
SYMMETRY Sym
INVARIANTS
  TypeOK
  LevelsInOrder
  FullySigned
CHECK_DEADLOCK FALSE
