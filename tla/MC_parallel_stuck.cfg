SPECIFICATION Spec
CONSTANTS
  ann = ann
  bob = bob
  cat = cat
  dan = dan
  Users <- MCUsers
  NoUser = NoUser
  Requestor = ann
  MemberRoles <- MCMemberRoles
  ImplicitAdmins = {}
  Delegators <- MCDelegators
  Designated = {}
  ProjectMembers <- MCUsers
  Limit <- MCLimit
  NoLimit = NoLimit
  PreApprovers = {}
  Verifier = NoUser
  LikeVerifier = {}
  Matrix <- MCParallel
  Context <- MCContext
  AnyValue = AnyValue
  Calls = {c1, c2}
  NoSlot = NoSlot
  Amount = 20
  MaxRounds = 2
  Kinds = {"submit", "approve"}
  Overlap = {{"approve"}}
  MayDie = {}
INVARIANT
  ChainMoves
CHECK_DEADLOCK FALSE
