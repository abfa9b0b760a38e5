SPECIFICATION Spec
CONSTANTS
  ann = ann
  bob = bob
  cat = cat
  Users <- MCUsers
  NoUser = NoUser
  Requestor = ann
  MemberRoles <- MCMemberRoles
  ImplicitAdmins = {}
  Delegators <- MCDelegators
  Designated = {}
  ProjectMembers <- MCUsers
  Limit <- MCLimit
  NoLimit = NoLimit
  LikeVerifier = {}
  Context <- MCContext
  AnyValue = AnyValue
  RowPool <- MCRowPool
  MaxRows = 4
  Amounts = {20, 40, 90}
INVARIANTS
  TypeOK
  NoSignatureLost
  SomebodyElseSigns
  OrderKept
  VerifierFirst
  NoBandMeansHighest
CHECK_DEADLOCK FALSE
