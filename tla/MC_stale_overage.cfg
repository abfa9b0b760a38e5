SPECIFICATION Spec
CONSTANTS
  ann = ann
  bob = bob
  cat = cat
  dan = dan
  Users <- MCUsers
  NoUser = NoUser
  Requestor = ann
  MemberRoles <- MCMemberRoles
  ImplicitAdmins = {dan}
  Delegators <- MCDelegators
  Designated = {}
  ProjectMembers <- MCUsers
  Limit <- MCLimit
  NoLimit = NoLimit
  PreApprovers = {}
  Verifier = dan
  LikeVerifier = {"director"}
  Matrix <- MCMatrix
  Context <- MCContext
  AnyValue = AnyValue
  Totals = {0, 20}
  Payees = {acme}
  NoPayee = NoPayee
  Memos = {m1, m2}
  NoMemo = NoMemo
  Rates = {1, 2}
  Threshold = 30
  Actuals = {22, 23, 30}
  NoAmount = NoAmount
  NoSeal = NoSeal
  MaxSubmits = 2
INVARIANT
  OverageCovered
CHECK_DEADLOCK FALSE
