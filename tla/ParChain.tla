------------------------------ MODULE ParChain ------------------------------
(***************************************************************************)
(* How a payment action request (PAR) gets its approval chain, and who may *)
(* decide a row of it.  Everything here is pure: operators on a set of     *)
(* slots.  A slot is one row that submitPAR inserts in par_approvals: the  *)
(* level it sits on, the person it is pinned to (or NoUser when any holder *)
(* of the role may sign) and a key that tells two rows of a level apart.   *)
(* Slots of one level are signed in parallel, levels one after the other.  *)
(***************************************************************************)
EXTENDS Naturals, FiniteSets

CONSTANTS
  Users,          \* the members of the workspace
  NoUser,         \* approver_user_id IS NULL
  Requestor,      \* requested_by_user_id of the request
  MemberRoles,    \* par_members: user -> set of PAR roles
  ImplicitAdmins, \* tenant admins and managers, who hold par_admin implicitly
  Delegators,     \* user -> users whose active delegation the user holds
  Designated,     \* designated approvers of the request's project ({}: open)
  ProjectMembers, \* members of that project (Users when the request has none)
  Limit,          \* user -> approval_limit_cents, in MDL, or NoLimit
  NoLimit,
  PreApprovers,   \* pre-approvers of the request's project
  Verifier,       \* the requestor's verifier, or NoUser
  LikeVerifier,   \* matrix rows an administrator labelled like the verifier's
  Matrix,         \* the active rows of par_doa_matrix
  Context,        \* dimension -> value the request carries
  AnyValue        \* a matrix row's NULL: the row applies to every value

RoleNames == {"requestor", "approver", "finance", "par_admin"}
NoRole == "none"                       \* approver_par_role IS NULL
Dimensions == {"chargeTo", "department", "payer", "project"}

ASSUME PeopleAssumption ==
  /\ Requestor \in Users
  /\ NoUser \notin Users
  /\ Verifier \in Users \union {NoUser}
  /\ PreApprovers \subseteq Users
  /\ Delegators \in [Users -> SUBSET Users]
  /\ MemberRoles \in [Users -> SUBSET RoleNames]
  /\ NoLimit \notin Nat
  /\ Limit \in [Users -> Nat \union {NoLimit}]

ASSUME MatrixAssumption ==
  \A r \in Matrix :
    /\ r.step \in Nat \ {0}
    /\ r.user \in Users \union {NoUser}
    /\ r.role \in RoleNames \union {NoRole}

\* The rows of par_approvals, as a submit inserts them.
SlotKeys == {"fallback", "pre", "verify"} \union {r.id : r \in Matrix}

Slots == [key  : SlotKeys,
          step : Nat,
          user : Users \union {NoUser},
          role : RoleNames \union {NoRole}]

----------------------------------------------------------------------------
(* Resolving the chain from the Delegation of Authority matrix.            *)

Matches(r) == \A d \in Dimensions : r.on[d] \in {AnyValue, Context[d]}

InBand(r, amount) ==
  /\ r.min <= amount
  /\ r.max = AnyValue \/ amount <= r.max

\* chargeTo and department weigh 1, the payer 2, the project 4.
Specificity(r) ==
  LET set(d) == IF r.on[d] = AnyValue THEN 0 ELSE 1
  IN  set("chargeTo") + set("department") + 2 * set("payer") + 4 * set("project")

Slot(key, step, user, role) ==
  [key |-> key, step |-> step, user |-> user, role |-> role]

SlotOf(r) == Slot(r.id, r.step, r.user, r.role)

MostSpecific(group) ==
  {r \in group : \A q \in group : Specificity(q) <= Specificity(r)}

\* The sets of matrix rows a level may contribute: every parallel candidate,
\* or the first single one in whatever order the database returns them.
LevelChoices(group) ==
  LET candidates == MostSpecific(group)
      parallel   == {r \in candidates : r.mode = "parallel"}
  IN  IF parallel # {} THEN {parallel} ELSE {{r} : r \in candidates}

\* Variant: the band with the lowest bound.
LowestBand ==
  LET fitting == {r \in Matrix : Matches(r)}
  IN  {r \in fitting : \A q \in fitting : r.min <= q.min}

\* The band with the highest lower bound that fits the request's context.
HighestBand ==
  LET fitting == {r \in Matrix : Matches(r)}
  IN  {r \in fitting : \A q \in fitting : q.min <= r.min}

\* Every chain resolveApprovalChain may return for this amount.
ResolvedChains(amount) ==
  LET matching  == {r \in Matrix : Matches(r) /\ InBand(r, amount)}
      steps     == {r.step : r \in matching}
      levels    == [n \in steps |-> LevelChoices({r \in matching : r.step = n})]
      chosen    == {f \in [steps -> SUBSET matching] :
                       \A n \in steps : f[n] \in levels[n]}
  IN  IF matching # {}
        THEN {{SlotOf(r) : r \in UNION {f[n] : n \in steps}} : f \in chosen}
      ELSE IF HighestBand # {}
        THEN {{SlotOf(r) : r \in HighestBand}}
      ELSE {{Slot("fallback", 1, NoUser, "par_admin")}}

----------------------------------------------------------------------------
(* The three rewritings submitPAR applies to the resolved chain.           *)

\* Variant: the levels move the wrong way.
ShiftedDown(chain) == {Slot(s.key, s.step - 1, s.user, s.role) : s \in chain}

Shifted(chain) == {Slot(s.key, s.step + 1, s.user, s.role) : s \in chain}

\* Variant: the requestor's slots go even when nothing is left.
OnlyOthers(chain, actor) == {s \in chain : s.user # actor}

\* The requestor's own slots go; when nothing is left they escalate.
WithoutSelfApproval(chain, actor) ==
  LET others == {s \in chain : s.user # actor}
  IN  IF others # {} THEN others
      ELSE {Slot(s.key, s.step, NoUser, "par_admin") : s \in chain}

\* Variant: the pre-approvers take the place of the first level.
PreApprovalInsteadOfFirst(chain, requestor) ==
  LET eligible == PreApprovers \ {requestor}
  IN  IF eligible = {} THEN chain
      ELSE {Slot("pre", 1, u, NoRole) : u \in eligible}
           \union {s \in Shifted(chain) : s.step > 2}

\* One parallel level of the project's pre-approvers in front of the chain;
\* a later slot pinned to one of them goes.
WithProjectPreApproval(chain, requestor) ==
  LET eligible == PreApprovers \ {requestor}
      kept     == {s \in chain : s.user \notin eligible}
  IN  IF eligible = {} THEN chain
      ELSE {Slot("pre", 1, u, NoRole) : u \in eligible} \union Shifted(kept)

FirstLevel(chain) == {s \in chain : \A t \in chain : s.step <= t.step}

\* Variant: the chain is not shifted, the verifier signs in parallel.
VerificationInParallel(chain, verifier, requestor) ==
  IF verifier \in {NoUser, requestor} THEN chain
  ELSE {Slot("verify", 1, verifier, NoRole)} \union chain

\* Variant: only the first level is shifted.
VerificationShiftsFirst(chain, verifier, requestor) ==
  IF verifier \in {NoUser, requestor} THEN chain
  ELSE {Slot("verify", 1, verifier, NoRole)} \union Shifted(FirstLevel(chain))
       \union (chain \ FirstLevel(chain))

\* The requestor's verifier alone in front of everybody; only a slot pinned
\* to them on what was the first level goes.
WithRequesterVerification(chain, verifier, requestor) ==
  LET kept == {s \in chain : ~(s \in FirstLevel(chain) /\ s.user = verifier)}
  IN  IF verifier \in {NoUser, requestor} THEN chain
      ELSE {Slot("verify", 1, verifier, NoRole)} \union Shifted(kept)

\* Every chain a submit by `actor` may write.
SubmittedChains(amount, actor) ==
  {WithRequesterVerification(
      WithProjectPreApproval(WithoutSelfApproval(c, actor), actor),
      Verifier, actor) : c \in ResolvedChains(amount)}

----------------------------------------------------------------------------
(* Who may decide which row.  `rows` is the content of par_approvals for   *)
(* one request: a function from slots to their decision and lock.          *)

ParRoles(u) ==
  MemberRoles[u] \union (IF u \in ImplicitAdmins THEN {"par_admin"} ELSE {})

DelegatedRoles(u) == UNION {MemberRoles[d] : d \in Delegators[u]}

AllowedOnProject(u) == Designated = {} \/ u \in Designated

RoleStepMatches(required, roles) ==
  IF required = NoRole THEN "approver" \in roles ELSE required \in roles

StepMatchesViewer(s, u) ==
  \/ s.user \in {u} \union Delegators[u]
  \/ /\ s.user = NoUser
     /\ \/ AllowedOnProject(u) /\ RoleStepMatches(s.role, ParRoles(u))
        \/ /\ Delegators[u] \intersect ProjectMembers # {}
           /\ RoleStepMatches(s.role, DelegatedRoles(u))

Tier(s, u) ==
  CASE s.user = u              -> 0
    [] s.user \in Delegators[u] -> 1
    [] OTHER                   -> 2

Open(rows, s) == rows[s].decision = "pending" /\ ~rows[s].locked

Decidable(rows, u) ==
  {s \in DOMAIN rows : Open(rows, s) /\ StepMatchesViewer(s, u)}

\* The rows pickDecidableStep may return: best tier first, then lowest level;
\* the database order among equals is unspecified.
Picked(rows, u) ==
  LET ds == Decidable(rows, u)
  IN  {s \in ds : \A t \in ds :
         \/ Tier(s, u) < Tier(t, u)
         \/ Tier(s, u) = Tier(t, u) /\ s.step <= t.step}

\* Variant: a decision of somebody else does not matter.
MayVerifierAmendLate(rows, u) ==
  /\ u = Verifier
  /\ \E mine \in DOMAIN rows :
       /\ mine.key \in {"verify"} \union LikeVerifier
       /\ mine.user = u
       /\ Open(rows, mine)

\* canVerifierAmend.  The open row is found by its label, which is free text in
\* the matrix; nobody but the verifier may have decided a row yet.
MayVerifierAmend(rows, u) ==
  /\ u = Verifier
  /\ \E mine \in DOMAIN rows :
       /\ mine.key \in {"verify"} \union LikeVerifier
       /\ mine.user = u
       /\ Open(rows, mine)
       /\ \A s \in DOMAIN rows \ {mine} : rows[s].decision = "pending"

MayApprove(rows, u) ==
  /\ ParRoles(u) # {} \/ Delegators[u] # {}
  /\ u # Requestor
  /\ Picked(rows, u) # {}

\* The coarser gate of reject and request-changes: the approver or par_admin
\* role, or a pending row pinned to the user or to one of their delegators.
StopGate(rows, u) ==
  \/ ParRoles(u) \intersect {"approver", "par_admin"} # {}
  \/ \E s \in DOMAIN rows : /\ rows[s].decision = "pending"
                            /\ s.user \in {u} \union Delegators[u]

MayStop(rows, u) == StopGate(rows, u) /\ Picked(rows, u) # {}

----------------------------------------------------------------------------
(* What one approval does to the chain.                                    *)

\* Variant: the row counts itself among the undecided rows of its level.
SiblingsAndSelf(rows, s) ==
  {t \in DOMAIN rows : t.step = s.step /\ rows[t].decision = "pending"}

Siblings(rows, s) ==
  {t \in DOMAIN rows \ {s} : t.step = s.step /\ rows[t].decision = "pending"}

LaterLocked(rows, s) ==
  {t \in DOMAIN rows :
     t.step > s.step /\ rows[t].decision = "pending" /\ rows[t].locked}

NextLevel(rows, s) == FirstLevel(LaterLocked(rows, s))

\* Variant: nobody looks at the rest of the level.
CompletesAlone(rows, s) == LaterLocked(rows, s) = {}

Completes(rows, s) == Siblings(rows, s) = {} /\ LaterLocked(rows, s) = {}

\* Whose limits bind the final signature of u on row s.
RelevantUsers(u, s) ==
  {u} \union
  (IF s.user # u /\ s.user \in Delegators[u] THEN {s.user}
   ELSE IF "approver" \in ParRoles(u) THEN {} ELSE Delegators[u])

WithinLimit(u, s, amount) ==
  \/ "par_admin" \in ParRoles(u)
  \/ \A v \in RelevantUsers(u, s) : Limit[v] # NoLimit => amount <= Limit[v]

=============================================================================
