----------------------------- MODULE ParRouting -----------------------------
(***************************************************************************)
(* How submitPAR turns a matrix, a project and a requestor into the chain  *)
(* it writes: resolveApprovalChain, then three rewritings one after the    *)
(* other, for every matrix of at most MaxRows rows from RowPool, every set *)
(* of pre-approvers, every verifier and every amount.  One behaviour is    *)
(* one submit; the inputs are chosen at the start and stay.                *)
(***************************************************************************)
EXTENDS Naturals, FiniteSets

CONSTANTS
  Users, NoUser, Requestor, MemberRoles, ImplicitAdmins, Delegators,
  Designated, ProjectMembers, Limit, NoLimit, LikeVerifier, Context, AnyValue,
  RowPool, \* matrix rows an administrator may have defined
  MaxRows, \* bound on the size of a matrix
  Amounts  \* MDL totals

\* A row is told from every other one by its id, a uuid, and so from the slots
\* that are put in front of the matrix.
ASSUME RoutingAssumption ==
  /\ Requestor \in Users /\ NoUser \notin Users
  /\ \A r \in RowPool : /\ r.step \in Nat \ {0}
                        /\ r.user \in Users \union {NoUser}
                        /\ r.id \notin {"pre", "verify"}
  /\ \A r, q \in RowPool : r.id = q.id => r = q

VARIABLES
  matrix, preApprovers, verifier, amount, \* the inputs
  stage,    \* the rewriting that comes next
  resolved, \* what resolveApprovalChain returned
  chain     \* the chain so far

inputs == <<matrix, preApprovers, verifier, amount>>
vars == <<inputs, stage, resolved, chain>>

Chain == INSTANCE ParChain WITH
  Matrix <- matrix, PreApprovers <- preApprovers, Verifier <- verifier

TypeOK ==
  /\ matrix \subseteq RowPool
  /\ preApprovers \subseteq Users
  /\ verifier \in Users \union {NoUser}
  /\ amount \in Amounts
  /\ stage \in {"resolve", "self", "project", "verify", "done"}
  /\ \A s \in resolved \union chain :
       /\ s.step \in Nat \ {0}
       /\ s.user \in Users \union {NoUser}

Init ==
  /\ matrix \in {m \in SUBSET RowPool : Cardinality(m) <= MaxRows}
  /\ preApprovers \in SUBSET Users
  /\ verifier \in Users \union {NoUser}
  /\ amount \in Amounts
  /\ stage = "resolve"
  /\ resolved = {}
  /\ chain = {}

Resolve ==
  /\ stage = "resolve" /\ stage' = "self"
  /\ chain' \in Chain!ResolvedChains(amount)
  /\ resolved' = chain'
  /\ UNCHANGED inputs

DropSelf ==
  /\ stage = "self" /\ stage' = "project"
  /\ chain' = Chain!WithoutSelfApproval(chain, Requestor)
  /\ UNCHANGED <<inputs, resolved>>

AddPreApprovers ==
  /\ stage = "project" /\ stage' = "verify"
  /\ chain' = Chain!WithProjectPreApproval(chain, Requestor)
  /\ UNCHANGED <<inputs, resolved>>

AddVerifier ==
  /\ stage = "verify" /\ stage' = "done"
  /\ chain' = Chain!WithRequesterVerification(chain, verifier, Requestor)
  /\ UNCHANGED <<inputs, resolved>>

Next == Resolve \/ DropSelf \/ AddPreApprovers \/ AddVerifier

Spec == Init /\ [][Next]_vars

----------------------------------------------------------------------------
(* Properties.                                                             *)

Done == stage = "done"

Kept(s) == {t \in chain : t.key = s.key}

\* A signature the matrix asked for is never lost in the rewritings: it is
\* still in the chain, or it was the requestor's own, or the same person
\* signs in front of the matrix, as pre-approver or verifier.
NoSignatureLost ==
  Done => \A s \in resolved :
    \/ Kept(s) # {}
    \/ s.user = Requestor
    \/ \E t \in chain : t.user = s.user /\ t.key \in {"pre", "verify"}

\* No chain is empty or waits for the requestor, even when the matrix, the
\* project and the verifier name nobody else.
SomebodyElseSigns ==
  Done => chain # {} /\ \A s \in chain : s.user # Requestor

\* The levels of the matrix keep their order and their parallel groups in
\* the final chain, whatever was put in front and taken out.
OrderKept ==
  Done => \A s, t \in resolved : \A x \in Kept(s), y \in Kept(t) :
    x.step < y.step <=> s.step < t.step

\* Nobody signs before the requestor's verifier, who may still correct the
\* request, and project pre-approvers sign before the matrix.
VerifierFirst ==
  Done => \A s, t \in chain :
    /\ s.key = "verify" /\ t # s => s.step < t.step
    /\ s.key = "pre" /\ t.key \notin {"verify", "pre"} => s.step < t.step

\* The amount an organisation foresaw no band for is routed to nothing weaker
\* than its highest band that fits the request, and to the administrators
\* when it has none.
NoBandMeansHighest ==
  Done /\ (\A r \in matrix : ~(Chain!Matches(r) /\ Chain!InBand(r, amount))) =>
    IF \E r \in matrix : Chain!Matches(r)
    THEN \A r \in matrix :
           Chain!Matches(r) /\ (\A q \in matrix : Chain!Matches(q) => q.min <= r.min)
             => \E s \in resolved : s.key = r.id
    ELSE resolved = {Chain!Slot("fallback", 1, NoUser, "par_admin")}

=============================================================================
