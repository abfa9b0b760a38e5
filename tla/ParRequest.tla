----------------------------- MODULE ParRequest -----------------------------
(***************************************************************************)
(* One payment action request, from its first draft to the payment, with   *)
(* every handler that changes it as one action: server/routes/par.ts,      *)
(* parApprovals.ts, parPayments.ts and lib/par/submit.ts.  Here a handler  *)
(* runs from its first read to its last write without interruption;        *)
(* ParConcurrent takes the handlers apart.                                 *)
(*                                                                         *)
(* `rows` is par_approvals for the request.  The requestor's own row       *)
(* (level 0, inserted as approved) is left out: no code that decides       *)
(* anything looks at it.                                                   *)
(***************************************************************************)
EXTENDS ParChain

CONSTANTS
  Totals,     \* sums of the line totals, in the currency of the request
  Payees,     \* complete payee details (name and IBAN)
  NoPayee,
  Memos,      \* budget line and end use: what may be corrected later
  NoMemo,
  Rates,      \* MDL per unit of the request's currency, as the bank quotes it
  Threshold,  \* micro_purchase_threshold_cents, in MDL
  Actuals,    \* amounts finance records as paid
  NoAmount,
  NoSeal,     \* body_hash IS NULL
  MaxSubmits  \* bound on how often the request is submitted

ASSUME AmountAssumption ==
  /\ Totals \subseteq Nat /\ Actuals \subseteq Nat
  /\ 0 \in Totals
  /\ Rates \subseteq Nat \ {0}
  /\ Threshold \in Nat /\ MaxSubmits \in Nat
  /\ NoAmount \notin Nat

VARIABLES
  status,   \* par_requests.status
  body,     \* the sealed columns of par_requests
  seal,     \* what body_hash was computed from, or NoSeal
  rows,     \* par_approvals: slot -> decision, lock, signer, what was signed
  totalMdl, \* total_mdl_cents, frozen at submit
  actual,   \* par_payments.actual_amount_cents
  overage,  \* par_payments.overage_reapproved
  signers,  \* actors of the audit events `approved`
  submits,  \* submits so far (bound)
  granted   \* history: the overage amounts someone re-approved

vars == <<status, body, seal, rows, totalMdl, actual, overage, signers,
          submits, granted>>

Statuses ==
  {"draft", "pending_approval", "changes_requested", "rejected", "approved",
   "in_finance", "reapproval_required", "paid", "cancelled"}

Editable == {"draft", "changes_requested"}
FinanceStage == {"approved", "in_finance", "reapproval_required", "paid"}
Purposes == {"execute_payment", "obtain_quotations"}

\* vendor: whether vendor_id points at a registered vendor.
Bodies == [total   : Totals,
           payee   : Payees \union {NoPayee},
           memo    : Memos \union {NoMemo},
           purpose : Purposes,
           vendor  : BOOLEAN]

Decisions == {"pending", "approved", "rejected", "changes_requested"}

\* What a person who opens the request puts a name under.
Seen(b) == [total |-> b.total, payee |-> b.payee, purpose |-> b.purpose,
            memo |-> b.memo]

Unseen == [total |-> 0, payee |-> NoPayee, purpose |-> "obtain_quotations",
           memo |-> NoMemo]

RowStates == [decision : Decisions,
              locked   : BOOLEAN,
              by       : Users \union {NoUser},
              seen     : {Seen(b) : b \in Bodies}]

TypeOK ==
  /\ status \in Statuses
  /\ body \in Bodies
  /\ seal \in Bodies \union {NoSeal}
  /\ DOMAIN rows \subseteq Slots
  /\ rows \in [DOMAIN rows -> RowStates]
  /\ totalMdl \in Nat
  /\ actual \in Actuals \union {NoAmount}
  /\ overage \in BOOLEAN
  /\ signers \subseteq Users
  /\ submits \in 0 .. MaxSubmits
  /\ granted \subseteq Actuals

NoRows == [s \in {} |-> [decision |-> "pending", locked |-> FALSE,
                         by |-> NoUser, seen |-> Unseen]]

Init ==
  /\ status = "draft"
  /\ body = [total |-> 0, payee |-> NoPayee, memo |-> NoMemo,
             purpose |-> "execute_payment", vendor |-> FALSE]
  /\ seal = NoSeal
  /\ rows = NoRows
  /\ totalMdl = 0
  /\ actual = NoAmount
  /\ overage = FALSE
  /\ signers = {}
  /\ submits = 0
  /\ granted = {}

----------------------------------------------------------------------------
(* The author's side: editing and submitting.                              *)

\* verifyParBodyHash: a vendor id filled in behind the seal is tolerated.
Verified ==
  \/ body = seal
  \/ body.vendor /\ [body EXCEPT !.vendor = FALSE] = seal

\* validateParForSubmit.
Complete(b) ==
  /\ b.total > 0
  /\ b.purpose = "execute_payment" =>
       b.memo # NoMemo /\ (b.vendor \/ b.payee # NoPayee)

EditHeader(u) ==
  /\ u = Requestor
  /\ status \in Editable
  /\ \E b \in Bodies :
       /\ b.total = body.total
       /\ b.vendor => b.payee # NoPayee
       /\ body' = b
  /\ UNCHANGED <<status, seal, rows, totalMdl, actual, overage, signers,
                 submits, granted>>

\* Variant: lines can be edited while the request is being approved.
EditLinesAnytime(u) ==
  /\ u = Requestor
  /\ status \in Editable \union {"pending_approval"}
  /\ \E t \in Totals : body' = [body EXCEPT !.total = t]
  /\ UNCHANGED <<status, seal, rows, totalMdl, actual, overage, signers,
                 submits, granted>>

EditLines(u) ==
  /\ u = Requestor
  /\ status \in Editable
  /\ \E t \in Totals : body' = [body EXCEPT !.total = t]
  /\ UNCHANGED <<status, seal, rows, totalMdl, actual, overage, signers,
                 submits, granted>>

\* autosaveVendorFromPar runs before anything is checked, links the payee to
\* the vendor registry when it can, and swallows its own failures.
Autosaved ==
  {body} \union
  (IF body.payee = NoPayee THEN {} ELSE {[body EXCEPT !.vendor = TRUE]})

\* Variant: rows start in a state nobody looks for.
FreshRowWaiting(locked) ==
  [decision |-> "waiting", locked |-> locked, by |-> NoUser, seen |-> Unseen]

FreshRow(locked) ==
  [decision |-> "pending", locked |-> locked, by |-> NoUser, seen |-> Unseen]

FreshRows(chain) == [s \in chain |-> FreshRow(s \notin FirstLevel(chain))]

Submit(u) ==
  /\ u = Requestor
  /\ status \in Editable
  /\ submits < MaxSubmits
  /\ \E b \in Autosaved, rate \in Rates :
       /\ Complete(b)
       /\ \E chain \in SubmittedChains(b.total * rate, u) :
            rows' = FreshRows(chain)
       /\ body' = b
       /\ seal' = b
       /\ totalMdl' = b.total * rate
  /\ status' = "pending_approval"
  /\ submits' = submits + 1
  /\ UNCHANGED <<actual, overage, signers, granted>>

\* Incomplete, or no exchange rate today: only the vendor link stays behind.
SubmitRefused(u) ==
  /\ u = Requestor
  /\ status \in Editable
  /\ body' \in Autosaved
  /\ UNCHANGED <<status, seal, rows, totalMdl, actual, overage, signers,
                 submits, granted>>

DropChain ==
  /\ rows' = NoRows
  /\ seal' = NoSeal
  /\ status' = "draft"
  /\ UNCHANGED <<body, totalMdl, actual, overage, signers, submits, granted>>

Withdraw(u) ==
  /\ u = Requestor \/ "par_admin" \in ParRoles(u)
  /\ status = "pending_approval"
  /\ DropChain

Reopen(u) ==
  /\ u = Requestor
  /\ status = "rejected"
  /\ DropChain

Cancel(u) ==
  /\ u = Requestor \/ "par_admin" \in ParRoles(u)
  /\ status \notin {"paid", "cancelled"}
  /\ status' = "cancelled"
  /\ UNCHANGED <<body, seal, rows, totalMdl, actual, overage, signers,
                 submits, granted>>

----------------------------------------------------------------------------
(* The approvers' side.                                                    *)

Decided(s, u, decision) ==
  [rows[s] EXCEPT !.decision = decision, !.by = u, !.seen = Seen(body)]

\* Variant: every later level opens at once.
SignedOpensAll(s, u) ==
  LET opened == IF Siblings(rows, s) = {} THEN LaterLocked(rows, s) ELSE {}
  IN  [t \in DOMAIN rows |->
         IF t = s THEN Decided(s, u, "approved")
         ELSE IF t \in opened THEN [rows[t] EXCEPT !.locked = FALSE]
         ELSE rows[t]]

\* The chain after u approved row s: the next level opens when the last row
\* of this one is decided.
Signed(s, u) ==
  LET opened == IF Siblings(rows, s) = {} THEN NextLevel(rows, s) ELSE {}
  IN  [t \in DOMAIN rows |->
         IF t = s THEN Decided(s, u, "approved")
         ELSE IF t \in opened THEN [rows[t] EXCEPT !.locked = FALSE]
         ELSE rows[t]]

\* Variant: quotations go to finance as well.
ClearedToFinance == "in_finance"

Cleared == IF body.purpose = "execute_payment" THEN "in_finance" ELSE "approved"

\* Variant: the limit is compared with the amount in the request's currency.
ApproveNativeLimit(u) ==
  /\ status = "pending_approval"
  /\ MayApprove(rows, u)
  /\ Verified
  /\ \E s \in Picked(rows, u) :
       /\ Completes(rows, s) => WithinLimit(u, s, body.total)
       /\ rows' = Signed(s, u)
       /\ status' = IF Completes(rows, s) THEN Cleared ELSE status
  /\ signers' = signers \union {u}
  /\ UNCHANGED <<body, seal, totalMdl, actual, overage, submits, granted>>

Approve(u) ==
  /\ status = "pending_approval"
  /\ MayApprove(rows, u)
  /\ Verified
  /\ \E s \in Picked(rows, u) :
       /\ Completes(rows, s) => WithinLimit(u, s, totalMdl)
       /\ rows' = Signed(s, u)
       /\ status' = IF Completes(rows, s) THEN Cleared ELSE status
  /\ signers' = signers \union {u}
  /\ UNCHANGED <<body, seal, totalMdl, actual, overage, submits, granted>>

Reject(u) ==
  /\ status = "pending_approval"
  /\ MayStop(rows, u)
  /\ \E s \in Picked(rows, u) :
       rows' = [rows EXCEPT ![s] = Decided(s, u, "rejected")]
  /\ status' = "rejected"
  /\ UNCHANGED <<body, seal, totalMdl, actual, overage, signers, submits,
                 granted>>

RequestChanges(u) ==
  /\ status = "pending_approval"
  /\ MayStop(rows, u)
  /\ \E s \in Picked(rows, u) :
       rows' = [rows EXCEPT ![s] = Decided(s, u, "changes_requested")]
  /\ status' = "changes_requested"
  /\ UNCHANGED <<body, seal, totalMdl, actual, overage, signers, submits,
                 granted>>

\* The correction and the new seal are one transaction.
VerifierAmend(u) ==
  /\ status = "pending_approval"
  /\ MayVerifierAmend(rows, u)
  /\ Verified
  /\ \E m \in (Memos \union {NoMemo}) \ {body.memo} :
       /\ body.purpose = "execute_payment" => m # NoMemo
       /\ body' = [body EXCEPT !.memo = m]
  /\ seal' = body'
  /\ UNCHANGED <<status, rows, totalMdl, actual, overage, signers, submits,
                 granted>>

----------------------------------------------------------------------------
(* Finance's side.  POST /finance writes only who received and who handles *)
(* the request; its one transition, from approved, needs a payment request *)
(* in status approved, and approveParStep never leaves one there.          *)

IsFinance(u) == ParRoles(u) \intersect {"finance", "par_admin"} # {}

\* Variant: the body is not resealed.
FinanceAmendUnsealed(u) ==
  /\ IsFinance(u)
  /\ status \in FinanceStage
  /\ \E m \in (Memos \union {NoMemo}) \ {body.memo} :
       body' = [body EXCEPT !.memo = m]
  /\ UNCHANGED <<status, seal, rows, totalMdl, actual, overage, signers,
                 submits, granted>>

\* Unlike the verifier's, this correction reseals without checking the seal.
FinanceAmend(u) ==
  /\ IsFinance(u)
  /\ status \in FinanceStage
  /\ \E m \in (Memos \union {NoMemo}) \ {body.memo} :
       body' = [body EXCEPT !.memo = m]
  /\ seal' = body'
  /\ UNCHANGED <<status, rows, totalMdl, actual, overage, signers, submits,
                 granted>>

\* applyTenRule, in integer arithmetic.
Overage(amount) == amount > (body.total * 110) \div 100
\* Variant: the MDL threshold is compared with the request's currency.
NeedsReapprovalNative(amount) == Overage(amount) /\ body.total > Threshold

NeedsReapproval(amount) == Overage(amount) /\ totalMdl > Threshold

MayPay(u) ==
  /\ IsFinance(u)
  /\ \/ status = "in_finance"
     \/ status = "reapproval_required" /\ overage
  /\ Verified

PayHeld(u) ==
  /\ MayPay(u)
  /\ \E amount \in Actuals :
       /\ NeedsReapproval(amount) /\ ~overage
       /\ actual' = amount
  /\ status' = "reapproval_required"
  /\ UNCHANGED <<body, seal, rows, totalMdl, overage, signers, submits,
                 granted>>

\* autoLinkVendorOnPayment fills in the vendor behind the seal, when it can.
Pay(u) ==
  /\ MayPay(u)
  /\ \E amount \in Actuals :
       /\ ~NeedsReapproval(amount) \/ overage
       /\ actual' = amount
  /\ status' = "paid"
  /\ body' \in Autosaved
  /\ UNCHANGED <<seal, rows, totalMdl, overage, signers, submits, granted>>

\* Without par_admin: someone who signed this request, within their limit.
MayReapprove(u) ==
  /\ ParRoles(u) \intersect {"approver", "par_admin"} # {}
  /\ u # Requestor
  /\ "par_admin" \notin ParRoles(u) =>
       /\ u \in signers
       /\ Limit[u] # NoLimit /\ actual # NoAmount => actual <= Limit[u]

Reapprove(u) ==
  /\ status = "reapproval_required"
  /\ MayReapprove(u)
  /\ overage' = TRUE
  /\ granted' = granted \union ({actual} \ {NoAmount})
  /\ status' = "in_finance"
  /\ UNCHANGED <<body, seal, rows, totalMdl, actual, signers, submits>>

\* The payment row, its amount and its overage flag stay.
Unpay(u) ==
  /\ IsFinance(u)
  /\ status = "paid"
  /\ status' = "in_finance"
  /\ UNCHANGED <<body, seal, rows, totalMdl, actual, overage, signers,
                 submits, granted>>

FinanceReturn(u) ==
  /\ IsFinance(u)
  /\ status \in {"approved", "in_finance", "reapproval_required"}
  /\ status' = "changes_requested"
  /\ UNCHANGED <<body, seal, rows, totalMdl, actual, overage, signers,
                 submits, granted>>

\* One call of u that changes something; a refused one is a stuttering step.
Call(u) ==
  \/ EditHeader(u) \/ EditLines(u) \/ Submit(u) \/ SubmitRefused(u)
  \/ Withdraw(u) \/ Reopen(u) \/ Cancel(u)
  \/ Approve(u) \/ Reject(u) \/ RequestChanges(u) \/ VerifierAmend(u)
  \/ FinanceAmend(u) \/ PayHeld(u) \/ Pay(u) \/ Reapprove(u) \/ Unpay(u)
  \/ FinanceReturn(u)

Next == \E u \in Users : Call(u)

Spec == Init /\ [][Next]_vars

----------------------------------------------------------------------------
(* Properties.                                                             *)

\* The levels of a chain open strictly one after the other (approveParStep
\* with approvalProgressAfterDecision): whatever is above an undecided row is
\* untouched, and the rows of one level are locked and unlocked together.
LevelsInOrder ==
  status = "pending_approval" =>
    \A s, t \in DOMAIN rows :
      /\ rows[s].decision \in {"pending", "approved"}
      /\ rows[s].locked => rows[s].decision = "pending"
      /\ s.step = t.step => rows[s].locked = rows[t].locked
      /\ s.step < t.step /\ rows[s].decision = "pending" => rows[t].locked

\* Finance never sees a request that misses a signature: the code counts the
\* rows left over in one read of the chain, level by level, and no handler
\* looks at the whole chain again afterwards.
FullySigned ==
  status \in FinanceStage =>
    \A s \in DOMAIN rows : rows[s].decision = "approved"

\* A request that waits for approval has a row somebody could decide: the
\* last row of a level always opens the next one (the request would otherwise
\* be in no inbox, and only a withdrawal would move it).
ChainMoves ==
  status = "pending_approval" => \E s \in DOMAIN rows : Open(rows, s)

\* From submit to payment the seal stands for the stored body, whatever the
\* verifier, finance or the vendor registry wrote into it: approveParStep and
\* the payment would answer integrity_violation from then on.
SealHolds == status \in {"pending_approval"} \union FinanceStage => Verified

\* Nobody signs for something that changes afterwards.  While the chain is
\* being signed every signature is on the body as it stands, the verifier's
\* corrections included; later finance may complete the memo, never the money,
\* the payee or the purpose.
SignaturesStand ==
  \A s \in DOMAIN rows :
    rows[s].decision = "approved" =>
      /\ status = "pending_approval" => rows[s].seen = Seen(body)
      /\ status \in FinanceStage =>
           [rows[s].seen EXCEPT !.memo = body.memo] = Seen(body)

\* The signature that completes a chain is that of somebody whose own limit,
\* the limits of those they act for included, or par_admin, covers what the
\* stored body is worth in MDL; the code looks at a total frozen at submit.
CompletedWithinLimit ==
  [][status = "pending_approval" /\ status' \in FinanceStage =>
       \E s \in DOMAIN rows, rate \in Rates :
         /\ rows[s].decision = "pending" /\ rows'[s].decision = "approved"
         /\ WithinLimit(rows'[s].by, s, body.total * rate)
         /\ totalMdl = body.total * rate]_vars

\* What the payment side takes for granted and never checks: the total frozen
\* at submit is still what the body is worth when the chain completes, only
\* requests for a payment are with finance, an overage is on hold only while
\* nobody has granted one, and the flag that lets it pass is never set on
\* nothing.
PaymentFacts ==
  /\ status = "pending_approval" =>
       \E rate \in Rates : totalMdl = body.total * rate
  /\ status \in {"in_finance", "reapproval_required", "paid"} =>
       body.purpose = "execute_payment"
  /\ status = "reapproval_required" => ~overage /\ actual # NoAmount
  /\ overage => granted # {}

\* More than a tenth above the estimate, on a request above the threshold.
IsOverage(amount) == amount * 100 > body.total * 110 /\ totalMdl > Threshold

\* A payment more than a tenth above the estimate, on a request above the
\* micro-purchase threshold, is never recorded as paid unless somebody
\* re-approved an overage of this request.
OverageReapproved == status = "paid" /\ IsOverage(actual) => granted # {}

\* PAR-CORE: when the amount exceeds the estimate by more than 10% "the final
\* approver must re-approve before `paid`".  The amount that is paid is one
\* that was re-approved, or lies below one.
OverageCovered ==
  status = "paid" /\ IsOverage(actual) =>
    \E amount \in granted : actual <= amount

----------------------------------------------------------------------------
(* The request implements the abstract life of a request.                  *)

TermsOf(b) == [total |-> b.total, payee |-> b.payee, purpose |-> b.purpose]

Stage ==
  CASE status \in Editable                   -> "open"
    [] status = "pending_approval"           -> "routed"
    [] status = "rejected"                   -> "refused"
    [] status \in {"approved", "in_finance"} -> "cleared"
    [] status = "reapproval_required"        -> "held"
    [] OTHER                                 -> status

Missing ==
  IF status = "pending_approval"
  THEN {s \in DOMAIN rows : rows[s].decision # "approved"} ELSE {}

Abstract == INSTANCE ParLifecycle WITH
  Terms        <- {TermsOf(b) : b \in Bodies},
  PayableTerms <- {TermsOf(b) : b \in {c \in Bodies :
                                         c.purpose = "execute_payment"}},
  Signatures   <- Slots,
  stage        <- Stage,
  terms        <- TermsOf(body),
  missing      <- Missing

\* Every handler is a step of ParLifecycle or invisible to it: terms change
\* only with the author while the request is open, every signature counts
\* once, finance gets the request with the last one, and a payment that is
\* held is paid only after it was cleared again.
ImplementsLifecycle == Abstract!Spec

=============================================================================
