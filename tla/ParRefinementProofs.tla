------------------------ MODULE ParRefinementProofs -------------------------
(***************************************************************************)
(* ParRequest implements ParLifecycle: the initial state maps to an        *)
(* initial state, and every call to a step of the life of a request or to  *)
(* a stutter.                                                              *)
(***************************************************************************)
EXTENDS ParRequestProofs

LEMMA LifecycleInit == Init => Abstract!Init
<1>. SUFFICES ASSUME Init PROVE Abstract!Init
  OBVIOUS
<1>1. TypeOK
  BY TypeInit
<1>2. Stage = "open" /\ Missing = {}
  BY DEF Init, Stage, Missing, Editable
<1>3. TermsOf(body) \in {TermsOf(b) : b \in Bodies}
  BY <1>1 DEF TypeOK
<1>. QED BY <1>2, <1>3 DEF Abstract!Init

\* While finance has a request, its terms are payable.
LEMMA PayableWithFinance ==
  ASSUME TypeOK, PaymentFacts,
         status \in {"in_finance", "reapproval_required", "paid"}
  PROVE  TermsOf(body) \in {TermsOf(b) : b \in {c \in Bodies :
                                                 c.purpose = "execute_payment"}}
BY DEF TypeOK, PaymentFacts

LEMMA LifecycleStep ==
  ASSUME TypeOK, TypeOK', LevelsInOrder, PaymentFacts, [Next]_vars
  PROVE  Abstract!Next \/ UNCHANGED <<Stage, TermsOf(body), Missing>>
<1>. DEFINE Step == Abstract!Next \/ UNCHANGED <<Stage, TermsOf(body), Missing>>
<1>0. TermsOf(body)' \in {TermsOf(b) : b \in Bodies}
  BY DEF TypeOK
<1>1. CASE UNCHANGED vars
  BY <1>1 DEF Stage, TermsOf, Missing, vars
<1>. SUFFICES ASSUME NEW u \in Users, Call(u) PROVE Step
  BY <1>1 DEF Next
<1>. HIDE DEF Step
<1>2. CASE EditHeader(u)
  <2>1. Stage = "open" /\ Stage' = "open" /\ Missing = {} /\ Missing' = {}
    BY <1>2 DEF EditHeader, Editable, Stage, Missing
  <2>. QED BY <1>0, <2>1 DEF Step, Abstract!Next, Abstract!Edit
<1>3. CASE EditLines(u)
  <2>1. Stage = "open" /\ Stage' = "open" /\ Missing = {} /\ Missing' = {}
    BY <1>3 DEF EditLines, Editable, Stage, Missing
  <2>. QED BY <1>0, <2>1 DEF Step, Abstract!Next, Abstract!Edit
<1>4. CASE Submit(u)
  <2>1. PICK b, rate, chain :
          chain \in SubmittedChains(b.total * rate, u) /\ rows' = FreshRows(chain)
            /\ body' = b /\ b \in Autosaved
    BY <1>4 DEF Submit
  <2>2. chain \subseteq Slots /\ chain # {}
    BY <2>1, SubmittedSlots
  <2>3. Missing' = chain
    BY <1>4, <2>1 DEF Submit, Missing, FreshRows, FreshRow
  <2>4. TermsOf(body)' = TermsOf(body)
    BY <2>1, AutosavedType DEF TermsOf
  <2>5. Stage = "open" /\ Stage' = "routed"
    BY <1>4 DEF Submit, Stage, Editable
  <2>. QED BY <2>2, <2>3, <2>4, <2>5 DEF Step, Abstract!Next, Abstract!Submit
<1>5. CASE SubmitRefused(u)
  <2>1. Stage = "open" /\ Stage' = "open" /\ Missing = {} /\ Missing' = {}
    BY <1>5 DEF SubmitRefused, Editable, Stage, Missing
  <2>. QED BY <1>0, <2>1 DEF Step, Abstract!Next, Abstract!Edit
<1>6. CASE Withdraw(u)
  <2>1. /\ Stage = "routed" /\ Stage' \in {"refused", "open"}
        /\ Missing' = {} /\ TermsOf(body)' = TermsOf(body)
    BY <1>6 DEF Withdraw, DropChain, Editable, Stage, Missing, TermsOf
  <2>. QED BY <2>1 DEF Step, Abstract!Next, Abstract!Stop
<1>7. CASE Reopen(u)
  <2>1. /\ Stage \in {"refused", "cleared", "held"} /\ Stage' = "open"
        /\ Missing = {} /\ Missing' = {} /\ TermsOf(body)' = TermsOf(body)
    BY <1>7 DEF Reopen, DropChain, Editable, Stage, Missing, TermsOf
  <2>. QED BY <2>1 DEF Step, Abstract!Next, Abstract!Return
<1>8. CASE Cancel(u)
  <2>1. /\ Stage \notin {"paid", "cancelled"} /\ Stage' = "cancelled"
        /\ Missing' = {} /\ TermsOf(body)' = TermsOf(body)
    BY <1>8 DEF Cancel, Editable, Stage, Missing, TermsOf, TypeOK, Statuses
  <2>. QED BY <2>1 DEF Step, Abstract!Next, Abstract!Cancel
<1>9. CASE Approve(u)
  <2>1. PICK s \in Picked(rows, u) :
          /\ rows' = Signed(s, u)
          /\ status' = IF Completes(rows, s) THEN Cleared ELSE status
    BY <1>9 DEF Approve
  <2>2. /\ s \in DOMAIN rows /\ Open(rows, s)
        /\ status = "pending_approval" /\ TermsOf(body)' = TermsOf(body)
    BY <1>9, PickedOpen DEF Open, Approve, TermsOf
  <2>3. DOMAIN rows' = DOMAIN rows /\ rows'[s].decision = "approved"
    BY <2>1, <2>2, SignedRows, DecidedType DEF Decisions
  <2>4. \A t \in DOMAIN rows \ {s} : rows'[t].decision = rows[t].decision
    BY <2>1, <2>2, SignedRows
  <2>5. Stage = "routed" /\ s \in Missing
    BY <2>2 DEF Stage, Missing, Editable, Open
  <2>6. CASE Completes(rows, s)
    <3>1. Missing = {s}
      BY <2>2, <2>6, LastRow DEF Missing, Open
    <3>2. Missing' = {} /\ Stage' = "cleared"
      BY <2>1, <2>6 DEF Cleared, Missing, Stage, Editable
    <3>. QED BY <2>2, <2>5, <3>1, <3>2 DEF Step, Abstract!Next, Abstract!Sign
  <2>7. CASE ~Completes(rows, s)
    <3>1. Missing \ {s} # {}
      BY <2>2, <2>7, LastRow DEF Missing
    <3>2. Missing' = Missing \ {s} /\ Stage' = "routed"
      BY <2>1, <2>2, <2>3, <2>4, <2>7 DEF Missing, Stage, Editable
    <3>. QED BY <2>2, <2>5, <3>1, <3>2 DEF Step, Abstract!Next, Abstract!Sign
  <2>. QED BY <2>6, <2>7
<1>10. CASE Reject(u)
  <2>1. /\ Stage = "routed" /\ Stage' \in {"refused", "open"}
        /\ Missing' = {} /\ TermsOf(body)' = TermsOf(body)
    BY <1>10 DEF Reject, Editable, Stage, Missing, TermsOf
  <2>. QED BY <2>1 DEF Step, Abstract!Next, Abstract!Stop
<1>11. CASE RequestChanges(u)
  <2>1. /\ Stage = "routed" /\ Stage' \in {"refused", "open"}
        /\ Missing' = {} /\ TermsOf(body)' = TermsOf(body)
    BY <1>11 DEF RequestChanges, Editable, Stage, Missing, TermsOf
  <2>. QED BY <2>1 DEF Step, Abstract!Next, Abstract!Stop
<1>12. CASE VerifierAmend(u)
  <2>1. /\ body'.total = body.total /\ body'.payee = body.payee
        /\ body'.purpose = body.purpose
    BY <1>12 DEF VerifierAmend, TypeOK, Bodies
  <2>2. TermsOf(body)' = TermsOf(body)
    BY <2>1 DEF TermsOf
  <2>3. Stage' = Stage /\ Missing' = Missing
    BY <1>12 DEF VerifierAmend, Stage, Missing
  <2>. QED BY <2>2, <2>3 DEF Step
<1>13. CASE FinanceAmend(u)
  <2>1. /\ body'.total = body.total /\ body'.payee = body.payee
        /\ body'.purpose = body.purpose
    BY <1>13 DEF FinanceAmend, TypeOK, Bodies
  <2>2. TermsOf(body)' = TermsOf(body)
    BY <2>1 DEF TermsOf
  <2>3. Stage' = Stage /\ Missing' = Missing
    BY <1>13 DEF FinanceAmend, Stage, Missing
  <2>. QED BY <2>2, <2>3 DEF Step
<1>14. CASE PayHeld(u)
  <2>1. status \in {"in_finance", "reapproval_required", "paid"}
    BY <1>14 DEF PayHeld, MayPay
  <2>2. /\ body'.total = body.total /\ body'.payee = body.payee
        /\ body'.purpose = body.purpose
    BY <1>14 DEF PayHeld
  <2>3. /\ Stage = "cleared" /\ Stage' = "held"
        /\ Missing = {} /\ Missing' = {} /\ TermsOf(body)' = TermsOf(body)
    BY <1>14, <2>2 DEF PayHeld, MayPay, Editable, Stage, Missing, TermsOf, PaymentFacts
  <2>. QED
    BY <2>1, <2>3, PayableWithFinance DEF Step, Abstract!Next, Abstract!Hold
<1>15. CASE Pay(u)
  <2>1. status \in {"in_finance", "reapproval_required", "paid"}
    BY <1>15 DEF Pay, MayPay
  <2>2. /\ body'.total = body.total /\ body'.payee = body.payee
        /\ body'.purpose = body.purpose
    BY <1>15, AutosavedType DEF Pay
  <2>3. /\ Stage = "cleared" /\ Stage' = "paid"
        /\ Missing = {} /\ Missing' = {} /\ TermsOf(body)' = TermsOf(body)
    BY <1>15, <2>2 DEF Pay, MayPay, Editable, Stage, Missing, TermsOf, PaymentFacts
  <2>. QED
    BY <2>1, <2>3, PayableWithFinance DEF Step, Abstract!Next, Abstract!Pay
<1>16. CASE Reapprove(u)
  <2>1. /\ Stage = "held" /\ Stage' = "cleared"
        /\ Missing = {} /\ Missing' = {} /\ TermsOf(body)' = TermsOf(body)
    BY <1>16 DEF Reapprove, Editable, Stage, Missing, TermsOf, PaymentFacts
  <2>. QED BY <2>1 DEF Step, Abstract!Next, Abstract!Regrant
<1>17. CASE Unpay(u)
  <2>1. /\ Stage = "paid" /\ Stage' = "cleared"
        /\ Missing = {} /\ Missing' = {} /\ TermsOf(body)' = TermsOf(body)
    BY <1>17 DEF Unpay, Editable, Stage, Missing, TermsOf, PaymentFacts
  <2>. QED BY <2>1 DEF Step, Abstract!Next, Abstract!Unpay
<1>18. CASE FinanceReturn(u)
  <2>1. /\ Stage \in {"refused", "cleared", "held"} /\ Stage' = "open"
        /\ Missing = {} /\ Missing' = {} /\ TermsOf(body)' = TermsOf(body)
    BY <1>18 DEF FinanceReturn, Editable, Stage, Missing, TermsOf
  <2>. QED BY <2>1 DEF Step, Abstract!Next, Abstract!Return
<1>. QED
  BY <1>2, <1>3, <1>4, <1>5, <1>6, <1>7, <1>8, <1>9, <1>10, <1>11, <1>12,
     <1>13, <1>14, <1>15, <1>16, <1>17, <1>18 DEF Call

\* Every behaviour of a request is one of the life of a request
\* (ImplementsLifecycle): terms change only with the author, finance gets the
\* request exactly with its last signature, a held payment is paid only after
\* it was cleared again.
THEOREM RequestImplementsLifecycle == Spec => ImplementsLifecycle
<1>1. TypeOK /\ TypeOK' /\ LevelsInOrder /\ PaymentFacts /\ [Next]_vars =>
        [Abstract!Next]_<<Stage, TermsOf(body), Missing>>
  BY LifecycleStep
<1>. QED
  BY <1>1, LifecycleInit, TypeCorrect, LevelsOpenInOrder, PaymentFactsHold, PTL
  DEF Spec, ImplementsLifecycle, Abstract!Spec, Abstract!vars

=============================================================================
