--------------------------- MODULE ParRequestProofs -------------------------
(***************************************************************************)
(* What ParRequest guarantees for every workspace, matrix, verifier and    *)
(* amount.                                                                 *)
(***************************************************************************)
EXTENDS ParRequest, ParChainProofs, TLAPS

----------------------------------------------------------------------------
(* Types.                                                                  *)

LEMMA UnseenIsSeen == Unseen \in {Seen(b) : b \in Bodies}
<1>. DEFINE blank == [total |-> 0, payee |-> NoPayee, memo |-> NoMemo,
                      purpose |-> "obtain_quotations", vendor |-> FALSE]
<1>1. blank \in Bodies
  BY AmountAssumption DEF Bodies, Purposes
<1>2. Seen(blank) = Unseen
  BY DEF Seen, Unseen
<1>. QED BY <1>1, <1>2

LEMMA FreshRowsType ==
  ASSUME NEW chain \in SUBSET Slots
  PROVE  /\ DOMAIN FreshRows(chain) = chain
         /\ FreshRows(chain) \in [chain -> RowStates]
<1>1. \A l \in BOOLEAN : FreshRow(l) \in RowStates
  BY UnseenIsSeen DEF FreshRow, RowStates, Decisions
<1>. QED BY <1>1 DEF FreshRows

LEMMA NoRowsType == DOMAIN NoRows = {} /\ NoRows \in [{} -> RowStates]
BY DEF NoRows

LEMMA DecidedType ==
  ASSUME TypeOK, NEW s \in DOMAIN rows, NEW u \in Users, NEW d \in Decisions
  PROVE  /\ Decided(s, u, d) \in RowStates
         /\ Decided(s, u, d).decision = d
         /\ Decided(s, u, d).locked = rows[s].locked
         /\ Decided(s, u, d).by = u
         /\ Decided(s, u, d).seen = Seen(body)
<1>1. rows[s] \in RowStates /\ Seen(body) \in {Seen(b) : b \in Bodies}
  BY DEF TypeOK
<1>. QED BY <1>1 DEF Decided, RowStates

\* What an approval leaves in every row.
LEMMA SignedRows ==
  ASSUME TypeOK, NEW s \in DOMAIN rows, NEW u \in Users
  PROVE  /\ DOMAIN Signed(s, u) = DOMAIN rows
         /\ Signed(s, u) \in [DOMAIN rows -> RowStates]
         /\ Signed(s, u)[s] = Decided(s, u, "approved")
         /\ \A t \in DOMAIN rows \ {s} :
              /\ Signed(s, u)[t].decision = rows[t].decision
              /\ Signed(s, u)[t].seen = rows[t].seen
              /\ Signed(s, u)[t].by = rows[t].by
              /\ Signed(s, u)[t].locked =
                   (rows[t].locked /\ ~(Siblings(rows, s) = {} /\ t \in NextLevel(rows, s)))
<1>1. Decided(s, u, "approved") \in RowStates
  BY DecidedType DEF Decisions
<1>2. \A t \in DOMAIN rows :
        /\ rows[t] \in RowStates
        /\ [rows[t] EXCEPT !.locked = FALSE] \in RowStates
        /\ [rows[t] EXCEPT !.locked = FALSE].decision = rows[t].decision
        /\ [rows[t] EXCEPT !.locked = FALSE].seen = rows[t].seen
        /\ [rows[t] EXCEPT !.locked = FALSE].by = rows[t].by
        /\ [rows[t] EXCEPT !.locked = FALSE].locked = FALSE
  BY DEF TypeOK, RowStates
<1>. DEFINE opened == IF Siblings(rows, s) = {} THEN NextLevel(rows, s) ELSE {}
            row(t) == IF t = s THEN Decided(s, u, "approved")
                      ELSE IF t \in opened THEN [rows[t] EXCEPT !.locked = FALSE]
                      ELSE rows[t]
<1>3. Signed(s, u) = [t \in DOMAIN rows |-> row(t)]
  BY DEF Signed
<1>4. \A t \in DOMAIN rows : row(t) \in RowStates
  BY <1>1, <1>2
<1>5. Signed(s, u) \in [DOMAIN rows -> RowStates] /\ DOMAIN Signed(s, u) = DOMAIN rows
  BY <1>3, <1>4
<1>6. Signed(s, u)[s] = Decided(s, u, "approved")
  BY <1>3
<1>7. ASSUME NEW t \in DOMAIN rows \ {s}
      PROVE  /\ Signed(s, u)[t].decision = rows[t].decision
             /\ Signed(s, u)[t].seen = rows[t].seen
             /\ Signed(s, u)[t].by = rows[t].by
             /\ Signed(s, u)[t].locked =
                  (rows[t].locked /\ ~(Siblings(rows, s) = {} /\ t \in NextLevel(rows, s)))
  <2>1. Signed(s, u)[t] = IF t \in opened THEN [rows[t] EXCEPT !.locked = FALSE]
                          ELSE rows[t]
    BY <1>3, <1>7
  <2>2. rows[t].locked \in BOOLEAN
    BY <1>2, <1>7 DEF RowStates
  <2>. QED BY <1>2, <1>7, <2>1, <2>2
<1>. QED BY <1>5, <1>6, <1>7

LEMMA PickedOpen ==
  ASSUME NEW u, NEW s \in Picked(rows, u)
  PROVE  s \in DOMAIN rows /\ rows[s].decision = "pending" /\ ~rows[s].locked
BY DEF Picked, Decidable, Open

LEMMA AutosavedType ==
  ASSUME TypeOK, NEW b \in Autosaved
  PROVE  /\ b \in Bodies
         /\ b.total = body.total /\ b.purpose = body.purpose /\ b.memo = body.memo
         /\ b.payee = body.payee
         /\ b = body \/ b = [body EXCEPT !.vendor = TRUE]
BY DEF TypeOK, Autosaved, Bodies

LEMMA TypeInit == Init => TypeOK
<1>. SUFFICES ASSUME Init PROVE TypeOK
  OBVIOUS
<1>1. body \in Bodies
  BY AmountAssumption DEF Init, Bodies, Purposes
<1>2. DOMAIN rows = {} /\ rows \in [{} -> RowStates]
  BY NoRowsType DEF Init
<1>3. DOMAIN rows \subseteq Slots /\ rows \in [DOMAIN rows -> RowStates]
  BY <1>2
<1>4. submits \in 0 .. MaxSubmits
  BY AmountAssumption DEF Init
<1>. QED BY <1>1, <1>3, <1>4 DEF Init, TypeOK, Statuses

LEMMA TypeStep ==
  ASSUME TypeOK, [Next]_vars
  PROVE  TypeOK'
<1>1. CASE UNCHANGED vars
  BY <1>1 DEF TypeOK, vars
<1>. SUFFICES ASSUME NEW u \in Users, Call(u) PROVE TypeOK'
  BY <1>1 DEF Next
<1>2. CASE EditHeader(u)
  BY <1>2 DEF EditHeader, TypeOK
<1>3. CASE EditLines(u)
  BY <1>3 DEF EditLines, TypeOK, Bodies
<1>4. CASE Submit(u)
  <2>0. PICK b \in Autosaved, rate \in Rates :
          /\ \E chain \in SubmittedChains(b.total * rate, u) : rows' = FreshRows(chain)
          /\ body' = b /\ seal' = b /\ totalMdl' = b.total * rate
    BY <1>4 DEF Submit
  <2>1. PICK chain \in SubmittedChains(b.total * rate, u) : rows' = FreshRows(chain)
    BY <2>0
  <2>2. b \in Bodies
    BY AutosavedType
  <2>3. b.total * rate \in Nat
    <3>1. b.total \in Nat /\ rate \in Nat
      BY <2>2, AmountAssumption DEF Bodies
    <3>. QED BY <3>1
  <2>4. chain \in SUBSET Slots
    BY SubmittedSlots
  <2>5. DOMAIN rows' \subseteq Slots /\ rows' \in [DOMAIN rows' -> RowStates]
    BY <2>1, <2>4, FreshRowsType
  <2>6. submits' \in 0 .. MaxSubmits
    BY <1>4, AmountAssumption DEF Submit, TypeOK
  <2>. QED BY <1>4, <2>0, <2>2, <2>3, <2>5, <2>6 DEF Submit, TypeOK, Statuses
<1>5. CASE SubmitRefused(u)
  BY <1>5, AutosavedType DEF SubmitRefused, TypeOK
<1>6. CASE Withdraw(u)
  BY <1>6, NoRowsType DEF Withdraw, DropChain, TypeOK, Statuses
<1>7. CASE Reopen(u)
  BY <1>7, NoRowsType DEF Reopen, DropChain, TypeOK, Statuses
<1>8. CASE Cancel(u)
  BY <1>8 DEF Cancel, TypeOK, Statuses
<1>9. CASE Approve(u)
  <2>1. PICK s \in Picked(rows, u) :
          rows' = Signed(s, u) /\ status' \in {"in_finance", "approved", status}
    BY <1>9 DEF Approve, Cleared
  <2>2. DOMAIN rows' = DOMAIN rows /\ rows' \in [DOMAIN rows -> RowStates]
    BY <2>1, PickedOpen, SignedRows
  <2>. QED BY <1>9, <2>1, <2>2 DEF Approve, TypeOK, Statuses
<1>10. CASE Reject(u)
  <2>1. PICK s \in Picked(rows, u) :
          rows' = [rows EXCEPT ![s] = Decided(s, u, "rejected")]
    BY <1>10 DEF Reject
  <2>2. Decided(s, u, "rejected") \in RowStates
    BY PickedOpen, DecidedType DEF Decisions
  <2>3. DOMAIN rows' = DOMAIN rows /\ rows' \in [DOMAIN rows -> RowStates]
    BY <2>1, <2>2 DEF TypeOK
  <2>. QED BY <1>10, <2>3 DEF Reject, TypeOK, Statuses
<1>11. CASE RequestChanges(u)
  <2>1. PICK s \in Picked(rows, u) :
          rows' = [rows EXCEPT ![s] = Decided(s, u, "changes_requested")]
    BY <1>11 DEF RequestChanges
  <2>2. Decided(s, u, "changes_requested") \in RowStates
    BY PickedOpen, DecidedType DEF Decisions
  <2>3. DOMAIN rows' = DOMAIN rows /\ rows' \in [DOMAIN rows -> RowStates]
    BY <2>1, <2>2 DEF TypeOK
  <2>. QED BY <1>11, <2>3 DEF RequestChanges, TypeOK, Statuses
<1>12. CASE VerifierAmend(u)
  BY <1>12 DEF VerifierAmend, TypeOK, Bodies
<1>13. CASE FinanceAmend(u)
  BY <1>13 DEF FinanceAmend, TypeOK, Bodies
<1>14. CASE PayHeld(u)
  BY <1>14 DEF PayHeld, TypeOK, Statuses
<1>15. CASE Pay(u)
  BY <1>15, AutosavedType DEF Pay, TypeOK, Statuses
<1>16. CASE Reapprove(u)
  BY <1>16 DEF Reapprove, TypeOK, Statuses
<1>17. CASE Unpay(u)
  BY <1>17 DEF Unpay, TypeOK, Statuses
<1>18. CASE FinanceReturn(u)
  BY <1>18 DEF FinanceReturn, TypeOK, Statuses
<1>. QED
  BY <1>2, <1>3, <1>4, <1>5, <1>6, <1>7, <1>8, <1>9, <1>10, <1>11, <1>12,
     <1>13, <1>14, <1>15, <1>16, <1>17, <1>18 DEF Call

\* The state of a request keeps its types (TypeOK).
THEOREM TypeCorrect == Spec => []TypeOK
BY TypeInit, TypeStep, PTL DEF Spec

----------------------------------------------------------------------------
(* The chain is signed level by level, to the last row.                    *)

\* A row that completes the chain is the last one undecided: a row below it
\* would keep it locked, one beside it is a sibling, one above it is locked.
LEMMA LastRow ==
  ASSUME TypeOK, LevelsInOrder, status = "pending_approval",
         NEW s \in DOMAIN rows, Open(rows, s)
  PROVE  Completes(rows, s) <=>
           \A t \in DOMAIN rows \ {s} : rows[t].decision = "approved"
<1>1. \A t \in DOMAIN rows : t.step \in Nat
  BY DEF TypeOK, Slots
<1>2. ASSUME Completes(rows, s), NEW t \in DOMAIN rows \ {s}
      PROVE  rows[t].decision = "approved"
  <2>. SUFFICES ASSUME rows[t].decision = "pending" PROVE FALSE
    BY DEF LevelsInOrder
  <2>1. CASE t.step = s.step
    BY <1>2, <2>1 DEF Completes, Siblings
  <2>2. CASE t.step < s.step
    BY <2>2 DEF LevelsInOrder, Open
  <2>3. CASE s.step < t.step
    <3>1. rows[t].locked
      BY <2>3 DEF LevelsInOrder, Open
    <3>. QED BY <1>2, <2>3, <3>1 DEF Completes, LaterLocked
  <2>. QED BY <1>1, <2>1, <2>2, <2>3
<1>3. ASSUME \A t \in DOMAIN rows \ {s} : rows[t].decision = "approved"
      PROVE  Completes(rows, s)
  <2>1. Siblings(rows, s) = {}
    BY <1>3 DEF Siblings
  <2>2. LaterLocked(rows, s) = {}
    BY <1>1, <1>3 DEF LaterLocked
  <2>. QED BY <2>1, <2>2 DEF Completes
<1>. QED BY <1>2, <1>3

\* An approval keeps the levels in order: the level it opens has nothing
\* undecided below it.
LEMMA SignedInOrder ==
  ASSUME TypeOK, LevelsInOrder, status = "pending_approval", NEW u \in Users,
         NEW s \in DOMAIN rows, Open(rows, s), rows' = Signed(s, u)
  PROVE  LevelsInOrder'
<1>1. \A t \in DOMAIN rows : t.step \in Nat /\ rows[t].locked \in BOOLEAN
  BY DEF TypeOK, Slots, RowStates
<1>2. DOMAIN rows' = DOMAIN rows
  BY SignedRows
<1>3. rows'[s].decision = "approved" /\ ~rows'[s].locked
  BY SignedRows, DecidedType DEF Open, Decisions
<1>4. \A t \in DOMAIN rows \ {s} :
        /\ rows'[t].decision = rows[t].decision
        /\ rows'[t].locked =
             (rows[t].locked /\ ~(Siblings(rows, s) = {} /\ t \in NextLevel(rows, s)))
  BY SignedRows
<1>5. \A t \in NextLevel(rows, s) :
        /\ t \in DOMAIN rows /\ s.step < t.step
        /\ rows[t].decision = "pending" /\ rows[t].locked
        /\ \A x \in LaterLocked(rows, s) : t.step <= x.step
  BY <1>1 DEF NextLevel, FirstLevel, LaterLocked
<1>. SUFFICES ASSUME NEW x \in DOMAIN rows, NEW t \in DOMAIN rows
              PROVE  /\ rows'[x].decision \in {"pending", "approved"}
                     /\ rows'[x].locked => rows'[x].decision = "pending"
                     /\ x.step = t.step => rows'[x].locked = rows'[t].locked
                     /\ x.step < t.step /\ rows'[x].decision = "pending" => rows'[t].locked
  BY <1>2 DEF LevelsInOrder
<1>6. rows'[x].decision \in {"pending", "approved"}
  BY <1>3, <1>4 DEF LevelsInOrder
<1>7. rows'[x].locked => rows'[x].decision = "pending"
  BY <1>3, <1>4 DEF LevelsInOrder
<1>8. ASSUME x.step = t.step PROVE rows'[x].locked = rows'[t].locked
  <2>1. rows[x].locked = rows[t].locked
    BY <1>8 DEF LevelsInOrder
  <2>2. x \in NextLevel(rows, s) <=> t \in NextLevel(rows, s)
    <3>1. ASSUME NEW y \in DOMAIN rows, NEW z \in DOMAIN rows, y.step = z.step,
                 rows[y].locked = rows[z].locked, y \in NextLevel(rows, s)
          PROVE  z \in NextLevel(rows, s)
      <4>1. z \in LaterLocked(rows, s)
        BY <1>5, <3>1 DEF LaterLocked, LevelsInOrder
      <4>. QED BY <1>5, <3>1, <4>1 DEF NextLevel, FirstLevel
    <3>. QED BY <1>8, <2>1, <3>1
  <2>3. s \notin NextLevel(rows, s) /\ ~rows[s].locked
    BY <1>5 DEF Open
  <2>. rows'[x].locked \in BOOLEAN /\ rows'[t].locked \in BOOLEAN
    BY SignedRows DEF RowStates
  <2>4. CASE x = s
    <3>1. ~rows'[t].locked
      BY <1>3, <1>4, <2>1, <2>3, <2>4
    <3>. QED BY <1>3, <2>4, <3>1
  <2>5. CASE t = s
    <3>1. ~rows'[x].locked
      BY <1>3, <1>4, <2>1, <2>3, <2>5
    <3>. QED BY <1>3, <2>5, <3>1
  <2>6. CASE x # s /\ t # s
    BY <1>4, <2>1, <2>2, <2>6
  <2>. QED BY <2>4, <2>5, <2>6
<1>9. ASSUME x.step < t.step, rows'[x].decision = "pending" PROVE rows'[t].locked
  <2>1. x # s /\ rows[x].decision = "pending"
    BY <1>3, <1>4, <1>9
  <2>2. rows[t].locked /\ t # s
    BY <1>9, <2>1 DEF LevelsInOrder, Open
  <2>3. ~(Siblings(rows, s) = {} /\ t \in NextLevel(rows, s))
    <3>. SUFFICES ASSUME Siblings(rows, s) = {}, t \in NextLevel(rows, s)
                  PROVE  FALSE
      OBVIOUS
    <3>1. CASE x.step = s.step
      BY <2>1, <3>1 DEF Siblings
    <3>2. CASE x.step < s.step
      BY <2>1, <3>2 DEF LevelsInOrder, Open
    <3>3. CASE s.step < x.step
      <4>1. x \in LaterLocked(rows, s)
        BY <2>1, <3>3 DEF LaterLocked, LevelsInOrder, Open
      <4>. QED BY <1>1, <1>5, <1>9, <4>1
    <3>. QED BY <1>1, <3>1, <3>2, <3>3
  <2>. QED BY <1>4, <2>2, <2>3
<1>. QED BY <1>6, <1>7, <1>8, <1>9

LEMMA LevelsInOrderStep ==
  ASSUME TypeOK, LevelsInOrder, [Next]_vars
  PROVE  LevelsInOrder'
<1>1. CASE UNCHANGED vars
  BY <1>1 DEF LevelsInOrder, vars
<1>. SUFFICES ASSUME NEW u \in Users, Call(u) PROVE LevelsInOrder'
  BY <1>1 DEF Next
<1>2. CASE EditHeader(u)
  BY <1>2 DEF EditHeader, LevelsInOrder, Editable
<1>3. CASE EditLines(u)
  BY <1>3 DEF EditLines, LevelsInOrder, Editable
<1>4. CASE Submit(u)
  <2>1. PICK chain : rows' = FreshRows(chain)
    BY <1>4 DEF Submit
  <2>2. DOMAIN rows' = chain
    BY <2>1 DEF FreshRows
  <2>3. \A s \in chain : /\ rows'[s].decision = "pending"
                         /\ rows'[s].locked = (s \notin FirstLevel(chain))
    BY <2>1 DEF FreshRows, FreshRow
  <2>4. \A s \in chain : s.step \in Nat
    BY <2>2, TypeStep DEF TypeOK, Slots
  <2>5. \A s, t \in chain : s.step = t.step =>
          (s \in FirstLevel(chain) <=> t \in FirstLevel(chain))
    BY DEF FirstLevel
  <2>6. \A s, t \in chain : s.step < t.step => t \notin FirstLevel(chain)
    BY <2>4 DEF FirstLevel
  <2>. SUFFICES ASSUME NEW s \in chain, NEW t \in chain
                PROVE  /\ rows'[s].decision \in {"pending", "approved"}
                       /\ rows'[s].locked => rows'[s].decision = "pending"
                       /\ s.step = t.step => rows'[s].locked = rows'[t].locked
                       /\ s.step < t.step /\ rows'[s].decision = "pending" =>
                            rows'[t].locked
    BY <2>2 DEF LevelsInOrder
  <2>7. s.step = t.step => rows'[s].locked = rows'[t].locked
    BY <2>3, <2>5
  <2>8. s.step < t.step => rows'[t].locked
    BY <2>3, <2>6
  <2>. QED BY <2>3, <2>7, <2>8
<1>5. CASE SubmitRefused(u)
  BY <1>5 DEF SubmitRefused, LevelsInOrder, Editable
<1>6. CASE Withdraw(u)
  BY <1>6 DEF DropChain, Withdraw, LevelsInOrder
<1>7. CASE Reopen(u)
  BY <1>7 DEF DropChain, Reopen, LevelsInOrder
<1>8. CASE Cancel(u)
  BY <1>8 DEF Cancel, LevelsInOrder
<1>9. CASE Approve(u)
  <2>1. PICK s \in Picked(rows, u) : rows' = Signed(s, u)
    BY <1>9 DEF Approve
  <2>. QED BY <1>9, <2>1, PickedOpen, SignedInOrder DEF Approve, Open
<1>10. CASE Reject(u)
  BY <1>10 DEF Reject, LevelsInOrder
<1>11. CASE RequestChanges(u)
  BY <1>11 DEF RequestChanges, LevelsInOrder
<1>12. CASE VerifierAmend(u)
  BY <1>12 DEF VerifierAmend, LevelsInOrder
<1>13. CASE FinanceAmend(u)
  BY <1>13 DEF FinanceAmend, LevelsInOrder, FinanceStage
<1>14. CASE PayHeld(u)
  BY <1>14 DEF PayHeld, LevelsInOrder, MayPay
<1>15. CASE Pay(u)
  BY <1>15 DEF Pay, LevelsInOrder, MayPay
<1>16. CASE Reapprove(u)
  BY <1>16 DEF Reapprove, LevelsInOrder
<1>17. CASE Unpay(u)
  BY <1>17 DEF Unpay, LevelsInOrder
<1>18. CASE FinanceReturn(u)
  BY <1>18 DEF FinanceReturn, LevelsInOrder
<1>. QED
  BY <1>2, <1>3, <1>4, <1>5, <1>6, <1>7, <1>8, <1>9, <1>10, <1>11, <1>12,
     <1>13, <1>14, <1>15, <1>16, <1>17, <1>18 DEF Call

\* The levels of a chain open one after the other (LevelsInOrder).
THEOREM LevelsOpenInOrder == Spec => []LevelsInOrder
<1>1. Init => LevelsInOrder
  BY DEF Init, LevelsInOrder
<1>. QED BY <1>1, LevelsInOrderStep, TypeCorrect, PTL DEF Spec

LEMMA FullySignedStep ==
  ASSUME TypeOK, LevelsInOrder, FullySigned, [Next]_vars
  PROVE  FullySigned'
<1>1. CASE UNCHANGED vars
  BY <1>1 DEF FullySigned, vars
<1>. SUFFICES ASSUME NEW u \in Users, Call(u) PROVE FullySigned'
  BY <1>1 DEF Next
<1>2. CASE EditHeader(u)
  BY <1>2 DEF EditHeader, FullySigned, Editable, FinanceStage
<1>3. CASE EditLines(u)
  BY <1>3 DEF EditLines, FullySigned, Editable, FinanceStage
<1>4. CASE Submit(u)
  BY <1>4 DEF Submit, FullySigned, Editable, FinanceStage
<1>5. CASE SubmitRefused(u)
  BY <1>5 DEF SubmitRefused, FullySigned, Editable, FinanceStage
<1>6. CASE Withdraw(u)
  BY <1>6 DEF DropChain, Withdraw, FullySigned, FinanceStage
<1>7. CASE Reopen(u)
  BY <1>7 DEF DropChain, Reopen, FullySigned, FinanceStage
<1>8. CASE Cancel(u)
  BY <1>8 DEF Cancel, FullySigned, FinanceStage
<1>9. CASE Approve(u)
  <2>1. PICK s \in Picked(rows, u) :
          /\ rows' = Signed(s, u)
          /\ status' = IF Completes(rows, s) THEN Cleared ELSE status
    BY <1>9 DEF Approve
  <2>2. s \in DOMAIN rows /\ Open(rows, s)
    BY PickedOpen DEF Open
  <2>3. DOMAIN rows' = DOMAIN rows /\ rows'[s].decision = "approved"
    BY <2>1, <2>2, SignedRows, DecidedType DEF Decisions
  <2>4. \A t \in DOMAIN rows \ {s} : rows'[t].decision = rows[t].decision
    BY <2>1, <2>2, SignedRows
  <2>5. CASE Completes(rows, s)
    BY <1>9, <2>2, <2>3, <2>4, <2>5, LastRow DEF FullySigned, Approve
  <2>6. CASE ~Completes(rows, s)
    BY <1>9, <2>1, <2>6 DEF Approve, FullySigned, FinanceStage
  <2>. QED BY <2>5, <2>6
<1>10. CASE Reject(u)
  BY <1>10 DEF Reject, FullySigned, FinanceStage
<1>11. CASE RequestChanges(u)
  BY <1>11 DEF RequestChanges, FullySigned, FinanceStage
<1>12. CASE VerifierAmend(u)
  BY <1>12 DEF VerifierAmend, FullySigned, FinanceStage
<1>13. CASE FinanceAmend(u)
  BY <1>13 DEF FinanceAmend, FullySigned, FinanceStage
<1>14. CASE PayHeld(u)
  BY <1>14 DEF PayHeld, FullySigned, FinanceStage, MayPay
<1>15. CASE Pay(u)
  BY <1>15 DEF Pay, FullySigned, FinanceStage, MayPay
<1>16. CASE Reapprove(u)
  BY <1>16 DEF Reapprove, FullySigned, FinanceStage
<1>17. CASE Unpay(u)
  BY <1>17 DEF Unpay, FullySigned, FinanceStage
<1>18. CASE FinanceReturn(u)
  BY <1>18 DEF FinanceReturn, FullySigned, FinanceStage
<1>. QED
  BY <1>2, <1>3, <1>4, <1>5, <1>6, <1>7, <1>8, <1>9, <1>10, <1>11, <1>12,
     <1>13, <1>14, <1>15, <1>16, <1>17, <1>18 DEF Call

\* Finance never sees a request that misses a signature (FullySigned).
THEOREM FinanceGetsSigned == Spec => []FullySigned
<1>1. Init => FullySigned
  BY DEF Init, FullySigned, FinanceStage
<1>. QED BY <1>1, FullySignedStep, TypeCorrect, LevelsOpenInOrder, PTL DEF Spec

LEMMA ChainMovesStep ==
  ASSUME TypeOK, LevelsInOrder, ChainMoves, [Next]_vars
  PROVE  ChainMoves'
<1>1. CASE UNCHANGED vars
  BY <1>1 DEF ChainMoves, vars, Open
<1>. SUFFICES ASSUME NEW u \in Users, Call(u) PROVE ChainMoves'
  BY <1>1 DEF Next
<1>2. CASE EditHeader(u)
  BY <1>2 DEF EditHeader, ChainMoves, Editable
<1>3. CASE EditLines(u)
  BY <1>3 DEF EditLines, ChainMoves, Editable
<1>4. CASE Submit(u)
  <2>1. PICK b, rate, chain :
          chain \in SubmittedChains(b.total * rate, u) /\ rows' = FreshRows(chain)
    BY <1>4 DEF Submit
  <2>2. chain \in SUBSET Slots /\ chain # {}
    BY <2>1, SubmittedSlots
  <2>3. PICK s \in FirstLevel(chain) : s \in chain
    BY <2>2, FirstLevelExists DEF FirstLevel
  <2>. QED BY <2>1, <2>3 DEF FreshRows, FreshRow, Open, ChainMoves
<1>5. CASE SubmitRefused(u)
  BY <1>5 DEF SubmitRefused, ChainMoves, Editable
<1>6. CASE Withdraw(u)
  BY <1>6 DEF DropChain, Withdraw, ChainMoves
<1>7. CASE Reopen(u)
  BY <1>7 DEF DropChain, Reopen, ChainMoves
<1>8. CASE Cancel(u)
  BY <1>8 DEF Cancel, ChainMoves
<1>9. CASE Approve(u)
  <2>. SUFFICES ASSUME status' = "pending_approval"
                PROVE  \E t \in DOMAIN rows' :
                         rows'[t].decision = "pending" /\ ~rows'[t].locked
    BY DEF ChainMoves, Open
  <2>1. PICK s \in Picked(rows, u) :
          /\ rows' = Signed(s, u)
          /\ status' = IF Completes(rows, s) THEN Cleared ELSE status
    BY <1>9 DEF Approve
  <2>2. s \in DOMAIN rows /\ Open(rows, s)
    BY PickedOpen DEF Open
  <2>3. ~Completes(rows, s)
    BY <2>1 DEF Cleared
  <2>4. DOMAIN rows' = DOMAIN rows
    BY <2>1, <2>2, SignedRows
  <2>5. \A t \in DOMAIN rows \ {s} :
          /\ rows'[t].decision = rows[t].decision
          /\ rows'[t].locked =
               (rows[t].locked /\ ~(Siblings(rows, s) = {} /\ t \in NextLevel(rows, s)))
    BY <2>1, <2>2, SignedRows
  <2>6. CASE Siblings(rows, s) # {}
    <3>1. PICK t \in DOMAIN rows \ {s} : t.step = s.step /\ rows[t].decision = "pending"
      BY <2>6 DEF Siblings
    <3>2. ~rows[t].locked
      BY <1>9, <2>2, <3>1 DEF Approve, LevelsInOrder, Open
    <3>. QED BY <2>4, <2>5, <3>1, <3>2
  <2>7. CASE Siblings(rows, s) = {}
    <3>1. LaterLocked(rows, s) \in SUBSET Slots /\ LaterLocked(rows, s) # {}
      BY <2>3, <2>7 DEF Completes, LaterLocked, TypeOK
    <3>2. PICK t : t \in NextLevel(rows, s)
      BY <3>1, FirstLevelExists DEF NextLevel
    <3>3. t \in DOMAIN rows \ {s} /\ rows[t].decision = "pending"
      BY <2>2, <3>2 DEF NextLevel, FirstLevel, LaterLocked, Open
    <3>. QED BY <2>4, <2>5, <2>7, <3>2, <3>3
  <2>. QED BY <2>6, <2>7
<1>10. CASE Reject(u)
  BY <1>10 DEF Reject, ChainMoves
<1>11. CASE RequestChanges(u)
  BY <1>11 DEF RequestChanges, ChainMoves
<1>12. CASE VerifierAmend(u)
  BY <1>12 DEF VerifierAmend, ChainMoves, Open
<1>13. CASE FinanceAmend(u)
  BY <1>13 DEF FinanceAmend, ChainMoves, FinanceStage
<1>14. CASE PayHeld(u)
  BY <1>14 DEF PayHeld, ChainMoves, MayPay
<1>15. CASE Pay(u)
  BY <1>15 DEF Pay, ChainMoves, MayPay
<1>16. CASE Reapprove(u)
  BY <1>16 DEF Reapprove, ChainMoves
<1>17. CASE Unpay(u)
  BY <1>17 DEF Unpay, ChainMoves
<1>18. CASE FinanceReturn(u)
  BY <1>18 DEF FinanceReturn, ChainMoves
<1>. QED
  BY <1>2, <1>3, <1>4, <1>5, <1>6, <1>7, <1>8, <1>9, <1>10, <1>11, <1>12,
     <1>13, <1>14, <1>15, <1>16, <1>17, <1>18 DEF Call

\* A request that waits for approval always has an open row (ChainMoves): the
\* last decision on a level opens the lowest level above it.
THEOREM ChainAlwaysMoves == Spec => []ChainMoves
<1>1. Init => ChainMoves
  BY DEF Init, ChainMoves
<1>. QED BY <1>1, ChainMovesStep, TypeCorrect, LevelsOpenInOrder, PTL DEF Spec

----------------------------------------------------------------------------
(* What was signed is what is paid.                                        *)

LEMMA SealHoldsStep ==
  ASSUME TypeOK, SealHolds, [Next]_vars
  PROVE  SealHolds'
<1>1. CASE UNCHANGED vars
  BY <1>1 DEF SealHolds, Verified, vars
<1>. SUFFICES ASSUME NEW u \in Users, Call(u) PROVE SealHolds'
  BY <1>1 DEF Next
<1>2. CASE EditHeader(u)
  BY <1>2 DEF EditHeader, SealHolds, Verified, Editable, FinanceStage
<1>3. CASE EditLines(u)
  BY <1>3 DEF EditLines, SealHolds, Verified, Editable, FinanceStage
<1>4. CASE Submit(u)
  BY <1>4 DEF Submit, SealHolds, Verified
<1>5. CASE SubmitRefused(u)
  BY <1>5 DEF SubmitRefused, SealHolds, Verified, Editable, FinanceStage
<1>6. CASE Withdraw(u)
  BY <1>6 DEF DropChain, Withdraw, SealHolds, Verified, FinanceStage
<1>7. CASE Reopen(u)
  BY <1>7 DEF DropChain, Reopen, SealHolds, Verified, FinanceStage
<1>8. CASE Cancel(u)
  BY <1>8 DEF Cancel, SealHolds, Verified, FinanceStage
<1>9. CASE Approve(u)
  BY <1>9 DEF Approve, SealHolds, Verified
<1>10. CASE Reject(u)
  BY <1>10 DEF Reject, SealHolds, Verified, FinanceStage
<1>11. CASE RequestChanges(u)
  BY <1>11 DEF RequestChanges, SealHolds, Verified, FinanceStage
<1>12. CASE VerifierAmend(u)
  BY <1>12 DEF VerifierAmend, SealHolds, Verified
<1>13. CASE FinanceAmend(u)
  BY <1>13 DEF FinanceAmend, SealHolds, Verified
<1>14. CASE PayHeld(u)
  BY <1>14 DEF PayHeld, SealHolds, Verified, FinanceStage, MayPay
<1>15. CASE Pay(u)
  <2>1. body' \in Bodies /\ (body' = body \/ body' = [body EXCEPT !.vendor = TRUE])
    BY <1>15, AutosavedType DEF Pay
  <2>2. Verified /\ seal' = seal
    BY <1>15 DEF Pay, MayPay
  <2>3. CASE body' = body
    BY <2>2, <2>3 DEF SealHolds, Verified
  <2>4. CASE body' = [body EXCEPT !.vendor = TRUE]
    <3>1. body'.vendor /\ [body' EXCEPT !.vendor = FALSE] = [body EXCEPT !.vendor = FALSE]
      BY <2>4 DEF TypeOK, Bodies
    <3>2. CASE body = seal
      <4>1. CASE body.vendor
        <5>1. body' = body
          BY <2>4, <4>1 DEF TypeOK, Bodies
        <5>. QED BY <2>2, <3>2, <5>1 DEF SealHolds, Verified
      <4>2. CASE ~body.vendor
        <5>1. [body EXCEPT !.vendor = FALSE] = body
          BY <4>2 DEF TypeOK, Bodies
        <5>. QED BY <2>2, <3>1, <3>2, <5>1 DEF SealHolds, Verified
      <4>. QED BY <4>1, <4>2
    <3>3. CASE body.vendor /\ [body EXCEPT !.vendor = FALSE] = seal
      BY <2>2, <3>1, <3>3 DEF SealHolds, Verified
    <3>. QED BY <2>2, <3>2, <3>3 DEF Verified
  <2>. QED BY <2>1, <2>3, <2>4
<1>16. CASE Reapprove(u)
  BY <1>16 DEF Reapprove, SealHolds, Verified, FinanceStage
<1>17. CASE Unpay(u)
  BY <1>17 DEF Unpay, SealHolds, Verified, FinanceStage
<1>18. CASE FinanceReturn(u)
  BY <1>18 DEF FinanceReturn, SealHolds, Verified, FinanceStage
<1>. QED
  BY <1>2, <1>3, <1>4, <1>5, <1>6, <1>7, <1>8, <1>9, <1>10, <1>11, <1>12,
     <1>13, <1>14, <1>15, <1>16, <1>17, <1>18 DEF Call

\* The seal stands for the stored body from submit to payment (SealHolds).
THEOREM SealAlwaysHolds == Spec => []SealHolds
<1>1. Init => SealHolds
  BY DEF Init, SealHolds, FinanceStage
<1>. QED BY <1>1, SealHoldsStep, TypeCorrect, PTL DEF Spec

LEMMA SignaturesStandStep ==
  ASSUME TypeOK, SignaturesStand, [Next]_vars
  PROVE  SignaturesStand'
<1>1. CASE UNCHANGED vars
  BY <1>1 DEF SignaturesStand, Seen, vars
<1>. SUFFICES ASSUME NEW u \in Users, Call(u) PROVE SignaturesStand'
  BY <1>1 DEF Next
<1>2. CASE EditHeader(u)
  BY <1>2 DEF EditHeader, SignaturesStand, Seen, Editable, FinanceStage
<1>3. CASE EditLines(u)
  BY <1>3 DEF EditLines, SignaturesStand, Seen, Editable, FinanceStage
<1>4. CASE Submit(u)
  <2>1. PICK b, rate, chain :
          chain \in SubmittedChains(b.total * rate, u) /\ rows' = FreshRows(chain)
    BY <1>4 DEF Submit
  <2>. QED BY <2>1 DEF FreshRows, FreshRow, SignaturesStand
<1>5. CASE SubmitRefused(u)
  BY <1>5 DEF SubmitRefused, SignaturesStand, Seen, Editable, FinanceStage
<1>6. CASE Withdraw(u)
  BY <1>6 DEF Withdraw, DropChain, NoRows, SignaturesStand
<1>7. CASE Reopen(u)
  BY <1>7 DEF Reopen, DropChain, NoRows, SignaturesStand
<1>8. CASE Cancel(u)
  BY <1>8 DEF Cancel, SignaturesStand, Seen, FinanceStage
<1>9. CASE Approve(u)
  <2>1. PICK s \in Picked(rows, u) : rows' = Signed(s, u)
    BY <1>9 DEF Approve
  <2>2. body' = body /\ status = "pending_approval"
    BY <1>9 DEF Approve
  <2>3. s \in DOMAIN rows
    BY PickedOpen
  <2>4. DOMAIN rows' = DOMAIN rows /\ rows'[s].seen = Seen(body)
    BY <2>1, <2>3, SignedRows, DecidedType DEF Decisions
  <2>5. \A t \in DOMAIN rows \ {s} :
          rows'[t].decision = rows[t].decision /\ rows'[t].seen = rows[t].seen
    BY <2>1, <2>3, SignedRows
  <2>6. \A t \in DOMAIN rows' : rows'[t].decision = "approved" => rows'[t].seen = Seen(body)
    BY <2>2, <2>4, <2>5 DEF SignaturesStand
  <2>7. Seen(body)' = Seen(body) /\ [Seen(body) EXCEPT !.memo = body.memo] = Seen(body)
    BY <2>2 DEF Seen
  <2>. QED BY <2>2, <2>6, <2>7 DEF SignaturesStand
<1>10. CASE Reject(u)
  <2>1. PICK s \in Picked(rows, u) :
          rows' = [rows EXCEPT ![s] = Decided(s, u, "rejected")]
    BY <1>10 DEF Reject
  <2>2. rows'[s].decision = "rejected"
    BY <2>1, PickedOpen, DecidedType DEF Decisions
  <2>. QED BY <1>10, <2>1, <2>2 DEF Reject, SignaturesStand, FinanceStage
<1>11. CASE RequestChanges(u)
  <2>1. PICK s \in Picked(rows, u) :
          rows' = [rows EXCEPT ![s] = Decided(s, u, "changes_requested")]
    BY <1>11 DEF RequestChanges
  <2>2. rows'[s].decision = "changes_requested"
    BY <2>1, PickedOpen, DecidedType DEF Decisions
  <2>. QED BY <1>11, <2>1, <2>2 DEF RequestChanges, SignaturesStand, FinanceStage
<1>12. CASE VerifierAmend(u)
  <2>1. \A s \in DOMAIN rows : rows[s].decision = "pending"
    BY <1>12 DEF VerifierAmend, MayVerifierAmend, Open
  <2>. QED BY <1>12, <2>1 DEF VerifierAmend, SignaturesStand
<1>13. CASE FinanceAmend(u)
  <2>1. PICK m : body' = [body EXCEPT !.memo = m]
    BY <1>13 DEF FinanceAmend
  <2>2. /\ body'.memo = m /\ body'.total = body.total
        /\ body'.payee = body.payee /\ body'.purpose = body.purpose
    BY <2>1 DEF TypeOK, Bodies
  <2>3. Seen(body)' = [Seen(body) EXCEPT !.memo = m]
    BY <2>2 DEF Seen
  <2>. SUFFICES ASSUME NEW s \in DOMAIN rows, rows[s].decision = "approved"
                PROVE  [rows[s].seen EXCEPT !.memo = m] = [Seen(body) EXCEPT !.memo = m]
    BY <1>13, <2>2, <2>3 DEF FinanceAmend, SignaturesStand, FinanceStage
  <2>4. [rows[s].seen EXCEPT !.memo = body.memo] = Seen(body)
    BY <1>13 DEF FinanceAmend, SignaturesStand
  <2>5. PICK b \in Bodies : rows[s].seen = Seen(b)
    BY DEF TypeOK, RowStates
  <2>. QED BY <2>4, <2>5 DEF Seen
<1>14. CASE PayHeld(u)
  BY <1>14 DEF PayHeld, SignaturesStand, Seen, FinanceStage, MayPay
<1>15. CASE Pay(u)
  <2>1. /\ body'.total = body.total /\ body'.payee = body.payee
        /\ body'.purpose = body.purpose /\ body'.memo = body.memo
    BY <1>15, AutosavedType DEF Pay
  <2>2. Seen(body)' = Seen(body)
    BY <2>1 DEF Seen
  <2>. QED BY <1>15, <2>1, <2>2 DEF Pay, MayPay, SignaturesStand, FinanceStage
<1>16. CASE Reapprove(u)
  BY <1>16 DEF Reapprove, SignaturesStand, Seen, FinanceStage
<1>17. CASE Unpay(u)
  BY <1>17 DEF Unpay, SignaturesStand, Seen, FinanceStage
<1>18. CASE FinanceReturn(u)
  BY <1>18 DEF FinanceReturn, SignaturesStand, Seen, FinanceStage
<1>. QED
  BY <1>2, <1>3, <1>4, <1>5, <1>6, <1>7, <1>8, <1>9, <1>10, <1>11, <1>12,
     <1>13, <1>14, <1>15, <1>16, <1>17, <1>18 DEF Call

\* Nobody signs for something that changes afterwards (SignaturesStand).
THEOREM SignaturesAlwaysStand == Spec => []SignaturesStand
<1>1. Init => SignaturesStand
  BY DEF Init, SignaturesStand, NoRows
<1>. QED BY <1>1, SignaturesStandStep, TypeCorrect, PTL DEF Spec

----------------------------------------------------------------------------
(* Limits and overages.                                                    *)

LEMMA PaymentFactsStep ==
  ASSUME TypeOK, PaymentFacts, [Next]_vars
  PROVE  PaymentFacts'
<1>1. CASE UNCHANGED vars
  BY <1>1 DEF PaymentFacts, vars
<1>. SUFFICES ASSUME NEW u \in Users, Call(u) PROVE PaymentFacts'
  BY <1>1 DEF Next
<1>2. CASE EditHeader(u)
  BY <1>2 DEF EditHeader, PaymentFacts, Editable
<1>3. CASE EditLines(u)
  BY <1>3 DEF EditLines, PaymentFacts, Editable
<1>4. CASE Submit(u)
  <2>1. PICK b \in Autosaved, rate \in Rates : body' = b /\ totalMdl' = b.total * rate
    BY <1>4 DEF Submit
  <2>. QED BY <1>4, <2>1 DEF Submit, PaymentFacts
<1>5. CASE SubmitRefused(u)
  BY <1>5 DEF SubmitRefused, PaymentFacts, Editable
<1>6. CASE Withdraw(u)
  BY <1>6 DEF DropChain, Withdraw, PaymentFacts
<1>7. CASE Reopen(u)
  BY <1>7 DEF DropChain, Reopen, PaymentFacts
<1>8. CASE Cancel(u)
  BY <1>8 DEF Cancel, PaymentFacts
<1>9. CASE Approve(u)
  BY <1>9 DEF Approve, Cleared, PaymentFacts
<1>10. CASE Reject(u)
  BY <1>10 DEF Reject, PaymentFacts
<1>11. CASE RequestChanges(u)
  BY <1>11 DEF RequestChanges, PaymentFacts
<1>12. CASE VerifierAmend(u)
  <2>1. body'.total = body.total
    BY <1>12 DEF VerifierAmend, TypeOK, Bodies
  <2>. QED BY <1>12, <2>1 DEF VerifierAmend, PaymentFacts
<1>13. CASE FinanceAmend(u)
  <2>1. body'.purpose = body.purpose
    BY <1>13 DEF FinanceAmend, TypeOK, Bodies
  <2>. QED BY <1>13, <2>1 DEF FinanceAmend, PaymentFacts, FinanceStage
<1>14. CASE PayHeld(u)
  BY <1>14, AmountAssumption DEF PayHeld, MayPay, PaymentFacts
<1>15. CASE Pay(u)
  BY <1>15, AutosavedType DEF Pay, MayPay, PaymentFacts
<1>16. CASE Reapprove(u)
  BY <1>16 DEF Reapprove, PaymentFacts
<1>17. CASE Unpay(u)
  BY <1>17 DEF Unpay, PaymentFacts
<1>18. CASE FinanceReturn(u)
  BY <1>18 DEF FinanceReturn, PaymentFacts
<1>. QED
  BY <1>2, <1>3, <1>4, <1>5, <1>6, <1>7, <1>8, <1>9, <1>10, <1>11, <1>12,
     <1>13, <1>14, <1>15, <1>16, <1>17, <1>18 DEF Call

\* What the payment side takes for granted (PaymentFacts).
THEOREM PaymentFactsHold == Spec => []PaymentFacts
<1>1. Init => PaymentFacts
  BY DEF Init, PaymentFacts
<1>. QED BY <1>1, PaymentFactsStep, TypeCorrect, PTL DEF Spec

\* applyTenRule rounds the tenth down, so it holds whatever is an overage.
LEMMA TenRule ==
  ASSUME TypeOK, NEW amount \in Nat, IsOverage(amount)
  PROVE  NeedsReapproval(amount)
<1>1. body.total \in Nat
  BY AmountAssumption DEF TypeOK, Bodies
<1>. QED BY <1>1 DEF IsOverage, NeedsReapproval, Overage

LEMMA OverageReapprovedStep ==
  ASSUME TypeOK, PaymentFacts, OverageReapproved, [Next]_vars
  PROVE  OverageReapproved'
<1>1. CASE UNCHANGED vars
  BY <1>1 DEF OverageReapproved, IsOverage, vars
<1>. SUFFICES ASSUME NEW u \in Users, Call(u) PROVE OverageReapproved'
  BY <1>1 DEF Next
<1>2. CASE EditHeader(u)
  BY <1>2 DEF EditHeader, OverageReapproved, IsOverage, Editable
<1>3. CASE EditLines(u)
  BY <1>3 DEF EditLines, OverageReapproved, IsOverage, Editable
<1>4. CASE Submit(u)
  BY <1>4 DEF Submit, OverageReapproved, IsOverage, Editable
<1>5. CASE SubmitRefused(u)
  BY <1>5 DEF SubmitRefused, OverageReapproved, IsOverage, Editable
<1>6. CASE Withdraw(u)
  BY <1>6 DEF DropChain, Withdraw, OverageReapproved, IsOverage
<1>7. CASE Reopen(u)
  BY <1>7 DEF DropChain, Reopen, OverageReapproved, IsOverage
<1>8. CASE Cancel(u)
  BY <1>8 DEF Cancel, OverageReapproved, IsOverage
<1>9. CASE Approve(u)
  BY <1>9 DEF Approve, Cleared, OverageReapproved
<1>10. CASE Reject(u)
  BY <1>10 DEF Reject, OverageReapproved, IsOverage
<1>11. CASE RequestChanges(u)
  BY <1>11 DEF RequestChanges, OverageReapproved, IsOverage
<1>12. CASE VerifierAmend(u)
  BY <1>12 DEF VerifierAmend, OverageReapproved, IsOverage
<1>13. CASE FinanceAmend(u)
  <2>1. body'.total = body.total
    BY <1>13 DEF FinanceAmend, TypeOK, Bodies
  <2>. QED BY <1>13, <2>1 DEF FinanceAmend, OverageReapproved, IsOverage
<1>14. CASE PayHeld(u)
  BY <1>14 DEF PayHeld, OverageReapproved, IsOverage
<1>15. CASE Pay(u)
  <2>1. PICK amount \in Actuals : (~NeedsReapproval(amount) \/ overage) /\ actual' = amount
    BY <1>15 DEF Pay
  <2>2. body'.total = body.total /\ totalMdl' = totalMdl
    BY <1>15, AutosavedType DEF Pay
  <2>3. IsOverage(actual)' => IsOverage(amount)
    BY <2>1, <2>2 DEF IsOverage
  <2>4. IsOverage(amount) => granted # {}
    BY <2>1, TenRule, AmountAssumption DEF PaymentFacts
  <2>. QED BY <1>15, <2>3, <2>4 DEF Pay, OverageReapproved
<1>16. CASE Reapprove(u)
  BY <1>16 DEF Reapprove, OverageReapproved, IsOverage
<1>17. CASE Unpay(u)
  BY <1>17 DEF Unpay, OverageReapproved, IsOverage
<1>18. CASE FinanceReturn(u)
  BY <1>18 DEF FinanceReturn, OverageReapproved, IsOverage
<1>. QED
  BY <1>2, <1>3, <1>4, <1>5, <1>6, <1>7, <1>8, <1>9, <1>10, <1>11, <1>12,
     <1>13, <1>14, <1>15, <1>16, <1>17, <1>18 DEF Call

\* An overage is paid only after somebody re-approved one (OverageReapproved).
THEOREM OverageAlwaysReapproved == Spec => []OverageReapproved
<1>1. Init => OverageReapproved
  BY DEF Init, OverageReapproved
<1>. QED
  BY <1>1, OverageReapprovedStep, TypeCorrect, PaymentFactsHold, PTL DEF Spec

\* No step but an approval completes a chain, and an approval stays within
\* the limits at the total frozen at submit.
LEMMA LimitStep ==
  ASSUME TypeOK, PaymentFacts, [Next]_vars,
         status = "pending_approval", status' \in FinanceStage
  PROVE  \E s \in DOMAIN rows, rate \in Rates :
           /\ rows[s].decision = "pending" /\ rows'[s].decision = "approved"
           /\ WithinLimit(rows'[s].by, s, body.total * rate)
           /\ totalMdl = body.total * rate
<1>1. PICK u \in Users : Approve(u)
  BY DEF Next, Call, vars, FinanceStage, Editable, MayPay, EditHeader, EditLines,
     Submit, SubmitRefused, Withdraw, Reopen, DropChain, Cancel, Reject,
     RequestChanges, VerifierAmend, FinanceAmend, PayHeld, Pay, Reapprove, Unpay,
     FinanceReturn
<1>2. PICK s \in Picked(rows, u) :
        /\ Completes(rows, s) => WithinLimit(u, s, totalMdl)
        /\ rows' = Signed(s, u)
        /\ status' = IF Completes(rows, s) THEN Cleared ELSE status
  BY <1>1 DEF Approve
<1>3. WithinLimit(u, s, totalMdl)
  BY <1>2 DEF FinanceStage
<1>4. PICK rate \in Rates : totalMdl = body.total * rate
  BY DEF PaymentFacts
<1>5. s \in DOMAIN rows /\ rows[s].decision = "pending"
  BY PickedOpen
<1>6. rows'[s].decision = "approved" /\ rows'[s].by = u
  BY <1>2, <1>5, SignedRows, DecidedType DEF Decisions
<1>. QED BY <1>3, <1>4, <1>5, <1>6

\* The signature that completes a chain is within the signer's limits
\* (CompletedWithinLimit).
THEOREM LimitsHonoured == Spec => CompletedWithinLimit
<1>1. TypeOK /\ PaymentFacts /\ [Next]_vars =>
        [status = "pending_approval" /\ status' \in FinanceStage =>
           \E s \in DOMAIN rows, rate \in Rates :
             /\ rows[s].decision = "pending" /\ rows'[s].decision = "approved"
             /\ WithinLimit(rows'[s].by, s, body.total * rate)
             /\ totalMdl = body.total * rate]_vars
  BY LimitStep
<1>. QED
  BY <1>1, TypeCorrect, PaymentFactsHold, PTL DEF Spec, CompletedWithinLimit

=============================================================================
