-------------------------- MODULE ParConcurrentProofs -----------------------
(***************************************************************************)
(* What a request keeps while the handlers of several calls interleave and *)
(* some of them die half-way, for every workspace, matrix and verifier and *)
(* every number of calls.                                                  *)
(***************************************************************************)
EXTENDS ParConcurrent, ParChainProofs, TLAPS

----------------------------------------------------------------------------
(* Types.                                                                  *)

Pcs == {"idle", "chain", "row", "level", "delete", "insert", "status", "look", "heal"}
Stops == {"reject", "request_changes"}
Deciding == {"approve"} \union Stops
Takings == {"withdraw", "reopen"}
Finance == {"pay", "unpay", "finance_return"}

Call == [pc : Pcs, kind : Kinds \union {"none"}, user : Users \union {NoUser},
         slot : PlacedSlots \union {NoSlot}, level : Nat,
         to : Statuses \union {"none"}, todo : SUBSET PlacedSlots]

\* What each kind of call may be about to do, and the status it will write.
Sound(q) ==
  /\ q.kind = "none" <=> q.pc = "idle"
  /\ q.pc \in {"chain", "row"} => q.kind \in Deciding
  /\ q.pc = "row" => q.slot \in PlacedSlots
  /\ q.pc = "level" => q.kind = "approve"
  /\ q.pc = "delete" => q.kind \in {"submit"} \union Takings
  /\ q.pc = "insert" => q.kind = "submit" /\ q.todo # {}
  /\ q.kind = "submit" /\ q.pc = "status" => q.todo = {}
  /\ q.pc \in {"look", "heal"} <=> q.kind = "inbox"
  /\ q.pc = "heal" => q.slot \in PlacedSlots /\ q.slot.step = 1
  /\ q.kind = "approve" => q.to = "in_finance" \/ (q.to = "none" /\ q.pc \in {"row", "level"})
  /\ q.kind = "submit" => q.to = "pending_approval"
  /\ q.kind \in Takings => q.to = "draft"
  /\ q.kind \in Stops => q.to \in {"rejected", "changes_requested"}
  /\ q.kind = "cancel" => q.to = "cancelled"
  /\ q.kind = "pay" => q.to = "paid"
  /\ q.kind = "unpay" => q.to = "in_finance"
  /\ q.kind = "finance_return" => q.to = "changes_requested"

\* A submit starts at the first level of the chain it writes.
Starts(q) ==
  q.kind = "submit" =>
    /\ q.pc = "delete" => q.todo # {}
    /\ \E chain \in SubmittedChains(Amount, Requestor) :
         \E s \in FirstLevel(chain) : q.level = s.step
    /\ \A s \in q.todo : s.step >= q.level

RowsOK(rw) == DOMAIN rw \subseteq PlacedSlots /\ rw \in [DOMAIN rw -> RowStates]

TypeInv ==
  /\ status \in Statuses
  /\ RowsOK(rows)
  /\ calls \in [Calls -> Call]
  /\ \A c \in Calls : Sound(calls[c]) /\ Starts(calls[c])
  /\ rounds \in 0 .. MaxRounds
  /\ routed \subseteq PlacedSlots

LEMMA IdleFields ==
  /\ Idle.pc = "idle" /\ Idle.kind = "none" /\ Idle.user = NoUser /\ Idle.slot = NoSlot
  /\ Idle.level = 0 /\ Idle.to = "none" /\ Idle.todo = {}
  /\ Idle \in Call /\ Sound(Idle) /\ Starts(Idle)
<1>1. /\ Idle.pc = "idle" /\ Idle.kind = "none" /\ Idle.user = NoUser /\ Idle.slot = NoSlot
      /\ Idle.level = 0 /\ Idle.to = "none" /\ Idle.todo = {}
  BY DEF Idle
<1>2. Idle \in Call
  BY DEF Idle, Call, Pcs
<1> QED BY <1>1, <1>2 DEF Sound, Starts, Stops, Deciding, Takings

LEMMA CallOf ==
  ASSUME TypeInv, NEW c \in Calls
  PROVE  calls[c] \in Call /\ Sound(calls[c]) /\ Starts(calls[c])
  BY DEF TypeInv

\* One call goes on, and nothing else is touched but the rows and the status.
LEMMA CallStep ==
  ASSUME TypeInv, NEW c \in Calls, NEW r \in Call, Sound(r), Starts(r),
         calls' = [calls EXCEPT ![c] = r],
         status' \in Statuses, RowsOK(rows'), rounds' \in 0 .. MaxRounds,
         routed' \in {routed, calls[c].todo}
  PROVE  TypeInv'
<1>1. calls' \in [Calls -> Call]
  BY DEF TypeInv
<1>2. \A d \in Calls : Sound(calls'[d]) /\ Starts(calls'[d])
  BY DEF TypeInv
<1>3. routed' \subseteq PlacedSlots
  BY DEF TypeInv, Call
<1> QED BY <1>1, <1>2, <1>3 DEF TypeInv

LEMMA ArriveType ==
  ASSUME TypeInv, NEW c \in Calls, NEW u \in Users, NEW k, NEW p \in Pcs,
         NEW t \in Statuses \union {"none"},
         Arrive(c, u, k, p, t),
         \/ k \in Deciding /\ p = "chain"
         \/ k \in Takings /\ p = "delete"
         \/ k \in Finance \union {"cancel"} /\ p = "status"
         \/ k = "inbox" /\ p = "look",
         k = "approve" => t = "in_finance",
         k \in Takings => t = "draft",
         k \in Stops => t \in {"rejected", "changes_requested"},
         k = "cancel" => t = "cancelled",
         k = "pay" => t = "paid",
         k = "unpay" => t = "in_finance",
         k = "finance_return" => t = "changes_requested"
  PROVE  TypeInv'
<1> PICK r : r = [Idle EXCEPT !.kind = k, !.user = u, !.pc = p, !.to = t]
  OBVIOUS
<1>1. /\ k \in Kinds /\ UNCHANGED <<status, rows, rounds, routed>>
      /\ calls' = [calls EXCEPT ![c] = r]
  BY DEF Arrive, MayCome
<1>2. r \in Call /\ r.kind = k /\ r.pc = p /\ r.to = t
  BY <1>1, IdleFields DEF Call
<1>3. Sound(r) /\ Starts(r)
  BY <1>2 DEF Sound, Starts, Stops, Deciding, Takings, Finance
<1> QED BY <1>1, <1>2, <1>3, CallStep DEF TypeInv, RowsOK

LEMMA ArriveSubmitType ==
  ASSUME TypeInv, NEW c \in Calls, ArriveSubmit(c)
  PROVE  TypeInv'
<1>1. PICK chain, first :
        /\ chain \in SubmittedChains(Amount, Requestor)
        /\ first = CHOOSE n \in {s.step : s \in FirstLevel(chain)} : TRUE
        /\ calls' = [calls EXCEPT ![c] = [Idle EXCEPT
             !.kind = "submit", !.user = Requestor, !.pc = "delete",
             !.to = "pending_approval", !.level = first,
             !.todo = {Placed(s, rounds + 1) : s \in chain}]]
  BY DEF ArriveSubmit
<1> chain \in SubmittedChains(Amount, Requestor)
  BY <1>1
<1>2. chain \subseteq Slots /\ chain # {} /\ Requestor \in Users
  BY SubmittedSlots, PeopleAssumption, CallAssumption
<1>3. PICK f \in FirstLevel(chain) : first = f.step
  <2>1. {s.step : s \in FirstLevel(chain)} # {}
    BY <1>2, FirstLevelExists
  <2> QED BY <1>1, <2>1
<1>4. f \in chain /\ \A s \in chain : first <= s.step /\ s.step \in Nat
  BY <1>2, <1>3 DEF FirstLevel, Slots
<1> PICK n, todo : n = rounds + 1 /\ todo = {Placed(s, n) : s \in chain}
  OBVIOUS
<1>5. /\ n \in 1 .. MaxRounds /\ rounds' = n /\ UNCHANGED <<status, rows, routed>>
      /\ "submit" \in Kinds
  BY CallAssumption DEF ArriveSubmit, MayCome, TypeInv
<1>6. \A s \in todo : s \in PlacedSlots /\ s.step >= first
  <2>1. ASSUME NEW s \in chain, NEW p, p = Placed(s, n)
        PROVE  p \in PlacedSlots /\ p.step >= first
    <3>1. p.step = s.step
      BY <2>1 DEF Placed
    <3>2. p \in PlacedSlots
      BY <1>2, <1>5, <2>1 DEF Placed, PlacedSlots, Slots
    <3> QED BY <1>2, <1>3, <1>4, <3>1, <3>2 DEF Slots
  <2> QED BY <2>1
<1> PICK r : r = [Idle EXCEPT !.kind = "submit", !.user = Requestor, !.pc = "delete",
                              !.to = "pending_approval", !.level = first, !.todo = todo]
  OBVIOUS
<1>7. calls' = [calls EXCEPT ![c] = r]
  BY <1>1
<1>8. /\ r \in Call /\ r.kind = "submit" /\ r.pc = "delete" /\ r.to = "pending_approval"
      /\ r.level = first /\ r.todo = todo
  <2>1. first \in Nat /\ todo \subseteq PlacedSlots
    BY <1>3, <1>4, <1>6
  <2> QED BY <1>2, <1>5, <2>1, IdleFields DEF Call, Pcs, Statuses
<1>9. Sound(r)
  BY <1>8 DEF Sound, Stops, Deciding, Takings
<1>10. Starts(r)
  BY <1>2, <1>3, <1>6, <1>8 DEF Starts
<1>11. status' \in Statuses /\ RowsOK(rows') /\ rounds' \in 0 .. MaxRounds /\ routed' = routed
  <2>1. rows' = rows /\ RowsOK(rows) /\ status' = status /\ status \in Statuses
    BY <1>5 DEF TypeInv
  <2>2. rounds' \in 0 .. MaxRounds
    BY <1>5, CallAssumption
  <2> QED BY <1>5, <2>1, <2>2
<1> QED BY <1>7, <1>8, <1>9, <1>10, <1>11, CallStep

\* What a call reads of the chain.
LEMMA PickedOpen ==
  ASSUME NEW u, NEW s \in Picked(rows, u)
  PROVE  s \in DOMAIN rows /\ rows[s].decision = "pending" /\ ~rows[s].locked
  BY DEF Picked, Decidable, Open

\* The level an approval opens is the lowest one that is locked.
LEMMA OpenedFacts ==
  ASSUME TypeInv, NEW s \in DOMAIN rows
  PROVE  /\ OpenedLevel(s) \in Nat
         /\ OpenedLevel(s) # 0 =>
              /\ Siblings(rows, s) = {} /\ s.step < OpenedLevel(s)
              /\ \A t \in LaterLocked(rows, s) : OpenedLevel(s) <= t.step
         /\ Siblings(rows, s) = {} /\ LaterLocked(rows, s) # {} =>
              \E t \in LaterLocked(rows, s) : OpenedLevel(s) = t.step
<1> PICK later, n : later = LaterLocked(rows, s) /\ n = OpenedLevel(s)
  OBVIOUS
<1>1. \A t \in DOMAIN rows : t.step \in Nat
  BY DEF TypeInv, RowsOK, PlacedSlots
<1>2. \A t \in later : t \in DOMAIN rows /\ s.step < t.step
  BY <1>1 DEF LaterLocked
<1>3. CASE Siblings(rows, s) # {} \/ later = {}
  BY <1>3 DEF OpenedLevel
<1>4. CASE Siblings(rows, s) = {} /\ later # {}
  <2>1. n = CHOOSE m \in {t.step : t \in FirstLevel(later)} : TRUE
    BY <1>4 DEF OpenedLevel, NextLevel
  <2>2. FirstLevel(later) # {}
    <3> DEFINE steps == {t.step : t \in later}
    <3>1. steps \in SUBSET Nat /\ steps # {}
      BY <1>1, <1>2, <1>4
    <3>2. PICK m \in steps : \A k \in steps : m <= k
      BY <3>1, LeastNatural
    <3> QED BY <3>2 DEF FirstLevel
  <2>3. PICK t \in FirstLevel(later) : n = t.step
    BY <2>1, <2>2
  <2>4. t \in later /\ \A x \in later : n <= x.step
    BY <2>3 DEF FirstLevel
  <2> QED BY <1>1, <1>2, <1>4, <2>3, <2>4
<1> QED BY <1>3, <1>4

\* A step that touches no row and puts call c where `r` says.
LEMMA MoveType ==
  ASSUME TypeInv, NEW c \in Calls, NEW r \in Call, Sound(r), Starts(r),
         calls' = [calls EXCEPT ![c] = r], UNCHANGED <<status, rows, rounds, routed>>
  PROVE  TypeInv'
<1>1. status' \in Statuses /\ RowsOK(rows') /\ rounds' \in 0 .. MaxRounds
  <2>1. status \in Statuses /\ RowsOK(rows) /\ rounds \in 0 .. MaxRounds
    BY DEF TypeInv
  <2> QED BY <2>1
<1> QED BY <1>1, CallStep

LEMMA ReadChainType ==
  ASSUME TypeInv, NEW c \in Calls, ReadChain(c)
  PROVE  TypeInv'
<1> PICK q : q = calls[c]
  OBVIOUS
<1>0. q \in Call /\ Sound(q) /\ Starts(q) /\ q.pc = "chain"
  BY CallOf DEF ReadChain
<1>1. UNCHANGED <<status, rows, rounds, routed>>
  BY DEF ReadChain
<1>2. CASE calls' = [calls EXCEPT ![c] = Idle]
  BY <1>1, <1>2, IdleFields, MoveType
<1>3. ASSUME NEW s \in Picked(rows, q.user),
             calls' = [calls EXCEPT ![c] = [q EXCEPT
               !.pc = "row", !.slot = s,
               !.level = IF q.kind = "approve" THEN OpenedLevel(s) ELSE 0,
               !.to = IF q.kind = "approve" /\ ~Completes(rows, s) THEN "none" ELSE @]]
      PROVE  TypeInv'
  <2> PICK n : n = IF q.kind = "approve" THEN OpenedLevel(s) ELSE 0
    OBVIOUS
  <2> PICK t : t = IF q.kind = "approve" /\ ~Completes(rows, s) THEN "none" ELSE q.to
    OBVIOUS
  <2> PICK r : r = [q EXCEPT !.pc = "row", !.slot = s, !.level = n, !.to = t]
    OBVIOUS
  <2>1. s \in DOMAIN rows /\ s \in PlacedSlots
    BY PickedOpen DEF TypeInv, RowsOK
  <2>2. n \in Nat
    BY <2>1, OpenedFacts
  <2>3. t \in {q.to, "none"} /\ (t # q.to => q.kind = "approve")
    OBVIOUS
  <2>4. /\ r \in Call /\ r.pc = "row" /\ r.kind = q.kind /\ r.slot = s /\ r.to = t
    BY <1>0, <2>1, <2>2, <2>3 DEF Call, Pcs
  <2>5. Sound(r) /\ Starts(r)
    BY <1>0, <2>1, <2>3, <2>4 DEF Sound, Starts, Stops, Deciding, Takings
  <2>6. calls' = [calls EXCEPT ![c] = r]
    BY <1>3
  <2> QED BY <1>1, <2>4, <2>5, <2>6, MoveType
<1> QED BY <1>2, <1>3 DEF ReadChain, Answer

LEMMA DieType ==
  ASSUME TypeInv, NEW c \in Calls, Die(c)
  PROVE  TypeInv'
  BY IdleFields, MoveType DEF Die, Answer

LEMMA WriteStatusType ==
  ASSUME TypeInv, NEW c \in Calls, WriteStatus(c)
  PROVE  TypeInv'
<1> PICK q : q = calls[c]
  OBVIOUS
<1>1. q \in Call /\ Sound(q) /\ q.pc = "status" /\ status' = q.to
  BY CallOf DEF WriteStatus
<1>2. q.kind \in Kinds
  BY <1>1 DEF Sound, Call
<1>3. q.kind \in AllKinds /\ (q.kind = "approve" => q.to = "in_finance")
  BY <1>1, <1>2, CallAssumption DEF Sound
<1>4. status' \in Statuses
  BY <1>1, <1>3 DEF Sound, AllKinds, Stops, Takings, Statuses
<1>5. /\ rows' = rows /\ rounds' = rounds /\ routed' = routed
      /\ calls' = [calls EXCEPT ![c] = Idle]
  BY DEF WriteStatus, Answer
<1>6. RowsOK(rows') /\ rounds' \in 0 .. MaxRounds
  <2>1. RowsOK(rows) /\ rounds \in 0 .. MaxRounds
    BY DEF TypeInv
  <2> QED BY <1>5, <2>1
<1> QED BY <1>4, <1>5, <1>6, IdleFields, CallStep

\* A call whose step is done, with the fields it read.
LEMMA GoneTo ==
  ASSUME TypeInv, NEW c \in Calls, NEW p \in Pcs, Goto(c, p)
  PROVE  \E r \in Call :
           /\ calls' = [calls EXCEPT ![c] = r]
           /\ r = [calls[c] EXCEPT !.pc = p]
           /\ r.pc = p /\ r.kind = calls[c].kind /\ r.slot = calls[c].slot
           /\ r.level = calls[c].level /\ r.to = calls[c].to /\ r.todo = calls[c].todo
<1> PICK q : q = calls[c]
  OBVIOUS
<1>1. q \in Call
  BY CallOf
<1> PICK r : r = [q EXCEPT !.pc = p]
  OBVIOUS
<1>2. r \in Call /\ r.pc = p /\ r.kind = q.kind /\ r.slot = q.slot
      /\ r.level = q.level /\ r.to = q.to /\ r.todo = q.todo
  BY <1>1 DEF Call
<1>3. calls' = [calls EXCEPT ![c] = r]
  BY DEF Goto
<1> QED BY <1>2, <1>3

LEMMA WriteRowType ==
  ASSUME TypeInv, NEW c \in Calls, WriteRow(c)
  PROVE  TypeInv'
<1> PICK q : q = calls[c]
  OBVIOUS
<1>1. q \in Call /\ Sound(q) /\ Starts(q) /\ q.pc = "row"
  BY CallOf DEF WriteRow
<1> PICK d : d = CASE q.kind = "approve" -> "approved"
                   [] q.kind = "reject"  -> "rejected"
                   [] OTHER              -> "changes_requested"
  OBVIOUS
<1>2. d \in {"approved", "rejected", "changes_requested"}
  OBVIOUS
<1>3. /\ rows' = IF q.slot \in DOMAIN rows
                 THEN [rows EXCEPT ![q.slot].decision = d] ELSE rows
      /\ rounds' = rounds /\ status' = status /\ routed' = routed
  BY DEF WriteRow
<1>4. RowsOK(rows)
  BY DEF TypeInv
<1>5. RowsOK(rows')
  BY <1>2, <1>3, <1>4 DEF RowsOK, RowStates
<1>6. status' \in Statuses /\ rounds' \in 0 .. MaxRounds
  <2>1. status \in Statuses /\ rounds \in 0 .. MaxRounds
    BY DEF TypeInv
  <2> QED BY <1>3, <2>1
<1>7. CASE calls' = [calls EXCEPT ![c] = Idle]
  BY <1>3, <1>5, <1>6, <1>7, IdleFields, CallStep
<1>8. ASSUME NEW p \in {"status", "level"}, Goto(c, p), p = "status" => q.to # "none",
             p = "level" => q.to = "none"
      PROVE  TypeInv'
  <2>1. PICK r \in Call :
          /\ calls' = [calls EXCEPT ![c] = r]
          /\ r.pc = p /\ r.kind = q.kind /\ r.slot = q.slot
          /\ r.level = q.level /\ r.to = q.to /\ r.todo = q.todo
    BY <1>8, GoneTo DEF Pcs
  <2>2. Sound(r)
    BY <1>1, <1>8, <2>1 DEF Sound, Stops, Deciding, Takings
  <2>3. Starts(r)
    BY <1>1, <2>1 DEF Starts
  <2> QED BY <1>3, <1>5, <1>6, <2>1, <2>2, <2>3, CallStep
<1> QED BY <1>7, <1>8 DEF WriteRow, Answer

LEMMA WriteLevelType ==
  ASSUME TypeInv, NEW c \in Calls, WriteLevel(c)
  PROVE  TypeInv'
<1> PICK n : n = calls[c].level
  OBVIOUS
<1>1. /\ rows' = [s \in DOMAIN rows |->
           IF s.step = n /\ rows[s].decision = "pending"
           THEN [rows[s] EXCEPT !.locked = FALSE] ELSE rows[s]]
      /\ rounds' = rounds /\ status' = status /\ routed' = routed
      /\ calls' = [calls EXCEPT ![c] = Idle]
  BY DEF WriteLevel, Answer
<1>2. RowsOK(rows) /\ status \in Statuses /\ rounds \in 0 .. MaxRounds
  BY DEF TypeInv
<1>3. RowsOK(rows')
  BY <1>1, <1>2 DEF RowsOK, RowStates
<1>4. status' \in Statuses /\ rounds' \in 0 .. MaxRounds
  BY <1>1, <1>2
<1> QED BY <1>1, <1>3, <1>4, IdleFields, CallStep

LEMMA DeleteRowsType ==
  ASSUME TypeInv, NEW c \in Calls, DeleteRows(c)
  PROVE  TypeInv'
<1> PICK q : q = calls[c]
  OBVIOUS
<1>1. q \in Call /\ Sound(q) /\ Starts(q) /\ q.pc = "delete"
  BY CallOf DEF DeleteRows
<1> PICK p : p = IF q.kind = "submit" THEN "insert" ELSE "status"
  OBVIOUS
<1>2. PICK r \in Call :
        /\ calls' = [calls EXCEPT ![c] = r]
        /\ r.pc = p /\ r.kind = q.kind /\ r.slot = q.slot
        /\ r.level = q.level /\ r.to = q.to /\ r.todo = q.todo
  <2>1. p \in Pcs /\ Goto(c, p)
    BY DEF DeleteRows, Pcs
  <2> QED BY <2>1, GoneTo
<1>3. Sound(r) /\ Starts(r)
  BY <1>1, <1>2 DEF Sound, Starts, Stops, Deciding, Takings
<1>4. /\ rows' = NoRows /\ rounds' = rounds /\ status' = status
      /\ routed' \in {routed, q.todo}
  BY DEF DeleteRows
<1>5. RowsOK(rows')
  BY <1>4 DEF RowsOK, NoRows
<1>6. status' \in Statuses /\ rounds' \in 0 .. MaxRounds
  <2>1. status \in Statuses /\ rounds \in 0 .. MaxRounds
    BY DEF TypeInv
  <2> QED BY <1>4, <2>1
<1> QED BY <1>2, <1>3, <1>4, <1>5, <1>6, CallStep

LEMMA InsertRowType ==
  ASSUME TypeInv, NEW c \in Calls, InsertRow(c)
  PROVE  TypeInv'
<1> PICK q : q = calls[c]
  OBVIOUS
<1>1. q \in Call /\ Sound(q) /\ Starts(q) /\ q.pc = "insert" /\ q.kind = "submit"
  <2>1. q \in Call /\ Sound(q) /\ Starts(q) /\ q.pc = "insert"
    BY CallOf DEF InsertRow
  <2> QED BY <2>1 DEF Sound
<1>2. PICK s, left, p :
        /\ s \in q.todo
        /\ left = q.todo \ {s} /\ p = IF left = {} THEN "status" ELSE "insert"
        /\ rows' = [t \in DOMAIN rows \union {s} |->
             IF t = s THEN [decision |-> "pending", locked |-> s.step > q.level]
             ELSE rows[t]]
        /\ calls' = [calls EXCEPT ![c].todo = left, ![c].pc = p]
  <2>1. PICK s \in FirstLevel(q.todo) :
          /\ rows' = [t \in DOMAIN rows \union {s} |->
               IF t = s THEN [decision |-> "pending", locked |-> s.step > q.level]
               ELSE rows[t]]
          /\ calls' = [calls EXCEPT ![c].todo = q.todo \ {s},
                                    ![c].pc = IF q.todo \ {s} = {} THEN "status" ELSE "insert"]
    BY DEF InsertRow
  <2>2. s \in q.todo
    BY DEF FirstLevel
  <2> QED BY <2>1, <2>2
<1> s \in q.todo
  BY <1>2
<1> PICK r : r = [[q EXCEPT !.todo = left] EXCEPT !.pc = p]
  OBVIOUS
<1>3. calls' = [calls EXCEPT ![c] = r]
  BY <1>2 DEF TypeInv
<1>4. /\ r \in Call /\ r.kind = "submit" /\ r.pc = p /\ r.to = q.to /\ r.slot = q.slot
      /\ r.level = q.level /\ r.todo = left
  BY <1>1, <1>2 DEF Call, Pcs
<1>5. Sound(r) /\ Starts(r)
  <2>1. p \in {"status", "insert"} /\ left \subseteq q.todo /\ (p = "status" <=> left = {})
    BY <1>2
  <2> QED BY <1>1, <1>4, <2>1 DEF Sound, Starts, Stops, Deciding, Takings
<1>6. RowsOK(rows) /\ status \in Statuses /\ rounds \in 0 .. MaxRounds
  BY DEF TypeInv
<1>7. s \in PlacedSlots
  BY <1>1, <1>2 DEF Call
<1>8. RowsOK(rows')
  BY <1>2, <1>6, <1>7 DEF RowsOK, RowStates
<1>9. status' \in Statuses /\ rounds' \in 0 .. MaxRounds /\ routed' = routed
  BY <1>6 DEF InsertRow
<1> QED BY <1>3, <1>4, <1>5, <1>8, <1>9, CallStep

LEMMA BackfillSlotFields ==
  ASSUME NEW n \in 1 .. MaxRounds
  PROVE  Placed(BackfillSlot, n) \in PlacedSlots /\ Placed(BackfillSlot, n).step = 1
<1> PICK s : s = BackfillSlot
  OBVIOUS
<1>1. s.key = "backfill" /\ s.step = 1 /\ s.user = NoUser /\ s.role = NoRole
  BY DEF BackfillSlot, Slot
<1> QED BY <1>1 DEF Placed, PlacedSlots

LEMMA ReadStepsType ==
  ASSUME TypeInv, NEW c \in Calls, ReadSteps(c)
  PROVE  TypeInv'
<1> PICK q : q = calls[c]
  OBVIOUS
<1>0. q \in Call /\ Sound(q) /\ Starts(q) /\ q.pc = "look" /\ q.kind = "inbox"
  <2>1. q \in Call /\ Sound(q) /\ Starts(q) /\ q.pc = "look"
    BY CallOf DEF ReadSteps
  <2> QED BY <2>1 DEF Sound
<1>1. rows' = rows /\ status' = status /\ routed' = routed
  BY DEF ReadSteps
<1>2. RowsOK(rows') /\ status' \in Statuses
  <2>1. RowsOK(rows) /\ status \in Statuses
    BY DEF TypeInv
  <2> QED BY <1>1, <2>1
<1>3. CASE calls' = [calls EXCEPT ![c] = Idle] /\ rounds' = rounds
  <2>1. rounds' \in 0 .. MaxRounds
    BY <1>3 DEF TypeInv
  <2> QED BY <1>1, <1>2, <1>3, <2>1, IdleFields, CallStep
<1>4. CASE /\ rounds < MaxRounds /\ rounds' = rounds + 1
           /\ calls' = [calls EXCEPT
                ![c].pc = "heal", ![c].slot = Placed(BackfillSlot, rounds + 1)]
  <2> PICK n, p : n = rounds + 1 /\ p = Placed(BackfillSlot, n)
    OBVIOUS
  <2>1. n \in 1 .. MaxRounds /\ rounds' \in 0 .. MaxRounds
    BY <1>4, CallAssumption DEF TypeInv
  <2>2. p \in PlacedSlots /\ p.step = 1
    BY <2>1, BackfillSlotFields
  <2> PICK r : r = [[q EXCEPT !.pc = "heal"] EXCEPT !.slot = p]
    OBVIOUS
  <2>3. calls' = [calls EXCEPT ![c] = r]
    BY <1>4 DEF TypeInv
  <2>4. r \in Call /\ r.pc = "heal" /\ r.kind = "inbox" /\ r.slot = p
    BY <1>0, <2>2 DEF Call, Pcs
  <2>5. Sound(r) /\ Starts(r)
    BY <2>2, <2>4 DEF Sound, Starts, Stops, Deciding, Takings
  <2> QED BY <1>1, <1>2, <2>1, <2>3, <2>4, <2>5, CallStep
<1> QED BY <1>3, <1>4 DEF ReadSteps, Answer

\* What Backfill writes.
Healed(rw, s) ==
  [t \in DOMAIN rw \union {s} |->
     IF t = s THEN [decision |-> "pending", locked |-> FALSE] ELSE rw[t]]

LEMMA BackfillType ==
  ASSUME TypeInv, NEW c \in Calls, Backfill(c)
  PROVE  TypeInv'
<1> PICK q, s : q = calls[c] /\ s = q.slot
  OBVIOUS
<1>1. s \in PlacedSlots
  BY CallOf DEF Backfill, Sound
<1>2. /\ rows' = Healed(rows, s) /\ calls' = [calls EXCEPT ![c] = Idle]
      /\ status' = status /\ rounds' = rounds /\ routed' = routed
  BY DEF Backfill, Answer, Healed
<1>3. RowsOK(rows) /\ status \in Statuses /\ rounds \in 0 .. MaxRounds
  BY DEF TypeInv
<1>4. RowsOK(rows')
  BY <1>1, <1>2, <1>3 DEF RowsOK, RowStates, Healed
<1>5. status' \in Statuses /\ rounds' \in 0 .. MaxRounds
  BY <1>2, <1>3
<1> QED BY <1>2, <1>4, <1>5, IdleFields, CallStep

LEMMA ComeType ==
  ASSUME TypeInv, NEW c \in Calls, Come(c)
  PROVE  TypeInv'
<1>1. CASE ArriveSubmit(c)
  BY <1>1, ArriveSubmitType
<1>2. CASE ArriveReopen(c)
  BY <1>2, ArriveType, PeopleAssumption DEF ArriveReopen, Pcs, Statuses, Stops, Deciding,
       Takings, Finance
<1>3. ASSUME NEW u \in Users, ArriveApprove(c, u)
      PROVE  TypeInv'
  BY <1>3, ArriveType DEF ArriveApprove, Pcs, Statuses, Stops, Deciding, Takings, Finance
<1>4. ASSUME NEW u \in Users, ArriveStop(c, u)
      PROVE  TypeInv'
  BY <1>4, ArriveType DEF ArriveStop, Pcs, Statuses, Stops, Deciding, Takings, Finance
<1>5. ASSUME NEW u \in Users, ArriveWithdraw(c, u)
      PROVE  TypeInv'
  BY <1>5, ArriveType DEF ArriveWithdraw, Pcs, Statuses, Stops, Deciding, Takings, Finance
<1>6. ASSUME NEW u \in Users, ArriveCancel(c, u)
      PROVE  TypeInv'
  BY <1>6, ArriveType DEF ArriveCancel, Pcs, Statuses, Stops, Deciding, Takings, Finance
<1>7. ASSUME NEW u \in Users, ArriveFinance(c, u)
      PROVE  TypeInv'
  BY <1>7, ArriveType DEF ArriveFinance, Pcs, Statuses, Stops, Deciding, Takings, Finance
<1>8. ASSUME NEW u \in Users, ArriveInbox(c, u)
      PROVE  TypeInv'
  BY <1>8, ArriveType DEF ArriveInbox, Pcs, Stops, Deciding, Takings, Finance
<1> QED BY <1>1, <1>2, <1>3, <1>4, <1>5, <1>6, <1>7, <1>8 DEF Come

LEMMA TypeNext == TypeInv /\ [Next]_vars => TypeInv'
<1> SUFFICES ASSUME TypeInv, [Next]_vars
             PROVE  TypeInv'
  OBVIOUS
<1>1. CASE UNCHANGED vars
  <2>1. status' = status /\ rows' = rows /\ calls' = calls /\ rounds' = rounds
        /\ routed' = routed
    BY <1>1 DEF vars
  <2> QED BY <2>1 DEF TypeInv
<1>2. ASSUME NEW c \in Calls, Come(c) \/ Proceed(c) \/ Die(c)
      PROVE  TypeInv'
  BY <1>2, ComeType, ReadChainType, WriteRowType, WriteLevelType, DeleteRowsType,
       InsertRowType, WriteStatusType, ReadStepsType, BackfillType, DieType DEF Proceed
<1> QED BY <1>1, <1>2 DEF Next

LEMMA TypeInit == Init => TypeInv
<1> SUFFICES ASSUME Init PROVE TypeInv
  OBVIOUS
<1>1. RowsOK(rows)
  BY DEF Init, NoRows, RowsOK
<1>2. status \in Statuses /\ rounds \in 0 .. MaxRounds /\ routed \subseteq PlacedSlots
  BY CallAssumption DEF Init, Statuses
<1>3. calls \in [Calls -> Call] /\ \A c \in Calls : Sound(calls[c]) /\ Starts(calls[c])
  <2>1. calls = [c \in Calls |-> Idle] /\ Idle \in Call /\ Sound(Idle) /\ Starts(Idle)
    BY IdleFields DEF Init
  <2> QED BY <2>1
<1> QED BY <1>1, <1>2, <1>3 DEF TypeInv

LEMMA TypeImplied == TypeInv => TypeOK
<1> SUFFICES ASSUME TypeInv PROVE TypeOK
  OBVIOUS
<1>1. \A c \in Calls : calls[c] \in Call
  BY DEF TypeInv
<1>2. status \in Statuses /\ DOMAIN rows \subseteq PlacedSlots
      /\ rows \in [DOMAIN rows -> RowStates] /\ rounds \in 0 .. MaxRounds
      /\ routed \subseteq PlacedSlots
  BY DEF TypeInv, RowsOK
<1> QED BY <1>1, <1>2 DEF TypeOK, Call, Pcs

\* However the calls interleave and whichever of them dies half-way, the
\* request keeps a status it can have, its rows are rows a submit may insert,
\* and every call in flight is about to do what its handler does.
THEOREM TypeCorrect == Spec => []TypeOK
<1>1. Spec => []TypeInv
  BY TypeInit, TypeNext, PTL DEF Spec
<1> QED BY <1>1, TypeImplied, PTL

----------------------------------------------------------------------------
(* The inductive invariant behind LevelsInOrder and FullySigned.           *)

\* The conditions.  The code enforces none of them: they are the schedules
\* under which the two properties hold, and beyond each of them the code breaks
\* one of the two (README, section 5).

\* Which calls may be in flight together: approvals with each other, refusals
\* with each other, submits with each other, what takes a chain away, and what
\* finance does; an inbox with any of these but a submit, a cancel with all.
Apart ==
  \A g \in Overlap :
    \/ g \subseteq {"approve", "inbox", "cancel"}
    \/ g \subseteq Stops \union {"inbox", "cancel"}
    \/ g \subseteq {"submit", "cancel"}
    \/ g \subseteq Takings \union {"inbox", "cancel"}
    \/ g \subseteq Finance \union {"inbox", "cancel"}

\* A refusal that has written its row goes on to write the status.
StopsFinish == MayDie \intersect Stops = {}

\* A withdrawal that has deleted the chain goes on to write the status, and so
\* does a submit, unless no other call is in flight with it.
Lone(kind) == \A g \in Overlap : kind \notin g
ChainsFinish == "withdraw" \notin MayDie /\ ("submit" \notin MayDie \/ Lone("submit"))

\* Two submits in flight together open the same level.
SubmitsAgree ==
  \/ \A g \in Overlap : "submit" \notin g
  \/ \A a, b \in SubmittedChains(Amount, Requestor) :
       \A s \in FirstLevel(a), t \in FirstLevel(b) : s.step = t.step

Together(k, l) == \E g \in Overlap : {k, l} \subseteq g

\* Levels open from the bottom, all rows of a level at once, and a row that
\* is still locked is undecided.
Ordered(rw) ==
  \A s, t \in DOMAIN rw :
    /\ s.step = t.step => rw[s].locked = rw[t].locked
    /\ s.step < t.step /\ rw[s].decision = "pending" => rw[t].locked
    /\ rw[s].locked => rw[s].decision = "pending"

Unstopped(rw) == \A s \in DOMAIN rw : rw[s].decision \in {"pending", "approved"}
SignedAll(rw) == DOMAIN rw # {} /\ \A s \in DOMAIN rw : rw[s].decision = "approved"

\* What submits that open level n insert.
Untouched(rw, n) ==
  \A s \in DOMAIN rw :
    s.step >= n /\ rw[s].decision = "pending" /\ rw[s].locked = (s.step > n)

\* What a call read still holds of the rows as they are now.
Aimed(q, rw) == q.pc = "row" => q.slot \in DOMAIN rw /\ ~rw[q.slot].locked
LastSigns(q, rw) ==
  q.pc = "row" /\ q.kind = "approve" /\ q.to = "in_finance" =>
    \A t \in DOMAIN rw \ {q.slot} : rw[t].decision = "approved"
WillOpen(q, rw) ==
  q.pc = "row" /\ q.kind = "approve" /\ q.level # 0 =>
    /\ q.slot.step < q.level
    /\ \A t \in DOMAIN rw \ {q.slot} : t.step < q.level => rw[t].decision # "pending"
Opens(q, rw) ==
  q.pc = "level" =>
    \A t \in DOMAIN rw : t.step < q.level => rw[t].decision # "pending"
Delivers(q, rw) ==
  q.kind \in Finance \/ (q.kind = "approve" /\ q.pc = "status") => SignedAll(rw)
Inserts(q, rw) ==
  q.kind = "submit" /\ q.pc \in {"insert", "status"} => Untouched(rw, q.level)

\* A backfill that found no row finds at most the rows of other backfills.
Heals(q, rw) == q.pc = "heal" => Untouched(rw, 1)

Holds(q, rw) ==
  /\ Aimed(q, rw) /\ LastSigns(q, rw) /\ WillOpen(q, rw) /\ Opens(q, rw)
  /\ Delivers(q, rw) /\ Inserts(q, rw) /\ Heals(q, rw)

\* Finance has the request only while nobody changes or refuses its chain or
\* is about to refill it; nobody waits for approvals while it is reopened, or
\* while a submit that overlaps with nothing is under way.
Keeps(q, st) ==
  /\ q.kind \in {"submit"} \union Takings \union Stops \/ q.pc = "heal" =>
       st \notin {"in_finance", "paid"}
  /\ q.kind = "reopen" \/ (q.kind = "submit" /\ Lone("submit")) =>
       st # "pending_approval"

PairInv ==
  \A c, d \in Calls :
    c # d /\ calls[c].pc # "idle" /\ calls[d].pc # "idle" =>
      Together(calls[c].kind, calls[d].kind)
EachInv == \A c \in Calls : Holds(calls[c], rows) /\ Keeps(calls[c], status)
Approving == \E c \in Calls : calls[c].kind = "approve"
Refusing == \E c \in Calls : calls[c].kind \in Stops /\ calls[c].pc = "status"
ChainInv ==
  /\ status = "pending_approval" \/ Approving =>
       Ordered(rows) /\ (Unstopped(rows) \/ Refusing)
  /\ status \in {"in_finance", "paid"} => SignedAll(rows)

\* The chain that was routed is there, or a submit is about to insert what is
\* missing, or a withdrawal is under way.
Stands(rw) == routed # {} /\ routed \subseteq DOMAIN rw
Adds(q) == q.kind = "submit" /\ q.pc \in {"insert", "status"}
Coming == UNION {calls[c].todo : c \in {d \in Calls : Adds(calls[d])}}
Routed == routed # {} /\ routed \subseteq DOMAIN rows \union Coming
Waiting ==
  \/ status = "pending_approval"
  \/ \E c \in Calls : calls[c].kind \in Deciding \/ Adds(calls[c])
Withdrawing == \E c \in Calls : calls[c].kind = "withdraw"
InFinance ==
  status \in {"in_finance", "paid"} \/ \E c \in Calls : calls[c].kind \in Finance

\* A backfill that found no row runs beside a withdrawal that takes the
\* request out of the inbox.
Healing == \E c \in Calls : calls[c].pc = "heal"
HealInv ==
  Healing =>
    /\ status = "pending_approval" => Withdrawing
    /\ \A c \in Calls : calls[c].kind \in {"none", "inbox", "cancel"} \union Takings

RouteInv ==
  /\ Waiting => Withdrawing \/ Routed
  /\ InFinance => Stands(rows)
  /\ HealInv

ConcInv == TypeInv /\ PairInv /\ EachInv /\ ChainInv
FullInv == ConcInv /\ RouteInv

----------------------------------------------------------------------------
(* What each kind of write does to the rows.                               *)

LEMMA UntouchedOrdered ==
  ASSUME NEW rw, RowsOK(rw), NEW n \in Nat, Untouched(rw, n)
  PROVE  Ordered(rw) /\ Unstopped(rw)
<1>1. \A s \in DOMAIN rw : s.step \in Nat
  BY DEF RowsOK, PlacedSlots
<1>2. ASSUME NEW s \in DOMAIN rw, NEW t \in DOMAIN rw
      PROVE  /\ s.step = t.step => rw[s].locked = rw[t].locked
             /\ s.step < t.step /\ rw[s].decision = "pending" => rw[t].locked
             /\ rw[s].locked => rw[s].decision = "pending"
  <2>1. /\ s.step >= n /\ rw[s].decision = "pending" /\ rw[s].locked = (s.step > n)
        /\ t.step >= n /\ rw[t].decision = "pending" /\ rw[t].locked = (t.step > n)
    BY DEF Untouched
  <2>2. s.step = t.step => (s.step > n) = (t.step > n)
    OBVIOUS
  <2>3. s.step < t.step => t.step > n
    BY <1>1, <2>1
  <2> QED BY <2>1, <2>2, <2>3
<1>3. Unstopped(rw)
  BY DEF Untouched, Unstopped
<1> QED BY <1>2, <1>3 DEF Ordered

\* A decision on an open row.
LEMMA RowDecided ==
  ASSUME NEW rw, RowsOK(rw), NEW s \in DOMAIN rw, ~rw[s].locked,
         NEW d \in {"approved", "rejected", "changes_requested"},
         NEW new, new = [rw EXCEPT ![s].decision = d]
  PROVE  /\ DOMAIN new = DOMAIN rw
         /\ new[s].decision = d
         /\ \A t \in DOMAIN rw \ {s} : new[t].decision = rw[t].decision
         /\ \A t \in DOMAIN rw : new[t].locked = rw[t].locked
<1>1. rw[s] \in RowStates /\ rw = [t \in DOMAIN rw |-> rw[t]]
  BY DEF RowsOK
<1>2. DOMAIN new = DOMAIN rw /\ new[s] = [rw[s] EXCEPT !.decision = d]
      /\ \A t \in DOMAIN rw \ {s} : new[t] = rw[t]
  BY <1>1
<1>3. new[s].decision = d /\ new[s].locked = rw[s].locked
  BY <1>1, <1>2 DEF RowStates
<1> QED BY <1>2, <1>3

LEMMA DecidedOrdered ==
  ASSUME NEW rw, RowsOK(rw), NEW s \in DOMAIN rw, ~rw[s].locked,
         NEW d \in {"approved", "rejected", "changes_requested"},
         NEW new, new = [rw EXCEPT ![s].decision = d], Ordered(rw)
  PROVE  Ordered(new)
<1>1. /\ DOMAIN new = DOMAIN rw /\ new[s].decision # "pending"
      /\ \A t \in DOMAIN rw \ {s} : new[t].decision = rw[t].decision
      /\ \A t \in DOMAIN rw : new[t].locked = rw[t].locked
  BY RowDecided
<1> QED BY <1>1 DEF Ordered

\* A refusal leaves what other refusals and cancels rest on.
LEMMA RefusedHolds ==
  ASSUME NEW rw, RowsOK(rw), NEW s \in DOMAIN rw, ~rw[s].locked,
         NEW d \in {"rejected", "changes_requested"},
         NEW new, new = [rw EXCEPT ![s].decision = d],
         NEW q, Sound(q), q.kind \in Stops \union {"cancel", "none", "inbox"},
         q.pc # "heal", Holds(q, rw)
  PROVE  Holds(q, new)
<1>1. DOMAIN new = DOMAIN rw /\ \A t \in DOMAIN rw : new[t].locked = rw[t].locked
  BY RowDecided
<1>2. Aimed(q, new)
  BY <1>1 DEF Holds, Aimed
<1>3. q.kind \notin {"approve", "submit"} \union Finance
  BY DEF Stops, Finance
<1>4. LastSigns(q, new) /\ WillOpen(q, new) /\ Delivers(q, new) /\ Inserts(q, new)
  BY <1>3 DEF LastSigns, WillOpen, Delivers, Inserts
<1>5. Opens(q, new) /\ Heals(q, new)
  BY <1>3 DEF Opens, Heals, Sound
<1> QED BY <1>2, <1>4, <1>5 DEF Holds

\* A signature, and the opening of a level no lower row holds back: no row
\* is lost or locked, no decision goes back.
Signs(rw, new) ==
  /\ DOMAIN new = DOMAIN rw
  /\ \A t \in DOMAIN rw :
       /\ rw[t].locked = FALSE => new[t].locked = FALSE
       /\ new[t].decision \in {rw[t].decision, "approved"}

LEMMA SignsKeeps ==
  ASSUME NEW rw, NEW new, Signs(rw, new)
  PROVE  /\ Unstopped(rw) => Unstopped(new)
         /\ SignedAll(rw) => SignedAll(new)
         /\ \A q : /\ q.kind # "submit" /\ q.pc # "heal"
                  /\ (rw \in [DOMAIN rw -> RowStates]) /\ Holds(q, rw)
                     => Holds(q, new)
<1>1. Unstopped(rw) => Unstopped(new)
  BY DEF Signs, Unstopped
<1>2. SignedAll(rw) => SignedAll(new)
  BY DEF Signs, SignedAll
<1>3. ASSUME NEW q, q.kind # "submit", q.pc # "heal", rw \in [DOMAIN rw -> RowStates],
             Holds(q, rw)
      PROVE  Holds(q, new)
  <2>0. DOMAIN new = DOMAIN rw
    BY DEF Signs
  <2>1. \A t \in DOMAIN rw : ~rw[t].locked => ~new[t].locked
    BY <1>3 DEF Signs, RowStates
  <2>2. \A t \in DOMAIN rw :
          /\ rw[t].decision # "pending" => new[t].decision # "pending"
          /\ rw[t].decision = "approved" => new[t].decision = "approved"
    BY DEF Signs
  <2>3. Aimed(q, new)
    BY <1>3, <2>0, <2>1 DEF Holds, Aimed
  <2>4. LastSigns(q, new)
    BY <1>3, <2>0, <2>2 DEF Holds, LastSigns
  <2>5. WillOpen(q, new)
    BY <1>3, <2>0, <2>2 DEF Holds, WillOpen
  <2>6. Opens(q, new)
    BY <1>3, <2>0, <2>2 DEF Holds, Opens
  <2>7. Delivers(q, new) /\ Inserts(q, new) /\ Heals(q, new)
    BY <1>2, <1>3 DEF Holds, Delivers, Inserts, Heals
  <2> QED BY <2>3, <2>4, <2>5, <2>6, <2>7 DEF Holds
<1> QED BY <1>1, <1>2, <1>3

LEMMA ApprovedSigns ==
  ASSUME NEW rw, RowsOK(rw), NEW s \in DOMAIN rw, ~rw[s].locked,
         NEW new, new = [rw EXCEPT ![s].decision = "approved"]
  PROVE  Signs(rw, new)
<1>1. /\ DOMAIN new = DOMAIN rw /\ new[s].decision = "approved"
      /\ \A t \in DOMAIN rw \ {s} : new[t].decision = rw[t].decision
      /\ \A t \in DOMAIN rw : new[t].locked = rw[t].locked
  BY RowDecided
<1> QED BY <1>1 DEF Signs

\* What WriteLevel writes.
Level(rw, n) ==
  [s \in DOMAIN rw |->
     IF s.step = n /\ rw[s].decision = "pending"
     THEN [rw[s] EXCEPT !.locked = FALSE] ELSE rw[s]]

LEMMA LevelFacts ==
  ASSUME NEW rw, RowsOK(rw), NEW n, NEW new, new = Level(rw, n)
  PROVE  /\ DOMAIN new = DOMAIN rw
         /\ \A t \in DOMAIN rw : new[t].decision = rw[t].decision
         /\ \A t \in DOMAIN rw :
              new[t].locked = (rw[t].locked /\ ~(t.step = n /\ rw[t].decision = "pending"))
<1>1. DOMAIN new = DOMAIN rw
  BY DEF Level
<1>2. ASSUME NEW t \in DOMAIN rw
      PROVE  /\ new[t].decision = rw[t].decision
             /\ new[t].locked = (rw[t].locked /\ ~(t.step = n /\ rw[t].decision = "pending"))
  <2>1. rw[t] \in RowStates
    BY DEF RowsOK
  <2>2. CASE t.step = n /\ rw[t].decision = "pending"
    BY <2>1, <2>2 DEF Level, RowStates
  <2>3. CASE ~(t.step = n /\ rw[t].decision = "pending")
    <3>1. new[t] = rw[t]
      BY <2>3 DEF Level
    <3>2. rw[t].locked \in BOOLEAN
      BY <2>1 DEF RowStates
    <3> QED BY <2>3, <3>1, <3>2
  <2> QED BY <2>2, <2>3
<1> QED BY <1>1, <1>2

LEMMA LevelSigns ==
  ASSUME NEW rw, RowsOK(rw), NEW n, NEW new, new = Level(rw, n)
  PROVE  Signs(rw, new)
<1>1. DOMAIN new = DOMAIN rw
  BY LevelFacts
<1>2. ASSUME NEW t \in DOMAIN rw
      PROVE  /\ rw[t].locked = FALSE => new[t].locked = FALSE
             /\ new[t].decision = rw[t].decision
  <2>1. new[t].locked = (rw[t].locked /\ ~(t.step = n /\ rw[t].decision = "pending"))
    BY LevelFacts
  <2>2. new[t].decision = rw[t].decision
    BY LevelFacts
  <2> QED BY <2>1, <2>2
<1> QED BY <1>1, <1>2 DEF Signs

LEMMA LevelOrdered ==
  ASSUME NEW rw, RowsOK(rw), NEW n \in Nat, NEW new, new = Level(rw, n), Ordered(rw),
         \A t \in DOMAIN rw : t.step < n => rw[t].decision # "pending"
  PROVE  Ordered(new)
<1>0. DOMAIN new = DOMAIN rw
      /\ \A t \in DOMAIN rw : t.step \in Nat /\ rw[t].locked \in BOOLEAN
  BY LevelFacts DEF RowsOK, PlacedSlots, RowStates
<1>1. \A t \in DOMAIN rw :
        /\ new[t].decision = rw[t].decision
        /\ new[t].locked = (rw[t].locked /\ ~(t.step = n /\ rw[t].decision = "pending"))
        /\ rw[t].locked => rw[t].decision = "pending"
  BY LevelFacts DEF Ordered
<1>2. \A t \in DOMAIN rw : new[t].locked = (rw[t].locked /\ t.step # n)
  BY <1>0, <1>1
<1>3. ASSUME NEW s \in DOMAIN rw, NEW t \in DOMAIN rw
      PROVE  /\ s.step = t.step => new[s].locked = new[t].locked
             /\ s.step < t.step /\ new[s].decision = "pending" => new[t].locked
             /\ new[s].locked => new[s].decision = "pending"
  <2>1. /\ s.step = t.step => rw[s].locked = rw[t].locked
        /\ s.step < t.step /\ rw[s].decision = "pending" => rw[t].locked
    BY DEF Ordered
  <2>2. s.step < n => rw[s].decision # "pending"
    OBVIOUS
  <2> QED BY <1>0, <1>1, <1>2, <2>1, <2>2
<1> QED BY <1>0, <1>3 DEF Ordered

\* Deleting, and inserting one more row.
LEMMA DeletedHolds ==
  ASSUME NEW q, Sound(q), q.kind \in {"submit", "cancel", "none", "inbox"} \union Takings
  PROVE  Holds(q, NoRows)
<1>1. DOMAIN NoRows = {}
  BY DEF NoRows
<1>2. q.kind \notin Deciding /\ q.kind \notin Finance
  BY DEF Deciding, Stops, Takings, Finance
<1>3. q.pc \notin {"row", "level"} /\ q.kind # "approve"
  BY <1>2 DEF Sound, Deciding
<1> QED BY <1>1, <1>2, <1>3 DEF Holds, Aimed, LastSigns, WillOpen, Opens, Delivers,
             Inserts, Heals, Untouched

\* What InsertRow writes.
Inserted(rw, s, n) ==
  [t \in DOMAIN rw \union {s} |->
     IF t = s THEN [decision |-> "pending", locked |-> s.step > n] ELSE rw[t]]

LEMMA InsertedUntouched ==
  ASSUME NEW rw, NEW n \in Nat, NEW s, s.step \in Nat, s.step >= n, Untouched(rw, n)
  PROVE  Untouched(Inserted(rw, s, n), n)
<1> PICK new : new = Inserted(rw, s, n)
  OBVIOUS
<1>1. DOMAIN new = DOMAIN rw \union {s}
  BY DEF Inserted
<1>2. new[s].decision = "pending" /\ new[s].locked = (s.step > n)
  BY DEF Inserted
<1>3. \A t \in DOMAIN rw \ {s} : new[t] = rw[t]
  BY DEF Inserted
<1> QED BY <1>1, <1>2, <1>3 DEF Untouched

LEMMA InsertedHolds ==
  ASSUME NEW rw, NEW n \in Nat, NEW s, s.step \in Nat, s.step >= n, Untouched(rw, n),
         NEW q, Sound(q), q.kind \in {"submit", "cancel", "none"},
         q.kind = "submit" => q.level = n
  PROVE  Holds(q, Inserted(rw, s, n))
<1>1. Untouched(Inserted(rw, s, n), n)
  BY InsertedUntouched
<1>2. q.kind \notin Deciding /\ q.kind \notin Finance
  BY DEF Deciding, Stops, Finance
<1>3. q.pc \notin {"row", "level", "heal"} /\ q.kind # "approve"
  BY <1>2 DEF Sound, Deciding
<1> QED BY <1>1, <1>2, <1>3 DEF Holds, Aimed, LastSigns, WillOpen, Opens, Delivers, Inserts,
             Heals

\* The row of a backfill beside those of other backfills.
LEMMA HealedHolds ==
  ASSUME NEW rw, NEW s, s.step = 1, Untouched(rw, 1), NEW new, new = Healed(rw, s),
         NEW q, Sound(q), q.kind \in {"none", "inbox", "cancel"} \union Takings
  PROVE  Untouched(new, 1) /\ Holds(q, new)
<1>1. DOMAIN new = DOMAIN rw \union {s}
  BY DEF Healed
<1>2. new[s].decision = "pending" /\ new[s].locked = FALSE
  BY DEF Healed
<1>3. \A t \in DOMAIN rw \ {s} : new[t] = rw[t]
  BY DEF Healed
<1>4. s.step >= 1 /\ (s.step > 1) = FALSE
  OBVIOUS
<1>5. Untouched(new, 1)
  <2>1. ASSUME NEW t \in DOMAIN new
        PROVE  t.step >= 1 /\ new[t].decision = "pending" /\ new[t].locked = (t.step > 1)
    <3>1. CASE t = s
      BY <1>2, <1>4, <3>1
    <3>2. CASE t # s
      BY <1>1, <1>3, <3>2 DEF Untouched
    <3> QED BY <3>1, <3>2
  <2> QED BY <2>1 DEF Untouched
<1>6. q.kind \notin Deciding /\ q.kind \notin Finance
  BY DEF Deciding, Stops, Takings, Finance
<1>7. q.pc \notin {"row", "level"} /\ q.kind # "approve" /\ q.kind # "submit"
  BY <1>6 DEF Sound, Deciding, Takings
<1> QED BY <1>5, <1>6, <1>7 DEF Holds, Aimed, LastSigns, WillOpen, Opens, Delivers, Inserts,
             Heals

----------------------------------------------------------------------------
(* Which calls are in flight beside one of a given kind.                   *)

LEMMA Companions ==
  ASSUME TypeInv, PairInv, Apart, NEW c \in Calls, calls[c].pc # "idle",
         NEW d \in Calls \ {c}
  PROVE  /\ calls[c].kind = "approve" => calls[d].kind \in {"none", "approve", "inbox", "cancel"}
         /\ calls[c].kind \in Stops => calls[d].kind \in {"none", "inbox", "cancel"} \union Stops
         /\ calls[c].kind = "submit" => calls[d].kind \in {"none", "submit", "cancel"}
         /\ calls[c].kind \in Takings =>
              calls[d].kind \in {"none", "inbox", "cancel"} \union Takings
         /\ calls[c].kind \in Finance =>
              calls[d].kind \in {"none", "inbox", "cancel"} \union Finance
         /\ calls[c].kind = "inbox" => calls[d].kind # "submit"
<1>1. calls[d].kind = "none" <=> calls[d].pc = "idle"
  BY DEF TypeInv, Sound
<1>2. CASE calls[d].kind = "none"
  BY <1>2
<1>3. CASE calls[d].kind # "none"
  <2>1. PICK g \in Overlap : calls[c].kind \in g /\ calls[d].kind \in g
    BY <1>1, <1>3 DEF PairInv, Together
  <2> QED BY <2>1 DEF Apart, Stops, Takings, Finance
<1> QED BY <1>2, <1>3

\* Two submits in flight together insert from the same level on.
LEMMA SameLevel ==
  ASSUME TypeInv, PairInv, SubmitsAgree, NEW c \in Calls, NEW d \in Calls,
         calls[c].kind = "submit", calls[d].kind = "submit"
  PROVE  calls[c].level = calls[d].level
<1>1. calls[c].pc # "idle" /\ calls[d].pc # "idle"
  BY DEF TypeInv, Sound
<1>2. CASE c = d
  BY <1>2
<1>3. CASE c # d
  <2>1. \E g \in Overlap : "submit" \in g
    BY <1>1, <1>3 DEF PairInv, Together
  <2>2. \A a, b \in SubmittedChains(Amount, Requestor) :
          \A s \in FirstLevel(a), t \in FirstLevel(b) : s.step = t.step
    BY <2>1 DEF SubmitsAgree
  <2>3. PICK a \in SubmittedChains(Amount, Requestor) :
          \E s \in FirstLevel(a) : calls[c].level = s.step
    BY DEF TypeInv, Starts
  <2>4. PICK b \in SubmittedChains(Amount, Requestor) :
          \E s \in FirstLevel(b) : calls[d].level = s.step
    BY DEF TypeInv, Starts
  <2> QED BY <2>2, <2>3, <2>4
<1> QED BY <1>2, <1>3

----------------------------------------------------------------------------
(* The steps.                                                              *)

\* Call c goes on to `r`, and nobody else's reading is spoilt.
LEMMA Carried ==
  ASSUME TypeInv, PairInv, NEW c \in Calls, NEW r,
         calls' = [calls EXCEPT ![c] = r],
         r.pc = "idle" \/ (calls[c].pc # "idle" /\ r.kind = calls[c].kind),
         \A d \in Calls \ {c} : Holds(calls[d], rows') /\ Keeps(calls[d], status'),
         Holds(r, rows'), Keeps(r, status')
  PROVE  PairInv' /\ EachInv'
<1>1. calls'[c] = r /\ \A d \in Calls \ {c} : calls'[d] = calls[d]
  BY DEF TypeInv
<1>2. ASSUME NEW a \in Calls, NEW b \in Calls, a # b, calls'[a].pc # "idle", calls'[b].pc # "idle"
      PROVE  Together(calls'[a].kind, calls'[b].kind)
  <2>1. calls[a].pc # "idle" /\ calls[b].pc # "idle"
        /\ calls'[a].kind = calls[a].kind /\ calls'[b].kind = calls[b].kind
    BY <1>1, <1>2
  <2> QED BY <1>2, <2>1 DEF PairInv
<1>3. \A d \in Calls : Holds(calls'[d], rows') /\ Keeps(calls'[d], status')
  BY <1>1
<1>4. PairInv'
  BY <1>2 DEF PairInv, Together
<1> QED BY <1>3, <1>4 DEF EachInv

\* A call that touches neither the rows nor the status.
LEMMA Looked ==
  ASSUME ConcInv, NEW c \in Calls, NEW r,
         calls' = [calls EXCEPT ![c] = r], UNCHANGED <<status, rows>>,
         Holds(r, rows), Keeps(r, status),
         r.pc = "idle" \/ (calls[c].pc # "idle" /\ r.kind = calls[c].kind),
         r.kind = "approve" => calls[c].kind = "approve",
         ~(calls[c].kind \in Stops /\ calls[c].pc = "status")
  PROVE  PairInv' /\ EachInv' /\ ChainInv'
<1>0. TypeInv /\ PairInv /\ EachInv /\ ChainInv /\ rows' = rows /\ status' = status
  BY DEF ConcInv
<1>1. calls'[c] = r /\ \A d \in Calls \ {c} : calls'[d] = calls[d]
  BY <1>0 DEF TypeInv
<1>2. PairInv' /\ EachInv'
  <2>1. \A d \in Calls \ {c} : Holds(calls[d], rows') /\ Keeps(calls[d], status')
    BY <1>0 DEF EachInv
  <2>2. Holds(r, rows') /\ Keeps(r, status')
    BY <1>0
  <2> QED BY <1>0, <2>1, <2>2, Carried
<1>3. Approving' => Approving
  BY <1>1 DEF Approving
<1>4. Refusing => Refusing'
  BY <1>1 DEF Refusing
<1>5. ChainInv'
  BY <1>0, <1>3, <1>4 DEF ChainInv, Ordered, Unstopped, SignedAll
<1> QED BY <1>2, <1>5

LEMMA IdleHolds ==
  ASSUME NEW rw, NEW st
  PROVE  Holds(Idle, rw) /\ Keeps(Idle, st)
<1>1. Idle.pc = "idle" /\ Idle.kind = "none"
  BY IdleFields
<1> QED BY <1>1 DEF Holds, Aimed, LastSigns, WillOpen, Opens, Delivers, Inserts, Heals,
             Keeps, Stops, Takings, Finance

LEMMA DieConc ==
  ASSUME ConcInv, StopsFinish, NEW c \in Calls, Die(c)
  PROVE  PairInv' /\ EachInv' /\ ChainInv'
<1>1. /\ calls' = [calls EXCEPT ![c] = Idle] /\ status' = status /\ rows' = rows
      /\ calls[c].kind \notin Stops
  BY DEF Die, Answer, StopsFinish
<1>2. /\ Holds(Idle, rows) /\ Keeps(Idle, status) /\ Idle.pc = "idle" /\ Idle.kind = "none"
  BY IdleFields, IdleHolds
<1> QED BY <1>1, <1>2, Looked

\* An approval in flight finds the chain in order and nobody refusing.
LEMMA ApproveFinds ==
  ASSUME ConcInv, Apart, NEW c \in Calls, calls[c].kind = "approve"
  PROVE  Ordered(rows) /\ Unstopped(rows) /\ ~Refusing
<1>1. calls[c].pc # "idle"
  BY DEF ConcInv, TypeInv, Sound
<1>2. ~Refusing
  BY <1>1, Companions DEF ConcInv, Refusing, Stops
<1> QED BY <1>2 DEF ConcInv, ChainInv, Approving

\* No backfill is about to insert while somebody decides.
LEMMA DecidingFinds ==
  ASSUME RouteInv, NEW c \in Calls, calls[c].kind \in Deciding \union Finance \union {"submit"}
  PROVE  \A d \in Calls : calls[d].pc # "heal"
  BY DEF RouteInv, HealInv, Healing, Deciding, Stops, Takings, Finance

\* What an approval that picks s out of the chain may count on.
LEMMA PickedHolds ==
  ASSUME TypeInv, Ordered(rows), Unstopped(rows), NEW s \in DOMAIN rows,
         rows[s].decision = "pending", ~rows[s].locked
  PROVE  /\ Completes(rows, s) =>
              \A t \in DOMAIN rows \ {s} : rows[t].decision = "approved"
         /\ OpenedLevel(s) # 0 =>
              /\ s.step < OpenedLevel(s)
              /\ \A t \in DOMAIN rows \ {s} :
                   t.step < OpenedLevel(s) => rows[t].decision # "pending"
<1>1. \A t \in DOMAIN rows : t.step \in Nat
  BY DEF TypeInv, RowsOK, PlacedSlots
<1>2. ASSUME NEW t \in DOMAIN rows \ {s}, rows[t].decision = "pending"
      PROVE  t \in Siblings(rows, s) \/ t \in LaterLocked(rows, s)
  <2>1. /\ t.step < s.step => rows[s].locked
        /\ s.step < t.step => rows[t].locked
    BY <1>2 DEF Ordered
  <2>2. t.step = s.step \/ (t.step > s.step /\ rows[t].locked)
    BY <1>1, <2>1
  <2> QED BY <1>2, <2>2 DEF Siblings, LaterLocked
<1>3. ASSUME Completes(rows, s), NEW t \in DOMAIN rows \ {s}
      PROVE  rows[t].decision = "approved"
  <2>1. rows[t].decision # "pending"
    BY <1>2, <1>3 DEF Completes
  <2> QED BY <2>1 DEF Unstopped
<1> PICK n : n = OpenedLevel(s)
  OBVIOUS
<1>4. ASSUME n # 0
      PROVE  /\ s.step < n
             /\ \A t \in DOMAIN rows \ {s} : t.step < n => rows[t].decision # "pending"
  <2>1. /\ n \in Nat /\ Siblings(rows, s) = {} /\ s.step < n
        /\ \A t \in LaterLocked(rows, s) : n <= t.step
    BY <1>4, OpenedFacts
  <2>2. ASSUME NEW t \in DOMAIN rows \ {s}, t.step < n, rows[t].decision = "pending"
        PROVE  FALSE
    <3>1. n <= t.step
      BY <1>2, <2>1, <2>2
    <3> QED BY <1>1, <2>1, <2>2, <3>1
  <2> QED BY <2>1, <2>2
<1> QED BY <1>3, <1>4

LEMMA ReadChainConc ==
  ASSUME ConcInv, Apart, NEW c \in Calls, ReadChain(c)
  PROVE  PairInv' /\ EachInv' /\ ChainInv'
<1> PICK q : q = calls[c]
  OBVIOUS
<1>0. /\ TypeInv /\ q \in Call /\ Sound(q) /\ q.pc = "chain" /\ q.kind \in Deciding
      /\ Keeps(q, status)
  BY CallOf DEF ReadChain, ConcInv, EachInv, Sound
<1>1. status' = status /\ rows' = rows
  BY DEF ReadChain
<1>2. CASE calls' = [calls EXCEPT ![c] = Idle]
  BY <1>0, <1>1, <1>2, IdleFields, IdleHolds, Looked
<1>3. ASSUME NEW s \in Picked(rows, q.user),
             calls' = [calls EXCEPT ![c] = [q EXCEPT
               !.pc = "row", !.slot = s,
               !.level = IF q.kind = "approve" THEN OpenedLevel(s) ELSE 0,
               !.to = IF q.kind = "approve" /\ ~Completes(rows, s) THEN "none" ELSE @]]
      PROVE  PairInv' /\ EachInv' /\ ChainInv'
  <2> PICK n : n = IF q.kind = "approve" THEN OpenedLevel(s) ELSE 0
    OBVIOUS
  <2> PICK t : t = IF q.kind = "approve" /\ ~Completes(rows, s) THEN "none" ELSE q.to
    OBVIOUS
  <2> PICK r : r = [q EXCEPT !.pc = "row", !.slot = s, !.level = n, !.to = t]
    OBVIOUS
  <2>1. s \in DOMAIN rows /\ rows[s].decision = "pending" /\ ~rows[s].locked
    BY PickedOpen
  <2>2. /\ r.pc = "row" /\ r.kind = q.kind /\ r.slot = s /\ r.level = n /\ r.to = t
    BY <1>0 DEF Call
  <2>3. Aimed(r, rows)
    BY <2>1, <2>2 DEF Aimed
  <2>4. LastSigns(r, rows) /\ WillOpen(r, rows)
    <3>1. CASE q.kind # "approve"
      BY <2>2, <3>1 DEF LastSigns, WillOpen
    <3>2. CASE q.kind = "approve"
      <4>1. Ordered(rows) /\ Unstopped(rows)
        BY <3>2, ApproveFinds
      <4>2. /\ Completes(rows, s) =>
                 \A x \in DOMAIN rows \ {s} : rows[x].decision = "approved"
            /\ n # 0 =>
                 /\ s.step < n
                 /\ \A x \in DOMAIN rows \ {s} : x.step < n => rows[x].decision # "pending"
        BY <1>0, <2>1, <3>2, <4>1, PickedHolds
      <4>3. t = "in_finance" => Completes(rows, s)
        BY <3>2
      <4> QED BY <2>2, <4>2, <4>3 DEF LastSigns, WillOpen
    <3> QED BY <3>1, <3>2
  <2>5. Opens(r, rows) /\ Delivers(r, rows) /\ Inserts(r, rows) /\ Heals(r, rows)
    BY <1>0, <2>2 DEF Opens, Delivers, Inserts, Heals, Deciding, Stops, Finance
  <2>6. Holds(r, rows) /\ Keeps(r, status)
    BY <1>0, <2>2, <2>3, <2>4, <2>5 DEF Holds, Keeps
  <2>7. calls' = [calls EXCEPT ![c] = r]
    BY <1>3
  <2> QED BY <1>0, <1>1, <2>2, <2>6, <2>7, Looked
<1> QED BY <1>2, <1>3 DEF ReadChain, Answer

\* A call that writes rows and leaves the status to be.
LEMMA Wrote ==
  ASSUME ConcInv, NEW c \in Calls, NEW r, NEW new,
         calls' = [calls EXCEPT ![c] = r], status' = status, rows' = new,
         r.pc = "idle" \/ (calls[c].pc # "idle" /\ r.kind = calls[c].kind),
         \A d \in Calls \ {c} : Holds(calls[d], new),
         Holds(r, new), Keeps(r, status),
         \/ status \in {"in_finance", "paid"} => SignedAll(new)
         \/ calls[c].kind \in {"submit"} \union Takings \union Stops,
         Ordered(new),
         Unstopped(new) \/ Refusing'
  PROVE  PairInv' /\ EachInv' /\ ChainInv'
<1>0. TypeInv /\ PairInv /\ EachInv /\ ChainInv
  BY DEF ConcInv
<1>1. \A d \in Calls \ {c} : Holds(calls[d], rows') /\ Keeps(calls[d], status')
  BY <1>0 DEF EachInv
<1>2. Holds(r, rows') /\ Keeps(r, status')
  OBVIOUS
<1>3. PairInv' /\ EachInv'
  BY <1>0, <1>1, <1>2, Carried
<1>4. Ordered(rows') /\ (Unstopped(rows') \/ Refusing')
  OBVIOUS
<1>5. status' \in {"in_finance", "paid"} => SignedAll(rows')
  <2>1. calls[c].kind \in {"submit"} \union Takings \union Stops =>
          status \notin {"in_finance", "paid"}
    BY <1>0 DEF EachInv, Keeps
  <2> QED BY <2>1
<1>6. ChainInv'
  BY <1>4, <1>5 DEF ChainInv
<1> QED BY <1>3, <1>6

LEMMA ApproveRowConc ==
  ASSUME ConcInv, RouteInv, Apart, NEW c \in Calls, calls[c].kind = "approve", WriteRow(c)
  PROVE  PairInv' /\ EachInv' /\ ChainInv'
<1> PICK q : q = calls[c]
  OBVIOUS
<1>0. TypeInv /\ RowsOK(rows) /\ q \in Call /\ Sound(q) /\ q.pc = "row" /\ q.kind = "approve"
      /\ Holds(q, rows) /\ Keeps(q, status) /\ status' = status
  BY CallOf DEF WriteRow, ConcInv, EachInv, TypeInv
<1> PICK s : s = q.slot
  OBVIOUS
<1>1. s \in DOMAIN rows /\ ~rows[s].locked
  BY <1>0 DEF Holds, Aimed
<1> PICK new : new = [rows EXCEPT ![s].decision = "approved"]
  OBVIOUS
<1>2. rows' = new
  BY <1>0, <1>1 DEF WriteRow
<1>3. Ordered(rows) /\ Unstopped(rows)
  BY <1>0, ApproveFinds
<1>4. Signs(rows, new) /\ Ordered(new)
  <2>1. Signs(rows, new)
    BY <1>0, <1>1, ApprovedSigns
  <2>2. PICK d \in {"approved", "rejected", "changes_requested"} : d = "approved"
    OBVIOUS
  <2>3. new = [rows EXCEPT ![s].decision = d]
    BY <2>2
  <2>4. Ordered(new)
    BY <1>0, <1>1, <1>3, <2>3, DecidedOrdered
  <2> QED BY <2>1, <2>4
<1>5. Unstopped(new) /\ (SignedAll(rows) => SignedAll(new))
  BY <1>3, <1>4, SignsKeeps
<1>6. status \in {"in_finance", "paid"} => SignedAll(new)
  BY <1>5 DEF ConcInv, ChainInv
<1>7. \A d \in Calls \ {c} : Holds(calls[d], new)
  <2>1. ASSUME NEW d \in Calls \ {c}
        PROVE  Holds(calls[d], new)
    <3>1. calls[d].kind # "submit" /\ calls[d].pc # "heal" /\ Holds(calls[d], rows)
      BY <1>0, Companions, DecidingFinds DEF ConcInv, EachInv, Deciding
    <3>2. rows \in [DOMAIN rows -> RowStates]
      BY <1>0 DEF RowsOK
    <3> QED BY <1>4, <3>1, <3>2, SignsKeeps
  <2> QED BY <2>1
<1>8. /\ DOMAIN new = DOMAIN rows /\ new[s].decision = "approved"
      /\ \A t \in DOMAIN rows \ {s} : new[t].decision = rows[t].decision
  BY <1>0, <1>1, RowDecided
<1>9. CASE calls' = [calls EXCEPT ![c] = Idle]
  BY <1>0, <1>2, <1>4, <1>5, <1>6, <1>7, <1>9, IdleFields, IdleHolds, Wrote
<1>10. CASE q.to # "none" /\ Goto(c, "status")
  <2>1. PICK r \in Call : /\ calls' = [calls EXCEPT ![c] = r]
                          /\ r.pc = "status" /\ r.kind = "approve"
    BY <1>0, <1>10, GoneTo DEF Pcs
  <2>2. \A t \in DOMAIN rows \ {s} : rows[t].decision = "approved"
    BY <1>0, <1>10 DEF Holds, LastSigns, Sound
  <2>3. SignedAll(new)
    BY <1>1, <1>8, <2>2 DEF SignedAll
  <2>4. Holds(r, new) /\ Keeps(r, status)
    BY <2>1, <2>3 DEF Holds, Aimed, LastSigns, WillOpen, Opens, Delivers, Inserts, Heals, Keeps,
         Takings, Stops
  <2> QED BY <1>0, <1>2, <1>4, <1>5, <1>6, <1>7, <2>1, <2>4, Wrote
<1>11. CASE q.level # 0 /\ Goto(c, "level")
  <2>1. PICK r \in Call : /\ calls' = [calls EXCEPT ![c] = r]
                          /\ r.pc = "level" /\ r.kind = "approve" /\ r.level = q.level
    BY <1>0, <1>11, GoneTo DEF Pcs
  <2>2. \A t \in DOMAIN rows \ {s} : t.step < q.level => rows[t].decision # "pending"
    BY <1>0, <1>11 DEF Holds, WillOpen
  <2>3. \A t \in DOMAIN new : t.step < r.level => new[t].decision # "pending"
    BY <1>1, <1>8, <2>1, <2>2
  <2>4. Holds(r, new) /\ Keeps(r, status)
    BY <2>1, <2>3 DEF Holds, Aimed, LastSigns, WillOpen, Opens, Delivers, Inserts, Heals, Keeps,
         Takings, Stops, Finance
  <2> QED BY <1>0, <1>2, <1>4, <1>5, <1>6, <1>7, <2>1, <2>4, Wrote
<1> QED BY <1>0, <1>9, <1>10, <1>11 DEF WriteRow, Answer

LEMMA RefuseRowConc ==
  ASSUME ConcInv, RouteInv, Apart, NEW c \in Calls, calls[c].kind \in Stops, WriteRow(c)
  PROVE  PairInv' /\ EachInv' /\ (status = "pending_approval" => Ordered(rows')) /\ Refusing'
         /\ ~Approving'
<1> PICK q : q = calls[c]
  OBVIOUS
<1>0. TypeInv /\ RowsOK(rows) /\ q \in Call /\ Sound(q) /\ q.pc = "row" /\ q.kind \in Stops
      /\ Holds(q, rows) /\ Keeps(q, status) /\ status' = status
  BY CallOf DEF WriteRow, ConcInv, EachInv, TypeInv
<1> PICK s : s = q.slot
  OBVIOUS
<1>1. s \in DOMAIN rows /\ ~rows[s].locked
  BY <1>0 DEF Holds, Aimed
<1> PICK d : d = IF q.kind = "reject" THEN "rejected" ELSE "changes_requested"
  OBVIOUS
<1>2. d \in {"rejected", "changes_requested"}
  OBVIOUS
<1> PICK new : new = [rows EXCEPT ![s].decision = d]
  OBVIOUS
<1>3. rows' = new
  BY <1>0, <1>1 DEF WriteRow, Stops
<1>4. Goto(c, "status")
  BY <1>0 DEF WriteRow, Sound, Stops
<1>5. PICK r \in Call : /\ calls' = [calls EXCEPT ![c] = r]
                        /\ r.pc = "status" /\ r.kind = q.kind
  BY <1>0, <1>4, GoneTo DEF Pcs
<1>6. status = "pending_approval" => Ordered(new)
  <2>1. PICK e \in {"approved", "rejected", "changes_requested"} : e = d
    BY <1>2
  <2>2. new = [rows EXCEPT ![s].decision = e]
    BY <2>1
  <2>3. ASSUME Ordered(rows) PROVE Ordered(new)
    BY <1>0, <1>1, <2>2, <2>3, DecidedOrdered
  <2> QED BY <2>3 DEF ConcInv, ChainInv
<1>7. \A x \in Calls \ {c} :
        calls[x].kind \in {"none", "cancel", "inbox"} \union Stops /\ calls[x].pc # "heal"
  BY <1>0, Companions, DecidingFinds DEF ConcInv, Deciding
<1>8. \A x \in Calls \ {c} : Holds(calls[x], new)
  <2>1. ASSUME NEW x \in Calls \ {c}
        PROVE  Holds(calls[x], new)
    <3>1. Sound(calls[x]) /\ Holds(calls[x], rows)
      BY CallOf DEF ConcInv, EachInv
    <3> QED BY <1>0, <1>1, <1>2, <1>7, <3>1, RefusedHolds
  <2> QED BY <2>1
<1>9. Holds(r, new) /\ Keeps(r, status)
  BY <1>0, <1>5 DEF Holds, Aimed, LastSigns, WillOpen, Opens, Delivers, Inserts, Heals, Keeps,
       Takings, Stops, Finance
<1>10. calls'[c] = r /\ \A x \in Calls \ {c} : calls'[x] = calls[x]
  BY <1>0, <1>5 DEF TypeInv
<1>11. Refusing' /\ ~Approving'
  BY <1>0, <1>5, <1>7, <1>10 DEF Refusing, Approving, Stops
<1>12. \A x \in Calls \ {c} : Holds(calls[x], rows') /\ Keeps(calls[x], status')
  BY <1>0, <1>3, <1>8 DEF ConcInv, EachInv
<1>13. Holds(r, rows') /\ Keeps(r, status')
  BY <1>0, <1>3, <1>9
<1>14. PairInv' /\ EachInv'
  BY <1>0, <1>5, <1>12, <1>13, Carried DEF ConcInv
<1> QED BY <1>3, <1>6, <1>11, <1>14

LEMMA WriteRowConc ==
  ASSUME ConcInv, RouteInv, Apart, NEW c \in Calls, WriteRow(c)
  PROVE  PairInv' /\ EachInv' /\ ChainInv'
<1>1. calls[c].pc = "row" /\ calls[c].kind \in Deciding /\ status' = status
  BY CallOf DEF WriteRow, ConcInv, Sound
<1>2. CASE calls[c].kind = "approve"
  BY <1>2, ApproveRowConc
<1>3. CASE calls[c].kind \in Stops
  <2>1. PairInv' /\ EachInv' /\ (status = "pending_approval" => Ordered(rows')) /\ Refusing'
        /\ ~Approving'
    BY <1>3, RefuseRowConc
  <2>2. status' \notin {"in_finance", "paid"}
    BY <1>1, <1>3 DEF ConcInv, EachInv, Keeps
  <2>3. ChainInv'
    BY <1>1, <2>1, <2>2 DEF ChainInv
  <2> QED BY <2>1, <2>3
<1> QED BY <1>1, <1>2, <1>3 DEF Deciding

LEMMA WriteLevelConc ==
  ASSUME ConcInv, RouteInv, Apart, NEW c \in Calls, WriteLevel(c)
  PROVE  PairInv' /\ EachInv' /\ ChainInv'
<1> PICK q : q = calls[c]
  OBVIOUS
<1>0. /\ TypeInv /\ RowsOK(rows) /\ q \in Call /\ q.pc = "level" /\ q.kind = "approve"
      /\ Holds(q, rows)
  BY CallOf DEF WriteLevel, ConcInv, EachInv, TypeInv, Sound
<1> PICK new, n : n = q.level /\ new = Level(rows, n)
  OBVIOUS
<1>1. rows' = new /\ status' = status /\ calls' = [calls EXCEPT ![c] = Idle]
  BY DEF WriteLevel, Answer, Level
<1>2. n \in Nat /\ \A t \in DOMAIN rows : t.step < n => rows[t].decision # "pending"
  BY <1>0 DEF Holds, Opens, Call
<1>3. Ordered(rows) /\ Unstopped(rows)
  BY <1>0, ApproveFinds
<1>4. Ordered(new)
  BY <1>0, <1>2, <1>3, LevelOrdered
<1>5. Signs(rows, new)
  BY <1>0, LevelSigns
<1>6. Unstopped(new) /\ (SignedAll(rows) => SignedAll(new))
  BY <1>3, <1>5, SignsKeeps
<1>7. status \in {"in_finance", "paid"} => SignedAll(new)
  BY <1>6 DEF ConcInv, ChainInv
<1>8. ASSUME NEW d \in Calls \ {c}
      PROVE  Holds(calls[d], new)
  <2>1. calls[d].kind # "submit" /\ calls[d].pc # "heal" /\ Holds(calls[d], rows)
    BY <1>0, Companions, DecidingFinds DEF ConcInv, EachInv, Deciding
  <2>2. rows \in [DOMAIN rows -> RowStates]
    BY <1>0 DEF RowsOK
  <2> QED BY <1>5, <2>1, <2>2, SignsKeeps
<1> QED BY <1>1, <1>4, <1>6, <1>7, <1>8, IdleFields, IdleHolds, Wrote

LEMMA NoRowsFacts == Ordered(NoRows) /\ Unstopped(NoRows)
<1>1. DOMAIN NoRows = {}
  BY DEF NoRows
<1> QED BY <1>1 DEF Ordered, Unstopped

LEMMA DeleteRowsConc ==
  ASSUME ConcInv, Apart, NEW c \in Calls, DeleteRows(c)
  PROVE  PairInv' /\ EachInv' /\ ChainInv'
<1> PICK q : q = calls[c]
  OBVIOUS
<1>0. /\ TypeInv /\ q \in Call /\ Sound(q) /\ Starts(q) /\ q.pc = "delete"
      /\ q.kind \in {"submit"} \union Takings /\ Keeps(q, status)
  BY CallOf DEF DeleteRows, ConcInv, EachInv, Sound
<1> PICK p : p = IF q.kind = "submit" THEN "insert" ELSE "status"
  OBVIOUS
<1>1. PICK r \in Call :
        /\ calls' = [calls EXCEPT ![c] = r]
        /\ r.pc = p /\ r.kind = q.kind /\ r.slot = q.slot
        /\ r.level = q.level /\ r.to = q.to /\ r.todo = q.todo
  <2>1. p \in Pcs /\ Goto(c, p)
    BY DEF DeleteRows, Pcs
  <2> QED BY <1>0, <2>1, GoneTo
<1>2. rows' = NoRows /\ status' = status
  BY DEF DeleteRows
<1>3. Sound(r)
  BY <1>0, <1>1 DEF Sound, Starts, Stops, Deciding, Takings
<1>4. Holds(r, NoRows) /\ Keeps(r, status)
  <2>1. r.kind \in {"submit", "cancel", "none", "inbox"} \union Takings
    BY <1>0, <1>1
  <2>2. Holds(r, NoRows)
    BY <1>3, <2>1, DeletedHolds
  <2>3. r.pc # "heal"
    BY <1>1
  <2> QED BY <1>0, <1>1, <2>2, <2>3 DEF Keeps
<1>5. ASSUME NEW d \in Calls \ {c}
      PROVE  Holds(calls[d], NoRows)
  <2>1. calls[d].kind \in {"none", "submit", "cancel", "inbox"} \union Takings
    BY <1>0, Companions DEF ConcInv
  <2>2. Sound(calls[d])
    BY <1>0, CallOf
  <2> QED BY <2>1, <2>2, DeletedHolds
<1> QED BY <1>0, <1>1, <1>2, <1>4, <1>5, NoRowsFacts, Wrote

LEMMA InsertRowConc ==
  ASSUME ConcInv, Apart, SubmitsAgree, NEW c \in Calls, InsertRow(c)
  PROVE  PairInv' /\ EachInv' /\ ChainInv'
<1> PICK q : q = calls[c]
  OBVIOUS
<1>0. /\ TypeInv /\ RowsOK(rows) /\ q \in Call /\ Sound(q) /\ Starts(q) /\ q.pc = "insert"
      /\ q.kind = "submit" /\ Holds(q, rows) /\ Keeps(q, status)
  BY CallOf DEF InsertRow, ConcInv, EachInv, Sound, TypeInv
<1>1. PICK s, left, p :
        /\ s \in q.todo
        /\ left = q.todo \ {s} /\ p = IF left = {} THEN "status" ELSE "insert"
        /\ rows' = Inserted(rows, s, q.level)
        /\ calls' = [calls EXCEPT ![c].todo = left, ![c].pc = p]
  <2>1. PICK s \in FirstLevel(q.todo) :
          /\ rows' = [t \in DOMAIN rows \union {s} |->
               IF t = s THEN [decision |-> "pending", locked |-> s.step > q.level]
               ELSE rows[t]]
          /\ calls' = [calls EXCEPT ![c].todo = q.todo \ {s},
                                    ![c].pc = IF q.todo \ {s} = {} THEN "status" ELSE "insert"]
    BY DEF InsertRow
  <2>2. s \in q.todo
    BY DEF FirstLevel
  <2> QED BY <2>1, <2>2 DEF Inserted
<1> s \in q.todo
  BY <1>1
<1> PICK n : n = q.level
  OBVIOUS
<1> PICK r : r = [[q EXCEPT !.todo = left] EXCEPT !.pc = p]
  OBVIOUS
<1>2. calls' = [calls EXCEPT ![c] = r]
  BY <1>0, <1>1 DEF TypeInv
<1>3. r.kind = "submit" /\ r.pc = p /\ r.level = n /\ p \in {"status", "insert"}
  BY <1>0, <1>1 DEF Call
<1>4. n \in Nat /\ s.step \in Nat /\ s.step >= n
  BY <1>0, <1>1 DEF Call, Starts, PlacedSlots
<1>5. Untouched(rows, n)
  BY <1>0 DEF Holds, Inserts
<1> PICK new : new = Inserted(rows, s, n)
  OBVIOUS
<1>6. Untouched(new, n)
  BY <1>4, <1>5, InsertedUntouched
<1>7. RowsOK(new)
  <2>1. s \in PlacedSlots
    BY <1>0, <1>1 DEF Call
  <2> QED BY <1>0, <2>1 DEF RowsOK, RowStates, Inserted
<1>8. Ordered(new) /\ Unstopped(new)
  BY <1>4, <1>6, <1>7, UntouchedOrdered
<1>9. Holds(r, new) /\ Keeps(r, status)
  BY <1>0, <1>3, <1>6 DEF Holds, Aimed, LastSigns, WillOpen, Opens, Delivers, Inserts, Heals, Keeps,
       Finance
<1>10. ASSUME NEW d \in Calls \ {c}
       PROVE  Holds(calls[d], new)
  <2>1. calls[d].kind \in {"none", "submit", "cancel"} /\ Sound(calls[d])
    BY <1>0, Companions, CallOf DEF ConcInv
  <2>2. calls[d].kind = "submit" => calls[d].level = n
    BY <1>0, SameLevel DEF ConcInv
  <2> QED BY <1>4, <1>5, <2>1, <2>2, InsertedHolds
<1>11. rows' = new /\ status' = status
  BY <1>1 DEF InsertRow
<1> QED BY <1>0, <1>2, <1>3, <1>8, <1>9, <1>10, <1>11, Wrote

\* What an inbox that finds no row knows.
LEMMA NothingFound ==
  ASSUME FullInv, Apart, NEW c \in Calls, calls[c].kind = "inbox", DOMAIN rows = {}
  PROVE  /\ ~InFinance
         /\ status = "pending_approval" => Withdrawing
         /\ \A d \in Calls : calls[d].kind \in {"none", "inbox", "cancel"} \union Takings
<1>0. TypeInv /\ PairInv /\ RouteInv /\ calls[c].pc # "idle"
  BY DEF FullInv, ConcInv, TypeInv, Sound
<1>1. ~InFinance
  BY <1>0 DEF RouteInv, Stands
<1>2. \A d \in Calls : calls[d].kind # "submit"
  BY <1>0, Companions
<1>3. ~Routed
  <2>1. Coming = {}
    BY <1>2 DEF Coming, Adds
  <2> QED BY <2>1 DEF Routed
<1>4. Waiting => Withdrawing
  BY <1>0, <1>3 DEF RouteInv
<1>5. ASSUME NEW d \in Calls
      PROVE  calls[d].kind \in {"none", "inbox", "cancel"} \union Takings
  <2>1. calls[d].kind \in AllKinds \union {"none"}
    BY <1>0, CallOf, CallAssumption DEF Call
  <2>2. calls[d].kind \notin Finance
    BY <1>1 DEF InFinance
  <2>3. calls[d].kind \notin Deciding
    <3>1. SUFFICES ASSUME calls[d].kind \in Deciding PROVE FALSE
      OBVIOUS
    <3>2. PICK e \in Calls : calls[e].kind = "withdraw"
      BY <1>4, <3>1 DEF Waiting, Withdrawing
    <3>3. e # d /\ calls[e].pc # "idle"
      BY <1>0, <3>1, <3>2 DEF Deciding, Stops, TypeInv, Sound
    <3> QED BY <1>0, <3>1, <3>2, <3>3, Companions DEF Deciding, Stops, Takings
  <2> QED BY <1>2, <2>1, <2>2, <2>3 DEF AllKinds, Deciding, Stops, Takings, Finance
<1> QED BY <1>1, <1>4, <1>5 DEF Waiting

\* The call of an inbox that goes on to refill the chain.
LEMMA HealRecord ==
  ASSUME TypeInv, NEW c \in Calls, calls[c].kind = "inbox", NEW p,
         calls' = [calls EXCEPT ![c].pc = "heal", ![c].slot = p]
  PROVE  \E r : /\ calls' = [calls EXCEPT ![c] = r]
                /\ r.pc = "heal" /\ r.kind = "inbox" /\ r.slot = p
<1> PICK q : q = calls[c]
  OBVIOUS
<1> PICK r : r = [[q EXCEPT !.pc = "heal"] EXCEPT !.slot = p]
  OBVIOUS
<1>1. q \in Call
  BY CallOf
<1>2. r.pc = "heal" /\ r.kind = "inbox" /\ r.slot = p
  BY <1>1 DEF Call
<1>3. calls' = [calls EXCEPT ![c] = r]
  BY DEF TypeInv
<1> QED BY <1>2, <1>3

LEMMA ReadStepsConc ==
  ASSUME FullInv, Apart, NEW c \in Calls, ReadSteps(c)
  PROVE  PairInv' /\ EachInv' /\ ChainInv'
<1>0. ConcInv /\ TypeInv /\ calls[c].pc = "look" /\ calls[c].kind = "inbox"
  BY CallOf DEF ReadSteps, FullInv, ConcInv, Sound
<1>1. UNCHANGED <<status, rows>>
  BY DEF ReadSteps
<1>2. CASE calls' = [calls EXCEPT ![c] = Idle]
  BY <1>0, <1>1, <1>2, IdleFields, IdleHolds, Looked
<1>3. ASSUME NEW p, DOMAIN rows = {},
             calls' = [calls EXCEPT ![c].pc = "heal", ![c].slot = p]
      PROVE  PairInv' /\ EachInv' /\ ChainInv'
  <2>1. PICK r : /\ calls' = [calls EXCEPT ![c] = r]
                 /\ r.pc = "heal" /\ r.kind = "inbox" /\ r.slot = p
    BY <1>0, <1>3, HealRecord
  <2>2. Holds(r, rows)
    BY <1>3, <2>1 DEF Holds, Aimed, LastSigns, WillOpen, Opens, Delivers, Inserts, Heals,
         Untouched, Finance
  <2>3. Keeps(r, status)
    <3>1. ~InFinance
      BY <1>0, <1>3, NothingFound
    <3> QED BY <2>1, <3>1 DEF Keeps, InFinance
  <2> QED BY <1>0, <1>1, <2>1, <2>2, <2>3, Looked DEF Stops
<1> QED BY <1>2, <1>3 DEF ReadSteps, Answer

LEMMA BackfillConc ==
  ASSUME FullInv, NEW c \in Calls, Backfill(c)
  PROVE  PairInv' /\ EachInv' /\ ChainInv'
<1> PICK q, s : q = calls[c] /\ s = q.slot
  OBVIOUS
<1>0. /\ ConcInv /\ TypeInv /\ RowsOK(rows) /\ Sound(q) /\ q.pc = "heal" /\ q.kind = "inbox"
      /\ Holds(q, rows) /\ Keeps(q, status) /\ s \in PlacedSlots /\ s.step = 1
  BY CallOf DEF Backfill, FullInv, ConcInv, EachInv, TypeInv, Sound
<1> PICK new : new = Healed(rows, s)
  OBVIOUS
<1>1. rows' = new /\ status' = status /\ calls' = [calls EXCEPT ![c] = Idle]
  BY DEF Backfill, Answer, Healed
<1>2. Untouched(rows, 1)
  BY <1>0 DEF Holds, Heals
<1>3. \A d \in Calls : Sound(calls[d])
                      /\ calls[d].kind \in {"none", "inbox", "cancel"} \union Takings
  BY <1>0, CallOf DEF FullInv, RouteInv, HealInv, Healing
<1>4. \A d \in Calls \ {c} : Holds(calls[d], new)
  <2>1. ASSUME NEW d \in Calls PROVE Holds(calls[d], new)
    BY <1>0, <1>2, <1>3, HealedHolds
  <2> QED BY <2>1
<1>5. Untouched(new, 1)
  BY <1>0, <1>2, <1>3, HealedHolds
<1>6. RowsOK(new)
  BY <1>0 DEF RowsOK, RowStates, Healed
<1>7. Ordered(new) /\ Unstopped(new)
  BY <1>5, <1>6, UntouchedOrdered
<1>8. status \notin {"in_finance", "paid"}
  BY <1>0 DEF Keeps
<1> QED BY <1>0, <1>1, <1>4, <1>7, <1>8, IdleFields, IdleHolds, Wrote

LEMMA WriteStatusConc ==
  ASSUME ConcInv, RouteInv, Apart, NEW c \in Calls, WriteStatus(c)
  PROVE  PairInv' /\ EachInv' /\ ChainInv'
<1> PICK q : q = calls[c]
  OBVIOUS
<1>0. /\ TypeInv /\ RowsOK(rows) /\ q \in Call /\ Sound(q) /\ q.pc = "status"
      /\ Holds(q, rows) /\ Keeps(q, status)
  BY CallOf DEF WriteStatus, ConcInv, EachInv, TypeInv
<1>1. /\ q.kind \in {"approve", "submit", "cancel"} \union Takings \union Stops \union Finance
      /\ calls[c].pc # "idle"
  <2>1. q.kind \in AllKinds
    BY <1>0, CallAssumption DEF Sound, Call
  <2>2. q.kind # "inbox" /\ calls[c].pc # "idle"
    BY <1>0 DEF Sound
  <2> QED BY <2>1, <2>2 DEF AllKinds, Takings, Stops, Finance
<1>2. status' = q.to /\ rows' = rows /\ calls' = [calls EXCEPT ![c] = Idle]
  BY DEF WriteStatus, Answer
<1>3. calls'[c] = Idle /\ \A d \in Calls \ {c} : calls'[d] = calls[d]
  BY <1>0, <1>2 DEF TypeInv
<1>4. q.to \in {"in_finance", "paid"} => q.kind \in {"approve"} \union Finance
  BY <1>0, <1>1 DEF Sound, Takings, Stops, Finance
<1>5. \A d \in Calls \ {c} : Holds(calls[d], rows') /\ Keeps(calls[d], status')
  <2>1. ASSUME NEW d \in Calls \ {c}
        PROVE  Holds(calls[d], rows') /\ Keeps(calls[d], status')
    <3>1. Holds(calls[d], rows')
      BY <1>2 DEF ConcInv, EachInv
    <3>2. q.to \in {"in_finance", "paid"} =>
            /\ calls[d].kind \in {"none", "approve", "inbox", "cancel"} \union Finance
            /\ calls[d].pc # "heal"
      BY <1>1, <1>4, Companions, DecidingFinds DEF ConcInv, Deciding
    <3>3. q.to = "pending_approval" =>
            /\ q.kind = "submit" /\ calls[d].kind \in {"none", "submit", "cancel"}
            /\ calls[d].kind = "submit" => ~Lone("submit")
      <4>1. SUFFICES ASSUME q.to = "pending_approval"
                     PROVE  /\ q.kind = "submit"
                            /\ calls[d].kind \in {"none", "submit", "cancel"}
                            /\ calls[d].kind = "submit" => ~Lone("submit")
        OBVIOUS
      <4>2. q.kind = "submit"
        BY <1>0, <1>1, <4>1 DEF Sound, Takings, Stops, Finance
      <4>3. calls[d].kind \in {"none", "submit", "cancel"}
        BY <1>1, <4>2, Companions DEF ConcInv
      <4>4. ASSUME calls[d].kind = "submit" PROVE ~Lone("submit")
        <5>1. calls[d].pc # "idle"
          BY <1>0, <4>4 DEF TypeInv, Sound
        <5> QED BY <1>1, <4>2, <4>4, <5>1 DEF ConcInv, PairInv, Together, Lone
      <4> QED BY <4>2, <4>3, <4>4
    <3>4. Keeps(calls[d], status')
      <4>1. /\ calls[d].kind \in {"submit"} \union Takings \union Stops \/ calls[d].pc = "heal" =>
                 status' \notin {"in_finance", "paid"}
        BY <1>2, <3>2 DEF Takings, Stops, Finance
      <4>2. /\ calls[d].kind = "reopen" \/ (calls[d].kind = "submit" /\ Lone("submit")) =>
                 status' # "pending_approval"
        BY <1>2, <3>3
      <4> QED BY <4>1, <4>2 DEF Keeps
    <3> QED BY <3>1, <3>4
  <2> QED BY <2>1
<1>6. PairInv' /\ EachInv'
  <2>1. Holds(Idle, rows') /\ Keeps(Idle, status') /\ Idle.pc = "idle"
    BY IdleFields, IdleHolds
  <2> QED BY <1>2, <1>5, <2>1, Carried DEF ConcInv
<1>7. q.to \in {"in_finance", "paid"} => SignedAll(rows)
  BY <1>0, <1>4 DEF Holds, Delivers
<1>8. Approving' => Approving /\ q.kind \in {"approve", "cancel"}
  <2>1. SUFFICES ASSUME NEW d \in Calls, calls'[d].kind = "approve"
                 PROVE  Approving /\ q.kind \in {"approve", "cancel"}
    BY DEF Approving
  <2>2. d # c /\ calls[d].kind = "approve"
    BY <1>3, <2>1, IdleFields
  <2>3. q.kind \notin {"submit"} \union Takings \union Stops \union Finance
    BY <1>1, <2>2, Companions DEF ConcInv, Takings, Stops, Finance
  <2> QED BY <1>1, <2>2, <2>3 DEF Approving
<1>9. q.to = "pending_approval" => q.kind = "submit"
  BY <1>0, <1>1 DEF Sound, Takings, Stops, Finance
<1>10. CASE q.kind = "submit"
  <2>1. q.level \in Nat /\ Untouched(rows, q.level)
    BY <1>0, <1>10 DEF Holds, Inserts, Call
  <2> PICK rw, n : rw = rows /\ n = q.level
    OBVIOUS
  <2>2. Ordered(rw) /\ Unstopped(rw)
    BY <1>0, <2>1, UntouchedOrdered
  <2>3. Ordered(rows') /\ Unstopped(rows')
    BY <1>2, <2>2
  <2>4. status' \notin {"in_finance", "paid"}
    BY <1>0, <1>2, <1>10 DEF Sound
  <2>5. ChainInv'
    BY <2>3, <2>4 DEF ChainInv
  <2> QED BY <1>6, <2>5
<1>11. CASE q.kind # "submit"
  <2>1. status' # "pending_approval"
    BY <1>2, <1>9, <1>11
  <2>2. ASSUME Approving'
        PROVE  Ordered(rows) /\ Unstopped(rows)
    <3>1. PICK d \in Calls : calls[d].kind = "approve"
      BY <1>8, <2>2 DEF Approving
    <3> QED BY <3>1, ApproveFinds
  <2>3. Approving' => Ordered(rows') /\ Unstopped(rows')
    BY <1>2, <2>2
  <2>4. status' \in {"in_finance", "paid"} => SignedAll(rows')
    BY <1>2, <1>7
  <2>5. ChainInv'
    BY <2>1, <2>3, <2>4 DEF ChainInv
  <2> QED BY <1>6, <2>5
<1> QED BY <1>10, <1>11

----------------------------------------------------------------------------
(* A call comes in.                                                        *)

LEMMA Came ==
  ASSUME ConcInv, NEW c \in Calls, NEW r, calls[c].pc = "idle", MayCome(r.kind),
         calls' = [calls EXCEPT ![c] = r], UNCHANGED <<status, rows>>,
         Holds(r, rows), Keeps(r, status),
         r.kind = "approve" => status = "pending_approval"
  PROVE  PairInv' /\ EachInv' /\ ChainInv'
<1>0. TypeInv /\ PairInv /\ EachInv /\ ChainInv /\ rows' = rows /\ status' = status
  BY DEF ConcInv
<1>1. calls'[c] = r /\ \A d \in Calls \ {c} : calls'[d] = calls[d]
  BY <1>0 DEF TypeInv
<1>2. ASSUME NEW d \in Calls \ {c}, calls[d].pc # "idle"
      PROVE  Together(calls[d].kind, r.kind) /\ Together(r.kind, calls[d].kind)
  <2>1. calls[d].kind # "none"
    BY <1>0, <1>2 DEF TypeInv, Sound
  <2> QED BY <1>2, <2>1 DEF MayCome, Quiet, Together
<1>3. ASSUME NEW a \in Calls, NEW b \in Calls, a # b, calls'[a].pc # "idle", calls'[b].pc # "idle"
      PROVE  Together(calls'[a].kind, calls'[b].kind)
  <2>1. CASE a = c
    BY <1>1, <1>2, <1>3, <2>1
  <2>2. CASE b = c
    BY <1>1, <1>2, <1>3, <2>2
  <2>3. CASE a # c /\ b # c
    BY <1>0, <1>1, <1>3, <2>3 DEF PairInv
  <2> QED BY <2>1, <2>2, <2>3
<1>4. PairInv'
  BY <1>3 DEF PairInv, Together
<1>5. EachInv'
  <2>1. \A d \in Calls : Holds(calls'[d], rows') /\ Keeps(calls'[d], status')
    BY <1>0, <1>1 DEF EachInv
  <2> QED BY <2>1 DEF EachInv
<1>6. Refusing => Refusing'
  BY <1>1 DEF Refusing
<1>7. Approving' => Approving \/ status = "pending_approval"
  BY <1>1 DEF Approving
<1>8. ChainInv'
  BY <1>0, <1>6, <1>7 DEF ChainInv, Ordered, Unstopped, SignedAll
<1> QED BY <1>4, <1>5, <1>8

LEMMA ArriveConc ==
  ASSUME ConcInv, NEW c \in Calls, NEW u, NEW k, NEW p, NEW t, Arrive(c, u, k, p, t),
         \/ k \in Deciding /\ p = "chain" /\ status = "pending_approval"
         \/ /\ k \in Takings /\ p = "delete" /\ status \notin {"in_finance", "paid"}
            /\ k = "reopen" => status = "rejected"
         \/ k \in Finance /\ p = "status" /\ status \in {"in_finance", "paid"}
         \/ k = "cancel" /\ p = "status"
         \/ k = "inbox" /\ p = "look" /\ status = "pending_approval"
  PROVE  PairInv' /\ EachInv' /\ ChainInv'
<1> PICK r : r = [Idle EXCEPT !.kind = k, !.user = u, !.pc = p, !.to = t]
  OBVIOUS
<1>1. /\ calls[c].pc = "idle" /\ MayCome(k) /\ calls' = [calls EXCEPT ![c] = r]
      /\ UNCHANGED <<status, rows>>
  BY DEF Arrive
<1>2. r.kind = k /\ r.pc = p
  BY IdleFields DEF Call
<1>3. k \in Finance => SignedAll(rows)
  BY DEF ConcInv, ChainInv, Deciding, Stops, Takings, Finance
<1>4. p \notin {"row", "level", "heal"} /\ k # "submit" /\ (k = "approve" => p = "chain")
  BY DEF Deciding, Stops, Takings, Finance
<1>5. Holds(r, rows)
  BY <1>2, <1>3, <1>4 DEF Holds, Aimed, LastSigns, WillOpen, Opens, Delivers, Inserts, Heals
<1>6. Keeps(r, status)
  BY <1>2, <1>4 DEF Keeps, Deciding, Stops, Takings, Finance
<1>7. k = "approve" => status = "pending_approval"
  BY DEF Stops, Takings, Finance
<1> QED BY <1>1, <1>2, <1>5, <1>6, <1>7, Came

LEMMA ArriveSubmitConc ==
  ASSUME ConcInv, NEW c \in Calls, ArriveSubmit(c)
  PROVE  PairInv' /\ EachInv' /\ ChainInv'
<1>1. PICK n, todo : calls' = [calls EXCEPT ![c] = [Idle EXCEPT
             !.kind = "submit", !.user = Requestor, !.pc = "delete",
             !.to = "pending_approval", !.level = n, !.todo = todo]]
  BY DEF ArriveSubmit
<1> PICK r : r = [Idle EXCEPT !.kind = "submit", !.user = Requestor, !.pc = "delete",
                              !.to = "pending_approval", !.level = n, !.todo = todo]
  OBVIOUS
<1>2. calls' = [calls EXCEPT ![c] = r]
  BY <1>1
<1>3. r.kind = "submit" /\ r.pc = "delete"
  BY IdleFields DEF Call
<1>4. calls[c].pc = "idle" /\ MayCome("submit") /\ UNCHANGED <<status, rows>>
      /\ status \in Editable
  BY DEF ArriveSubmit
<1>5. Holds(r, rows) /\ Keeps(r, status)
  BY <1>3, <1>4 DEF Holds, Aimed, LastSigns, WillOpen, Opens, Delivers, Inserts, Heals, Keeps,
       Editable, Finance
<1> QED BY <1>2, <1>3, <1>4, <1>5, Came

LEMMA ComeConc ==
  ASSUME ConcInv, NEW c \in Calls, Come(c)
  PROVE  PairInv' /\ EachInv' /\ ChainInv'
<1>1. CASE ArriveSubmit(c)
  BY <1>1, ArriveSubmitConc
<1>2. CASE ArriveReopen(c)
  BY <1>2, ArriveConc DEF ArriveReopen, Takings
<1>3. ASSUME NEW u \in Users, ArriveApprove(c, u)
      PROVE  PairInv' /\ EachInv' /\ ChainInv'
  BY <1>3, ArriveConc DEF ArriveApprove, Deciding
<1>4. ASSUME NEW u \in Users, ArriveStop(c, u)
      PROVE  PairInv' /\ EachInv' /\ ChainInv'
  BY <1>4, ArriveConc DEF ArriveStop, Deciding, Stops
<1>5. ASSUME NEW u \in Users, ArriveWithdraw(c, u)
      PROVE  PairInv' /\ EachInv' /\ ChainInv'
  BY <1>5, ArriveConc DEF ArriveWithdraw, Takings
<1>6. ASSUME NEW u \in Users, ArriveCancel(c, u)
      PROVE  PairInv' /\ EachInv' /\ ChainInv'
  BY <1>6, ArriveConc DEF ArriveCancel
<1>7. ASSUME NEW u \in Users, ArriveFinance(c, u)
      PROVE  PairInv' /\ EachInv' /\ ChainInv'
  BY <1>7, ArriveConc DEF ArriveFinance, Finance
<1>8. ASSUME NEW u \in Users, ArriveInbox(c, u)
      PROVE  PairInv' /\ EachInv' /\ ChainInv'
  BY <1>8, ArriveConc DEF ArriveInbox
<1> QED BY <1>1, <1>2, <1>3, <1>4, <1>5, <1>6, <1>7, <1>8 DEF Come

----------------------------------------------------------------------------
(* The chain that was routed.                                              *)

\* Call c goes on to `r` and no row is lost.
LEMMA RouteKept ==
  ASSUME TypeInv, RouteInv, NEW c \in Calls, NEW r,
         calls' = [calls EXCEPT ![c] = r],
         routed' = routed, DOMAIN rows \subseteq DOMAIN rows',
         status' = "pending_approval" \/ r.kind \in Deciding \/ Adds(r) => Waiting,
         status' \in {"in_finance", "paid"} \/ r.kind \in Finance =>
           InFinance \/ Stands(rows),
         calls[c].kind = "withdraw" => r.kind = "withdraw",
         Adds(calls[c]) => calls[c].todo \subseteq
                             DOMAIN rows' \union (IF Adds(r) THEN r.todo ELSE {})
  PROVE  /\ Waiting' => Withdrawing' \/ Routed'
         /\ InFinance' => Stands(rows)'
<1>1. calls'[c] = r /\ \A d \in Calls \ {c} : calls'[d] = calls[d]
  BY DEF TypeInv
<1>2. Waiting' => Waiting
  <2>1. SUFFICES ASSUME Waiting', status' # "pending_approval" PROVE Waiting
    OBVIOUS
  <2>2. PICK d \in Calls : calls'[d].kind \in Deciding \/ Adds(calls'[d])
    BY <2>1 DEF Waiting, Adds
  <2> QED BY <1>1, <2>2 DEF Waiting
<1>3. Withdrawing => Withdrawing'
  BY <1>1 DEF Withdrawing
<1>4. ASSUME NEW x \in Coming
      PROVE  x \in DOMAIN rows' \union Coming'
  <2>1. PICK d \in Calls : Adds(calls[d]) /\ x \in calls[d].todo
    BY DEF Coming
  <2>2. CASE d = c
    <3>1. x \in DOMAIN rows' \/ (Adds(r) /\ x \in r.todo)
      BY <2>1, <2>2
    <3>2. Adds(calls'[c]) /\ x \in calls'[c].todo => x \in Coming'
      BY DEF Coming, Adds
    <3> QED BY <1>1, <3>1, <3>2
  <2>3. CASE d # c
    <3>1. Adds(calls'[d]) /\ x \in calls'[d].todo
      BY <1>1, <2>1, <2>3
    <3> QED BY <3>1 DEF Coming, Adds
  <2> QED BY <2>2, <2>3
<1>5. Routed => Routed'
  BY <1>4 DEF Routed
<1>6. InFinance' => InFinance \/ Stands(rows)
  <2>1. SUFFICES ASSUME InFinance', status' \notin {"in_finance", "paid"}
                 PROVE  InFinance \/ Stands(rows)
    OBVIOUS
  <2>2. PICK d \in Calls : calls'[d].kind \in Finance
    BY <2>1 DEF InFinance
  <2> QED BY <1>1, <2>2 DEF InFinance
<1>7. Stands(rows) => Stands(rows)'
  BY DEF Stands
<1> QED BY <1>2, <1>3, <1>5, <1>6, <1>7 DEF RouteInv

LEMMA HealKept ==
  ASSUME TypeInv, RouteInv, NEW c \in Calls, NEW r,
         calls' = [calls EXCEPT ![c] = r], r.pc # "heal",
         r.kind \in {"none", calls[c].kind},
         status' = "pending_approval" => status = "pending_approval" \/ calls[c].kind = "submit",
         calls[c].kind = "withdraw" => r.kind = "withdraw" \/ status' # "pending_approval"
  PROVE  HealInv'
<1>1. calls'[c] = r /\ \A d \in Calls \ {c} : calls'[d] = calls[d]
  BY DEF TypeInv
<1>2. SUFFICES ASSUME Healing' PROVE HealInv'
  BY DEF HealInv
<1>3. Healing
  BY <1>1, <1>2 DEF Healing
<1>4. /\ status = "pending_approval" => Withdrawing
      /\ \A d \in Calls : calls[d].kind \in {"none", "inbox", "cancel"} \union Takings
  BY <1>3 DEF RouteInv, HealInv
<1>5. \A d \in Calls : calls'[d].kind \in {"none", "inbox", "cancel"} \union Takings
  BY <1>1, <1>4
<1>6. status' = "pending_approval" => Withdrawing'
  <2>1. SUFFICES ASSUME status' = "pending_approval" PROVE Withdrawing'
    OBVIOUS
  <2>2. status = "pending_approval"
    BY <1>4, <2>1 DEF Takings
  <2>3. PICK w \in Calls : calls[w].kind = "withdraw"
    BY <1>4, <2>2 DEF Withdrawing
  <2> QED BY <1>1, <2>1, <2>3 DEF Withdrawing
<1> QED BY <1>5, <1>6 DEF HealInv

\* A step of a call that loses no row, starts nothing and moves no status but
\* the way its kind allows.
LEMMA RouteStep ==
  ASSUME TypeInv, RouteInv, NEW c \in Calls, NEW r,
         calls' = [calls EXCEPT ![c] = r], r.pc # "heal",
         r.kind \in {"none", calls[c].kind},
         routed' = routed, DOMAIN rows \subseteq DOMAIN rows',
         Adds(r) => Adds(calls[c]),
         status' = "pending_approval" => status = "pending_approval" \/ Adds(calls[c]),
         status' \in {"in_finance", "paid"} => InFinance \/ Stands(rows),
         calls[c].kind = "withdraw" => r.kind = "withdraw",
         Adds(calls[c]) => calls[c].todo \subseteq
                             DOMAIN rows' \union (IF Adds(r) THEN r.todo ELSE {})
  PROVE  RouteInv'
<1>1. HealInv'
  BY HealKept DEF Adds
<1>2. status' = "pending_approval" \/ r.kind \in Deciding \/ Adds(r) => Waiting
  BY DEF Waiting, Deciding, Stops
<1>3. status' \in {"in_finance", "paid"} \/ r.kind \in Finance => InFinance \/ Stands(rows)
  BY DEF InFinance, Finance
<1>4. /\ Waiting' => Withdrawing' \/ Routed'
      /\ InFinance' => Stands(rows)'
  BY <1>2, <1>3, RouteKept
<1> QED BY <1>1, <1>4 DEF RouteInv, Stands

LEMMA ReadChainRoute ==
  ASSUME FullInv, NEW c \in Calls, ReadChain(c)
  PROVE  RouteInv'
<1> PICK q : q = calls[c]
  OBVIOUS
<1>0. TypeInv /\ RouteInv /\ q \in Call /\ Sound(q) /\ q.pc = "chain" /\ q.kind \in Deciding
  BY CallOf DEF ReadChain, FullInv, ConcInv, Sound
<1>1. UNCHANGED <<status, rows, routed>>
  BY DEF ReadChain
<1>2. PICK r : /\ calls' = [calls EXCEPT ![c] = r] /\ r.kind \in {"none", q.kind}
               /\ r.pc # "heal" /\ ~Adds(r)
  <2>1. CASE calls' = [calls EXCEPT ![c] = Idle]
    BY <2>1, IdleFields DEF Adds
  <2>2. ASSUME NEW s \in Picked(rows, q.user),
               calls' = [calls EXCEPT ![c] = [q EXCEPT
                 !.pc = "row", !.slot = s,
                 !.level = IF q.kind = "approve" THEN OpenedLevel(s) ELSE 0,
                 !.to = IF q.kind = "approve" /\ ~Completes(rows, s) THEN "none" ELSE @]]
        PROVE  \E r : /\ calls' = [calls EXCEPT ![c] = r] /\ r.kind \in {"none", q.kind}
                      /\ r.pc # "heal" /\ ~Adds(r)
    <3> PICK n : n = IF q.kind = "approve" THEN OpenedLevel(s) ELSE 0
      OBVIOUS
    <3> PICK t : t = IF q.kind = "approve" /\ ~Completes(rows, s) THEN "none" ELSE q.to
      OBVIOUS
    <3> PICK r : r = [q EXCEPT !.pc = "row", !.slot = s, !.level = n, !.to = t]
      OBVIOUS
    <3>1. r.pc = "row" /\ r.kind = q.kind
      BY <1>0 DEF Call
    <3>2. calls' = [calls EXCEPT ![c] = r]
      BY <2>2
    <3> QED BY <3>1, <3>2 DEF Adds
  <2> QED BY <2>1, <2>2 DEF ReadChain, Answer
<1>3. ~Adds(q) /\ q.kind # "withdraw"
  BY <1>0 DEF Adds, Deciding, Stops
<1> QED BY <1>0, <1>1, <1>2, <1>3, RouteStep DEF InFinance

LEMMA WriteRowRoute ==
  ASSUME FullInv, NEW c \in Calls, WriteRow(c)
  PROVE  RouteInv'
<1> PICK q : q = calls[c]
  OBVIOUS
<1>0. TypeInv /\ RouteInv /\ q \in Call /\ Sound(q) /\ q.pc = "row" /\ q.kind \in Deciding
  BY CallOf DEF WriteRow, FullInv, ConcInv, Sound
<1>1. UNCHANGED <<status, routed>> /\ DOMAIN rows' = DOMAIN rows
  BY DEF WriteRow
<1>2. PICK r : /\ calls' = [calls EXCEPT ![c] = r] /\ r.kind \in {"none", q.kind}
               /\ r.pc # "heal" /\ ~Adds(r)
  <2>1. CASE Answer(c)
    BY <2>1, IdleFields DEF Answer, Adds
  <2>2. ASSUME NEW p \in {"status", "level"}, Goto(c, p)
        PROVE  \E r : /\ calls' = [calls EXCEPT ![c] = r] /\ r.kind \in {"none", q.kind}
                      /\ r.pc # "heal" /\ ~Adds(r)
    <3>1. PICK r \in Call : calls' = [calls EXCEPT ![c] = r] /\ r.pc = p /\ r.kind = q.kind
      BY <1>0, <2>2, GoneTo DEF Pcs
    <3> QED BY <1>0, <3>1 DEF Adds, Deciding, Stops
  <2> QED BY <2>1, <2>2 DEF WriteRow
<1>3. ~Adds(q) /\ q.kind # "withdraw"
  BY <1>0 DEF Adds, Deciding, Stops
<1> QED BY <1>0, <1>1, <1>2, <1>3, RouteStep DEF InFinance

\* A call that answers after a step that loses no row and writes no status.
LEMMA AnswerRoute ==
  ASSUME TypeInv, RouteInv, NEW c \in Calls, calls[c].kind \notin {"withdraw", "submit"},
         calls' = [calls EXCEPT ![c] = Idle], UNCHANGED <<status, routed>>,
         DOMAIN rows \subseteq DOMAIN rows'
  PROVE  RouteInv'
<1>1. Idle.kind = "none" /\ Idle.pc # "heal" /\ ~Adds(Idle) /\ ~Adds(calls[c])
  BY IdleFields DEF Adds
<1> QED BY <1>1, RouteStep DEF InFinance

LEMMA WriteLevelRoute ==
  ASSUME FullInv, NEW c \in Calls, WriteLevel(c)
  PROVE  RouteInv'
<1>1. TypeInv /\ RouteInv /\ calls[c].kind = "approve"
  BY CallOf DEF WriteLevel, FullInv, ConcInv, Sound
<1> QED BY <1>1, AnswerRoute DEF WriteLevel, Answer

LEMMA BackfillRoute ==
  ASSUME FullInv, NEW c \in Calls, Backfill(c)
  PROVE  RouteInv'
<1>1. TypeInv /\ RouteInv /\ calls[c].kind = "inbox"
  BY CallOf DEF Backfill, FullInv, ConcInv, Sound
<1> QED BY <1>1, AnswerRoute DEF Backfill, Answer

LEMMA InsertRowRoute ==
  ASSUME FullInv, NEW c \in Calls, InsertRow(c)
  PROVE  RouteInv'
<1> PICK q : q = calls[c]
  OBVIOUS
<1>0. TypeInv /\ RouteInv /\ q \in Call /\ q.kind = "submit" /\ q.pc = "insert"
  BY CallOf DEF InsertRow, FullInv, ConcInv, Sound
<1>1. PICK s, left, p :
        /\ left = q.todo \ {s} /\ p \in {"status", "insert"}
        /\ DOMAIN rows' = DOMAIN rows \union {s}
        /\ calls' = [calls EXCEPT ![c].todo = left, ![c].pc = p]
  <2>1. PICK s \in FirstLevel(q.todo) :
          /\ rows' = [t \in DOMAIN rows \union {s} |->
               IF t = s THEN [decision |-> "pending", locked |-> s.step > q.level]
               ELSE rows[t]]
          /\ calls' = [calls EXCEPT ![c].todo = q.todo \ {s},
                                    ![c].pc = IF q.todo \ {s} = {} THEN "status" ELSE "insert"]
    BY DEF InsertRow
  <2> QED BY <2>1
<1> PICK r : r = [[q EXCEPT !.todo = left] EXCEPT !.pc = p]
  OBVIOUS
<1>2. calls' = [calls EXCEPT ![c] = r]
  BY <1>0, <1>1 DEF TypeInv
<1>3. r.kind = "submit" /\ r.pc = p /\ r.todo = left
  BY <1>0, <1>1 DEF Call
<1>4. Adds(q) /\ Adds(r) /\ r.pc # "heal"
  BY <1>0, <1>1, <1>3 DEF Adds
<1>5. q.todo \subseteq DOMAIN rows' \union r.todo
  BY <1>1, <1>3
<1>6. UNCHANGED <<status, routed>> /\ DOMAIN rows \subseteq DOMAIN rows'
  BY <1>1 DEF InsertRow
<1> QED BY <1>0, <1>2, <1>3, <1>4, <1>5, <1>6, RouteStep DEF InFinance

\* Beside what takes the chain away nobody waits for it but by the status.
LEMMA TakingAlone ==
  ASSUME TypeInv, PairInv, Apart, NEW c \in Calls, calls[c].kind \in Takings
  PROVE  \A d \in Calls : /\ calls[d].kind \notin Deciding \union Finance
                          /\ ~Adds(calls[d])
<1>1. calls[c].pc # "idle"
  BY DEF TypeInv, Sound, Takings
<1>2. ASSUME NEW d \in Calls
      PROVE  calls[d].kind \in {"none", "inbox", "cancel"} \union Takings
  BY <1>1, Companions
<1> QED BY <1>2 DEF Deciding, Stops, Takings, Finance, Adds

LEMMA DeleteRowsRoute ==
  ASSUME FullInv, Apart, NEW c \in Calls, DeleteRows(c)
  PROVE  RouteInv'
<1> PICK q : q = calls[c]
  OBVIOUS
<1>0. /\ TypeInv /\ PairInv /\ RouteInv /\ q \in Call /\ Sound(q) /\ Starts(q)
      /\ q.pc = "delete" /\ q.kind \in {"submit"} \union Takings /\ Keeps(q, status)
  BY CallOf DEF DeleteRows, FullInv, ConcInv, EachInv, Sound
<1> PICK p : p = IF q.kind = "submit" THEN "insert" ELSE "status"
  OBVIOUS
<1>1. PICK r \in Call :
        /\ calls' = [calls EXCEPT ![c] = r]
        /\ r.pc = p /\ r.kind = q.kind /\ r.slot = q.slot
        /\ r.level = q.level /\ r.to = q.to /\ r.todo = q.todo
  <2>1. p \in Pcs /\ Goto(c, p)
    BY DEF DeleteRows, Pcs
  <2> QED BY <1>0, <2>1, GoneTo
<1>2. rows' = NoRows /\ status' = status /\ status \notin {"in_finance", "paid"}
  BY <1>0 DEF DeleteRows, Keeps
<1>3. calls'[c] = r /\ \A d \in Calls \ {c} : calls'[d] = calls[d]
  BY <1>0, <1>1 DEF TypeInv
<1>4. CASE q.kind = "submit"
  <2>1. \A d \in Calls : calls'[d].kind \in {"none", "submit", "cancel"}
    BY <1>0, <1>1, <1>3, <1>4, Companions
  <2>2. ~InFinance'
    BY <1>2, <2>1 DEF InFinance, Finance
  <2>3. routed' = q.todo /\ q.todo # {}
    BY <1>0, <1>4 DEF DeleteRows, Starts
  <2>4. Adds(calls'[c]) /\ calls'[c].todo = q.todo
    BY <1>1, <1>3, <1>4 DEF Adds
  <2>5. q.todo \subseteq Coming'
    BY <2>4 DEF Coming, Adds
  <2>6. Routed'
    BY <2>3, <2>5 DEF Routed
  <2>7. ~Healing'
    <3>1. \A d \in Calls : Sound(calls'[d])
      BY <1>0, <1>1, <1>3, <1>4, CallOf DEF Sound, Starts, Takings, Stops
    <3> QED BY <2>1, <3>1 DEF Healing, Sound
  <2> QED BY <2>2, <2>6, <2>7 DEF RouteInv, HealInv
<1>5. CASE q.kind \in Takings
  <2>1. \A d \in Calls : calls'[d].kind \notin Deciding \union Finance /\ ~Adds(calls'[d])
    <3>1. \A d \in Calls : calls[d].kind \notin Deciding \union Finance /\ ~Adds(calls[d])
      BY <1>0, <1>5, TakingAlone
    <3>2. r.kind \notin Deciding \union Finance /\ ~Adds(r)
      BY <1>1, <1>5 DEF Deciding, Stops, Finance, Takings, Adds
    <3> QED BY <1>3, <3>1, <3>2
  <2>2. ~InFinance'
    BY <1>2, <2>1 DEF InFinance
  <2>3. Waiting' => Withdrawing'
    <3>1. SUFFICES ASSUME Waiting' PROVE Withdrawing'
      OBVIOUS
    <3>2. status = "pending_approval"
      BY <1>2, <2>1, <3>1 DEF Waiting, Adds
    <3>3. q.kind = "withdraw"
      BY <1>0, <1>5, <3>2 DEF Keeps, Takings
    <3> QED BY <1>1, <1>3, <3>3 DEF Withdrawing
  <2>4. r.pc # "heal" /\ r.kind = q.kind
    BY <1>1
  <2>5. HealInv'
    BY <1>0, <1>1, <1>2, <2>4, HealKept
  <2> QED BY <2>2, <2>3, <2>5 DEF RouteInv
<1> QED BY <1>0, <1>4, <1>5

LEMMA WriteStatusRoute ==
  ASSUME FullInv, Apart, NEW c \in Calls, WriteStatus(c)
  PROVE  RouteInv'
<1> PICK q : q = calls[c]
  OBVIOUS
<1>0. /\ TypeInv /\ PairInv /\ RouteInv /\ q \in Call /\ Sound(q) /\ q.pc = "status"
      /\ q.kind \in AllKinds
  BY CallOf, CallAssumption DEF WriteStatus, FullInv, ConcInv, Sound, Call
<1>1. /\ status' = q.to /\ UNCHANGED <<rows, routed>> /\ calls' = [calls EXCEPT ![c] = Idle]
  BY DEF WriteStatus, Answer
<1>2. calls'[c] = Idle /\ \A d \in Calls \ {c} : calls'[d] = calls[d]
  BY <1>0, <1>1 DEF TypeInv
<1>3. /\ Idle.kind = "none" /\ Idle.pc # "heal" /\ ~Adds(Idle)
  BY IdleFields DEF Adds
<1>4. CASE q.kind = "withdraw"
  <2>1. \A d \in Calls : calls[d].kind \notin Deciding \union Finance /\ ~Adds(calls[d])
    BY <1>0, <1>4, TakingAlone DEF Takings
  <2>2. \A d \in Calls : calls'[d].kind \notin Deciding \union Finance /\ ~Adds(calls'[d])
    BY <1>2, <1>3, <2>1 DEF Deciding, Stops, Finance
  <2>3. status' = "draft"
    BY <1>0, <1>1, <1>4 DEF Sound, Takings
  <2>4. ~Waiting' /\ ~InFinance'
    BY <2>2, <2>3 DEF Waiting, InFinance, Adds
  <2>5. HealInv'
    BY <1>0, <1>1, <1>3, <2>3, HealKept
  <2> QED BY <2>4, <2>5 DEF RouteInv
<1>5. CASE q.kind # "withdraw"
  <2>1. q.to = "pending_approval" => q.kind = "submit"
    BY <1>0 DEF Sound, AllKinds, Takings, Stops
  <2>2. q.kind = "submit" => Adds(q) /\ q.todo = {}
    BY <1>0 DEF Sound, Adds
  <2>3. Adds(q) => q.kind = "submit"
    BY DEF Adds
  <2>4. q.to \in {"in_finance", "paid"} => InFinance \/ Stands(rows)
    <3>1. SUFFICES ASSUME q.to \in {"in_finance", "paid"} PROVE InFinance \/ Stands(rows)
      OBVIOUS
    <3>2. q.kind \in {"approve"} \union Finance
      BY <1>0, <3>1 DEF Sound, AllKinds, Takings, Stops, Finance
    <3>3. CASE q.kind \in Finance
      BY <3>3 DEF InFinance
    <3>4. CASE q.kind = "approve"
      <4>1. \A d \in Calls : calls[d].kind \in {"none", "approve", "inbox", "cancel"}
        BY <1>0, <3>4, Companions
      <4>2. ~Withdrawing
        BY <4>1 DEF Withdrawing
      <4>3. Coming = {}
        BY <4>1 DEF Coming, Adds
      <4>4. Waiting
        BY <3>4 DEF Waiting, Deciding
      <4>5. Routed
        BY <1>0, <4>2, <4>4 DEF RouteInv
      <4> QED BY <4>3, <4>5 DEF Routed, Stands
    <3> QED BY <3>2, <3>3, <3>4
  <2> QED BY <1>0, <1>1, <1>3, <1>5, <2>1, <2>2, <2>3, <2>4, RouteStep
<1> QED BY <1>4, <1>5

LEMMA ReadStepsRoute ==
  ASSUME FullInv, Apart, NEW c \in Calls, ReadSteps(c)
  PROVE  RouteInv'
<1>0. TypeInv /\ RouteInv /\ calls[c].pc = "look" /\ calls[c].kind = "inbox"
  BY CallOf DEF ReadSteps, FullInv, ConcInv, Sound
<1>1. UNCHANGED <<status, rows, routed>>
  BY DEF ReadSteps
<1>2. CASE calls' = [calls EXCEPT ![c] = Idle]
  BY <1>0, <1>1, <1>2, AnswerRoute
<1>3. ASSUME NEW p, DOMAIN rows = {},
             calls' = [calls EXCEPT ![c].pc = "heal", ![c].slot = p]
      PROVE  RouteInv'
  <2>1. PICK r : /\ calls' = [calls EXCEPT ![c] = r]
                 /\ r.pc = "heal" /\ r.kind = "inbox" /\ r.slot = p
    BY <1>0, <1>3, HealRecord
  <2>2. calls'[c] = r /\ \A d \in Calls \ {c} : calls'[d] = calls[d]
    BY <1>0, <2>1 DEF TypeInv
  <2>3. /\ ~InFinance
        /\ status = "pending_approval" => Withdrawing
        /\ \A d \in Calls : calls[d].kind \in {"none", "inbox", "cancel"} \union Takings
    BY <1>0, <1>3, NothingFound
  <2>4. Withdrawing => Withdrawing'
    BY <1>0, <2>2 DEF Withdrawing
  <2>5. \A d \in Calls : calls'[d].kind \in {"none", "inbox", "cancel"} \union Takings
    BY <2>1, <2>2, <2>3
  <2>6. HealInv'
    BY <1>1, <2>3, <2>4, <2>5 DEF HealInv
  <2>7. ~Adds(r) /\ ~Adds(calls[c]) /\ r.kind \notin Deciding \union Finance
    BY <1>0, <2>1 DEF Adds, Deciding, Stops, Finance
  <2>8. /\ Waiting' => Withdrawing' \/ Routed'
        /\ InFinance' => Stands(rows)'
    BY <1>0, <1>1, <2>1, <2>7, RouteKept DEF Waiting, InFinance
  <2> QED BY <2>6, <2>8 DEF RouteInv, Stands
<1> QED BY <1>2, <1>3 DEF ReadSteps, Answer

LEMMA DieRoute ==
  ASSUME FullInv, ChainsFinish, NEW c \in Calls, Die(c)
  PROVE  RouteInv'
<1>0. /\ TypeInv /\ PairInv /\ RouteInv /\ calls[c].kind # "withdraw" /\ calls[c].pc # "idle"
      /\ Keeps(calls[c], status)
  BY DEF Die, FullInv, ConcInv, EachInv, ChainsFinish
<1>1. calls' = [calls EXCEPT ![c] = Idle] /\ UNCHANGED <<status, rows, routed>>
  BY DEF Die, Answer
<1>2. CASE calls[c].kind # "submit"
  BY <1>0, <1>1, <1>2, AnswerRoute
<1>3. CASE calls[c].kind = "submit"
  <2>1. Lone("submit")
    BY <1>3 DEF Die, ChainsFinish
  <2>2. \A d \in Calls \ {c} : calls[d].pc = "idle"
    BY <1>0, <1>3, <2>1 DEF PairInv, Together, Lone
  <2>3. \A d \in Calls : calls'[d].pc = "idle" /\ calls'[d].kind = "none"
    BY <1>0, <1>1, <2>2, IdleFields DEF TypeInv, Sound
  <2>4. status \notin {"in_finance", "paid", "pending_approval"}
    BY <1>0, <1>3, <2>1 DEF Keeps
  <2>5. ~Waiting' /\ ~InFinance' /\ ~Healing'
    BY <1>1, <2>3, <2>4 DEF Waiting, InFinance, Healing, Adds, Deciding, Stops, Finance
  <2> QED BY <2>5 DEF RouteInv, HealInv
<1> QED BY <1>2, <1>3

LEMMA CameRoute ==
  ASSUME FullInv, Apart, NEW c \in Calls, NEW r, calls[c].pc = "idle", MayCome(r.kind),
         calls' = [calls EXCEPT ![c] = r], UNCHANGED <<status, rows, routed>>,
         r.pc # "heal", ~Adds(r),
         r.kind \in Deciding => status = "pending_approval",
         r.kind \in Finance => status \in {"in_finance", "paid"}
  PROVE  RouteInv'
<1>0. TypeInv /\ EachInv /\ RouteInv /\ calls[c].kind = "none" /\ r.kind \in AllKinds
  BY CallAssumption DEF FullInv, ConcInv, TypeInv, Sound, MayCome
<1>1. calls'[c] = r /\ \A d \in Calls \ {c} : calls'[d] = calls[d]
  BY <1>0 DEF TypeInv
<1>2. /\ Waiting' => Withdrawing' \/ Routed'
      /\ InFinance' => Stands(rows)'
  <2>1. ~Adds(calls[c])
    BY <1>0 DEF Adds
  <2> QED BY <1>0, <2>1, RouteKept DEF Waiting, InFinance
<1>3. HealInv'
  <2>1. SUFFICES ASSUME Healing' PROVE HealInv'
    BY DEF HealInv
  <2>2. PICK h \in Calls : calls[h].pc = "heal"
    BY <1>1, <2>1 DEF Healing
  <2>3. /\ status = "pending_approval" => Withdrawing
        /\ \A d \in Calls : calls[d].kind \in {"none", "inbox", "cancel"} \union Takings
    BY <1>0, <2>2 DEF RouteInv, HealInv, Healing
  <2>4. calls[h].kind = "inbox" /\ status \notin {"in_finance", "paid"}
    BY <1>0, <2>2 DEF TypeInv, Sound, EachInv, Keeps
  <2>5. PICK g \in Overlap : r.kind \in g /\ \A d \in Calls : calls[d].kind \in g \union {"none"}
    BY <2>2 DEF MayCome, Quiet
  <2>6. "inbox" \in g
    BY <2>4, <2>5
  <2>7. r.kind # "submit"
    BY <2>5, <2>6 DEF Apart, Stops, Takings, Finance
  <2>8. r.kind \notin Deciding
    <3>1. SUFFICES ASSUME r.kind \in Deciding PROVE FALSE
      OBVIOUS
    <3>2. PICK w \in Calls : calls[w].kind = "withdraw"
      BY <2>3, <3>1 DEF Withdrawing
    <3>3. "withdraw" \in g
      BY <2>5, <3>2
    <3> QED BY <2>5, <3>1, <3>3 DEF Apart, Deciding, Stops, Takings, Finance
  <2>9. r.kind \notin Finance
    BY <2>4
  <2>10. r.kind \in {"inbox", "cancel"} \union Takings
    BY <1>0, <2>7, <2>8, <2>9 DEF AllKinds, Deciding, Stops, Takings, Finance
  <2>11. \A d \in Calls : calls'[d].kind \in {"none", "inbox", "cancel"} \union Takings
    BY <1>1, <2>3, <2>10
  <2>12. Withdrawing => Withdrawing'
    BY <1>0, <1>1 DEF Withdrawing
  <2> QED BY <2>3, <2>11, <2>12 DEF HealInv
<1> QED BY <1>2, <1>3 DEF RouteInv, Stands

LEMMA ArriveRoute ==
  ASSUME FullInv, Apart, NEW c \in Calls, NEW u, NEW k, NEW p, NEW t, Arrive(c, u, k, p, t),
         \/ k \in Deciding /\ status = "pending_approval"
         \/ k \in Finance /\ status \in {"in_finance", "paid"}
         \/ k \in Takings \union {"cancel", "inbox"},
         p # "heal"
  PROVE  RouteInv'
<1> PICK r : r = [Idle EXCEPT !.kind = k, !.user = u, !.pc = p, !.to = t]
  OBVIOUS
<1>1. /\ calls[c].pc = "idle" /\ MayCome(k) /\ calls' = [calls EXCEPT ![c] = r]
      /\ UNCHANGED <<status, rows, routed>>
  BY DEF Arrive
<1>2. r.kind = k /\ r.pc = p
  BY IdleFields DEF Call
<1>3. ~Adds(r)
  BY <1>2 DEF Adds, Deciding, Stops, Takings, Finance
<1>4. /\ k \in Deciding => status = "pending_approval"
      /\ k \in Finance => status \in {"in_finance", "paid"}
  BY DEF Deciding, Stops, Takings, Finance
<1> QED BY <1>1, <1>2, <1>3, <1>4, CameRoute

LEMMA ArriveSubmitRoute ==
  ASSUME FullInv, Apart, NEW c \in Calls, ArriveSubmit(c)
  PROVE  RouteInv'
<1>1. PICK n, todo : calls' = [calls EXCEPT ![c] = [Idle EXCEPT
             !.kind = "submit", !.user = Requestor, !.pc = "delete",
             !.to = "pending_approval", !.level = n, !.todo = todo]]
  BY DEF ArriveSubmit
<1> PICK r : r = [Idle EXCEPT !.kind = "submit", !.user = Requestor, !.pc = "delete",
                              !.to = "pending_approval", !.level = n, !.todo = todo]
  OBVIOUS
<1>2. calls' = [calls EXCEPT ![c] = r]
  BY <1>1
<1>3. r.kind = "submit" /\ r.pc = "delete"
  BY IdleFields DEF Call
<1>4. calls[c].pc = "idle" /\ MayCome("submit") /\ UNCHANGED <<status, rows, routed>>
  BY DEF ArriveSubmit
<1>5. r.pc # "heal" /\ ~Adds(r) /\ r.kind \notin Deciding \union Finance
  BY <1>3 DEF Adds, Deciding, Stops, Finance
<1> QED BY <1>2, <1>3, <1>4, <1>5, CameRoute

LEMMA ComeRoute ==
  ASSUME FullInv, Apart, NEW c \in Calls, Come(c)
  PROVE  RouteInv'
<1>1. CASE ArriveSubmit(c)
  BY <1>1, ArriveSubmitRoute
<1>2. CASE ArriveReopen(c)
  BY <1>2, ArriveRoute DEF ArriveReopen, Takings
<1>3. ASSUME NEW u \in Users, ArriveApprove(c, u) \/ ArriveStop(c, u)
      PROVE  RouteInv'
  BY <1>3, ArriveRoute DEF ArriveApprove, ArriveStop, Deciding, Stops
<1>4. ASSUME NEW u \in Users,
             ArriveWithdraw(c, u) \/ ArriveCancel(c, u) \/ ArriveInbox(c, u)
      PROVE  RouteInv'
  BY <1>4, ArriveRoute DEF ArriveWithdraw, ArriveCancel, ArriveInbox, Takings
<1>5. ASSUME NEW u \in Users, ArriveFinance(c, u)
      PROVE  RouteInv'
  BY <1>5, ArriveRoute DEF ArriveFinance, Finance
<1> QED BY <1>1, <1>2, <1>3, <1>4, <1>5 DEF Come

----------------------------------------------------------------------------
(* The two invariants.                                                     *)

LEMMA ConcInit == Init => ConcInv
<1> SUFFICES ASSUME Init PROVE ConcInv
  OBVIOUS
<1>1. \A c \in Calls : calls[c] = Idle /\ calls[c].pc = "idle" /\ calls[c].kind = "none"
  BY IdleFields DEF Init
<1>2. TypeInv
  BY TypeInit
<1>3. EachInv
  BY <1>1, IdleHolds DEF EachInv
<1>4. PairInv /\ ~Approving
  BY <1>1 DEF PairInv, Approving
<1>5. ChainInv
  BY <1>4 DEF ChainInv, Init
<1> QED BY <1>2, <1>3, <1>4, <1>5 DEF ConcInv

LEMMA FullInit == Init => FullInv
<1> SUFFICES ASSUME Init PROVE FullInv
  OBVIOUS
<1>1. \A c \in Calls : calls[c].pc = "idle" /\ calls[c].kind = "none"
  BY IdleFields DEF Init
<1>2. status = "draft"
  BY DEF Init
<1>3. ~Waiting /\ ~InFinance /\ ~Healing
  BY <1>1, <1>2 DEF Waiting, InFinance, Healing, Adds, Deciding, Stops, Finance
<1> QED BY <1>3, ConcInit DEF FullInv, RouteInv, HealInv

LEMMA FullNext ==
  ASSUME Apart, StopsFinish, ChainsFinish, SubmitsAgree
  PROVE  FullInv /\ [Next]_vars => FullInv'
<1> SUFFICES ASSUME FullInv, [Next]_vars
             PROVE  FullInv'
  OBVIOUS
<1>0. ConcInv /\ RouteInv
  BY DEF FullInv
<1>1. TypeInv'
  BY <1>0, TypeNext DEF ConcInv
<1>2. CASE UNCHANGED vars
  <2>1. status' = status /\ rows' = rows /\ calls' = calls /\ routed' = routed
    BY <1>2 DEF vars
  <2>2. PairInv' /\ EachInv'
    BY <1>0, <2>1 DEF ConcInv, PairInv, EachInv, Together
  <2>3. ChainInv'
    BY <1>0, <2>1 DEF ConcInv, ChainInv, Approving, Refusing, Ordered, Unstopped, SignedAll
  <2>4. RouteInv'
    BY <1>0, <2>1 DEF RouteInv, HealInv, Healing, Waiting, Withdrawing, InFinance, Routed,
         Coming, Adds, Stands
  <2> QED BY <1>1, <2>2, <2>3, <2>4 DEF FullInv, ConcInv
<1>3. ASSUME NEW c \in Calls, Come(c) \/ Proceed(c) \/ Die(c)
      PROVE  PairInv' /\ EachInv' /\ ChainInv'
  BY <1>0, <1>3, ComeConc, ReadChainConc, WriteRowConc, WriteLevelConc, DeleteRowsConc,
       InsertRowConc, WriteStatusConc, ReadStepsConc, BackfillConc, DieConc DEF Proceed
<1>4. ASSUME NEW c \in Calls, Come(c) \/ Proceed(c) \/ Die(c)
      PROVE  RouteInv'
  BY <1>4, ComeRoute, ReadChainRoute, WriteRowRoute, WriteLevelRoute, DeleteRowsRoute,
       InsertRowRoute, WriteStatusRoute, ReadStepsRoute, BackfillRoute, DieRoute DEF Proceed
<1> QED BY <1>1, <1>2, <1>3, <1>4 DEF Next, FullInv, ConcInv

\* Approvals of one chain that overlap with each other, with inboxes that may
\* refill it and with cancels never open a level above an undecided row, and
\* no undecided row appears below an open one: when approvals, refusals,
\* submits and withdrawals do not overlap with one another (Apart), no process
\* is killed between the two writes of a refusal, of a withdrawal or of a
\* submit that overlaps (StopsFinish, ChainsFinish), and submits that overlap
\* start at one level (SubmitsAgree).  The code ensures none of the four.
THEOREM LevelsCorrect ==
  ASSUME Apart, StopsFinish, ChainsFinish, SubmitsAgree
  PROVE  Spec => []LevelsInOrder
<1>1. FullInv => LevelsInOrder
  BY DEF FullInv, ConcInv, ChainInv, Ordered, LevelsInOrder
<1>2. Spec => []FullInv
  BY FullInit, FullNext, PTL DEF Spec
<1> QED BY <1>1, <1>2, PTL

\* Under the same four conditions finance has no request but with every row
\* that the submit routed it to, all of them approved, although the status is
\* written two round trips after the chain was read and an inbox may insert a
\* row of its own.
THEOREM SignedCorrect ==
  ASSUME Apart, StopsFinish, ChainsFinish, SubmitsAgree
  PROVE  Spec => []FullySigned
<1>1. FullInv => FullySigned
  BY DEF FullInv, ConcInv, ChainInv, SignedAll, RouteInv, InFinance, Stands, FullySigned
<1>2. Spec => []FullInv
  BY FullInit, FullNext, PTL DEF Spec
<1> QED BY <1>1, <1>2, PTL

----------------------------------------------------------------------------
(* The chain moves as long as every level has one row, no two calls but    *)
(* approvals and inboxes overlap and none is killed.                       *)

OnlyApprovals == \A g \in Overlap : g \subseteq {"approve", "inbox"}
NobodyDies == MayDie = {}

Distinct(S) == \A s, t \in S : s.step = t.step => s = t
OnePerLevel == \A chain \in SubmittedChains(Amount, Requestor) : Distinct(chain)

\* A submit brings a row of the level it leaves open, and one of each level.
Brings(q, rw) ==
  q.kind = "submit" =>
    /\ q.pc = "delete" => Distinct(q.todo) /\ \E s \in q.todo : s.step = q.level
    /\ q.pc \in {"insert", "status"} =>
         /\ Distinct(DOMAIN rw \union q.todo)
         /\ \E s \in DOMAIN rw \union q.todo : s.step = q.level
    /\ q.pc = "status" => q.todo = {}

\* An approval about to sign an open row knows what comes next.
Continues(q, rw) ==
  q.pc = "row" /\ q.kind = "approve" /\ rw[q.slot].decision = "pending" =>
    \/ q.to # "none"
    \/ \E t \in DOMAIN rw : /\ t.step = q.level /\ q.slot.step < t.step
                            /\ rw[t].decision = "pending"

Opener(q, rw) ==
  q.pc = "level" /\ \E t \in DOMAIN rw : t.step = q.level /\ rw[t].decision = "pending"

\* An inbox finds the chain.
Finds(q, rw) == q.pc # "heal" /\ (q.kind = "inbox" => DOMAIN rw # {})

MoveInv ==
  /\ Distinct(DOMAIN rows)
  /\ \A c \in Calls :
       /\ Brings(calls[c], rows) /\ Continues(calls[c], rows)
       /\ calls[c].kind = "submit" => status # "pending_approval"
       /\ Finds(calls[c], rows)
  /\ status = "pending_approval" =>
       \/ \E s \in DOMAIN rows : Open(rows, s)
       \/ \E c \in Calls : calls[c].pc = "status" \/ Opener(calls[c], rows)

\* A call other than an approval or an inbox is alone.
LEMMA Beside ==
  ASSUME TypeInv, PairInv, OnlyApprovals, NEW c \in Calls, calls[c].pc # "idle",
         NEW d \in Calls \ {c}
  PROVE  /\ calls[d].kind \in {"none", "approve", "inbox"}
         /\ calls[c].kind \notin {"approve", "inbox"} => calls[d].kind = "none"
<1>1. calls[d].kind = "none" <=> calls[d].pc = "idle"
  BY DEF TypeInv, Sound
<1>2. CASE calls[d].kind = "none"
  BY <1>2
<1>3. CASE calls[d].kind # "none"
  <2>1. PICK g \in Overlap : calls[c].kind \in g /\ calls[d].kind \in g
    BY <1>1, <1>3 DEF PairInv, Together
  <2> QED BY <2>1 DEF OnlyApprovals
<1> QED BY <1>2, <1>3

\* Call c goes on to r, beside approvals and inboxes at most.
LEMMA MovedOn ==
  ASSUME TypeInv, PairInv, OnlyApprovals, NEW c \in Calls, calls[c].pc # "idle",
         NEW r, calls' = [calls EXCEPT ![c] = r],
         Distinct(DOMAIN rows'),
         \A d \in Calls \ {c} : Continues(calls[d], rows') /\ Finds(calls[d], rows'),
         Brings(r, rows'), Continues(r, rows'), Finds(r, rows'),
         r.kind = "submit" => status' # "pending_approval",
         status' = "pending_approval" =>
           \/ \E s \in DOMAIN rows' : Open(rows', s)
           \/ \E d \in Calls \ {c} : calls[d].pc = "status" \/ Opener(calls[d], rows')
           \/ r.pc = "status" \/ Opener(r, rows')
  PROVE  MoveInv'
<1>1. calls'[c] = r /\ \A d \in Calls \ {c} : calls'[d] = calls[d]
  BY DEF TypeInv
<1>2. \A d \in Calls \ {c} : calls[d].kind # "submit"
  BY Beside
<1>3. \A d \in Calls : /\ Brings(calls'[d], rows') /\ Continues(calls'[d], rows')
                       /\ Finds(calls'[d], rows')
                       /\ calls'[d].kind = "submit" => status' # "pending_approval"
  BY <1>1, <1>2 DEF Brings
<1>4. status' = "pending_approval" =>
        \/ \E s \in DOMAIN rows' : Open(rows', s)
        \/ \E d \in Calls : calls'[d].pc = "status" \/ Opener(calls'[d], rows')
  BY <1>1
<1> QED BY <1>3, <1>4 DEF MoveInv, Open, Opener, Brings, Continues, Finds, Distinct

LEMMA IdleMoves ==
  ASSUME NEW rw
  PROVE  /\ Brings(Idle, rw) /\ Continues(Idle, rw) /\ Finds(Idle, rw)
         /\ Idle.kind # "submit"
<1>1. Idle.pc = "idle" /\ Idle.kind = "none"
  BY IdleFields
<1> QED BY <1>1 DEF Brings, Continues, Finds

\* A step that leaves the rows there are.
LEMMA FindsKept ==
  ASSUME MoveInv, DOMAIN rows' = DOMAIN rows, NEW d \in Calls
  PROVE  Finds(calls[d], rows')
<1>1. Finds(calls[d], rows)
  BY DEF MoveInv
<1> QED BY <1>1 DEF Finds

LEMMA ReadChainMoves ==
  ASSUME ConcInv, MoveInv, OnlyApprovals, NEW c \in Calls, ReadChain(c)
  PROVE  MoveInv'
<1> PICK q : q = calls[c]
  OBVIOUS
<1>0. /\ TypeInv /\ PairInv /\ q \in Call /\ q.pc = "chain" /\ q.kind \in Deciding /\ Sound(q)
      /\ q.pc # "idle" /\ q.kind # "submit"
  BY CallOf DEF ReadChain, ConcInv, Sound, Deciding, Stops
<1>1. status' = status /\ rows' = rows
  BY DEF ReadChain
<1>2. /\ Distinct(DOMAIN rows')
      /\ \A d \in Calls \ {c} : Continues(calls[d], rows') /\ Finds(calls[d], rows')
  BY <1>1, FindsKept DEF MoveInv
<1>3. status' = "pending_approval" =>
        \/ \E s \in DOMAIN rows' : Open(rows', s)
        \/ \E d \in Calls \ {c} : calls[d].pc = "status" \/ Opener(calls[d], rows')
  <2>1. calls[c].pc # "status" /\ ~Opener(calls[c], rows)
    BY <1>0 DEF Opener
  <2> QED BY <1>1, <2>1 DEF MoveInv
<1>4. CASE calls' = [calls EXCEPT ![c] = Idle]
  <2>1. /\ Brings(Idle, rows') /\ Continues(Idle, rows') /\ Finds(Idle, rows')
        /\ Idle.kind # "submit"
    BY IdleMoves
  <2> QED BY <1>0, <1>2, <1>3, <1>4, <2>1, MovedOn
<1>5. ASSUME NEW s \in Picked(rows, q.user),
             calls' = [calls EXCEPT ![c] = [q EXCEPT
               !.pc = "row", !.slot = s,
               !.level = IF q.kind = "approve" THEN OpenedLevel(s) ELSE 0,
               !.to = IF q.kind = "approve" /\ ~Completes(rows, s) THEN "none" ELSE @]]
      PROVE  MoveInv'
  <2> PICK n : n = IF q.kind = "approve" THEN OpenedLevel(s) ELSE 0
    OBVIOUS
  <2> PICK t : t = IF q.kind = "approve" /\ ~Completes(rows, s) THEN "none" ELSE q.to
    OBVIOUS
  <2> PICK r : r = [q EXCEPT !.pc = "row", !.slot = s, !.level = n, !.to = t]
    OBVIOUS
  <2>1. s \in DOMAIN rows /\ rows[s].decision = "pending" /\ ~rows[s].locked
    BY PickedOpen
  <2>2. /\ r.pc = "row" /\ r.kind = q.kind /\ r.slot = s /\ r.level = n /\ r.to = t
    BY <1>0 DEF Call
  <2>3. Continues(r, rows)
    <3>1. SUFFICES ASSUME q.kind = "approve", t = "none"
                   PROVE  \E x \in DOMAIN rows : /\ x.step = n /\ s.step < x.step
                                                 /\ rows[x].decision = "pending"
      BY <2>2 DEF Continues
    <3>2. ~Completes(rows, s)
      BY <1>0, <3>1 DEF Sound
    <3>3. Siblings(rows, s) = {}
      BY <2>1 DEF MoveInv, Distinct, Siblings
    <3>4. LaterLocked(rows, s) # {}
      BY <3>2, <3>3 DEF Completes
    <3>5. PICK x \in LaterLocked(rows, s) : OpenedLevel(s) = x.step
      BY <1>0, <2>1, <3>3, <3>4, OpenedFacts
    <3>6. x \in DOMAIN rows /\ x.step > s.step /\ rows[x].decision = "pending"
      BY <3>5 DEF LaterLocked
    <3>7. \A y \in DOMAIN rows : y.step \in Nat
      BY <1>0 DEF TypeInv, RowsOK, PlacedSlots
    <3>8. s.step < x.step
      BY <2>1, <3>6, <3>7
    <3> QED BY <3>1, <3>5, <3>6, <3>8
  <2>4. Brings(r, rows) /\ r.kind # "submit"
    BY <1>0, <2>2 DEF Brings
  <2>5. calls' = [calls EXCEPT ![c] = r]
    BY <1>5
  <2>6. Brings(r, rows') /\ Continues(r, rows') /\ Finds(r, rows')
    BY <1>0, <1>1, <2>2, <2>3, <2>4 DEF Finds, Deciding, Stops
  <2> QED BY <1>0, <1>2, <1>3, <2>4, <2>5, <2>6, MovedOn
<1> QED BY <1>4, <1>5 DEF ReadChain, Answer

LEMMA ApproveRowMoves ==
  ASSUME ConcInv, MoveInv, Apart, OnlyApprovals, NEW c \in Calls, calls[c].kind = "approve",
         WriteRow(c)
  PROVE  MoveInv'
<1> PICK q : q = calls[c]
  OBVIOUS
<1>0. /\ TypeInv /\ PairInv /\ RowsOK(rows) /\ q \in Call /\ Sound(q) /\ q.pc = "row"
      /\ q.pc # "idle" /\ q.kind = "approve" /\ Aimed(q, rows) /\ status' = status
      /\ Continues(q, rows)
  BY CallOf DEF WriteRow, ConcInv, EachInv, TypeInv, Holds, MoveInv
<1> PICK s : s = q.slot
  OBVIOUS
<1>1. s \in DOMAIN rows /\ ~rows[s].locked
  BY <1>0 DEF Aimed
<1> PICK new : new = [rows EXCEPT ![s].decision = "approved"]
  OBVIOUS
<1>2. rows' = new
  BY <1>0, <1>1 DEF WriteRow
<1>3. /\ DOMAIN new = DOMAIN rows
      /\ new[s].decision = "approved"
      /\ \A t \in DOMAIN rows \ {s} : new[t].decision = rows[t].decision
      /\ \A t \in DOMAIN rows : new[t].locked = rows[t].locked
  BY <1>0, <1>1, RowDecided
<1>4. Ordered(rows)
  BY <1>0, ApproveFinds
<1>5. Distinct(DOMAIN rows')
  BY <1>2, <1>3 DEF MoveInv
<1>6. ASSUME NEW d \in Calls \ {c}
      PROVE  Continues(calls[d], new)
  <2> PICK p : p = calls[d]
    OBVIOUS
  <2>1. SUFFICES ASSUME p.pc = "row", p.kind = "approve", new[p.slot].decision = "pending",
                        p.to = "none"
                 PROVE  \E t \in DOMAIN new : /\ t.step = p.level /\ p.slot.step < t.step
                                              /\ new[t].decision = "pending"
    BY DEF Continues
  <2>2. p.slot \in DOMAIN rows
    BY <2>1 DEF ConcInv, EachInv, Holds, Aimed
  <2>3. p.slot # s /\ rows[p.slot].decision = "pending"
    BY <1>3, <2>1, <2>2
  <2>4. PICK t \in DOMAIN rows : /\ t.step = p.level /\ p.slot.step < t.step
                                 /\ rows[t].decision = "pending"
    BY <2>1, <2>3 DEF MoveInv, Continues
  <2>5. rows[t].locked
    BY <1>4, <2>2, <2>3, <2>4 DEF Ordered
  <2>6. t # s
    BY <1>1, <2>5
  <2> QED BY <1>3, <2>4, <2>6
<1>7. ASSUME status = "pending_approval", rows[s].decision # "pending"
      PROVE  \/ \E t \in DOMAIN new : Open(new, t)
             \/ \E d \in Calls \ {c} : calls[d].pc = "status" \/ Opener(calls[d], new)
  <2>1. \A t \in DOMAIN rows : rows[t].decision = "pending" =>
          new[t].decision = "pending" /\ new[t].locked = rows[t].locked
    BY <1>3, <1>7
  <2>2. CASE \E t \in DOMAIN rows : Open(rows, t)
    BY <1>3, <2>1, <2>2 DEF Open
  <2>3. CASE \E d \in Calls : calls[d].pc = "status" \/ Opener(calls[d], rows)
    <3>1. PICK d \in Calls : calls[d].pc = "status" \/ Opener(calls[d], rows)
      BY <2>3
    <3>2. d # c
      BY <1>0, <3>1 DEF Opener
    <3> QED BY <1>3, <2>1, <3>1, <3>2 DEF Opener
  <2> QED BY <1>7, <2>2, <2>3 DEF MoveInv
<1>8. ASSUME rows[s].decision = "pending", q.to = "none"
      PROVE  \E t \in DOMAIN new : /\ t.step = q.level /\ s.step < t.step
                                   /\ new[t].decision = "pending"
  <2>1. PICK t \in DOMAIN rows : /\ t.step = q.level /\ s.step < t.step
                                 /\ rows[t].decision = "pending"
    BY <1>0, <1>8 DEF Continues
  <2>2. rows[t].locked
    BY <1>1, <1>4, <1>8, <2>1 DEF Ordered
  <2>3. t # s
    BY <1>1, <2>2
  <2> QED BY <1>3, <2>1, <2>3
<1>9. \A d \in Calls \ {c} : Continues(calls[d], rows') /\ Finds(calls[d], rows')
  BY <1>2, <1>3, <1>6, FindsKept
<1>10. CASE q.to = "none" /\ q.level = 0 /\ calls' = [calls EXCEPT ![c] = Idle]
  <2>1. rows[s].decision # "pending"
    <3>1. SUFFICES ASSUME rows[s].decision = "pending" PROVE FALSE
      OBVIOUS
    <3>2. PICK t \in DOMAIN rows : t.step = q.level /\ s.step < t.step
      BY <1>3, <1>8, <1>10, <3>1
    <3>3. t.step \in Nat /\ s.step \in Nat
      BY <1>0, <1>1 DEF RowsOK, PlacedSlots
    <3> QED BY <1>10, <3>2, <3>3
  <2>2. /\ Brings(Idle, rows') /\ Continues(Idle, rows') /\ Finds(Idle, rows')
        /\ Idle.kind # "submit"
    BY IdleMoves
  <2>3. status' = "pending_approval" =>
          \/ \E t \in DOMAIN rows' : Open(rows', t)
          \/ \E d \in Calls \ {c} : calls[d].pc = "status" \/ Opener(calls[d], rows')
    BY <1>0, <1>2, <1>7, <2>1
  <2> QED BY <1>0, <1>5, <1>9, <1>10, <2>2, <2>3, MovedOn
<1>11. CASE q.to # "none" /\ Goto(c, "status")
  <2>1. PICK r \in Call : /\ calls' = [calls EXCEPT ![c] = r]
                          /\ r.pc = "status" /\ r.kind = "approve"
    BY <1>0, <1>11, GoneTo DEF Pcs
  <2>2. Brings(r, rows') /\ Continues(r, rows') /\ Finds(r, rows') /\ r.kind # "submit"
    BY <2>1 DEF Brings, Continues, Finds
  <2> QED BY <1>0, <1>5, <1>9, <2>1, <2>2, MovedOn
<1>12. CASE q.to = "none" /\ Goto(c, "level")
  <2>1. PICK r \in Call : /\ calls' = [calls EXCEPT ![c] = r]
                          /\ r.pc = "level" /\ r.kind = "approve" /\ r.level = q.level
    BY <1>0, <1>12, GoneTo DEF Pcs
  <2>2. Brings(r, rows') /\ Continues(r, rows') /\ Finds(r, rows') /\ r.kind # "submit"
    BY <2>1 DEF Brings, Continues, Finds
  <2>3. rows[s].decision = "pending" => Opener(r, rows')
    BY <1>2, <1>8, <1>12, <2>1 DEF Opener
  <2>4. status' = "pending_approval" =>
          \/ \E t \in DOMAIN rows' : Open(rows', t)
          \/ \E d \in Calls \ {c} : calls[d].pc = "status" \/ Opener(calls[d], rows')
          \/ r.pc = "status" \/ Opener(r, rows')
    BY <1>0, <1>2, <1>7, <2>3
  <2> QED BY <1>0, <1>5, <1>9, <2>1, <2>2, <2>4, MovedOn
<1> QED BY <1>0, <1>10, <1>11, <1>12 DEF WriteRow, Answer

LEMMA RefuseRowMoves ==
  ASSUME ConcInv, MoveInv, OnlyApprovals, NEW c \in Calls, calls[c].kind \in Stops,
         WriteRow(c)
  PROVE  MoveInv'
<1> PICK q : q = calls[c]
  OBVIOUS
<1>0. /\ TypeInv /\ PairInv /\ q \in Call /\ Sound(q) /\ q.pc = "row" /\ q.pc # "idle"
      /\ q.kind \in Stops
  BY CallOf DEF WriteRow, ConcInv, TypeInv
<1>1. Goto(c, "status")
  BY <1>0 DEF WriteRow, Sound, Stops
<1>2. PICK r \in Call : /\ calls' = [calls EXCEPT ![c] = r]
                        /\ r.pc = "status" /\ r.kind = q.kind
  BY <1>0, <1>1, GoneTo DEF Pcs
<1>3. Distinct(DOMAIN rows')
  <2>1. DOMAIN rows' = DOMAIN rows
    BY DEF WriteRow
  <2> QED BY <2>1 DEF MoveInv
<1>4. ASSUME NEW d \in Calls \ {c}
      PROVE  Continues(calls[d], rows') /\ Finds(calls[d], rows')
  <2>1. calls[d].kind = "none"
    BY <1>0, Beside DEF Stops
  <2> QED BY <2>1 DEF Continues, Finds, MoveInv
<1>5. Brings(r, rows') /\ Continues(r, rows') /\ Finds(r, rows') /\ r.kind # "submit"
  BY <1>0, <1>2 DEF Brings, Continues, Finds, Stops
<1> QED BY <1>0, <1>2, <1>3, <1>4, <1>5, MovedOn

LEMMA WriteLevelMoves ==
  ASSUME ConcInv, MoveInv, OnlyApprovals, NEW c \in Calls, WriteLevel(c)
  PROVE  MoveInv'
<1> PICK q : q = calls[c]
  OBVIOUS
<1>0. /\ TypeInv /\ PairInv /\ RowsOK(rows) /\ q.pc = "level" /\ q.pc # "idle"
  BY DEF WriteLevel, ConcInv, TypeInv
<1> PICK new, n : n = q.level /\ new = Level(rows, n)
  OBVIOUS
<1>1. rows' = new /\ status' = status /\ calls' = [calls EXCEPT ![c] = Idle]
  BY DEF WriteLevel, Answer, Level
<1>2. /\ DOMAIN new = DOMAIN rows
      /\ \A t \in DOMAIN rows : new[t].decision = rows[t].decision
      /\ \A t \in DOMAIN rows :
           new[t].locked = (rows[t].locked /\ ~(t.step = n /\ rows[t].decision = "pending"))
  BY <1>0, LevelFacts
<1>3. Distinct(DOMAIN rows')
  BY <1>1, <1>2 DEF MoveInv
<1>4. ASSUME NEW d \in Calls \ {c}
      PROVE  Continues(calls[d], rows') /\ Finds(calls[d], rows')
  <2>1. Continues(calls[d], rows) /\ Finds(calls[d], rows)
    BY DEF MoveInv
  <2>2. calls[d].pc = "row" => calls[d].slot \in DOMAIN rows
    BY DEF ConcInv, EachInv, Holds, Aimed
  <2> QED BY <1>1, <1>2, <2>1, <2>2 DEF Continues, Finds
<1>5. status' = "pending_approval" =>
        \/ \E s \in DOMAIN rows' : Open(rows', s)
        \/ \E d \in Calls \ {c} : calls[d].pc = "status" \/ Opener(calls[d], rows')
  <2>1. SUFFICES ASSUME status = "pending_approval"
                 PROVE  \/ \E s \in DOMAIN new : Open(new, s)
                        \/ \E d \in Calls \ {c} : calls[d].pc = "status" \/ Opener(calls[d], new)
    BY <1>1
  <2>2. CASE \E s \in DOMAIN rows : Open(rows, s)
    BY <1>2, <2>2 DEF Open
  <2>3. CASE \E d \in Calls \ {c} : calls[d].pc = "status" \/ Opener(calls[d], rows)
    BY <1>2, <2>3 DEF Opener
  <2>4. CASE Opener(q, rows)
    <3>1. PICK t \in DOMAIN rows : t.step = n /\ rows[t].decision = "pending"
      BY <2>4 DEF Opener
    <3>2. Open(new, t)
      BY <1>2, <3>1 DEF Open
    <3> QED BY <1>2, <3>1, <3>2
  <2> QED BY <1>0, <2>1, <2>2, <2>3, <2>4 DEF MoveInv
<1> QED BY <1>0, <1>1, <1>3, <1>4, <1>5, IdleMoves, MovedOn

\* A call that is not an approval writes rows alone.
LEMMA AloneMoves ==
  ASSUME TypeInv, PairInv, OnlyApprovals, NEW c \in Calls, calls[c].pc # "idle",
         calls[c].kind \notin {"approve", "none", "inbox"}, MoveInv,
         NEW r, calls' = [calls EXCEPT ![c] = r], r.kind \notin {"approve", "inbox"},
         r.pc # "heal",
         Distinct(DOMAIN rows'), Brings(r, rows'),
         r.kind = "submit" => status' # "pending_approval",
         \/ status' # "pending_approval"
         \/ r.pc = "status"
         \/ \E s \in DOMAIN rows' : Open(rows', s)
  PROVE  MoveInv'
<1>1. \A d \in Calls \ {c} : Continues(calls[d], rows') /\ Finds(calls[d], rows')
  BY Beside DEF Continues, Finds, MoveInv
<1>2. Continues(r, rows') /\ Finds(r, rows')
  BY DEF Continues, Finds
<1> QED BY <1>1, <1>2, MovedOn

LEMMA DeleteRowsMoves ==
  ASSUME ConcInv, MoveInv, OnlyApprovals, NEW c \in Calls, DeleteRows(c)
  PROVE  MoveInv'
<1> PICK q : q = calls[c]
  OBVIOUS
<1>0. /\ TypeInv /\ PairInv /\ q \in Call /\ Sound(q) /\ q.pc = "delete" /\ q.pc # "idle"
      /\ q.kind \in {"submit"} \union Takings /\ Brings(q, rows)
      /\ q.kind \notin {"approve", "none", "inbox"}
  BY CallOf DEF DeleteRows, ConcInv, MoveInv, Sound, Takings
<1> PICK p : p = IF q.kind = "submit" THEN "insert" ELSE "status"
  OBVIOUS
<1>1. PICK r \in Call :
        /\ calls' = [calls EXCEPT ![c] = r]
        /\ r.pc = p /\ r.kind = q.kind /\ r.slot = q.slot
        /\ r.level = q.level /\ r.to = q.to /\ r.todo = q.todo
  <2>1. p \in Pcs /\ Goto(c, p)
    BY DEF DeleteRows, Pcs
  <2> QED BY <1>0, <2>1, GoneTo
<1>2. rows' = NoRows /\ status' = status /\ DOMAIN rows' = {}
  BY DEF DeleteRows, NoRows
<1>3. Distinct(DOMAIN rows')
  BY <1>2 DEF Distinct
<1>4. Brings(r, rows')
  <2>1. q.kind = "submit" => Distinct(q.todo) /\ \E s \in q.todo : s.step = q.level
    BY <1>0 DEF Brings
  <2>2. DOMAIN rows' \union r.todo = q.todo
    BY <1>1, <1>2
  <2> QED BY <1>1, <2>1, <2>2 DEF Brings
<1>5. q.kind = "submit" => status # "pending_approval"
  BY DEF MoveInv
<1>6. (q.kind # "submit" => r.pc = "status") /\ r.pc # "heal"
  BY <1>1
<1> QED BY <1>0, <1>1, <1>2, <1>3, <1>4, <1>5, <1>6, AloneMoves

LEMMA InsertRowMoves ==
  ASSUME ConcInv, MoveInv, OnlyApprovals, NEW c \in Calls, InsertRow(c)
  PROVE  MoveInv'
<1> PICK q : q = calls[c]
  OBVIOUS
<1>0. /\ TypeInv /\ PairInv /\ q \in Call /\ q.pc = "insert" /\ q.pc # "idle"
      /\ q.kind = "submit" /\ Brings(q, rows) /\ status # "pending_approval"
  BY CallOf DEF InsertRow, ConcInv, MoveInv, Sound
<1>1. PICK s, left, p :
        /\ s \in q.todo
        /\ left = q.todo \ {s} /\ p = IF left = {} THEN "status" ELSE "insert"
        /\ rows' = Inserted(rows, s, q.level)
        /\ calls' = [calls EXCEPT ![c].todo = left, ![c].pc = p]
  <2>1. PICK s \in FirstLevel(q.todo) :
          /\ rows' = [t \in DOMAIN rows \union {s} |->
               IF t = s THEN [decision |-> "pending", locked |-> s.step > q.level]
               ELSE rows[t]]
          /\ calls' = [calls EXCEPT ![c].todo = q.todo \ {s},
                                    ![c].pc = IF q.todo \ {s} = {} THEN "status" ELSE "insert"]
    BY DEF InsertRow
  <2>2. s \in q.todo
    BY DEF FirstLevel
  <2> QED BY <2>1, <2>2 DEF Inserted
<1> s \in q.todo
  BY <1>1
<1> PICK r : r = [[q EXCEPT !.todo = left] EXCEPT !.pc = p]
  OBVIOUS
<1>2. calls' = [calls EXCEPT ![c] = r]
  BY <1>0, <1>1 DEF TypeInv
<1>3. r.kind = "submit" /\ r.pc = p /\ r.level = q.level /\ r.todo = left
  BY <1>0, <1>1 DEF Call
<1>4. DOMAIN rows' = DOMAIN rows \union {s}
  BY <1>1 DEF Inserted
<1>5. DOMAIN rows' \union left = DOMAIN rows \union q.todo
  BY <1>1, <1>4
<1>6. Distinct(DOMAIN rows \union q.todo) /\ \E t \in DOMAIN rows \union q.todo : t.step = q.level
  BY <1>0 DEF Brings
<1>7. Brings(r, rows')
  <2>1. p \in {"status", "insert"} /\ (p = "status" => left = {})
    BY <1>1
  <2> QED BY <1>3, <1>5, <1>6, <2>1 DEF Brings
<1>8. Distinct(DOMAIN rows')
  BY <1>5, <1>6 DEF Distinct
<1>9. status' # "pending_approval"
  BY <1>0 DEF InsertRow
<1>10. /\ q.kind \notin {"approve", "none", "inbox"} /\ r.kind \notin {"approve", "inbox"}
       /\ r.pc # "heal"
  BY <1>0, <1>1, <1>3
<1> QED BY <1>0, <1>2, <1>7, <1>8, <1>9, <1>10, AloneMoves

LEMMA WriteStatusMoves ==
  ASSUME ConcInv, MoveInv, OnlyApprovals, NEW c \in Calls, WriteStatus(c)
  PROVE  MoveInv'
<1> PICK q : q = calls[c]
  OBVIOUS
<1>0. /\ TypeInv /\ PairInv /\ RowsOK(rows) /\ q \in Call /\ Sound(q) /\ q.pc = "status"
      /\ q.pc # "idle" /\ Holds(q, rows) /\ Brings(q, rows)
  BY CallOf DEF WriteStatus, ConcInv, EachInv, MoveInv, TypeInv
<1>1. status' = q.to /\ rows' = rows /\ calls' = [calls EXCEPT ![c] = Idle]
  BY DEF WriteStatus, Answer
<1>2. /\ Distinct(DOMAIN rows')
      /\ \A d \in Calls \ {c} : Continues(calls[d], rows') /\ Finds(calls[d], rows')
  BY <1>1, FindsKept DEF MoveInv
<1>3. /\ Brings(Idle, rows') /\ Continues(Idle, rows') /\ Finds(Idle, rows')
      /\ Idle.kind # "submit" /\ Idle.pc = "idle"
  BY IdleMoves, IdleFields
<1>4. CASE q.kind = "submit"
  <2>1. PICK s \in DOMAIN rows : s.step = q.level
    BY <1>0, <1>4 DEF Brings
  <2>2. rows[s].decision = "pending" /\ rows[s].locked = (s.step > q.level)
    BY <1>0, <1>4 DEF Holds, Inserts, Untouched
  <2>3. q.level \in Nat
    BY <1>0 DEF Call
  <2>4. Open(rows, s)
    <3>1. ~(s.step > q.level)
      BY <2>1, <2>3
    <3>2. ~rows[s].locked
      BY <2>2, <3>1
    <3> QED BY <2>2, <3>2 DEF Open
  <2>5. \E t \in DOMAIN rows' : Open(rows', t)
    BY <1>1, <2>4
  <2> QED BY <1>0, <1>1, <1>2, <1>3, <2>5, MovedOn
<1>5. CASE q.kind # "submit"
  <2>1. q.kind \in AllKinds
    BY <1>0, CallAssumption DEF Sound, Call
  <2>2. status' # "pending_approval"
    BY <1>0, <1>1, <1>5, <2>1 DEF Sound, AllKinds, Takings, Stops
  <2> QED BY <1>0, <1>1, <1>2, <1>3, <2>2, MovedOn
<1> QED BY <1>4, <1>5

LEMMA CameMoves ==
  ASSUME TypeInv, MoveInv, NEW c \in Calls, calls[c].pc = "idle",
         NEW r, calls' = [calls EXCEPT ![c] = r], UNCHANGED <<status, rows>>,
         r.pc # "row", Brings(r, rows), Finds(r, rows), r.kind = "submit" => status # "pending_approval"
  PROVE  MoveInv'
<1>1. calls'[c] = r /\ \A d \in Calls \ {c} : calls'[d] = calls[d]
  BY DEF TypeInv
<1>2. rows' = rows /\ status' = status
  OBVIOUS
<1>3. \A d \in Calls : /\ Brings(calls'[d], rows) /\ Continues(calls'[d], rows)
                       /\ Finds(calls'[d], rows)
                       /\ calls'[d].kind = "submit" => status # "pending_approval"
  BY <1>1 DEF MoveInv, Continues
<1>4. status = "pending_approval" =>
        \/ \E s \in DOMAIN rows : Open(rows, s)
        \/ \E d \in Calls : calls'[d].pc = "status" \/ Opener(calls'[d], rows)
  <2>1. calls[c].pc # "status" /\ ~Opener(calls[c], rows)
    BY DEF Opener
  <2> QED BY <1>1, <2>1 DEF MoveInv
<1>5. Distinct(DOMAIN rows)
  BY DEF MoveInv
<1> QED BY <1>2, <1>3, <1>4, <1>5 DEF MoveInv

LEMMA ArriveMoves ==
  ASSUME TypeInv, MoveInv, NEW c \in Calls, NEW u, NEW k, NEW p, NEW t,
         Arrive(c, u, k, p, t), k # "submit", p \notin {"row", "heal"},
         k = "inbox" => DOMAIN rows # {}
  PROVE  MoveInv'
<1> PICK r : r = [Idle EXCEPT !.kind = k, !.user = u, !.pc = p, !.to = t]
  OBVIOUS
<1>1. calls[c].pc = "idle" /\ calls' = [calls EXCEPT ![c] = r] /\ UNCHANGED <<status, rows>>
  BY DEF Arrive
<1>2. r.kind = k /\ r.pc = p
  BY IdleFields DEF Call
<1>3. Brings(r, rows) /\ Finds(r, rows)
  BY <1>2 DEF Brings, Finds
<1> QED BY <1>1, <1>2, <1>3, CameMoves

LEMMA ArriveSubmitMoves ==
  ASSUME TypeInv, MoveInv, OnePerLevel, NEW c \in Calls, ArriveSubmit(c)
  PROVE  MoveInv'
<1>1. PICK chain, first :
        /\ chain \in SubmittedChains(Amount, Requestor)
        /\ first = CHOOSE n \in {s.step : s \in FirstLevel(chain)} : TRUE
        /\ calls' = [calls EXCEPT ![c] = [Idle EXCEPT
             !.kind = "submit", !.user = Requestor, !.pc = "delete",
             !.to = "pending_approval", !.level = first,
             !.todo = {Placed(s, rounds + 1) : s \in chain}]]
  BY DEF ArriveSubmit
<1> chain \in SubmittedChains(Amount, Requestor)
  BY <1>1
<1>2. chain \subseteq Slots /\ chain # {}
  BY SubmittedSlots, PeopleAssumption
<1>3. PICK f \in chain : first = f.step
  <2>1. {s.step : s \in FirstLevel(chain)} # {}
    BY <1>2, FirstLevelExists
  <2>2. PICK g \in FirstLevel(chain) : first = g.step
    BY <1>1, <2>1
  <2> QED BY <2>2 DEF FirstLevel
<1> PICK n, todo : n = rounds + 1 /\ todo = {Placed(s, n) : s \in chain}
  OBVIOUS
<1>4. \A s \in chain : Placed(s, n).step = s.step
  BY DEF Placed
<1>5. Distinct(todo)
  <2>1. ASSUME NEW a \in chain, NEW b \in chain, Placed(a, n).step = Placed(b, n).step
        PROVE  Placed(a, n) = Placed(b, n)
    BY <1>4, <2>1 DEF OnePerLevel, Distinct
  <2> QED BY <2>1 DEF Distinct
<1>6. \E s \in todo : s.step = first
  BY <1>3, <1>4
<1> PICK r : r = [Idle EXCEPT !.kind = "submit", !.user = Requestor, !.pc = "delete",
                              !.to = "pending_approval", !.level = first, !.todo = todo]
  OBVIOUS
<1>7. calls' = [calls EXCEPT ![c] = r]
  BY <1>1
<1>8. r.kind = "submit" /\ r.pc = "delete" /\ r.level = first /\ r.todo = todo
  BY IdleFields DEF Call
<1>9. Brings(r, rows) /\ Finds(r, rows)
  BY <1>5, <1>6, <1>8 DEF Brings, Finds
<1>10. calls[c].pc = "idle" /\ UNCHANGED <<status, rows>> /\ status # "pending_approval"
  BY DEF ArriveSubmit, Editable
<1> QED BY <1>7, <1>8, <1>9, <1>10, CameMoves

\* An inbox comes when nobody takes the chain away or brings a new one.
LEMMA ArriveInboxMoves ==
  ASSUME TypeInv, RouteInv, MoveInv, OnlyApprovals, NEW c \in Calls, NEW u \in Users,
         ArriveInbox(c, u)
  PROVE  MoveInv'
<1>1. Waiting /\ MayCome("inbox")
  BY DEF ArriveInbox, Arrive, Waiting
<1>2. \A d \in Calls : calls[d].kind \in {"none", "approve", "inbox"}
  BY <1>1 DEF MayCome, Quiet, OnlyApprovals, TypeInv, Sound
<1>3. ~Withdrawing /\ Coming = {}
  BY <1>2 DEF Withdrawing, Coming, Adds
<1>4. DOMAIN rows # {}
  BY <1>1, <1>3 DEF RouteInv, Routed
<1> QED BY <1>4, ArriveMoves DEF ArriveInbox

LEMMA ReadStepsMoves ==
  ASSUME ConcInv, MoveInv, OnlyApprovals, NEW c \in Calls, ReadSteps(c)
  PROVE  MoveInv'
<1>1. TypeInv /\ PairInv /\ calls[c].pc = "look" /\ calls[c].pc # "idle" /\ calls[c].kind = "inbox"
  BY CallOf DEF ReadSteps, ConcInv, Sound
<1>2. DOMAIN rows # {}
  BY <1>1 DEF MoveInv, Finds
<1>3. calls' = [calls EXCEPT ![c] = Idle] /\ rows' = rows /\ status' = status
  BY <1>2 DEF ReadSteps, Answer
<1>4. /\ Distinct(DOMAIN rows')
      /\ \A d \in Calls \ {c} : Continues(calls[d], rows') /\ Finds(calls[d], rows')
  BY <1>3, FindsKept DEF MoveInv
<1>5. status' = "pending_approval" =>
        \/ \E s \in DOMAIN rows' : Open(rows', s)
        \/ \E d \in Calls \ {c} : calls[d].pc = "status" \/ Opener(calls[d], rows')
  <2>1. calls[c].pc # "status" /\ ~Opener(calls[c], rows)
    BY <1>1 DEF Opener
  <2> QED BY <1>3, <2>1 DEF MoveInv
<1>6. /\ Brings(Idle, rows') /\ Continues(Idle, rows') /\ Finds(Idle, rows')
      /\ Idle.kind # "submit"
  BY IdleMoves
<1> QED BY <1>1, <1>3, <1>4, <1>5, <1>6, MovedOn

LEMMA ComeMoves ==
  ASSUME TypeInv, RouteInv, MoveInv, OnlyApprovals, OnePerLevel, NEW c \in Calls, Come(c)
  PROVE  MoveInv'
<1>1. CASE ArriveSubmit(c)
  BY <1>1, ArriveSubmitMoves
<1>2. CASE ArriveReopen(c)
  BY <1>2, ArriveMoves DEF ArriveReopen
<1>3. ASSUME NEW u \in Users,
             \/ ArriveApprove(c, u) \/ ArriveStop(c, u) \/ ArriveWithdraw(c, u)
             \/ ArriveCancel(c, u) \/ ArriveFinance(c, u)
      PROVE  MoveInv'
  BY <1>3, ArriveMoves DEF ArriveApprove, ArriveStop, ArriveWithdraw, ArriveCancel, ArriveFinance
<1>4. ASSUME NEW u \in Users, ArriveInbox(c, u)
      PROVE  MoveInv'
  BY <1>4, ArriveInboxMoves
<1> QED BY <1>1, <1>2, <1>3, <1>4 DEF Come

LEMMA MoveNext ==
  ASSUME OnlyApprovals, NobodyDies, OnePerLevel
  PROVE  FullInv /\ MoveInv /\ [Next]_vars => MoveInv'
<1> SUFFICES ASSUME FullInv, MoveInv, [Next]_vars
             PROVE  MoveInv'
  OBVIOUS
<1>0. ConcInv /\ TypeInv /\ RouteInv /\ Apart
  BY DEF FullInv, ConcInv, OnlyApprovals, Apart
<1>1. CASE UNCHANGED vars
  <2>1. status' = status /\ rows' = rows /\ calls' = calls
    BY <1>1 DEF vars
  <2> QED BY <2>1 DEF MoveInv, Distinct, Brings, Continues, Finds, Opener, Open
<1>2. ASSUME NEW c \in Calls, Come(c) \/ Proceed(c) \/ Die(c)
      PROVE  MoveInv'
  <2>1. ~Die(c)
    BY DEF Die, NobodyDies
  <2>2. CASE Come(c)
    BY <1>0, <2>2, ComeMoves
  <2>3. CASE WriteRow(c)
    <3>1. calls[c].kind \in Deciding
      BY <1>0, <2>3, CallOf DEF WriteRow, Sound
    <3> QED BY <1>0, <2>3, <3>1, ApproveRowMoves, RefuseRowMoves DEF Deciding
  <2>4. ~Backfill(c)
    BY DEF Backfill, MoveInv, Finds
  <2> QED BY <1>0, <1>2, <2>1, <2>2, <2>3, <2>4, ReadChainMoves, WriteLevelMoves,
             DeleteRowsMoves, InsertRowMoves, WriteStatusMoves, ReadStepsMoves DEF Proceed
<1> QED BY <1>1, <1>2 DEF Next

LEMMA MoveInit == Init => MoveInv
<1> SUFFICES ASSUME Init PROVE MoveInv
  OBVIOUS
<1>1. rows = NoRows /\ DOMAIN rows = {} /\ status = "draft"
  BY DEF Init, NoRows
<1>2. \A c \in Calls : calls[c] = Idle
  BY DEF Init
<1> QED BY <1>1, <1>2, IdleMoves DEF MoveInv, Distinct

\* When every level has one approver, approvals and inboxes are the only calls
\* that overlap and no process is killed, a request that waits for approval with
\* no call under way can be decided: overlapping approvals of one row, and an
\* approval that opens a level another one has opened, leave no chain stuck.
THEOREM MovesCorrect ==
  ASSUME OnlyApprovals, NobodyDies, OnePerLevel
  PROVE  Spec => []ChainMoves
<1>1. Apart /\ StopsFinish /\ ChainsFinish /\ SubmitsAgree
  BY DEF OnlyApprovals, NobodyDies, Apart, StopsFinish, ChainsFinish, SubmitsAgree
<1>2. MoveInv => ChainMoves
  BY DEF MoveInv, ChainMoves, Quiet, Opener
<1>3. Spec => []FullInv
  BY <1>1, FullInit, FullNext, PTL DEF Spec
<1>4. FullInv /\ MoveInv /\ [Next]_vars => MoveInv'
  BY MoveNext
<1> QED BY <1>2, <1>3, <1>4, MoveInit, PTL DEF Spec
=============================================================================
