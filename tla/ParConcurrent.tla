---------------------------- MODULE ParConcurrent ---------------------------
(***************************************************************************)
(* The handlers of a payment action request taken apart.  No handler here  *)
(* runs in a transaction: each reads the status, then the chain, decides   *)
(* on what it read, and then writes row by row and table by table, with    *)
(* UPDATE ... WHERE id = ... and no condition on what it had read.  Every  *)
(* action is one round trip to the database that other calls can come in   *)
(* front of.                                                               *)
(*                                                                         *)
(* The body of the request is fixed here (an execute_payment of Amount     *)
(* MDL, complete); ParRequest is about its changes.  Rows carry the round  *)
(* of the call that inserted them, which is what their id tells apart.     *)
(***************************************************************************)
EXTENDS ParChain

CONSTANTS
  Calls,     \* identities of HTTP calls in flight
  NoSlot,
  Amount,    \* total_mdl_cents
  MaxRounds, \* bound on how often rows are inserted: submits and backfills
  Kinds,     \* the calls the clients make
  Overlap,   \* groups of kinds of calls that may be in flight together
  MayDie     \* the kinds of calls whose process may be killed half-way

AllKinds == {"submit", "approve", "reject", "request_changes", "withdraw",
             "reopen", "cancel", "pay", "unpay", "finance_return", "inbox"}

ASSUME CallAssumption ==
  /\ Kinds \subseteq AllKinds /\ Overlap \subseteq SUBSET Kinds /\ MayDie \subseteq Kinds
  /\ Amount \in Nat /\ MaxRounds \in Nat

VARIABLES
  status, \* par_requests.status
  rows,   \* par_approvals of the request
  calls,  \* what every call in flight has read and is about to do
  rounds, \* submits and backfills so far
  routed  \* history: the rows that the last submit to clear the table routed
          \* the request to; the program keeps no such thing

vars == <<status, rows, calls, rounds, routed>>

Statuses ==
  {"draft", "pending_approval", "changes_requested", "rejected",
   "in_finance", "paid", "cancelled"}

Editable == {"draft", "changes_requested"}

\* Variant: the new row takes the id of the one it replaces.
PlacedAgain(s, n) == s

Placed(s, n) ==
  [key |-> s.key, step |-> s.step, user |-> s.user, role |-> s.role, round |-> n]

PlacedSlots == [key : SlotKeys \union {"backfill"}, step : Nat,
                user : Users \union {NoUser},
                role : RoleNames \union {NoRole}, round : 1 .. MaxRounds]

RowStates == [decision : {"pending", "approved", "rejected", "changes_requested"},
              locked   : BOOLEAN]

\* The row with which the inbox refills a chain that it found empty: step 1,
\* open, for anybody with the approver role.
BackfillSlot == Slot("backfill", 1, NoUser, NoRole)

\* pc: the next round trip; slot: the row the call decided on, or inserts;
\* level: the level it will open; to: the status it will write; todo: rows a
\* submit inserts.
Idle == [pc |-> "idle", kind |-> "none", user |-> NoUser, slot |-> NoSlot,
         level |-> 0, to |-> "none", todo |-> {}]

TypeOK ==
  /\ status \in Statuses
  /\ DOMAIN rows \subseteq PlacedSlots
  /\ rows \in [DOMAIN rows -> RowStates]
  /\ \A c \in Calls :
       /\ calls[c].pc \in {"idle", "chain", "row", "level", "delete", "insert",
                           "status", "look", "heal"}
       /\ calls[c].kind \in Kinds \union {"none"}
       /\ calls[c].user \in Users \union {NoUser}
       /\ calls[c].slot \in PlacedSlots \union {NoSlot}
       /\ calls[c].level \in Nat
       /\ calls[c].to \in Statuses \union {"none"}
       /\ calls[c].todo \subseteq PlacedSlots
  /\ rounds \in 0 .. MaxRounds
  /\ routed \subseteq PlacedSlots

NoRows == [s \in {} |-> [decision |-> "pending", locked |-> FALSE]]

Init ==
  /\ status = "draft"
  /\ rows = NoRows
  /\ calls = [c \in Calls |-> Idle]
  /\ rounds = 0
  /\ routed = {}

----------------------------------------------------------------------------
(* A call arrives: the role check and the first read of the status.        *)

Quiet == \A c \in Calls : calls[c].pc = "idle"

MayCome(kind) ==
  /\ kind \in Kinds
  /\ \/ Quiet
     \/ \E group \in Overlap :
          kind \in group /\ \A c \in Calls : calls[c].kind \in group \union {"none"}

IsAdmin(u) == "par_admin" \in ParRoles(u)
IsFinance(u) == ParRoles(u) \intersect {"finance", "par_admin"} # {}

Arrive(c, u, kind, pc, to) ==
  /\ calls[c].pc = "idle"
  /\ MayCome(kind)
  /\ calls' = [calls EXCEPT ![c] = [Idle EXCEPT
       !.kind = kind, !.user = u, !.pc = pc, !.to = to]]
  /\ UNCHANGED <<status, rows, rounds, routed>>

ArriveApprove(c, u) ==
  /\ ParRoles(u) # {} \/ Delegators[u] # {}
  /\ u # Requestor
  /\ status = "pending_approval"
  /\ Arrive(c, u, "approve", "chain", "in_finance")

\* The coarse gate reads the pending pinned rows; the row itself comes later.
ArriveStop(c, u) ==
  /\ StopGate(rows, u)
  /\ status = "pending_approval"
  /\ \/ Arrive(c, u, "reject", "chain", "rejected")
     \/ Arrive(c, u, "request_changes", "chain", "changes_requested")

\* submitPAR reads the status a second time; what happens between its two
\* reads is covered by a call that arrives at the second.
ArriveSubmit(c) ==
  /\ status \in Editable
  /\ rounds < MaxRounds
  /\ calls[c].pc = "idle"
  /\ MayCome("submit")
  /\ rounds' = rounds + 1
  /\ \E chain \in SubmittedChains(Amount, Requestor) :
       LET first == CHOOSE n \in {s.step : s \in FirstLevel(chain)} : TRUE IN
       calls' = [calls EXCEPT ![c] = [Idle EXCEPT
         !.kind = "submit", !.user = Requestor, !.pc = "delete",
         !.to = "pending_approval", !.level = first,
         !.todo = {Placed(s, rounds + 1) : s \in chain}]]
  /\ UNCHANGED <<status, rows, routed>>

ArriveWithdraw(c, u) ==
  /\ u = Requestor \/ IsAdmin(u)
  /\ status = "pending_approval"
  /\ Arrive(c, u, "withdraw", "delete", "draft")

ArriveReopen(c) ==
  /\ status = "rejected"
  /\ Arrive(c, Requestor, "reopen", "delete", "draft")

ArriveCancel(c, u) ==
  /\ u = Requestor \/ IsAdmin(u)
  /\ status \notin {"paid", "cancelled"}
  /\ Arrive(c, u, "cancel", "status", "cancelled")

ArriveFinance(c, u) ==
  /\ IsFinance(u)
  /\ \/ /\ status = "in_finance"
        /\ \/ Arrive(c, u, "pay", "status", "paid")
           \/ Arrive(c, u, "finance_return", "status", "changes_requested")
     \/ /\ status = "paid"
        /\ Arrive(c, u, "unpay", "status", "in_finance")

\* An approver or a par_admin opens the inbox; the backfill it starts with
\* has read which requests wait for approval.
ArriveInbox(c, u) ==
  /\ ParRoles(u) \intersect {"approver", "par_admin"} # {}
  /\ status = "pending_approval"
  /\ Arrive(c, u, "inbox", "look", "none")

----------------------------------------------------------------------------
(* The round trips of a call in flight.                                    *)

Goto(c, pc) == calls' = [calls EXCEPT ![c].pc = pc]
Answer(c) == calls' = [calls EXCEPT ![c] = Idle]

\* Variant: the next level opens with the first signature on this one.
OpenedAtOnce(s) ==
  IF LaterLocked(rows, s) = {} THEN 0
  ELSE CHOOSE n \in {t.step : t \in NextLevel(rows, s)} : TRUE

\* The level an approval of s opens, 0 when it opens none.
OpenedLevel(s) ==
  IF Siblings(rows, s) # {} \/ LaterLocked(rows, s) = {} THEN 0
  ELSE CHOOSE n \in {t.step : t \in NextLevel(rows, s)} : TRUE

\* SELECT par_approvals, and everything decided on the result: the row, and
\* what an approval does to the chain.
ReadChain(c) ==
  LET call      == calls[c]
      approving == call.kind = "approve"
      blocked(s) == approving /\ Completes(rows, s)
                    /\ ~WithinLimit(call.user, s, Amount)
      plan(s) == [call EXCEPT
        !.pc    = "row",
        !.slot  = s,
        !.level = IF approving THEN OpenedLevel(s) ELSE 0,
        !.to    = IF approving /\ ~Completes(rows, s) THEN "none" ELSE @]
  IN
  /\ call.pc = "chain"
  /\ \/ Picked(rows, call.user) = {} /\ Answer(c)
     \/ \E s \in Picked(rows, call.user) : blocked(s) /\ Answer(c)
     \/ \E s \in Picked(rows, call.user) :
          ~blocked(s) /\ calls' = [calls EXCEPT ![c] = plan(s)]
  /\ UNCHANGED <<status, rows, rounds, routed>>

\* Variant: a call that opens no level is done, even when it has a status to
\* write.
WriteRowAnswersEarly(c) ==
  LET call     == calls[c]
      decision == CASE call.kind = "approve" -> "approved"
                    [] call.kind = "reject"  -> "rejected"
                    [] OTHER                 -> "changes_requested"
  IN
  /\ call.pc = "row"
  /\ rows' = IF call.slot \in DOMAIN rows
             THEN [rows EXCEPT ![call.slot].decision = decision] ELSE rows
  /\ \/ call.level # 0 /\ Goto(c, "level")
     \/ call.level = 0 /\ Answer(c)
  /\ UNCHANGED <<status, rounds, routed>>

\* UPDATE par_approvals ... WHERE id: whatever the row says by now, and
\* nothing at all when it was deleted meanwhile.
WriteRow(c) ==
  LET call     == calls[c]
      decision == CASE call.kind = "approve" -> "approved"
                    [] call.kind = "reject"  -> "rejected"
                    [] OTHER                 -> "changes_requested"
  IN
  /\ call.pc = "row"
  /\ rows' = IF call.slot \in DOMAIN rows
             THEN [rows EXCEPT ![call.slot].decision = decision] ELSE rows
  /\ \/ call.to # "none" /\ Goto(c, "status")
     \/ call.to = "none" /\ call.level # 0 /\ Goto(c, "level")
     \/ call.to = "none" /\ call.level = 0 /\ Answer(c)
  /\ UNCHANGED <<status, rounds, routed>>

\* UPDATE par_approvals ... WHERE step = next AND decision = 'pending'.
WriteLevel(c) ==
  /\ calls[c].pc = "level"
  /\ rows' = [s \in DOMAIN rows |->
       IF s.step = calls[c].level /\ rows[s].decision = "pending"
       THEN [rows[s] EXCEPT !.locked = FALSE] ELSE rows[s]]
  /\ Answer(c)
  /\ UNCHANGED <<status, rounds, routed>>

DeleteRows(c) ==
  /\ calls[c].pc = "delete"
  /\ rows' = NoRows
  /\ Goto(c, IF calls[c].kind = "submit" THEN "insert" ELSE "status")
  /\ routed' = IF calls[c].kind = "submit" THEN calls[c].todo ELSE routed
  /\ UNCHANGED <<status, rounds>>

\* Variant: every row is inserted locked.
InsertRowLocked(c) ==
  /\ calls[c].pc = "insert"
  /\ \E s \in FirstLevel(calls[c].todo) :
       LET left == calls[c].todo \ {s} IN
       /\ rows' = [t \in DOMAIN rows \union {s} |->
            IF t = s THEN [decision |-> "pending", locked |-> TRUE]
            ELSE rows[t]]
       /\ calls' = [calls EXCEPT ![c].todo = left,
                                 ![c].pc = IF left = {} THEN "status" ELSE "insert"]
  /\ UNCHANGED <<status, rounds, routed>>

\* One INSERT per row, level by level; all but the lowest level are locked.
InsertRow(c) ==
  /\ calls[c].pc = "insert"
  /\ \E s \in FirstLevel(calls[c].todo) :
       LET left == calls[c].todo \ {s} IN
       /\ rows' = [t \in DOMAIN rows \union {s} |->
            IF t = s THEN [decision |-> "pending",
                           locked   |-> s.step > calls[c].level]
            ELSE rows[t]]
       /\ calls' = [calls EXCEPT ![c].todo = left,
                                 ![c].pc = IF left = {} THEN "status" ELSE "insert"]
  /\ UNCHANGED <<status, rounds, routed>>

\* UPDATE par_requests SET status ... WHERE id: whatever the status is by now.
WriteStatus(c) ==
  /\ calls[c].pc = "status"
  /\ status' = calls[c].to
  /\ Answer(c)
  /\ UNCHANGED <<rows, rounds, routed>>

\* Variant: a request without an open row counts as stuck.
ReadOpenSteps(c) ==
  LET stuck == \A s \in DOMAIN rows : ~Open(rows, s) IN
  /\ calls[c].pc = "look"
  /\ \/ /\ ~stuck \/ rounds = MaxRounds
        /\ Answer(c)
        /\ UNCHANGED rounds
     \/ /\ stuck /\ rounds < MaxRounds
        /\ rounds' = rounds + 1
        /\ calls' = [calls EXCEPT
             ![c].pc = "heal", ![c].slot = Placed(BackfillSlot, rounds + 1)]
  /\ UNCHANGED <<status, rows, routed>>

\* The backfill's second SELECT: it goes on when the request has no row.  At
\* the bound it stops, as after an error, which the inbox swallows.
ReadSteps(c) ==
  /\ calls[c].pc = "look"
  /\ \/ /\ DOMAIN rows # {} \/ rounds = MaxRounds
        /\ Answer(c)
        /\ UNCHANGED rounds
     \/ /\ DOMAIN rows = {} /\ rounds < MaxRounds
        /\ rounds' = rounds + 1
        /\ calls' = [calls EXCEPT
             ![c].pc = "heal", ![c].slot = Placed(BackfillSlot, rounds + 1)]
  /\ UNCHANGED <<status, rows, routed>>

\* INSERT par_approvals, whatever the request has by now.
Backfill(c) ==
  /\ calls[c].pc = "heal"
  /\ rows' = [t \in DOMAIN rows \union {calls[c].slot} |->
       IF t = calls[c].slot THEN [decision |-> "pending", locked |-> FALSE]
       ELSE rows[t]]
  /\ Answer(c)
  /\ UNCHANGED <<status, rounds, routed>>

\* The process is killed; nothing rolls back what it has written.
Die(c) ==
  /\ calls[c].pc # "idle"
  /\ calls[c].kind \in MayDie
  /\ Answer(c)
  /\ UNCHANGED <<status, rows, rounds, routed>>

Come(c) ==
  \/ ArriveSubmit(c) \/ ArriveReopen(c)
  \/ \E u \in Users :
       \/ ArriveApprove(c, u) \/ ArriveStop(c, u) \/ ArriveWithdraw(c, u)
       \/ ArriveCancel(c, u) \/ ArriveFinance(c, u) \/ ArriveInbox(c, u)

Proceed(c) ==
  \/ ReadChain(c) \/ WriteRow(c) \/ WriteLevel(c)
  \/ DeleteRows(c) \/ InsertRow(c) \/ WriteStatus(c)
  \/ ReadSteps(c) \/ Backfill(c)

Next == \E c \in Calls : Come(c) \/ Proceed(c) \/ Die(c)

\* The server works off what it has accepted; nobody is made to call it.
Spec == Init /\ [][Next]_vars /\ \A c \in Calls : WF_vars(Proceed(c))

----------------------------------------------------------------------------
(* Properties.                                                             *)

\* The levels open in order while approvals of the same chain overlap with
\* each other and with inboxes: an approval that acts on a chain read earlier
\* never opens a level above an undecided row, and no undecided row appears
\* below a level that is open.
LevelsInOrder ==
  status = "pending_approval" =>
    \A s, t \in DOMAIN rows :
      /\ s.step = t.step => rows[s].locked = rows[t].locked
      /\ s.step < t.step /\ rows[s].decision = "pending" => rows[t].locked

\* "The status stays pending_approval until the last signature; only then
\* does it pass to in_finance": finance gets a request with every row that the
\* submit routed it to, all of them approved and no other row left open,
\* although the approval that hands it over decides on a chain it read two
\* round trips earlier and tells a complete chain only from the rows it finds.
FullySigned ==
  status \in {"in_finance", "paid"} =>
    /\ routed # {} /\ routed \subseteq DOMAIN rows
    /\ \A s \in DOMAIN rows : rows[s].decision = "approved"

\* "A parallel level advances only after every approver on that level has
\* decided": once they have, and no call is under way, a request that still
\* waits for approval has an open row.
ChainMoves ==
  Quiet /\ status = "pending_approval" =>
    \E s \in DOMAIN rows : Open(rows, s)

\* The last signature delivers: a chain in which every row is approved does
\* not stay in approval, because the call that wrote the last row goes on to
\* write the status.
LastSignatureDelivers ==
  (/\ status = "pending_approval"
   /\ DOMAIN rows # {}
   /\ \A s \in DOMAIN rows : rows[s].decision = "approved")
    ~> status # "pending_approval"

\* PAR-CORE: "Reject/changes at any step stops the chain."
StopStops ==
  status \in {"in_finance", "paid"} =>
    \A s \in DOMAIN rows : rows[s].decision \in {"pending", "approved"}

=============================================================================
