------------------------------ MODULE CrmFunnel -----------------------------
(***************************************************************************)
(* The funnel: a lead that changes its stage enters the cadences of the    *)
(* stage and moves the stock of its product.  The three parts share the    *)
(* instances that do the work, see CrmInstances.                           *)
(***************************************************************************)
EXTENDS CrmCadences, CrmStock

CONSTANTS
  Stages,
  FirstStage,    \* where leads begin, their products, and the items of these
  FirstProduct,
  FirstItem,
  MaxFaults  \* bound on the faults

ASSUME FunnelAssumption ==
  /\ Won \subseteq Stages /\ FirstStage \in Stages \ Won /\ MaxFaults \in Nat
  /\ FirstProduct \in [Leads -> Products \union {NoProduct}]
  /\ FirstItem \in [Products -> Items \union {NoItem}]
  /\ Worlds \subseteq [
       together : Nat \ {0},        \* requests at one time
       rows     : 0 .. MaxEnrolled, \* enrolments and movements, past which no
       moves    : 0 .. MaxMoves,    \* request for another one comes
       faults   : 0 .. MaxFaults,   \* instances that die, calls that fail
       targets  : SUBSET Stages,    \* stages leads are moved to
       silent   : SUBSET Stages,    \* stages they get by the change of their
                                    \* pipeline, which syncs nothing
       rule     : [Stages -> Stages \union {"none"}], \* the automation that
                                    \* moves a lead on
       lines    : SUBSET (Seq([item : Items, change : Int]) \ {<<>>}), \* movements
       edits    : SUBSET [lead : Leads, product : Products \union {NoProduct}, need : Nat],
       relinks  : SUBSET [product : Products, item : Items \union {NoItem}],
       enrols   : SUBSET Cadences,  \* cadences leads are enrolled in by hand
       toggles  : SUBSET Cadences,  \* cadences that are switched on and off
       replies  : BOOLEAN,          \* whether customers answer
       cron     : BOOLEAN]          \* whether days pass and the cron runs

vars == <<cadenceVars, stockVars, shared>>

TypeOK ==
  /\ CadencesTypeOK /\ StockTypeOK
  /\ \A l \in Leads : lead[l].stage \in Stages
  /\ \A i \in Instances :
       /\ calls[i].lead \in Leads \union {NoLead}
       /\ {calls[i].from, calls[i].to} \subseteq Stages \union {"none"}
       /\ calls[i].move \in 0 .. Len(moves)
  /\ faults \in 0 .. MaxFaults

Init ==
  /\ CadencesInit
  /\ lead = [l \in Leads |-> [stage |-> FirstStage, product |-> FirstProduct[l],
                              need |-> 1, anchor |-> 0]]
  /\ linked = FirstItem
  /\ qty = Opening
  /\ moves = <<>> /\ torn = {} /\ gone = {}
  /\ calls = [i \in Instances |-> Idle]
  /\ faults = 0
  /\ world \in Worlds

\* A route of one lead (enrolment before the stock) or the one of many leads
\* (the stock before enrolment) reads the lead, its stage among it.
ArriveStage(i, l, to, then) ==
  /\ Len(moves) < world.moves
  /\ Len(enrolled) < world.rows \/ \A c \in Cadences : TriggerStage[c] # to
  /\ Accept(i, [Idle EXCEPT !.pc = "stage", !.lead = l, !.to = to,
                  !.from = lead[l].stage, !.then = then])
  /\ UNCHANGED <<cadenceVars, stockVars, faults, world>>

\* UPDATE leads SET stage ... RETURNING: the handler goes on with that row.
ChangeStage(i) ==
  LET call == calls[i] IN
  /\ call.pc = "stage"
  /\ lead' = [lead EXCEPT ![call.lead].stage = call.to]
  /\ Set(i, [call EXCEPT !.pc = "rules", !.seen = lead'[call.lead]])
  /\ UNCHANGED <<cadenceVars, linked, qty, moves, torn, gone, faults, world>>

\* runAutomations: a rule may move the lead on, which touches neither cadences
\* nor stock, and the handler goes on with the row it had.
RunRules(i) ==
  LET call == calls[i]
      next == world.rule[call.to]
  IN
  /\ call.pc = "rules"
  /\ lead' = IF next = "none" THEN lead ELSE [lead EXCEPT ![call.lead].stage = next]
  /\ Finish(i)
  /\ UNCHANGED <<cadenceVars, linked, qty, moves, torn, gone, faults, world>>

\* PATCH /:id/pipeline: one UPDATE.
ChangePipeline(l, to) ==
  /\ lead' = [lead EXCEPT ![l].stage = to]
  /\ UNCHANGED <<cadenceVars, linked, qty, moves, torn, gone, shared>>

\* What is torn when the instance stops here.
Torn(i) == IF calls[i].pc = "write" THEN {Head(calls[i].todo).item} ELSE {}

\* The instance dies; nothing it has written is undone.
Die(i) ==
  /\ i \in Busy /\ faults < world.faults
  /\ Set(i, Idle)
  /\ faults' = faults + 1
  /\ torn' = torn \union Torn(i)
  /\ UNCHANGED <<cadenceVars, lead, linked, qty, moves, gone, world>>

\* A call to the database fails and the error is swallowed: the cron goes on
\* with the next enrolment, a handler with its next part.
Stumble(i) ==
  LET call == calls[i] IN
  /\ faults < world.faults
  /\ \/ /\ call.pc \in {"fire", "advance"}
        /\ Set(i, [call EXCEPT !.pc = "next", !.todo = Tail(@)])
     \/ /\ call.pc \in {"enrol", "find", "insert", "stop"}
        /\ Finish(i)
     \/ /\ call.pc \in {"sync", "consume", "restore", "read", "move", "write", "anchor"}
        /\ call.lead # NoLead
        /\ Finish(i)
  /\ faults' = faults + 1
  /\ torn' = torn \union Torn(i)
  /\ UNCHANGED <<cadenceVars, lead, linked, qty, moves, gone, world>>

Orders == {<<"enrol", "sync">>, <<"sync", "enrol">>}

Request(i) ==
  \/ CadenceRequest(i) /\ UNCHANGED stockVars
  \/ StockRequest(i) /\ UNCHANGED cadenceVars
  \/ \E l \in Leads, to \in world.targets, then \in Orders : ArriveStage(i, l, to, then)

Work(i) ==
  \/ CadenceWork(i) /\ UNCHANGED stockVars
  \/ StockWork(i) /\ UNCHANGED cadenceVars
  \/ ChangeStage(i) \/ RunRules(i)

Edit ==
  \/ \E e \in DOMAIN enrolled : CancelEnrolment(e) /\ UNCHANGED stockVars
  \/ \E c \in Cadences : Toggle(c) /\ UNCHANGED stockVars
  \/ NextDay /\ UNCHANGED stockVars
  \/ StockEdit /\ UNCHANGED cadenceVars
  \/ \E l \in Leads, to \in world.silent : ChangePipeline(l, to)

Next ==
  \/ \E i \in Instances : Request(i) \/ Work(i) \/ Die(i) \/ Stumble(i)
  \/ Edit

\* An instance goes on with what it has begun, and the cron comes round again.
Spec ==
  /\ Init /\ [][Next]_vars
  /\ \A i \in Instances : WF_vars(Work(i))
  /\ SF_vars(\E i \in Instances : StartCron(i) /\ UNCHANGED stockVars)

=============================================================================
