----------------------------- MODULE CrmInstances ---------------------------
(***************************************************************************)
(* The instances of the server that work on the funnel: requests of users, *)
(* webhooks and the daily cron.  Each is a chain of database calls without *)
(* a transaction, so that any two of them may interleave and any of them   *)
(* may stop half way.                                                      *)
(***************************************************************************)
EXTENDS Integers, SequencesExt

CONSTANTS
  Leads,
  NoLead,
  Instances,  \* that work at one time
  Worlds      \* what the users of a workspace do: each behaviour takes place
              \* in one of these, see CrmFunnel

ASSUME InstancesAssumption == NoLead \notin Leads /\ IsFiniteSet(Instances)

VARIABLES
  calls,   \* what each instance has read and does next
  faults,  \* instances that died and errors that were swallowed, so far
  world    \* the one of Worlds, fixed

shared == <<calls, faults, world>>

\* "todo" is the list a loop works off, "seen" the row of a lead as the handler
\* got it, "held" the quantities read, "step" the step of an enrolment read,
\* "then" what the handler does when it is through with its present work.
NoRow == [stage |-> "none", product |-> "none", need |-> 0, anchor |-> 0]
Idle == [pc |-> "idle", then |-> <<>>, lead |-> NoLead, from |-> "none",
         to |-> "none", todo |-> <<>>, seen |-> NoRow, held |-> <<>>,
         step |-> 0, move |-> 0]

Busy == {i \in Instances : calls[i].pc # "idle"}

\* A request comes in, or the cron starts.
Accept(i, call) ==
  /\ calls[i].pc = "idle" /\ Cardinality(Busy) < world.together
  /\ calls' = [calls EXCEPT ![i] = call]

Set(i, call) == calls' = [calls EXCEPT ![i] = call]
Goto(i, pc) == Set(i, [calls[i] EXCEPT !.pc = pc])

\* The handler as it goes on when it is through with its present work.
Through(i) ==
  LET call == calls[i] IN
  IF call.then = <<>> THEN Idle
  ELSE [call EXCEPT !.pc = Head(call.then), !.then = Tail(call.then), !.todo = <<>>]

Finish(i) == Set(i, Through(i))
NextOf(i) == Set(i, [calls[i] EXCEPT !.todo = Tail(@)])

=============================================================================
