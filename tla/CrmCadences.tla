----------------------------- MODULE CrmCadences ----------------------------
(***************************************************************************)
(* Cadences: the steps by which a lead is followed up.  Leads are enrolled *)
(* by hand, by the stage they enter and by the reactivation of lost        *)
(* customers; the cron fires the steps that are due; an answer of the      *)
(* customer stops his cadences.                                            *)
(***************************************************************************)
EXTENDS CrmInstances

CONSTANTS
  Cadences,
  Steps,         \* of each cadence: the days before each step
  TriggerStage,  \* of each cadence, "none" when it is entered by hand
  Limit,         \* enrolments one run of the cron takes: 500
  LastDay,       \* bounds on the days, and on the enrolments
  MaxEnrolled

ASSUME CadencesAssumption ==
  /\ Steps \in [Cadences -> Seq(Nat)]
  /\ IsFiniteSet(Cadences)
  /\ Limit \in Nat \ {0} /\ LastDay \in Nat /\ MaxEnrolled \in Nat

VARIABLES
  enrolled,  \* crm_cadence_enrollments, in the order of their insertion
  enabled,   \* the cadences that are switched on
  today,
  fired      \* the tasks and notes each enrolment has made, by step

cadenceVars == <<enrolled, enabled, today, fired>>

Never == LastDay + 1000

CadencesTypeOK ==
  /\ enrolled \in Seq([lead : Leads, cadence : Cadences,
                       status : {"active", "done", "cancelled"},
                       step : Nat, at : Nat])
  /\ enabled \subseteq Cadences
  /\ today \in 0 .. LastDay
  /\ DOMAIN fired = DOMAIN enrolled
  /\ \A e \in DOMAIN fired : fired[e] \in Seq(Nat)

CadencesInit ==
  /\ enrolled = <<>> /\ fired = <<>>
  /\ enabled = Cadences
  /\ today = 0

\* Variant: the days are taken off.
NextFireBack(c, step) ==
  IF step < Len(Steps[c]) THEN today - Steps[c][step + 1] ELSE Never

\* computeNextFire; the offsets are never negative here.
NextFire(c, step) == IF step < Len(Steps[c]) THEN today + Steps[c][step + 1] ELSE Never

Active(l, c) ==
  \E e \in DOMAIN enrolled :
    enrolled[e].lead = l /\ enrolled[e].cadence = c /\ enrolled[e].status = "active"

----------------------------------------------------------------------------
(* Enrolment.                                                              *)

\* POST /enroll, and a rule of reactivation.
ArriveEnrol(i, l, c) ==
  /\ Len(enrolled) < world.rows
  /\ Accept(i, [Idle EXCEPT !.pc = "find", !.lead = l, !.todo = <<c>>])
  /\ UNCHANGED <<cadenceVars, faults, world>>

\* enrollByStage: the cadences of the stage entered that are switched on and
\* not active for the lead yet.
EnrolByStage(i) ==
  LET call == calls[i]
      new  == {c \in enabled : TriggerStage[c] = call.to /\ ~Active(call.lead, c)}
  IN
  /\ call.pc = "enrol"
  /\ \E list \in SetToSeqs(new) : Set(i, [call EXCEPT !.pc = "find", !.todo = list])
  /\ UNCHANGED <<cadenceVars, faults, world>>

\* Variant: whoever is active already is enrolled again.
FindActiveNever(i) ==
  LET call == calls[i] IN
  /\ call.pc = "find"
  /\ IF call.todo = <<>> THEN Finish(i) ELSE Goto(i, "insert")
  /\ UNCHANGED <<cadenceVars, faults, world>>

\* enrollLeadInCadence, up to findActiveEnrollment.
FindActive(i) ==
  LET call == calls[i] IN
  /\ call.pc = "find"
  /\ IF call.todo = <<>> THEN Finish(i)
     ELSE IF Active(call.lead, Head(call.todo)) THEN NextOf(i)
     ELSE Goto(i, "insert")
  /\ UNCHANGED <<cadenceVars, faults, world>>

\* A cadence without steps is done at once.
InsertEnrolment(i) ==
  LET call == calls[i]
      c    == Head(call.todo)
      some == Steps[c] # <<>>
  IN
  /\ call.pc = "insert"
  /\ enrolled' = Append(enrolled,
       [lead |-> call.lead, cadence |-> c, step |-> 0,
        status |-> IF some THEN "active" ELSE "done", at |-> NextFire(c, 0)])
  /\ fired' = Append(fired, <<>>)
  /\ Set(i, [call EXCEPT !.pc = "find", !.todo = Tail(@)])
  /\ UNCHANGED <<enabled, today, faults, world>>

----------------------------------------------------------------------------
(* The cron.                                                               *)

\* Variant: enrolments of a cadence that is switched off take their place too.
DueInAny == {e \in DOMAIN enrolled : enrolled[e].status = "active" /\ enrolled[e].at <= today}

Due == {e \in DOMAIN enrolled : /\ enrolled[e].status = "active"
                                /\ enrolled[e].at <= today
                                /\ enrolled[e].cadence \in enabled}

\* The first of the due ones, oldest first, of equally old ones any first.
Batches ==
  {SubSeq(s, 1, IF Len(s) < Limit THEN Len(s) ELSE Limit) :
     s \in {p \in SetToSeqs(Due) : \A m, n \in DOMAIN p :
              m < n => enrolled[p[m]].at <= enrolled[p[n]].at}}

\* processDueEnrollments, by the daily cron or by the button.
StartCron(i) ==
  /\ world.cron /\ Due # {}
  /\ \E list \in Batches : Accept(i, [Idle EXCEPT !.pc = "next", !.todo = list])
  /\ UNCHANGED <<cadenceVars, faults, world>>

\* Variant: the list is trusted.
ReadEnrolmentTrusts(i) ==
  LET call == calls[i] IN
  /\ call.pc = "next"
  /\ IF call.todo = <<>> THEN Finish(i)
     ELSE Set(i, [call EXCEPT !.pc = "fire", !.step = enrolled[Head(call.todo)].step])
  /\ UNCHANGED <<cadenceVars, faults, world>>

\* advanceEnrollment reads the enrolment again, and its cadence.
ReadEnrolment(i) ==
  LET call == calls[i]
      row  == enrolled[Head(call.todo)]
  IN
  /\ call.pc = "next"
  /\ IF call.todo = <<>> THEN Finish(i)
     ELSE IF row.status = "active" /\ row.cadence \in enabled
          THEN Set(i, [call EXCEPT !.pc = "fire", !.step = row.step])
          ELSE NextOf(i)
  /\ UNCHANGED <<cadenceVars, faults, world>>

\* The task or the note of the step.
FireStep(i) ==
  LET call == calls[i]
      e    == Head(call.todo)
  IN
  /\ call.pc = "fire"
  /\ fired' = IF call.step < Len(Steps[enrolled[e].cadence])
              THEN [fired EXCEPT ![e] = Append(@, call.step)] ELSE fired
  /\ Goto(i, "advance")
  /\ UNCHANGED <<enrolled, enabled, today, faults, world>>

\* Variant: the enrolment is advanced to the step after the next.
AdvanceTwo(i) ==
  LET call == calls[i]
      e    == Head(call.todo)
      next == call.step + 2
  IN
  /\ call.pc = "advance"
  /\ enrolled' = [enrolled EXCEPT
       ![e].step = next,
       ![e].at = NextFire(enrolled[e].cadence, next),
       ![e].status = IF next < Len(Steps[enrolled[e].cadence]) THEN "active" ELSE "done"]
  /\ Set(i, [call EXCEPT !.pc = "next", !.todo = Tail(@)])
  /\ UNCHANGED <<enabled, today, fired, faults, world>>

\* advanceState of what was read, written whatever the row is by now.
Advance(i) ==
  LET call == calls[i]
      e    == Head(call.todo)
      next == call.step + 1
  IN
  /\ call.pc = "advance"
  /\ enrolled' = [enrolled EXCEPT
       ![e].step = next,
       ![e].at = NextFire(enrolled[e].cadence, next),
       ![e].status = IF next < Len(Steps[enrolled[e].cadence]) THEN "active" ELSE "done"]
  /\ Set(i, [call EXCEPT !.pc = "next", !.todo = Tail(@)])
  /\ UNCHANGED <<enabled, today, fired, faults, world>>

----------------------------------------------------------------------------
(* The end of an enrolment, the switch and the days.                       *)

\* stopCadencesOnReply reads the active enrolments of the lead ...
ArriveReply(i, l) ==
  LET active == {e \in DOMAIN enrolled : enrolled[e].lead = l /\ enrolled[e].status = "active"}
  IN
  /\ world.replies /\ active # {}
  /\ \E list \in SetToSeqs(active) :
       Accept(i, [Idle EXCEPT !.pc = "stop", !.lead = l, !.todo = list])
  /\ UNCHANGED <<cadenceVars, faults, world>>

Cancelled(e) == [enrolled EXCEPT ![e].status = "cancelled", ![e].at = Never]

\* ... and cancels them one by one.
StopOne(i) ==
  LET call == calls[i] IN
  /\ call.pc = "stop"
  /\ enrolled' = Cancelled(Head(call.todo))
  /\ IF Len(call.todo) > 1 THEN NextOf(i) ELSE Finish(i)
  /\ UNCHANGED <<enabled, today, fired, faults, world>>

\* POST /enrollments/:id/cancel.
CancelEnrolment(e) ==
  /\ world.replies
  /\ enrolled' = Cancelled(e)
  /\ UNCHANGED <<enabled, today, fired, shared>>

Toggle(c) ==
  /\ c \in world.toggles
  /\ enabled' = IF c \in enabled THEN enabled \ {c} ELSE enabled \union {c}
  /\ UNCHANGED <<enrolled, today, fired, shared>>

NextDay ==
  /\ world.cron /\ today < LastDay
  /\ today' = today + 1
  /\ UNCHANGED <<enrolled, enabled, fired, shared>>

CadenceWork(i) ==
  \/ EnrolByStage(i) \/ FindActive(i) \/ InsertEnrolment(i)
  \/ ReadEnrolment(i) \/ FireStep(i) \/ Advance(i) \/ StopOne(i)

CadenceRequest(i) ==
  \/ \E l \in Leads, c \in world.enrols : ArriveEnrol(i, l, c)
  \/ StartCron(i)
  \/ \E l \in Leads : ArriveReply(i, l)

----------------------------------------------------------------------------
(* Properties.                                                             *)

\* No step of a cadence is skipped, whatever overlaps and wherever an instance
\* dies: the enrolment advances only past a step that has made its task.
NoStepSkipped ==
  \A e \in DOMAIN enrolled : \A n \in 0 .. enrolled[e].step - 1 :
    \E k \in DOMAIN fired[e] : fired[e][k] = n

\* "Two active enrolments in one cadence fire every step twice": while requests
\* come one at a time, a lead has one at most, and a step fires once unless an
\* instance has died over it.
EachStepOnce ==
  world.together = 1 =>
    /\ \A d, e \in DOMAIN enrolled :
         enrolled[d].status = "active" /\ enrolled[e].status = "active"
         /\ enrolled[d].lead = enrolled[e].lead
         /\ enrolled[d].cadence = enrolled[e].cadence => d = e
    /\ faults = 0 => \A e \in DOMAIN fired : \A m, n \in DOMAIN fired[e] :
         fired[e][m] = fired[e][n] => m = n

InHand(e) ==
  \E i \in Instances : calls[i].pc \in {"fire", "advance"} /\ Head(calls[i].todo) = e

\* A cancelled enrolment stays cancelled, fires nothing and is not taken up
\* any more, also when it is on the list of a run that is under way; only the
\* step that was already in the hands of that run may still come.
CancelHolds ==
  [][\A e \in DOMAIN enrolled :
       enrolled[e].status = "cancelled" /\ ~InHand(e) =>
         enrolled'[e].status = "cancelled" /\ fired'[e] = fired[e] /\ ~InHand(e)']_<<cadenceVars, calls>>

Waits(e) ==
  e \in DOMAIN enrolled /\ enrolled[e].status = "active"
  /\ enrolled[e].at <= today /\ enrolled[e].cadence \in enabled

\* "What is left fires at the next run": an enrolment that is due is served in
\* the end, however few a run takes, and cadences that are switched off do not
\* take its place; switches that are worked for ever could keep it waiting.
DueIsServed ==
  <>[][FALSE]_enabled => \A e \in 1 .. MaxEnrolled + Cardinality(Instances) :
    world.cron /\ Waits(e) ~> ~Waits(e)

=============================================================================
