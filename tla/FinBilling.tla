----------------------------- MODULE FinBilling -----------------------------
(***************************************************************************)
(* Recurring invoices.  An agreement has services, each with the date of   *)
(* its next bill.  Two kinds of run bill what is due: a bulk job somebody  *)
(* starts for a period, whose rows lib/finBulkRunner.ts goes through, and  *)
(* the automatic billing of the cron, lib/fin/autoBillRunner.ts.  Both put *)
(* one agreement at a time through lib/finRecurringProcessor.ts, which     *)
(* reads, checks, inserts an invoice, inserts its lines and moves the      *)
(* dates on, each in a statement of its own and outside any transaction.   *)
(*                                                                         *)
(* A date is a month and a day of it, and months have their own lengths: a *)
(* day the next month does not have runs over into the month after, as it  *)
(* does in JavaScript.  Days are those of UTC, which is the zone of the    *)
(* server: neither the Dockerfile nor vercel.json sets another.  Creating  *)
(* a job, starting it and its summary are two statements or three and one  *)
(* step here.  Amounts, numbers, the e-Factura record and the mail that    *)
(* follow an invoice are left out.                                         *)
(***************************************************************************)
EXTENDS Integers, FiniteSets

CONSTANTS Agreements, Services,
          Of,            \* the agreement of a service
          First,         \* the date of its first bill
          Step,          \* months between two bills, 0 when recurrencePeriod is null
          Year,          \* months in the cycle of month lengths
          Lengths,       \* days of each of them
          AutoBilling,   \* the agreements the cron bills
          Runners,       \* processes that may bill, one run each at a time
          Worlds         \* the agreements in force at first and the bounds of a behaviour

Dates == [m : Nat, d : Nat]

ASSUME BillingAssumption ==
  /\ Agreements # {}
  /\ Of \in [Services -> Agreements]
  /\ First \in [Services -> Dates]
  /\ Step \in [Services -> Nat]
  /\ Year \in Nat \ {0} /\ Lengths \in [0..(Year - 1) -> Nat \ {0}]
  /\ AutoBilling \subseteq Agreements
  /\ \A w \in Worlds : /\ w.active \subseteq Agreements /\ w.until \in Dates
                       /\ {w.together, w.invoices, w.faults, w.edits} \subseteq Nat

VARIABLES now,        \* today
          active,     \* agreements whose status is "active"
          next,       \* nextBillDate of each service
          invoices,   \* [id, agr, month, own]: own when a run made it for the month it began in
          lines,      \* [inv, svc, date]: the date it billed is not stored, it is kept here to state what was billed
          job,        \* the last bulk job of each runner: its status and its rows
          run,        \* what each runner is doing
          mixed,      \* two runs were once under way together
          spent,      \* faults and edits so far
          world       \* the bounds of this behaviour

vars == <<now, active, next, invoices, lines, job, run, mixed, spent, world>>

MAX_RETRY == 3
RowStates == {"none", "pending", "success", "skipped", "fail", "cancelled"}
JobStates == {"none", "pending", "running", "done", "failed", "cancelled"}
Row == [st : RowStates, tries : Nat]

DaysIn(m) == Lengths[m % Year]
NotAfter(d, e) == d.m < e.m \/ (d.m = e.m /\ d.d <= e.d)
Tomorrow(d) == IF d.d < DaysIn(d.m) THEN [d EXCEPT !.d = @ + 1] ELSE [m |-> d.m + 1, d |-> 1]

\* nextBillDate: setMonth or setFullYear.  What the month has no day for runs
\* over: a month after 31 January is 3 March.
After(s, d) ==
  LET m == d.m + Step[s]
  IN  IF d.d <= DaysIn(m) THEN [m |-> m, d |-> d.d] ELSE [m |-> m + 1, d |-> d.d - DaysIn(m)]

Due(a) == {s \in Services : Of[s] = a /\ NotAfter(next[s], now)}
WithDue(A) == {a \in A : Due(a) # {}}

IdleRun == [at |-> "idle", kind |-> "auto", period |-> 0, own |-> TRUE, todo |-> {},
            agr |-> CHOOSE a \in Agreements : TRUE, due |-> {}, inv |-> 0, res |-> "skip"]
NoJob == [status |-> "none", rows |-> [a \in Agreements |-> [st |-> "none", tries |-> 0]]]

Init ==
  /\ world \in Worlds
  /\ now = [m |-> 0, d |-> 1]
  /\ active = world.active
  /\ next = First
  /\ invoices = {} /\ lines = {}
  /\ job = [r \in Runners |-> NoJob]
  /\ run = [r \in Runners |-> IdleRun]
  /\ mixed = FALSE
  /\ spent = [faults |-> 0, edits |-> 0]

At(r, place) == run[r].at = place
Busy == {r \in Runners : ~At(r, "idle")}
MayBegin(r) == r \notin Busy /\ Cardinality(Busy) < world.together
Mixes == mixed' = (mixed \/ Busy # {})

-----------------------------------------------------------------------------
(* The runs. *)

\* POST /recurring-invoices: a job with a row for each active agreement that
\* has something due; with no row it is done at once.  The period is the
\* caller's, this month when he gives none.
CreateJob(r, period) ==
  /\ MayBegin(r)
  /\ period = now.m \/ Cardinality(invoices) < world.invoices
  /\ LET due == WithDue(active)
     IN  /\ job' = [job EXCEPT ![r] =
                      [status |-> IF due = {} THEN "done" ELSE "pending",
                       rows |-> [a \in Agreements |->
                                  [st |-> IF a \in due THEN "pending" ELSE "none", tries |-> 0]]]]
         /\ IF due = {} THEN UNCHANGED <<run, mixed>>
            ELSE /\ run' = [run EXCEPT ![r] = [IdleRun EXCEPT !.at = "start", !.kind = "job",
                                                 !.period = period, !.own = (period = now.m)]]
                 /\ Mixes
  /\ UNCHANGED <<now, active, next, invoices, lines, spent, world>>

\* runBulkJob marks the job running, whatever became of it meanwhile, and
\* fetches the rows that may be processed.  It passes over them once.  (When
\* the first statement throws the job is left as it is, as when it dies.)
StartJob(r) ==
  /\ At(r, "start")
  /\ job' = [job EXCEPT ![r].status = "running"]
  /\ run' = [run EXCEPT ![r].at = "pick",
               ![r].todo = {a \in Agreements :
                              /\ job[r].rows[a].st \in {"pending", "fail"}
                              /\ job[r].rows[a].tries < MAX_RETRY}]
  /\ UNCHANGED <<now, active, next, invoices, lines, mixed, spent, world>>

\* runAutoBilling: the active agreements with automatic billing and something
\* due, for this month.
StartAuto(r) ==
  /\ MayBegin(r)
  /\ run' = [run EXCEPT ![r] = [IdleRun EXCEPT !.at = "pick", !.period = now.m,
                                               !.todo = WithDue(active \cap AutoBilling)]]
  /\ Mixes
  /\ UNCHANGED <<now, active, next, invoices, lines, job, spent, world>>

Pick(r) ==
  /\ At(r, "pick")
  /\ \E a \in run[r].todo :
       run' = [run EXCEPT ![r].at = "agreement", ![r].agr = a, ![r].todo = @ \ {a}]
  /\ UNCHANGED <<now, active, next, invoices, lines, job, mixed, spent, world>>

-----------------------------------------------------------------------------
(* One agreement through makeRecurringInvoiceProcessor. *)

\* The processor answers: a job writes it to the row, the cron goes on.
Answers(r, res) ==
  run' = [run EXCEPT ![r].at = IF run[r].kind = "job" THEN "row" ELSE "pick",
                     ![r].res = res, ![r].due = {}]

ReadAgreement(r) ==
  /\ At(r, "agreement")
  /\ IF run[r].agr \in active THEN run' = [run EXCEPT ![r].at = "services"]
                              ELSE Answers(r, "error")
  /\ UNCHANGED <<now, active, next, invoices, lines, job, mixed, spent, world>>

\* The due services with their dates as they are now.
ReadServices(r) ==
  /\ At(r, "services")
  /\ LET due == Due(run[r].agr)
     IN  IF due = {} THEN Answers(r, "skip")
         ELSE run' = [run EXCEPT ![r].at = "check", ![r].due = {<<s, next[s]>> : s \in due}]
  /\ UNCHANGED <<now, active, next, invoices, lines, job, mixed, spent, world>>

\* Variant: only an invoice that has its lines counts.
CheckPeriodWithLines(r) ==
  /\ At(r, "check")
  /\ IF \E i \in invoices : /\ i.agr = run[r].agr /\ i.month = run[r].period
                            /\ \E l \in lines : l.inv = i.id
     THEN Answers(r, "skip")
     ELSE run' = [run EXCEPT ![r].at = "insert"]
  /\ UNCHANGED <<now, active, next, invoices, lines, job, mixed, spent, world>>

\* An invoice of the agreement created within the period, whoever made it and
\* whatever it bills.
CheckPeriod(r) ==
  /\ At(r, "check")
  /\ IF \E i \in invoices : i.agr = run[r].agr /\ i.month = run[r].period
     THEN Answers(r, "skip")
     ELSE run' = [run EXCEPT ![r].at = "insert"]
  /\ UNCHANGED <<now, active, next, invoices, lines, job, mixed, spent, world>>

NewId == Cardinality(invoices) + 1

InsertInvoice(r) ==
  /\ At(r, "insert")
  /\ invoices' = invoices \cup {[id |-> NewId, agr |-> run[r].agr, month |-> now.m, own |-> run[r].own]}
  /\ run' = [run EXCEPT ![r].at = "lines", ![r].inv = NewId]
  /\ UNCHANGED <<now, active, next, lines, job, mixed, spent, world>>

InsertLines(r) ==
  /\ At(r, "lines")
  /\ lines' = lines \cup {[inv |-> run[r].inv, svc |-> d[1], date |-> d[2]] : d \in run[r].due}
  /\ run' = [run EXCEPT ![r].at = "advance"]
  /\ UNCHANGED <<now, active, next, invoices, job, mixed, spent, world>>

\* Variant: one period on from today.
AdvanceFromToday(r) ==
  /\ At(r, "advance")
  /\ \E d \in run[r].due :
       /\ next' = IF Step[d[1]] > 0 THEN [next EXCEPT ![d[1]] = After(d[1], now)] ELSE next
       /\ IF run[r].due = {d} THEN Answers(r, "success")
                              ELSE run' = [run EXCEPT ![r].due = @ \ {d}]
  /\ UNCHANGED <<now, active, invoices, lines, job, mixed, spent, world>>

\* One service after another: one period on from the date that was read.  A
\* service without a period keeps its date, and nothing else marks it billed
\* that anybody reads.
Advance(r) ==
  /\ At(r, "advance")
  /\ \E d \in run[r].due :
       /\ next' = IF Step[d[1]] > 0 THEN [next EXCEPT ![d[1]] = After(d[1], d[2])] ELSE next
       /\ IF run[r].due = {d} THEN Answers(r, "success")
                              ELSE run' = [run EXCEPT ![r].due = @ \ {d}]
  /\ UNCHANGED <<now, active, invoices, lines, job, mixed, spent, world>>

-----------------------------------------------------------------------------
(* What a run leaves behind. *)

\* A row that failed is put back to "pending" until its third failure.
RowAfter(row, res) ==
  CASE res = "success" -> [row EXCEPT !.st = "success"]
    [] res = "skip"    -> [row EXCEPT !.st = "skipped"]
    [] res \in {"error", "thrown"} ->
         [st |-> IF row.tries + 1 >= MAX_RETRY THEN "fail" ELSE "pending", tries |-> row.tries + 1]

WriteRow(r) ==
  /\ At(r, "row")
  /\ job' = [job EXCEPT ![r].rows[run[r].agr] = RowAfter(@, run[r].res)]
  /\ run' = [run EXCEPT ![r].at = "pick"]
  /\ UNCHANGED <<now, active, next, invoices, lines, mixed, spent, world>>

Has(r, st) == \E a \in Agreements : job[r].rows[a].st = st

\* The summary at the end of runBulkJob; also over a job that was cancelled.
Summarise(r) ==
  /\ At(r, "pick") /\ run[r].todo = {} /\ run[r].kind = "job"
  /\ job' = [job EXCEPT ![r].status =
               IF Has(r, "pending") THEN "running"
               ELSE IF Has(r, "fail") /\ ~Has(r, "success") /\ ~Has(r, "skipped") THEN "failed"
               ELSE "done"]
  /\ run' = [run EXCEPT ![r] = IdleRun]
  /\ UNCHANGED <<now, active, next, invoices, lines, mixed, spent, world>>

EndAuto(r) ==
  /\ At(r, "pick") /\ run[r].todo = {} /\ run[r].kind = "auto"
  /\ run' = [run EXCEPT ![r] = IdleRun]
  /\ UNCHANGED <<now, active, next, invoices, lines, job, mixed, spent, world>>

\* POST /jobs/:jobId/cancel.
CancelJob(r) ==
  /\ job[r].status \in {"pending", "running"}
  /\ job' = [job EXCEPT ![r] =
               [status |-> "cancelled",
                rows |-> [a \in Agreements |->
                            IF @.rows[a].st = "pending" THEN [@.rows[a] EXCEPT !.st = "cancelled"]
                            ELSE @.rows[a]]]]
  /\ UNCHANGED <<now, active, next, invoices, lines, run, mixed, spent, world>>

-----------------------------------------------------------------------------
(* The world around: failures, people, days. *)

Fails == /\ spent.faults < world.faults
         /\ spent' = [spent EXCEPT !.faults = @ + 1]

\* A statement of the processor throws, or the update of the row with its
\* answer does: the catch of the row, or the cron's outcome.
Stumble(r) ==
  /\ \/ run[r].at \in {"agreement", "services", "check", "insert", "lines", "advance"}
     \/ At(r, "row") /\ run[r].res # "thrown"
  /\ Fails
  /\ Answers(r, "thrown")
  /\ UNCHANGED <<now, active, next, invoices, lines, job, mixed, world>>

\* A statement of runBulkJob throws where no row catches it: reading the rows,
\* the update in a row's own catch, the summary.
FailJob(r) ==
  /\ run[r].kind = "job"
  /\ \/ At(r, "start")
     \/ At(r, "row") /\ run[r].res = "thrown"
     \/ At(r, "pick") /\ run[r].todo = {}
  /\ Fails
  /\ job' = [job EXCEPT ![r].status = "failed"]
  /\ run' = [run EXCEPT ![r] = IdleRun]
  /\ UNCHANGED <<now, active, next, invoices, lines, mixed, world>>

\* The process dies; nothing takes its job up again.
Die(r) ==
  /\ ~At(r, "idle") /\ Fails
  /\ run' = [run EXCEPT ![r] = IdleRun]
  /\ UNCHANGED <<now, active, next, invoices, lines, job, mixed, world>>

Edits == /\ spent.edits < world.edits
         /\ spent' = [spent EXCEPT !.edits = @ + 1]

\* POST /invoices by hand, for an agreement.
ManualInvoice(a) ==
  /\ Cardinality(invoices) < world.invoices /\ Edits
  /\ invoices' = invoices \cup {[id |-> NewId, agr |-> a, month |-> now.m, own |-> FALSE]}
  /\ UNCHANGED <<now, active, next, lines, job, run, mixed, world>>

\* PATCH and DELETE of an agreement: its status.
SetStatus(a) ==
  /\ Edits
  /\ active' = IF a \in active THEN active \ {a} ELSE active \cup {a}
  /\ UNCHANGED <<now, next, invoices, lines, job, run, mixed, world>>

NextDay ==
  /\ ~NotAfter(world.until, now)
  /\ now' = Tomorrow(now)
  /\ UNCHANGED <<active, next, invoices, lines, job, run, mixed, spent, world>>

Process(r) ==
  ReadAgreement(r) \/ ReadServices(r) \/ CheckPeriod(r) \/ InsertInvoice(r) \/ InsertLines(r) \/ Advance(r)

Next ==
  \/ \E r \in Runners :
       \/ \E period \in 0..world.until.m : CreateJob(r, period)
       \/ StartJob(r) \/ StartAuto(r) \/ Pick(r) \/ Process(r)
       \/ WriteRow(r) \/ Summarise(r) \/ EndAuto(r) \/ CancelJob(r)
       \/ Stumble(r) \/ FailJob(r) \/ Die(r)
  \/ \E a \in Agreements : ManualInvoice(a) \/ SetStatus(a)
  \/ NextDay

Spec == Init /\ [][Next]_vars

-----------------------------------------------------------------------------
(* Properties. *)

Places == {"idle", "start", "pick", "agreement", "services", "check", "insert", "lines",
           "advance", "row"}
Runs == [at : Places, kind : {"auto", "job"}, period : Nat, own : BOOLEAN,
         todo : SUBSET Agreements, agr : Agreements, due : SUBSET (Services \X Dates),
         inv : Nat, res : {"success", "skip", "error", "thrown"}]
Jobs == [status : JobStates, rows : [Agreements -> Row]]

\* The type invariant.
TypeOK ==
  /\ world \in Worlds /\ now \in Dates /\ mixed \in BOOLEAN
  /\ active \subseteq Agreements
  /\ next \in [Services -> Dates]
  /\ IsFiniteSet(invoices)
  /\ invoices \subseteq [id : Nat, agr : Agreements, month : Nat, own : BOOLEAN]
  /\ lines \subseteq [inv : Nat, svc : Services, date : Dates]
  /\ run \in [Runners -> Runs]
  /\ job \in [Runners -> Jobs]

Billed(s, d) == \E l \in lines : l.svc = s /\ l.date = d

\* A date a service can have come to: its first, or the one its schedule gives
\* after a date it was billed for.
Reached(s, d) == d = First[s] \/ \E l \in lines : l.svc = s /\ After(s, l.date) = d

\* No date the schedule of a service gives is passed over: the date it waits
\* for and each it was billed for come right after one it was billed for, back
\* to its first.  With runs that overlap, die half-way or are cancelled, and
\* with dates read long before they are written (finRecurringProcessor.ts
\* steps 2, 6 and 7).  The schedule itself may leave out a month: see
\* MonthlyIsMonthly.
EveryDateBilled ==
  /\ \A s \in Services : Reached(s, next[s])
  /\ \A l \in lines : Reached(l.svc, l.date)

\* "monthly: +1 month" (finRecurringProcessor.ts:36): between its first date
\* and the one it waits for, a monthly service is billed for every month.
MonthlyIsMonthly ==
  \A s \in Services : Step[s] = 1 =>
    \A m \in First[s].m..(next[s].m - 1) : \E l \in lines : l.svc = s /\ l.date.m = m

\* Runs that come one after another for the month they begin in bill an
\* agreement once a month at most, a run that died after its invoice and the
\* two kinds of run included (the check of step 3).
OncePerMonth ==
  ~mixed => \A i, j \in invoices :
    (i.own /\ j.own /\ i.agr = j.agr /\ i.month = j.month) => i = j

\* No row of a job is ever marked failed: the runner passes once over rows
\* that have not been tried, so POST /jobs/:jobId/retry, which takes up rows
\* marked failed, finds none.
NoRowFails ==
  \A r \in Runners : \A a \in Agreements : job[r].rows[a].st # "fail"
=============================================================================
