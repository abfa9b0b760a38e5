-------------------------- MODULE FinBillingProofs --------------------------
(***************************************************************************)
(* What holds of recurring invoices for every set of agreements, services, *)
(* runners and every bound.                                                *)
(***************************************************************************)
EXTENDS FinBilling, FiniteSetTheorems, TLAPS

-----------------------------------------------------------------------------
(* Types. *)

LEMMA IdleRunType == IdleRun \in Runs
  BY BillingAssumption, SMT DEF IdleRun, Runs, Places

LEMMA NoJobType == NoJob \in Jobs
  BY DEF NoJob, Jobs, JobStates, Row, RowStates

\* A run with some of its fields changed.
LEMMA MovedRun ==
  ASSUME NEW R \in Runs, NEW at \in Places
  PROVE  [R EXCEPT !.at = at] \in Runs
  BY DEF Runs

LEMMA AnsweredRun ==
  ASSUME NEW R \in Runs, NEW at \in Places, NEW res \in {"success", "skip", "error", "thrown"}
  PROVE  [R EXCEPT !.at = at, !.res = res, !.due = {}] \in Runs
<1>1. [R EXCEPT !.at = at] \in Runs
  BY DEF Runs
<1>2. [[R EXCEPT !.at = at] EXCEPT !.res = res] \in Runs
  BY <1>1 DEF Runs
<1>3. [[[R EXCEPT !.at = at] EXCEPT !.res = res] EXCEPT !.due = {}] \in Runs
  BY <1>2 DEF Runs
<1>4. [[[R EXCEPT !.at = at] EXCEPT !.res = res] EXCEPT !.due = {}]
        = [R EXCEPT !.at = at, !.res = res, !.due = {}]
  BY DEF Runs
<1> QED BY <1>3, <1>4

LEMMA FilledRun ==
  ASSUME NEW R \in Runs, NEW at \in Places, NEW D \in SUBSET (Services \X Dates)
  PROVE  [R EXCEPT !.at = at, !.due = D] \in Runs
<1>1. [R EXCEPT !.at = at] \in Runs
  BY DEF Runs
<1>2. [[R EXCEPT !.at = at] EXCEPT !.due = D] \in Runs
  BY <1>1 DEF Runs
<1>3. [[R EXCEPT !.at = at] EXCEPT !.due = D]
        = [R EXCEPT !.at = at, !.due = D]
  BY DEF Runs
<1> QED BY <1>2, <1>3

LEMMA LoadedRun ==
  ASSUME NEW R \in Runs, NEW at \in Places, NEW A \in SUBSET Agreements
  PROVE  [R EXCEPT !.at = at, !.todo = A] \in Runs
<1>1. [R EXCEPT !.at = at] \in Runs
  BY DEF Runs
<1>2. [[R EXCEPT !.at = at] EXCEPT !.todo = A] \in Runs
  BY <1>1 DEF Runs
<1>3. [[R EXCEPT !.at = at] EXCEPT !.todo = A]
        = [R EXCEPT !.at = at, !.todo = A]
  BY DEF Runs
<1> QED BY <1>2, <1>3

LEMMA NumberedRun ==
  ASSUME NEW R \in Runs, NEW at \in Places, NEW n \in Nat
  PROVE  [R EXCEPT !.at = at, !.inv = n] \in Runs
<1>1. [R EXCEPT !.at = at] \in Runs
  BY DEF Runs
<1>2. [[R EXCEPT !.at = at] EXCEPT !.inv = n] \in Runs
  BY <1>1 DEF Runs
<1>3. [[R EXCEPT !.at = at] EXCEPT !.inv = n]
        = [R EXCEPT !.at = at, !.inv = n]
  BY DEF Runs
<1> QED BY <1>2, <1>3

LEMMA JobRun ==
  ASSUME NEW period \in Nat, NEW own \in BOOLEAN
  PROVE  [IdleRun EXCEPT !.at = "start", !.kind = "job", !.period = period, !.own = own] \in Runs
<1>1. [IdleRun EXCEPT !.at = "start"] \in Runs
  BY IdleRunType DEF Runs, Places
<1>2. [[IdleRun EXCEPT !.at = "start"] EXCEPT !.kind = "job"] \in Runs
  BY <1>1 DEF Runs
<1>3. [[[IdleRun EXCEPT !.at = "start"] EXCEPT !.kind = "job"] EXCEPT !.period = period] \in Runs
  BY <1>2 DEF Runs
<1>4. [[[[IdleRun EXCEPT !.at = "start"] EXCEPT !.kind = "job"] EXCEPT !.period = period] EXCEPT !.own = own] \in Runs
  BY <1>3 DEF Runs
<1>5. [[[[IdleRun EXCEPT !.at = "start"] EXCEPT !.kind = "job"] EXCEPT !.period = period] EXCEPT !.own = own]
        = [IdleRun EXCEPT !.at = "start", !.kind = "job", !.period = period, !.own = own]
  BY IdleRunType DEF Runs
<1> QED BY <1>4, <1>5

LEMMA AnswersType ==
  ASSUME TypeOK, NEW r \in Runners, NEW res \in {"success", "skip", "error", "thrown"}, Answers(r, res)
  PROVE  run' \in [Runners -> Runs]
<1> DEFINE at == IF run[r].kind = "job" THEN "row" ELSE "pick"
<1>1. at \in Places
  BY DEF Places
<1>2. [run[r] EXCEPT !.at = at, !.res = res, !.due = {}] \in Runs
  BY <1>1, AnsweredRun DEF TypeOK
<1>3. run' = [run EXCEPT ![r] = [run[r] EXCEPT !.at = at, !.res = res, !.due = {}]]
  BY DEF Answers, TypeOK
<1> QED BY <1>2, <1>3 DEF TypeOK

LEMMA DaysInType ==
  ASSUME NEW m \in Nat
  PROVE  DaysIn(m) \in Nat \ {0}
<1>1. m % Year \in 0..(Year - 1)
  BY BillingAssumption
<1> QED BY <1>1, BillingAssumption DEF DaysIn

LEMMA TomorrowType ==
  ASSUME NEW d \in Dates
  PROVE  Tomorrow(d) \in Dates /\ d.m <= Tomorrow(d).m
<1>1. d.m \in Nat /\ d.d \in Nat
  BY DEF Dates
<1> QED BY <1>1 DEF Tomorrow, Dates

\* A service's next date is a date.
LEMMA AfterType ==
  ASSUME NEW s \in Services, NEW d \in Dates
  PROVE  After(s, d) \in Dates
<1> DEFINE m == d.m + Step[s]
<1>1. m \in Nat /\ d.d \in Nat
  BY BillingAssumption DEF Dates
<1>2. DaysIn(m) \in Nat
  BY <1>1, DaysInType
<1>3. d.d > DaysIn(m) => d.d - DaysIn(m) \in Nat
  BY <1>1, <1>2
<1>4. After(s, d) = IF d.d <= DaysIn(m) THEN [m |-> m, d |-> d.d]
                    ELSE [m |-> m + 1, d |-> d.d - DaysIn(m)]
  BY DEF After
<1> HIDE DEF m
<1> QED BY <1>1, <1>2, <1>3, <1>4 DEF Dates

LEMMA RowAfterType ==
  ASSUME NEW row \in Row, NEW res \in {"success", "skip", "error", "thrown"}
  PROVE  RowAfter(row, res) \in Row
  BY DEF RowAfter, Row, RowStates, MAX_RETRY

LEMMA InitType == Init => TypeOK
<1> SUFFICES ASSUME Init PROVE TypeOK
  OBVIOUS
<1>1. IsFiniteSet(invoices)
  BY FS_EmptySet DEF Init
<1>2. run \in [Runners -> Runs] /\ job \in [Runners -> Jobs]
  BY IdleRunType, NoJobType DEF Init
<1>3. active \subseteq Agreements
  BY BillingAssumption DEF Init
<1>4. now \in Dates /\ next \in [Services -> Dates]
  BY BillingAssumption DEF Init, Dates
<1> QED BY <1>1, <1>2, <1>3, <1>4 DEF Init, TypeOK

LEMMA StepType == TypeOK /\ [Next]_vars => TypeOK'
<1> SUFFICES ASSUME TypeOK, [Next]_vars PROVE TypeOK'
  OBVIOUS
<1> USE DEF TypeOK
<1>1. ASSUME NEW r \in Runners, NEW period \in 0..world.until.m, CreateJob(r, period) PROVE TypeOK'
  <2> DEFINE due == WithDue(active)
  <2>3. job' \in [Runners -> Jobs]
    <3> DEFINE R == [a \in Agreements |-> [st |-> IF a \in due THEN "pending" ELSE "none", tries |-> 0]]
               J == [status |-> IF due = {} THEN "done" ELSE "pending", rows |-> R]
    <3>1. R \in [Agreements -> Row]
      BY DEF Row, RowStates
    <3>2. J \in Jobs
      BY <3>1 DEF Jobs, JobStates
    <3>3. job' = [job EXCEPT ![r] = J]
      BY <1>1 DEF CreateJob
    <3> QED BY <3>2, <3>3
  <2>4. run' \in [Runners -> Runs]
    <3> DEFINE N == [IdleRun EXCEPT !.at = "start", !.kind = "job", !.period = period,
                                    !.own = (period = now.m)]
    <3>1. N \in Runs
      <4>1. period \in Nat /\ (period = now.m) \in BOOLEAN
        OBVIOUS
      <4> QED BY <4>1, JobRun
    <3>2. run' = run \/ run' = [run EXCEPT ![r] = N]
      BY <1>1 DEF CreateJob
    <3> QED BY <3>1, <3>2
  <2>5. mixed' \in BOOLEAN
    BY <1>1 DEF CreateJob, Mixes
  <2> QED BY <1>1, <2>3, <2>4, <2>5 DEF CreateJob
<1>2. ASSUME NEW r \in Runners, StartJob(r) PROVE TypeOK'
  <2>1. job' \in [Runners -> Jobs]
    BY <1>2 DEF StartJob, Jobs, JobStates
  <2>3. run' \in [Runners -> Runs]
    <3>1. PICK A \in SUBSET Agreements : run' = [run EXCEPT ![r] = [run[r] EXCEPT !.at = "pick", !.todo = A]]
      BY <1>2 DEF StartJob
    <3>2. [run[r] EXCEPT !.at = "pick", !.todo = A] \in Runs
      BY LoadedRun DEF Places
    <3> QED BY <3>1, <3>2
  <2> QED BY <1>2, <2>1, <2>3 DEF StartJob
<1>3. ASSUME NEW r \in Runners, StartAuto(r) PROVE TypeOK'
  <2>1. WithDue(active \cap AutoBilling) \in SUBSET Agreements
    BY DEF WithDue
  <2>2. now.m \in Nat
    BY DEF Dates
  <2>3. run' \in [Runners -> Runs]
    BY <1>3, <2>1, <2>2, IdleRunType DEF StartAuto, Runs, Places
  <2> QED BY <1>3, <2>3 DEF StartAuto, Mixes
<1>4. ASSUME NEW r \in Runners, Pick(r) PROVE TypeOK'
  <2>1. run' \in [Runners -> Runs]
    BY <1>4 DEF Pick, Runs, Places
  <2> QED BY <1>4, <2>1 DEF Pick
<1>5. ASSUME NEW r \in Runners, ReadAgreement(r) PROVE TypeOK'
  <2>1. run' \in [Runners -> Runs]
    <3>1. CASE run[r].agr \in active
      BY <1>5, <3>1 DEF ReadAgreement, Runs, Places
    <3>2. CASE run[r].agr \notin active
      BY <1>5, <3>2, AnswersType DEF ReadAgreement
    <3> QED BY <3>1, <3>2
  <2> QED BY <1>5, <2>1 DEF ReadAgreement
<1>6. ASSUME NEW r \in Runners, ReadServices(r) PROVE TypeOK'
  <2>1. run' \in [Runners -> Runs]
    <3> DEFINE due == Due(run[r].agr)
    <3>1. CASE due = {}
      BY <1>6, <3>1, AnswersType DEF ReadServices
    <3>2. CASE due # {}
      <4>1. {<<s, next[s]>> : s \in due} \in SUBSET (Services \X Dates)
        BY DEF Due
      <4>2. run' = [run EXCEPT ![r].at = "check", ![r].due = {<<s, next[s]>> : s \in due}]
        BY <1>6, <3>2 DEF ReadServices
      <4>3. [run[r] EXCEPT !.at = "check", !.due = {<<s, next[s]>> : s \in due}] \in Runs
        BY <4>1, FilledRun DEF Places
      <4> QED BY <4>2, <4>3
    <3> QED BY <3>1, <3>2
  <2> QED BY <1>6, <2>1 DEF ReadServices
<1>7. ASSUME NEW r \in Runners, CheckPeriod(r) PROVE TypeOK'
  <2> DEFINE found == \E i \in invoices : i.agr = run[r].agr /\ i.month = run[r].period
  <2>1. run' \in [Runners -> Runs]
    <3>1. CASE found
      BY <1>7, <3>1, AnswersType DEF CheckPeriod
    <3>2. CASE ~found
      BY <1>7, <3>2 DEF CheckPeriod, Runs, Places
    <3> QED BY <3>1, <3>2
  <2> QED BY <1>7, <2>1 DEF CheckPeriod
<1>8. ASSUME NEW r \in Runners, InsertInvoice(r) PROVE TypeOK'
  <2>1. NewId \in Nat
    BY FS_CardinalityType DEF NewId
  <2>2. IsFiniteSet(invoices')
    BY <1>8, FS_AddElement DEF InsertInvoice
  <2>3. run' \in [Runners -> Runs]
    <3>1. [run[r] EXCEPT !.at = "lines", !.inv = NewId] \in Runs
      BY <2>1, NumberedRun DEF Places
    <3> QED BY <1>8, <3>1 DEF InsertInvoice
  <2>4. run[r].agr \in Agreements /\ run[r].own \in BOOLEAN /\ now.m \in Nat
    BY DEF Runs, Dates
  <2> QED BY <1>8, <2>1, <2>2, <2>3, <2>4 DEF InsertInvoice
<1>9. ASSUME NEW r \in Runners, InsertLines(r) PROVE TypeOK'
  <2>1. run' \in [Runners -> Runs]
    BY <1>9 DEF InsertLines, Runs, Places
  <2>2. run[r].inv \in Nat /\ run[r].due \subseteq Services \X Dates
    BY DEF Runs
  <2>3. lines' \subseteq [inv : Nat, svc : Services, date : Dates]
    BY <1>9, <2>2 DEF InsertLines
  <2> QED BY <1>9, <2>1, <2>3 DEF InsertLines
<1>10. ASSUME NEW r \in Runners, Advance(r) PROVE TypeOK'
  <2>1. PICK d \in run[r].due :
          /\ next' = IF Step[d[1]] > 0 THEN [next EXCEPT ![d[1]] = After(d[1], d[2])] ELSE next
          /\ IF run[r].due = {d} THEN Answers(r, "success")
                                 ELSE run' = [run EXCEPT ![r].due = @ \ {d}]
    BY <1>10 DEF Advance
  <2>2. d \in Services \X Dates
    BY DEF Runs
  <2>3. next' \in [Services -> Dates]
    BY <2>1, <2>2, AfterType
  <2>4. run' \in [Runners -> Runs]
    <3>1. CASE run[r].due = {d}
      BY <2>1, <3>1, AnswersType
    <3>2. CASE run[r].due # {d}
      BY <2>1, <3>2 DEF Runs
    <3> QED BY <3>1, <3>2
  <2> QED BY <1>10, <2>3, <2>4 DEF Advance
<1>11. ASSUME NEW r \in Runners, WriteRow(r) PROVE TypeOK'
  <2> DEFINE R == job[r].rows
             a == run[r].agr
  <2>1. R \in [Agreements -> Row] /\ a \in Agreements /\ run[r].res \in {"success", "skip", "error", "thrown"}
    BY DEF Jobs, Runs
  <2>2. RowAfter(R[a], run[r].res) \in Row
    BY <2>1, RowAfterType
  <2>3. [job[r] EXCEPT !.rows = [R EXCEPT ![a] = RowAfter(R[a], run[r].res)]] \in Jobs
    BY <2>1, <2>2 DEF Jobs
  <2>4. job' \in [Runners -> Jobs]
    BY <1>11, <2>3 DEF WriteRow
  <2>5. run' \in [Runners -> Runs]
    BY <1>11 DEF WriteRow, Runs, Places
  <2> QED BY <1>11, <2>4, <2>5 DEF WriteRow
<1>12. ASSUME NEW r \in Runners, Summarise(r) PROVE TypeOK'
  <2>1. job' \in [Runners -> Jobs]
    BY <1>12 DEF Summarise, Jobs, JobStates
  <2>2. run' \in [Runners -> Runs]
    BY <1>12, IdleRunType DEF Summarise
  <2> QED BY <1>12, <2>1, <2>2 DEF Summarise
<1>13. ASSUME NEW r \in Runners, EndAuto(r) PROVE TypeOK'
  BY <1>13, IdleRunType DEF EndAuto
<1>14. ASSUME NEW r \in Runners, CancelJob(r) PROVE TypeOK'
  <2> DEFINE R == job[r].rows
             N == [a \in Agreements |-> IF R[a].st = "pending" THEN [R[a] EXCEPT !.st = "cancelled"]
                                        ELSE R[a]]
  <2>1. R \in [Agreements -> Row]
    BY DEF Jobs
  <2>2. N \in [Agreements -> Row]
    BY <2>1 DEF Row, RowStates
  <2>3. [status |-> "cancelled", rows |-> N] \in Jobs
    BY <2>2 DEF Jobs, JobStates
  <2>4. job' = [job EXCEPT ![r] = [status |-> "cancelled", rows |-> N]]
    BY <1>14 DEF CancelJob
  <2> QED BY <1>14, <2>3, <2>4 DEF CancelJob
<1>15. ASSUME NEW r \in Runners, Stumble(r) PROVE TypeOK'
  BY <1>15, AnswersType DEF Stumble
<1>16. ASSUME NEW r \in Runners, Die(r) PROVE TypeOK'
  BY <1>16, IdleRunType DEF Die
<1>17. ASSUME NEW a \in Agreements, ManualInvoice(a) PROVE TypeOK'
  <2>1. NewId \in Nat
    BY FS_CardinalityType DEF NewId
  <2>2. IsFiniteSet(invoices')
    BY <1>17, FS_AddElement DEF ManualInvoice
  <2>3. invoices' = invoices \cup {[id |-> NewId, agr |-> a, month |-> now.m, own |-> FALSE]}
    BY <1>17 DEF ManualInvoice
  <2>4. [id |-> NewId, agr |-> a, month |-> now.m, own |-> FALSE]
          \in [id : Nat, agr : Agreements, month : Nat, own : BOOLEAN]
    BY <2>1 DEF Dates
  <2>5. invoices' \subseteq [id : Nat, agr : Agreements, month : Nat, own : BOOLEAN]
    BY <2>3, <2>4
  <2> QED BY <1>17, <2>2, <2>5 DEF ManualInvoice
<1>18. ASSUME NEW a \in Agreements, SetStatus(a) PROVE TypeOK'
  BY <1>18 DEF SetStatus
<1>19. CASE NextDay
  BY <1>19, TomorrowType DEF NextDay
<1>21. ASSUME NEW r \in Runners, FailJob(r) PROVE TypeOK'
  <2>1. job' \in [Runners -> Jobs]
    BY <1>21 DEF FailJob, Jobs, JobStates
  <2>2. run' \in [Runners -> Runs]
    BY <1>21, IdleRunType DEF FailJob
  <2> QED BY <1>21, <2>1, <2>2 DEF FailJob
<1>20. CASE UNCHANGED vars
  BY <1>20 DEF vars
<1> QED
  BY <1>1, <1>2, <1>3, <1>4, <1>5, <1>6, <1>7, <1>8, <1>9, <1>10, <1>11, <1>12, <1>13, <1>14,
     <1>15, <1>16, <1>17, <1>18, <1>19, <1>20, <1>21 DEF Next, Process

\* The types of the variables, for every instance of the constants.
THEOREM TypeCorrect == Spec => []TypeOK
  BY InitType, StepType, PTL DEF Spec

-----------------------------------------------------------------------------
(* No date the schedule gives is passed over.  The dates a run holds were  *)
(* the service's own when it read them, so each had come after one that    *)
(* was billed, and lines are never deleted; by the time it writes, its own *)
(* lines are in.                                                           *)

ReadReached == \A r \in Runners : \A d \in run[r].due : Reached(d[1], d[2])
HeldBilled == \A r \in Runners : At(r, "advance") => \A d \in run[r].due : Billed(d[1], d[2])
BilledInv == EveryDateBilled /\ ReadReached /\ HeldBilled

\* A step that keeps lines and dates, and only empties what runs hold.
LEMMA QuietStep ==
  ASSUME BilledInv, lines' = lines, next' = next,
         \A q \in Runners : run'[q].due \subseteq run[q].due,
         \A q \in Runners : run'[q].at = "advance" => run[q].at = "advance"
  PROVE  BilledInv'
<1>1. \A s, k : (Billed(s, k)' <=> Billed(s, k)) /\ (Reached(s, k)' <=> Reached(s, k))
  BY DEF Billed, Reached
<1>2. EveryDateBilled'
  BY <1>1 DEF EveryDateBilled, BilledInv
<1>3. ReadReached'
  BY <1>1 DEF ReadReached, BilledInv
<1>4. HeldBilled'
  BY <1>1 DEF HeldBilled, BilledInv, At
<1> QED BY <1>2, <1>3, <1>4 DEF BilledInv

\* What an answer does to the runs.
LEMMA AnswersEmpty ==
  ASSUME TypeOK, NEW r \in Runners, NEW res \in {"success", "skip", "error", "thrown"}, Answers(r, res)
  PROVE  /\ \A q \in Runners : run'[q].due \subseteq run[q].due
         /\ \A q \in Runners : run'[q].at = "advance" => run[q].at = "advance"
  BY DEF Answers, TypeOK, Runs

LEMMA IdleRunHolds == IdleRun.due = {} /\ IdleRun.at = "idle"
  BY DEF IdleRun

LEMMA ReadServicesBilled ==
  ASSUME TypeOK, BilledInv, NEW r \in Runners, ReadServices(r)
  PROVE  BilledInv'
<1> DEFINE due == Due(run[r].agr)
<1>0. lines' = lines /\ next' = next
  BY DEF ReadServices
<1>1. CASE due = {}
  <2>1. Answers(r, "skip")
    BY <1>1 DEF ReadServices
  <2> QED BY <1>0, <2>1, AnswersEmpty, QuietStep
<1>2. CASE due # {}
  <2>1. run' = [run EXCEPT ![r].at = "check", ![r].due = {<<s, next[s]>> : s \in due}]
    BY <1>2 DEF ReadServices
  <2>2. /\ run'[r].at = "check" /\ run'[r].due = {<<s, next[s]>> : s \in due}
        /\ \A q \in Runners \ {r} : run'[q] = run[q]
    BY <2>1 DEF TypeOK, Runs
  <2>3. \A s, k : (Billed(s, k)' <=> Billed(s, k)) /\ (Reached(s, k)' <=> Reached(s, k))
    BY <1>0 DEF Billed, Reached
  <2>4. EveryDateBilled'
    BY <1>0, <2>3 DEF EveryDateBilled, BilledInv
  <2>5. ReadReached'
    <3> SUFFICES ASSUME NEW q \in Runners, NEW d \in run'[q].due
                 PROVE  Reached(d[1], d[2])'
      BY DEF ReadReached
    <3>1. CASE q = r
      <4>1. PICK s \in due : d = <<s, next[s]>>
        BY <2>2, <3>1
      <4>2. s \in Services
        BY DEF Due
      <4> QED BY <2>3, <4>1, <4>2 DEF BilledInv, EveryDateBilled
    <3>2. CASE q # r
      BY <2>2, <2>3, <3>2 DEF BilledInv, ReadReached
    <3> QED BY <3>1, <3>2
  <2>6. HeldBilled'
    BY <2>2, <2>3 DEF HeldBilled, BilledInv, At
  <2> QED BY <2>4, <2>5, <2>6 DEF BilledInv
<1> QED BY <1>1, <1>2

LEMMA InsertLinesBilled ==
  ASSUME TypeOK, BilledInv, NEW r \in Runners, InsertLines(r)
  PROVE  BilledInv'
<1>1. /\ next' = next /\ lines \subseteq lines'
      /\ \A d \in run[r].due : [inv |-> run[r].inv, svc |-> d[1], date |-> d[2]] \in lines'
  BY DEF InsertLines
<1>2. /\ run'[r].due = run[r].due
      /\ \A q \in Runners \ {r} : run'[q] = run[q]
  BY DEF InsertLines, TypeOK, Runs
<1>3. \A s, k : (Billed(s, k) => Billed(s, k)') /\ (Reached(s, k) => Reached(s, k)')
  BY <1>1 DEF Billed, Reached
<1>4. \A d \in run[r].due : Billed(d[1], d[2])'
  BY <1>1 DEF Billed
<1>5. EveryDateBilled'
  <2>1. \A s \in Services : Reached(s, next[s])'
    BY <1>1, <1>3 DEF EveryDateBilled, BilledInv
  <2>2. ASSUME NEW l \in lines' PROVE Reached(l.svc, l.date)'
    <3>1. CASE l \in lines
      BY <1>3, <3>1 DEF EveryDateBilled, BilledInv
    <3>2. CASE l \notin lines
      <4>1. PICK d \in run[r].due : l.svc = d[1] /\ l.date = d[2]
        BY <3>2 DEF InsertLines
      <4> QED BY <1>3, <4>1 DEF ReadReached, BilledInv
    <3> QED BY <3>1, <3>2
  <2> QED BY <2>1, <2>2 DEF EveryDateBilled
<1>6. ReadReached'
  BY <1>2, <1>3 DEF ReadReached, BilledInv
<1>7. HeldBilled'
  BY <1>2, <1>3, <1>4 DEF HeldBilled, BilledInv, At
<1> QED BY <1>5, <1>6, <1>7 DEF BilledInv

LEMMA AdvanceBilled ==
  ASSUME TypeOK, BilledInv, NEW r \in Runners, Advance(r)
  PROVE  BilledInv'
<1>1. PICK d \in run[r].due :
        /\ next' = IF Step[d[1]] > 0 THEN [next EXCEPT ![d[1]] = After(d[1], d[2])] ELSE next
        /\ IF run[r].due = {d} THEN Answers(r, "success")
                               ELSE run' = [run EXCEPT ![r].due = @ \ {d}]
  BY DEF Advance
<1>2. d \in Services \X Dates
  BY DEF TypeOK, Runs
<1>3. \A s, k : (Billed(s, k)' <=> Billed(s, k)) /\ (Reached(s, k)' <=> Reached(s, k))
  BY DEF Advance, Billed, Reached
<1>4. Reached(d[1], After(d[1], d[2]))
  <2>1. Billed(d[1], d[2])
    BY DEF BilledInv, HeldBilled, Advance
  <2> QED BY <2>1 DEF Billed, Reached
<1>5. EveryDateBilled'
  <2>1. lines' = lines
    BY DEF Advance
  <2>2. \A s \in Services : next'[s] = next[s] \/ (s = d[1] /\ next'[s] = After(d[1], d[2]))
    BY <1>1, <1>2 DEF TypeOK
  <2> QED BY <1>3, <1>4, <2>1, <2>2 DEF EveryDateBilled, BilledInv
<1>6. /\ \A q \in Runners : run'[q].due \subseteq run[q].due
      /\ \A q \in Runners : run'[q].at = "advance" => run[q].at = "advance"
  <2>1. CASE run[r].due = {d}
    BY <1>1, <2>1, AnswersEmpty
  <2>2. CASE run[r].due # {d}
    BY <1>1, <2>2 DEF TypeOK, Runs
  <2> QED BY <2>1, <2>2
<1>7. ReadReached' /\ HeldBilled'
  BY <1>3, <1>6 DEF ReadReached, HeldBilled, BilledInv, At
<1> QED BY <1>5, <1>7 DEF BilledInv

LEMMA InitBilled == Init => BilledInv
  BY IdleRunHolds DEF Init, BilledInv, EveryDateBilled, ReadReached, HeldBilled, Reached, At

LEMMA StepBilled == TypeOK /\ BilledInv /\ [Next]_vars => BilledInv'
<1> SUFFICES ASSUME TypeOK, BilledInv, [Next]_vars PROVE BilledInv'
  OBVIOUS
<1>1. ASSUME NEW r \in Runners, NEW period \in 0..world.until.m, CreateJob(r, period)
      PROVE  BilledInv'
  <2>1. lines' = lines /\ next' = next
    BY <1>1 DEF CreateJob
  <2>2. CASE run' = run
    BY <2>1, <2>2, QuietStep
  <2>3. CASE run' # run
    <3>1. run' = [run EXCEPT ![r] = [IdleRun EXCEPT !.at = "start", !.kind = "job",
                                       !.period = period, !.own = (period = now.m)]]
      BY <1>1, <2>3 DEF CreateJob
    <3>2. run'[r].due = {} /\ run'[r].at = "start" /\ \A q \in Runners \ {r} : run'[q] = run[q]
      BY <3>1 DEF TypeOK, IdleRun
    <3> QED BY <2>1, <3>2, QuietStep
  <2> QED BY <2>2, <2>3
<1>2. ASSUME NEW r \in Runners, StartJob(r) PROVE BilledInv'
  BY <1>2, QuietStep DEF StartJob, TypeOK, Runs
<1>3. ASSUME NEW r \in Runners, StartAuto(r) PROVE BilledInv'
  BY <1>3, QuietStep DEF StartAuto, TypeOK, IdleRun
<1>4. ASSUME NEW r \in Runners, Pick(r) PROVE BilledInv'
  BY <1>4, QuietStep DEF Pick, TypeOK, Runs
<1>5. ASSUME NEW r \in Runners, ReadAgreement(r) PROVE BilledInv'
  <2>1. CASE run[r].agr \in active
    BY <1>5, <2>1, QuietStep DEF ReadAgreement, TypeOK, Runs
  <2>2. CASE run[r].agr \notin active
    BY <1>5, <2>2, QuietStep, AnswersEmpty DEF ReadAgreement
  <2> QED BY <2>1, <2>2
<1>6. ASSUME NEW r \in Runners, CheckPeriod(r) PROVE BilledInv'
  <2>1. CASE Answers(r, "skip")
    BY <1>6, <2>1, QuietStep, AnswersEmpty DEF CheckPeriod
  <2>2. CASE run' = [run EXCEPT ![r].at = "insert"]
    BY <1>6, <2>2, QuietStep DEF CheckPeriod, TypeOK, Runs
  <2> QED BY <1>6, <2>1, <2>2 DEF CheckPeriod
<1>7. ASSUME NEW r \in Runners, InsertInvoice(r) PROVE BilledInv'
  BY <1>7, QuietStep DEF InsertInvoice, TypeOK, Runs
<1>8. ASSUME NEW r \in Runners, WriteRow(r) PROVE BilledInv'
  BY <1>8, QuietStep DEF WriteRow, TypeOK, Runs
<1>9. ASSUME NEW r \in Runners, Summarise(r) \/ EndAuto(r) PROVE BilledInv'
  BY <1>9, QuietStep, IdleRunHolds DEF Summarise, EndAuto, TypeOK
<1>10. ASSUME NEW r \in Runners, CancelJob(r) PROVE BilledInv'
  BY <1>10, QuietStep DEF CancelJob
<1>11. ASSUME NEW r \in Runners, Stumble(r) PROVE BilledInv'
  BY <1>11, QuietStep, AnswersEmpty DEF Stumble
<1>12. ASSUME NEW r \in Runners, Die(r) \/ FailJob(r) PROVE BilledInv'
  BY <1>12, QuietStep, IdleRunHolds DEF Die, FailJob, TypeOK
<1>13. ASSUME NEW a \in Agreements, ManualInvoice(a) \/ SetStatus(a) PROVE BilledInv'
  BY <1>13, QuietStep DEF ManualInvoice, SetStatus
<1>14. CASE NextDay \/ UNCHANGED vars
  BY <1>14, QuietStep DEF NextDay, vars
<1> QED
  BY <1>1, <1>2, <1>3, <1>4, <1>5, <1>6, <1>7, <1>8, <1>9, <1>10, <1>11, <1>12, <1>13, <1>14,
     ReadServicesBilled, InsertLinesBilled, AdvanceBilled DEF Next, Process

\* No date the schedule of a service gives is passed over, whatever overlapped
\* or died.
THEOREM EveryDateIsBilled == Spec => []EveryDateBilled
<1>1. BilledInv => EveryDateBilled
  BY DEF BilledInv
<1> QED BY <1>1, InitType, StepType, InitBilled, StepBilled, PTL DEF Spec

-----------------------------------------------------------------------------
(* Once a month.  While no two runs were ever under way together, the run  *)
(* that is under way has created every invoice later than its own month,   *)
(* and none yet for the agreements it has still to bill.                   *)

Alone == ~mixed => \A p, q \in Runners : ~At(p, "idle") /\ ~At(q, "idle") => p = q
InvoicesPast == \A i \in invoices : i.month <= now.m
RunPast == \A r \in Runners : ~At(r, "idle") /\ run[r].own => run[r].period <= now.m

Billing == {"agreement", "services", "check", "insert"}
ToBill(r) == run[r].todo \cup (IF run[r].at \in Billing THEN {run[r].agr} ELSE {})
NotTwice == \A r \in Runners : run[r].at \in Billing \cup {"lines", "advance", "row"} => run[r].agr \notin run[r].todo

\* Invoices of an agreement up to the month of the run.
UpTo(r, a) == \A i \in invoices : i.own /\ i.agr = a => i.month <= run[r].period
Unbilled ==
  ~mixed => \A r \in Runners : ~At(r, "idle") /\ run[r].own =>
    /\ At(r, "start") => \A a \in Agreements : UpTo(r, a)
    /\ \A a \in ToBill(r) : UpTo(r, a)
    /\ At(r, "insert") => \A i \in invoices : i.own /\ i.agr = run[r].agr => i.month < run[r].period

MonthInv == Alone /\ InvoicesPast /\ RunPast /\ NotTwice /\ Unbilled /\ OncePerMonth

\* How a run goes on in a step that gives it nothing new to bill: it stops,
\* stays, has its answer, takes up the next agreement, or moves within one.
GoesOn(q) ==
  \/ run'[q].at = "idle" \/ run'[q] = run[q]
  \/ /\ run[q].at \notin {"idle", "start"} /\ run'[q].at \notin {"insert", "start"}
     /\ run'[q].own = run[q].own /\ run'[q].period = run[q].period
     /\ run'[q].todo \subseteq run[q].todo
     /\ \/ run'[q].at = "pick"
        \/ run'[q].agr \in run[q].todo /\ run'[q].agr \notin run'[q].todo
        \/ /\ run'[q].agr = run[q].agr
           /\ run'[q].at \in Billing => run[q].at \in Billing
           /\ run'[q].at \in {"lines", "advance", "row"} =>
                run[q].at \in Billing \cup {"lines", "advance", "row"}

LEMMA MonthQuiet ==
  ASSUME TypeOK, MonthInv, TypeOK', invoices' = invoices, mixed' = mixed, now.m <= now'.m,
         \A q \in Runners : GoesOn(q)
  PROVE  MonthInv'
<1> USE DEF GoesOn
<1>1. \A i \in invoices : i.month \in Nat
  BY DEF TypeOK
<1>2. now.m <= now'.m /\ now.m \in Nat /\ now'.m \in Nat
  BY DEF TypeOK, Dates
<1>3. \A q \in Runners : run[q].period \in Nat /\ run'[q].period \in Nat
  BY DEF TypeOK, Runs
<1>4. Alone'
  BY DEF Alone, MonthInv, At
<1>5. InvoicesPast'
  BY <1>1, <1>2 DEF InvoicesPast, MonthInv
<1>6. RunPast'
  BY <1>2, <1>3 DEF RunPast, MonthInv, At
<1>7. NotTwice'
  BY DEF NotTwice, MonthInv, Billing
<1>8. \A q \in Runners : run'[q].at # "idle" => ToBill(q)' \subseteq ToBill(q)
  BY DEF ToBill, Billing
<1>9. \A q \in Runners : \A a : run'[q].at # "idle" /\ UpTo(q, a) => UpTo(q, a)'
  BY DEF UpTo
<1>10. Unbilled'
  BY <1>8, <1>9 DEF Unbilled, MonthInv, At
<1>11. OncePerMonth'
  BY DEF OncePerMonth, MonthInv
<1> QED BY <1>4, <1>5, <1>6, <1>7, <1>10, <1>11 DEF MonthInv

LEMMA AnswersGoOn ==
  ASSUME TypeOK, NEW r \in Runners, NEW res \in {"success", "skip", "error", "thrown"}, Answers(r, res),
         run[r].at \in Billing \cup {"lines", "advance", "row"}
  PROVE  \A q \in Runners : GoesOn(q)
  BY DEF Answers, TypeOK, Runs, GoesOn, Billing

LEMMA BeginMonth ==
  ASSUME TypeOK, TypeOK', MonthInv, NEW r \in Runners, MayBegin(r), Mixes,
         invoices' = invoices, now' = now,
         \A q \in Runners \ {r} : run'[q] = run[q],
         run'[r].at \in {"start", "pick"},
         run'[r].own => run'[r].period = now.m
  PROVE  MonthInv'
<1>1. ~mixed' => ~mixed /\ \A q \in Runners \ {r} : At(q, "idle")'
  BY DEF Mixes, Busy, At
<1>2. now.m \in Nat
  BY DEF TypeOK, Dates
<1>3. \A i \in invoices : i.month <= now.m
  BY DEF MonthInv, InvoicesPast
<1>4. Alone'
  BY <1>1 DEF Alone
<1>5. InvoicesPast'
  BY DEF InvoicesPast, MonthInv
<1>6. RunPast'
  <2> QED BY <1>2 DEF RunPast, MonthInv, At
<1>7. NotTwice'
  BY DEF NotTwice, MonthInv, Billing
<1>8. Unbilled'
  <2> SUFFICES ASSUME ~mixed', NEW q \in Runners, ~At(q, "idle")', run'[q].own
               PROVE  /\ \A a : UpTo(q, a)'
                      /\ ~At(q, "insert")'
    BY DEF Unbilled
  <2>1. q = r
    BY <1>1
  <2>2. run'[q].period = now.m
    BY <2>1
  <2> QED BY <1>3, <2>1, <2>2 DEF UpTo, At
<1>9. OncePerMonth'
  BY <1>1 DEF OncePerMonth, MonthInv
<1> QED BY <1>4, <1>5, <1>6, <1>7, <1>8, <1>9 DEF MonthInv

\* No invoice of the period was found: those of this run's own kind are older.
LEMMA CheckPeriodMonth ==
  ASSUME TypeOK, TypeOK', MonthInv, NEW r \in Runners, CheckPeriod(r)
  PROVE  MonthInv'
<1>1. invoices' = invoices /\ mixed' = mixed /\ now' = now /\ now.m <= now'.m /\ At(r, "check")
  BY DEF CheckPeriod, TypeOK, Dates
<1>2. CASE \E i \in invoices : i.agr = run[r].agr /\ i.month = run[r].period
  <2>1. Answers(r, "skip")
    BY <1>2 DEF CheckPeriod
  <2>2. \A q \in Runners : GoesOn(q)
    BY <1>1, <2>1, AnswersGoOn DEF At, Billing
  <2> QED BY <1>1, <2>2, MonthQuiet
<1>3. CASE ~\E i \in invoices : i.agr = run[r].agr /\ i.month = run[r].period
  <2>1. run' = [run EXCEPT ![r].at = "insert"]
    BY <1>3 DEF CheckPeriod
  <2>2. /\ run'[r].at = "insert" /\ run'[r].agr = run[r].agr /\ run'[r].own = run[r].own
        /\ run'[r].period = run[r].period /\ run'[r].todo = run[r].todo
        /\ \A q \in Runners \ {r} : run'[q] = run[q]
    BY <2>1 DEF TypeOK, Runs
  <2>3. \A i \in invoices : i.month \in Nat
    BY DEF TypeOK
  <2>4. run[r].period \in Nat
    BY DEF TypeOK, Runs
  <2>5. Alone' /\ InvoicesPast' /\ RunPast' /\ OncePerMonth'
    BY <1>1, <2>2 DEF Alone, InvoicesPast, RunPast, OncePerMonth, MonthInv, At
  <2>6. NotTwice'
    BY <1>1, <2>2 DEF NotTwice, MonthInv, At, Billing
  <2>7. \A q \in Runners : ToBill(q)' = ToBill(q)
    BY <1>1, <2>2 DEF ToBill, Billing, At
  <2>8. \A q \in Runners : \A a : UpTo(q, a)' <=> UpTo(q, a)
    BY <1>1, <2>2 DEF UpTo
  <2>9. ~mixed /\ run[r].own => UpTo(r, run[r].agr)
    BY <1>1 DEF MonthInv, Unbilled, ToBill, Billing, At
  <2>10. Unbilled'
    <3> SUFFICES ASSUME ~mixed', NEW q \in Runners, ~At(q, "idle")', run'[q].own
                 PROVE  /\ At(q, "start")' => \A a \in Agreements : UpTo(q, a)'
                        /\ \A a \in ToBill(q)' : UpTo(q, a)'
                        /\ At(q, "insert")' => \A i \in invoices' : i.own /\ i.agr = run'[q].agr =>
                                                 i.month < run'[q].period
      BY DEF Unbilled
    <3>1. CASE q # r
      BY <1>1, <2>2, <2>7, <2>8, <3>1 DEF MonthInv, Unbilled, At
    <3>2. CASE q = r
      <4>1. \A a \in ToBill(q) : UpTo(q, a)
        BY <1>1, <2>2, <3>2 DEF MonthInv, Unbilled, At
      <4>2. \A i \in invoices : i.own /\ i.agr = run[r].agr => i.month < run[r].period
        BY <1>1, <1>3, <2>2, <2>3, <2>4, <2>9, <3>2 DEF UpTo
      <4> QED BY <1>1, <2>2, <2>7, <2>8, <3>2, <4>1, <4>2 DEF At
    <3> QED BY <3>1, <3>2
  <2> QED BY <2>5, <2>6, <2>10 DEF MonthInv
<1> QED BY <1>2, <1>3

LEMMA InsertInvoiceMonth ==
  ASSUME TypeOK, TypeOK', MonthInv, NEW r \in Runners, InsertInvoice(r)
  PROVE  MonthInv'
<1> DEFINE new == [id |-> NewId, agr |-> run[r].agr, month |-> now.m, own |-> run[r].own]
<1>1. /\ invoices' = invoices \cup {new} /\ mixed' = mixed /\ now' = now /\ At(r, "insert")
      /\ run' = [run EXCEPT ![r].at = "lines", ![r].inv = NewId]
  BY DEF InsertInvoice
<1>2. /\ run'[r].at = "lines" /\ run'[r].agr = run[r].agr /\ run'[r].own = run[r].own
      /\ run'[r].period = run[r].period /\ run'[r].todo = run[r].todo
      /\ \A q \in Runners \ {r} : run'[q] = run[q]
  BY <1>1 DEF TypeOK, Runs
<1>3. now.m \in Nat /\ \A i \in invoices : i.month \in Nat
  BY DEF TypeOK, Dates
<1>4. new.month = now.m /\ new.own = run[r].own /\ new.agr = run[r].agr
  OBVIOUS
<1> HIDE DEF new
<1>5. Alone' /\ RunPast'
  BY <1>1, <1>2 DEF Alone, RunPast, MonthInv, At
<1>6. InvoicesPast'
  BY <1>1, <1>3, <1>4 DEF InvoicesPast, MonthInv
<1>7. NotTwice'
  BY <1>1, <1>2 DEF NotTwice, MonthInv, Billing, At
<1>8. Unbilled'
  <2> SUFFICES ASSUME ~mixed', NEW q \in Runners, ~At(q, "idle")', run'[q].own
               PROVE  /\ At(q, "start")' => \A a \in Agreements : UpTo(q, a)'
                      /\ \A a \in ToBill(q)' : UpTo(q, a)'
                      /\ At(q, "insert")' => \A i \in invoices' : i.own /\ i.agr = run'[q].agr =>
                                               i.month < run'[q].period
    BY DEF Unbilled
  <2>1. q = r
    BY <1>1, <1>2 DEF MonthInv, Alone, At
  <2>2. ~At(q, "start")' /\ ~At(q, "insert")'
    BY <1>2, <2>1 DEF At
  <2>3. ToBill(q)' = run[r].todo /\ run[r].todo \subseteq ToBill(r)
    BY <1>2, <2>1 DEF ToBill, Billing
  <2>4. run[r].agr \notin run[r].todo
    BY <1>1 DEF MonthInv, NotTwice, Billing, At
  <2>5. \A a \in run[r].todo : UpTo(r, a)
    BY <1>1, <1>2, <2>1, <2>3 DEF MonthInv, Unbilled, At
  <2> QED BY <1>1, <1>2, <1>4, <2>1, <2>2, <2>3, <2>4, <2>5 DEF UpTo
<1>9. OncePerMonth'
  <2> SUFFICES ASSUME ~mixed', NEW i \in invoices', NEW j \in invoices',
                      i.own, j.own, i.agr = j.agr, i.month = j.month
               PROVE  i = j
    BY DEF OncePerMonth
  <2>1. ASSUME NEW k \in invoices, k.own, run[r].own, k.agr = run[r].agr
        PROVE  k.month < now.m
    <3>1. k.month < run[r].period /\ run[r].period <= now.m
      BY <1>1, <2>1 DEF MonthInv, Unbilled, RunPast, At
    <3>2. run[r].period \in Nat
      BY DEF TypeOK, Runs
    <3> QED BY <1>3, <3>1, <3>2
  <2>2. CASE i \in invoices /\ j \in invoices
    BY <1>1, <2>2 DEF MonthInv, OncePerMonth
  <2>3. CASE i = new /\ j \in invoices
    BY <1>3, <1>4, <2>1, <2>3
  <2>4. CASE j = new /\ i \in invoices
    BY <1>3, <1>4, <2>1, <2>4
  <2> QED BY <1>1, <2>2, <2>3, <2>4
<1> QED BY <1>5, <1>6, <1>7, <1>8, <1>9 DEF MonthInv

LEMMA ManualInvoiceMonth ==
  ASSUME TypeOK, TypeOK', MonthInv, NEW a \in Agreements, ManualInvoice(a)
  PROVE  MonthInv'
<1> DEFINE new == [id |-> NewId, agr |-> a, month |-> now.m, own |-> FALSE]
<1>1. invoices' = invoices \cup {new} /\ mixed' = mixed /\ now' = now /\ run' = run
  BY DEF ManualInvoice
<1>2. new.month = now.m /\ new.own = FALSE
  OBVIOUS
<1> HIDE DEF new
<1>3. InvoicesPast'
  BY <1>1, <1>2 DEF InvoicesPast, MonthInv, TypeOK
<1>4. \A q \in Runners : ToBill(q)' = ToBill(q)
  BY <1>1 DEF ToBill
<1>5. \A q \in Runners : \A b : UpTo(q, b)' <=> UpTo(q, b)
  BY <1>1, <1>2 DEF UpTo
<1>6. Unbilled'
  BY <1>1, <1>2, <1>4, <1>5 DEF Unbilled, MonthInv, At
<1>7. OncePerMonth'
  BY <1>1, <1>2 DEF OncePerMonth, MonthInv
<1> QED BY <1>1, <1>3, <1>6, <1>7 DEF MonthInv, Alone, RunPast, NotTwice, At

LEMMA StartJobMonth ==
  ASSUME TypeOK, TypeOK', MonthInv, NEW r \in Runners, StartJob(r)
  PROVE  MonthInv'
<1>1. invoices' = invoices /\ mixed' = mixed /\ now' = now /\ At(r, "start")
  BY DEF StartJob
<1>2. /\ run'[r].at = "pick" /\ run'[r].own = run[r].own /\ run'[r].period = run[r].period
      /\ \A q \in Runners \ {r} : run'[q] = run[q]
  BY DEF StartJob, TypeOK, Runs
<1>3. run'[r].todo \subseteq Agreements
  BY DEF TypeOK, Runs
<1>4. Alone' /\ InvoicesPast' /\ RunPast' /\ OncePerMonth'
  BY <1>1, <1>2 DEF Alone, InvoicesPast, RunPast, OncePerMonth, MonthInv, At
<1>5. NotTwice'
  BY <1>2 DEF NotTwice, MonthInv, Billing
<1>6. \A q \in Runners : \A a : UpTo(q, a)' <=> UpTo(q, a)
  BY <1>1, <1>2 DEF UpTo
<1>7. ToBill(r)' \subseteq Agreements /\ \A q \in Runners \ {r} : ToBill(q)' = ToBill(q)
  BY <1>2, <1>3 DEF ToBill, Billing
<1>8. Unbilled'
  BY <1>1, <1>2, <1>6, <1>7 DEF Unbilled, MonthInv, At
<1> QED BY <1>4, <1>5, <1>8 DEF MonthInv

LEMMA InitMonth == Init => MonthInv
  BY IdleRunHolds DEF Init, MonthInv, Alone, InvoicesPast, RunPast, NotTwice, Unbilled, OncePerMonth,
                      At, Billing

LEMMA StepMonth == TypeOK /\ TypeOK' /\ MonthInv /\ [Next]_vars => MonthInv'
<1> SUFFICES ASSUME TypeOK, TypeOK', MonthInv, [Next]_vars PROVE MonthInv'
  OBVIOUS
<1>0. now.m \in Nat /\ now.m <= now.m
  BY DEF TypeOK, Dates
<1>1. ASSUME NEW r \in Runners, NEW period \in 0..world.until.m, CreateJob(r, period)
      PROVE  MonthInv'
  <2>1. invoices' = invoices /\ now' = now /\ MayBegin(r)
    BY <1>1 DEF CreateJob
  <2>2. CASE WithDue(active) = {}
    BY <1>0, <1>1, <2>1, <2>2, MonthQuiet DEF CreateJob, GoesOn
  <2>3. CASE WithDue(active) # {}
    <3>1. Mixes /\ run' = [run EXCEPT ![r] = [IdleRun EXCEPT !.at = "start", !.kind = "job",
                                                !.period = period, !.own = (period = now.m)]]
      BY <1>1, <2>3 DEF CreateJob
    <3>2. /\ run'[r].at = "start" /\ run'[r].own = (period = now.m) /\ run'[r].period = period
          /\ \A q \in Runners \ {r} : run'[q] = run[q]
      BY <3>1 DEF TypeOK, IdleRun
    <3> QED BY <2>1, <3>1, <3>2, BeginMonth
  <2> QED BY <2>2, <2>3
<1>2. ASSUME NEW r \in Runners, StartAuto(r) PROVE MonthInv'
  <2>1. /\ run'[r].at = "pick" /\ run'[r].period = now.m
        /\ \A q \in Runners \ {r} : run'[q] = run[q]
    BY <1>2 DEF StartAuto, TypeOK, IdleRun
  <2> QED BY <1>2, <2>1, BeginMonth DEF StartAuto
<1>3. ASSUME NEW r \in Runners, Pick(r) PROVE MonthInv'
  <2>1. PICK a \in run[r].todo :
          run' = [run EXCEPT ![r].at = "agreement", ![r].agr = a, ![r].todo = @ \ {a}]
    BY <1>3 DEF Pick
  <2>2. /\ run'[r].at = "agreement" /\ run'[r].agr = a /\ run'[r].todo = run[r].todo \ {a}
        /\ run'[r].own = run[r].own /\ run'[r].period = run[r].period
        /\ \A q \in Runners \ {r} : run'[q] = run[q]
    BY <2>1 DEF TypeOK, Runs
  <2>3. \A q \in Runners : GoesOn(q)
    BY <1>3, <2>2 DEF GoesOn, Pick, At
  <2> QED BY <1>0, <1>3, <2>3, MonthQuiet DEF Pick
<1>4. ASSUME NEW r \in Runners, ReadAgreement(r) PROVE MonthInv'
  <2>1. \A q \in Runners : GoesOn(q)
    <3>1. CASE run[r].agr \in active
      BY <1>4, <3>1 DEF ReadAgreement, GoesOn, At, TypeOK, Runs, Billing
    <3>2. CASE run[r].agr \notin active
      BY <1>4, <3>2, AnswersGoOn DEF ReadAgreement, At, Billing
    <3> QED BY <3>1, <3>2
  <2> QED BY <1>0, <1>4, <2>1, MonthQuiet DEF ReadAgreement
<1>5. ASSUME NEW r \in Runners, ReadServices(r) PROVE MonthInv'
  <2>1. \A q \in Runners : GoesOn(q)
    <3>1. CASE Due(run[r].agr) = {}
      BY <1>5, <3>1, AnswersGoOn DEF ReadServices, At, Billing
    <3>2. CASE Due(run[r].agr) # {}
      <4>1. PICK D : run' = [run EXCEPT ![r].at = "check", ![r].due = D]
        BY <1>5, <3>2 DEF ReadServices
      <4> QED BY <1>5, <4>1 DEF ReadServices, GoesOn, At, TypeOK, Runs, Billing
    <3> QED BY <3>1, <3>2
  <2> QED BY <1>0, <1>5, <2>1, MonthQuiet DEF ReadServices
<1>6. ASSUME NEW r \in Runners, InsertLines(r) PROVE MonthInv'
  <2>1. \A q \in Runners : GoesOn(q)
    BY <1>6 DEF InsertLines, GoesOn, At, TypeOK, Runs, Billing
  <2> QED BY <1>0, <1>6, <2>1, MonthQuiet DEF InsertLines
<1>7. ASSUME NEW r \in Runners, Advance(r) PROVE MonthInv'
  <2>1. PICK d \in run[r].due :
          IF run[r].due = {d} THEN Answers(r, "success") ELSE run' = [run EXCEPT ![r].due = @ \ {d}]
    BY <1>7 DEF Advance
  <2>2. \A q \in Runners : GoesOn(q)
    <3>1. CASE run[r].due = {d}
      BY <1>7, <2>1, <3>1, AnswersGoOn DEF Advance, At
    <3>2. CASE run[r].due # {d}
      <4>1. run' = [run EXCEPT ![r].due = @ \ {d}] /\ run[r].at = "advance"
        BY <1>7, <2>1, <3>2 DEF Advance, At
      <4>2. /\ run'[r].at = "advance" /\ run'[r].own = run[r].own /\ run'[r].period = run[r].period
            /\ run'[r].todo = run[r].todo /\ run'[r].agr = run[r].agr
            /\ \A q \in Runners \ {r} : run'[q] = run[q]
        BY <4>1 DEF TypeOK, Runs
      <4> QED BY <4>1, <4>2 DEF GoesOn, Billing
    <3> QED BY <3>1, <3>2
  <2> QED BY <1>0, <1>7, <2>2, MonthQuiet DEF Advance
<1>8. ASSUME NEW r \in Runners, WriteRow(r) PROVE MonthInv'
  <2>1. \A q \in Runners : GoesOn(q)
    BY <1>8 DEF WriteRow, GoesOn, At, TypeOK, Runs
  <2> QED BY <1>0, <1>8, <2>1, MonthQuiet DEF WriteRow
<1>9. ASSUME NEW r \in Runners, Summarise(r) \/ EndAuto(r) \/ FailJob(r) \/ Die(r) PROVE MonthInv'
  <2>1. \A q \in Runners : GoesOn(q)
    BY <1>9, IdleRunHolds DEF Summarise, EndAuto, FailJob, Die, GoesOn, TypeOK
  <2> QED BY <1>0, <1>9, <2>1, MonthQuiet DEF Summarise, EndAuto, FailJob, Die
<1>10. ASSUME NEW r \in Runners, Stumble(r) PROVE MonthInv'
  <2>1. \A q \in Runners : GoesOn(q)
    BY <1>10, AnswersGoOn DEF Stumble, Billing, At
  <2> QED BY <1>0, <1>10, <2>1, MonthQuiet DEF Stumble
<1>11. ASSUME NEW r \in Runners, CancelJob(r) PROVE MonthInv'
  BY <1>0, <1>11, MonthQuiet DEF CancelJob, GoesOn
<1>12. ASSUME NEW a \in Agreements, SetStatus(a) PROVE MonthInv'
  BY <1>0, <1>12, MonthQuiet DEF SetStatus, GoesOn
<1>13. CASE NextDay
  <2>1. now.m <= now'.m
    BY <1>13, TomorrowType DEF NextDay, TypeOK
  <2> QED BY <1>13, <2>1, MonthQuiet DEF NextDay, GoesOn
<1>14. CASE UNCHANGED vars
  BY <1>0, <1>14, MonthQuiet DEF vars, GoesOn
<1> QED
  BY <1>1, <1>2, <1>3, <1>4, <1>5, <1>6, <1>7, <1>8, <1>9, <1>10, <1>11, <1>12, <1>13, <1>14,
     StartJobMonth, CheckPeriodMonth, InsertInvoiceMonth, ManualInvoiceMonth DEF Next, Process

\* Runs that come one after the other bill an agreement once a month at most.
THEOREM BilledOncePerMonth == Spec => []OncePerMonth
<1>1. MonthInv => OncePerMonth
  BY DEF MonthInv
<1> QED BY <1>1, InitType, StepType, InitMonth, StepMonth, PTL DEF Spec

-----------------------------------------------------------------------------
(* No row ends as failed.  A run passes over its rows once, and a row it   *)
(* has still to try was never tried.                                       *)

Working == Billing \cup {"lines", "advance", "row"}
Untried(r, a) == job[r].rows[a].tries = 0
RowsInv ==
  \A r \in Runners :
    /\ \A a \in Agreements : job[r].rows[a].st # "fail" /\ job[r].rows[a].tries <= 1
    /\ At(r, "row") => run[r].kind = "job"
    /\ At(r, "start") => \A a \in Agreements : Untried(r, a)
    /\ run[r].kind = "job" => \A a \in run[r].todo : Untried(r, a)
    /\ run[r].kind = "job" /\ run[r].at \in Working => Untried(r, run[r].agr)

\* A step that leaves the rows alone and gives a run nothing else to try.
LEMMA RowsQuiet ==
  ASSUME TypeOK, RowsInv,
         \A q \in Runners : \A a \in Agreements :
           /\ job'[q].rows[a].tries = job[q].rows[a].tries
           /\ job'[q].rows[a].st = "fail" => job[q].rows[a].st = "fail",
         \A q \in Runners :
           \/ run'[q].todo = {} /\ run'[q].at = "idle"
           \/ /\ run'[q].kind = run[q].kind /\ run'[q].todo \subseteq run[q].todo
              /\ run'[q].at = "start" => run[q].at = "start"
              /\ run'[q].at = "row" => run[q].at = "row" \/ run[q].kind = "job"
              /\ run'[q].at \in Working =>
                   \/ run'[q].agr \in run[q].todo
                   \/ run'[q].agr = run[q].agr /\ run[q].at \in Working
  PROVE  RowsInv'
<1>1. \A q \in Runners : run[q].todo \subseteq Agreements /\ run[q].agr \in Agreements
  BY DEF TypeOK, Runs
<1> QED BY <1>1 DEF RowsInv, Untried, At, Working, Billing

LEMMA AnswersRows ==
  ASSUME TypeOK, NEW r \in Runners, NEW res \in {"success", "skip", "error", "thrown"}, Answers(r, res),
         run[r].at \in Working
  PROVE  \A q \in Runners :
           /\ run'[q].kind = run[q].kind /\ run'[q].todo \subseteq run[q].todo
           /\ run'[q].at = "start" => run[q].at = "start"
           /\ run'[q].at = "row" => run[q].at = "row" \/ run[q].kind = "job"
           /\ run'[q].agr = run[q].agr
           /\ run'[q].at \in Working =>
                \/ run'[q].agr \in run[q].todo
                \/ run'[q].agr = run[q].agr /\ run[q].at \in Working
  BY DEF Answers, TypeOK, Runs, Working, Billing

LEMMA CreateJobRows ==
  ASSUME TypeOK, RowsInv, NEW r \in Runners, NEW period, CreateJob(r, period)
  PROVE  RowsInv'
<1>1. /\ \A a \in Agreements : job'[r].rows[a].tries = 0 /\ job'[r].rows[a].st # "fail"
      /\ \A q \in Runners \ {r} : job'[q] = job[q]
  BY DEF CreateJob, TypeOK
<1>2. \A q \in Runners \ {r} : run'[q] = run[q]
  BY DEF CreateJob, TypeOK
<1>3. run'[r] = run[r] \/ (run'[r].todo = {} /\ run'[r].at = "start")
  BY DEF CreateJob, TypeOK, IdleRun
<1>4. \A q \in Runners : run[q].todo \subseteq Agreements /\ run[q].agr \in Agreements
  BY DEF TypeOK, Runs
<1> QED BY <1>1, <1>2, <1>3, <1>4 DEF RowsInv, Untried, At, Working, Billing

LEMMA StartJobRows ==
  ASSUME TypeOK, RowsInv, NEW r \in Runners, StartJob(r)
  PROVE  RowsInv'
<1>1. \A q \in Runners : job'[q].rows = job[q].rows
  BY DEF StartJob, TypeOK, Jobs
<1>2. /\ run'[r].at = "pick" /\ run'[r].todo \subseteq Agreements
      /\ \A q \in Runners \ {r} : run'[q] = run[q]
  BY DEF StartJob, TypeOK, Runs
<1>3. \A a \in Agreements : Untried(r, a)
  BY DEF StartJob, RowsInv
<1> QED BY <1>1, <1>2, <1>3 DEF RowsInv, Untried, At, Working, Billing

\* The one step that counts a try: of a row that had none, and that the run
\* does not come back to.
LEMMA WriteRowRows ==
  ASSUME TypeOK, RowsInv, NotTwice, NEW r \in Runners, WriteRow(r)
  PROVE  RowsInv'
<1> DEFINE a == run[r].agr
           R == job[r].rows
<1>1. a \in Agreements /\ R \in [Agreements -> Row] /\ run[r].res \in {"success", "skip", "error", "thrown"}
  BY DEF TypeOK, Runs, Jobs
<1>2. /\ job'[r].rows = [R EXCEPT ![a] = RowAfter(R[a], run[r].res)]
      /\ \A q \in Runners \ {r} : job'[q] = job[q]
  BY DEF WriteRow, TypeOK, Jobs
<1>3. /\ run'[r].at = "pick" /\ run'[r].todo = run[r].todo /\ run'[r].kind = run[r].kind
      /\ \A q \in Runners \ {r} : run'[q] = run[q]
  BY DEF WriteRow, TypeOK, Runs
<1>4. a \notin run[r].todo
  BY DEF WriteRow, NotTwice, At
<1>5. run[r].todo \subseteq Agreements
  BY DEF TypeOK, Runs
<1>6. R[a].tries = 0 /\ R[a].st # "fail" /\ R[a] \in Row
  BY <1>1 DEF WriteRow, RowsInv, Untried, At, Working
<1>7. RowAfter(R[a], run[r].res).st # "fail" /\ RowAfter(R[a], run[r].res).tries <= 1
  BY <1>1, <1>6 DEF RowAfter, Row, MAX_RETRY
<1>8. /\ job'[r].rows[a] = RowAfter(R[a], run[r].res)
      /\ \A b \in Agreements \ {a} : job'[r].rows[b] = R[b]
  BY <1>1, <1>2
<1> HIDE DEF a, R
<1>9. ASSUME NEW q \in Runners \ {r}
      PROVE  job'[q] = job[q] /\ run'[q] = run[q]
  BY <1>2, <1>3
<1>10. \A b \in Agreements : job'[r].rows[b].st # "fail" /\ job'[r].rows[b].tries <= 1
  BY <1>7, <1>8 DEF RowsInv, R
<1>11. run'[r].kind = "job" => \A b \in run'[r].todo : job'[r].rows[b].tries = 0
  BY <1>3, <1>4, <1>5, <1>8 DEF RowsInv, Untried, R
<1> QED BY <1>3, <1>9, <1>10, <1>11 DEF RowsInv, Untried, At, Working, Billing

LEMMA InitRows == Init => RowsInv
  BY DEF Init, RowsInv, IdleRun, NoJob, Untried, At, Working, Billing

LEMMA StepRows == TypeOK /\ RowsInv /\ NotTwice /\ [Next]_vars => RowsInv'
<1> SUFFICES ASSUME TypeOK, RowsInv, NotTwice, [Next]_vars PROVE RowsInv'
  OBVIOUS
<1>1. ASSUME NEW r \in Runners, StartAuto(r) PROVE RowsInv'
  <2>1. /\ job' = job /\ run'[r].kind = "auto" /\ run'[r].at = "pick"
        /\ \A q \in Runners \ {r} : run'[q] = run[q]
    BY <1>1 DEF StartAuto, TypeOK, IdleRun
  <2> QED BY <2>1 DEF RowsInv, Untried, At, Working, Billing
<1>2. ASSUME NEW r \in Runners, Pick(r) PROVE RowsInv'
  <2>1. PICK a \in run[r].todo :
          run' = [run EXCEPT ![r].at = "agreement", ![r].agr = a, ![r].todo = @ \ {a}]
    BY <1>2 DEF Pick
  <2>2. /\ run'[r].at = "agreement" /\ run'[r].agr = a /\ run'[r].todo = run[r].todo \ {a}
        /\ run'[r].kind = run[r].kind /\ \A q \in Runners \ {r} : run'[q] = run[q]
    BY <2>1 DEF TypeOK, Runs
  <2> QED BY <1>2, <2>2, RowsQuiet DEF Pick
<1>3. ASSUME NEW r \in Runners, NEW at \in {"services", "check", "insert", "lines", "advance"},
             job' = job, run[r].at \in Working,
             /\ run'[r].at = at /\ run'[r].kind = run[r].kind /\ run'[r].todo = run[r].todo
             /\ run'[r].agr = run[r].agr /\ \A q \in Runners \ {r} : run'[q] = run[q]
      PROVE  RowsInv'
  BY <1>3, RowsQuiet
<1>4. ASSUME NEW r \in Runners, NEW res \in {"success", "skip", "error", "thrown"}, Answers(r, res),
             job' = job, run[r].at \in Working
      PROVE  RowsInv'
  BY <1>4, AnswersRows, RowsQuiet
<1>5. ASSUME NEW r \in Runners, ReadAgreement(r) PROVE RowsInv'
  <2>1. job' = job /\ run[r].at \in Working
    BY <1>5 DEF ReadAgreement, At, Working, Billing
  <2>2. CASE run' = [run EXCEPT ![r].at = "services"]
    BY <1>3, <2>1, <2>2 DEF TypeOK, Runs
  <2> QED BY <1>4, <1>5, <2>1, <2>2 DEF ReadAgreement
<1>6. ASSUME NEW r \in Runners, ReadServices(r) PROVE RowsInv'
  <2>1. job' = job /\ run[r].at \in Working
    BY <1>6 DEF ReadServices, At, Working, Billing
  <2>2. ASSUME NEW D, run' = [run EXCEPT ![r].at = "check", ![r].due = D] PROVE RowsInv'
    BY <1>3, <2>1, <2>2 DEF TypeOK, Runs
  <2> QED BY <1>4, <1>6, <2>1, <2>2 DEF ReadServices
<1>7. ASSUME NEW r \in Runners, CheckPeriod(r) PROVE RowsInv'
  <2>1. job' = job /\ run[r].at \in Working
    BY <1>7 DEF CheckPeriod, At, Working, Billing
  <2>2. CASE run' = [run EXCEPT ![r].at = "insert"]
    BY <1>3, <2>1, <2>2 DEF TypeOK, Runs
  <2> QED BY <1>4, <1>7, <2>1, <2>2 DEF CheckPeriod
<1>8. ASSUME NEW r \in Runners, InsertInvoice(r) PROVE RowsInv'
  BY <1>3, <1>8 DEF InsertInvoice, TypeOK, Runs, At, Working, Billing
<1>9. ASSUME NEW r \in Runners, InsertLines(r) PROVE RowsInv'
  BY <1>3, <1>9 DEF InsertLines, TypeOK, Runs, At, Working, Billing
<1>10. ASSUME NEW r \in Runners, Advance(r) PROVE RowsInv'
  <2>1. job' = job /\ run[r].at \in Working /\ run[r].at = "advance"
    BY <1>10 DEF Advance, At, Working, Billing
  <2>2. ASSUME NEW D, run' = [run EXCEPT ![r].due = D] PROVE RowsInv'
    BY <1>3, <2>1, <2>2 DEF TypeOK, Runs
  <2> QED BY <1>4, <1>10, <2>1, <2>2 DEF Advance
<1>11. ASSUME NEW r \in Runners, Summarise(r) \/ EndAuto(r) \/ FailJob(r) \/ Die(r) PROVE RowsInv'
  <2>1. /\ \A q \in Runners : job'[q].rows = job[q].rows
        /\ run'[r] = IdleRun /\ \A q \in Runners \ {r} : run'[q] = run[q]
    <3>1. CASE Summarise(r)
      BY <3>1 DEF Summarise, TypeOK, Jobs
    <3>2. CASE FailJob(r)
      BY <3>2 DEF FailJob, TypeOK, Jobs
    <3>3. CASE EndAuto(r) \/ Die(r)
      BY <3>3 DEF EndAuto, Die, TypeOK
    <3> QED BY <1>11, <3>1, <3>2, <3>3
  <2> QED BY <2>1, RowsQuiet DEF IdleRun
<1>12. ASSUME NEW r \in Runners, CancelJob(r) PROVE RowsInv'
  <2>1. /\ run' = run /\ \A q \in Runners \ {r} : job'[q] = job[q]
        /\ \A a \in Agreements :
             job'[r].rows[a] = IF job[r].rows[a].st = "pending"
                               THEN [job[r].rows[a] EXCEPT !.st = "cancelled"] ELSE job[r].rows[a]
    BY <1>12 DEF CancelJob, TypeOK
  <2>2. \A a \in Agreements : job[r].rows[a] \in Row
    BY DEF TypeOK, Jobs
  <2>3. \A a \in Agreements : /\ job'[r].rows[a].tries = job[r].rows[a].tries
                              /\ job'[r].rows[a].st = "fail" => job[r].rows[a].st = "fail"
    BY <2>1, <2>2 DEF Row
  <2> QED BY <2>1, <2>3, RowsQuiet
<1>13. ASSUME NEW r \in Runners, Stumble(r) PROVE RowsInv'
  BY <1>4, <1>13 DEF Stumble, Working, Billing, At
<1>14. CASE UNCHANGED <<job, run>>
  BY <1>14, RowsQuiet
<1> QED
  BY <1>1, <1>2, <1>5, <1>6, <1>7, <1>8, <1>9, <1>10, <1>11, <1>12, <1>13, <1>14,
     CreateJobRows, StartJobRows, WriteRowRows
     DEF Next, Process, ManualInvoice, SetStatus, NextDay, vars

\* No row of a job is ever marked failed, so a retry of the job finds none.
THEOREM RowsNeverFail == Spec => []NoRowFails
<1>1. RowsInv => NoRowFails
  BY DEF RowsInv, NoRowFails
<1>2. MonthInv => NotTwice
  BY DEF MonthInv
<1> QED
  BY <1>1, <1>2, InitType, StepType, InitMonth, StepMonth, InitRows, StepRows, PTL DEF Spec
=============================================================================
