# A TLA+ model of the approval, messaging, sales and billing workflows

The repository is a multi-tenant business suite (Hono on Node, Drizzle on
Postgres, a React frontend): a CRM, a finance desk (FinDesk), tasks,
communications, and **PAR**, the payment action requests of an organisation.
PAR carries the repository's hardest logic: a request for money is routed
through a chain of signatures, can be corrected, withdrawn, rejected, held and
paid, and every one of those is a separate HTTP handler that reads and writes a
few tables **without a transaction**. The same style carries the rest: webhooks
that several instances receive at once, a daily cron that works next to the
users, bulk jobs that live in a process. This project models PAR, the message
inbox, the sales funnel with its cadences and stock, and recurring billing; what
is left is inventoried below.

## 1. Inventory

Paths are under `src/server/` unless they start with `src/`.

| Component | State | Operations | What is hard | Correct when | Here |
|---|---|---|---|---|---|
| PAR routing (`lib/par/doa.ts`, `preApprovers.ts`, `requesterVerifier.ts`, `submit.ts`) | `par_doa_matrix`, project and profile settings | resolve, drop self-approval, add pre-approvers, add verifier | levels are renumbered three times, parallel groups, gaps between bands | no signature is lost, order kept, never waits for its own author | `ParChain`, `ParRouting` |
| PAR decision authority (`decisionAuthority.ts`, `delegations.ts`, `approvalLimit.ts`, `approvalProgress.ts`) | roles, delegations, limits | who may sign which row, what a signature opens | four sources of authority, two different gates | approve and reject agree; limits bind | `ParChain` |
| PAR request (`routes/par.ts`, `parApprovals.ts`, `parPayments.ts`) | `par_requests`, `par_approvals`, `par_payments`, `par_audit` | 17 handlers | long sequences of legal calls; columns sealed by a hash and corrected afterwards; an overage flag that outlives its payment | see section 4 | `ParRequest`, `ParLifecycle` |
| The same handlers at once, and the refill of empty chains that every opening of the inbox starts with (`backfillStuckApprovalChains` in `doa.ts`) | the rows, and what each call in flight has read | reads, row writes, status writes | every UPDATE is `WHERE id = ...`, whatever has happened since the read; crashes between writes; a refill that meets a submit | see section 4 | `ParConcurrent` |
| PAR numbers and totals (`requestNo.ts`, `totals.ts`) | `request_no`, `total_estimated_cents` | highest + 1; sum of the lines | read-then-write | numbers are unique, totals are sums | planned |
| PAR documents, archive, mail, extraction, tenders, purchase orders | files, Drive copies, side tables | rendering, uploads, fuzzy matching | I/O | - | not modelled |
| CRM cadences (`lib/crm/cadences.ts`, `routes/crmCadences.ts`) | enrolments | cron step, stop on reply, enrol by hand or by stage, cancel, switch on and off | the cron overlaps a reply; the step's task and the advance are two writes; a run takes 500 at most | no step is passed over, a cancel holds, what is due is served | `CrmCadences`, `CrmFunnel` |
| CRM stages and stock (`changeStage.ts`, `productStock.ts`, `finInventoryMovements.ts`) | lead stage, the anchor `stock_movement_id`, quantity on hand | move, consume, restore, movements by hand and of documents | the stage, the movement, the quantity and the anchor are four writes; the link and the product are edited meanwhile | a sale takes stock once and a lost sale returns exactly it | `CrmStock`, `CrmFunnel` |
| FinDesk recurring invoices (`finRecurringProcessor.ts`, `finBulkRunner.ts`, `fin/autoBillRunner.ts`, `finMass.ts`) | agreements, next dates, invoices, bulk jobs and rows | bill a period by job or by cron, cancel | idempotency by creation date; invoice, lines and dates are separate writes; month ends; nothing resumes a job | no due date is given away, nobody is billed twice | `FinBilling` |
| Messages (`comms/ingest.ts`, `comms/send.ts`, `commsWebhooks.ts`, `commsInbox.ts`) | contacts, conversations, messages, the timeline of leads | ingest, deliver reports, link, read, answer, start | redelivery, parallel first messages, reports out of order, a refused send that deletes | each message is in the inbox once, one lead per person | `Inbox`, `CommsInbox` |
| Sessions (`auth/session.ts`) | sessions, a cache per process | log in, look up, revoke | several instances | a revoked session is refused in time | planned |
| CRM assignment (`assignment.ts`, `distribution.ts`, `roundRobin.ts`) | index | next owner | read-modify-write | turns are fair | candidate |
| Gmail sync, tasks, exchange rates, FinDesk ledger, tax, payroll, CRM records, AI, storage, platform administration, public API, frontend | - | - | I/O or arithmetic | - | not modelled |

### How the parts interact

**PAR.** The author drafts a request (`par.ts`) and submits it. `submitPAR` asks the
matrix for a chain, rewrites it three times, seals the body with a hash, deletes
the old rows of `par_approvals`, inserts the new ones and sets
`pending_approval`. Approvers sign (`approveParStep`), reject, or ask for
changes; the requestor's verifier may correct a few fields and reseal. The last
signature sets `in_finance` (or `approved` for anything that is not a payment).
Finance corrects, pays, takes a payment back or returns the request
(`parPayments.ts`); a payment more than a tenth above the estimate waits for a
re-approval. The parts share only the database rows: there are no messages, and
nothing locks.

**Messages.** The provider posts an event to a webhook and repeats it until it is
answered with 200. `ingestEvents` finds or makes the contact, its lead and its
conversation, one statement after the other, and stores the message, the
counter and the lead's timeline entry in **one transaction**, on which the unique
index of the external id makes the repetition harmless. Agents link, read and
answer next to it.

**Funnel.** A lead that changes its stage (`applyLeadStageChange`) runs the
automations, enters the cadences of the stage and, when it enters or leaves a
won stage, takes or gives back stock through `recordStockMovement`, the one
that also serves manual movements and documents. The daily cron
fires the due steps of the cadences; a customer's reply cancels them.

**Billing.** A user's bulk job and a cron put agreements through the same
processor: read the agreement and what is due, look for an invoice of the
period, insert invoice and lines, and move each service to its next date.

## 2. Modules

| Module | What it is | Code |
|---|---|---|
| `ParChain` | Pure operators: the matrix, the three rewritings, who may decide which row, what one approval does | `doa.ts`, `submit.ts`, `preApprovers.ts`, `requesterVerifier.ts`, `decisionAuthority.ts`, `delegations.ts`, `approvalProgress.ts`, `approvalLimit.ts` |
| `ParRouting` | One submit as four steps, over all small matrices; its inputs are variables that never change | `submitPAR`, lines 184-221 |
| `ParLifecycle` | The abstract specification: terms, the signatures still missing, and a stage | what PAR-CORE section 4 promises |
| `ParRequest` | One request, every handler one uninterrupted action | `par.ts`, `parApprovals.ts`, `parPayments.ts`, `submit.ts` |
| `ParConcurrent` | One request, every handler one action per round trip to the database, and the inbox's refill | the same, `doa.ts` |
| `ParChainProofs` | Lemmas about `ParChain` that all proofs about chains share | |
| `ParRoutingProofs` | Six theorems about `ParRouting` | |
| `ParRequestProofs` | Nine theorems about `ParRequest` | |
| `ParRefinementProofs` | `ParRequest` implements `ParLifecycle` | |
| `ParConcurrentProofs` | Four theorems about `ParConcurrent` | |
| `Inbox` | The abstract inbox: each message shown once, counted once, filed once at most | what the schema's comments promise |
| `CommsInbox` | One channel: webhooks, reports and agents, one action per statement or transaction | `ingest.ts`, `send.ts`, `commsWebhooks.ts`, `commsInbox.ts` |
| `CommsInboxProofs` | Eight theorems about `CommsInbox`, among them that it implements `Inbox` | |
| `CrmInstances` | The instances of the server that the two modules below share: what a call has read, what it does next | |
| `CrmCadences` | Enrolments, the cron, replies | `cadences.ts`, `crmCadences.ts`, `crmCron.ts` |
| `CrmStock` | Sync of the stock with the stage, movements | `productStock.ts`, `finInventoryMovements.ts`, `finInventory.ts` |
| `CrmFunnel` | Their composition with the change of stages, deaths and swallowed errors | `changeStage.ts`, `crmLeads.ts`, `crmAutomations.ts` |
| `CrmFunnelProofs` | Eight theorems about `CrmFunnel` | |
| `FinBilling` | Jobs and the cron through the recurring processor | `finRecurringProcessor.ts`, `finBulkRunner.ts`, `autoBillRunner.ts`, `finMass.ts` |
| `FinBillingProofs` | Four theorems about `FinBilling` | |
| `MCParRouting`, `MCParRequest`, `MCParConcurrent`, `MCCommsInbox`, `MCCrmFunnel`, `MCFinBilling` | The instances TLC checks | |

`ParRouting` takes `ParChain` by `INSTANCE ... WITH` its matrix, pre-approvers and
verifier as variables; `ParRequest` and `ParConcurrent` extend it;
`ParRequest` maps onto `ParLifecycle` with `Abstract == INSTANCE ...`.

### State and actions of `ParRequest`

`status`, `totalMdl` and `seal` are columns of `par_requests`; `body` stands for
the columns the hash covers, cut down to what the properties tell apart: the
total, the payee, the memo (budget line and end use, what verifier and
finance may correct), the purpose, and whether the vendor link is set. `rows` is
`par_approvals` as a function from slots to decision, lock, signer and what the
signer saw (a history). `actual` and `overage` are `par_payments`; a missing
payment row is `actual = NoAmount`. `signers` is the set of actors of the audit
event `approved`, which `/reapprove` reads. `granted` is a history of the
amounts that were re-approved.

Every handler is one action; a refused call changes nothing and is a stuttering
step, with one exception: a refused submit may leave the vendor link behind, so
it has an action (`SubmitRefused`). Choices of the database (the row order among
equals), of the outside (the exchange rate, whether a vendor can be linked) and
of the client (the new values) are nondeterministic.

Facts of the code worth knowing when reading the model:

- The requestor's own row (level 0, inserted as approved) is left out: nothing
  decides on it.
- `/finance` changes the status only from `approved` and only for a payment;
  `approveParStep` moves a payment straight to `in_finance`, so this transition
  never happens, and the action is not there.
- PAR-CORE speaks of one person signing once. The code takes a verifier's row
  out only on what was the first level, and keeps it further up on purpose
  (`requesterVerifier.ts:132-138`); the model does what the code does.
- Project and payer access (`mayAccessProject`, `mayAccessPayer`) is static: all
  `Users` are in scope. `Verifier` is the configured verifier when that person
  may sign and reach the request, otherwise `NoUser`.
- The refill of an empty chain by the inbox (`backfillStuckApprovalChains`) is not
  an action here: it touches a waiting request without a row, and while
  handlers run one at a time there is none (`ChainMoves`). `ParConcurrent` has it.
- A refusal by the three-way match, the tender rule or an event budget changes
  nothing and is covered by the stuttering step.

### State and actions of `ParConcurrent`

Here the body is fixed and the interleaving is everything. `calls` holds for
every HTTP call in flight what it has read and what it is about to write;
`Arrive...` is the first read and its guards, `ReadChain` the second, and
`WriteRow`, `WriteLevel`, `DeleteRows`, `InsertRow`, `WriteStatus` are the
writes, each as unconditional as the code's UPDATE. Rows carry the round of the
submit that inserted them, because a row that is deleted and inserted again has a
new id and a late write misses it. An inbox that an approver opens is a call too:
`ArriveInbox` reads which requests wait, `ReadSteps` their rows, and `Backfill` inserts
an open row of level 1 for anybody with the approver role when it read none,
whatever there is by then. An empty chain under `pending_approval` (a
withdrawal or an overlapping submit that died, a withdrawal overtaken by an
approval) therefore lasts until somebody opens the inbox. `routed` is a history
variable, the rows that the last submit to clear the table was about to insert:
the code keeps no such thing and tells a complete chain from the rows it
finds. `Die` kills a call between two writes. The
role check and the first read of the status are one step: the roles do not
change here, and between them nothing is written. `submitPAR` reads the status
twice; a call that arrives at the second read covers it.

### Worlds

The three models below leave people free to do many things, and all of them at
once is more than TLC enumerates. What people do is therefore a constant,
`Worlds`: a set of records that say which requests come, how many of them at a
time, how many instances may die. A behaviour takes place in one of them,
chosen in `Init` and never changed; no action looks at it for anything but
whether somebody asks for it. A property that is conditional on a world
(`world.together = 1`) is a claim about that kind of use, and the README says so.

### State and actions of `CommsInbox`

`contact`, `conv`, `stored` and `timeline` are `comm_contacts`,
`comm_conversations`, the inbound half of `comm_messages` and the entries of
`lead_interactions`; `out` is its outbound half with what the provider will
report; `owner` says for whom each lead of `NewLeads` was created. A lead that was merged
is followed as the webhook does, `Hop` by `Hop` with five lookups at most
(`Visible`). `resolveLead` is taken apart at its awaits: `ResolveLead` (invitation
or link), `MatchLead` (the SELECT by phone or email), `CreateLead` (the INSERT),
`Claim` (the conditional UPDATE), `ReadWinner` (the SELECT after a claim that
changed nothing), `Discard` and `FollowWinner`. `Discard` deletes a lead with what the foreign keys do to the other
tables: its timeline goes with it, contacts and conversations lose the link. `due` is what the
provider has to deliver (again), `calls` the instances at work. An action is one
statement, or a few of which only one meets another actor (a row inserted
unless it is there and then read, a row read and changed by its key); `Store` is the one
transaction. A send that is refused
(consent, window, the mail guard) is a nondeterministic choice in `Compose`; `Throw` is an error of the statements
after the dispatch. Either leads a call that made the conversation to the `catch`
of `startConversation` and to `Drop`.
`Die` ends an instance anywhere, and the event stays due unless it was answered.
The external id is the identity of the message, which is what the unique index
compares.

### State and actions of `CrmFunnel`

`enrolled` is `crm_cadence_enrollments` in the order of insertion; `fired`
records the tasks made, per enrolment. `lead` holds the stage, product, quantity
and anchor; `moves` is the ledger, `qty` the quantity on hand, `linked` the item
of a product. An instance goes through `calls[i].pc`: *stage, rules*, then
*enrol* and *sync* in the order of the route (`applyLeadStageChange` enrols
first, the bulk route syncs first). The inserts, reads and updates of a movement are
`ReadItems`, `InsertMove`, `WriteQty`, `WriteAnchor`; the hook of an issued
invoice, which reads all items before it writes any, is a movement of several
lines. `torn` is a history of the items of which an update was lost or
overwritten, `gone` of the sales that were released because their product was
unlinked. `Stumble` is an error that a `catch` swallows: the cron goes on with
the next enrolment, a handler with its next part.

### State and actions of `FinBilling`

A date is a month and a day of it, `now` is today, and months have their own lengths
(`Lengths`, repeated every `Year` months). `After` is `nextBillDate`: the day stays,
and what the month has no day for runs over into the month after, as `setMonth`
does. Days are those of UTC, the zone the server runs in (`Dockerfile` and
`vercel.json` set no other), so the conversion to and from an ISO date is exact.
`Step = 0` is a service whose `recurrencePeriod` is null: `Advance` leaves its date as
it is. `next[s]` is the date the service waits for, `invoices` and `lines` what was
inserted, `job` the bulk jobs with their rows and `run` what each runner holds.
`Stumble` is an error inside the `try` of a row (the processor, or the update with its
answer), `FailJob` one outside of it (reading the rows, the update in the
row's `catch`, the summary), after which the job is `failed`.
`own` marks the invoices of runs for the month they began in. A job is
read and summarised in one step (`Summarise` reads the rows and writes the
job), and so is a cancel, which is two UPDATEs in the code.

## 3. Runs

| Run | Checks | States | Question |
|---|---|---|---|
| `routing` | `TypeOK`, `NoSignatureLost`, `SomebodyElseSigns`, `OrderKept`, `VerifierFirst`, `NoBandMeansHighest` | 81,056 | Is the chain right for every small matrix, pre-approvers and verifier? |
| `request` | `TypeOK`, `LevelsInOrder`, `FullySigned`, `ChainMoves`, `SealHolds`, `SignaturesStand`, `PaymentFacts`, `OverageReapproved`, `CompletedWithinLimit`, `ImplementsLifecycle` | 484,162 | Is every sequence of calls safe when they do not overlap? |
| `approvals_overlap` | `TypeOK`, `LevelsInOrder`, `FullySigned` | 785,555 | Do up to three overlapping calls, inboxes that refill chains among them, open a level early or give finance less than the request was routed to? |
| `single_levels` | `ChainMoves`, `LastSignatureDelivers` | 6,544 | On single rows, is a request ever stranded, and does the last signature deliver it? |
| `comms_inbox` | `TypeOK`, `OneLeadPerPerson`, `FiledWhereLinked`, `WindowFromNewest`, `LinkKept`, `StatusForward`, `ImplementsInbox`, `NoneLost` | 176,964 | Does every message reach the inbox once, whatever overlaps, dies and is repeated? |
| `crm_funnel` | `TypeOK`, `NoStepSkipped`, `EachStepOnce`, `NeverNegative`, `LedgerAgrees`, `OneSaleHeld`, `HeldOnlyWhenWon`, `CancelHolds`, `DueIsServed` | 244,106 | What of cadences and stock survives overlap and faults, and what holds without? |
| `billing` | `EveryDateBilled`, `OncePerMonth` | 1,363,735 | Is a date of a service's schedule ever passed unbilled, or a month billed twice? |
| `parallel_stuck` | `ChainMoves`, violated | - | Two last approvers of a parallel level |
| `reject_overtaken` | `StopStops`, violated | - | Approvals between the two writes of a reject |
| `stale_overage` | `OverageCovered`, violated | - | A payment on the re-approval of a smaller amount |
| `comms_dropped` | `DropsOnlyEmpty`, violated | - | A refused first message and a customer who writes meanwhile |
| `month_skipped` | `MonthlyIsMonthly`, violated | - | A monthly service due on the last day of a long month |

`CHECK_DEADLOCK FALSE` in all but the two of `FinBilling`: a cancelled request, a finished
submit in `ParRouting`, or a world in which everybody has done what they came
for really stops. In billing somebody can always start a job, and TLC checks
that.

### Bounds, and why they are enough

- `MCParRouting`: a pool of eight rows in which everything that decides between
  rows happens (two bands, a gap above, an open band for another payer, parallel
  and single rows on one level, a more specific row, rows pinned to the
  requestor and to the same person twice); `MaxRows = 4` of them at a time is
  two levels with two rivals each. Three people make every coincidence of
  requestor, verifier, pre-approver and pinned approver.
- `MCParRequest`: `MaxSubmits = 2`, so that a second chain follows a withdrawn,
  rejected or returned one. The total is 20 with a rate of 1 or 2: at rate 1 it
  takes the small band, stays below the threshold of 30 and within Bob's limit;
  at rate 2 it does none of these. The amounts 22, 23 and 30 are exactly 10%
  above, one more, and a later, larger overage. Bob delegates to Cat, who is not
  an approver (the case in which only the delegator's limit binds); Dan is at
  once the verifier and the director on a row labelled like the verifier's.
- `MCParConcurrent`: three calls at once is one more than a conflict needs.
  `MCParallel` has three levels, of which the first is parallel and the second
  a role that two people have; `MCSingle` has two single rows. `Overlap` names groups of
  kinds of calls that are in flight together: in `approvals_overlap` approvals,
  refusals, withdrawals with reopenings, and what finance does, each group
  next to inboxes and cancels, and submits next to cancels; in `single_levels` approvals and
  inboxes. Calls of other kinds come when nothing is in flight. `MayDie` names
  the kinds that may be killed: approvals, reopenings and inboxes, in `single_levels`
  submits and no approvals. A run that expects a violation lets in the one
  combination it is about. What is kept apart is what the code breaks on; section 5
  goes through it. The three calls are interchangeable (symmetry, not where
  liveness is checked); `MaxRounds` bounds how often rows are inserted, by submits
  and by inboxes together.
- `MCCommsInbox`: one customer with two messages, one newer than the other and
  delivered in any order, two instances and one death. Ten worlds: a stranger's two
  first messages, a lead that is matched, merged or invited, a channel that tells
  the phone, chats opened without a message, an agent who links, reads, answers or starts, a customer who
  blocks. Three leads exist, one merged into another; three more
  can be created, one per call and one after a death.
- `MCCrmFunnel`: one lead, two items and products, three cadences (two
  steps a day apart, one of one step, one empty), two instances, one fault. A
  limit of one enrolment per run makes the queue happen that 500 makes in
  the code. Eight worlds: overlap with replies, the cron with two enrolments
  and a cadence switched off, enrolment by stage, sales that overlap,
  movements of several lines, edits of product and link while a sale
  stands, and stages changed by a rule or with the pipeline. Four movements are
  a sale, its return, and both again.
- `MCFinBilling`: a rent with two monthly services, one due on the first of the
  month and one on the last day of a long month, and a setup without a period; two
  runners, which are interchangeable (symmetry). Long months have three days and
  short ones two, and they alternate: the third has no match in every other month,
  as the 31st has none in February. Seven worlds: one run at a time into the third
  month for any period, into the second with a fault or with an edit (a
  manual invoice, an agreement stopped or resumed), both agreements, two faults in
  one job (`FailJob` in the `catch` of a row takes two); two runs at once, with and without
  a fault. The theorems of section 5 have none of these bounds.

### Fairness

`ParConcurrent` assumes `WF_vars(Proceed(c))` for every call: a handler that was
accepted runs on, which the Node event loop and the database driver give it
unless the process is killed (`MayDie`; in `single_levels` submits, reopenings and
inboxes, but no approval). Nothing makes
anybody call the server, so no liveness is claimed about people.

`CommsInbox` assumes the same of its instances (`WF(Proceed(i))`) and
`SF(Redeliver(m))`: a provider repeats an event that was not answered. Deaths are
bounded, so that not every delivery dies; without the bound no server
could promise anything. `CrmFunnel` assumes `WF(Work(i))` and
`SF(StartCron)`: the platform calls `/daily` every day, and it finds the
instance free again and again. Strong fairness is needed there because requests
of users may take the instances in between. `FinBilling` claims no liveness: nothing
resumes a job.

## 4. What the properties say

- **Routing.** A signature the matrix asked for is still there, or was the
  requestor's own, or the same person signs in front (`NoSignatureLost`). The
  chain is never empty and never waits for its author (`SomebodyElseSigns`).
  Order and parallel groups survive the renumbering (`OrderKept`); the verifier
  is alone in front, pre-approvers before the matrix (`VerifierFirst`); an amount
  in a gap gets the highest band that fits (`NoBandMeansHighest`).
- **Signing.** Levels open strictly in order (`LevelsInOrder`); finance gets
  nothing with a signature missing (`FullySigned`; in `ParConcurrent` this means
  every row the submit routed the request to, not only every row there is); a
  waiting request has an open row (`ChainMoves`); the completing signature is within the limits of the signer
  and of those they act for (`CompletedWithinLimit`).
- **Sealing.** From submit to payment the stored body verifies against the seal,
  whatever the verifier, finance and the vendor registry write (`SealHolds`); no
  signature stands under something that changed after it (`SignaturesStand`).
- **Paying.** An overage is paid only on a request somebody re-approved an
  overage of (`OverageReapproved`, with the code's integer arithmetic against the
  rational rule); what the payment handlers take for granted is true
  (`PaymentFacts`).
- **All of it**: `ImplementsLifecycle`, the abstract specification as a property.
- **Messages.** `ImplementsInbox` and `NoneLost`: a message is shown, counted and
  filed once, by the transaction, however often it is delivered, and it is shown in
  the end. `OneLeadPerPerson`: of the leads that parallel first messages create one
  is linked, the others are deleted unless the instance died over them;
  nothing is filed on a loser (`FiledWhereLinked`; of a channel that tells phones
  see below). A link is changed by
  an invitation or an agent only (`LinkKept`), the answer window counts from the
  newest message (`WindowFromNewest`), and the status of a message that is there never goes back
  (`StatusForward`).
- **Cadences.** Whatever overlaps and dies, no step is passed over
  (`NoStepSkipped`), and what is due is served as long as the switches rest
  (`DueIsServed`). A cancel holds, but for the one step that was in
  hand (`CancelHolds`). Each step fires once, and a lead is in a cadence once, while
  requests come one at a time (`EachStepOnce`).
- **Stock.** Whatever overlaps, nothing falls below zero (`NeverNegative`: a
  quantity is written as computed, not subtracted), and ledger and quantity agree for
  every item no write of which was lost (`LedgerAgrees`). While moves do not
  overlap, a lead holds the one sale its anchor names, through edits of product,
  quantity and link (`OneSaleHeld`), and none when it is not won
  (`HeldOnlyWhenWon`).
- **Billing.** Every date a service's schedule gives is billed before the service
  moves past it, with any overlap and any failure (`EveryDateBilled`; the schedule
  itself can leave out a month, see below); runs for their own month that do not
  overlap bill an agreement once, half-dead invoices included (`OncePerMonth`).

### What does not hold

Five runs show the code and its own documentation disagree; `PROJECT.json` quotes
the lines.

1. `approveParStep` computes the progress on a chain read before its own write.
   Two last approvers of a parallel level at once each see the other pending: the
   next level never opens, and only a withdrawal moves the request
   (`parallel_stuck`).
2. A reject writes its row and then the status. In between the status still is
   `pending_approval` and a rejected row is not pending, so the others of the
   chain sign it through: the request is with finance while the reject is
   still to write its status (`reject_overtaken`).
3. `overage_reapproved` is never reset: after 23 was held and re-approved, a
   payment of 30 passes that nobody re-approved (`stale_overage`).
4. A refused first message deletes the conversation it opened without looking
   whether it is still empty; what the customer wrote and a webhook stored in it in
   the meantime goes with it, and the provider, which gets its 200, does not
   repeat it. The same `catch` also runs on an error after the message has gone
   out (`comms_dropped`).
5. A month after 31 January is 3 March for `nextBillDate`: a monthly service due at
   the end of a month passes a month over, and its day changes for good
   (`month_skipped`).

Two more disagreements need no run. Reject opens its gate to fewer people than
approve, against "reject must honor the SAME authority as approve"
(`parApprovals.ts:820`): who may approve a role row through a delegation only is
refused when rejecting it. And a service billed once keeps its date;
`last_billed_at`, which "prevents double-billing" (`schema/finAgreements.ts:104`), is
neither set for it (`finRecurringProcessor.ts:217`) nor read by anybody, so the
first run of every later month bills it again.

The conditions of the properties above are there because the code does not do
more. Some of what they exclude the comments of the code promise in general
words: that a sale takes stock once and dragging a lead about cannot empty the
store (`productStock.ts:13-19`), that enrolling is idempotent on every way into a
cadence (`cadences.ts:84-86`), that the lines of an issued invoice are all written
or none (`finInventory.ts:242`), that a bulk row is tried up to three times
(`finBulkRunner.ts:3`). No run is given to these: the models show them next
to the properties that do hold, as follows.

- *Approvals.* The unconditional status UPDATE also resurrects a request that was
  cancelled or withdrawn while the approval was in flight, the latter without a row
  of its chain. A reject killed between its row and the status leaves the chain of
  point 2 for good: the rejected row is not pending, the others of a parallel level
  sign on, and the request reaches finance. The passing run keeps a
  withdrawal from overlapping an approval, and a reject from dying, for this
  reason. Two submits at once leave two chains in one request, and
  everybody signs twice. Among single rows of a level that are equally specific
  the matrix gives the one the database returns first, so two submits that overlap
  can route differently; when a self-approval is dropped from only one of the two
  chains they open different levels. A withdrawal or a submit that dies over an
  empty or half-written chain, and an inbox that refills one, let a request through
  with fewer signatures than it was routed to. Section 5 says under which
  conditions this cannot happen and how to see it outside of them.
- *Cadences.* `advanceEnrollment` writes the next state without a condition. An
  advance in hand makes a cancelled enrolment active again; two runs at once
  (the cron and the button) fire a step twice; a crash between the task and
  the advance fires it again; two enrolments at once both insert.
- *Stock.* Two moves into a won stage at once consume twice. Two movements of an
  item at once lose one of the two quantities. The change of the
  pipeline and the rule `move_stage` change the stage and leave the stock as it
  is. An issued invoice with two lines of one item takes off the last
  line only (`finInventory.ts:274-302`).
- *Messages.* A webhook that created a lead and lost the race deletes it ("ours is a
  duplicate, we delete it", `ingest.ts:192`). On a channel that tells the phone
  another webhook can have matched that lead by its phone and filed a message on it;
  the entry goes with the lead. If an agent has linked the
  contact elsewhere in between, a third webhook that has just read that lead as the
  winner finds it gone and files on its own match, a lead the contact was never
  linked to (`ingest.ts:164-166`). A crash after the transaction and before `stopCadencesOnReply` leaves
  the cadences of a customer who answered running: the repetition is a
  duplicate and returns early. A report that overtakes the UPDATE of
  `send.ts:176` matches no row. `Touch` sets the counter to zero for a message that came
  in while the answer was being sent.
- *Billing.* A row that fails, by its processor or by its own update, goes back to `pending`, the runner passes once,
  and `/retry` takes rows marked `fail` only: it is never tried again, and its
  job stays `running` (`RowsNeverFail`). Services of one agreement due on different
  days of a month: the second finds the invoice of the first and is billed
  a month late. A job for another month than the current one looks at the wrong
  invoices. Overlapping runs can bill twice, and the later `Advance` can
  set a date back. An invoice whose run died before the lines blocks its
  month. A cancel does not stop the runner, whose summary overwrites it.

## 5. Proofs

For every set of users, matrix, project, limits and amounts that satisfies the
assumptions `PeopleAssumption`, `MatrixAssumption` (`ParChain`) and
`AmountAssumption` (`ParRequest`), TLAPS proves of `ParRequest`:

| Theorem | States |
|---|---|
| `TypeCorrect` | `TypeOK` |
| `LevelsOpenInOrder` | `LevelsInOrder` |
| `FinanceGetsSigned` | `FullySigned` |
| `ChainAlwaysMoves` | `ChainMoves` |
| `SealAlwaysHolds` | `SealHolds` |
| `SignaturesAlwaysStand` | `SignaturesStand` |
| `PaymentFactsHold` | `PaymentFacts` |
| `OverageAlwaysReapproved` | `OverageReapproved` |
| `LimitsHonoured` | `CompletedWithinLimit` |
| `RequestImplementsLifecycle` | `ImplementsLifecycle` |

The argument. Lemmas about `ParChain` come first: the three rewritings keep slots
well-typed, `FreshRows` gives rows that are pending with exactly the lowest level
open, `Signed` changes one row's decision and the locks of one level, and
`FirstLevelExists`: a non-empty set of slots has a lowest level (by
well-foundedness of the naturals, the only non-elementary fact used). `TypeOK` is
inductive by itself.

`LevelsInOrder` is inductive together with `TypeOK`, and it is what makes the
rest possible: `approvalProgressAfterDecision` looks only at the rest of the
row's level and at locked rows above. Lemma `LastRow` says that with
`LevelsInOrder` this local look is enough: when no sibling is pending and nothing
above is locked, every other row is approved. `FullySigned` and `ChainMoves`
follow, the latter also needing that a submit never writes an empty chain.
`FullySigned` is not inductive without `LevelsInOrder`.

`SealHolds` and `SignaturesStand` are inductive with `TypeOK`: the verifier's
correction needs that nobody has signed yet, finance's that only the memo
changes. `PaymentFacts` (the frozen total is what the body is worth while the
chain is being signed; only payments are with finance; a hold implies an
unset flag; a set flag implies a re-approval) gives `OverageReapproved`, where
lemma `TenRule` relates the integer rule to the rational one, and
`CompletedWithinLimit`. The refinement uses `TypeOK`, `LevelsInOrder` and
`PaymentFacts`, action by action.

Of `FinBilling`, for every finite set of agreements, services and runners and every
set of worlds that satisfies `BillingAssumption`:

| Theorem | States |
|---|---|
| `TypeCorrect` | `TypeOK` |
| `EveryDateIsBilled` | `EveryDateBilled` |
| `BilledOncePerMonth` | `OncePerMonth` |
| `RowsNeverFail` | `NoRowFails` |

`EveryDateBilled` speaks of the dates the schedule gives: a date is reached when it
is a service's first, or comes `After` one that was billed. That the schedule
may leave a month out is the code's (`month_skipped`) and no gap in the billing of what
it gives. The property is not inductive, because a run writes a date it computed from one
read long ago. `BilledInv` adds what runs know: the dates a run holds were reached
when it read them (`ReadReached`; lines are never deleted, so they still are), and a
run that is about to advance has its own lines in (`HeldBilled`). Nothing is
assumed about overlap: a run that was overtaken writes a date back, never
forward over a gap.

`OncePerMonth` needs `MonthInv`. `mixed` remembers whether two runs were ever under
way together; while it is false, the run that is under way is alone (`Alone`),
no invoice is of the future (`InvoicesPast`), the run's period is no later than
now (`RunPast`), and no agreement it has still to bill has an own invoice created
after the period (`Unbilled`). When the check has passed there is none in
the period either, so the invoice it inserts is the first of its month,
also when the run began in one month and inserts in the next.

`NoRowFails` follows from `RowsInv`: a runner has only rows in its list that were
never tried, so a failure is their first, which is not the third.

`TypeOK` and `NoRowFails` are proved and not part of the `billing` run.

Of `ParRouting`, for every matrix, requestor, set of pre-approvers and verifier
(`RoutingAssumption`: rows have a level and a unique id, their primary key):

| Theorem | States |
|---|---|
| `TypeCorrect` | `TypeOK` |
| `SignaturesCorrect` | `NoSignatureLost` |
| `OthersCorrect` | `SomebodyElseSigns` |
| `OrderCorrect` | `OrderKept` |
| `VerifierCorrect` | `VerifierFirst` |
| `BandCorrect` | `NoBandMeansHighest` |

The invariant `RoutingInv` says what each of the three rewritings has left of the
resolved chain: all its slots that are left sit the same number of levels further
back (`Behind`), whoever had a slot has it or one in front (`Answered`), what was
put in front is alone on its levels (`InFront`). Each rewriting is a lemma; the two
that put slots in front share one (`Fronted`).

Of `ParConcurrent`, for every matrix and every set of calls, groups that overlap
and kinds that die:

| Theorem | States | Hypotheses |
|---|---|---|
| `TypeCorrect` | `TypeOK` | |
| `LevelsCorrect` | `LevelsInOrder` | `Apart`, `StopsFinish`, `ChainsFinish`, `SubmitsAgree` |
| `SignedCorrect` | `FullySigned` | the same |
| `MovesCorrect` | `ChainMoves` | `OnlyApprovals`, `NobodyDies`, `OnePerLevel` |

`TypeInv` is `TypeOK` with what each kind of call may be about to do (`Sound`).
`ConcInv` adds which calls can be in flight together (`PairInv`), and for each of
them that what it read still holds (`Holds`): the row it aims at is there and
open, an approval that found itself the last still is, the level it will open has
nothing pending below, an inbox about to refill a chain still finds it without a
signature. No row is guarded by its UPDATE, so this rests on who
overlaps with whom. `RouteInv` follows the chain the request was routed to:
while it waits, every row of `routed` is in the table or in the hands of a submit
that will insert it, unless a withdrawal is under way; with finance, all of them are in the table. A
refill that found no row is beside a withdrawal that takes the request out of the
inbox (`HealInv`). `FullInv` is both.

The two theorems are conditional, and the code enforces none of the four conditions:
nothing locks, and any handler may be killed. They say exactly which
schedules are safe; outside of each the property fails. A reader can see it with
`MCParConcurrent`, two calls, the matrix, `Kinds`, `Overlap` and `MayDie` given here
and everything else as in `MC_approvals_overlap.cfg`.

- `Apart`: approvals overlap with each other, refusals with each other,
  withdrawals with reopenings, the calls of finance with each other, and each of
  these with inboxes; submits with each other; cancels with all. Beyond it: `reject_overtaken`.
  And with `MCSingle`, `MaxRounds = 3`, `{"submit", "approve", "inbox"}`, overlaps
  `{"submit", "inbox"}` and `{"approve", "inbox"}`, `LevelsInOrder` fails after 17 steps: an
  inbox reads no rows between the delete and the inserts of a second submit, its
  open row of level 1 lands after an approval has read the chain, and the
  approval opens level 2 over it.
- `StopsFinish`: a refusal that has written its row writes the status. Beyond it:
  `MCParallel`, `MaxRounds = 2`, `{"submit", "approve", "reject"}`, overlap
  `{"approve"}`, `MayDie = {"reject"}`. `FullySigned` fails after 23 steps: the rejected row is
  not pending, and the others sign the request through to finance.
- `ChainsFinish`: a withdrawal that has deleted the chain writes the status, and a
  submit finishes unless it is alone. Beyond it, with `MCParallel` and `MaxRounds = 2`:
  `{"submit", "approve", "withdraw", "inbox"}`, no overlap, `MayDie = {"withdraw"}`.
  `FullySigned` fails after 17 steps: the waiting request has no row, the inbox puts one, and
  a single signature completes it. Or `{"submit", "approve"}`, overlap `{"submit"}`,
  `MayDie = {"submit"}`, after 15 steps: the second submit deletes the chain of the first,
  inserts one row and dies, and the approval of that row finds no other.
- `SubmitsAgree`: two submits in flight together open the same level. Beyond it: a
  matrix of two single rows on level 1 that are equally specific, one pinned to the
  requestor and one to Bob, and a row of level 2; overlap `{"submit"}`.
  `LevelsInOrder` fails after 7 steps: the requestor's row is dropped from one of the
  chains, which opens level 2, while Bob is pending on level 1 of the other.

In `approvals_overlap` and `single_levels` the four conditions hold.
`ChainMoves` needs `OnePerLevel`: with two rows on a level it is false, which is
`parallel_stuck`. It also needs that only approvals and inboxes overlap (`OnlyApprovals`) and
that no call is killed (`NobodyDies`). The invariant for it (`MoveInv`) is that
some call in flight will open what is locked, or something is open.

Of `CommsInbox`, for every set of customers, leads, messages and instances and
every set of worlds that satisfies `InboxAssumption`:

| Theorem | States | Hypotheses |
|---|---|---|
| `TypeCorrect` | `TypeOK` | |
| `WindowCorrect` | `WindowFromNewest` | |
| `OneLeadCorrect` | `OneLeadPerPerson` | |
| `LinkKeptCorrect` | `LinkKept` | |
| `FiledCorrect` | `FiledWhereLinked` | `ShortMerges`, `LinkedKept` |
| `FiledWithoutPhones` | `FiledWhereLinked` | `ShortMerges`, no channel that tells phones |
| `StatusCorrect` | `StatusForward` | |
| `InboxPromise` | `ImplementsInbox` | `DropsOnlyEmpty` |

`BaseInv` has the types, that a stored message is in a conversation of its sender, and
that the counter is no more than what is stored. `LinkInv` says where a lead can
come from: the contact's is matched, chosen, or the one created lead that won
(`WonInv`); a call that created a lead and did not win has to discard it
(`Rightful`), and no two calls hold the same new lead (`HandsApart`), which `Fresh`
guarantees. `HandInv` follows the leads nobody links: each is in the hand of a call, deleted,
or left by one that died. `ShortMerges` says that no lead was merged along more than
the four hops a webhook follows; past them the code files on a lead that is
itself merged away. `LinkedKept` says that no lead a contact was ever linked to is deleted by
a webhook that lost the race. Where no channel tells phones this is so, because nobody finds a
created lead but the call that made it, and `FiledWithoutPhones` needs no such condition; where
one does, section 4 (*Messages*) has the schedule in which three webhooks and an agent
file a message on a lead its sender was never linked to. `DropsOnlyEmpty` is the property
that `comms_dropped` shows violated: the refinement holds of the behaviours in
which no refused start takes messages along, and only of those.

Of `CrmFunnel`, for every set of leads, cadences, items, products and instances
and every set of worlds that satisfies the four assumptions of its modules:

| Theorem | States |
|---|---|
| `TypeCorrect` | `TypeOK` |
| `StepsCorrect` | `NoStepSkipped` |
| `CancelCorrect` | `CancelHolds` |
| `OnceCorrect` | `EachStepOnce` |
| `ShelfCorrect` | `NeverNegative` |
| `HeldCorrect` | `HeldOnlyWhenWon` |
| `LedgerCorrect` | `LedgerAgrees` |
| `SaleCorrect` | `OneSaleHeld` |

`ShelfInv`: what an instance read is enough for every line it has still to write,
whatever was written since; that is all `NeverNegative` needs, and why it survives
any overlap. `StepInv`: an enrolment, and a step in hand, have made the tasks of all
steps before. `OnceCorrect`, `HeldCorrect` and `SaleCorrect` are about requests that
come one at a time: `SingleInv` (one call is under way), `AloneInv` (a lead is in a cadence once, and the
call that is about to enrol it has found it is not) and `OnceInv` (what is in hand is what
the row says); `HeldInv` follows the sale through the calls: what a call that sells or
returns saw of the anchor still stands (`Phase`), and a lead that holds stock without being
won is in the hand of a call that will return it (`Unsettled`).

`LedgerCorrect` and `SaleCorrect` are about sums. The sum over a set of movements is
the last of the running sums of the ledger (`Sums`, a recursive function), and what
the proofs need of it is proved by induction: every set of numbers that holds 0 and with each
the next holds them all (`FromZero`, from a least element that would be missing),
so the running sums exist (`SumsRun`), agree where two sets do (`SumsSame`), grow by
the movement appended (`SumsAppend`) and differ by the one a set has more (`SumsPlus`).
`LedgerInv`: a movement somebody is still to count is in the ledger as he will count it
(`Listed`), and no two count the same one. `SaleInv`: a call that sells or returns still
has the anchor it saw, and returns that very movement (`Tracks`); a lead whose movements do
not add up to its anchor (`Stands`) has a call in hand that has inserted the movement, or
let the sale go, and will write the anchor (`Counting`).

Only model-checked: liveness under fairness (`LastSignatureDelivers`, `NoneLost`,
`DueIsServed`), which is out of the prover's reach. What the runs that expect a
violation show is a counterexample, and needs no proof.

## 6. Left out, and why

Section 16 of the finance form, comments, attachments, archive and reminders do
not change the course of a request. Duplication makes a new draft, which is
`Init`. Changes of the matrix, of roles, delegations and limits while a request
is under way are left out (constants), as are changes of the project's
pre-approvers: rows, once written, do not depend on them, but who may sign a role
row does. Line items are abstracted to their sum.

`CommsInbox` leaves out Gmail (polling and threads), the owner's messages of
Telegram Business, previews and the open or closed status, the timeline entries of
sent messages, and what a new lead sets off (assignment, automations). Stopping the cadences and
notifying are the step `Reply` and have no effect there.
`CrmFunnel` leaves out costs, notes, notifications and the audit, deletions, rules
that set off rules, leads created as won, editing the steps of a cadence that has
enrolments. `FinBilling` leaves out amounts, invoice numbers, e-invoices and
mail, import jobs, and the edit of a service's date.

Not modelled at all: rendering, files, mail, extraction and matching of
documents; the arithmetic of ledger, tax and payroll; records without a
protocol; the frontend. Everything is in the table of section 1.

## 7. Plan

1. *Done*: PAR (`ParChain`, `ParRouting`, `ParLifecycle`, `ParRequest`,
   `ParConcurrent`), `CommsInbox`, the funnel, `FinBilling`; their safety
   properties proved as section 5 says.
2. `ParConcurrent` with the body: an edit against a submit, two submits, the
   two-step reseal of finance, the verifier's correction.
3. The composition of `CommsInbox` and `CrmCadences` at `Reply`.
4. Request and invoice numbers, the session cache, round robin: one
   read-then-write each.
