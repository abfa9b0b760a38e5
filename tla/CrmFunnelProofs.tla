---------------------------- MODULE CrmFunnelProofs -------------------------
(***************************************************************************)
(* What the funnel keeps, for every number of leads, cadences, items and   *)
(* instances, however their calls interleave and wherever they stop.       *)
(***************************************************************************)
EXTENDS CrmFunnel, FiniteSetTheorems, SequenceTheorems, WellFoundedInduction, TLAPS

----------------------------------------------------------------------------
(* The tables and the instances.                                           *)

Enrolment == [lead : Leads, cadence : Cadences,
              status : {"active", "done", "cancelled"}, step : Nat, at : Nat]
Move == [item : Items, change : Int, lead : Leads \union {NoLead}]
StockLine == [item : Items, change : Int]

\* A row of leads, when there are m movements.
LeadRow(m) == [stage : Stages, product : Products \union {NoProduct},
               need : Nat, anchor : 0 .. m]

Todos == Seq(Cadences) \union Seq(Nat) \union Seq(StockLine)

Pcs == {"idle", "stage", "rules", "enrol", "find", "insert", "sync", "consume",
        "restore", "read", "move", "write", "anchor", "next", "fire", "advance",
        "stop"}

Call == [pc : Pcs, then : Seq({"enrol", "sync"}), lead : Leads \union {NoLead},
         from : Stages \union {"none"}, to : Stages \union {"none"},
         todo : Todos,
         seen : [stage : Stages \union {"none"},
                 product : Products \union {NoProduct, "none"},
                 need : Nat, anchor : Nat],
         held : [Items -> Int] \union {<<>>}, step : Nat, move : Nat]

\* What an instance holds where it stands, when there are e enrolments and m
\* movements: the lead it works on, the row it read, and its list.
Sound(r, e, m) ==
  /\ r.pc \in {"stage", "rules", "enrol", "find", "insert", "sync", "consume",
               "restore", "stop", "anchor"} => r.lead \in Leads
  /\ r.then # <<>> => r.lead \in Leads /\ (r.pc # "stage" => r.seen \in LeadRow(m))
  /\ r.pc \in {"rules", "sync", "consume", "restore"} => r.seen \in LeadRow(m)
  /\ r.pc \in {"stage", "rules"} => r.to \in Stages
  /\ r.pc \in {"find", "insert"} => r.todo \in Seq(Cadences)
  /\ r.pc \in {"next", "fire", "advance", "stop"} => r.todo \in Seq(1 .. e)
  /\ r.pc \in {"read", "move", "write"} => r.todo \in Seq(StockLine)
  /\ r.pc \in {"insert", "fire", "advance", "stop", "read", "move", "write"} =>
       r.todo # <<>>
  /\ r.pc \in {"move", "write"} => r.held \in [Items -> Int]
  /\ r.move \in 0 .. m

CallsOK ==
  /\ calls \in [Instances -> Call]
  /\ \A i \in Instances : Sound(calls[i], Len(enrolled), Len(moves))
  /\ faults \in 0 .. MaxFaults /\ world \in Worlds

CadenceOK ==
  /\ enrolled \in Seq(Enrolment) /\ fired \in Seq(Seq(Nat))
  /\ Len(fired) = Len(enrolled)
  /\ enabled \subseteq Cadences /\ today \in 0 .. LastDay

StockOK ==
  /\ moves \in Seq(Move)
  /\ lead \in [Leads -> LeadRow(Len(moves))]
  /\ linked \in [Products -> Items \union {NoItem}]
  /\ qty \in [Items -> Int]
  /\ torn \subseteq Items /\ gone \subseteq 1 .. Len(moves)

FunnelOK == CallsOK /\ CadenceOK /\ StockOK

----------------------------------------------------------------------------
(* Lemmas about lists and calls.                                           *)

LEMMA ConstantFacts ==
  /\ NoLead \notin Leads /\ IsFiniteSet(Instances) /\ IsFiniteSet(Cadences)
  /\ Steps \in [Cadences -> Seq(Nat)] /\ Limit \in Nat \ {0}
  /\ LastDay \in Nat /\ MaxEnrolled \in Nat
  /\ Opening \in [Items -> Nat] /\ MaxMoves \in Nat
  /\ Won \subseteq Stages /\ FirstStage \in Stages \ Won /\ MaxFaults \in Nat
  /\ FirstProduct \in [Leads -> Products \union {NoProduct}]
  /\ FirstItem \in [Products -> Items \union {NoItem}]
<1>1. NoLead \notin Leads /\ IsFiniteSet(Instances)
  BY InstancesAssumption
<1>2. /\ IsFiniteSet(Cadences) /\ Steps \in [Cadences -> Seq(Nat)]
      /\ Limit \in Nat \ {0} /\ LastDay \in Nat /\ MaxEnrolled \in Nat
  BY CadencesAssumption
<1>3. Opening \in [Items -> Nat] /\ MaxMoves \in Nat
  BY StockAssumption
<1>4. /\ Won \subseteq Stages /\ FirstStage \in Stages \ Won /\ MaxFaults \in Nat
      /\ FirstProduct \in [Leads -> Products \union {NoProduct}]
      /\ FirstItem \in [Products -> Items \union {NoItem}]
  BY FunnelAssumption
<1> QED BY <1>1, <1>2, <1>3, <1>4

LEMMA WorldFacts ==
  ASSUME world \in Worlds
  PROVE  /\ world.together \in Nat \ {0} /\ world.faults \in 0 .. MaxFaults
         /\ world.targets \subseteq Stages /\ world.silent \subseteq Stages
         /\ world.rule \in [Stages -> Stages \union {"none"}]
         /\ world.lines \subseteq Seq(StockLine) \ {<<>>}
         /\ world.edits \subseteq [lead : Leads, product : Products \union {NoProduct}, need : Nat]
         /\ world.relinks \subseteq [product : Products, item : Items \union {NoItem}]
         /\ world.enrols \subseteq Cadences
  BY FunnelAssumption DEF StockLine

LEMMA TodosFacts ==
  /\ \A s \in Seq(Cadences) : s \in Todos
  /\ \A s \in Seq(StockLine) : s \in Todos
  /\ \A e \in Nat : \A s \in Seq(1 .. e) : s \in Todos
<1>1. \A e \in Nat : \A s \in Seq(1 .. e) : s \in Seq(Nat)
  BY SeqMonotonic
<1> QED BY <1>1 DEF Todos

\* The members of a finite set in some order.
LEMMA InSomeOrder ==
  ASSUME NEW S, IsFiniteSet(S), NEW s \in SetToSeqs(S)
  PROVE  s \in Seq(S) /\ Len(s) = Cardinality(S) /\ (S # {} => s # <<>>)
<1>1. Cardinality(S) \in Nat
  BY FS_CardinalityType
<1>2. s \in Seq(S) /\ Len(s) = Cardinality(S)
  BY <1>1 DEF SetToSeqs
<1>3. S # {} => Cardinality(S) # 0
  BY FS_EmptySet
<1> QED BY <1>2, <1>3

\* More enrolments and movements make no call unsound.
LEMMA SoundGrows ==
  ASSUME NEW r, NEW e \in Nat, NEW m \in Nat, NEW e2 \in Nat, NEW m2 \in Nat,
         e <= e2, m <= m2, Sound(r, e, m)
  PROVE  Sound(r, e2, m2)
<1>1. r.todo \in Seq(1 .. e) => r.todo \in Seq(1 .. e2)
  <2>1. 1 .. e \subseteq 1 .. e2
    OBVIOUS
  <2> QED BY <2>1, SeqMonotonic
<1>2. r.seen \in LeadRow(m) => r.seen \in LeadRow(m2)
  BY DEF LeadRow
<1>3. r.move \in 0 .. m => r.move \in 0 .. m2
  OBVIOUS
<1> QED BY <1>1, <1>2, <1>3 DEF Sound

LEMMA Lengths ==
  ASSUME FunnelOK
  PROVE  /\ Len(enrolled) \in Nat /\ DOMAIN enrolled = 1 .. Len(enrolled)
         /\ DOMAIN fired = 1 .. Len(enrolled)
         /\ Len(moves) \in Nat /\ DOMAIN moves = 1 .. Len(moves)
  BY DEF FunnelOK, CadenceOK, StockOK

\* One instance goes on; enrolments and movements may have been added.
LEMMA CallStep ==
  ASSUME FunnelOK, NEW i \in Instances, NEW r \in Call, Set(i, r),
         Len(enrolled') \in Nat, Len(moves') \in Nat,
         Len(enrolled) <= Len(enrolled'), Len(moves) <= Len(moves'),
         Sound(r, Len(enrolled'), Len(moves')),
         faults' \in 0 .. MaxFaults, world' = world
  PROVE  CallsOK'
<1>1. \A j \in Instances : calls'[j] = IF j = i THEN r ELSE calls[j]
  BY DEF FunnelOK, CallsOK, Set
<1>2. calls' \in [Instances -> Call]
  BY DEF FunnelOK, CallsOK, Set
<1>3. \A j \in Instances : Sound(calls[j], Len(enrolled'), Len(moves'))
  BY Lengths, SoundGrows DEF FunnelOK, CallsOK
<1>4. \A j \in Instances : Sound(calls'[j], Len(enrolled'), Len(moves'))
  BY <1>1, <1>3
<1> QED BY <1>2, <1>4 DEF FunnelOK, CallsOK

LEMMA CallsStay ==
  ASSUME FunnelOK, UNCHANGED <<calls, faults, world>>,
         Len(enrolled') = Len(enrolled), Len(moves') = Len(moves)
  PROVE  CallsOK'
  BY DEF FunnelOK, CallsOK

LEMMA IdleSound ==
  ASSUME NEW e \in Nat, NEW m \in Nat
  PROVE  Idle \in Call /\ Sound(Idle, e, m)
<1>1. /\ <<>> \in Todos /\ <<>> \in Seq({"enrol", "sync"})
  BY DEF Todos
<1>2. Idle \in Call
  BY <1>1 DEF Idle, NoRow, Call, Pcs
<1>3. Idle.pc = "idle" /\ Idle.then = <<>> /\ Idle.move = 0
  BY DEF Idle
<1> QED BY <1>2, <1>3 DEF Sound

LEMMA CallOf ==
  ASSUME FunnelOK, NEW i \in Instances
  PROVE  calls[i] \in Call /\ Sound(calls[i], Len(enrolled), Len(moves))
  BY DEF FunnelOK, CallsOK

\* A call that is through goes on with what the handler does next, or ends.
LEMMA ThroughSound ==
  ASSUME FunnelOK, NEW i \in Instances, calls[i].pc # "stage"
  PROVE  /\ Through(i) \in Call
         /\ Sound(Through(i), Len(enrolled), Len(moves))
         /\ Through(i).pc \in {"idle", "enrol", "sync"}
<1> PICK r : r = calls[i]
  OBVIOUS
<1>1. r \in Call /\ Sound(r, Len(enrolled), Len(moves)) /\ r.pc # "stage"
  BY CallOf
<1>2. CASE r.then = <<>>
  <2>1. Through(i) = Idle
    BY <1>2 DEF Through
  <2>2. Idle.pc = "idle"
    BY DEF Idle
  <2> QED BY <2>1, <2>2, IdleSound, Lengths
<1>3. CASE r.then # <<>>
  <2> DEFINE t == [r EXCEPT !.pc = Head(r.then), !.then = Tail(r.then), !.todo = <<>>]
  <2>1. r.then \in Seq({"enrol", "sync"})
    BY <1>1 DEF Call
  <2>2. Head(r.then) \in {"enrol", "sync"} /\ Tail(r.then) \in Seq({"enrol", "sync"})
    BY <1>3, <2>1, HeadTailProperties
  <2>3. <<>> \in Todos
    BY DEF Todos
  <2> PICK h, tl : h = Head(r.then) /\ tl = Tail(r.then)
    OBVIOUS
  <2>4. /\ t \in Call /\ t.pc = h /\ t.then = tl
        /\ t.lead = r.lead /\ t.seen = r.seen /\ t.move = r.move
    <3>1. t = [r EXCEPT !.pc = h, !.then = tl, !.todo = <<>>]
      OBVIOUS
    <3> HIDE DEF t
    <3> QED BY <1>1, <2>2, <2>3, <3>1 DEF Call, Pcs
  <2>5. Through(i) = t
    BY <1>3 DEF Through
  <2> HIDE DEF t
  <2>6. r.lead \in Leads /\ r.seen \in LeadRow(Len(moves)) /\ r.move \in 0 .. Len(moves)
    BY <1>1, <1>3 DEF Sound
  <2>7. t.pc \in {"enrol", "sync"}
    BY <2>2, <2>4
  <2>8. Sound(t, Len(enrolled), Len(moves))
    BY <2>4, <2>6, <2>7 DEF Sound
  <2> QED BY <2>4, <2>5, <2>7, <2>8
<1> QED BY <1>2, <1>3

LEMMA FinishStep ==
  ASSUME FunnelOK, NEW i \in Instances, calls[i].pc # "stage", Finish(i),
         Len(enrolled') = Len(enrolled), Len(moves') = Len(moves),
         faults' \in 0 .. MaxFaults, world' = world
  PROVE  CallsOK'
<1> PICK r : r = Through(i)
  OBVIOUS
<1>1. r \in Call /\ Sound(r, Len(enrolled), Len(moves))
  BY ThroughSound
<1>2. Set(i, r)
  BY DEF Finish
<1> QED BY <1>1, <1>2, Lengths, CallStep

LEMMA CadenceStays ==
  ASSUME FunnelOK, UNCHANGED cadenceVars
  PROVE  CadenceOK' /\ Len(enrolled') = Len(enrolled)
  BY DEF FunnelOK, CadenceOK, cadenceVars

LEMMA StockStays ==
  ASSUME FunnelOK, UNCHANGED stockVars
  PROVE  StockOK' /\ Len(moves') = Len(moves)
  BY DEF FunnelOK, StockOK, stockVars

\* A step that only goes on with a call.
LEMMA OnlyCall ==
  ASSUME FunnelOK, UNCHANGED cadenceVars, UNCHANGED stockVars, UNCHANGED <<faults, world>>,
         NEW i \in Instances, NEW r \in Call, Set(i, r),
         Sound(r, Len(enrolled), Len(moves))
  PROVE  FunnelOK'
<1>1. CadenceOK' /\ StockOK' /\ Len(enrolled') = Len(enrolled) /\ Len(moves') = Len(moves)
  BY CadenceStays, StockStays
<1>2. faults' \in 0 .. MaxFaults
  BY DEF FunnelOK, CallsOK
<1>3. CallsOK'
  BY <1>1, <1>2, Lengths, CallStep
<1> QED BY <1>1, <1>3 DEF FunnelOK

LEMMA OnlyFinish ==
  ASSUME FunnelOK, UNCHANGED cadenceVars, UNCHANGED stockVars, UNCHANGED <<faults, world>>,
         NEW i \in Instances, calls[i].pc # "stage", Finish(i)
  PROVE  FunnelOK'
<1> PICK r : r = Through(i)
  OBVIOUS
<1>1. r \in Call /\ Sound(r, Len(enrolled), Len(moves))
  BY ThroughSound
<1>2. Set(i, r)
  BY DEF Finish
<1> QED BY <1>1, <1>2, OnlyCall

LEMMA IdleFields ==
  /\ Idle \in Call /\ Idle.pc = "idle" /\ Idle.then = <<>> /\ Idle.lead = NoLead
  /\ Idle.move = 0 /\ Idle.todo = <<>> /\ Idle.from = "none" /\ Idle.to = "none"
<1>1. Idle \in Call
  BY IdleSound
<1> QED BY <1>1 DEF Idle

\* The list of a call, one line shorter.
LEMMA Shorter ==
  /\ \A s \in Seq(Cadences) : s # <<>> => Head(s) \in Cadences /\ Tail(s) \in Seq(Cadences)
  /\ \A s \in Seq(StockLine) : s # <<>> => Head(s) \in StockLine /\ Tail(s) \in Seq(StockLine)
  /\ \A e \in Nat : \A s \in Seq(1 .. e) : s # <<>> => Head(s) \in 1 .. e /\ Tail(s) \in Seq(1 .. e)
<1>1. \A S : \A s \in Seq(S) : s # <<>> => Head(s) \in S /\ Tail(s) \in Seq(S)
  BY HeadTailProperties
<1> QED BY <1>1

LEMMA SomeLeft ==
  ASSUME NEW S, NEW s \in Seq(S), Len(s) > 1
  PROVE  Tail(s) \in Seq(S) /\ Tail(s) # <<>>
<1>1. s # <<>> /\ Len(s) \in Nat
  BY EmptySeq, LenProperties
<1>2. Tail(s) \in Seq(S) /\ Len(Tail(s)) = Len(s) - 1
  BY <1>1, HeadTailProperties
<1>3. Len(Tail(s)) # 0
  BY <1>1, <1>2
<1> QED BY <1>2, <1>3, EmptySeq

----------------------------------------------------------------------------
(* The calls of the cadences keep their types.                             *)

\* The day of a step is a day, or never.
LEMMA NextFireType ==
  ASSUME FunnelOK, NEW c \in Cadences, NEW n \in Nat
  PROVE  NextFire(c, n) \in Nat
<1>1. Steps[c] \in Seq(Nat) /\ today \in Nat /\ LastDay \in Nat
  BY ConstantFacts DEF FunnelOK, CadenceOK
<1>2. ASSUME n < Len(Steps[c])
      PROVE  Steps[c][n + 1] \in Nat
  <2>1. n + 1 \in 1 .. Len(Steps[c])
    BY <1>1, <1>2
  <2> QED BY <1>1, <2>1, ElementOfSeq
<1> QED BY <1>1, <1>2 DEF NextFire, Never

LEMMA ArriveEnrolOK ==
  ASSUME FunnelOK, NEW i \in Instances, NEW l \in Leads, NEW c \in world.enrols,
         ArriveEnrol(i, l, c), UNCHANGED stockVars
  PROVE  FunnelOK'
<1> PICK r : r = [Idle EXCEPT !.pc = "find", !.lead = l, !.todo = <<c>>]
  OBVIOUS
<1>1. c \in Cadences
  BY WorldFacts DEF FunnelOK, CallsOK
<1>2. <<c>> \in Seq(Cadences)
  BY <1>1
<1>3. <<c>> \in Todos
  BY <1>2, TodosFacts
<1>4. /\ r \in Call /\ r.pc = "find" /\ r.then = <<>> /\ r.lead = l
      /\ r.todo = <<c>> /\ r.move = 0
  BY <1>3, IdleFields DEF Call, Pcs
<1>5. Sound(r, Len(enrolled), Len(moves))
  BY <1>2, <1>4, Lengths DEF Sound
<1>6. Set(i, r) /\ UNCHANGED cadenceVars /\ UNCHANGED <<faults, world>>
  BY DEF ArriveEnrol, Accept, Set
<1> QED BY <1>4, <1>5, <1>6, OnlyCall

LEMMA EnrolByStageOK ==
  ASSUME FunnelOK, NEW i \in Instances, EnrolByStage(i), UNCHANGED stockVars
  PROVE  FunnelOK'
<1> DEFINE new == {c \in enabled : TriggerStage[c] = calls[i].to /\ ~Active(calls[i].lead, c)}
<1>1. PICK list \in SetToSeqs(new) : Set(i, [calls[i] EXCEPT !.pc = "find", !.todo = list])
  BY DEF EnrolByStage
<1>2. new \subseteq Cadences /\ IsFiniteSet(new)
  <2>1. new \subseteq Cadences
    BY DEF FunnelOK, CadenceOK
  <2> QED BY <2>1, FS_Subset, ConstantFacts
<1> HIDE DEF new
<1>3. list \in Seq(Cadences)
  <2>1. list \in Seq(new)
    BY <1>1, <1>2, InSomeOrder
  <2> QED BY <1>2, <2>1, SeqMonotonic
<1>4. list \in Todos
  BY <1>3, TodosFacts
<1> PICK q : q = calls[i]
  OBVIOUS
<1> PICK r : r = [q EXCEPT !.pc = "find", !.todo = list]
  OBVIOUS
<1>5. q \in Call /\ Sound(q, Len(enrolled), Len(moves)) /\ q.pc = "enrol"
  BY CallOf DEF EnrolByStage
<1>6. /\ r \in Call /\ r.pc = "find" /\ r.then = q.then /\ r.lead = q.lead
      /\ r.seen = q.seen /\ r.todo = list /\ r.move = q.move
  BY <1>4, <1>5 DEF Call, Pcs
<1>7. Sound(r, Len(enrolled), Len(moves))
  BY <1>3, <1>5, <1>6 DEF Sound
<1>8. Set(i, r) /\ UNCHANGED cadenceVars /\ UNCHANGED <<faults, world>>
  BY <1>1 DEF EnrolByStage
<1> QED BY <1>6, <1>7, <1>8, OnlyCall

LEMMA FindActiveOK ==
  ASSUME FunnelOK, NEW i \in Instances, FindActive(i), UNCHANGED stockVars
  PROVE  FunnelOK'
<1> PICK q : q = calls[i]
  OBVIOUS
<1>1. q \in Call /\ Sound(q, Len(enrolled), Len(moves)) /\ q.pc = "find"
  BY CallOf DEF FindActive
<1>2. UNCHANGED cadenceVars /\ UNCHANGED <<faults, world>>
  BY DEF FindActive
<1>3. q.todo \in Seq(Cadences) /\ q.lead \in Leads
  BY <1>1 DEF Sound
<1>4. CASE q.todo = <<>>
  BY <1>1, <1>2, <1>4, OnlyFinish DEF FindActive
<1>5. CASE q.todo # <<>> /\ NextOf(i)
  <2> PICK t : t = Tail(q.todo)
    OBVIOUS
  <2>1. t \in Seq(Cadences) /\ t \in Todos
    BY <1>3, <1>5, Shorter, TodosFacts
  <2> PICK r : r = [q EXCEPT !.todo = t]
    OBVIOUS
  <2>2. /\ r \in Call /\ r.pc = "find" /\ r.then = q.then /\ r.lead = q.lead
        /\ r.seen = q.seen /\ r.todo = t /\ r.move = q.move
    BY <1>1, <2>1 DEF Call
  <2>3. Sound(r, Len(enrolled), Len(moves))
    BY <1>1, <2>1, <2>2 DEF Sound
  <2>4. Set(i, r)
    BY <1>5 DEF NextOf
  <2> QED BY <1>2, <2>2, <2>3, <2>4, OnlyCall
<1>6. CASE q.todo # <<>> /\ Goto(i, "insert")
  <2> PICK r : r = [q EXCEPT !.pc = "insert"]
    OBVIOUS
  <2>2. /\ r \in Call /\ r.pc = "insert" /\ r.then = q.then /\ r.lead = q.lead
        /\ r.seen = q.seen /\ r.todo = q.todo /\ r.move = q.move
    BY <1>1 DEF Call, Pcs
  <2>3. Sound(r, Len(enrolled), Len(moves))
    BY <1>1, <1>6, <2>2 DEF Sound
  <2>4. Set(i, r)
    BY <1>6 DEF Goto
  <2> QED BY <1>2, <2>2, <2>3, <2>4, OnlyCall
<1> QED BY <1>4, <1>5, <1>6 DEF FindActive

LEMMA InsertEnrolmentOK ==
  ASSUME FunnelOK, NEW i \in Instances, InsertEnrolment(i), UNCHANGED stockVars
  PROVE  FunnelOK'
<1> PICK q : q = calls[i]
  OBVIOUS
<1> PICK c, t : c = Head(q.todo) /\ t = Tail(q.todo)
  OBVIOUS
<1>1. q \in Call /\ Sound(q, Len(enrolled), Len(moves)) /\ q.pc = "insert"
  BY CallOf DEF InsertEnrolment
<1>2. q.todo \in Seq(Cadences) /\ q.todo # <<>> /\ q.lead \in Leads
  BY <1>1 DEF Sound
<1>3. c \in Cadences /\ t \in Seq(Cadences) /\ t \in Todos
  BY <1>2, Shorter, TodosFacts
<1> PICK r : r = [q EXCEPT !.pc = "find", !.todo = t]
  OBVIOUS
<1>4. /\ r \in Call /\ r.pc = "find" /\ r.then = q.then /\ r.lead = q.lead
      /\ r.seen = q.seen /\ r.todo = t /\ r.move = q.move
  BY <1>1, <1>3 DEF Call, Pcs
<1>5. Sound(r, Len(enrolled), Len(moves))
  BY <1>1, <1>3, <1>4 DEF Sound
<1> PICK row : row = [lead |-> q.lead, cadence |-> c, step |-> 0,
                      status |-> IF Steps[c] # <<>> THEN "active" ELSE "done",
                      at |-> NextFire(c, 0)]
  OBVIOUS
<1>6. NextFire(c, 0) \in Nat
  BY <1>3, NextFireType
<1>7. row \in Enrolment
  BY <1>2, <1>3, <1>6 DEF Enrolment
<1>8. enrolled' = Append(enrolled, row) /\ fired' = Append(fired, <<>>)
  BY DEF InsertEnrolment
<1>9. CadenceOK' /\ Len(enrolled') = Len(enrolled) + 1
  <2>1. <<>> \in Seq(Nat) /\ UNCHANGED <<enabled, today>>
    BY DEF InsertEnrolment
  <2> QED BY <1>7, <1>8, <2>1, AppendProperties DEF FunnelOK, CadenceOK
<1>10. StockOK' /\ Len(moves') = Len(moves)
  BY StockStays
<1>11. CallsOK'
  <2>1. Sound(r, Len(enrolled'), Len(moves'))
    BY <1>5, <1>9, <1>10, Lengths, SoundGrows
  <2>2. Set(i, r) /\ UNCHANGED <<faults, world>>
    BY DEF InsertEnrolment
  <2>3. faults' \in 0 .. MaxFaults
    BY <2>2 DEF FunnelOK, CallsOK
  <2> QED BY <1>4, <1>9, <1>10, <2>1, <2>2, <2>3, Lengths, CallStep
<1> QED BY <1>9, <1>10, <1>11 DEF FunnelOK

LEMMA Finitely == ASSUME FunnelOK PROVE IsFiniteSet(Due) /\ Due \subseteq DOMAIN enrolled
<1>1. DOMAIN enrolled = 1 .. Len(enrolled) /\ Len(enrolled) \in Nat
  BY Lengths
<1>2. IsFiniteSet(1 .. Len(enrolled))
  BY <1>1, FS_Interval
<1> QED BY <1>1, <1>2, FS_Subset DEF Due

\* A batch is a list of due enrolments, without a repetition, and not empty.
LEMMA BatchFacts ==
  ASSUME FunnelOK, NEW list \in Batches, Due # {}
  PROVE  list \in Seq(Due) /\ list # <<>>
<1>1. PICK s \in SetToSeqs(Due) :
        list = SubSeq(s, 1, IF Len(s) < Limit THEN Len(s) ELSE Limit)
  BY DEF Batches
<1>2. s \in Seq(Due) /\ s # <<>>
  BY Finitely, InSomeOrder
<1>3. Len(s) \in Nat \ {0}
  BY <1>2
<1> PICK n : n = IF Len(s) < Limit THEN Len(s) ELSE Limit
  OBVIOUS
<1>4. n \in 1 .. Len(s)
  BY <1>3, ConstantFacts
<1>5. SubSeq(s, 1, n) \in Seq(Due) /\ Len(SubSeq(s, 1, n)) = n
  BY <1>2, <1>3, <1>4
<1> QED BY <1>1, <1>4, <1>5

LEMMA StartCronOK ==
  ASSUME FunnelOK, NEW i \in Instances, StartCron(i), UNCHANGED stockVars
  PROVE  FunnelOK'
<1>1. PICK list \in Batches : Accept(i, [Idle EXCEPT !.pc = "next", !.todo = list])
  BY DEF StartCron
<1>2. list \in Seq(1 .. Len(enrolled))
  <2>1. list \in Seq(Due) /\ Due \subseteq 1 .. Len(enrolled)
    BY BatchFacts, Finitely, Lengths DEF StartCron
  <2> QED BY <2>1, SeqMonotonic
<1>3. list \in Todos
  BY <1>2, Lengths, TodosFacts
<1> PICK r : r = [Idle EXCEPT !.pc = "next", !.todo = list]
  OBVIOUS
<1>4. /\ r \in Call /\ r.pc = "next" /\ r.then = <<>>
      /\ r.todo = list /\ r.move = 0
  BY <1>3, IdleFields DEF Call, Pcs
<1>5. Sound(r, Len(enrolled), Len(moves))
  BY <1>2, <1>4, Lengths DEF Sound
<1>6. Set(i, r) /\ UNCHANGED cadenceVars /\ UNCHANGED <<faults, world>>
  BY <1>1 DEF StartCron, Accept, Set
<1> QED BY <1>4, <1>5, <1>6, OnlyCall

LEMMA ReadEnrolmentOK ==
  ASSUME FunnelOK, NEW i \in Instances, ReadEnrolment(i), UNCHANGED stockVars
  PROVE  FunnelOK'
<1> PICK q : q = calls[i]
  OBVIOUS
<1>1. q \in Call /\ Sound(q, Len(enrolled), Len(moves)) /\ q.pc = "next"
  BY CallOf DEF ReadEnrolment
<1>2. UNCHANGED cadenceVars /\ UNCHANGED <<faults, world>>
  BY DEF ReadEnrolment
<1>3. q.todo \in Seq(1 .. Len(enrolled))
  BY <1>1 DEF Sound
<1>4. CASE q.todo = <<>>
  BY <1>1, <1>2, <1>4, OnlyFinish DEF ReadEnrolment
<1>5. CASE q.todo # <<>> /\ NextOf(i)
  <2> PICK t : t = Tail(q.todo)
    OBVIOUS
  <2>1. t \in Seq(1 .. Len(enrolled)) /\ t \in Todos
    BY <1>3, <1>5, Shorter, TodosFacts, Lengths
  <2> PICK r : r = [q EXCEPT !.todo = t]
    OBVIOUS
  <2>2. /\ r \in Call /\ r.pc = "next" /\ r.then = q.then /\ r.lead = q.lead
        /\ r.seen = q.seen /\ r.todo = t /\ r.move = q.move
    BY <1>1, <2>1 DEF Call
  <2>3. Sound(r, Len(enrolled), Len(moves))
    BY <1>1, <2>1, <2>2 DEF Sound
  <2>4. Set(i, r)
    BY <1>5 DEF NextOf
  <2> QED BY <1>2, <2>2, <2>3, <2>4, OnlyCall
<1>6. CASE q.todo # <<>> /\ Set(i, [q EXCEPT !.pc = "fire", !.step = enrolled[Head(q.todo)].step])
  <2> PICK n : n = enrolled[Head(q.todo)].step
    OBVIOUS
  <2>1. n \in Nat
    <3>1. Head(q.todo) \in 1 .. Len(enrolled)
      BY <1>3, <1>6, Shorter, Lengths
    <3>2. enrolled[Head(q.todo)] \in Enrolment
      BY <3>1, ElementOfSeq DEF FunnelOK, CadenceOK
    <3> QED BY <3>2 DEF Enrolment
  <2> PICK r : r = [q EXCEPT !.pc = "fire", !.step = n]
    OBVIOUS
  <2>2. /\ r \in Call /\ r.pc = "fire" /\ r.then = q.then /\ r.lead = q.lead
        /\ r.seen = q.seen /\ r.todo = q.todo /\ r.move = q.move
    BY <1>1, <2>1 DEF Call, Pcs
  <2>3. Sound(r, Len(enrolled), Len(moves))
    BY <1>1, <1>6, <2>2 DEF Sound
  <2>4. Set(i, r)
    BY <1>6
  <2> QED BY <1>2, <2>2, <2>3, <2>4, OnlyCall
<1> QED BY <1>4, <1>5, <1>6 DEF ReadEnrolment

LEMMA FireStepOK ==
  ASSUME FunnelOK, NEW i \in Instances, FireStep(i), UNCHANGED stockVars
  PROVE  FunnelOK'
<1> PICK q : q = calls[i]
  OBVIOUS
<1> PICK e : e = Head(q.todo)
  OBVIOUS
<1>1. q \in Call /\ Sound(q, Len(enrolled), Len(moves)) /\ q.pc = "fire"
  BY CallOf DEF FireStep
<1>2. e \in 1 .. Len(enrolled) /\ q.step \in Nat
  <2>1. q.todo \in Seq(1 .. Len(enrolled)) /\ q.todo # <<>>
    BY <1>1 DEF Sound
  <2> QED BY <1>1, <2>1, Shorter, Lengths DEF Call
<1>3. CadenceOK' /\ Len(enrolled') = Len(enrolled)
  <2> PICK a : a = Append(fired[e], q.step)
    OBVIOUS
  <2>1. fired[e] \in Seq(Nat) /\ fired \in Seq(Seq(Nat)) /\ Len(fired) = Len(enrolled)
    BY <1>2, ElementOfSeq DEF FunnelOK, CadenceOK
  <2>2. a \in Seq(Nat)
    BY <1>2, <2>1, AppendProperties
  <2>3. fired' = fired \/ fired' = [fired EXCEPT ![e] = a]
    BY DEF FireStep
  <2>4. fired' \in Seq(Seq(Nat)) /\ Len(fired') = Len(fired)
    <3>1. CASE fired' = fired
      BY <2>1, <3>1
    <3>2. CASE fired' = [fired EXCEPT ![e] = a]
      BY <1>2, <2>1, <2>2, <3>2, ExceptSeq
    <3> QED BY <2>3, <3>1, <3>2
  <2>5. UNCHANGED <<enrolled, enabled, today>>
    BY DEF FireStep
  <2> QED BY <2>1, <2>4, <2>5 DEF FunnelOK, CadenceOK
<1>4. StockOK' /\ Len(moves') = Len(moves)
  BY StockStays
<1> PICK r : r = [q EXCEPT !.pc = "advance"]
  OBVIOUS
<1>5. /\ r \in Call /\ r.pc = "advance" /\ r.then = q.then /\ r.lead = q.lead
      /\ r.seen = q.seen /\ r.todo = q.todo /\ r.move = q.move
  BY <1>1 DEF Call, Pcs
<1>6. Sound(r, Len(enrolled'), Len(moves'))
  BY <1>1, <1>3, <1>4, <1>5 DEF Sound
<1>7. Set(i, r) /\ UNCHANGED <<faults, world>> /\ faults' \in 0 .. MaxFaults
  BY DEF FireStep, Goto, FunnelOK, CallsOK
<1>8. CallsOK'
  BY <1>3, <1>4, <1>5, <1>6, <1>7, Lengths, CallStep
<1> QED BY <1>3, <1>4, <1>8 DEF FunnelOK

LEMMA AdvanceOK ==
  ASSUME FunnelOK, NEW i \in Instances, Advance(i), UNCHANGED stockVars
  PROVE  FunnelOK'
<1> PICK q : q = calls[i]
  OBVIOUS
<1> PICK e, t, next : e = Head(q.todo) /\ t = Tail(q.todo) /\ next = q.step + 1
  OBVIOUS
<1>1. q \in Call /\ Sound(q, Len(enrolled), Len(moves)) /\ q.pc = "advance"
  BY CallOf DEF Advance
<1>2. /\ e \in 1 .. Len(enrolled) /\ next \in Nat
      /\ t \in Seq(1 .. Len(enrolled)) /\ t \in Todos
  <2>1. q.todo \in Seq(1 .. Len(enrolled)) /\ q.todo # <<>>
    BY <1>1 DEF Sound
  <2>2. q.step \in Nat
    BY <1>1 DEF Call
  <2>3. e \in 1 .. Len(enrolled) /\ t \in Seq(1 .. Len(enrolled))
    BY <2>1, Shorter, Lengths
  <2> QED BY <2>2, <2>3, TodosFacts, Lengths
<1>3. CadenceOK' /\ Len(enrolled') = Len(enrolled)
  <2> PICK row : row = enrolled[e]
    OBVIOUS
  <2> PICK c, at, status : /\ c = row.cadence /\ at = NextFire(c, next)
                           /\ status = IF next < Len(Steps[c]) THEN "active" ELSE "done"
    OBVIOUS
  <2>1. row \in Enrolment
    BY <1>2, ElementOfSeq DEF FunnelOK, CadenceOK
  <2>2. c \in Cadences
    BY <2>1 DEF Enrolment
  <2>3. at \in Nat /\ status \in {"active", "done"}
    BY <1>2, <2>2, NextFireType
  <2> PICK new : new = [row EXCEPT !.step = next, !.at = at, !.status = status]
    OBVIOUS
  <2>4. new \in Enrolment
    BY <1>2, <2>1, <2>3 DEF Enrolment
  <2>5. enrolled' = [enrolled EXCEPT ![e].step = next, ![e].at = at, ![e].status = status]
    BY DEF Advance
  <2>6. enrolled' = [enrolled EXCEPT ![e] = new]
    BY <2>5
  <2>7. enrolled' \in Seq(Enrolment) /\ Len(enrolled') = Len(enrolled)
    <3>1. enrolled \in Seq(Enrolment)
      BY DEF FunnelOK, CadenceOK
    <3> QED BY <1>2, <2>4, <2>6, <3>1, ExceptSeq
  <2>8. UNCHANGED <<fired, enabled, today>>
    BY DEF Advance
  <2> QED BY <2>7, <2>8 DEF FunnelOK, CadenceOK
<1>4. StockOK' /\ Len(moves') = Len(moves)
  BY StockStays
<1> PICK r : r = [q EXCEPT !.pc = "next", !.todo = t]
  OBVIOUS
<1>5. /\ r \in Call /\ r.pc = "next" /\ r.then = q.then /\ r.lead = q.lead
      /\ r.seen = q.seen /\ r.todo = t /\ r.move = q.move
  BY <1>1, <1>2 DEF Call, Pcs
<1>6. Sound(r, Len(enrolled'), Len(moves'))
  BY <1>1, <1>2, <1>3, <1>4, <1>5 DEF Sound
<1>7. Set(i, r) /\ UNCHANGED <<faults, world>> /\ faults' \in 0 .. MaxFaults
  BY DEF Advance, FunnelOK, CallsOK
<1>8. CallsOK'
  BY <1>3, <1>4, <1>5, <1>6, <1>7, Lengths, CallStep
<1> QED BY <1>3, <1>4, <1>8 DEF FunnelOK

LEMMA ArriveReplyOK ==
  ASSUME FunnelOK, NEW i \in Instances, NEW l \in Leads, ArriveReply(i, l),
         UNCHANGED stockVars
  PROVE  FunnelOK'
<1> PICK active : active = {e \in DOMAIN enrolled :
                             enrolled[e].lead = l /\ enrolled[e].status = "active"}
  OBVIOUS
<1>1. PICK list \in SetToSeqs(active) :
        Accept(i, [Idle EXCEPT !.pc = "stop", !.lead = l, !.todo = list])
  BY DEF ArriveReply
<1>2. active # {} /\ active \subseteq 1 .. Len(enrolled) /\ IsFiniteSet(active)
  <2>1. active # {} /\ active \subseteq 1 .. Len(enrolled)
    BY Lengths DEF ArriveReply
  <2>2. IsFiniteSet(1 .. Len(enrolled))
    BY Lengths, FS_Interval
  <2> QED BY <2>1, <2>2, FS_Subset
<1>3. list \in Seq(1 .. Len(enrolled)) /\ list # <<>>
  <2>1. list \in Seq(active) /\ list # <<>>
    BY <1>1, <1>2, InSomeOrder
  <2> QED BY <1>2, <2>1, SeqMonotonic
<1>4. list \in Todos
  BY <1>3, Lengths, TodosFacts
<1> PICK r : r = [Idle EXCEPT !.pc = "stop", !.lead = l, !.todo = list]
  OBVIOUS
<1>5. /\ r \in Call /\ r.pc = "stop" /\ r.then = <<>> /\ r.lead = l
      /\ r.todo = list /\ r.move = 0
  BY <1>4, IdleFields DEF Call, Pcs
<1>6. Sound(r, Len(enrolled), Len(moves))
  BY <1>3, <1>5, Lengths DEF Sound
<1>7. Set(i, r) /\ UNCHANGED cadenceVars /\ UNCHANGED <<faults, world>>
  BY <1>1 DEF ArriveReply, Accept, Set
<1> QED BY <1>5, <1>6, <1>7, OnlyCall

\* Cancelling an enrolment of the table keeps its type and its length.
LEMMA CancelledOK ==
  ASSUME FunnelOK, NEW e \in 1 .. Len(enrolled), enrolled' = Cancelled(e),
         UNCHANGED <<enabled, today, fired>>
  PROVE  CadenceOK' /\ Len(enrolled') = Len(enrolled)
<1> PICK row : row = enrolled[e]
  OBVIOUS
<1>1. row \in Enrolment
  BY ElementOfSeq DEF FunnelOK, CadenceOK
<1> PICK new : new = [row EXCEPT !.status = "cancelled", !.at = Never]
  OBVIOUS
<1>2. Never \in Nat
  BY ConstantFacts DEF Never
<1>3. new \in Enrolment
  BY <1>1, <1>2 DEF Enrolment
<1>4. enrolled' = [enrolled EXCEPT ![e] = new]
  BY DEF Cancelled
<1>5. enrolled' \in Seq(Enrolment) /\ Len(enrolled') = Len(enrolled)
  BY <1>3, <1>4, ExceptSeq DEF FunnelOK, CadenceOK
<1> QED BY <1>5 DEF FunnelOK, CadenceOK

LEMMA StopOneOK ==
  ASSUME FunnelOK, NEW i \in Instances, StopOne(i), UNCHANGED stockVars
  PROVE  FunnelOK'
<1> PICK q : q = calls[i]
  OBVIOUS
<1>1. q \in Call /\ Sound(q, Len(enrolled), Len(moves)) /\ q.pc = "stop"
  BY CallOf DEF StopOne
<1>2. q.todo \in Seq(1 .. Len(enrolled)) /\ q.todo # <<>> /\ q.lead \in Leads
  BY <1>1 DEF Sound
<1>3. CadenceOK' /\ Len(enrolled') = Len(enrolled)
  <2>1. Head(q.todo) \in 1 .. Len(enrolled)
    BY <1>2, Shorter, Lengths
  <2> QED BY <2>1, CancelledOK DEF StopOne
<1>4. StockOK' /\ Len(moves') = Len(moves)
  BY StockStays
<1>5. UNCHANGED <<faults, world>> /\ faults' \in 0 .. MaxFaults
  BY DEF StopOne, FunnelOK, CallsOK
<1>6. CASE Finish(i)
  BY <1>1, <1>3, <1>4, <1>5, <1>6, FinishStep DEF FunnelOK
<1>7. CASE Len(q.todo) > 1 /\ NextOf(i)
  <2> PICK t : t = Tail(q.todo)
    OBVIOUS
  <2>1. t \in Seq(1 .. Len(enrolled)) /\ t # <<>>
    BY <1>2, <1>7, SomeLeft
  <2>2. t \in Todos
    BY <2>1, TodosFacts, Lengths
  <2> PICK r : r = [q EXCEPT !.todo = t]
    OBVIOUS
  <2>3. /\ r \in Call /\ r.pc = "stop" /\ r.then = q.then /\ r.lead = q.lead
        /\ r.seen = q.seen /\ r.todo = t /\ r.move = q.move
    BY <1>1, <2>2 DEF Call
  <2>4. Sound(r, Len(enrolled'), Len(moves'))
    BY <1>1, <1>3, <1>4, <2>1, <2>3 DEF Sound
  <2>5. Set(i, r)
    BY <1>7 DEF NextOf
  <2>6. CallsOK'
    BY <1>3, <1>4, <1>5, <2>3, <2>4, <2>5, Lengths, CallStep
  <2> QED BY <1>3, <1>4, <2>6 DEF FunnelOK
<1> QED BY <1>6, <1>7 DEF StopOne

----------------------------------------------------------------------------
(* The calls of the stock keep their types.                                *)

LEMMA Renamed ==
  ASSUME NEW q \in Call, NEW p \in Pcs, NEW r, r = [q EXCEPT !.pc = p]
  PROVE  /\ r \in Call /\ r.pc = p /\ r.then = q.then /\ r.lead = q.lead
         /\ r.from = q.from /\ r.to = q.to /\ r.todo = q.todo /\ r.seen = q.seen
         /\ r.held = q.held /\ r.step = q.step /\ r.move = q.move
  BY DEF Call

LEMMA SyncOK ==
  ASSUME FunnelOK, NEW i \in Instances, Sync(i), UNCHANGED cadenceVars
  PROVE  FunnelOK'
<1> PICK q : q = calls[i]
  OBVIOUS
<1>1. q \in Call /\ Sound(q, Len(enrolled), Len(moves)) /\ q.pc = "sync"
  BY CallOf DEF Sync
<1>2. UNCHANGED stockVars /\ UNCHANGED <<faults, world>>
  BY DEF Sync
<1>3. CASE Finish(i)
  BY <1>1, <1>2, <1>3, OnlyFinish
<1>4. ASSUME NEW p \in {"consume", "restore"}, Goto(i, p)
      PROVE  FunnelOK'
  <2> PICK r : r = [q EXCEPT !.pc = p]
    OBVIOUS
  <2>1. p \in Pcs
    BY DEF Pcs
  <2>2. /\ r \in Call /\ r.pc = p /\ r.then = q.then /\ r.lead = q.lead
        /\ r.seen = q.seen /\ r.move = q.move
    BY <1>1, <2>1, Renamed
  <2>3. Sound(r, Len(enrolled), Len(moves))
    BY <1>1, <2>2 DEF Sound
  <2>4. Set(i, r)
    BY <1>4 DEF Goto
  <2> QED BY <1>2, <2>2, <2>3, <2>4, OnlyCall
<1> QED BY <1>3, <1>4 DEF Sync

\* A list of one line, of an item there is.
LEMMA OneLine ==
  ASSUME NEW item \in Items, NEW n \in Int
  PROVE  <<Line(item, n)>> \in Seq(StockLine) /\ <<Line(item, n)>> \in Todos
         /\ <<Line(item, n)>> # <<>>
<1>1. Line(item, n) \in StockLine
  BY DEF Line, StockLine
<1>2. <<Line(item, n)>> \in Seq(StockLine)
  BY <1>1
<1> QED BY <1>2, TodosFacts

\* The item of a product, of those that have one.
LEMMA ItemType ==
  ASSUME FunnelOK, NEW p \in Products \union {NoProduct}
  PROVE  ItemOf(p) \in Items \union {NoItem}
  BY DEF FunnelOK, StockOK, ItemOf

LEMMA ConsumeOK ==
  ASSUME FunnelOK, NEW i \in Instances, Consume(i), UNCHANGED cadenceVars
  PROVE  FunnelOK'
<1> PICK q : q = calls[i]
  OBVIOUS
<1>1. q \in Call /\ Sound(q, Len(enrolled), Len(moves)) /\ q.pc = "consume"
  BY CallOf DEF Consume
<1>2. UNCHANGED stockVars /\ UNCHANGED <<faults, world>>
  BY DEF Consume
<1>3. q.seen \in LeadRow(Len(moves)) /\ q.lead \in Leads
  BY <1>1 DEF Sound
<1> PICK item, n : item = ItemOf(q.seen.product) /\ n = IF q.seen.need > 1 THEN q.seen.need ELSE 1
  OBVIOUS
<1>4. item \in Items \union {NoItem} /\ -n \in Int
  BY <1>3, ItemType DEF LeadRow
<1>5. CASE Finish(i)
  BY <1>1, <1>2, <1>5, OnlyFinish
<1>6. CASE item # NoItem /\ Set(i, [q EXCEPT !.pc = "read", !.todo = <<Line(item, -n)>>])
  <2> PICK t : t = <<Line(item, -n)>>
    OBVIOUS
  <2>1. t \in Seq(StockLine) /\ t \in Todos /\ t # <<>>
    BY <1>4, <1>6, OneLine
  <2> PICK r : r = [q EXCEPT !.pc = "read", !.todo = t]
    OBVIOUS
  <2>2. "read" \in Pcs
    BY DEF Pcs
  <2>3. /\ r \in Call /\ r.pc = "read" /\ r.then = q.then /\ r.lead = q.lead
        /\ r.todo = t /\ r.seen = q.seen /\ r.move = q.move
    BY <1>1, <2>1, <2>2 DEF Call
  <2>4. Sound(r, Len(enrolled), Len(moves))
    BY <1>1, <2>1, <2>3 DEF Sound
  <2>5. Set(i, r)
    BY <1>6
  <2> QED BY <1>2, <2>3, <2>4, <2>5, OnlyCall
<1> QED BY <1>5, <1>6 DEF Consume

LEMMA MoveOf ==
  ASSUME FunnelOK, NEW k \in 1 .. Len(moves)
  PROVE  moves[k].item \in Items /\ moves[k].change \in Int
         /\ moves[k].lead \in Leads \union {NoLead}
<1>1. moves[k] \in Move
  BY ElementOfSeq DEF FunnelOK, StockOK
<1> QED BY <1>1 DEF Move

LEMMA RestoreOK ==
  ASSUME FunnelOK, NEW i \in Instances, Restore(i), UNCHANGED cadenceVars
  PROVE  FunnelOK'
<1> PICK q : q = calls[i]
  OBVIOUS
<1> PICK k : k = q.seen.anchor
  OBVIOUS
<1>1. q \in Call /\ Sound(q, Len(enrolled), Len(moves)) /\ q.pc = "restore"
  BY CallOf DEF Restore
<1>2. UNCHANGED <<lead, linked, qty, moves, torn>> /\ UNCHANGED <<faults, world>>
  BY DEF Restore
<1>3. k \in 0 .. Len(moves) /\ q.lead \in Leads
  BY <1>1 DEF Sound, LeadRow
<1>4. StockOK' /\ Len(moves') = Len(moves)
  <2>1. gone' \subseteq 1 .. Len(moves)
    BY <1>3, Lengths DEF Restore, FunnelOK, StockOK
  <2> QED BY <1>2, <2>1 DEF FunnelOK, StockOK
<1>5. CadenceOK' /\ Len(enrolled') = Len(enrolled)
  BY CadenceStays
<1>6. faults' \in 0 .. MaxFaults
  BY <1>2 DEF FunnelOK, CallsOK
<1>7. CASE Finish(i)
  BY <1>1, <1>2, <1>4, <1>5, <1>6, <1>7, FinishStep DEF FunnelOK
<1>8. CASE Goto(i, "anchor")
  <2> PICK r : r = [q EXCEPT !.pc = "anchor"]
    OBVIOUS
  <2>1. "anchor" \in Pcs
    BY DEF Pcs
  <2>2. /\ r \in Call /\ r.pc = "anchor" /\ r.then = q.then /\ r.lead = q.lead
        /\ r.seen = q.seen /\ r.move = q.move
    BY <1>1, <2>1, Renamed
  <2>3. Sound(r, Len(enrolled'), Len(moves'))
    BY <1>1, <1>4, <1>5, <2>2 DEF Sound
  <2>4. Set(i, r)
    BY <1>8 DEF Goto
  <2>5. CallsOK'
    BY <1>2, <1>4, <1>5, <1>6, <2>2, <2>3, <2>4, Lengths, CallStep
  <2> QED BY <1>4, <1>5, <2>5 DEF FunnelOK
<1>9. CASE k # 0 /\ Set(i, [q EXCEPT !.pc = "read",
                                     !.todo = <<Line(moves[k].item, -moves[k].change)>>])
  <2> PICK t : t = <<Line(moves[k].item, -moves[k].change)>>
    OBVIOUS
  <2>1. moves[k].item \in Items /\ -moves[k].change \in Int
    BY <1>3, <1>9, MoveOf, Lengths
  <2>2. t \in Seq(StockLine) /\ t \in Todos /\ t # <<>>
    BY <2>1, OneLine
  <2> PICK r : r = [q EXCEPT !.pc = "read", !.todo = t]
    OBVIOUS
  <2>3. "read" \in Pcs
    BY DEF Pcs
  <2>4. /\ r \in Call /\ r.pc = "read" /\ r.then = q.then /\ r.lead = q.lead
        /\ r.todo = t /\ r.seen = q.seen /\ r.move = q.move
    BY <1>1, <2>2, <2>3 DEF Call
  <2>5. Sound(r, Len(enrolled'), Len(moves'))
    BY <1>1, <1>4, <1>5, <2>2, <2>4 DEF Sound
  <2>6. Set(i, r)
    BY <1>9
  <2>7. CallsOK'
    BY <1>2, <1>4, <1>5, <1>6, <2>4, <2>5, <2>6, Lengths, CallStep
  <2> QED BY <1>4, <1>5, <2>7 DEF FunnelOK
<1> QED BY <1>7, <1>8, <1>9 DEF Restore

LEMMA ArriveMovementOK ==
  ASSUME FunnelOK, NEW i \in Instances, NEW lines \in world.lines,
         ArriveMovement(i, lines), UNCHANGED cadenceVars
  PROVE  FunnelOK'
<1>1. lines \in Seq(StockLine) /\ lines # <<>>
  BY WorldFacts DEF FunnelOK, CallsOK
<1>2. lines \in Todos
  BY <1>1, TodosFacts
<1> PICK r : r = [Idle EXCEPT !.pc = "read", !.todo = lines]
  OBVIOUS
<1>3. "read" \in Pcs
  BY DEF Pcs
<1>4. /\ r \in Call /\ r.pc = "read" /\ r.then = <<>> /\ r.todo = lines /\ r.move = 0
  BY <1>2, <1>3, IdleFields DEF Call
<1>5. Sound(r, Len(enrolled), Len(moves))
  BY <1>1, <1>4, Lengths DEF Sound
<1>6. Set(i, r) /\ UNCHANGED stockVars /\ UNCHANGED <<faults, world>>
  BY DEF ArriveMovement, Accept, Set
<1> QED BY <1>4, <1>5, <1>6, OnlyCall

LEMMA ReadItemsOK ==
  ASSUME FunnelOK, NEW i \in Instances, ReadItems(i), UNCHANGED cadenceVars
  PROVE  FunnelOK'
<1> PICK q : q = calls[i]
  OBVIOUS
<1>1. q \in Call /\ Sound(q, Len(enrolled), Len(moves)) /\ q.pc = "read"
  BY CallOf DEF ReadItems
<1>2. UNCHANGED stockVars /\ UNCHANGED <<faults, world>>
  BY DEF ReadItems
<1>3. CASE Finish(i)
  BY <1>1, <1>2, <1>3, OnlyFinish
<1>4. CASE Set(i, [q EXCEPT !.pc = "move", !.held = qty])
  <2> PICK h : h = qty
    OBVIOUS
  <2>1. h \in [Items -> Int]
    BY DEF FunnelOK, StockOK
  <2> PICK r : r = [q EXCEPT !.pc = "move", !.held = h]
    OBVIOUS
  <2>2. /\ r \in Call /\ r.pc = "move" /\ r.then = q.then /\ r.lead = q.lead
        /\ r.todo = q.todo /\ r.seen = q.seen /\ r.move = q.move /\ r.held = h
    BY <1>1, <2>1 DEF Call, Pcs
  <2>3. Sound(r, Len(enrolled), Len(moves))
    BY <1>1, <2>1, <2>2 DEF Sound
  <2>4. Set(i, r)
    BY <1>4
  <2> QED BY <1>2, <2>2, <2>3, <2>4, OnlyCall
<1> QED BY <1>3, <1>4 DEF ReadItems

LEMMA RowsGrow ==
  ASSUME NEW m \in Nat, NEW n \in Nat, m <= n, NEW f \in [Leads -> LeadRow(m)]
  PROVE  f \in [Leads -> LeadRow(n)]
<1>1. ASSUME NEW x \in LeadRow(m)
      PROVE  x \in LeadRow(n)
  BY <1>1 DEF LeadRow
<1> QED BY <1>1

LEMMA InsertMoveOK ==
  ASSUME FunnelOK, NEW i \in Instances, InsertMove(i), UNCHANGED cadenceVars
  PROVE  FunnelOK'
<1> PICK q : q = calls[i]
  OBVIOUS
<1> PICK line, m : line = Head(q.todo) /\ m = Len(moves)
  OBVIOUS
<1>1. q \in Call /\ Sound(q, Len(enrolled), Len(moves)) /\ q.pc = "move"
  BY CallOf DEF InsertMove
<1>2. line \in StockLine
  BY <1>1, Shorter DEF Sound
<1>3. m \in Nat
  BY Lengths
<1>4. UNCHANGED <<lead, linked, qty, torn, gone>> /\ UNCHANGED <<faults, world>>
  BY DEF InsertMove
<1>5. StockOK' /\ Len(moves') = m + 1
  <2> PICK row : row = [item |-> line.item, change |-> line.change, lead |-> q.lead]
    OBVIOUS
  <2>1. row \in Move
    BY <1>1, <1>2 DEF Move, StockLine, Call
  <2>2. moves' = Append(moves, row)
    BY DEF InsertMove
  <2>3. moves' \in Seq(Move) /\ Len(moves') = m + 1
    BY <2>1, <2>2, AppendProperties DEF FunnelOK, StockOK
  <2>4. lead' \in [Leads -> LeadRow(m + 1)]
    BY <1>3, <1>4, RowsGrow DEF FunnelOK, StockOK
  <2>5. gone' \subseteq 1 .. m + 1
    BY <1>3, <1>4 DEF FunnelOK, StockOK
  <2> QED BY <1>4, <2>3, <2>4, <2>5 DEF FunnelOK, StockOK
<1>6. CadenceOK' /\ Len(enrolled') = Len(enrolled)
  BY CadenceStays
<1> PICK r : r = [q EXCEPT !.pc = "write", !.move = m + 1]
  OBVIOUS
<1>7. /\ r \in Call /\ r.pc = "write" /\ r.then = q.then /\ r.lead = q.lead
      /\ r.todo = q.todo /\ r.seen = q.seen /\ r.move = m + 1 /\ r.held = q.held
  <2>1. m + 1 \in Nat /\ "write" \in Pcs
    BY <1>3 DEF Pcs
  <2> QED BY <1>1, <2>1 DEF Call
<1>8. Sound(r, Len(enrolled'), Len(moves'))
  <2>1. q.seen \in LeadRow(m) => q.seen \in LeadRow(m + 1)
    BY <1>3 DEF LeadRow
  <2>2. r.move \in 0 .. m + 1
    BY <1>3, <1>7
  <2> QED BY <1>1, <1>5, <1>6, <1>7, <2>1, <2>2 DEF Sound
<1>9. CallsOK'
  <2>1. Set(i, r)
    BY DEF InsertMove
  <2>2. faults' \in 0 .. MaxFaults
    BY <1>4 DEF FunnelOK, CallsOK
  <2> QED BY <1>3, <1>4, <1>5, <1>6, <1>7, <1>8, <2>1, <2>2, Lengths, CallStep
<1> QED BY <1>5, <1>6, <1>9 DEF FunnelOK

LEMMA WriteQtyOK ==
  ASSUME FunnelOK, NEW i \in Instances, WriteQty(i), UNCHANGED cadenceVars
  PROVE  FunnelOK'
<1> PICK q : q = calls[i]
  OBVIOUS
<1> PICK line : line = Head(q.todo)
  OBVIOUS
<1>1. q \in Call /\ Sound(q, Len(enrolled), Len(moves)) /\ q.pc = "write"
  BY CallOf DEF WriteQty
<1>2. /\ line \in StockLine /\ q.todo \in Seq(StockLine) /\ q.held \in [Items -> Int]
  BY <1>1, Shorter DEF Sound
<1>3. UNCHANGED <<lead, linked, moves, gone>> /\ UNCHANGED <<faults, world>>
  BY DEF WriteQty
<1>4. StockOK' /\ Len(moves') = Len(moves)
  <2>1. line.item \in Items /\ q.held[line.item] + line.change \in Int
    BY <1>2 DEF StockLine
  <2>2. qty' \in [Items -> Int]
    BY <2>1 DEF WriteQty, FunnelOK, StockOK
  <2>3. torn' \subseteq Items
    BY <2>1 DEF WriteQty, FunnelOK, StockOK
  <2> QED BY <1>3, <2>2, <2>3 DEF FunnelOK, StockOK
<1>5. CadenceOK' /\ Len(enrolled') = Len(enrolled)
  BY CadenceStays
<1>6. faults' \in 0 .. MaxFaults
  BY <1>3 DEF FunnelOK, CallsOK
<1>7. CASE Finish(i)
  BY <1>1, <1>3, <1>4, <1>5, <1>6, <1>7, FinishStep DEF FunnelOK
<1>8. CASE q.lead # NoLead /\ Goto(i, "anchor")
  <2> PICK r : r = [q EXCEPT !.pc = "anchor"]
    OBVIOUS
  <2>1. "anchor" \in Pcs /\ q.lead \in Leads
    BY <1>1, <1>8 DEF Pcs, Call
  <2>2. /\ r \in Call /\ r.pc = "anchor" /\ r.then = q.then /\ r.lead = q.lead
        /\ r.seen = q.seen /\ r.move = q.move
    BY <1>1, <2>1, Renamed
  <2>3. Sound(r, Len(enrolled'), Len(moves'))
    BY <1>1, <1>4, <1>5, <2>1, <2>2 DEF Sound
  <2>4. Set(i, r)
    BY <1>8 DEF Goto
  <2>5. CallsOK'
    BY <1>3, <1>4, <1>5, <1>6, <2>2, <2>3, <2>4, Lengths, CallStep
  <2> QED BY <1>4, <1>5, <2>5 DEF FunnelOK
<1>9. CASE Len(q.todo) > 1 /\ Set(i, [q EXCEPT !.pc = "move", !.todo = Tail(@)])
  <2> PICK t : t = Tail(q.todo)
    OBVIOUS
  <2>1. t \in Seq(StockLine) /\ t # <<>>
    BY <1>2, <1>9, SomeLeft
  <2>2. t \in Todos /\ "move" \in Pcs
    BY <2>1, TodosFacts DEF Pcs
  <2> PICK r : r = [q EXCEPT !.pc = "move", !.todo = t]
    OBVIOUS
  <2>3. /\ r \in Call /\ r.pc = "move" /\ r.then = q.then /\ r.lead = q.lead
        /\ r.todo = t /\ r.seen = q.seen /\ r.move = q.move /\ r.held = q.held
    BY <1>1, <2>2 DEF Call
  <2>4. Sound(r, Len(enrolled'), Len(moves'))
    BY <1>1, <1>2, <1>4, <1>5, <2>1, <2>3 DEF Sound
  <2>5. Set(i, r)
    BY <1>9
  <2>6. CallsOK'
    BY <1>3, <1>4, <1>5, <1>6, <2>3, <2>4, <2>5, Lengths, CallStep
  <2> QED BY <1>4, <1>5, <2>6 DEF FunnelOK
<1> QED BY <1>7, <1>8, <1>9 DEF WriteQty

\* The rows of the leads, with another anchor or another stage in one of them.
LEMMA LeadEdited ==
  ASSUME FunnelOK, NEW l, NEW k \in 0 .. Len(moves),
         lead' = [lead EXCEPT ![l].anchor = k]
  PROVE  lead' \in [Leads -> LeadRow(Len(moves))]
<1>1. lead \in [Leads -> LeadRow(Len(moves))]
  BY DEF FunnelOK, StockOK
<1>2. \A x \in LeadRow(Len(moves)) : [x EXCEPT !.anchor = k] \in LeadRow(Len(moves))
  BY DEF LeadRow
<1> QED BY <1>1, <1>2

LEMMA StageEdited ==
  ASSUME FunnelOK, NEW l, NEW s \in Stages,
         lead' = [lead EXCEPT ![l].stage = s]
  PROVE  lead' \in [Leads -> LeadRow(Len(moves))]
<1>1. lead \in [Leads -> LeadRow(Len(moves))]
  BY DEF FunnelOK, StockOK
<1>2. \A x \in LeadRow(Len(moves)) : [x EXCEPT !.stage = s] \in LeadRow(Len(moves))
  BY DEF LeadRow
<1> QED BY <1>1, <1>2

\* A lead's row with the anchor of a movement there is.
LEMMA WriteAnchorOK ==
  ASSUME FunnelOK, NEW i \in Instances, WriteAnchor(i), UNCHANGED cadenceVars
  PROVE  FunnelOK'
<1> PICK q : q = calls[i]
  OBVIOUS
<1>1. q \in Call /\ Sound(q, Len(enrolled), Len(moves)) /\ q.pc = "anchor"
  BY CallOf DEF WriteAnchor
<1>2. UNCHANGED <<linked, qty, moves, torn, gone>> /\ UNCHANGED <<faults, world>>
  BY DEF WriteAnchor
<1> PICK k : k = IF q.seen.anchor = 0 THEN q.move ELSE 0
  OBVIOUS
<1>3. k \in 0 .. Len(moves)
  BY <1>1, Lengths DEF Sound
<1>4. lead' = [lead EXCEPT ![q.lead].anchor = k]
  BY DEF WriteAnchor
<1>5. lead' \in [Leads -> LeadRow(Len(moves))]
  BY <1>3, <1>4, LeadEdited
<1>6. StockOK' /\ Len(moves') = Len(moves)
  BY <1>2, <1>5 DEF FunnelOK, StockOK
<1>7. CadenceOK' /\ Len(enrolled') = Len(enrolled)
  BY CadenceStays
<1>8. faults' \in 0 .. MaxFaults
  BY <1>2 DEF FunnelOK, CallsOK
<1>9. Finish(i)
  BY DEF WriteAnchor
<1>10. CallsOK'
  BY <1>1, <1>2, <1>6, <1>7, <1>8, <1>9, FinishStep
<1> QED BY <1>6, <1>7, <1>10 DEF FunnelOK

LEMMA EditProductOK ==
  ASSUME FunnelOK, NEW edit \in world.edits,
         EditProduct(edit.lead, edit.product, edit.need), UNCHANGED cadenceVars
  PROVE  FunnelOK'
<1>1. edit \in [lead : Leads, product : Products \union {NoProduct}, need : Nat]
  BY WorldFacts DEF FunnelOK, CallsOK
<1> PICK l, p, n : l = edit.lead /\ p = edit.product /\ n = edit.need
  OBVIOUS
<1>2. l \in Leads /\ p \in Products \union {NoProduct} /\ n \in Nat
  BY <1>1
<1>3. lead \in [Leads -> LeadRow(Len(moves))]
  BY DEF FunnelOK, StockOK
<1> PICK row : row = [lead[l] EXCEPT !.product = p, !.need = n]
  OBVIOUS
<1>4. row \in LeadRow(Len(moves))
  BY <1>2, <1>3 DEF LeadRow
<1>5. lead' = [lead EXCEPT ![l] = row]
  BY DEF EditProduct
<1>6. lead' \in [Leads -> LeadRow(Len(moves))]
  BY <1>3, <1>4, <1>5
<1>7. UNCHANGED <<linked, qty, moves, torn, gone, calls, faults, world>>
  BY DEF EditProduct, shared
<1>8. StockOK' /\ Len(moves') = Len(moves)
  BY <1>6, <1>7 DEF FunnelOK, StockOK
<1>9. CadenceOK' /\ Len(enrolled') = Len(enrolled)
  BY CadenceStays
<1> QED BY <1>7, <1>8, <1>9, CallsStay DEF FunnelOK

LEMMA LinkItemOK ==
  ASSUME FunnelOK, NEW edit \in world.relinks,
         LinkItem(edit.product, edit.item), UNCHANGED cadenceVars
  PROVE  FunnelOK'
<1>1. edit \in [product : Products, item : Items \union {NoItem}]
  BY WorldFacts DEF FunnelOK, CallsOK
<1>2. linked' \in [Products -> Items \union {NoItem}]
  BY <1>1 DEF LinkItem, FunnelOK, StockOK
<1>3. UNCHANGED <<lead, qty, moves, torn, gone, calls, faults, world>>
  BY DEF LinkItem, shared
<1>4. StockOK' /\ Len(moves') = Len(moves)
  BY <1>2, <1>3 DEF FunnelOK, StockOK
<1>5. CadenceOK' /\ Len(enrolled') = Len(enrolled)
  BY CadenceStays
<1> QED BY <1>3, <1>4, <1>5, CallsStay DEF FunnelOK

----------------------------------------------------------------------------
(* The changes of stage, the edits and the faults keep the types.          *)

LEMMA ArriveStageOK ==
  ASSUME FunnelOK, NEW i \in Instances, NEW l \in Leads, NEW to \in world.targets,
         NEW then \in Orders, ArriveStage(i, l, to, then)
  PROVE  FunnelOK'
<1> PICK from : from = lead[l].stage
  OBVIOUS
<1>1. from \in Stages \union {"none"} /\ to \in Stages
  BY WorldFacts DEF FunnelOK, CallsOK, StockOK, LeadRow
<1>2. then \in Seq({"enrol", "sync"})
  <2>1. CASE then = <<"enrol", "sync">>
    BY <2>1
  <2>2. CASE then = <<"sync", "enrol">>
    BY <2>2
  <2> QED BY <2>1, <2>2 DEF Orders
<1> PICK r : r = [Idle EXCEPT !.pc = "stage", !.lead = l, !.to = to,
                              !.from = from, !.then = then]
  OBVIOUS
<1>3. "stage" \in Pcs
  BY DEF Pcs
<1>4. r \in Call /\ r.pc = "stage" /\ r.lead = l /\ r.to = to /\ r.move = 0
  BY <1>1, <1>2, <1>3, IdleFields DEF Call
<1>5. Sound(r, Len(enrolled), Len(moves))
  BY <1>1, <1>4, Lengths DEF Sound
<1>6. Set(i, r) /\ UNCHANGED cadenceVars /\ UNCHANGED stockVars /\ UNCHANGED <<faults, world>>
  BY DEF ArriveStage, Accept, Set
<1> QED BY <1>4, <1>5, <1>6, OnlyCall

LEMMA ChangeStageOK ==
  ASSUME FunnelOK, NEW i \in Instances, ChangeStage(i)
  PROVE  FunnelOK'
<1> PICK q : q = calls[i]
  OBVIOUS
<1>1. q \in Call /\ Sound(q, Len(enrolled), Len(moves)) /\ q.pc = "stage"
  BY CallOf DEF ChangeStage
<1>2. q.lead \in Leads /\ q.to \in Stages
  BY <1>1 DEF Sound
<1>3. /\ UNCHANGED cadenceVars /\ UNCHANGED <<linked, qty, moves, torn, gone>>
      /\ UNCHANGED <<faults, world>>
  BY DEF ChangeStage
<1>4. lead' \in [Leads -> LeadRow(Len(moves))]
  BY <1>2, StageEdited DEF ChangeStage
<1>5. StockOK' /\ Len(moves') = Len(moves)
  BY <1>3, <1>4 DEF FunnelOK, StockOK
<1>6. CadenceOK' /\ Len(enrolled') = Len(enrolled)
  BY <1>3, CadenceStays
<1> PICK row : row = lead'[q.lead]
  OBVIOUS
<1>7. row \in LeadRow(Len(moves)) /\ Len(moves) \in Nat
  BY <1>2, <1>4, Lengths
<1>8. row \in [stage : Stages \union {"none"}, product : Products \union {NoProduct, "none"},
               need : Nat, anchor : Nat]
  BY <1>7 DEF LeadRow
<1> PICK r : r = [q EXCEPT !.pc = "rules", !.seen = row]
  OBVIOUS
<1>9. /\ r \in Call /\ r.pc = "rules" /\ r.lead = q.lead /\ r.to = q.to
      /\ r.then = q.then /\ r.seen = row /\ r.move = q.move
  BY <1>1, <1>8 DEF Call, Pcs
<1>10. Sound(r, Len(enrolled'), Len(moves'))
  BY <1>1, <1>2, <1>5, <1>6, <1>7, <1>9 DEF Sound
<1>11. Set(i, r)
  BY DEF ChangeStage
<1>12. faults' \in 0 .. MaxFaults
  BY <1>3 DEF FunnelOK, CallsOK
<1>13. CallsOK'
  BY <1>3, <1>5, <1>6, <1>9, <1>10, <1>11, <1>12, Lengths, CallStep
<1> QED BY <1>5, <1>6, <1>13 DEF FunnelOK

LEMMA RunRulesOK ==
  ASSUME FunnelOK, NEW i \in Instances, RunRules(i)
  PROVE  FunnelOK'
<1> PICK q : q = calls[i]
  OBVIOUS
<1>1. q \in Call /\ Sound(q, Len(enrolled), Len(moves)) /\ q.pc = "rules"
  BY CallOf DEF RunRules
<1>2. /\ UNCHANGED cadenceVars /\ UNCHANGED <<linked, qty, moves, torn, gone>>
      /\ UNCHANGED <<faults, world>>
  BY DEF RunRules
<1>3. lead' \in [Leads -> LeadRow(Len(moves))]
  <2> PICK next : next = world.rule[q.to]
    OBVIOUS
  <2>1. q.to \in Stages /\ next \in Stages \union {"none"}
    BY <1>1, WorldFacts DEF Sound, FunnelOK, CallsOK
  <2>2. CASE next = "none"
    BY <2>2 DEF RunRules, FunnelOK, StockOK
  <2>3. CASE next # "none"
    BY <2>1, <2>3, StageEdited DEF RunRules
  <2> QED BY <2>2, <2>3
<1>4. StockOK' /\ Len(moves') = Len(moves)
  BY <1>2, <1>3 DEF FunnelOK, StockOK
<1>5. CadenceOK' /\ Len(enrolled') = Len(enrolled)
  BY <1>2, CadenceStays
<1>6. Finish(i) /\ faults' \in 0 .. MaxFaults
  BY <1>2 DEF RunRules, FunnelOK, CallsOK
<1>7. CallsOK'
  BY <1>1, <1>2, <1>4, <1>5, <1>6, FinishStep
<1> QED BY <1>4, <1>5, <1>7 DEF FunnelOK

LEMMA ChangePipelineOK ==
  ASSUME FunnelOK, NEW l \in Leads, NEW to \in world.silent, ChangePipeline(l, to)
  PROVE  FunnelOK'
<1>1. to \in Stages
  BY WorldFacts DEF FunnelOK, CallsOK
<1>2. lead' \in [Leads -> LeadRow(Len(moves))]
  BY <1>1, StageEdited DEF ChangePipeline
<1>3. UNCHANGED cadenceVars /\ UNCHANGED <<linked, qty, moves, torn, gone, calls, faults, world>>
  BY DEF ChangePipeline, shared
<1>4. StockOK' /\ Len(moves') = Len(moves)
  BY <1>2, <1>3 DEF FunnelOK, StockOK
<1>5. CadenceOK' /\ Len(enrolled') = Len(enrolled)
  BY <1>3, CadenceStays
<1> QED BY <1>3, <1>4, <1>5, CallsStay DEF FunnelOK

LEMMA CancelEnrolmentOK ==
  ASSUME FunnelOK, NEW e \in DOMAIN enrolled, CancelEnrolment(e), UNCHANGED stockVars
  PROVE  FunnelOK'
<1>1. CadenceOK' /\ Len(enrolled') = Len(enrolled)
  BY Lengths, CancelledOK DEF CancelEnrolment
<1>2. StockOK' /\ Len(moves') = Len(moves)
  BY StockStays
<1>3. UNCHANGED <<calls, faults, world>>
  BY DEF CancelEnrolment, shared
<1> QED BY <1>1, <1>2, <1>3, CallsStay DEF FunnelOK

LEMMA SwitchesAndDaysOK ==
  ASSUME FunnelOK, (\E c \in Cadences : Toggle(c)) \/ NextDay, UNCHANGED stockVars
  PROVE  FunnelOK'
<1>1. UNCHANGED <<enrolled, fired, calls, faults, world>>
  BY DEF Toggle, NextDay, shared
<1>2. enabled' \subseteq Cadences
  BY DEF Toggle, NextDay, FunnelOK, CadenceOK
<1>3. today' \in 0 .. LastDay
  BY ConstantFacts DEF Toggle, NextDay, FunnelOK, CadenceOK
<1>4. CadenceOK' /\ Len(enrolled') = Len(enrolled)
  BY <1>1, <1>2, <1>3 DEF FunnelOK, CadenceOK
<1>5. StockOK' /\ Len(moves') = Len(moves)
  BY StockStays
<1> QED BY <1>1, <1>4, <1>5, CallsStay DEF FunnelOK

LEMMA TornType ==
  ASSUME FunnelOK, NEW i \in Instances, torn' = torn \union Torn(i),
         UNCHANGED <<lead, linked, qty, moves, gone>>
  PROVE  StockOK' /\ Len(moves') = Len(moves)
<1>1. CASE calls[i].pc = "write"
  <2>1. calls[i].todo \in Seq(StockLine) /\ calls[i].todo # <<>>
    BY <1>1, CallOf DEF Sound
  <2>2. Head(calls[i].todo) \in StockLine
    BY <2>1, Shorter
  <2>3. Torn(i) \subseteq Items
    BY <2>2 DEF Torn, StockLine
  <2> QED BY <2>3 DEF FunnelOK, StockOK
<1>2. CASE calls[i].pc # "write"
  BY <1>2 DEF Torn, FunnelOK, StockOK
<1> QED BY <1>1, <1>2

LEMMA DieOK ==
  ASSUME FunnelOK, NEW i \in Instances, Die(i)
  PROVE  FunnelOK'
<1>1. StockOK' /\ Len(moves') = Len(moves)
  BY TornType DEF Die
<1>2. CadenceOK' /\ Len(enrolled') = Len(enrolled)
  BY CadenceStays DEF Die
<1>3. faults' \in 0 .. MaxFaults /\ world' = world
  <2>1. world.faults \in 0 .. MaxFaults /\ faults \in Nat
    BY WorldFacts, ConstantFacts DEF FunnelOK, CallsOK
  <2> QED BY <2>1, ConstantFacts DEF Die
<1>4. CallsOK'
  <2>1. Idle \in Call /\ Sound(Idle, Len(enrolled'), Len(moves'))
    BY <1>1, <1>2, Lengths, IdleSound
  <2>2. Set(i, Idle)
    BY DEF Die
  <2> QED BY <1>1, <1>2, <1>3, <2>1, <2>2, Lengths, CallStep
<1> QED BY <1>1, <1>2, <1>4 DEF FunnelOK

LEMMA StumbleOK ==
  ASSUME FunnelOK, NEW i \in Instances, Stumble(i)
  PROVE  FunnelOK'
<1> PICK q : q = calls[i]
  OBVIOUS
<1>1. q \in Call /\ Sound(q, Len(enrolled), Len(moves))
  BY CallOf
<1>2. StockOK' /\ Len(moves') = Len(moves)
  BY TornType DEF Stumble
<1>3. CadenceOK' /\ Len(enrolled') = Len(enrolled)
  BY CadenceStays DEF Stumble
<1>4. faults' \in 0 .. MaxFaults /\ world' = world
  <2>1. world.faults \in 0 .. MaxFaults /\ faults \in Nat
    BY WorldFacts, ConstantFacts DEF FunnelOK, CallsOK
  <2> QED BY <2>1, ConstantFacts DEF Stumble
<1>5. CASE q.pc # "stage" /\ Finish(i)
  BY <1>2, <1>3, <1>4, <1>5, FinishStep DEF FunnelOK
<1>6. CASE q.pc \in {"fire", "advance"} /\ Set(i, [q EXCEPT !.pc = "next", !.todo = Tail(@)])
  <2> PICK t : t = Tail(q.todo)
    OBVIOUS
  <2>1. t \in Seq(1 .. Len(enrolled))
    BY <1>1, <1>6, Shorter, Lengths DEF Sound
  <2>2. t \in Todos /\ "next" \in Pcs
    BY <2>1, TodosFacts, Lengths DEF Pcs
  <2> PICK r : r = [q EXCEPT !.pc = "next", !.todo = t]
    OBVIOUS
  <2>3. /\ r \in Call /\ r.pc = "next" /\ r.then = q.then /\ r.lead = q.lead
        /\ r.seen = q.seen /\ r.todo = t /\ r.move = q.move
    BY <1>1, <2>2 DEF Call
  <2>4. Sound(r, Len(enrolled'), Len(moves'))
    BY <1>1, <1>2, <1>3, <1>6, <2>1, <2>3 DEF Sound
  <2>5. Set(i, r)
    BY <1>6
  <2>6. CallsOK'
    BY <1>2, <1>3, <1>4, <2>3, <2>4, <2>5, Lengths, CallStep
  <2> QED BY <1>2, <1>3, <2>6 DEF FunnelOK
<1> QED BY <1>5, <1>6 DEF Stumble

----------------------------------------------------------------------------
(* Types.                                                                  *)

LEMMA InitOK == ASSUME Init PROVE FunnelOK
<1>1. CadenceOK
  <2>1. enrolled = <<>> /\ fired = <<>> /\ enabled = Cadences /\ today = 0
    BY DEF Init, CadencesInit
  <2>2. 0 \in 0 .. LastDay
    BY ConstantFacts
  <2> QED BY <2>1, <2>2 DEF CadenceOK
<1>2. StockOK
  <2>1. moves = <<>> /\ torn = {} /\ gone = {} /\ linked = FirstItem /\ qty = Opening
    BY DEF Init
  <2>2. Len(moves) = 0 /\ moves \in Seq(Move)
    BY <2>1, EmptySeq
  <2>3. lead \in [Leads -> LeadRow(0)]
    BY ConstantFacts DEF Init, LeadRow
  <2> QED BY <2>1, <2>2, <2>3, ConstantFacts DEF StockOK
<1>3. CallsOK
  <2>1. Len(enrolled) \in Nat /\ Len(moves) \in Nat
    BY <1>1, <1>2 DEF CadenceOK, StockOK
  <2>2. Idle \in Call /\ Sound(Idle, Len(enrolled), Len(moves))
    BY <2>1, IdleSound
  <2> QED BY <2>2, ConstantFacts DEF Init, CallsOK
<1> QED BY <1>1, <1>2, <1>3 DEF FunnelOK

LEMMA StepOK == ASSUME FunnelOK, [Next]_vars PROVE FunnelOK'
<1>1. CASE UNCHANGED vars
  <2>1. UNCHANGED cadenceVars /\ UNCHANGED stockVars /\ UNCHANGED <<calls, faults, world>>
    BY <1>1 DEF vars, shared
  <2> QED BY <2>1, CadenceStays, StockStays, CallsStay DEF FunnelOK
<1>2. ASSUME NEW i \in Instances, Request(i)
      PROVE  FunnelOK'
  BY <1>2, ArriveEnrolOK, StartCronOK, ArriveReplyOK, ArriveMovementOK, ArriveStageOK
     DEF Request, CadenceRequest, StockRequest
<1>3. ASSUME NEW i \in Instances, CadenceWork(i), UNCHANGED stockVars
      PROVE  FunnelOK'
  BY <1>3, EnrolByStageOK, FindActiveOK, InsertEnrolmentOK, ReadEnrolmentOK, FireStepOK,
     AdvanceOK, StopOneOK
     DEF CadenceWork
<1>4. ASSUME NEW i \in Instances, StockWork(i), UNCHANGED cadenceVars
      PROVE  FunnelOK'
  BY <1>4, SyncOK, ConsumeOK, RestoreOK, ReadItemsOK, InsertMoveOK, WriteQtyOK, WriteAnchorOK
     DEF StockWork
<1>5. ASSUME NEW i \in Instances, Work(i)
      PROVE  FunnelOK'
  BY <1>3, <1>4, <1>5, ChangeStageOK, RunRulesOK DEF Work
<1>6. ASSUME Edit
      PROVE  FunnelOK'
  BY <1>6, CancelEnrolmentOK, SwitchesAndDaysOK, EditProductOK, LinkItemOK, ChangePipelineOK
     DEF Edit, StockEdit
<1> QED BY <1>1, <1>2, <1>5, <1>6, DieOK, StumbleOK DEF Next

LEMMA AlwaysOK == Spec => []FunnelOK
  BY InitOK, StepOK, PTL DEF Spec

LEMMA OKTypes == ASSUME FunnelOK PROVE TypeOK
<1>1. CadencesTypeOK
  <2>1. \A e \in DOMAIN fired : fired[e] \in Seq(Nat)
    BY ElementOfSeq, Lengths DEF FunnelOK, CadenceOK
  <2> QED BY <2>1, Lengths DEF FunnelOK, CadenceOK, CadencesTypeOK, Enrolment
<1>2. StockTypeOK /\ \A l \in Leads : lead[l].stage \in Stages
  BY Lengths DEF FunnelOK, StockOK, StockTypeOK, LeadRow, Move
<1>3. \A i \in Instances :
        /\ calls[i].lead \in Leads \union {NoLead}
        /\ {calls[i].from, calls[i].to} \subseteq Stages \union {"none"}
        /\ calls[i].move \in 0 .. Len(moves)
  <2> TAKE i \in Instances
  <2> PICK q : q = calls[i]
    OBVIOUS
  <2>1. q \in Call /\ Sound(q, Len(enrolled), Len(moves))
    BY CallOf
  <2> QED BY <2>1 DEF Call, Sound
<1>4. faults \in 0 .. MaxFaults
  BY DEF FunnelOK, CallsOK
<1> QED BY <1>1, <1>2, <1>3, <1>4 DEF TypeOK

(***************************************************************************)
(* Every row and every call has its type, for all leads, cadences, items   *)
(* and instances: an anchor names a movement that there is, an instance    *)
(* holds a lead of the table.                                              *)
(***************************************************************************)
THEOREM TypeCorrect == Spec => []TypeOK
  BY AlwaysOK, OKTypes, PTL

----------------------------------------------------------------------------
(* Where the calls go.                                                     *)

Ends == {"idle", "enrol", "sync"}

\* A step of i takes its call to one of the pcs P, and no other call goes on.
Goes(i, P) ==
  /\ \A j \in Instances \ {i} : calls'[j] = calls[j]
  /\ calls'[i].pc \in P

LEMMA SetGoes ==
  ASSUME FunnelOK, NEW i \in Instances, NEW r, NEW P, Set(i, r), r.pc \in P
  PROVE  Goes(i, P) /\ calls'[i] = r
  BY DEF FunnelOK, CallsOK, Set, Goes

LEMMA FinishGoes ==
  ASSUME FunnelOK, NEW i \in Instances, NEW P, Finish(i), calls[i].pc # "stage", Ends \subseteq P
  PROVE  Goes(i, P) /\ calls'[i] = Through(i) /\ calls'[i].pc \in Ends
<1> PICK r : r = Through(i)
  OBVIOUS
<1>1. r.pc \in Ends
  BY ThroughSound DEF Ends
<1>2. Set(i, r)
  BY DEF Finish
<1> QED BY <1>1, <1>2, SetGoes

LEMMA GotoGoes ==
  ASSUME FunnelOK, NEW i \in Instances, NEW p, Goto(i, p), NEW P, p \in P
  PROVE  Goes(i, P)
<1> PICK r : r = [calls[i] EXCEPT !.pc = p]
  OBVIOUS
<1>1. r.pc = p
  BY CallOf DEF Call
<1>2. Set(i, r)
  BY DEF Goto
<1> QED BY <1>1, <1>2, SetGoes

LEMMA NextGoes ==
  ASSUME FunnelOK, NEW i \in Instances, NextOf(i), NEW P, calls[i].pc \in P
  PROVE  Goes(i, P)
<1> PICK r : r = [calls[i] EXCEPT !.todo = Tail(@)]
  OBVIOUS
<1>1. r.pc = calls[i].pc
  BY CallOf DEF Call
<1>2. Set(i, r)
  BY DEF NextOf
<1> QED BY <1>1, <1>2, SetGoes

LEMMA RequestGoes ==
  ASSUME FunnelOK, NEW i \in Instances, Request(i)
  PROVE  Goes(i, {"find", "next", "stop", "read", "stage"}) /\ calls[i].pc = "idle"
<1> DEFINE P == {"find", "next", "stop", "read", "stage"}
<1>1. ASSUME NEW r, Accept(i, r), r.pc \in P
      PROVE  Goes(i, P) /\ calls[i].pc = "idle"
  BY <1>1, SetGoes DEF Accept, Set
<1>2. \A l, list : [Idle EXCEPT !.pc = "find", !.lead = l, !.todo = list].pc \in P
  BY DEF Idle
<1>3. \A list : [Idle EXCEPT !.pc = "next", !.todo = list].pc \in P
  BY DEF Idle
<1>4. \A l, list : [Idle EXCEPT !.pc = "stop", !.lead = l, !.todo = list].pc \in P
  BY DEF Idle
<1>5. \A list : [Idle EXCEPT !.pc = "read", !.todo = list].pc \in P
  BY DEF Idle
<1>6. \A l, to, from, then :
        [Idle EXCEPT !.pc = "stage", !.lead = l, !.to = to, !.from = from, !.then = then].pc \in P
  BY DEF Idle
<1> HIDE DEF P
<1>7. ASSUME NEW l \in Leads, NEW c \in world.enrols, ArriveEnrol(i, l, c)
      PROVE  Goes(i, P) /\ calls[i].pc = "idle"
  BY <1>1, <1>2, <1>7 DEF ArriveEnrol
<1>8. ASSUME StartCron(i)
      PROVE  Goes(i, P) /\ calls[i].pc = "idle"
  BY <1>1, <1>3, <1>8 DEF StartCron
<1>9. ASSUME NEW l \in Leads, ArriveReply(i, l)
      PROVE  Goes(i, P) /\ calls[i].pc = "idle"
  BY <1>1, <1>4, <1>9 DEF ArriveReply
<1>10. ASSUME NEW lines \in world.lines, ArriveMovement(i, lines)
       PROVE  Goes(i, P) /\ calls[i].pc = "idle"
  BY <1>1, <1>5, <1>10 DEF ArriveMovement
<1>11. ASSUME NEW l \in Leads, NEW to \in world.targets, NEW then \in Orders,
              ArriveStage(i, l, to, then)
       PROVE  Goes(i, P) /\ calls[i].pc = "idle"
  BY <1>1, <1>6, <1>11 DEF ArriveStage
<1>12. Goes(i, P) /\ calls[i].pc = "idle"
  BY <1>7, <1>8, <1>9, <1>10, <1>11 DEF Request, CadenceRequest, StockRequest
<1> QED BY <1>12 DEF P

LEMMA WorkGoes ==
  ASSUME FunnelOK, NEW i \in Instances
  PROVE  /\ EnrolByStage(i) => Goes(i, {"find"})
         /\ FindActive(i) => Goes(i, {"find", "insert"} \union Ends)
         /\ InsertEnrolment(i) => Goes(i, {"find"})
         /\ ReadEnrolment(i) => Goes(i, {"fire", "next"} \union Ends)
         /\ FireStep(i) => Goes(i, {"advance"})
         /\ Advance(i) => Goes(i, {"next"})
         /\ StopOne(i) => Goes(i, {"stop"} \union Ends)
         /\ Sync(i) => Goes(i, {"consume", "restore"} \union Ends)
         /\ Consume(i) => Goes(i, {"read"} \union Ends)
         /\ Restore(i) => Goes(i, {"anchor", "read"} \union Ends)
         /\ ReadItems(i) => Goes(i, {"move"} \union Ends)
         /\ InsertMove(i) => Goes(i, {"write"})
         /\ WriteQty(i) => Goes(i, {"move", "anchor"} \union Ends)
         /\ WriteAnchor(i) => Goes(i, Ends)
         /\ ChangeStage(i) => Goes(i, {"rules"})
         /\ RunRules(i) => Goes(i, Ends)
         /\ Die(i) => Goes(i, {"idle"})
         /\ Stumble(i) => Goes(i, {"next"} \union Ends)
<1> PICK q : q = calls[i]
  OBVIOUS
<1>1. q \in Call
  BY CallOf
<1>2. calls \in [Instances -> Call]
  BY DEF FunnelOK, CallsOK
<1>3. ASSUME EnrolByStage(i) PROVE Goes(i, {"find"})
  BY <1>1, <1>2, <1>3 DEF EnrolByStage, Set, Goes, Call
<1>4. ASSUME FindActive(i) PROVE Goes(i, {"find", "insert"} \union Ends)
  BY <1>4, FinishGoes, NextGoes, GotoGoes DEF FindActive
<1>5. ASSUME InsertEnrolment(i) PROVE Goes(i, {"find"})
  BY <1>1, <1>2, <1>5 DEF InsertEnrolment, Set, Goes, Call
<1>6. ASSUME ReadEnrolment(i) PROVE Goes(i, {"fire", "next"} \union Ends)
  <2>1. CASE Finish(i)
    BY <1>6, <2>1, FinishGoes DEF ReadEnrolment
  <2>2. CASE NextOf(i)
    BY <1>6, <2>2, NextGoes DEF ReadEnrolment
  <2>3. CASE Set(i, [q EXCEPT !.pc = "fire", !.step = enrolled[Head(q.todo)].step])
    BY <1>1, <1>2, <2>3 DEF Set, Goes, Call
  <2> QED BY <1>6, <2>1, <2>2, <2>3 DEF ReadEnrolment
<1>7. ASSUME FireStep(i) PROVE Goes(i, {"advance"})
  BY <1>7, GotoGoes DEF FireStep
<1>8. ASSUME Advance(i) PROVE Goes(i, {"next"})
  BY <1>1, <1>2, <1>8 DEF Advance, Set, Goes, Call
<1>9. ASSUME StopOne(i) PROVE Goes(i, {"stop"} \union Ends)
  BY <1>9, FinishGoes, NextGoes DEF StopOne
<1>10. ASSUME Sync(i) PROVE Goes(i, {"consume", "restore"} \union Ends)
  BY <1>10, FinishGoes, GotoGoes DEF Sync
<1>11. ASSUME Consume(i) PROVE Goes(i, {"read"} \union Ends)
  <2>1. CASE Finish(i)
    BY <1>11, <2>1, FinishGoes DEF Consume
  <2>2. CASE Set(i, [q EXCEPT !.pc = "read", !.todo =
                     <<Line(ItemOf(q.seen.product), -(IF q.seen.need > 1 THEN q.seen.need ELSE 1))>>])
    BY <1>1, <1>2, <2>2 DEF Set, Goes, Call
  <2> QED BY <1>11, <2>1, <2>2 DEF Consume
<1>12. ASSUME Restore(i) PROVE Goes(i, {"anchor", "read"} \union Ends)
  <2>1. CASE Finish(i)
    BY <1>12, <2>1, FinishGoes DEF Restore
  <2>2. CASE Goto(i, "anchor")
    BY <1>12, <2>2, GotoGoes DEF Restore
  <2>3. CASE Set(i, [q EXCEPT !.pc = "read", !.todo =
                     <<Line(moves[q.seen.anchor].item, -moves[q.seen.anchor].change)>>])
    BY <1>1, <1>2, <2>3 DEF Set, Goes, Call
  <2> QED BY <1>12, <2>1, <2>2, <2>3 DEF Restore
<1>13. ASSUME ReadItems(i) PROVE Goes(i, {"move"} \union Ends)
  <2>1. CASE Finish(i)
    BY <1>13, <2>1, FinishGoes DEF ReadItems
  <2>2. CASE Set(i, [q EXCEPT !.pc = "move", !.held = qty])
    BY <1>1, <1>2, <2>2 DEF Set, Goes, Call
  <2> QED BY <1>13, <2>1, <2>2 DEF ReadItems
<1>14. ASSUME InsertMove(i) PROVE Goes(i, {"write"})
  BY <1>1, <1>2, <1>14 DEF InsertMove, Set, Goes, Call
<1>15. ASSUME WriteQty(i) PROVE Goes(i, {"move", "anchor"} \union Ends)
  <2>1. CASE Finish(i)
    BY <1>15, <2>1, FinishGoes DEF WriteQty
  <2>2. CASE Goto(i, "anchor")
    BY <1>15, <2>2, GotoGoes DEF WriteQty
  <2>3. CASE Set(i, [q EXCEPT !.pc = "move", !.todo = Tail(q.todo)])
    BY <1>1, <1>2, <2>3 DEF Set, Goes, Call
  <2> QED BY <1>15, <2>1, <2>2, <2>3 DEF WriteQty
<1>16. ASSUME WriteAnchor(i) PROVE Goes(i, Ends)
  BY <1>16, FinishGoes DEF WriteAnchor
<1>17. ASSUME ChangeStage(i) PROVE Goes(i, {"rules"})
  <2> PICK row : row = lead'[q.lead]
    OBVIOUS
  <2> PICK r : r = [q EXCEPT !.pc = "rules", !.seen = row]
    OBVIOUS
  <2>1. Set(i, r)
    BY <1>17 DEF ChangeStage
  <2> QED BY <1>1, <1>2, <2>1 DEF Set, Goes, Call
<1>18. ASSUME RunRules(i) PROVE Goes(i, Ends)
  BY <1>18, FinishGoes DEF RunRules
<1>19. ASSUME Die(i) PROVE Goes(i, {"idle"})
  BY <1>19, IdleFields, SetGoes DEF Die
<1>20. ASSUME Stumble(i) PROVE Goes(i, {"next"} \union Ends)
  <2>1. CASE Finish(i)
    BY <1>20, <2>1, FinishGoes DEF Stumble
  <2>2. CASE Set(i, [q EXCEPT !.pc = "next", !.todo = Tail(q.todo)])
    BY <1>1, <1>2, <2>2 DEF Set, Goes, Call
  <2> QED BY <1>20, <2>1, <2>2 DEF Stumble
<1> QED BY <1>3, <1>4, <1>5, <1>6, <1>7, <1>8, <1>9, <1>10, <1>11, <1>12, <1>13, <1>14,
           <1>15, <1>16, <1>17, <1>18, <1>19, <1>20

LEMMA EditGoes == ASSUME Edit PROVE UNCHANGED <<calls, faults, world>>
  BY DEF Edit, StockEdit, CancelEnrolment, Toggle, NextDay, EditProduct, LinkItem,
     ChangePipeline, shared

----------------------------------------------------------------------------
(* No item falls below zero.                                               *)

\* What was read when the items were compared is enough for every line left.
Enough(q) ==
  q.pc \in {"move", "write"} =>
    \A n \in DOMAIN q.todo : q.held[q.todo[n].item] + q.todo[n].change >= 0

ShelfInv == NeverNegative /\ \A i \in Instances : Enough(calls[i])

LEMMA ShelfStays ==
  ASSUME FunnelOK, ShelfInv, NEW i \in Instances, NEW P, Goes(i, P), qty' = qty,
         "move" \notin P, "write" \notin P
  PROVE  ShelfInv'
<1>1. NeverNegative'
  BY DEF ShelfInv, NeverNegative
<1>2. ASSUME NEW j \in Instances
      PROVE  Enough(calls'[j])
  BY DEF Goes, ShelfInv, Enough
<1> QED BY <1>1, <1>2 DEF ShelfInv

LEMMA ShelfRead ==
  ASSUME FunnelOK, ShelfInv, NEW i \in Instances, ReadItems(i)
  PROVE  ShelfInv'
<1> PICK q : q = calls[i]
  OBVIOUS
<1>1. q \in Call /\ Sound(q, Len(enrolled), Len(moves)) /\ q.pc = "read"
  BY CallOf DEF ReadItems
<1>2. qty' = qty /\ Goes(i, {"move"} \union Ends)
  BY WorkGoes DEF ReadItems, stockVars
<1>3. CASE Finish(i)
  <2>1. Goes(i, Ends)
    BY <1>1, <1>3, FinishGoes
  <2> QED BY <1>2, <2>1, ShelfStays DEF Ends
<1>4. CASE /\ \A n \in DOMAIN q.todo : qty[q.todo[n].item] + q.todo[n].change >= 0
           /\ Set(i, [q EXCEPT !.pc = "move", !.held = qty])
  <2> PICK h : h = qty
    OBVIOUS
  <2> PICK r : r = [q EXCEPT !.pc = "move", !.held = h]
    OBVIOUS
  <2>1. r.todo = q.todo /\ r.held = h /\ r.pc = "move"
    BY <1>1 DEF Call
  <2>2. Enough(r)
    BY <1>4, <2>1 DEF Enough
  <2>3. Set(i, r)
    BY <1>4
  <2>4. calls'[i] = r
    BY <2>1, <2>3, SetGoes
  <2>5. \A j \in Instances : Enough(calls'[j])
    BY <1>2, <2>2, <2>4 DEF Goes, ShelfInv
  <2> QED BY <1>2, <2>5 DEF ShelfInv, NeverNegative
<1> QED BY <1>3, <1>4 DEF ReadItems

LEMMA ShelfMove ==
  ASSUME FunnelOK, ShelfInv, NEW i \in Instances, InsertMove(i)
  PROVE  ShelfInv'
<1> PICK q, k : q = calls[i] /\ k = Len(moves) + 1
  OBVIOUS
<1>1. q \in Call /\ q.pc = "move" /\ Enough(q)
  BY CallOf DEF InsertMove, ShelfInv
<1> PICK r : r = [q EXCEPT !.pc = "write", !.move = k]
  OBVIOUS
<1>2. r.todo = q.todo /\ r.held = q.held /\ r.pc = "write"
  BY <1>1 DEF Call
<1>3. Enough(r)
  BY <1>1, <1>2 DEF Enough
<1>4. Set(i, r) /\ qty' = qty
  BY DEF InsertMove
<1>5. calls'[i] = r /\ Goes(i, {"write"})
  BY <1>2, <1>4, SetGoes
<1>6. \A j \in Instances : Enough(calls'[j])
  BY <1>3, <1>5 DEF Goes, ShelfInv
<1> QED BY <1>4, <1>6 DEF ShelfInv, NeverNegative

LEMMA ShelfWrite ==
  ASSUME FunnelOK, ShelfInv, NEW i \in Instances, WriteQty(i)
  PROVE  ShelfInv'
<1> PICK q : q = calls[i]
  OBVIOUS
<1> PICK line : line = Head(q.todo)
  OBVIOUS
<1>1. q \in Call /\ Sound(q, Len(enrolled), Len(moves)) /\ q.pc = "write" /\ Enough(q)
  BY CallOf DEF WriteQty, ShelfInv
<1>2. q.todo \in Seq(StockLine) /\ q.todo # <<>>
  BY <1>1 DEF Sound
<1>3. q.held[line.item] + line.change >= 0
  <2>1. Head(q.todo) = q.todo[1] /\ 1 \in DOMAIN q.todo
    BY <1>2
  <2> QED BY <1>1, <2>1 DEF Enough
<1>4. NeverNegative'
  <2>1. qty' = [qty EXCEPT ![line.item] = q.held[line.item] + line.change]
    BY DEF WriteQty
  <2> QED BY <1>3, <2>1 DEF ShelfInv, NeverNegative, FunnelOK, StockOK
<1>5. \A j \in Instances \ {i} : calls'[j] = calls[j]
  BY WorkGoes DEF Goes
<1>6. Enough(calls'[i])
  <2>1. CASE calls'[i].pc \notin {"move", "write"}
    BY <2>1 DEF Enough
  <2>2. CASE Finish(i)
    <3>1. calls'[i].pc \in Ends
      BY <1>1, <2>2, FinishGoes
    <3> QED BY <3>1 DEF Ends, Enough
  <2>3. CASE Goto(i, "anchor")
    <3>1. Goes(i, {"anchor"})
      BY <2>3, GotoGoes
    <3> QED BY <3>1 DEF Goes, Enough
  <2>4. CASE Len(q.todo) > 1 /\ Set(i, [q EXCEPT !.pc = "move", !.todo = Tail(@)])
    <3> PICK t : t = Tail(q.todo)
      OBVIOUS
    <3>1. \A n \in DOMAIN t : n + 1 \in DOMAIN q.todo /\ t[n] = q.todo[n + 1]
      <4>1. /\ DOMAIN q.todo = 1 .. Len(q.todo) /\ Len(q.todo) \in Nat
            /\ t \in Seq(StockLine) /\ Len(t) = Len(q.todo) - 1
            /\ \A n \in 1 .. Len(t) : t[n] = q.todo[n + 1]
        BY <1>2, HeadTailProperties
      <4>2. DOMAIN t = 1 .. Len(q.todo) - 1
        BY <4>1
      <4> QED BY <4>1, <4>2
    <3> PICK r : r = [q EXCEPT !.pc = "move", !.todo = t]
      OBVIOUS
    <3>2. r.todo = t /\ r.held = q.held /\ r.pc = "move"
      BY <1>1 DEF Call
    <3>3. Enough(r)
      BY <1>1, <3>1, <3>2 DEF Enough
    <3>4. Set(i, r)
      BY <2>4
    <3>5. calls'[i] = r
      BY <3>2, <3>4, SetGoes
    <3> QED BY <3>3, <3>5
  <2> QED BY <2>2, <2>3, <2>4 DEF WriteQty
<1>7. \A j \in Instances : Enough(calls'[j])
  BY <1>5, <1>6 DEF ShelfInv
<1> QED BY <1>4, <1>7 DEF ShelfInv

LEMMA ShelfStep == ASSUME FunnelOK, ShelfInv, [Next]_vars PROVE ShelfInv'
<1>1. CASE UNCHANGED vars
  BY <1>1 DEF vars, stockVars, shared, ShelfInv, NeverNegative
<1>2. CASE Edit
  <2>1. qty' = qty
    BY <1>2 DEF Edit, StockEdit, EditProduct, LinkItem, ChangePipeline, stockVars
  <2>2. calls' = calls
    BY <1>2, EditGoes
  <2> QED BY <2>1, <2>2 DEF ShelfInv, NeverNegative
<1>3. ASSUME NEW i \in Instances, Request(i)
      PROVE  ShelfInv'
  <2>1. qty' = qty
    BY <1>3 DEF Request, StockRequest, ArriveMovement, ArriveStage, stockVars
  <2> QED BY <1>3, <2>1, RequestGoes, ShelfStays
<1>4. ASSUME NEW i \in Instances, CadenceWork(i), UNCHANGED stockVars
      PROVE  ShelfInv'
  <2>1. qty' = qty
    BY <1>4 DEF stockVars
  <2>2. PICK P : Goes(i, P) /\ "move" \notin P /\ "write" \notin P
    BY <1>4, WorkGoes DEF CadenceWork, Ends
  <2> QED BY <2>1, <2>2, ShelfStays
<1>5. ASSUME NEW i \in Instances,
             \/ Sync(i) \/ Consume(i) \/ Restore(i) \/ WriteAnchor(i) \/ ChangeStage(i)
             \/ RunRules(i) \/ Die(i) \/ Stumble(i)
      PROVE  ShelfInv'
  <2>1. qty' = qty
    BY <1>5 DEF Sync, Consume, Restore, WriteAnchor, ChangeStage, RunRules, Die, Stumble,
       stockVars
  <2>2. PICK P : Goes(i, P) /\ "move" \notin P /\ "write" \notin P
    BY <1>5, WorkGoes DEF Ends
  <2> QED BY <2>1, <2>2, ShelfStays
<1>6. ASSUME NEW i \in Instances, StockWork(i)
      PROVE  ShelfInv'
  BY <1>5, <1>6, ShelfRead, ShelfMove, ShelfWrite DEF StockWork
<1> QED BY <1>1, <1>2, <1>3, <1>4, <1>5, <1>6 DEF Next, Work

(***************************************************************************)
(* However many movements overlap, and wherever instances die, no item     *)
(* falls below zero: every quantity that is written was found to be enough *)
(* when it was read, line by line, also when it is written over another    *)
(* one.                                                                    *)
(***************************************************************************)
THEOREM ShelfCorrect == Spec => []NeverNegative
<1>1. Init => ShelfInv
  <2> SUFFICES ASSUME Init PROVE ShelfInv
    OBVIOUS
  <2>1. NeverNegative
    BY ConstantFacts DEF Init, NeverNegative
  <2>2. \A i \in Instances : calls[i] = Idle
    BY DEF Init
  <2> QED BY <2>1, <2>2, IdleFields DEF ShelfInv, Enough
<1>2. FunnelOK /\ ShelfInv /\ [Next]_vars => ShelfInv'
  BY ShelfStep
<1>3. ShelfInv => NeverNegative
  BY DEF ShelfInv
<1> QED BY <1>1, <1>2, <1>3, AlwaysOK, PTL DEF Spec

----------------------------------------------------------------------------
(* The steps of the funnel, as the cadences see them.                      *)

\* A step of i that touches no enrolment and takes none in hand.  One that
\* drops an enrolment is a fault; one that begins comes as the server allows.
Quiet(i) ==
  /\ \A j \in Instances \ {i} : calls'[j] = calls[j]
  /\ calls'[i].pc \notin {"insert", "fire", "advance"}
  /\ UNCHANGED <<enrolled, fired, world>>
  /\ faults' = faults \/ faults' # 0
  /\ calls[i].pc \in {"fire", "advance"} => faults' # 0
  /\ calls[i].pc = "idle" => Cardinality(Busy) < world.together

NoCall == UNCHANGED <<fired, calls, faults, world>>

LEMMA RequestBegins ==
  ASSUME NEW i \in Instances, Request(i)
  PROVE  Cardinality(Busy) < world.together /\ UNCHANGED <<enrolled, fired, faults, world>>
  BY DEF Request, CadenceRequest, StockRequest, ArriveEnrol, StartCron, ArriveReply,
     ArriveMovement, ArriveStage, Accept, cadenceVars

LEMMA Kinds ==
  ASSUME FunnelOK, [Next]_vars
  PROVE  \/ NoCall /\ (enrolled' = enrolled \/ \E e \in DOMAIN enrolled : enrolled' = Cancelled(e))
         \/ \E i \in Instances :
              \/ Quiet(i) \/ FindActive(i) \/ InsertEnrolment(i) \/ ReadEnrolment(i)
              \/ FireStep(i) \/ Advance(i) \/ StopOne(i)
<1> DEFINE Goal ==
      \/ NoCall /\ (enrolled' = enrolled \/ \E e \in DOMAIN enrolled : enrolled' = Cancelled(e))
      \/ \E i \in Instances :
           \/ Quiet(i) \/ FindActive(i) \/ InsertEnrolment(i) \/ ReadEnrolment(i)
           \/ FireStep(i) \/ Advance(i) \/ StopOne(i)
<1>1. CASE UNCHANGED vars
  BY <1>1 DEF vars, cadenceVars, shared, NoCall
<1>2. CASE Edit
  <2>1. UNCHANGED <<calls, faults, world>>
    BY <1>2, EditGoes
  <2>2. fired' = fired
    BY <1>2 DEF Edit, CancelEnrolment, Toggle, NextDay, ChangePipeline, cadenceVars
  <2>3. enrolled' = enrolled \/ \E e \in DOMAIN enrolled : enrolled' = Cancelled(e)
    BY <1>2 DEF Edit, CancelEnrolment, Toggle, NextDay, ChangePipeline, cadenceVars
  <2> QED BY <2>1, <2>2, <2>3 DEF NoCall
<1>3. ASSUME NEW i \in Instances, Request(i)
      PROVE  Quiet(i)
  BY <1>3, RequestGoes, RequestBegins DEF Quiet, Goes
<1>4. ASSUME NEW i \in Instances,
             \/ EnrolByStage(i) \/ Sync(i) \/ Consume(i) \/ Restore(i) \/ ReadItems(i)
             \/ InsertMove(i) \/ WriteQty(i) \/ WriteAnchor(i) \/ ChangeStage(i) \/ RunRules(i),
             UNCHANGED cadenceVars
      PROVE  Quiet(i)
  <2>1. calls[i].pc \notin {"idle", "fire", "advance"} /\ UNCHANGED <<enrolled, fired, faults, world>>
    BY <1>4 DEF EnrolByStage, Sync, Consume, Restore, ReadItems, InsertMove, WriteQty,
       WriteAnchor, ChangeStage, RunRules, cadenceVars
  <2>2. /\ \A j \in Instances \ {i} : calls'[j] = calls[j]
        /\ calls'[i].pc \notin {"insert", "fire", "advance"}
    BY <1>4, WorkGoes DEF Goes, Ends
  <2> QED BY <2>1, <2>2 DEF Quiet
<1>5. ASSUME NEW i \in Instances, Die(i) \/ Stumble(i)
      PROVE  Quiet(i)
  <2>1. UNCHANGED <<enrolled, fired, world>> /\ faults' # 0
    BY <1>5, ConstantFacts DEF Die, Stumble, cadenceVars, FunnelOK, CallsOK
  <2>2. calls[i].pc # "idle"
    BY <1>5 DEF Die, Stumble, Busy
  <2>3. /\ \A j \in Instances \ {i} : calls'[j] = calls[j]
        /\ calls'[i].pc \notin {"insert", "fire", "advance"}
    BY <1>5, WorkGoes DEF Goes, Ends
  <2> QED BY <2>1, <2>2, <2>3 DEF Quiet
<1>6. ASSUME NEW i \in Instances, Work(i)
      PROVE  Goal
  <2>1. EnrolByStage(i) => UNCHANGED cadenceVars
    BY DEF EnrolByStage
  <2>2. ChangeStage(i) \/ RunRules(i) => UNCHANGED cadenceVars
    BY DEF ChangeStage, RunRules
  <2> QED BY <1>4, <1>6, <2>1, <2>2 DEF Work, CadenceWork, StockWork
<1>7. Goal
  <2> HIDE DEF Goal
  <2>1. ASSUME NEW i \in Instances, Request(i) \/ Die(i) \/ Stumble(i)
        PROVE  Goal
    BY <1>3, <1>5, <2>1 DEF Goal
  <2>2. CASE Next
    BY <1>2, <1>6, <2>1, <2>2 DEF Next, Goal
  <2>3. CASE UNCHANGED vars
    BY <1>1, <2>3 DEF Goal
  <2> QED BY <2>2, <2>3
<1> QED BY <1>7

----------------------------------------------------------------------------
(* What the steps of the cadences do to the rows.                          *)

LEMMA RowType ==
  ASSUME FunnelOK, NEW e \in DOMAIN enrolled
  PROVE  enrolled[e] \in Enrolment /\ fired[e] \in Seq(Nat)
<1>1. e \in 1 .. Len(enrolled) /\ e \in 1 .. Len(fired)
  BY Lengths DEF FunnelOK, CadenceOK
<1> QED BY <1>1, ElementOfSeq DEF FunnelOK, CadenceOK

LEMMA InHandRow ==
  ASSUME FunnelOK, NEW i \in Instances, calls[i].pc \in {"fire", "advance", "stop"}
  PROVE  Head(calls[i].todo) \in DOMAIN enrolled /\ calls[i].step \in Nat
<1> PICK q : q = calls[i]
  OBVIOUS
<1>1. q \in Call /\ q.todo \in Seq(1 .. Len(enrolled)) /\ q.todo # <<>>
  BY CallOf DEF Sound
<1> QED BY <1>1, Shorter, Lengths DEF Call

LEMMA CancelRows ==
  ASSUME FunnelOK, NEW e \in DOMAIN enrolled, enrolled' = Cancelled(e)
  PROVE  /\ DOMAIN enrolled' = DOMAIN enrolled
         /\ \A d \in DOMAIN enrolled \ {e} : enrolled'[d] = enrolled[d]
         /\ \A d \in DOMAIN enrolled : /\ enrolled'[d].step = enrolled[d].step
                                       /\ enrolled'[d].cadence = enrolled[d].cadence
                                       /\ enrolled'[d].lead = enrolled[d].lead
         /\ enrolled'[e].status = "cancelled"
<1> PICK new : new = [enrolled[e] EXCEPT !.status = "cancelled", !.at = Never]
  OBVIOUS
<1>1. enrolled' = [enrolled EXCEPT ![e] = new]
  BY DEF Cancelled
<1>2. /\ new.step = enrolled[e].step /\ new.cadence = enrolled[e].cadence
      /\ new.lead = enrolled[e].lead /\ new.status = "cancelled"
  BY RowType DEF Enrolment
<1> QED BY <1>1, <1>2

LEMMA AdvanceRows ==
  ASSUME FunnelOK, NEW i \in Instances, Advance(i),
         NEW q, NEW e, q = calls[i], e = Head(q.todo)
  PROVE  /\ q.pc = "advance" /\ e \in DOMAIN enrolled /\ q.step \in Nat
         /\ DOMAIN enrolled' = DOMAIN enrolled /\ fired' = fired
         /\ \A d \in DOMAIN enrolled \ {e} : enrolled'[d] = enrolled[d]
         /\ \A d \in DOMAIN enrolled : /\ enrolled'[d].cadence = enrolled[d].cadence
                                       /\ enrolled'[d].lead = enrolled[d].lead
         /\ enrolled'[e].step = q.step + 1
         /\ enrolled'[e].status = "active" => q.step + 1 < Len(Steps[enrolled[e].cadence])
<1>1. q.pc = "advance" /\ e \in DOMAIN enrolled /\ q.step \in Nat
  BY InHandRow DEF Advance
<1> PICK at, status : /\ at = NextFire(enrolled[e].cadence, q.step + 1)
                      /\ status = IF q.step + 1 < Len(Steps[enrolled[e].cadence])
                                  THEN "active" ELSE "done"
  OBVIOUS
<1> PICK new : new = [enrolled[e] EXCEPT !.step = q.step + 1, !.at = at, !.status = status]
  OBVIOUS
<1>2. enrolled' = [enrolled EXCEPT ![e].step = q.step + 1, ![e].at = at, ![e].status = status]
  BY DEF Advance
<1>3. enrolled' = [enrolled EXCEPT ![e] = new]
  BY <1>2
<1>4. /\ new.step = q.step + 1 /\ new.cadence = enrolled[e].cadence
      /\ new.lead = enrolled[e].lead /\ new.status = status
  BY <1>1, RowType DEF Enrolment
<1>5. fired' = fired
  BY DEF Advance
<1> QED BY <1>1, <1>3, <1>4, <1>5

\* The task of the step in the call q is made for its enrolment e.
TaskMade(q, e) ==
  /\ q.pc = "fire" /\ e \in DOMAIN enrolled /\ q.step \in Nat /\ enrolled' = enrolled
  /\ \A d \in DOMAIN enrolled \ {e} : fired'[d] = fired[d]
  /\ DOMAIN fired'[e] = 1 .. Len(fired[e]) + 1
  /\ DOMAIN fired[e] = 1 .. Len(fired[e]) /\ Len(fired[e]) \in Nat
  /\ \A k \in DOMAIN fired[e] : fired'[e][k] = fired[e][k]
  /\ fired'[e][Len(fired[e]) + 1] = q.step

LEMMA FireRows ==
  ASSUME FunnelOK, NEW i \in Instances, FireStep(i),
         calls[i].step < Len(Steps[enrolled[Head(calls[i].todo)].cadence])
  PROVE  TaskMade(calls[i], Head(calls[i].todo))
<1> PICK q, e : q = calls[i] /\ e = Head(q.todo)
  OBVIOUS
<1>1. q.pc = "fire" /\ e \in DOMAIN enrolled /\ q.step \in Nat
  BY InHandRow DEF FireStep
<1>2. fired' = [fired EXCEPT ![e] = Append(fired[e], q.step)] /\ enrolled' = enrolled
  BY DEF FireStep
<1>3. DOMAIN fired = DOMAIN enrolled
  BY Lengths
<1>4. fired[e] \in Seq(Nat)
  BY <1>1, RowType
<1>5. fired'[e] = Append(fired[e], q.step)
  BY <1>1, <1>2, <1>3
<1>6. \A d \in DOMAIN enrolled \ {e} : fired'[d] = fired[d]
  BY <1>2, <1>3
<1>7. /\ DOMAIN fired'[e] = 1 .. Len(fired[e]) + 1
      /\ DOMAIN fired[e] = 1 .. Len(fired[e]) /\ Len(fired[e]) \in Nat
      /\ \A k \in DOMAIN fired[e] : fired'[e][k] = fired[e][k]
      /\ fired'[e][Len(fired[e]) + 1] = q.step
  <2> PICK f, n : f = fired[e] /\ n = q.step
    OBVIOUS
  <2>1. f \in Seq(Nat) /\ n \in Nat
    BY <1>1, <1>4
  <2>2. /\ DOMAIN Append(f, n) = 1 .. Len(f) + 1
        /\ DOMAIN f = 1 .. Len(f) /\ Len(f) \in Nat
        /\ \A k \in DOMAIN f : Append(f, n)[k] = f[k]
        /\ Append(f, n)[Len(f) + 1] = n
    <3>1. DOMAIN f = 1 .. Len(f) /\ Len(f) \in Nat
      BY <2>1
    <3>2. DOMAIN Append(f, n) = 1 .. Len(f) + 1
      BY <2>1
    <3>3. \A k \in 1 .. Len(f) : Append(f, n)[k] = f[k]
      BY <2>1
    <3>4. Append(f, n)[Len(f) + 1] = n
      BY <2>1, <3>1
    <3> QED BY <3>1, <3>2, <3>3, <3>4
  <2> QED BY <1>5, <2>2
<1> QED BY <1>1, <1>2, <1>6, <1>7 DEF TaskMade

\* A row is added for the call q at the place k.
Inserted(q, k) ==
  /\ q.pc = "insert" /\ k \notin DOMAIN enrolled
  /\ DOMAIN enrolled' = DOMAIN enrolled \union {k}
  /\ \A d \in DOMAIN enrolled : enrolled'[d] = enrolled[d] /\ fired'[d] = fired[d]
  /\ enrolled'[k].lead = q.lead /\ enrolled'[k].cadence = Head(q.todo)
  /\ enrolled'[k].step = 0 /\ fired'[k] = <<>>
  /\ enrolled'[k].status = "active" => Steps[Head(q.todo)] # <<>>

LEMMA InsertRows ==
  ASSUME FunnelOK, NEW i \in Instances, InsertEnrolment(i)
  PROVE  Inserted(calls[i], Len(enrolled) + 1)
<1> PICK q, k : q = calls[i] /\ k = Len(enrolled) + 1
  OBVIOUS
<1> PICK row : row = [lead |-> q.lead, cadence |-> Head(q.todo), step |-> 0,
                      status |-> IF Steps[Head(q.todo)] # <<>> THEN "active" ELSE "done",
                      at |-> NextFire(Head(q.todo), 0)]
  OBVIOUS
<1>1. q.pc = "insert" /\ enrolled' = Append(enrolled, row) /\ fired' = Append(fired, <<>>)
  BY DEF InsertEnrolment
<1>2. /\ enrolled \in Seq(Enrolment) /\ fired \in Seq(Seq(Nat)) /\ Len(fired) = Len(enrolled)
      /\ Len(enrolled) \in Nat /\ DOMAIN enrolled = 1 .. Len(enrolled)
  BY Lengths DEF FunnelOK, CadenceOK
<1>3. /\ DOMAIN enrolled' = 1 .. Len(enrolled) + 1
      /\ \A d \in 1 .. Len(enrolled) : enrolled'[d] = enrolled[d]
      /\ enrolled'[k] = row
  BY <1>1, <1>2
<1>4. /\ \A d \in 1 .. Len(enrolled) : fired'[d] = fired[d]
      /\ fired'[k] = <<>>
  BY <1>1, <1>2
<1>5. DOMAIN enrolled' = DOMAIN enrolled \union {k} /\ k \notin DOMAIN enrolled
  BY <1>2, <1>3
<1> QED BY <1>1, <1>2, <1>3, <1>4, <1>5 DEF Inserted

\* The enrolment taken up next is on the list, active and switched on.
LEMMA ReadCall ==
  ASSUME FunnelOK, NEW i \in Instances, ReadEnrolment(i),
         NEW q, NEW r, NEW e, q = calls[i], r = calls'[i], e = Head(q.todo)
  PROVE  /\ q.pc = "next" /\ r.pc \notin {"advance", "insert"}
         /\ \A j \in Instances \ {i} : calls'[j] = calls[j]
         /\ UNCHANGED <<enrolled, fired, faults, world>>
         /\ r.pc = "fire" => /\ r.todo = q.todo /\ e \in DOMAIN enrolled
                             /\ enrolled[e].status = "active" /\ r.step = enrolled[e].step
<1>1. q \in Call /\ Sound(q, Len(enrolled), Len(moves)) /\ q.pc = "next"
  BY CallOf DEF ReadEnrolment
<1>2. q.todo \in Seq(1 .. Len(enrolled))
  BY <1>1 DEF Sound
<1>3. /\ \A j \in Instances \ {i} : calls'[j] = calls[j]
      /\ r.pc \notin {"advance", "insert"}
  BY WorkGoes DEF Goes, Ends
<1>4. UNCHANGED <<enrolled, fired, faults, world>>
  BY DEF ReadEnrolment, cadenceVars
<1>5. r.pc = "fire" => /\ r.todo = q.todo /\ e \in DOMAIN enrolled
                       /\ enrolled[e].status = "active" /\ r.step = enrolled[e].step
  <2>1. CASE Finish(i)
    <3>1. r.pc \in Ends
      BY <1>1, <2>1, FinishGoes
    <3> QED BY <3>1 DEF Ends
  <2>2. CASE NextOf(i)
    <3>1. Goes(i, {"next"})
      BY <1>1, <2>2, NextGoes
    <3> QED BY <3>1 DEF Goes
  <2>3. CASE /\ q.todo # <<>> /\ enrolled[e].status = "active"
             /\ Set(i, [q EXCEPT !.pc = "fire", !.step = enrolled[Head(q.todo)].step])
    <3> PICK n : n = enrolled[Head(q.todo)].step
      OBVIOUS
    <3> PICK s : s = [q EXCEPT !.pc = "fire", !.step = n]
      OBVIOUS
    <3>1. s.pc = "fire" /\ s.todo = q.todo /\ s.step = n
      BY <1>1 DEF Call
    <3>2. Set(i, s)
      BY <2>3
    <3>3. r = s
      BY <3>1, <3>2, SetGoes
    <3>4. e \in DOMAIN enrolled
      BY <1>2, <2>3, Shorter, Lengths
    <3> QED BY <2>3, <3>1, <3>3, <3>4
  <2> QED BY <2>1, <2>2, <2>3 DEF ReadEnrolment
<1> QED BY <1>1, <1>3, <1>4, <1>5

LEMMA FireCall ==
  ASSUME FunnelOK, NEW i \in Instances, FireStep(i),
         NEW q, NEW r, q = calls[i], r = calls'[i]
  PROVE  /\ r.pc = "advance" /\ r.todo = q.todo /\ r.step = q.step
         /\ \A j \in Instances \ {i} : calls'[j] = calls[j]
         /\ UNCHANGED <<faults, world>>
<1> PICK s : s = [q EXCEPT !.pc = "advance"]
  OBVIOUS
<1>1. s.pc = "advance" /\ s.todo = q.todo /\ s.step = q.step
  BY CallOf DEF Call
<1>2. Set(i, s)
  BY DEF FireStep, Goto
<1>3. r = s
  BY <1>1, <1>2, SetGoes
<1>4. \A j \in Instances \ {i} : calls'[j] = calls[j]
  BY WorkGoes DEF Goes
<1>5. UNCHANGED <<faults, world>>
  BY DEF FireStep
<1> QED BY <1>1, <1>3, <1>4, <1>5

\* The other steps of the cadences leave their call with nothing in hand.
LEMMA HandsEmpty ==
  ASSUME FunnelOK, NEW i \in Instances,
         FindActive(i) \/ InsertEnrolment(i) \/ Advance(i) \/ StopOne(i)
  PROVE  /\ \A j \in Instances \ {i} : calls'[j] = calls[j]
         /\ calls'[i].pc \notin {"fire", "advance"}
         /\ calls[i].pc \notin {"idle", "fire"} /\ (calls[i].pc = "advance" => Advance(i))
         /\ calls'[i].pc = "insert" => FindActive(i)
         /\ UNCHANGED <<faults, world>>
<1>1. /\ \A j \in Instances \ {i} : calls'[j] = calls[j]
      /\ calls'[i].pc \notin {"fire", "advance"}
      /\ calls'[i].pc = "insert" => FindActive(i)
  BY WorkGoes DEF Goes, Ends
<1>2. /\ calls[i].pc \notin {"idle", "fire"} /\ (calls[i].pc = "advance" => Advance(i))
      /\ UNCHANGED <<faults, world>>
  BY DEF FindActive, InsertEnrolment, Advance, StopOne
<1> QED BY <1>1, <1>2

----------------------------------------------------------------------------
(* No step is skipped.                                                     *)

\* Enrolment e has made the task of step n.
Made(f, e, n) == \E k \in DOMAIN f[e] : f[e][k] = n

RowsPast(rows, f) ==
  \A e \in DOMAIN rows :
    /\ \A n \in 0 .. rows[e].step - 1 : Made(f, e, n)
    /\ rows[e].status = "active" => rows[e].step < Len(Steps[rows[e].cadence])

\* What is in hand has made all its tasks up to the step that was read, and
\* this one too when it is about to be advanced.
HandPast(q, rows, f) ==
  q.pc \in {"fire", "advance"} =>
    /\ q.step < Len(Steps[rows[Head(q.todo)].cadence])
    /\ \A n \in 0 .. q.step - 1 : Made(f, Head(q.todo), n)
    /\ q.pc = "advance" => Made(f, Head(q.todo), q.step)

StepInv == RowsPast(enrolled, fired) /\ \A i \in Instances : HandPast(calls[i], enrolled, fired)

LEMMA HandPastGrows ==
  ASSUME FunnelOK, NEW i \in Instances, HandPast(calls[i], enrolled, fired),
         \A e \in DOMAIN enrolled : enrolled'[e].cadence = enrolled[e].cadence,
         \A e \in DOMAIN enrolled : \A n : Made(fired, e, n) => Made(fired', e, n)
  PROVE  HandPast(calls[i], enrolled', fired')
<1> SUFFICES ASSUME calls[i].pc \in {"fire", "advance"}
             PROVE  HandPast(calls[i], enrolled', fired')
  BY DEF HandPast
<1>1. Head(calls[i].todo) \in DOMAIN enrolled
  BY InHandRow
<1> QED BY <1>1 DEF HandPast

\* A step of i that leaves its call with nothing in hand.
LEMMA PastStays ==
  ASSUME FunnelOK, StepInv, NEW i,
         \A j \in Instances \ {i} : calls'[j] = calls[j],
         i \in Instances => calls'[i].pc \notin {"fire", "advance"},
         RowsPast(enrolled', fired'),
         \A e \in DOMAIN enrolled : enrolled'[e].cadence = enrolled[e].cadence,
         \A e \in DOMAIN enrolled : \A n : Made(fired, e, n) => Made(fired', e, n)
  PROVE  StepInv'
<1>1. ASSUME NEW j \in Instances
      PROVE  HandPast(calls'[j], enrolled', fired')
  <2>1. CASE j = i
    BY <2>1 DEF HandPast
  <2>2. CASE j # i
    BY <2>2, HandPastGrows DEF StepInv
  <2> QED BY <2>1, <2>2
<1> QED BY <1>1 DEF StepInv

LEMMA PastCancel ==
  ASSUME FunnelOK, StepInv, NEW e \in DOMAIN enrolled, enrolled' = Cancelled(e), fired' = fired
  PROVE  /\ RowsPast(enrolled', fired')
         /\ \A d \in DOMAIN enrolled : enrolled'[d].cadence = enrolled[d].cadence
         /\ \A d \in DOMAIN enrolled : \A n : Made(fired, d, n) => Made(fired', d, n)
<1>1. ASSUME NEW d \in DOMAIN enrolled
      PROVE  /\ \A n \in 0 .. enrolled'[d].step - 1 : Made(fired', d, n)
             /\ enrolled'[d].status = "active" =>
                  enrolled'[d].step < Len(Steps[enrolled'[d].cadence])
  BY CancelRows DEF StepInv, RowsPast, Made
<1> QED BY <1>1, CancelRows DEF RowsPast

LEMMA PastInsert ==
  ASSUME FunnelOK, StepInv, NEW i \in Instances, InsertEnrolment(i)
  PROVE  StepInv'
<1> PICK q, k : q = calls[i] /\ k = Len(enrolled) + 1
  OBVIOUS
<1>6. Inserted(q, k)
  BY InsertRows
<1>4. /\ DOMAIN enrolled' = DOMAIN enrolled \union {k} /\ q.pc = "insert"
      /\ \A d \in DOMAIN enrolled : enrolled'[d] = enrolled[d] /\ fired'[d] = fired[d]
  BY <1>6 DEF Inserted
<1>5. /\ enrolled'[k].cadence = Head(q.todo) /\ enrolled'[k].step = 0
      /\ enrolled'[k].status = "active" => Steps[Head(q.todo)] # <<>>
  BY <1>6 DEF Inserted
<1>1. RowsPast(enrolled', fired')
  <2>1. ASSUME NEW d \in DOMAIN enrolled'
        PROVE  /\ \A n \in 0 .. enrolled'[d].step - 1 : Made(fired', d, n)
               /\ enrolled'[d].status = "active" =>
                    enrolled'[d].step < Len(Steps[enrolled'[d].cadence])
    <3>1. CASE d = k
      <4>1. Head(q.todo) \in Cadences
        BY <1>4, CallOf, Shorter DEF Sound
      <4>2. Steps[Head(q.todo)] # <<>> => 0 < Len(Steps[Head(q.todo)])
        <5>1. Steps[Head(q.todo)] \in Seq(Nat)
          BY <4>1, ConstantFacts
        <5> QED BY <5>1, EmptySeq
      <4> QED BY <1>5, <3>1, <4>2
    <3>2. CASE d # k
      <4>1. d \in DOMAIN enrolled /\ enrolled'[d] = enrolled[d] /\ fired'[d] = fired[d]
        BY <1>4, <3>2
      <4> QED BY <4>1 DEF StepInv, RowsPast, Made
    <3> QED BY <3>1, <3>2
  <2> QED BY <2>1 DEF RowsPast
<1>2. \A e \in DOMAIN enrolled : enrolled'[e].cadence = enrolled[e].cadence
  BY <1>4
<1>3. \A e \in DOMAIN enrolled : \A n : Made(fired, e, n) => Made(fired', e, n)
  BY <1>4 DEF Made
<1> QED BY <1>1, <1>2, <1>3, HandsEmpty, PastStays

LEMMA PastRead ==
  ASSUME FunnelOK, StepInv, NEW i \in Instances, ReadEnrolment(i)
  PROVE  StepInv'
<1> PICK q, r, e : q = calls[i] /\ r = calls'[i] /\ e = Head(q.todo)
  OBVIOUS
<1>1. UNCHANGED <<enrolled, fired>> /\ \A j \in Instances \ {i} : calls'[j] = calls[j]
  BY ReadCall
<1>2. HandPast(r, enrolled, fired)
  <2> SUFFICES ASSUME r.pc \in {"fire", "advance"}
               PROVE  HandPast(r, enrolled, fired)
    BY DEF HandPast
  <2>1. /\ r.pc = "fire" /\ r.todo = q.todo /\ e \in DOMAIN enrolled
        /\ enrolled[e].status = "active" /\ r.step = enrolled[e].step
    BY ReadCall
  <2> QED BY <2>1 DEF StepInv, RowsPast, HandPast
<1> QED BY <1>1, <1>2 DEF StepInv

LEMMA PastFire ==
  ASSUME FunnelOK, StepInv, NEW i \in Instances, FireStep(i)
  PROVE  StepInv'
<1> PICK q, r, e : q = calls[i] /\ r = calls'[i] /\ e = Head(q.todo)
  OBVIOUS
<1>1. HandPast(q, enrolled, fired) /\ q.pc = "fire"
  BY DEF StepInv, FireStep
<1>2. q.step < Len(Steps[enrolled[e].cadence])
  BY <1>1 DEF HandPast
<1>8. TaskMade(q, e)
  BY <1>2, FireRows
<1>3. e \in DOMAIN enrolled /\ enrolled' = enrolled
  BY <1>8 DEF TaskMade
<1>4. Made(fired', e, q.step)
  <2>1. /\ Len(fired[e]) + 1 \in DOMAIN fired'[e]
        /\ fired'[e][Len(fired[e]) + 1] = q.step
    BY <1>8 DEF TaskMade
  <2> QED BY <2>1 DEF Made
<1>5. \A d \in DOMAIN enrolled : \A n : Made(fired, d, n) => Made(fired', d, n)
  <2> SUFFICES ASSUME NEW d \in DOMAIN enrolled, NEW n, NEW k \in DOMAIN fired[d],
                      fired[d][k] = n
               PROVE  Made(fired', d, n)
    BY DEF Made
  <2>1. CASE d = e
    <3>1. /\ DOMAIN fired'[e] = 1 .. Len(fired[e]) + 1 /\ Len(fired[e]) \in Nat
          /\ DOMAIN fired[e] = 1 .. Len(fired[e])
          /\ \A m \in DOMAIN fired[e] : fired'[e][m] = fired[e][m]
      BY <1>8 DEF TaskMade
    <3>2. k \in DOMAIN fired'[e] /\ fired'[e][k] = fired[e][k]
      BY <2>1, <3>1
    <3> QED BY <2>1, <3>2 DEF Made
  <2>2. CASE d # e
    BY <1>8, <2>2 DEF Made, TaskMade
  <2> QED BY <2>1, <2>2
<1>6. RowsPast(enrolled', fired')
  BY <1>3, <1>5 DEF StepInv, RowsPast
<1>7. ASSUME NEW j \in Instances
      PROVE  HandPast(calls'[j], enrolled', fired')
  <2>1. CASE j = i
    <3>1. r.pc = "advance" /\ r.todo = q.todo /\ r.step = q.step
      BY FireCall
    <3>2. \A n \in 0 .. q.step - 1 : Made(fired', e, n)
      BY <1>1, <1>3, <1>5 DEF HandPast
    <3> QED BY <1>2, <1>3, <1>4, <2>1, <3>1, <3>2 DEF HandPast
  <2>2. CASE j # i
    <3>1. calls'[j] = calls[j]
      BY <2>2, FireCall
    <3>2. HandPast(calls[j], enrolled', fired')
      BY <1>3, <1>5, HandPastGrows DEF StepInv
    <3> QED BY <3>1, <3>2
  <2> QED BY <2>1, <2>2
<1> QED BY <1>6, <1>7 DEF StepInv

LEMMA PastAdvance ==
  ASSUME FunnelOK, StepInv, NEW i \in Instances, Advance(i)
  PROVE  StepInv'
<1> PICK q, e : q = calls[i] /\ e = Head(q.todo)
  OBVIOUS
<1>1. HandPast(q, enrolled, fired) /\ q.pc = "advance" /\ q.step \in Nat
  BY AdvanceRows DEF StepInv
<1>2. RowsPast(enrolled', fired')
  <2>1. ASSUME NEW d \in DOMAIN enrolled'
        PROVE  /\ \A n \in 0 .. enrolled'[d].step - 1 : Made(fired', d, n)
               /\ enrolled'[d].status = "active" =>
                    enrolled'[d].step < Len(Steps[enrolled'[d].cadence])
    <3>1. CASE d = e
      <4>1. enrolled'[e].step = q.step + 1 /\ fired' = fired
        BY AdvanceRows
      <4>2. \A n \in 0 .. q.step : Made(fired, e, n)
        <5>1. \A n \in 0 .. q.step : n = q.step \/ n \in 0 .. q.step - 1
          BY <1>1
        <5> QED BY <1>1, <5>1 DEF HandPast
      <4>3. 0 .. (q.step + 1) - 1 = 0 .. q.step
        BY <1>1
      <4>4. enrolled'[e].status = "active" =>
              enrolled'[e].step < Len(Steps[enrolled'[e].cadence])
        BY AdvanceRows
      <4> QED BY <3>1, <4>1, <4>2, <4>3, <4>4
    <3>2. CASE d # e
      <4>1. d \in DOMAIN enrolled /\ enrolled'[d] = enrolled[d] /\ fired' = fired
        BY <3>2, AdvanceRows
      <4> QED BY <4>1 DEF StepInv, RowsPast
    <3> QED BY <3>1, <3>2
  <2> QED BY <2>1 DEF RowsPast
<1>3. /\ \A d \in DOMAIN enrolled : enrolled'[d].cadence = enrolled[d].cadence
      /\ fired' = fired
  BY AdvanceRows
<1> QED BY <1>2, <1>3, HandsEmpty, PastStays

LEMMA PastStep == ASSUME FunnelOK, StepInv, [Next]_vars PROVE StepInv'
<1>1. ASSUME NoCall, enrolled' = enrolled
      PROVE  StepInv'
  BY <1>1 DEF NoCall, StepInv
<1>2. ASSUME NoCall, NEW e \in DOMAIN enrolled, enrolled' = Cancelled(e)
      PROVE  StepInv'
  <2>1. fired' = fired /\ \A j \in Instances : calls'[j] = calls[j]
    BY <1>2 DEF NoCall
  <2>2. /\ RowsPast(enrolled', fired')
        /\ \A d \in DOMAIN enrolled : enrolled'[d].cadence = enrolled[d].cadence
        /\ \A d \in DOMAIN enrolled : \A n : Made(fired, d, n) => Made(fired', d, n)
    BY <1>2, <2>1, PastCancel
  <2>3. \A j \in Instances : HandPast(calls'[j], enrolled', fired')
    BY <2>1, <2>2, HandPastGrows DEF StepInv
  <2> QED BY <2>2, <2>3 DEF StepInv
<1>3. ASSUME NEW i \in Instances, Quiet(i)
      PROVE  StepInv'
  BY <1>3, PastStays DEF Quiet, StepInv
<1>4. ASSUME NEW i \in Instances, FindActive(i)
      PROVE  StepInv'
  <2>1. UNCHANGED <<enrolled, fired>>
    BY <1>4 DEF FindActive, cadenceVars
  <2> QED BY <1>4, <2>1, HandsEmpty, PastStays DEF StepInv
<1>5. ASSUME NEW i \in Instances, StopOne(i)
      PROVE  StepInv'
  <2> PICK e : e = Head(calls[i].todo)
    OBVIOUS
  <2>1. enrolled' = Cancelled(e) /\ fired' = fired /\ e \in DOMAIN enrolled
    BY <1>5, InHandRow DEF StopOne
  <2>2. /\ RowsPast(enrolled', fired')
        /\ \A d \in DOMAIN enrolled : enrolled'[d].cadence = enrolled[d].cadence
        /\ \A d \in DOMAIN enrolled : \A n : Made(fired, d, n) => Made(fired', d, n)
    BY <2>1, PastCancel
  <2> QED BY <1>5, <2>2, HandsEmpty, PastStays
<1> QED BY <1>1, <1>2, <1>3, <1>4, <1>5, Kinds, PastInsert, PastRead, PastFire, PastAdvance

(***************************************************************************)
(* However requests, runs of the cron and answers overlap, whatever is     *)
(* cancelled or switched off meanwhile and wherever an instance dies, an   *)
(* enrolment goes past a step only when the task of the step is made.      *)
(***************************************************************************)
THEOREM StepsCorrect == Spec => []NoStepSkipped
<1>1. Init => StepInv
  <2> SUFFICES ASSUME Init PROVE StepInv
    OBVIOUS
  <2>1. DOMAIN enrolled = {} /\ \A i \in Instances : calls[i] = Idle
    BY DEF Init, CadencesInit
  <2> QED BY <2>1, IdleFields DEF StepInv, RowsPast, HandPast
<1>2. FunnelOK /\ StepInv /\ [Next]_vars => StepInv'
  BY PastStep
<1>3. StepInv => NoStepSkipped
  BY DEF StepInv, RowsPast, Made, NoStepSkipped
<1> QED BY <1>1, <1>2, <1>3, AlwaysOK, PTL DEF Spec

----------------------------------------------------------------------------
(* What is cancelled stays so.                                             *)

Held(q, e) == q.pc \in {"fire", "advance"} /\ Head(q.todo) = e

LEMMA HoldStep ==
  ASSUME FunnelOK, [Next]_vars, NEW e \in DOMAIN enrolled,
         enrolled[e].status = "cancelled", \A i \in Instances : ~Held(calls[i], e)
  PROVE  /\ enrolled'[e].status = "cancelled" /\ fired'[e] = fired[e]
         /\ \A i \in Instances : ~Held(calls'[i], e)
<1> DEFINE Goal == /\ enrolled'[e].status = "cancelled" /\ fired'[e] = fired[e]
                   /\ \A i \in Instances : ~Held(calls'[i], e)
<1> HIDE DEF Goal
<1>1. ASSUME NoCall, enrolled' = enrolled
      PROVE  Goal
  BY <1>1 DEF NoCall, Goal
<1>2. ASSUME NEW d \in DOMAIN enrolled, enrolled' = Cancelled(d)
      PROVE  enrolled'[e].status = "cancelled"
  BY <1>2, CancelRows
<1>3. ASSUME NEW i \in Instances,
             \A j \in Instances \ {i} : calls'[j] = calls[j],
             calls'[i].pc \notin {"fire", "advance"}
      PROVE  \A j \in Instances : ~Held(calls'[j], e)
  BY <1>3 DEF Held
<1>4. ASSUME NEW i \in Instances, Quiet(i)
      PROVE  Goal
  BY <1>3, <1>4 DEF Quiet, Goal
<1>5. ASSUME NEW i \in Instances, FindActive(i)
      PROVE  Goal
  <2>1. UNCHANGED <<enrolled, fired>>
    BY <1>5 DEF FindActive, cadenceVars
  <2> QED BY <1>3, <1>5, <2>1, HandsEmpty DEF Goal
<1>6. ASSUME NEW i \in Instances, InsertEnrolment(i)
      PROVE  Goal
  <2>1. enrolled'[e] = enrolled[e] /\ fired'[e] = fired[e]
    BY <1>6, InsertRows DEF Inserted
  <2> QED BY <1>3, <1>6, <2>1, HandsEmpty DEF Goal
<1>7. ASSUME NEW i \in Instances, ReadEnrolment(i)
      PROVE  Goal
  <2> PICK q, r, d : q = calls[i] /\ r = calls'[i] /\ d = Head(q.todo)
    OBVIOUS
  <2>1. /\ r.pc \notin {"advance", "insert"}
        /\ \A j \in Instances \ {i} : calls'[j] = calls[j]
        /\ UNCHANGED <<enrolled, fired, faults, world>>
        /\ r.pc = "fire" => r.todo = q.todo /\ enrolled[d].status = "active"
    BY <1>7, ReadCall
  <2>2. ~Held(r, e)
    BY <2>1 DEF Held
  <2> QED BY <2>1, <2>2 DEF Goal
<1>8. ASSUME NEW i \in Instances, FireStep(i)
      PROVE  Goal
  <2> PICK q, r, d : q = calls[i] /\ r = calls'[i] /\ d = Head(q.todo)
    OBVIOUS
  <2>1. /\ r.pc = "advance" /\ r.todo = q.todo /\ q.pc = "fire"
        /\ \A j \in Instances \ {i} : calls'[j] = calls[j]
    BY <1>8, FireCall DEF FireStep
  <2>2. d # e
    BY <2>1 DEF Held
  <2>3. enrolled' = enrolled /\ fired'[e] = fired[e]
    BY <1>8, <2>2, Lengths DEF FireStep
  <2> QED BY <2>1, <2>2, <2>3 DEF Goal, Held
<1>9. ASSUME NEW i \in Instances, Advance(i)
      PROVE  Goal
  <2> PICK q, d : q = calls[i] /\ d = Head(q.todo)
    OBVIOUS
  <2>1. q.pc = "advance" /\ d # e
    BY <1>9 DEF Held, Advance
  <2>2. enrolled'[e] = enrolled[e] /\ fired' = fired
    BY <1>9, <2>1, AdvanceRows
  <2> QED BY <1>3, <1>9, <2>2, HandsEmpty DEF Goal
<1>10. ASSUME NEW i \in Instances, StopOne(i)
       PROVE  Goal
  <2>1. /\ enrolled' = Cancelled(Head(calls[i].todo)) /\ fired' = fired
        /\ Head(calls[i].todo) \in DOMAIN enrolled
    BY <1>10, InHandRow DEF StopOne
  <2> QED BY <1>2, <1>3, <1>10, <2>1, HandsEmpty DEF Goal
<1>11. ASSUME NoCall, NEW d \in DOMAIN enrolled, enrolled' = Cancelled(d)
       PROVE  Goal
  BY <1>2, <1>11 DEF NoCall, Goal
<1>12. Goal
  BY <1>1, <1>4, <1>5, <1>6, <1>7, <1>8, <1>9, <1>10, <1>11, Kinds
<1> QED BY <1>12 DEF Goal

LEMMA NotHeld ==
  ASSUME NEW e
  PROVE  ~InHand(e) <=> \A i \in Instances : ~Held(calls[i], e)
  BY DEF InHand, Held

(***************************************************************************)
(* A cancelled enrolment stays cancelled and fires nothing, also when it   *)
(* is on the list of a run that is under way; only the step that this run  *)
(* already had in hand may still come.                                     *)
(***************************************************************************)
THEOREM CancelCorrect == Spec => CancelHolds
<1> DEFINE Holds ==
      \A e \in DOMAIN enrolled :
        enrolled[e].status = "cancelled" /\ ~InHand(e) =>
          enrolled'[e].status = "cancelled" /\ fired'[e] = fired[e] /\ ~InHand(e)'
<1>1. FunnelOK /\ [Next]_vars => [Holds]_<<cadenceVars, calls>>
  <2> SUFFICES ASSUME FunnelOK, [Next]_vars, NEW e \in DOMAIN enrolled,
                      enrolled[e].status = "cancelled", ~InHand(e)
               PROVE  enrolled'[e].status = "cancelled" /\ fired'[e] = fired[e] /\ ~InHand(e)'
    OBVIOUS
  <2>1. /\ enrolled'[e].status = "cancelled" /\ fired'[e] = fired[e]
        /\ \A i \in Instances : ~Held(calls'[i], e)
    BY HoldStep, NotHeld
  <2>2. ~InHand(e)'
    BY <2>1 DEF InHand, Held
  <2> QED BY <2>1, <2>2
<1> QED BY <1>1, AlwaysOK, PTL DEF Spec, CancelHolds

----------------------------------------------------------------------------
(* While requests come one at a time.                                      *)

OneCall == \A i, j \in Instances : calls[i].pc # "idle" /\ calls[j].pc # "idle" => i = j

SingleInv == world.together = 1 => OneCall

LEMMA NoneBusy ==
  ASSUME FunnelOK, world.together = 1, Cardinality(Busy) < world.together
  PROVE  \A i \in Instances : calls[i].pc = "idle"
<1>1. IsFiniteSet(Busy)
  BY ConstantFacts, FS_Subset DEF Busy
<1>2. Cardinality(Busy) \in Nat
  BY <1>1, FS_CardinalityType
<1>3. Cardinality(Busy) = 0
  BY <1>2
<1>4. Busy = {}
  BY <1>1, <1>3, FS_EmptySet
<1> QED BY <1>4 DEF Busy

LEMMA ActorStep ==
  ASSUME FunnelOK, [Next]_vars
  PROVE  /\ world' = world
         /\ \/ calls' = calls
            \/ \E i \in Instances :
                 /\ \A j \in Instances \ {i} : calls'[j] = calls[j]
                 /\ calls[i].pc = "idle" => Cardinality(Busy) < world.together
<1> DEFINE Goal == /\ world' = world
                   /\ \/ calls' = calls
                      \/ \E i \in Instances :
                           /\ \A j \in Instances \ {i} : calls'[j] = calls[j]
                           /\ calls[i].pc = "idle" => Cardinality(Busy) < world.together
<1>1. CASE NoCall
  BY <1>1 DEF NoCall
<1>2. ASSUME NEW i \in Instances, Quiet(i)
      PROVE  Goal
  BY <1>2 DEF Quiet
<1>3. ASSUME NEW i \in Instances, FindActive(i) \/ InsertEnrolment(i) \/ Advance(i) \/ StopOne(i)
      PROVE  Goal
  BY <1>3, HandsEmpty
<1>4. ASSUME NEW i \in Instances, ReadEnrolment(i)
      PROVE  Goal
  <2>1. calls[i].pc = "next"
    BY <1>4 DEF ReadEnrolment
  <2> QED BY <1>4, <2>1, ReadCall
<1>5. ASSUME NEW i \in Instances, FireStep(i)
      PROVE  Goal
  <2>1. calls[i].pc = "fire"
    BY <1>5 DEF FireStep
  <2> QED BY <1>5, <2>1, FireCall
<1>6. Goal
  <2> HIDE DEF Goal
  <2>1. CASE NoCall
    BY <1>1, <2>1 DEF Goal
  <2> QED BY <1>2, <1>3, <1>4, <1>5, <2>1, Kinds
<1> QED BY <1>6

LEMMA SingleStep == ASSUME FunnelOK, SingleInv, [Next]_vars PROVE SingleInv'
<1> SUFFICES ASSUME world'.together = 1
             PROVE  OneCall'
  BY DEF SingleInv
<1>1. world' = world
  BY ActorStep
<1>2. world.together = 1 /\ OneCall
  BY <1>1 DEF SingleInv
<1>3. CASE calls' = calls
  BY <1>2, <1>3 DEF OneCall
<1>4. ASSUME NEW i \in Instances,
             \A j \in Instances \ {i} : calls'[j] = calls[j],
             calls[i].pc = "idle" => Cardinality(Busy) < world.together
      PROVE  OneCall'
  <2>1. calls[i].pc = "idle" => \A j \in Instances : calls[j].pc = "idle"
    BY <1>2, <1>4, NoneBusy
  <2>2. \A j \in Instances \ {i} : calls'[j].pc = "idle" \/ calls[i].pc # "idle"
    BY <1>4, <2>1
  <2>3. \A j \in Instances \ {i} : calls'[j].pc # "idle" => calls[i].pc = "idle"
    BY <1>2, <1>4 DEF OneCall
  <2>4. \A j \in Instances \ {i} : calls'[j].pc = "idle"
    BY <2>2, <2>3
  <2> QED BY <2>4 DEF OneCall
<1> QED BY <1>3, <1>4, ActorStep

\* While i works the others rest.
LEMMA OthersIdle ==
  ASSUME SingleInv, world.together = 1, NEW i \in Instances, calls[i].pc # "idle",
         NEW j \in Instances, j # i
  PROVE  calls[j].pc = "idle"
  BY DEF SingleInv, OneCall

----------------------------------------------------------------------------
(* One active enrolment of a lead in a cadence.                            *)

Same(rows, d, e) == rows[d].lead = rows[e].lead /\ rows[d].cadence = rows[e].cadence

Alone(rows) ==
  \A d, e \in DOMAIN rows :
    rows[d].status = "active" /\ rows[e].status = "active" /\ Same(rows, d, e) => d = e

\* A lead about to be enrolled is not active yet, and an enrolment in hand is
\* the only one that could be.
Lone(q, rows) ==
  /\ q.pc = "insert" => ~\E e \in DOMAIN rows :
       rows[e].lead = q.lead /\ rows[e].cadence = Head(q.todo) /\ rows[e].status = "active"
  /\ q.pc \in {"fire", "advance"} => \A d \in DOMAIN rows :
       rows[d].status = "active" /\ Same(rows, d, Head(q.todo)) => d = Head(q.todo)

AloneInv == world.together = 1 => Alone(enrolled) /\ \A i \in Instances : Lone(calls[i], enrolled)

LEMMA IdleLone ==
  ASSUME NEW q, NEW rows, q.pc \notin {"insert", "fire", "advance"}
  PROVE  Lone(q, rows)
  BY DEF Lone

\* Cancelling makes nobody more active.
LEMMA AloneCancel ==
  ASSUME FunnelOK, Alone(enrolled), NEW e \in DOMAIN enrolled, enrolled' = Cancelled(e)
  PROVE  /\ Alone(enrolled')
         /\ \A i \in Instances : Lone(calls[i], enrolled) => Lone(calls[i], enrolled')
<1>1. /\ DOMAIN enrolled' = DOMAIN enrolled
      /\ \A d \in DOMAIN enrolled : enrolled'[d].cadence = enrolled[d].cadence
                                    /\ enrolled'[d].lead = enrolled[d].lead
      /\ \A d \in DOMAIN enrolled : enrolled'[d].status = "active" => enrolled[d].status = "active"
  BY CancelRows
<1>2. Alone(enrolled')
  BY <1>1 DEF Alone, Same
<1>3. ASSUME NEW i \in Instances, Lone(calls[i], enrolled)
      PROVE  Lone(calls[i], enrolled')
  <2>1. calls[i].pc \in {"fire", "advance"} => Head(calls[i].todo) \in DOMAIN enrolled
    BY InHandRow
  <2> QED BY <1>1, <1>3, <2>1 DEF Lone, Same
<1> QED BY <1>2, <1>3

LEMMA AloneFind ==
  ASSUME FunnelOK, NEW i \in Instances, FindActive(i)
  PROVE  Lone(calls'[i], enrolled)
<1> PICK q : q = calls[i]
  OBVIOUS
<1>1. q \in Call /\ q.pc = "find"
  BY CallOf DEF FindActive
<1>2. CASE Finish(i)
  <2>1. calls'[i].pc \in Ends
    BY <1>1, <1>2, FinishGoes
  <2> QED BY <2>1, IdleLone DEF Ends
<1>3. CASE NextOf(i)
  <2>1. Goes(i, {"find"})
    BY <1>1, <1>3, NextGoes
  <2> QED BY <2>1, IdleLone DEF Goes
<1>4. CASE ~Active(q.lead, Head(q.todo)) /\ Goto(i, "insert")
  <2> PICK r : r = [q EXCEPT !.pc = "insert"]
    OBVIOUS
  <2>1. r.pc = "insert" /\ r.lead = q.lead /\ r.todo = q.todo
    BY <1>1 DEF Call
  <2>2. Set(i, r)
    BY <1>4 DEF Goto
  <2>3. calls'[i] = r
    BY <2>1, <2>2, SetGoes
  <2> QED BY <1>4, <2>1, <2>3 DEF Active, Lone
<1> QED BY <1>2, <1>3, <1>4 DEF FindActive

LEMMA AloneInsert ==
  ASSUME FunnelOK, NEW i \in Instances, InsertEnrolment(i), Alone(enrolled),
         Lone(calls[i], enrolled)
  PROVE  Alone(enrolled')
<1> PICK q, k : q = calls[i] /\ k = Len(enrolled) + 1
  OBVIOUS
<1>1. Inserted(q, k)
  BY InsertRows
<1>2. ~\E e \in DOMAIN enrolled :
        enrolled[e].lead = q.lead /\ enrolled[e].cadence = Head(q.todo) /\ enrolled[e].status = "active"
  BY <1>1 DEF Inserted, Lone
<1>3. ASSUME NEW d \in DOMAIN enrolled', NEW e \in DOMAIN enrolled',
             enrolled'[d].status = "active", enrolled'[e].status = "active",
             Same(enrolled', d, e)
      PROVE  d = e
  <2>1. CASE d = k /\ e # k
    <3>1. e \in DOMAIN enrolled /\ enrolled'[e] = enrolled[e]
      BY <1>1, <2>1 DEF Inserted
    <3>2. enrolled[e].lead = q.lead /\ enrolled[e].cadence = Head(q.todo)
      BY <1>1, <1>3, <2>1, <3>1 DEF Inserted, Same
    <3> QED BY <1>2, <1>3, <3>1, <3>2
  <2>2. CASE d # k /\ e = k
    <3>1. d \in DOMAIN enrolled /\ enrolled'[d] = enrolled[d]
      BY <1>1, <2>2 DEF Inserted
    <3>2. enrolled[d].lead = q.lead /\ enrolled[d].cadence = Head(q.todo)
      BY <1>1, <1>3, <2>2, <3>1 DEF Inserted, Same
    <3> QED BY <1>2, <1>3, <3>1, <3>2
  <2>3. CASE d # k /\ e # k
    <3>1. /\ d \in DOMAIN enrolled /\ enrolled'[d] = enrolled[d]
          /\ e \in DOMAIN enrolled /\ enrolled'[e] = enrolled[e]
      BY <1>1, <2>3 DEF Inserted
    <3> QED BY <1>3, <3>1 DEF Alone, Same
  <2> QED BY <2>1, <2>2, <2>3
<1> QED BY <1>3 DEF Alone

LEMMA AloneAdvance ==
  ASSUME FunnelOK, NEW i \in Instances, Advance(i), Alone(enrolled), Lone(calls[i], enrolled)
  PROVE  Alone(enrolled')
<1> PICK q, e : q = calls[i] /\ e = Head(q.todo)
  OBVIOUS
<1>1. /\ q.pc = "advance" /\ e \in DOMAIN enrolled
      /\ DOMAIN enrolled' = DOMAIN enrolled
      /\ \A d \in DOMAIN enrolled \ {e} : enrolled'[d] = enrolled[d]
      /\ \A d \in DOMAIN enrolled : /\ enrolled'[d].cadence = enrolled[d].cadence
                                    /\ enrolled'[d].lead = enrolled[d].lead
  BY AdvanceRows
<1>2. \A d \in DOMAIN enrolled : enrolled[d].status = "active" /\ Same(enrolled, d, e) => d = e
  BY <1>1 DEF Lone
<1>3. ASSUME NEW c \in DOMAIN enrolled, NEW d \in DOMAIN enrolled,
             enrolled'[c].status = "active", enrolled'[d].status = "active",
             Same(enrolled', c, d)
      PROVE  c = d
  <2>1. Same(enrolled, c, d)
    BY <1>1, <1>3 DEF Same
  <2>2. CASE c = e /\ d # e
    BY <1>1, <1>2, <1>3, <2>1, <2>2 DEF Same
  <2>3. CASE c # e /\ d = e
    BY <1>1, <1>2, <1>3, <2>1, <2>3 DEF Same
  <2>4. CASE c # e /\ d # e
    BY <1>1, <1>3, <2>1, <2>4 DEF Alone
  <2> QED BY <2>2, <2>3, <2>4
<1> QED BY <1>1, <1>3 DEF Alone

LEMMA AloneStep ==
  ASSUME FunnelOK, SingleInv, AloneInv, [Next]_vars
  PROVE  AloneInv'
<1>1. world' = world
  BY ActorStep
<1> SUFFICES ASSUME world.together = 1
             PROVE  Alone(enrolled') /\ \A j \in Instances : Lone(calls'[j], enrolled')
  BY <1>1 DEF AloneInv
<1>2. Alone(enrolled) /\ \A j \in Instances : Lone(calls[j], enrolled)
  BY DEF AloneInv
<1> DEFINE Goal == Alone(enrolled') /\ \A j \in Instances : Lone(calls'[j], enrolled')
<1> HIDE DEF Goal
<1>3. ASSUME NoCall, enrolled' = enrolled
      PROVE  Goal
  BY <1>2, <1>3 DEF NoCall, Goal
<1>4. ASSUME NoCall, NEW e \in DOMAIN enrolled, enrolled' = Cancelled(e)
      PROVE  Goal
  BY <1>2, <1>4, AloneCancel DEF NoCall, Goal
<1>5. ASSUME NEW i \in Instances, \A j \in Instances \ {i} : calls'[j] = calls[j],
             enrolled' = enrolled, Lone(calls'[i], enrolled)
      PROVE  Goal
  BY <1>2, <1>5 DEF Goal
<1>6. ASSUME NEW i \in Instances, Quiet(i)
      PROVE  Goal
  BY <1>5, <1>6, IdleLone DEF Quiet
<1>7. ASSUME NEW i \in Instances, FindActive(i)
      PROVE  Goal
  <2>1. enrolled' = enrolled
    BY <1>7 DEF FindActive, cadenceVars
  <2> QED BY <1>5, <1>7, <2>1, AloneFind, HandsEmpty
\* Others rest while an instance writes the row.
<1>8. ASSUME NEW i \in Instances, InsertEnrolment(i) \/ Advance(i), Alone(enrolled')
      PROVE  Goal
  <2>1. /\ \A j \in Instances \ {i} : calls'[j] = calls[j]
        /\ calls[i].pc # "idle" /\ calls'[i].pc \notin {"insert", "fire", "advance"}
    <3>1. calls'[i].pc \notin {"insert", "fire", "advance"}
      BY <1>8, WorkGoes DEF Goes
    <3> QED BY <1>8, <3>1, HandsEmpty
  <2>2. ASSUME NEW j \in Instances
        PROVE  calls'[j].pc \notin {"insert", "fire", "advance"}
    <3>1. CASE j = i
      BY <2>1, <3>1
    <3>2. CASE j # i
      BY <2>1, <3>2, OthersIdle
    <3> QED BY <3>1, <3>2
  <2> QED BY <1>8, <2>2, IdleLone DEF Goal
<1>9. ASSUME NEW i \in Instances, InsertEnrolment(i)
      PROVE  Goal
  BY <1>2, <1>8, <1>9, AloneInsert
<1>10. ASSUME NEW i \in Instances, Advance(i)
       PROVE  Goal
  BY <1>2, <1>8, <1>10, AloneAdvance
<1>11. ASSUME NEW i \in Instances, ReadEnrolment(i)
       PROVE  Goal
  <2> PICK q, r, e : q = calls[i] /\ r = calls'[i] /\ e = Head(q.todo)
    OBVIOUS
  <2>1. /\ r.pc \notin {"advance", "insert"} /\ enrolled' = enrolled
        /\ \A j \in Instances \ {i} : calls'[j] = calls[j]
        /\ r.pc = "fire" => /\ r.todo = q.todo /\ e \in DOMAIN enrolled
                            /\ enrolled[e].status = "active"
    BY <1>11, ReadCall
  <2>2. Lone(r, enrolled)
    BY <1>2, <2>1 DEF Lone, Alone
  <2> QED BY <1>5, <2>1, <2>2
<1>12. ASSUME NEW i \in Instances, FireStep(i)
       PROVE  Goal
  <2> PICK q, r : q = calls[i] /\ r = calls'[i]
    OBVIOUS
  <2>1. /\ r.pc = "advance" /\ r.todo = q.todo /\ enrolled' = enrolled /\ q.pc = "fire"
        /\ \A j \in Instances \ {i} : calls'[j] = calls[j]
    BY <1>12, FireCall DEF FireStep
  <2>2. Lone(r, enrolled)
    BY <1>2, <2>1 DEF Lone
  <2> QED BY <1>5, <2>1, <2>2
<1>13. ASSUME NEW i \in Instances, StopOne(i)
       PROVE  Goal
  <2>1. /\ enrolled' = Cancelled(Head(calls[i].todo))
        /\ Head(calls[i].todo) \in DOMAIN enrolled
    BY <1>13, InHandRow DEF StopOne
  <2>2. /\ \A j \in Instances \ {i} : calls'[j] = calls[j]
        /\ calls'[i].pc \notin {"insert", "fire", "advance"}
    BY <1>13, WorkGoes DEF Goes, Ends
  <2>3. Lone(calls'[i], enrolled')
    BY <2>2, IdleLone
  <2>4. Alone(enrolled') /\ \A j \in Instances : Lone(calls[j], enrolled')
    BY <1>2, <2>1, AloneCancel
  <2> QED BY <2>2, <2>3, <2>4 DEF Goal
<1>14. Goal
  BY <1>3, <1>4, <1>6, <1>7, <1>9, <1>10, <1>11, <1>12, <1>13, Kinds
<1> QED BY <1>14 DEF Goal

----------------------------------------------------------------------------
(* Each step once.                                                         *)

Distinct(list) == \A m, n \in DOMAIN list : list[m] = list[n] => m = n

Advancing(e) == \E i \in Instances : calls[i].pc = "advance" /\ Head(calls[i].todo) = e

\* The tasks made are those of the steps passed, and of the one in hand when it
\* is about to be advanced.
Below(f, rows, e, more) ==
  \A k \in DOMAIN f[e] : f[e][k] < rows[e].step \/ (more /\ f[e][k] = rows[e].step)

Exact(q, rows) == q.pc \in {"fire", "advance"} => q.step = rows[Head(q.todo)].step

OnceFired ==
  /\ \A i \in Instances : Exact(calls[i], enrolled)
  /\ \A e \in DOMAIN enrolled : Distinct(fired[e]) /\ Below(fired, enrolled, e, Advancing(e))

OnceInv == world.together = 1 /\ faults = 0 => OnceFired

\* A step that leaves the tasks and the steps of the rows as they are, by a call
\* that had nothing in hand.
LEMMA OnceKept ==
  ASSUME FunnelOK, OnceFired, NEW i \in Instances,
         \A j \in Instances \ {i} : calls'[j] = calls[j],
         calls[i].pc # "advance", Exact(calls'[i], enrolled'),
         DOMAIN enrolled' = DOMAIN enrolled, fired' = fired,
         \A e \in DOMAIN enrolled : enrolled'[e].step = enrolled[e].step
  PROVE  OnceFired'
<1>1. ASSUME NEW j \in Instances
      PROVE  Exact(calls'[j], enrolled')
  <2>1. CASE j = i
    BY <2>1
  <2>2. CASE j # i
    <3>1. calls'[j] = calls[j] /\ Exact(calls[j], enrolled)
      BY <2>2 DEF OnceFired
    <3>2. calls[j].pc \in {"fire", "advance"} => Head(calls[j].todo) \in DOMAIN enrolled
      BY InHandRow
    <3> QED BY <3>1, <3>2 DEF Exact
  <2> QED BY <2>1, <2>2
<1>2. \A e : Advancing(e) => Advancing(e)'
  BY DEF Advancing
<1>3. ASSUME NEW e \in DOMAIN enrolled
      PROVE  Distinct(fired'[e]) /\ Below(fired', enrolled', e, Advancing(e)')
  BY <1>2 DEF OnceFired, Below
<1> QED BY <1>1, <1>3 DEF OnceFired

LEMMA OnceInsert ==
  ASSUME FunnelOK, OnceFired, NEW i \in Instances, InsertEnrolment(i)
  PROVE  OnceFired'
<1> PICK q, k : q = calls[i] /\ k = Len(enrolled) + 1
  OBVIOUS
<1>1. Inserted(q, k)
  BY InsertRows
<1>2. /\ \A j \in Instances \ {i} : calls'[j] = calls[j]
      /\ calls'[i].pc \notin {"fire", "advance"} /\ calls[i].pc = "insert"
  BY <1>1, HandsEmpty DEF Inserted
<1>3. ASSUME NEW j \in Instances
      PROVE  Exact(calls'[j], enrolled')
  <2>1. CASE j = i
    BY <1>2, <2>1 DEF Exact
  <2>2. CASE j # i
    <3>1. calls'[j] = calls[j] /\ Exact(calls[j], enrolled)
      BY <1>2, <2>2 DEF OnceFired
    <3>2. calls[j].pc \in {"fire", "advance"} => Head(calls[j].todo) \in DOMAIN enrolled
      BY InHandRow
    <3> QED BY <1>1, <3>1, <3>2 DEF Exact, Inserted
  <2> QED BY <2>1, <2>2
<1>4. \A e : Advancing(e) => Advancing(e)'
  BY <1>2 DEF Advancing
<1>5. ASSUME NEW e \in DOMAIN enrolled'
      PROVE  Distinct(fired'[e]) /\ Below(fired', enrolled', e, Advancing(e)')
  <2>1. CASE e = k
    <3>1. fired'[e] = <<>>
      BY <1>1, <2>1 DEF Inserted
    <3> QED BY <3>1 DEF Distinct, Below
  <2>2. CASE e # k
    <3>1. e \in DOMAIN enrolled /\ enrolled'[e] = enrolled[e] /\ fired'[e] = fired[e]
      BY <1>1, <2>2 DEF Inserted
    <3> QED BY <1>4, <3>1 DEF OnceFired, Below
  <2> QED BY <2>1, <2>2
<1> QED BY <1>3, <1>5 DEF OnceFired

\* The task of a step comes after those of the steps before it.
LEMMA OnceFire ==
  ASSUME FunnelOK, StepInv, SingleInv, world.together = 1, OnceFired,
         NEW i \in Instances, FireStep(i)
  PROVE  OnceFired'
<1> PICK q, r, e : q = calls[i] /\ r = calls'[i] /\ e = Head(q.todo)
  OBVIOUS
<1>1. /\ r.pc = "advance" /\ r.todo = q.todo /\ r.step = q.step /\ q.pc = "fire"
      /\ \A j \in Instances \ {i} : calls'[j] = calls[j]
  BY FireCall DEF FireStep
<1>2. q.step < Len(Steps[enrolled[e].cadence])
  BY <1>1 DEF StepInv, HandPast
<1>3. TaskMade(q, e)
  BY <1>2, FireRows
<1>4. q.step = enrolled[e].step
  BY <1>1 DEF OnceFired, Exact
<1>5. \A j \in Instances \ {i} : calls[j].pc = "idle"
  BY <1>1, OthersIdle
<1>6. \A d : ~Advancing(d)
  BY <1>1, <1>5 DEF Advancing
<1>7. \A j \in Instances : Exact(calls'[j], enrolled')
  <2>1. enrolled' = enrolled
    BY <1>3 DEF TaskMade
  <2>2. \A j \in Instances \ {i} : calls'[j].pc = "idle"
    BY <1>1, <1>5
  <2> QED BY <1>1, <1>4, <2>1, <2>2 DEF Exact
<1>8. \A k \in DOMAIN fired[e] : fired[e][k] < q.step
  <2>1. e \in DOMAIN enrolled
    BY <1>3 DEF TaskMade
  <2> QED BY <1>4, <1>6, <2>1 DEF OnceFired, Below
<1>9. Advancing(e)'
  BY <1>1 DEF Advancing
<1>10. Distinct(fired'[e]) /\ Below(fired', enrolled', e, TRUE)
  <2> PICK f, g : f = fired[e] /\ g = fired'[e]
    OBVIOUS
  <2>1. /\ q.step \in Nat /\ enrolled' = enrolled /\ e \in DOMAIN enrolled
        /\ DOMAIN g = 1 .. Len(f) + 1 /\ DOMAIN f = 1 .. Len(f) /\ Len(f) \in Nat
        /\ \A k \in DOMAIN f : g[k] = f[k]
        /\ g[Len(f) + 1] = q.step
    BY <1>3 DEF TaskMade
  <2>2. \A k \in DOMAIN g : k \in DOMAIN f \/ k = Len(f) + 1
    BY <2>1
  <2>3. \A k \in DOMAIN f : f[k] < q.step /\ f[k] \in Nat
    <3>1. f \in Seq(Nat)
      BY <2>1, RowType
    <3>2. \A k \in DOMAIN f : f[k] \in Nat
      BY <2>1, <3>1, ElementOfSeq
    <3> QED BY <1>8, <3>2
  <2>4. Distinct(f)
    BY <2>1 DEF OnceFired
  <2>5. Distinct(g)
    <3> SUFFICES ASSUME NEW m \in DOMAIN g, NEW n \in DOMAIN g, g[m] = g[n]
                 PROVE  m = n
      BY DEF Distinct
    <3>1. CASE m \in DOMAIN f /\ n \in DOMAIN f
      BY <2>1, <2>4, <3>1 DEF Distinct
    <3>2. CASE m \in DOMAIN f /\ n = Len(f) + 1
      <4>1. g[m] = f[m] /\ g[n] = q.step /\ f[m] < q.step
        BY <2>1, <2>3, <3>2
      <4> QED BY <2>1, <2>3, <3>2, <4>1
    <3>3. CASE m = Len(f) + 1 /\ n \in DOMAIN f
      <4>1. g[n] = f[n] /\ g[m] = q.step /\ f[n] < q.step
        BY <2>1, <2>3, <3>3
      <4> QED BY <2>1, <2>3, <3>3, <4>1
    <3> QED BY <2>2, <3>1, <3>2, <3>3
  <2>6. \A k \in DOMAIN g : g[k] < q.step \/ g[k] = q.step
    BY <2>1, <2>2, <2>3
  <2> QED BY <1>4, <2>1, <2>5, <2>6 DEF Below
<1>11. ASSUME NEW d \in DOMAIN enrolled', d # e
       PROVE  Distinct(fired'[d]) /\ Below(fired', enrolled', d, Advancing(d)')
  <2>1. d \in DOMAIN enrolled /\ enrolled' = enrolled /\ fired'[d] = fired[d]
    BY <1>3, <1>11 DEF TaskMade
  <2> QED BY <1>6, <2>1 DEF OnceFired, Below
<1> QED BY <1>7, <1>9, <1>10, <1>11 DEF OnceFired

LEMMA OnceAdvance ==
  ASSUME FunnelOK, SingleInv, world.together = 1, OnceFired, NEW i \in Instances, Advance(i)
  PROVE  OnceFired'
<1> PICK q, e : q = calls[i] /\ e = Head(q.todo)
  OBVIOUS
<1>1. /\ q.pc = "advance" /\ e \in DOMAIN enrolled /\ q.step \in Nat
      /\ DOMAIN enrolled' = DOMAIN enrolled /\ fired' = fired
      /\ \A d \in DOMAIN enrolled \ {e} : enrolled'[d] = enrolled[d]
      /\ enrolled'[e].step = q.step + 1
  BY AdvanceRows
<1>2. \A j \in Instances \ {i} : calls[j].pc = "idle" /\ calls'[j] = calls[j]
  BY <1>1, OthersIdle, HandsEmpty
<1>3. calls'[i].pc \notin {"fire", "advance"}
  BY HandsEmpty
<1>4. \A j \in Instances : Exact(calls'[j], enrolled')
  <2>1. \A j \in Instances : calls'[j].pc \notin {"fire", "advance"}
    BY <1>2, <1>3
  <2> QED BY <2>1 DEF Exact
<1>5. q.step = enrolled[e].step
  BY <1>1 DEF OnceFired, Exact
<1>6. ASSUME NEW d \in DOMAIN enrolled
      PROVE  Distinct(fired'[d]) /\ Below(fired', enrolled', d, Advancing(d)')
  <2>1. Distinct(fired[d])
    BY DEF OnceFired
  <2>2. CASE d = e
    <3>1. \A k \in DOMAIN fired[e] : fired[e][k] \in Nat
      BY <1>1, RowType, ElementOfSeq, LenProperties
    <3>2. \A k \in DOMAIN fired[e] : fired[e][k] < q.step \/ fired[e][k] = q.step
      BY <1>1, <1>5 DEF OnceFired, Below
    <3>3. \A k \in DOMAIN fired[e] : fired[e][k] < q.step + 1
      BY <1>1, <3>1, <3>2
    <3> QED BY <1>1, <2>1, <2>2, <3>3 DEF Below
  <2>3. CASE d # e
    <3>1. ~Advancing(d)
      BY <1>1, <1>2, <2>3 DEF Advancing
    <3>2. enrolled'[d] = enrolled[d]
      BY <1>1, <2>3
    <3> QED BY <1>1, <2>1, <3>1, <3>2 DEF OnceFired, Below
  <2> QED BY <2>2, <2>3
<1> QED BY <1>1, <1>4, <1>6 DEF OnceFired

LEMMA OnceStep ==
  ASSUME FunnelOK, StepInv, SingleInv, OnceInv, [Next]_vars
  PROVE  OnceInv'
<1>1. world' = world
  BY ActorStep
<1> SUFFICES ASSUME world.together = 1, faults' = 0
             PROVE  OnceFired'
  BY <1>1 DEF OnceInv
<1> DEFINE Goal == OnceFired'
<1> HIDE DEF Goal
<1>2. ASSUME faults' = faults \/ faults' # 0
      PROVE  OnceFired
  BY <1>2 DEF OnceInv
<1>3. ASSUME NoCall, enrolled' = enrolled
      PROVE  Goal
  BY <1>2, <1>3 DEF NoCall, OnceFired, Advancing, Goal
<1>4. ASSUME NoCall, NEW e \in DOMAIN enrolled, enrolled' = Cancelled(e)
      PROVE  Goal
  <2>1. /\ DOMAIN enrolled' = DOMAIN enrolled /\ fired' = fired /\ calls' = calls
        /\ \A d \in DOMAIN enrolled : enrolled'[d].step = enrolled[d].step
    BY <1>4, CancelRows DEF NoCall
  <2>2. OnceFired
    BY <1>2, <1>4 DEF NoCall
  <2>3. \A j \in Instances : Exact(calls'[j], enrolled')
    <3>1. \A j \in Instances : calls[j].pc \in {"fire", "advance"} =>
                                 Head(calls[j].todo) \in DOMAIN enrolled
      BY InHandRow
    <3> QED BY <2>1, <2>2, <3>1 DEF OnceFired, Exact
  <2>4. \A d : Advancing(d)' <=> Advancing(d)
    BY <2>1 DEF Advancing
  <2>5. \A d \in DOMAIN enrolled :
          Distinct(fired'[d]) /\ Below(fired', enrolled', d, Advancing(d)')
    BY <2>1, <2>2, <2>4 DEF OnceFired, Below
  <2> QED BY <2>1, <2>3, <2>5 DEF OnceFired, Goal
<1>5. ASSUME NEW i \in Instances, Quiet(i)
      PROVE  Goal
  <2>1. OnceFired
    BY <1>2, <1>5 DEF Quiet
  <2>2. calls[i].pc # "advance" /\ Exact(calls'[i], enrolled')
    BY <1>5 DEF Quiet, Exact
  <2>3. /\ \A j \in Instances \ {i} : calls'[j] = calls[j]
        /\ enrolled' = enrolled /\ fired' = fired
    BY <1>5 DEF Quiet
  <2> QED BY <2>1, <2>2, <2>3, OnceKept DEF Goal
<1>6. ASSUME NEW i \in Instances, FindActive(i) \/ StopOne(i)
      PROVE  Goal
  <2>1. OnceFired
    BY <1>2, <1>6, HandsEmpty
  <2>2. /\ \A j \in Instances \ {i} : calls'[j] = calls[j]
        /\ calls[i].pc # "advance" /\ Exact(calls'[i], enrolled')
    <3>1. calls[i].pc # "advance"
      BY <1>6 DEF FindActive, StopOne
    <3> QED BY <1>6, <3>1, HandsEmpty DEF Exact
  <2>3. /\ DOMAIN enrolled' = DOMAIN enrolled /\ fired' = fired
        /\ \A d \in DOMAIN enrolled : enrolled'[d].step = enrolled[d].step
    <3>1. CASE FindActive(i)
      BY <3>1 DEF FindActive, cadenceVars
    <3>2. CASE StopOne(i)
      <4>1. /\ enrolled' = Cancelled(Head(calls[i].todo)) /\ fired' = fired
            /\ Head(calls[i].todo) \in DOMAIN enrolled
        BY <3>2, InHandRow DEF StopOne
      <4> QED BY <4>1, CancelRows
    <3> QED BY <1>6, <3>1, <3>2
  <2> QED BY <2>1, <2>2, <2>3, OnceKept DEF Goal
<1>7. ASSUME NEW i \in Instances, InsertEnrolment(i)
      PROVE  Goal
  BY <1>2, <1>7, HandsEmpty, OnceInsert DEF Goal
<1>8. ASSUME NEW i \in Instances, Advance(i)
      PROVE  Goal
  BY <1>2, <1>8, HandsEmpty, OnceAdvance DEF Goal
<1>9. ASSUME NEW i \in Instances, FireStep(i)
      PROVE  Goal
  <2>1. faults' = faults
    BY <1>9, FireCall
  <2> QED BY <1>2, <1>9, <2>1, OnceFire DEF Goal
<1>10. ASSUME NEW i \in Instances, ReadEnrolment(i)
       PROVE  Goal
  <2> PICK q, r, e : q = calls[i] /\ r = calls'[i] /\ e = Head(q.todo)
    OBVIOUS
  <2>1. /\ q.pc = "next" /\ r.pc \notin {"advance", "insert"}
        /\ \A j \in Instances \ {i} : calls'[j] = calls[j]
        /\ UNCHANGED <<enrolled, fired, faults, world>>
        /\ r.pc = "fire" => r.todo = q.todo /\ r.step = enrolled[e].step
    BY <1>10, ReadCall
  <2>2. Exact(r, enrolled')
    BY <2>1 DEF Exact
  <2> QED BY <1>2, <2>1, <2>2, OnceKept DEF Goal
<1>11. Goal
  BY <1>3, <1>4, <1>5, <1>6, <1>7, <1>8, <1>9, <1>10, Kinds
<1> QED BY <1>11 DEF Goal

(***************************************************************************)
(* While requests come one at a time, a lead has one active enrolment in a *)
(* cadence at most, whatever is cancelled by hand in between; and as long  *)
(* as no instance has died and no call has failed, no enrolment makes the  *)
(* task of a step twice.                                                   *)
(***************************************************************************)
THEOREM OnceCorrect == Spec => []EachStepOnce
<1>1. Init => SingleInv /\ AloneInv /\ OnceInv /\ StepInv
  <2> SUFFICES ASSUME Init PROVE SingleInv /\ AloneInv /\ OnceInv /\ StepInv
    OBVIOUS
  <2>1. DOMAIN enrolled = {} /\ \A i \in Instances : calls[i] = Idle
    BY DEF Init, CadencesInit
  <2>2. SingleInv /\ StepInv
    BY <2>1, IdleFields DEF SingleInv, OneCall, StepInv, RowsPast, HandPast
  <2>3. AloneInv
    BY <2>1, IdleFields DEF AloneInv, Alone, Lone
  <2>4. OnceInv
    BY <2>1, IdleFields DEF OnceInv, OnceFired, Exact
  <2> QED BY <2>2, <2>3, <2>4
<1>2. /\ FunnelOK /\ SingleInv /\ [Next]_vars => SingleInv'
      /\ FunnelOK /\ StepInv /\ [Next]_vars => StepInv'
      /\ FunnelOK /\ SingleInv /\ AloneInv /\ [Next]_vars => AloneInv'
      /\ FunnelOK /\ StepInv /\ SingleInv /\ OnceInv /\ [Next]_vars => OnceInv'
  BY SingleStep, PastStep, AloneStep, OnceStep
<1>3. FunnelOK /\ AloneInv /\ OnceInv => EachStepOnce
  <2> SUFFICES ASSUME FunnelOK, AloneInv, OnceInv, world.together = 1 PROVE EachStepOnce
    BY DEF EachStepOnce
  <2>1. Alone(enrolled)
    BY DEF AloneInv
  <2>2. DOMAIN fired = DOMAIN enrolled
    BY Lengths
  <2>3. faults = 0 => \A e \in DOMAIN fired : Distinct(fired[e])
    BY <2>2 DEF OnceInv, OnceFired
  <2> QED BY <2>1, <2>3 DEF Alone, Same, Distinct, EachStepOnce
<1> QED BY <1>1, <1>2, <1>3, AlwaysOK, PTL DEF Spec

----------------------------------------------------------------------------
(* Sums over the movements of a ledger.                                    *)

\* Induction, over a set.
LEMMA FromZero ==
  ASSUME NEW G, 0 \in G, \A n \in Nat : n \in G => n + 1 \in G
  PROVE  Nat \subseteq G
<1> SUFFICES ASSUME Nat \ G # {}
             PROVE  FALSE
  OBVIOUS
<1> PICK T : T = Nat \ G
  OBVIOUS
<1>1. T \subseteq Nat /\ T # {}
  OBVIOUS
<1>2. PICK m \in T : \A n \in T : ~ (<<n, m>> \in OpToRel(<, Nat))
  BY <1>1, WFMin, NatLessThanWellFounded
<1>3. m \in Nat /\ m # 0 /\ m \notin G
  BY <1>1
<1>4. m - 1 \in Nat /\ m - 1 < m
  BY <1>3
<1>5. m - 1 \notin T
  BY <1>1, <1>2, <1>4 DEF OpToRel
<1>6. m - 1 \in G
  BY <1>4, <1>5
<1>7. (m - 1) + 1 \in G
  BY <1>4, <1>6
<1> QED BY <1>3, <1>7

\* The recursion of the sums.
Running(s, mv, S, k) ==
  /\ s \in [0 .. k -> Int] /\ s[0] = 0
  /\ \A n \in 1 .. k : s[n] = s[n - 1] + Change(mv, S, n)

LEMMA RunningExists ==
  ASSUME NEW mv \in Seq(Move), NEW S, NEW k \in 0 .. Len(mv)
  PROVE  \E s : Running(s, mv, S, k)
<1> DEFINE G == {n \in Nat : n <= Len(mv) => \E s : Running(s, mv, S, n)}
<1> HIDE DEF G
<1>1. 0 \in G
  <2> PICK s : s = [n \in 0 .. 0 |-> 0]
    OBVIOUS
  <2>1. Running(s, mv, S, 0)
    BY DEF Running
  <2> QED BY <2>1 DEF G
<1>2. ASSUME NEW n \in Nat, n \in G
      PROVE  n + 1 \in G
  <2> SUFFICES ASSUME n + 1 <= Len(mv)
               PROVE  \E s : Running(s, mv, S, n + 1)
    BY DEF G
  <2>1. Len(mv) \in Nat
    OBVIOUS
  <2>2. PICK s : Running(s, mv, S, n)
    BY <1>2, <2>1 DEF G
  <2> PICK d : d = Change(mv, S, n + 1)
    OBVIOUS
  <2>3. d \in Int
    <3>1. mv[n + 1] \in Move
      BY <2>1, ElementOfSeq
    <3> QED BY <3>1 DEF Change, Move
  <2> PICK t : t = [m \in 0 .. n + 1 |-> IF m = n + 1 THEN s[n] + d ELSE s[m]]
    OBVIOUS
  <2>4. s \in [0 .. n -> Int] /\ s[0] = 0
    BY <2>2 DEF Running
  <2>5. t \in [0 .. n + 1 -> Int] /\ t[0] = 0
    <3>1. n \in 0 .. n /\ 0 \in 0 .. n + 1 /\ 0 # n + 1
      OBVIOUS
    <3>2. \A m \in 0 .. n + 1 : m # n + 1 => m \in 0 .. n
      OBVIOUS
    <3>3. s[n] + d \in Int
      BY <2>3, <2>4, <3>1
    <3> QED BY <2>4, <3>1, <3>2, <3>3
  <2>6. ASSUME NEW m \in 1 .. n + 1
        PROVE  t[m] = t[m - 1] + Change(mv, S, m)
    <3>1. m \in 0 .. n + 1 /\ m - 1 \in 0 .. n + 1 /\ m - 1 # n + 1
      OBVIOUS
    <3>2. CASE m = n + 1
      <4>1. t[m] = s[n] + d /\ t[m - 1] = s[m - 1] /\ m - 1 = n
        BY <3>1, <3>2
      <4> QED BY <3>2, <4>1
    <3>3. CASE m # n + 1
      <4>1. m \in 1 .. n
        BY <3>3
      <4>2. s[m] = s[m - 1] + Change(mv, S, m)
        BY <2>2, <4>1 DEF Running
      <4> QED BY <3>1, <3>3, <4>2
    <3> QED BY <3>2, <3>3
  <2> QED BY <2>5, <2>6 DEF Running
<1>3. Nat \subseteq G
  BY <1>1, <1>2, FromZero
<1>4. k \in Nat /\ k <= Len(mv)
  OBVIOUS
<1> QED BY <1>3, <1>4 DEF G

LEMMA SumsRun ==
  ASSUME NEW mv \in Seq(Move), NEW S
  PROVE  Running(Sums(mv, S), mv, S, Len(mv))
<1> PICK k : k = Len(mv)
  OBVIOUS
<1>1. k \in Nat
  OBVIOUS
<1> DEFINE Step(s) == [n \in 0 .. k |-> IF n = 0 THEN 0 ELSE s[n - 1] + Change(mv, S, n)]
<1>11. k \in 0 .. Len(mv)
  BY <1>1
<1>2. PICK s : Running(s, mv, S, k)
  <2> HIDE DEF Step
  <2> QED BY <1>11, RunningExists
<1>3. s = Step(s)
  <2>1. s \in [0 .. k -> Int] /\ s[0] = 0
    BY <1>2 DEF Running
  <2>2. ASSUME NEW n \in 0 .. k
        PROVE  s[n] = IF n = 0 THEN 0 ELSE s[n - 1] + Change(mv, S, n)
    <3>1. n # 0 => n \in 1 .. k
      BY <1>1
    <3> QED BY <1>2, <2>1, <3>1 DEF Running
  <2> QED BY <2>1, <2>2
<1> PICK t : t = Sums(mv, S)
  OBVIOUS
<1>4. t = Step(t)
  <2>1. t = CHOOSE u : u = Step(u)
    BY DEF Sums
  <2> QED BY <1>3, <2>1
<1>5. DOMAIN t = 0 .. k /\ t[0] = 0
  BY <1>1, <1>4
<1>6. ASSUME NEW n \in 1 .. k
      PROVE  t[n] = t[n - 1] + Change(mv, S, n)
  <2>1. n \in 0 .. k /\ n # 0
    BY <1>1
  <2> QED BY <1>4, <2>1
<1> DEFINE G == {n \in Nat : n <= k => t[n] \in Int}
<1>7. 0 \in G
  BY <1>5
<1>8. ASSUME NEW n \in Nat, n \in G
      PROVE  n + 1 \in G
  <2> SUFFICES ASSUME n + 1 <= k
               PROVE  t[n + 1] \in Int
    OBVIOUS
  <2>1. t[n] \in Int
    BY <1>1, <1>8
  <2>2. n + 1 \in 1 .. k /\ (n + 1) - 1 = n
    BY <1>1
  <2>3. t[n + 1] = t[n] + Change(mv, S, n + 1)
    BY <1>6, <2>2
  <2>4. mv[n + 1] \in Move
    BY <2>2, ElementOfSeq
  <2>5. Change(mv, S, n + 1) \in Int
    BY <2>4 DEF Change, Move
  <2> QED BY <2>1, <2>3, <2>5
<1>9. Nat \subseteq G
  <2> HIDE DEF G
  <2> QED BY <1>7, <1>8, FromZero
<1>10. t \in [0 .. k -> Int]
  <2>1. \A n \in 0 .. k : t[n] \in Int
    BY <1>1, <1>9
  <2>2. t = [n \in 0 .. k |-> t[n]]
    BY <1>4, <1>5
  <2> QED BY <2>1, <2>2
<1> QED BY <1>5, <1>6, <1>10 DEF Running

\* Two ledgers that differ in one change at most, the m-th of the first k, by d.
OneApart(mv, S, mw, T, k, m, d) ==
  \A n \in 1 .. k : Change(mw, T, n) = Change(mv, S, n) + IF n = m THEN d ELSE 0

LEMMA SumsDiffer ==
  ASSUME NEW mv \in Seq(Move), NEW S, NEW mw \in Seq(Move), NEW T,
         NEW k \in Nat, k <= Len(mv), k <= Len(mw), NEW m \in Nat, NEW d \in Int,
         OneApart(mv, S, mw, T, k, m, d)
  PROVE  Sums(mw, T)[k] = Sums(mv, S)[k] + IF m \in 1 .. k THEN d ELSE 0
<1> PICK s, t : s = Sums(mv, S) /\ t = Sums(mw, T)
  OBVIOUS
<1>1. Running(s, mv, S, Len(mv)) /\ Running(t, mw, T, Len(mw))
  BY SumsRun
<1>2. Len(mv) \in Nat /\ Len(mw) \in Nat
  OBVIOUS
<1> DEFINE G == {n \in Nat : n <= k => t[n] = s[n] + IF m \in 1 .. n THEN d ELSE 0}
<1>3. 0 \in G
  BY <1>1 DEF Running
<1>4. ASSUME NEW n \in Nat, n \in G
      PROVE  n + 1 \in G
  <2> SUFFICES ASSUME n + 1 <= k
               PROVE  t[n + 1] = s[n + 1] + IF m \in 1 .. n + 1 THEN d ELSE 0
    OBVIOUS
  <2>1. t[n] = s[n] + IF m \in 1 .. n THEN d ELSE 0
    BY <1>4
  <2>2. /\ n + 1 \in 1 .. k /\ n + 1 \in 1 .. Len(mv) /\ n + 1 \in 1 .. Len(mw)
        /\ (n + 1) - 1 = n
    BY <1>2
  <2> PICK c, e : c = Change(mv, S, n + 1) /\ e = Change(mw, T, n + 1)
    OBVIOUS
  <2>3. s[n + 1] = s[n] + c /\ t[n + 1] = t[n] + e
    BY <1>1, <2>2 DEF Running
  <2>4. e = c + IF n + 1 = m THEN d ELSE 0
    BY <2>2 DEF OneApart
  <2>5. s[n] \in Int /\ c \in Int
    <3>1. s \in [0 .. Len(mv) -> Int] /\ n \in 0 .. Len(mv)
      BY <1>1, <1>2, <2>2 DEF Running
    <3>2. mv[n + 1] \in Move
      BY <2>2, ElementOfSeq
    <3> QED BY <3>1, <3>2 DEF Change, Move
  <2>6. CASE m \in 1 .. n
    <3>1. n + 1 # m /\ m \in 1 .. n + 1
      BY <2>6
    <3> QED BY <2>1, <2>3, <2>4, <2>5, <2>6, <3>1
  <2>7. CASE m = n + 1
    <3>1. m \notin 1 .. n /\ m \in 1 .. n + 1
      BY <2>7
    <3> QED BY <2>1, <2>3, <2>4, <2>5, <2>7, <3>1
  <2>8. CASE m \notin 1 .. n + 1
    <3>1. n + 1 # m /\ m \notin 1 .. n
      BY <2>8
    <3> QED BY <2>1, <2>3, <2>4, <2>5, <2>8, <3>1
  <2>9. m \in 1 .. n \/ m = n + 1 \/ m \notin 1 .. n + 1
    OBVIOUS
  <2> QED BY <2>6, <2>7, <2>8, <2>9
<1>5. Nat \subseteq G
  <2> HIDE DEF G
  <2> QED BY <1>3, <1>4, FromZero
<1> QED BY <1>5

LEMMA SumsInt ==
  ASSUME NEW mv \in Seq(Move), NEW S
  PROVE  Sums(mv, S)[Len(mv)] \in Int
<1> PICK s, k : s = Sums(mv, S) /\ k = Len(mv)
  OBVIOUS
<1>1. s \in [0 .. k -> Int] /\ k \in Nat
  BY SumsRun DEF Running
<1> QED BY <1>1

\* A set counts for the movements of the ledger in it.
SameUpTo(k, S, T) == \A n \in 1 .. k : n \in T <=> n \in S

LEMMA SumsSame ==
  ASSUME NEW mv \in Seq(Move), NEW S, NEW T,
         SameUpTo(Len(mv), S, T)
  PROVE  Sums(mv, T)[Len(mv)] = Sums(mv, S)[Len(mv)]
<1> PICK k : k = Len(mv)
  OBVIOUS
<1>1. k \in Nat /\ k <= Len(mv) /\ 0 \in Nat /\ 0 \in Int
  OBVIOUS
<1>2. ASSUME NEW n \in 1 .. k
      PROVE  Change(mv, T, n) = Change(mv, S, n) + IF n = 0 THEN 0 ELSE 0
  <2>1. mv[n] \in Move
    BY ElementOfSeq
  <2>2. mv[n].change \in Int
    BY <2>1 DEF Move
  <2> QED BY <2>2 DEF Change, SameUpTo
<1>5. OneApart(mv, S, mv, T, k, 0, 0)
  BY <1>2 DEF OneApart
<1>3. Sums(mv, T)[k] = Sums(mv, S)[k] + IF 0 \in 1 .. k THEN 0 ELSE 0
  BY <1>1, <1>5, SumsDiffer
<1>4. Sums(mv, S)[k] \in Int
  BY SumsInt
<1> QED BY <1>3, <1>4

\* One movement more counts.
LEMMA SumsPlus ==
  ASSUME NEW mv \in Seq(Move), NEW S, NEW T, NEW m \in 1 .. Len(mv), m \notin S,
         \A n \in 1 .. Len(mv) : n \in T <=> n \in S \/ n = m
  PROVE  Sums(mv, T)[Len(mv)] = Sums(mv, S)[Len(mv)] + mv[m].change
<1> PICK k, d : k = Len(mv) /\ d = mv[m].change
  OBVIOUS
<1>1. k \in Nat /\ k <= Len(mv) /\ m \in Nat /\ m \in 1 .. k
  OBVIOUS
<1>2. \A n \in 1 .. k : mv[n].change \in Int
  <2> SUFFICES ASSUME NEW n \in 1 .. k
               PROVE  mv[n].change \in Int
    OBVIOUS
  <2>1. mv[n] \in Move
    BY ElementOfSeq
  <2> QED BY <2>1 DEF Move
<1>3. d \in Int
  BY <1>1, <1>2
<1>4. ASSUME NEW n \in 1 .. k
      PROVE  Change(mv, T, n) = Change(mv, S, n) + IF n = m THEN d ELSE 0
  <2>1. mv[n].change \in Int
    BY <1>2
  <2> QED BY <2>1 DEF Change
<1>7. OneApart(mv, S, mv, T, k, m, d)
  BY <1>4 DEF OneApart
<1>5. Sums(mv, T)[k] = Sums(mv, S)[k] + IF m \in 1 .. k THEN d ELSE 0
  BY <1>1, <1>3, <1>7, SumsDiffer
<1>6. Sums(mv, T)[k] = Sums(mv, S)[k] + d
  BY <1>1, <1>5
<1> QED BY <1>6

\* A movement is added to the ledger.
Grown(mv, S, mw, T, row) ==
  Sums(mw, T)[Len(mw)] = Sums(mv, S)[Len(mv)] + IF Len(mv) + 1 \in T THEN row.change ELSE 0

LEMMA SumsAppend ==
  ASSUME NEW mv \in Seq(Move), NEW row \in Move, NEW S, NEW T,
         NEW mw, mw = Append(mv, row), SameUpTo(Len(mv), S, T)
  PROVE  Grown(mv, S, mw, T, row)
<1> PICK k, l : k = Len(mv) /\ l = k + 1
  OBVIOUS
<1>1. k \in Nat /\ mw \in Seq(Move) /\ Len(mw) = l /\ mw[l] = row
  OBVIOUS
<1>2. \A n \in 1 .. k : mw[n] = mv[n]
  OBVIOUS
<1>3. k <= Len(mv) /\ k <= Len(mw) /\ 0 \in Nat /\ 0 \in Int
  BY <1>1
<1>4. ASSUME NEW n \in 1 .. k
      PROVE  Change(mw, T, n) = Change(mv, S, n) + IF n = 0 THEN 0 ELSE 0
  <2>1. mv[n] \in Move
    BY ElementOfSeq
  <2>2. mv[n].change \in Int /\ mw[n] = mv[n] /\ (n \in T <=> n \in S)
    BY <1>2, <2>1 DEF Move, SameUpTo
  <2> QED BY <2>2 DEF Change
<1>10. OneApart(mv, S, mw, T, k, 0, 0)
  BY <1>4 DEF OneApart
<1>5. Sums(mw, T)[k] = Sums(mv, S)[k] + IF 0 \in 1 .. k THEN 0 ELSE 0
  <2>1. mw \in Seq(Move) /\ k \in Nat
    BY <1>1
  <2>2. k <= Len(mv) /\ k <= Len(mw)
    BY <1>3
  <2>3. \A w \in Seq(Move) : OneApart(mv, S, w, T, k, 0, 0) /\ k <= Len(w) =>
          Sums(w, T)[k] = Sums(mv, S)[k] + IF 0 \in 1 .. k THEN 0 ELSE 0
    BY <2>1, <2>2, SumsDiffer
  <2> QED BY <1>10, <2>1, <2>2, <2>3
<1>6. Sums(mv, S)[k] \in Int
  BY SumsInt
<1> PICK t : t = Sums(mw, T)
  OBVIOUS
<1>7. t[l] = t[l - 1] + Change(mw, T, l)
  <2>1. Running(t, mw, T, l)
    BY <1>1, SumsRun
  <2>2. l \in 1 .. l
    BY <1>1
  <2> QED BY <2>1, <2>2 DEF Running
<1>8. l - 1 = k
  BY <1>1
<1>9. Change(mw, T, l) = IF l \in T THEN row.change ELSE 0
  BY <1>1 DEF Change
<1> QED BY <1>1, <1>5, <1>6, <1>7, <1>8, <1>9 DEF Grown

----------------------------------------------------------------------------
(* The ledger and the shelf.                                               *)

\* What an instance is about to count is in the ledger.
Listed(q, mv) ==
  q.pc = "write" =>
    /\ q.move \in 1 .. Len(mv)
    /\ mv[q.move].item = Head(q.todo).item
    /\ mv[q.move].change = Head(q.todo).change

\* The movements of an item that are counted.
CountedOf(mv, cl, item) ==
  {n \in DOMAIN mv : mv[n].item = item}
    \ {cl[i].move : i \in {j \in Instances : cl[j].pc = "write"}}

Agrees(mv, cl, q, t) ==
  \A item \in Items \ t :
    q[item] = Opening[item] + Sums(mv, CountedOf(mv, cl, item))[Len(mv)]

LedgerInv ==
  /\ \A i \in Instances : Listed(calls[i], moves)
  /\ \A i, j \in Instances :
       calls[i].pc = "write" /\ calls[j].pc = "write" /\ calls[i].move = calls[j].move => i = j
  /\ Agrees(moves, calls, qty, torn)

LEMMA LedgerMeans == (LedgerAgrees <=> Agrees(moves, calls, qty, torn))
  BY DEF LedgerAgrees, Agrees, CountedOf, Total, Uncounted

\* Nothing is counted: who stops counting leaves its item torn.
LEMMA LedgerStays ==
  ASSUME FunnelOK, LedgerInv, moves' = moves, qty' = qty, torn \subseteq torn',
         \A i \in Instances : calls'[i].pc = "write" => calls'[i] = calls[i],
         \A i \in Instances : calls[i].pc = "write" /\ calls'[i] # calls[i] =>
           Head(calls[i].todo).item \in torn'
  PROVE  LedgerInv'
<1> PICK mv, cl, c2 : mv = moves /\ cl = calls /\ c2 = calls'
  OBVIOUS
<1>1. mv \in Seq(Move)
  BY DEF FunnelOK, StockOK
<1>2. \A i \in Instances : Listed(c2[i], mv)
  BY DEF LedgerInv, Listed
<1>3. \A i, j \in Instances :
        c2[i].pc = "write" /\ c2[j].pc = "write" /\ c2[i].move = c2[j].move => i = j
  BY DEF LedgerInv
<1>4. ASSUME NEW item \in Items \ torn'
      PROVE  qty[item] = Opening[item] + Sums(mv, CountedOf(mv, c2, item))[Len(mv)]
  <2>1. qty[item] = Opening[item] + Sums(mv, CountedOf(mv, cl, item))[Len(mv)]
    BY <1>4 DEF LedgerInv, Agrees
  <2> PICK S, T : S = CountedOf(mv, cl, item) /\ T = CountedOf(mv, c2, item)
    OBVIOUS
  <2>2. ASSUME NEW n \in 1 .. Len(mv)
        PROVE  n \in S <=> n \in T
    <3>1. DOMAIN mv = 1 .. Len(mv)
      BY <1>1
    <3>2. n \in S <=> mv[n].item = item /\ \A i \in Instances : cl[i].pc = "write" => cl[i].move # n
      BY <3>1 DEF CountedOf
    <3>3. n \in T <=> mv[n].item = item /\ \A i \in Instances : c2[i].pc = "write" => c2[i].move # n
      BY <3>1 DEF CountedOf
    <3>4. ASSUME NEW i \in Instances, cl[i].pc = "write", cl[i].move = n, mv[n].item = item
          PROVE  c2[i] = cl[i]
      <4>1. Head(cl[i].todo).item = item
        BY <3>4 DEF LedgerInv, Listed
      <4> QED BY <1>4, <3>4, <4>1
    <3> QED BY <3>2, <3>3, <3>4
  <2>3. Sums(mv, T)[Len(mv)] = Sums(mv, S)[Len(mv)]
    <3>1. SameUpTo(Len(mv), S, T)
      BY <2>2 DEF SameUpTo
    <3> QED BY <1>1, <3>1, SumsSame
  <2> QED BY <2>1, <2>3
<1>5. Agrees(mv, c2, qty', torn')
  BY <1>4 DEF Agrees
<1> QED BY <1>2, <1>3, <1>5 DEF LedgerInv

\* A movement is in the ledger before it is counted.
LEMMA LedgerMove ==
  ASSUME FunnelOK, LedgerInv, NEW i \in Instances, InsertMove(i)
  PROVE  LedgerInv'
<1> PICK mv, mw, cl, c2 : mv = moves /\ mw = moves' /\ cl = calls /\ c2 = calls'
  OBVIOUS
<1> PICK q, k : q = calls[i] /\ k = Len(moves) + 1
  OBVIOUS
<1>1. q \in Call /\ Sound(q, Len(enrolled), Len(moves)) /\ q.pc = "move"
  BY CallOf DEF InsertMove
<1> PICK line : line = Head(q.todo)
  OBVIOUS
<1> PICK row : row = [item |-> line.item, change |-> line.change, lead |-> q.lead]
  OBVIOUS
<1> PICK r : r = [q EXCEPT !.pc = "write", !.move = k]
  OBVIOUS
<1>2. r.todo = q.todo /\ r.pc = "write" /\ r.move = k
  BY <1>1 DEF Call
<1>3. line \in StockLine
  BY <1>1 DEF Sound
<1>4. row \in Move /\ row.item = line.item /\ row.change = line.change
  BY <1>1, <1>3 DEF Move, StockLine, Call
<1>5. mv \in Seq(Move) /\ mw = Append(mv, row) /\ qty' = qty /\ torn' = torn
  BY DEF InsertMove, FunnelOK, StockOK
<1>6. Len(mv) \in Nat /\ k = Len(mv) + 1 /\ Len(mw) = k /\ mw[k] = row
      /\ \A n \in 1 .. Len(mv) : mw[n] = mv[n]
  BY <1>4, <1>5
<1>7. Set(i, r)
  BY DEF InsertMove
<1>8. c2[i] = r /\ \A j \in Instances \ {i} : c2[j] = cl[j]
  BY <1>2, <1>7, SetGoes DEF Goes
<1>9. \A j \in Instances : cl[j].pc = "write" => cl[j].move \in 1 .. Len(mv)
  BY DEF LedgerInv, Listed
<1>10. ASSUME NEW j \in Instances
       PROVE  Listed(c2[j], mw)
  <2>1. CASE j = i
    <3>1. Head(r.todo) = line /\ r.move \in 1 .. Len(mw) /\ mw[r.move] = row
      BY <1>2, <1>6
    <3>2. Listed(r, mw)
      BY <1>4, <3>1 DEF Listed
    <3> QED BY <1>8, <2>1, <3>2
  <2>2. CASE j # i
    <3>1. Listed(cl[j], mv)
      BY DEF LedgerInv
    <3>2. 1 .. Len(mv) \subseteq 1 .. Len(mw)
      BY <1>6
    <3> QED BY <1>6, <1>8, <2>2, <3>1, <3>2 DEF Listed
  <2> QED BY <2>1, <2>2
<1>11. ASSUME NEW j \in Instances \ {i}, c2[j].pc = "write"
       PROVE  c2[j].move # k
  <2>1. cl[j].move \in 1 .. Len(mv)
    BY <1>8, <1>9, <1>11
  <2> QED BY <1>6, <1>8, <2>1
<1>12. \A a, b \in Instances :
         c2[a].pc = "write" /\ c2[b].pc = "write" /\ c2[a].move = c2[b].move => a = b
  <2>1. \A a, b \in Instances :
          cl[a].pc = "write" /\ cl[b].pc = "write" /\ cl[a].move = cl[b].move => a = b
    BY DEF LedgerInv
  <2>2. c2[i].move = k
    BY <1>2, <1>8
  <2> SUFFICES ASSUME NEW a \in Instances, NEW b \in Instances,
                      c2[a].pc = "write", c2[b].pc = "write", c2[a].move = c2[b].move, a # b
               PROVE  FALSE
    OBVIOUS
  <2>3. a # i /\ b # i
    BY <1>11, <2>2
  <2> QED BY <1>8, <2>1, <2>3
<1>13. ASSUME NEW item \in Items \ torn
       PROVE  qty[item] = Opening[item] + Sums(mw, CountedOf(mw, c2, item))[Len(mw)]
  <2>1. qty[item] = Opening[item] + Sums(mv, CountedOf(mv, cl, item))[Len(mv)]
    BY <1>13 DEF LedgerInv, Agrees
  <2> PICK S, T : S = CountedOf(mv, cl, item) /\ T = CountedOf(mw, c2, item)
    OBVIOUS
  <2>2. ASSUME NEW n \in 1 .. Len(mv)
        PROVE  n \in T <=> n \in S
    <3>1. n \in DOMAIN mv /\ n \in DOMAIN mw /\ mw[n] = mv[n] /\ n # k
      BY <1>5, <1>6
    <3>2. n \in S <=> mv[n].item = item /\ \A j \in Instances : cl[j].pc = "write" => cl[j].move # n
      BY <3>1 DEF CountedOf
    <3>3. n \in T <=> mv[n].item = item /\ \A j \in Instances : c2[j].pc = "write" => c2[j].move # n
      BY <3>1 DEF CountedOf
    <3>4. \A j \in Instances :
            cl[j].pc = "write" /\ cl[j].move = n <=> c2[j].pc = "write" /\ c2[j].move = n
      <4>1. cl[i].pc # "write" /\ c2[i].move # n
        BY <1>1, <1>2, <1>8, <3>1
      <4> QED BY <1>8, <4>1
    <3> QED BY <3>1, <3>2, <3>3, <3>4
  <2>3. Len(mv) + 1 \notin T
    <3>1. c2[i].pc = "write" /\ c2[i].move = Len(mv) + 1
      BY <1>2, <1>6, <1>8
    <3> QED BY <3>1 DEF CountedOf
  <2>4. Grown(mv, S, mw, T, row)
    <3>1. mv \in Seq(Move) /\ row \in Move /\ mw = Append(mv, row)
      BY <1>4, <1>5
    <3>2. SameUpTo(Len(mv), S, T)
      BY <2>2 DEF SameUpTo
    <3> QED BY <3>1, <3>2, SumsAppend
  <2>5. Sums(mv, S)[Len(mv)] \in Int
    BY <1>5, SumsInt
  <2> QED BY <2>1, <2>3, <2>4, <2>5 DEF Grown
<1>14. Agrees(mw, c2, qty', torn')
  BY <1>5, <1>13 DEF Agrees
<1> QED BY <1>10, <1>12, <1>14 DEF LedgerInv

\* A movement is counted, or its item is torn.
LEMMA LedgerWrite ==
  ASSUME FunnelOK, LedgerInv, NEW i \in Instances, WriteQty(i)
  PROVE  LedgerInv'
<1> PICK mv, cl, c2 : mv = moves /\ cl = calls /\ c2 = calls'
  OBVIOUS
<1> PICK q, line : q = calls[i] /\ line = Head(q.todo)
  OBVIOUS
<1> PICK k : k = q.move
  OBVIOUS
<1>1. q \in Call /\ Sound(q, Len(enrolled), Len(moves)) /\ q.pc = "write"
  BY CallOf DEF WriteQty
<1>2. line \in StockLine /\ q.held \in [Items -> Int]
  BY <1>1 DEF Sound
<1>3. line.item \in Items /\ line.change \in Int
  BY <1>2 DEF StockLine
<1>4. /\ mv \in Seq(Move) /\ moves' = mv /\ qty \in [Items -> Int] /\ torn \subseteq torn'
      /\ qty' = [qty EXCEPT ![line.item] = q.held[line.item] + line.change]
      /\ line.item \notin torn' => qty[line.item] = q.held[line.item]
  BY DEF WriteQty, FunnelOK, StockOK
<1>5. k \in 1 .. Len(mv) /\ mv[k].item = line.item /\ mv[k].change = line.change
  BY <1>1 DEF LedgerInv, Listed
<1>6. c2[i].pc # "write" /\ \A j \in Instances \ {i} : c2[j] = cl[j]
  BY WorkGoes DEF Goes, Ends
<1>7. \A j \in Instances : Listed(c2[j], mv)
  BY <1>6 DEF LedgerInv, Listed
<1>8. \A a, b \in Instances :
        cl[a].pc = "write" /\ cl[b].pc = "write" /\ cl[a].move = cl[b].move => a = b
  BY DEF LedgerInv
<1>9. \A a, b \in Instances :
        c2[a].pc = "write" /\ c2[b].pc = "write" /\ c2[a].move = c2[b].move => a = b
  BY <1>6, <1>8
<1>10. ASSUME NEW item \in Items \ torn'
       PROVE  qty'[item] = Opening[item] + Sums(mv, CountedOf(mv, c2, item))[Len(mv)]
  <2>1. qty[item] = Opening[item] + Sums(mv, CountedOf(mv, cl, item))[Len(mv)]
    BY <1>4, <1>10 DEF LedgerInv, Agrees
  <2> PICK S, T : S = CountedOf(mv, cl, item) /\ T = CountedOf(mv, c2, item)
    OBVIOUS
  <2>2. ASSUME NEW n \in 1 .. Len(mv)
        PROVE  n \in T <=> n \in S \/ (n = k /\ item = line.item)
    <3>1. n \in DOMAIN mv
      BY <1>4
    <3>2. n \in S <=> mv[n].item = item /\ \A j \in Instances : cl[j].pc = "write" => cl[j].move # n
      BY <3>1 DEF CountedOf
    <3>3. n \in T <=> mv[n].item = item /\ \A j \in Instances : c2[j].pc = "write" => c2[j].move # n
      BY <3>1 DEF CountedOf
    <3>4. CASE n = k
      <4>1. \A j \in Instances : c2[j].pc = "write" => c2[j].move # n
        BY <1>1, <1>6, <1>8, <3>4
      <4>2. n \notin S
        BY <1>1, <3>2, <3>4
      <4> QED BY <1>5, <3>3, <3>4, <4>1, <4>2
    <3>5. CASE n # k
      <4>1. \A j \in Instances :
              cl[j].pc = "write" /\ cl[j].move = n <=> c2[j].pc = "write" /\ c2[j].move = n
        BY <1>6, <3>5
      <4> QED BY <3>2, <3>3, <3>5, <4>1
    <3> QED BY <3>4, <3>5
  <2>3. Sums(mv, S)[Len(mv)] \in Int
    BY <1>4, SumsInt
  <2>4. Opening[item] \in Int
    BY <1>10, StockAssumption
  <2>5. CASE item = line.item
    <3>1. k \notin S
      <4>1. k \in DOMAIN mv
        BY <1>4, <1>5
      <4> QED BY <1>1 DEF CountedOf
    <3>2. \A n \in 1 .. Len(mv) : n \in T <=> n \in S \/ n = k
      BY <2>2, <2>5
    <3>3. Sums(mv, T)[Len(mv)] = Sums(mv, S)[Len(mv)] + mv[k].change
      BY <1>4, <1>5, <3>1, <3>2, SumsPlus
    <3>4. qty'[item] = qty[item] + line.change
      BY <1>3, <1>4, <1>10, <2>5
    <3> QED BY <1>3, <1>5, <2>1, <2>3, <2>4, <3>3, <3>4
  <2>6. CASE item # line.item
    <3>1. SameUpTo(Len(mv), S, T)
      BY <2>2, <2>6 DEF SameUpTo
    <3>2. Sums(mv, T)[Len(mv)] = Sums(mv, S)[Len(mv)]
      BY <1>4, <3>1, SumsSame
    <3>3. qty'[item] = qty[item]
      BY <1>4, <1>10, <2>6
    <3> QED BY <2>1, <3>2, <3>3
  <2> QED BY <2>5, <2>6
<1>11. Agrees(mv, c2, qty', torn')
  BY <1>10 DEF Agrees
<1> QED BY <1>4, <1>7, <1>9, <1>11 DEF LedgerInv

\* A step of i to another place than the update of a quantity.
LEMMA LedgerGoes ==
  ASSUME FunnelOK, LedgerInv, NEW i \in Instances, NEW P, Goes(i, P), "write" \notin P,
         moves' = moves, qty' = qty, torn \subseteq torn',
         calls[i].pc = "write" => Head(calls[i].todo).item \in torn'
  PROVE  LedgerInv'
<1>1. /\ \A j \in Instances : calls'[j].pc = "write" => calls'[j] = calls[j]
      /\ \A j \in Instances : calls[j].pc = "write" /\ calls'[j] # calls[j] =>
           Head(calls[j].todo).item \in torn'
  BY DEF Goes
<1> QED BY <1>1, LedgerStays

LEMMA LedgerStep == ASSUME FunnelOK, LedgerInv, [Next]_vars PROVE LedgerInv'
<1>1. CASE UNCHANGED vars
  BY <1>1 DEF vars, stockVars, shared, LedgerInv
<1>2. CASE Edit
  <2>1. moves' = moves /\ qty' = qty /\ torn' = torn
    BY <1>2 DEF Edit, StockEdit, EditProduct, LinkItem, ChangePipeline, stockVars
  <2>2. calls' = calls
    BY <1>2, EditGoes
  <2> QED BY <2>1, <2>2 DEF LedgerInv
<1>3. ASSUME NEW i \in Instances, Request(i)
      PROVE  LedgerInv'
  <2>1. moves' = moves /\ qty' = qty /\ torn' = torn
    BY <1>3 DEF Request, StockRequest, ArriveMovement, ArriveStage, stockVars
  <2>2. PICK P : Goes(i, P) /\ "write" \notin P /\ calls[i].pc = "idle"
    BY <1>3, RequestGoes
  <2> QED BY <2>1, <2>2, LedgerGoes
<1>4. ASSUME NEW i \in Instances, CadenceWork(i), UNCHANGED stockVars
      PROVE  LedgerInv'
  <2>1. moves' = moves /\ qty' = qty /\ torn' = torn
    BY <1>4 DEF stockVars
  <2>2. PICK P : Goes(i, P) /\ "write" \notin P
    BY <1>4, WorkGoes DEF CadenceWork, Ends
  <2>3. calls[i].pc # "write"
    BY <1>4 DEF CadenceWork, EnrolByStage, FindActive, InsertEnrolment, ReadEnrolment,
       FireStep, Advance, StopOne
  <2> QED BY <2>1, <2>2, <2>3, LedgerGoes
<1>5. ASSUME NEW i \in Instances,
             \/ Sync(i) \/ Consume(i) \/ Restore(i) \/ ReadItems(i) \/ WriteAnchor(i)
             \/ ChangeStage(i) \/ RunRules(i)
      PROVE  LedgerInv'
  <2>1. /\ moves' = moves /\ qty' = qty /\ torn' = torn
        /\ calls[i].pc # "write"
    BY <1>5 DEF Sync, Consume, Restore, ReadItems, WriteAnchor, ChangeStage, RunRules, stockVars
  <2>2. PICK P : Goes(i, P) /\ "write" \notin P
    BY <1>5, WorkGoes DEF Ends
  <2> QED BY <2>1, <2>2, LedgerGoes
<1>6. ASSUME NEW i \in Instances, Die(i) \/ Stumble(i)
      PROVE  LedgerInv'
  <2>1. moves' = moves /\ qty' = qty /\ torn' = torn \union Torn(i)
    BY <1>6 DEF Die, Stumble
  <2>2. PICK P : Goes(i, P) /\ "write" \notin P
    BY <1>6, WorkGoes DEF Ends
  <2>3. calls[i].pc = "write" => Head(calls[i].todo).item \in torn'
    BY <2>1 DEF Torn
  <2> QED BY <2>1, <2>2, <2>3, LedgerGoes
<1> QED BY <1>1, <1>2, <1>3, <1>4, <1>5, <1>6, LedgerMove, LedgerWrite DEF Next, Work, StockWork

(***************************************************************************)
(* What is on hand of an item is what there was at first and every         *)
(* movement counted since: however movements overlap and instances die, the *)
(* two part only where an update was written over another one or not at    *)
(* all.                                                                    *)
(***************************************************************************)
THEOREM LedgerCorrect == Spec => []LedgerAgrees
<1>1. Init => LedgerInv
  <2> SUFFICES ASSUME Init PROVE LedgerInv
    OBVIOUS
  <2>1. /\ \A i \in Instances : calls[i] = Idle
        /\ moves = <<>> /\ qty = Opening
    BY DEF Init
  <2>2. \A i \in Instances : calls[i].pc # "write"
    BY <2>1, IdleFields
  <2>3. ASSUME NEW item \in Items
        PROVE  qty[item] = Opening[item] + Sums(moves, CountedOf(moves, calls, item))[Len(moves)]
    <3> PICK S, mv : S = CountedOf(moves, calls, item) /\ mv = moves
      OBVIOUS
    <3>1. mv \in Seq(Move) /\ Len(mv) = 0
      BY <2>1
    <3> PICK s : s = Sums(mv, S)
      OBVIOUS
    <3>2. s[0] = 0
      BY <3>1, SumsRun DEF Running
    <3>3. Opening[item] \in Int
      BY StockAssumption
    <3> QED BY <2>1, <3>1, <3>2, <3>3
  <2>4. Agrees(moves, calls, qty, torn)
    BY <2>3 DEF Agrees
  <2> QED BY <2>2, <2>4 DEF LedgerInv, Listed
<1>2. FunnelOK /\ LedgerInv /\ [Next]_vars => LedgerInv'
  BY LedgerStep
<1>3. LedgerInv => LedgerAgrees
  BY LedgerMeans DEF LedgerInv
<1> QED BY <1>1, <1>2, <1>3, AlwaysOK, PTL DEF Spec

----------------------------------------------------------------------------
(* What a call goes on with.                                               *)

\* A call that has nothing to do with the stock of a lead, and where it goes.
LEMMA ThroughCall ==
  ASSUME FunnelOK, NEW i \in Instances, NEW q, q = calls[i], NEW r, r = Through(i)
  PROVE  /\ q.then = <<>> => r.pc = "idle" /\ r.then = <<>>
         /\ \A p : q.then = <<p>> =>
              /\ r.pc = p /\ r.then = <<>> /\ r.lead = q.lead
              /\ r.from = q.from /\ r.to = q.to /\ r.seen = q.seen
<1>1. q \in Call
  BY CallOf
<1>2. CASE q.then = <<>>
  <2>1. r = Idle /\ \A p : <<>> # <<p>>
    BY <1>2 DEF Through
  <2> QED BY <1>2, <2>1, IdleFields
<1>3. ASSUME NEW p, q.then = <<p>>
      PROVE  /\ r.pc = p /\ r.then = <<>> /\ r.lead = q.lead
             /\ r.from = q.from /\ r.to = q.to /\ r.seen = q.seen
  <2>1. <<p>> # <<>> /\ Head(<<p>>) = p /\ Tail(<<p>>) = <<>>
    OBVIOUS
  <2>2. r = [q EXCEPT !.pc = p, !.then = <<>>, !.todo = <<>>]
    BY <1>3, <2>1 DEF Through
  <2> QED BY <1>1, <2>2 DEF Call
<1> QED BY <1>2, <1>3

\* The work on the enrolments ends, or goes on with the same lead.
LEMMA EnrolCall ==
  ASSUME FunnelOK, NEW i \in Instances,
         EnrolByStage(i) \/ FindActive(i) \/ InsertEnrolment(i),
         NEW q, q = calls[i], NEW r, r = calls'[i]
  PROVE  /\ q.pc \in {"enrol", "find", "insert"}
         /\ \/ r = Through(i)
            \/ /\ r.then = q.then /\ r.pc \in {"find", "insert"} /\ r.lead = q.lead
               /\ r.to = q.to /\ r.from = q.from /\ r.seen = q.seen
<1>1. q \in Call /\ q.pc \in {"enrol", "find", "insert"}
  BY CallOf DEF EnrolByStage, FindActive, InsertEnrolment
<1>2. CASE Finish(i)
  BY <1>1, <1>2, FinishGoes
<1>3. CASE ~Finish(i)
  <2>1. PICK p \in {"find", "insert"} : \E t : Set(i, [q EXCEPT !.pc = p, !.todo = t])
    <3>1. CASE EnrolByStage(i)
      BY <3>1 DEF EnrolByStage
    <3>2. CASE InsertEnrolment(i)
      BY <3>2 DEF InsertEnrolment
    <3>3. CASE FindActive(i) /\ Goto(i, "insert")
      <4>1. [q EXCEPT !.pc = "insert"] = [q EXCEPT !.pc = "insert", !.todo = q.todo]
        BY <1>1 DEF Call
      <4> QED BY <3>3, <4>1 DEF Goto
    <3>4. CASE FindActive(i) /\ NextOf(i)
      <4>1. [q EXCEPT !.todo = Tail(q.todo)] = [q EXCEPT !.pc = "find", !.todo = Tail(q.todo)]
        BY <1>1, <3>4 DEF Call, FindActive
      <4> QED BY <3>4, <4>1 DEF NextOf
    <3> QED BY <1>3, <3>1, <3>2, <3>3, <3>4 DEF FindActive
  <2>2. PICK t : Set(i, [q EXCEPT !.pc = p, !.todo = t])
    BY <2>1
  <2> PICK s : s = [q EXCEPT !.pc = p, !.todo = t]
    OBVIOUS
  <2>3. /\ s.then = q.then /\ s.pc = p /\ s.lead = q.lead /\ s.to = q.to
        /\ s.from = q.from /\ s.seen = q.seen
    BY <1>1 DEF Call
  <2>4. Set(i, s)
    BY <2>2
  <2>5. r = s
    BY <2>3, <2>4, SetGoes
  <2> QED BY <1>1, <2>3, <2>5
<1> QED BY <1>2, <1>3

\* A run of the cron and a reply have nothing to come after them.
LEMMA RunCall ==
  ASSUME FunnelOK, NEW i \in Instances,
         ReadEnrolment(i) \/ FireStep(i) \/ Advance(i) \/ StopOne(i),
         calls[i].then = <<>>
  PROVE  /\ calls[i].pc \in {"next", "fire", "advance", "stop"}
         /\ calls'[i].pc \in {"idle", "next", "fire", "advance", "stop"}
         /\ calls'[i].then = <<>>
<1> PICK q, r : q = calls[i] /\ r = calls'[i]
  OBVIOUS
<1>1. q \in Call /\ q.pc \in {"next", "fire", "advance", "stop"} /\ q.then = <<>>
  BY CallOf DEF ReadEnrolment, FireStep, Advance, StopOne
<1> DEFINE Goal == r.pc \in {"idle", "next", "fire", "advance", "stop"} /\ r.then = <<>>
<1> HIDE DEF Goal
<1>2. ASSUME NEW s, Set(i, s), s.then = <<>>, s.pc \in {"next", "fire", "advance", "stop"}
      PROVE  Goal
  BY <1>2, SetGoes DEF Goal
<1>3. ASSUME Finish(i)
      PROVE  Goal
  <2> PICK s : s = Through(i)
    OBVIOUS
  <2>1. r = s
    BY <1>1, <1>3, FinishGoes
  <2> QED BY <1>1, <2>1, ThroughCall DEF Goal
<1>5. ASSUME NextOf(i)
      PROVE  Goal
  <2> PICK s : s = [q EXCEPT !.todo = Tail(q.todo)]
    OBVIOUS
  <2>1. s.then = <<>> /\ s.pc = q.pc
    BY <1>1 DEF Call
  <2>2. Set(i, s)
    BY <1>5 DEF NextOf
  <2> QED BY <1>1, <1>2, <2>1, <2>2
<1>6. ASSUME Set(i, [q EXCEPT !.pc = "fire", !.step = enrolled[Head(q.todo)].step])
      PROVE  Goal
  <2> PICK n : n = enrolled[Head(q.todo)].step
    OBVIOUS
  <2> PICK s : s = [q EXCEPT !.pc = "fire", !.step = n]
    OBVIOUS
  <2>1. s.then = <<>> /\ s.pc = "fire"
    BY <1>1 DEF Call
  <2>2. Set(i, s)
    BY <1>6
  <2> QED BY <1>2, <2>1, <2>2
<1>7. ASSUME FireStep(i)
      PROVE  Goal
  <2> PICK s : s = [q EXCEPT !.pc = "advance"]
    OBVIOUS
  <2>1. s.then = <<>> /\ s.pc = "advance"
    BY <1>1 DEF Call
  <2>2. Set(i, s)
    BY <1>7 DEF FireStep, Goto
  <2> QED BY <1>2, <2>1, <2>2
<1>8. ASSUME Advance(i)
      PROVE  Goal
  <2> PICK s : s = [q EXCEPT !.pc = "next", !.todo = Tail(q.todo)]
    OBVIOUS
  <2>1. s.then = <<>> /\ s.pc = "next"
    BY <1>1 DEF Call
  <2>2. Set(i, s)
    BY <1>8 DEF Advance
  <2> QED BY <1>2, <2>1, <2>2
<1>9. Goal
  BY <1>3, <1>5, <1>6, <1>7, <1>8 DEF ReadEnrolment, StopOne
<1> QED BY <1>1, <1>9 DEF Goal

\* What requests begin with.
LEMMA RequestCall ==
  ASSUME FunnelOK, NEW i \in Instances, Request(i), NEW r, r = calls'[i]
  PROVE  \/ r.pc \in {"find", "next", "stop"} /\ r.then = <<>>
         \/ r.pc = "read" /\ r.then = <<>> /\ r.lead = NoLead
         \/ r.pc = "stage" /\ r.then \in Orders /\ r.lead \in Leads /\ r.from = lead[r.lead].stage
<1> DEFINE Goal ==
       \/ r.pc \in {"find", "next", "stop"} /\ r.then = <<>>
       \/ r.pc = "read" /\ r.then = <<>> /\ r.lead = NoLead
       \/ r.pc = "stage" /\ r.then \in Orders /\ r.lead \in Leads /\ r.from = lead[r.lead].stage
<1>1. Idle \in Call /\ Idle.then = <<>> /\ Idle.lead = NoLead
  BY IdleFields
<1>2. ASSUME NEW s, Accept(i, s), NEW p, s.pc = p
      PROVE  r = s
  <2>1. Set(i, s)
    BY <1>2 DEF Accept, Set
  <2> QED BY <1>2, <2>1, SetGoes
<1>3. ASSUME NEW s, Accept(i, s), s.then = <<>>, s.pc \in {"find", "next", "stop"}
      PROVE  Goal
  BY <1>2, <1>3
<1> HIDE DEF Goal
<1>4. ASSUME NEW l \in Leads, NEW c \in world.enrols, ArriveEnrol(i, l, c)
      PROVE  Goal
  <2> PICK s : s = [Idle EXCEPT !.pc = "find", !.lead = l, !.todo = <<c>>]
    OBVIOUS
  <2>1. s.pc = "find" /\ s.then = <<>>
    BY <1>1 DEF Call
  <2>2. Accept(i, s)
    BY <1>4 DEF ArriveEnrol
  <2> QED BY <1>3, <2>1, <2>2
<1>5. ASSUME StartCron(i)
      PROVE  Goal
  <2>1. PICK list : Accept(i, [Idle EXCEPT !.pc = "next", !.todo = list])
    BY <1>5 DEF StartCron
  <2> PICK s : s = [Idle EXCEPT !.pc = "next", !.todo = list]
    OBVIOUS
  <2>2. s.pc = "next" /\ s.then = <<>>
    BY <1>1 DEF Call
  <2>3. Accept(i, s)
    BY <2>1
  <2> QED BY <1>3, <2>2, <2>3
<1>6. ASSUME NEW l \in Leads, ArriveReply(i, l)
      PROVE  Goal
  <2>1. PICK list : Accept(i, [Idle EXCEPT !.pc = "stop", !.lead = l, !.todo = list])
    BY <1>6 DEF ArriveReply
  <2> PICK s : s = [Idle EXCEPT !.pc = "stop", !.lead = l, !.todo = list]
    OBVIOUS
  <2>2. s.pc = "stop" /\ s.then = <<>>
    BY <1>1 DEF Call
  <2>3. Accept(i, s)
    BY <2>1
  <2> QED BY <1>3, <2>2, <2>3
<1>7. ASSUME NEW lines \in world.lines, ArriveMovement(i, lines)
      PROVE  Goal
  <2> PICK s : s = [Idle EXCEPT !.pc = "read", !.todo = lines]
    OBVIOUS
  <2>1. s.pc = "read" /\ s.then = <<>> /\ s.lead = NoLead
    BY <1>1 DEF Call
  <2>2. Accept(i, s)
    BY <1>7 DEF ArriveMovement
  <2>3. r = s
    BY <1>2, <2>1, <2>2
  <2> QED BY <2>1, <2>3 DEF Goal
<1>8. ASSUME NEW l \in Leads, NEW to \in world.targets, NEW then \in Orders,
             ArriveStage(i, l, to, then)
      PROVE  Goal
  <2> PICK from : from = lead[l].stage
    OBVIOUS
  <2> PICK s : s = [Idle EXCEPT !.pc = "stage", !.lead = l, !.to = to, !.from = from, !.then = then]
    OBVIOUS
  <2>1. s.pc = "stage" /\ s.then = then /\ s.lead = l /\ s.from = from
    BY <1>1 DEF Call
  <2>2. Accept(i, s)
    BY <1>8 DEF ArriveStage
  <2>3. r = s
    BY <1>2, <2>1, <2>2
  <2> QED BY <2>1, <2>3 DEF Goal
<1>9. Goal
  BY <1>4, <1>5, <1>6, <1>7, <1>8 DEF Request, CadenceRequest, StockRequest
<1> QED BY <1>9 DEF Goal

\* After the rules the enrolments and the stock come, in one order or the other.
LEMMA RulesCall ==
  ASSUME FunnelOK, NEW i \in Instances, RunRules(i), calls[i].then \in Orders,
         NEW q, q = calls[i], NEW r, r = calls'[i]
  PROVE  /\ q.pc = "rules" /\ r.lead = q.lead /\ r.from = q.from /\ r.to = q.to /\ r.seen = q.seen
         /\ \/ r.pc = "enrol" /\ r.then = <<"sync">>
            \/ r.pc = "sync" /\ r.then = <<"enrol">>
<1>1. q \in Call /\ q.pc = "rules"
  BY CallOf DEF RunRules
<1>2. r = Through(i)
  BY <1>1, FinishGoes DEF RunRules
<1>3. ASSUME NEW a, NEW b, q.then = <<a, b>>
      PROVE  /\ r.pc = a /\ r.then = <<b>> /\ r.lead = q.lead
             /\ r.from = q.from /\ r.to = q.to /\ r.seen = q.seen
  <2>1. <<a, b>> # <<>> /\ Head(<<a, b>>) = a /\ Tail(<<a, b>>) = <<b>>
    OBVIOUS
  <2>2. r = [q EXCEPT !.pc = a, !.then = <<b>>, !.todo = <<>>]
    BY <1>2, <1>3, <2>1 DEF Through
  <2> QED BY <1>1, <2>2 DEF Call
<1>4. CASE q.then = <<"enrol", "sync">>
  BY <1>1, <1>3, <1>4
<1>5. CASE q.then = <<"sync", "enrol">>
  BY <1>1, <1>3, <1>5
<1> QED BY <1>4, <1>5 DEF Orders

----------------------------------------------------------------------------
(* What a lead that is not won holds.                                      *)

Anchored(row) == row.anchor # 0 => row.stage \in Won

\* The work on the stock is still to come.
Pending(q) ==
  q.pc \in {"rules", "sync"} \/ (q.pc \in {"enrol", "find", "insert"} /\ q.then = <<"sync">>)

AtStock == {"read", "move", "write", "anchor"}
Selling(q) == q.pc \in AtStock /\ q.lead # NoLead /\ q.seen.anchor = 0
Returning(q) == q.pc \in AtStock /\ q.lead # NoLead /\ q.seen.anchor # 0

\* Meanwhile the lead may hold stock without being won.
Unsettled(q) == Pending(q) \/ q.pc = "restore" \/ Returning(q)

Shape(q) ==
  /\ q.pc \in {"stage", "rules"} => q.then \in Orders
  /\ q.pc \in {"enrol", "find", "insert"} => q.then \in {<<>>, <<"sync">>}
  /\ q.pc \in {"sync", "consume", "restore"} \union AtStock => q.then \in {<<>>, <<"enrol">>}
  /\ q.pc \in {"next", "fire", "advance", "stop"} => q.then = <<>>

\* What a call knows of its lead, by the rows of the leads and the movements.
Phase(q, rows, mv) ==
  /\ Shape(q)
  /\ q.pc = "stage" => q.from = rows[q.lead].stage
  /\ Pending(q) => /\ rows[q.lead].stage = q.to /\ rows[q.lead].anchor = q.seen.anchor
                   /\ q.seen.anchor # 0 => q.from \in Won
  /\ q.pc = "consume" => /\ rows[q.lead].stage \in Won /\ rows[q.lead].anchor = 0
                         /\ q.seen.anchor = 0
  /\ q.pc = "restore" => rows[q.lead].anchor = q.seen.anchor
  /\ Selling(q) => /\ rows[q.lead].stage \in Won /\ rows[q.lead].anchor = 0
                   /\ q.pc # "anchor" => Len(q.todo) = 1 /\ q.todo[1].change < 0
                   /\ q.pc \in {"write", "anchor"} => q.move # 0 /\ mv[q.move].change < 0
  /\ Returning(q) => /\ rows[q.lead].anchor = q.seen.anchor
                     /\ q.pc # "anchor" => Len(q.todo) = 1 /\ q.todo[1].change > 0

HeldOK ==
  /\ \A l \in Leads : lead[l].anchor # 0 => moves[lead[l].anchor].change < 0
  /\ \A i \in Instances : Phase(calls[i], lead, moves)
  /\ \A l \in Leads : \/ Anchored(lead[l])
                      \/ \E i \in Instances : Unsettled(calls[i]) /\ calls[i].lead = l

Calm == world.together = 1 /\ faults = 0 /\ Synced
HeldInv == Calm => HeldOK

\* A call that has nothing to do with the stock of a lead.
LEMMA FreePhase ==
  ASSUME NEW q, NEW rows, NEW mv, Shape(q),
         q.pc \in {"idle", "next", "fire", "advance", "stop"}
           \/ (q.pc \in {"enrol", "find", "insert"} /\ q.then = <<>>)
  PROVE  Phase(q, rows, mv) /\ ~Unsettled(q)
<1>1. <<>> # <<"sync">>
  OBVIOUS
<1> QED BY <1>1 DEF Phase, Pending, Selling, Returning, AtStock, Unsettled

LEMMA IdlePhase ==
  ASSUME NEW q, NEW rows, NEW mv, q.pc = "idle"
  PROVE  Phase(q, rows, mv) /\ ~Unsettled(q)
<1>1. Shape(q)
  BY DEF Shape, AtStock
<1> QED BY <1>1, FreePhase

\* The other instances rest, and the work of i leaves the leads as they are.
LEMMA HeldNext ==
  ASSUME FunnelOK, HeldOK, NEW i \in Instances,
         \A j \in Instances \ {i} : calls[j].pc = "idle" /\ calls'[j] = calls[j],
         lead' = lead,
         \A k \in 1 .. Len(moves) : moves'[k] = moves[k],
         Phase(calls'[i], lead, moves'),
         Unsettled(calls[i]) =>
           \/ Unsettled(calls'[i]) /\ calls'[i].lead = calls[i].lead
           \/ Anchored(lead[calls[i].lead])
  PROVE  HeldOK'
<1>1. \A j \in Instances : Phase(calls'[j], lead, moves')
  BY IdlePhase
<1>2. \A l \in Leads : lead[l].anchor # 0 => moves'[lead[l].anchor].change < 0
  <2>1. \A l \in Leads : lead[l].anchor \in 0 .. Len(moves) /\ Len(moves) \in Nat
    BY Lengths DEF FunnelOK, StockOK, LeadRow
  <2>2. \A l \in Leads : lead[l].anchor # 0 => lead[l].anchor \in 1 .. Len(moves)
    BY <2>1
  <2> QED BY <2>2 DEF HeldOK
<1>3. ASSUME NEW l \in Leads
      PROVE  \/ Anchored(lead[l])
             \/ \E j \in Instances : Unsettled(calls'[j]) /\ calls'[j].lead = l
  <2>1. CASE Anchored(lead[l])
    BY <2>1
  <2>2. CASE ~Anchored(lead[l])
    <3>1. PICK j \in Instances : Unsettled(calls[j]) /\ calls[j].lead = l
      BY <2>2 DEF HeldOK
    <3>2. j = i
      BY <3>1, IdlePhase
    <3> QED BY <2>2, <3>1, <3>2
  <2> QED BY <2>1, <2>2
<1> QED BY <1>1, <1>2, <1>3 DEF HeldOK

\* Through the present work, with the sync still to come, or with none.
LEMMA ThroughPhase ==
  ASSUME FunnelOK, NEW i \in Instances, NEW q, q = calls[i], NEW r, r = Through(i)
  PROVE  /\ q.then \in {<<>>, <<"enrol">>} =>
              Phase(r, lead, moves) /\ ~Unsettled(r)
         /\ q.then = <<"sync">> => /\ r.pc = "sync" /\ r.then = <<>> /\ r.lead = q.lead
                                   /\ r.from = q.from /\ r.to = q.to /\ r.seen = q.seen
<1>1. CASE q.then \in {<<>>, <<"enrol">>}
  <2>1. r.pc \in {"idle", "enrol"} /\ r.then = <<>>
    BY <1>1, ThroughCall
  <2>2. Shape(r)
    BY <2>1 DEF Shape, AtStock
  <2>3. <<>> # <<"sync">> /\ <<"enrol">> # <<"sync">>
    OBVIOUS
  <2> QED BY <1>1, <2>1, <2>2, <2>3, FreePhase
<1>2. CASE q.then = <<"sync">>
  <2>1. <<"sync">> # <<>> /\ <<"sync">> # <<"enrol">>
    OBVIOUS
  <2> QED BY <1>2, <2>1, ThroughCall
<1>3. CASE q.then \notin {<<>>, <<"enrol">>, <<"sync">>}
  BY <1>3
<1> QED BY <1>1, <1>2, <1>3

LEMMA EnrolPhase ==
  ASSUME FunnelOK, HeldOK, NEW i \in Instances,
         EnrolByStage(i) \/ FindActive(i) \/ InsertEnrolment(i)
  PROVE  /\ Phase(calls'[i], lead, moves)
         /\ Unsettled(calls[i]) => Unsettled(calls'[i]) /\ calls'[i].lead = calls[i].lead
<1> PICK q, r : q = calls[i] /\ r = calls'[i]
  OBVIOUS
<1>1. q \in Call /\ q.pc \in {"enrol", "find", "insert"} /\ Phase(q, lead, moves)
  BY CallOf DEF EnrolByStage, FindActive, InsertEnrolment, HeldOK
<1>2. q.then \in {<<>>, <<"sync">>}
  BY <1>1 DEF Phase, Shape
\* The call goes on with the same work, or is through with the enrolments.
<1>3. ASSUME r.then = q.then, r.pc \in {"find", "insert"}, r.lead = q.lead, r.to = q.to,
             r.from = q.from, r.seen = q.seen
      PROVE  Phase(r, lead, moves) /\ (Unsettled(q) => Unsettled(r) /\ r.lead = q.lead)
  <2>1. Shape(r)
    BY <1>2, <1>3 DEF Shape, AtStock
  <2>2. Pending(r) <=> Pending(q)
    BY <1>1, <1>3 DEF Pending
  <2>3. ~Selling(r) /\ ~Returning(r) /\ ~Returning(q)
    BY <1>1, <1>3 DEF Selling, Returning, AtStock
  <2> QED BY <1>1, <1>3, <2>1, <2>2, <2>3 DEF Phase, Unsettled
<1>4. CASE r = Through(i)
  <2>2. CASE q.then = <<>>
    <3>1. ~Unsettled(q)
      BY <1>1, <2>2, FreePhase DEF Phase
    <3> QED BY <1>4, <2>2, <3>1, ThroughPhase
  <2>3. CASE q.then = <<"sync">>
    <3>1. /\ r.pc = "sync" /\ r.then = <<>> /\ r.lead = q.lead
          /\ r.from = q.from /\ r.to = q.to /\ r.seen = q.seen
      BY <1>4, <2>3, ThroughPhase
    <3>2. Pending(q) /\ Pending(r)
      BY <1>1, <2>3, <3>1 DEF Pending
    <3>3. Shape(r) /\ ~Selling(r) /\ ~Returning(r)
      BY <3>1 DEF Shape, AtStock, Selling, Returning
    <3> QED BY <1>1, <3>1, <3>2, <3>3 DEF Phase, Unsettled
  <2> QED BY <1>2, <2>2, <2>3
<1> QED BY <1>3, <1>4, EnrolCall

LEMMA RunPhase ==
  ASSUME FunnelOK, HeldOK, NEW i \in Instances,
         ReadEnrolment(i) \/ FireStep(i) \/ Advance(i) \/ StopOne(i)
  PROVE  Phase(calls'[i], lead, moves) /\ ~Unsettled(calls[i])
<1> PICK q, r : q = calls[i] /\ r = calls'[i]
  OBVIOUS
<1>1. q.pc \in {"next", "fire", "advance", "stop"} /\ Phase(q, lead, moves)
  BY DEF ReadEnrolment, FireStep, Advance, StopOne, HeldOK
<1>2. q.then = <<>> /\ ~Unsettled(q)
  BY <1>1, FreePhase DEF Phase, Shape
<1>3. r.pc \in {"idle", "next", "fire", "advance", "stop"} /\ r.then = <<>>
  BY <1>2, RunCall
<1>4. Shape(r)
  BY <1>3 DEF Shape, AtStock
<1> QED BY <1>2, <1>3, <1>4, FreePhase

LEMMA RequestPhase ==
  ASSUME FunnelOK, NEW i \in Instances, Request(i)
  PROVE  Phase(calls'[i], lead, moves)
<1> PICK r : r = calls'[i]
  OBVIOUS
<1>1. \/ r.pc \in {"find", "next", "stop"} /\ r.then = <<>>
      \/ r.pc = "read" /\ r.then = <<>> /\ r.lead = NoLead
      \/ r.pc = "stage" /\ r.then \in Orders /\ r.from = lead[r.lead].stage
  BY RequestCall
<1>2. Shape(r)
  BY <1>1 DEF Shape, AtStock
<1>3. CASE r.pc \in {"find", "next", "stop"} /\ r.then = <<>>
  BY <1>2, <1>3, FreePhase
<1>4. CASE ~(r.pc \in {"find", "next", "stop"} /\ r.then = <<>>)
  <2>1. ~Pending(r) /\ ~Selling(r) /\ ~Returning(r)
    BY <1>1, <1>4 DEF AtStock, Pending, Selling, Returning
  <2> QED BY <1>1, <1>2, <1>4, <2>1 DEF Phase
<1> QED BY <1>3, <1>4

\* A call that ends its work on the stock.
LEMMA StockEnd ==
  ASSUME FunnelOK, NEW i \in Instances, Finish(i), Shape(calls[i]),
         calls[i].pc \in {"sync", "consume", "restore"} \union AtStock
  PROVE  Phase(calls'[i], lead, moves) /\ ~Unsettled(calls'[i])
<1> PICK q : q = calls[i]
  OBVIOUS
<1>1. calls'[i] = Through(i)
  BY FinishGoes DEF AtStock
<1>2. q.then \in {<<>>, <<"enrol">>}
  BY DEF Shape
<1> QED BY <1>1, <1>2, ThroughPhase

LEMMA SyncPhase ==
  ASSUME FunnelOK, HeldOK, NEW i \in Instances, Sync(i)
  PROVE  /\ Phase(calls'[i], lead, moves)
         /\ \/ Unsettled(calls'[i]) /\ calls'[i].lead = calls[i].lead
            \/ Anchored(lead[calls[i].lead])
<1> PICK q, r : q = calls[i] /\ r = calls'[i]
  OBVIOUS
<1>1. q \in Call /\ q.pc = "sync" /\ Phase(q, lead, moves)
  BY CallOf DEF Sync, HeldOK
<1>2. /\ Shape(q) /\ Pending(q) /\ lead[q.lead].stage = q.to
      /\ lead[q.lead].anchor = q.seen.anchor /\ (q.seen.anchor # 0 => q.from \in Won)
  BY <1>1 DEF Phase, Pending
<1>3. CASE Finish(i) /\ ~(q.to \in Won /\ q.from \notin Won) /\ ~(q.from \in Won /\ q.to \notin Won)
  <2>1. Anchored(lead[q.lead])
    BY <1>2, <1>3 DEF Anchored
  <2> QED BY <1>1, <1>2, <1>3, <2>1, StockEnd
<1>4. ASSUME NEW p \in {"consume", "restore"}, Goto(i, p)
      PROVE  r.pc = p /\ r.then = q.then /\ r.lead = q.lead /\ r.seen = q.seen /\ Shape(r)
  <2> PICK s : s = [q EXCEPT !.pc = p]
    OBVIOUS
  <2>1. s.pc = p /\ s.then = q.then /\ s.lead = q.lead /\ s.seen = q.seen
    BY <1>1 DEF Call
  <2>2. Set(i, s)
    BY <1>4 DEF Goto
  <2>3. r = s
    BY <2>1, <2>2, SetGoes
  <2>4. Shape(s)
    BY <1>1, <1>2, <2>1 DEF Shape, AtStock
  <2> QED BY <2>1, <2>3, <2>4
<1>5. CASE Goto(i, "consume") /\ q.to \in Won /\ q.from \notin Won
  <2>1. r.pc = "consume" /\ r.lead = q.lead /\ r.seen = q.seen /\ Shape(r)
    BY <1>4, <1>5
  <2>2. ~Pending(r) /\ ~Selling(r) /\ ~Returning(r)
    BY <2>1 DEF Pending, Selling, Returning, AtStock
  <2>3. Anchored(lead[q.lead])
    BY <1>2, <1>5 DEF Anchored
  <2> QED BY <1>2, <1>5, <2>1, <2>2, <2>3 DEF Phase
<1>6. CASE Goto(i, "restore")
  <2>1. r.pc = "restore" /\ r.lead = q.lead /\ r.seen = q.seen /\ Shape(r)
    BY <1>4, <1>6
  <2>2. ~Pending(r) /\ ~Selling(r) /\ ~Returning(r)
    BY <2>1 DEF Pending, Selling, Returning, AtStock
  <2> QED BY <1>2, <2>1, <2>2 DEF Phase, Unsettled
<1> QED BY <1>3, <1>5, <1>6 DEF Sync

LEMMA ConsumePhase ==
  ASSUME FunnelOK, HeldOK, NEW i \in Instances, Consume(i)
  PROVE  Phase(calls'[i], lead, moves) /\ ~Unsettled(calls[i])
<1> PICK q, r : q = calls[i] /\ r = calls'[i]
  OBVIOUS
<1>1. q \in Call /\ q.pc = "consume" /\ Phase(q, lead, moves) /\ Sound(q, Len(enrolled), Len(moves))
  BY CallOf DEF Consume, HeldOK
<1>2. /\ Shape(q) /\ lead[q.lead].stage \in Won /\ lead[q.lead].anchor = 0
      /\ q.seen.anchor = 0 /\ q.seen.need \in Int /\ q.lead \in Leads
  BY <1>1 DEF Phase, Sound, LeadRow
<1>3. ~Unsettled(q)
  BY <1>1 DEF Unsettled, Pending, Returning, AtStock
<1>4. CASE Finish(i)
  BY <1>1, <1>2, <1>3, <1>4, StockEnd
<1>5. CASE ~Finish(i)
  <2> PICK n : n = IF q.seen.need > 1 THEN q.seen.need ELSE 1
    OBVIOUS
  <2> PICK line : line = Line(ItemOf(q.seen.product), -n)
    OBVIOUS
  <2>1. Set(i, [q EXCEPT !.pc = "read", !.todo = <<line>>])
    BY <1>5 DEF Consume
  <2>2. line.change < 0
    BY <1>2 DEF Line
  <2> PICK s : s = [q EXCEPT !.pc = "read", !.todo = <<line>>]
    OBVIOUS
  <2>3. s.pc = "read" /\ s.then = q.then /\ s.lead = q.lead /\ s.seen = q.seen /\ s.todo = <<line>>
    BY <1>1 DEF Call
  <2>4. Set(i, s)
    BY <2>1
  <2>5. r = s
    BY <2>3, <2>4, SetGoes
  <2>6. Shape(s)
    BY <1>1, <1>2, <2>3 DEF Shape, AtStock
  <2>7. ~Pending(s) /\ ~Returning(s)
    BY <1>2, <2>3 DEF Pending, Returning
  <2>8. Len(s.todo) = 1 /\ s.todo[1].change < 0
    BY <2>2, <2>3
  <2> QED BY <1>2, <1>3, <2>3, <2>5, <2>6, <2>7, <2>8 DEF Phase
<1> QED BY <1>4, <1>5

LEMMA RestorePhase ==
  ASSUME FunnelOK, HeldOK, NEW i \in Instances, Restore(i)
  PROVE  /\ Phase(calls'[i], lead, moves)
         /\ \/ Unsettled(calls'[i]) /\ calls'[i].lead = calls[i].lead
            \/ Anchored(lead[calls[i].lead])
<1> PICK q, r, k : q = calls[i] /\ r = calls'[i] /\ k = q.seen.anchor
  OBVIOUS
<1>1. q \in Call /\ q.pc = "restore" /\ Phase(q, lead, moves) /\ Sound(q, Len(enrolled), Len(moves))
  BY CallOf DEF Restore, HeldOK
<1>2. Shape(q) /\ lead[q.lead].anchor = k /\ q.lead \in Leads /\ q.lead # NoLead
  BY <1>1, ConstantFacts DEF Phase, Sound
<1>3. CASE k = 0
  <2>1. Finish(i)
    BY <1>3 DEF Restore
  <2>2. Anchored(lead[q.lead])
    BY <1>2, <1>3 DEF Anchored
  <2> QED BY <1>1, <1>2, <2>1, <2>2, StockEnd
<1>4. ASSUME k # 0, r.pc = "anchor" \/ (r.pc = "read" /\ Len(r.todo) = 1 /\ r.todo[1].change > 0),
             r.then = q.then, r.lead = q.lead, r.seen = q.seen
      PROVE  Phase(r, lead, moves) /\ Unsettled(r)
  <2>1. Shape(r)
    BY <1>1, <1>2, <1>4 DEF Shape, AtStock
  <2>2. Returning(r) /\ ~Pending(r) /\ ~Selling(r)
    BY <1>2, <1>4 DEF Returning, Pending, Selling, AtStock
  <2> QED BY <1>2, <1>4, <2>1, <2>2 DEF Phase, Unsettled
<1>5. CASE k # 0 /\ ItemOf(q.seen.product) = NoItem
  <2> PICK s : s = [q EXCEPT !.pc = "anchor"]
    OBVIOUS
  <2>1. s.pc = "anchor" /\ s.then = q.then /\ s.lead = q.lead /\ s.seen = q.seen
    BY <1>1 DEF Call
  <2>2. Set(i, s)
    BY <1>5 DEF Restore, Goto
  <2>3. r = s
    BY <2>1, <2>2, SetGoes
  <2> QED BY <1>4, <1>5, <2>1, <2>3
<1>6. CASE k # 0 /\ ItemOf(q.seen.product) # NoItem
  <2> PICK line : line = Line(moves[k].item, -moves[k].change)
    OBVIOUS
  <2>1. line.change > 0
    <3>1. k \in 1 .. Len(moves)
      BY <1>1, <1>6, Lengths DEF Sound, LeadRow
    <3>2. moves[k].change < 0 /\ moves[k].change \in Int
      BY <1>2, <1>6, <3>1, MoveOf DEF HeldOK
    <3> QED BY <3>2 DEF Line
  <2> PICK s : s = [q EXCEPT !.pc = "read", !.todo = <<line>>]
    OBVIOUS
  <2>2. s.pc = "read" /\ s.then = q.then /\ s.lead = q.lead /\ s.seen = q.seen /\ s.todo = <<line>>
    BY <1>1 DEF Call
  <2>3. Set(i, s)
    BY <1>6 DEF Restore
  <2>4. r = s
    BY <2>2, <2>3, SetGoes
  <2>5. Len(s.todo) = 1 /\ s.todo[1].change > 0
    BY <2>1, <2>2
  <2> QED BY <1>4, <1>6, <2>2, <2>4, <2>5
<1> QED BY <1>3, <1>5, <1>6

\* A call on the stock that goes on with what it holds.
LEMMA StockPhase ==
  ASSUME NEW q, NEW r, NEW rows, NEW mv, NEW mv2, q.pc \in {"read", "move", "write"},
         Phase(q, rows, mv), r.pc \in AtStock,
         r.then = q.then, r.lead = q.lead, r.seen = q.seen,
         q.lead # NoLead /\ r.pc # "anchor" => r.todo = q.todo,
         Selling(q) /\ r.pc \in {"write", "anchor"} => r.move # 0 /\ mv2[r.move].change < 0
  PROVE  /\ Phase(r, rows, mv2)
         /\ Unsettled(q) => Unsettled(r) /\ r.lead = q.lead
<1>1. Shape(q) /\ Shape(r)
  BY DEF Phase, Shape, AtStock
<1>2. ~Pending(q) /\ ~Pending(r)
  BY DEF Pending, AtStock
<1>3. (Selling(r) <=> Selling(q)) /\ (Returning(r) <=> Returning(q))
  BY DEF Selling, Returning, AtStock
<1>4. Selling(r) => /\ rows[r.lead].stage \in Won /\ rows[r.lead].anchor = 0
                    /\ r.pc # "anchor" => Len(r.todo) = 1 /\ r.todo[1].change < 0
                    /\ r.pc \in {"write", "anchor"} => r.move # 0 /\ mv2[r.move].change < 0
  <2> SUFFICES ASSUME Selling(r)
               PROVE  /\ rows[r.lead].stage \in Won /\ rows[r.lead].anchor = 0
                      /\ r.pc # "anchor" => Len(r.todo) = 1 /\ r.todo[1].change < 0
                      /\ r.pc \in {"write", "anchor"} => r.move # 0 /\ mv2[r.move].change < 0
    OBVIOUS
  <2>1. q.lead # NoLead /\ Selling(q)
    BY <1>3 DEF Selling
  <2>2. rows[q.lead].stage \in Won /\ rows[q.lead].anchor = 0 /\ Len(q.todo) = 1 /\ q.todo[1].change < 0
    BY <2>1 DEF Phase
  <2> QED BY <2>1, <2>2
<1>5. Returning(r) => /\ rows[r.lead].anchor = r.seen.anchor
                      /\ r.pc # "anchor" => Len(r.todo) = 1 /\ r.todo[1].change > 0
  <2> SUFFICES ASSUME Returning(r)
               PROVE  /\ rows[r.lead].anchor = r.seen.anchor
                      /\ r.pc # "anchor" => Len(r.todo) = 1 /\ r.todo[1].change > 0
    OBVIOUS
  <2>1. q.lead # NoLead /\ Returning(q)
    BY <1>3 DEF Returning
  <2>2. rows[q.lead].anchor = q.seen.anchor /\ Len(q.todo) = 1 /\ q.todo[1].change > 0
    BY <2>1 DEF Phase
  <2> QED BY <2>1, <2>2
<1>6. r.pc \notin {"stage", "consume", "restore"}
  BY DEF AtStock
<1>7. Phase(r, rows, mv2)
  BY <1>1, <1>2, <1>4, <1>5, <1>6 DEF Phase
<1> QED BY <1>2, <1>3, <1>7 DEF Unsettled

LEMMA ReadItemsPhase ==
  ASSUME FunnelOK, ShelfInv, HeldOK, NEW i \in Instances, ReadItems(i)
  PROVE  /\ Phase(calls'[i], lead, moves)
         /\ Unsettled(calls[i]) => Unsettled(calls'[i]) /\ calls'[i].lead = calls[i].lead
<1> PICK q, r, rows, mv : q = calls[i] /\ r = calls'[i] /\ rows = lead /\ mv = moves
  OBVIOUS
<1>1. q \in Call /\ q.pc = "read" /\ Phase(q, rows, mv) /\ Sound(q, Len(enrolled), Len(moves))
  BY CallOf DEF ReadItems, HeldOK
<1>2. q.todo \in Seq(StockLine) /\ q.todo # <<>>
  BY <1>1 DEF Sound
<1> DEFINE fits == \A n \in DOMAIN q.todo : qty[q.todo[n].item] + q.todo[n].change >= 0
<1>5. ASSUME NEW s, s.pc = "move", s.then = q.then, s.lead = q.lead, s.seen = q.seen,
             s.todo = q.todo, s.pc \in AtStock
      PROVE  Phase(s, rows, mv) /\ (Unsettled(q) => Unsettled(s) /\ s.lead = q.lead)
  BY <1>1, <1>5, StockPhase
<1>3. CASE fits /\ Set(i, [q EXCEPT !.pc = "move", !.held = qty])
  <2> PICK s : s = [q EXCEPT !.pc = "move", !.held = qty]
    OBVIOUS
  <2>1. s.pc = "move" /\ s.then = q.then /\ s.lead = q.lead /\ s.seen = q.seen /\ s.todo = q.todo
    BY <1>1 DEF Call
  <2>2. Set(i, s)
    BY <1>3
  <2>3. r = s
    BY <2>1, <2>2, SetGoes
  <2>4. s.pc \in AtStock
    BY <2>1 DEF AtStock
  <2>5. Phase(s, rows, mv) /\ (Unsettled(q) => Unsettled(s) /\ s.lead = q.lead)
    BY <1>5, <2>1, <2>4
  <2> QED BY <2>3, <2>5
\* A return always fits.
<1>4. CASE ~fits /\ Finish(i)
  <2>1. ~Returning(q)
    <3> SUFFICES ASSUME Returning(q)
                 PROVE  fits
      BY <1>4
    <3>1. Len(q.todo) = 1 /\ q.todo[1].change > 0
      BY <1>1 DEF Phase
    <3>2. \A n \in DOMAIN q.todo : n = 1
      BY <1>2, <3>1
    <3>3. q.todo[1] \in StockLine
      BY <1>2, <3>1, ElementOfSeq
    <3>4. qty[q.todo[1].item] >= 0 /\ qty[q.todo[1].item] \in Int /\ q.todo[1].change \in Int
      BY <3>3 DEF StockLine, ShelfInv, NeverNegative, FunnelOK, StockOK
    <3>5. qty[q.todo[1].item] + q.todo[1].change >= 0
      BY <3>1, <3>4
    <3> QED BY <3>2, <3>5
  <2>2. ~Unsettled(q)
    BY <1>1, <2>1 DEF Unsettled, Pending
  <2>3. Shape(q)
    BY <1>1 DEF Phase
  <2> QED BY <1>1, <1>4, <2>2, <2>3, StockEnd DEF AtStock
<1> QED BY <1>3, <1>4 DEF ReadItems

LEMMA InsertMovePhase ==
  ASSUME FunnelOK, HeldOK, NEW i \in Instances, InsertMove(i)
  PROVE  /\ Phase(calls'[i], lead, moves')
         /\ Unsettled(calls[i]) => Unsettled(calls'[i]) /\ calls'[i].lead = calls[i].lead
         /\ \A k \in 1 .. Len(moves) : moves'[k] = moves[k]
<1> PICK q, r, n : q = calls[i] /\ r = calls'[i] /\ n = Len(moves) + 1
  OBVIOUS
<1> PICK rows, mv, mv2 : rows = lead /\ mv = moves /\ mv2 = moves'
  OBVIOUS
<1>1. q \in Call /\ q.pc = "move" /\ Phase(q, rows, mv) /\ Sound(q, Len(enrolled), Len(moves))
  BY CallOf DEF InsertMove, HeldOK
<1>2. q.todo \in Seq(StockLine) /\ q.todo # <<>>
  BY <1>1 DEF Sound
<1> PICK row : row = [item |-> Head(q.todo).item, change |-> Head(q.todo).change, lead |-> q.lead]
  OBVIOUS
<1>3. row.change = q.todo[1].change
  BY <1>2
<1>4. mv2 = Append(mv, row) /\ mv \in Seq(Move)
  BY DEF InsertMove, FunnelOK, StockOK
<1>5. n = Len(mv) + 1 /\ Len(mv) \in Nat /\ n # 0
  BY Lengths
<1>6. mv2[n] = row /\ \A k \in 1 .. Len(mv) : mv2[k] = mv[k]
  BY <1>4, <1>5
<1>13. ASSUME NEW s, s.pc = "write", s.then = q.then, s.lead = q.lead, s.seen = q.seen,
              s.todo = q.todo, s.pc \in AtStock,
              Selling(q) => s.move # 0 /\ mv2[s.move].change < 0
       PROVE  Phase(s, rows, mv2) /\ (Unsettled(q) => Unsettled(s) /\ s.lead = q.lead)
  BY <1>1, <1>13, StockPhase
<1> PICK s : s = [q EXCEPT !.pc = "write", !.move = n]
  OBVIOUS
<1>7. /\ s.pc = "write" /\ s.then = q.then /\ s.lead = q.lead /\ s.seen = q.seen
      /\ s.todo = q.todo /\ s.move = n
  BY <1>1 DEF Call
<1>8. Set(i, s)
  BY DEF InsertMove
<1>9. r = s
  BY <1>7, <1>8, SetGoes
<1>10. Selling(q) => s.move # 0 /\ mv2[s.move].change < 0
  <2>1. Selling(q) => q.todo[1].change < 0
    BY <1>1 DEF Phase
  <2> QED BY <1>3, <1>5, <1>6, <1>7, <2>1
<1>11. s.pc \in AtStock
  BY <1>7 DEF AtStock
<1>12. Phase(s, rows, mv2) /\ (Unsettled(q) => Unsettled(s) /\ s.lead = q.lead)
  BY <1>7, <1>10, <1>11, <1>13
<1> QED BY <1>6, <1>9, <1>12

LEMMA WriteQtyPhase ==
  ASSUME FunnelOK, HeldOK, NEW i \in Instances, WriteQty(i)
  PROVE  /\ Phase(calls'[i], lead, moves)
         /\ Unsettled(calls[i]) => Unsettled(calls'[i]) /\ calls'[i].lead = calls[i].lead
<1> PICK q, r, rows, mv : q = calls[i] /\ r = calls'[i] /\ rows = lead /\ mv = moves
  OBVIOUS
<1>1. q \in Call /\ q.pc = "write" /\ Phase(q, rows, mv) /\ Sound(q, Len(enrolled), Len(moves))
  BY CallOf DEF WriteQty, HeldOK
<1>2. q.lead # NoLead => Len(q.todo) = 1
  <2>1. q.lead # NoLead => Selling(q) \/ Returning(q)
    BY <1>1 DEF Selling, Returning, AtStock
  <2> QED BY <1>1, <2>1 DEF Phase
<1>7. Len(q.todo) > 1 => q.lead = NoLead
  <2> SUFFICES ASSUME q.lead # NoLead
               PROVE  ~(Len(q.todo) > 1)
    OBVIOUS
  <2>1. Len(q.todo) = 1
    BY <1>2
  <2> QED BY <2>1
<1>3. ASSUME NEW s, Set(i, s), s.pc \in {"move", "anchor"}, s.then = q.then, s.lead = q.lead,
             s.seen = q.seen, s.move = q.move, q.lead # NoLead => s.pc = "anchor"
      PROVE  Phase(r, rows, mv) /\ (Unsettled(q) => Unsettled(r) /\ r.lead = q.lead)
  <2>1. r = s
    BY <1>3, SetGoes
  <2>2. Selling(q) => s.move # 0 /\ mv[s.move].change < 0
    BY <1>1, <1>3 DEF Phase
  <2>3. s.pc \in AtStock
    BY <1>3 DEF AtStock
  <2>4. Phase(s, rows, mv) /\ (Unsettled(q) => Unsettled(s) /\ s.lead = q.lead)
    BY <1>1, <1>3, <2>2, <2>3, StockPhase
  <2> QED BY <2>1, <2>4
<1>4. CASE Len(q.todo) > 1 /\ Set(i, [q EXCEPT !.pc = "move", !.todo = Tail(q.todo)])
  <2> PICK s : s = [q EXCEPT !.pc = "move", !.todo = Tail(q.todo)]
    OBVIOUS
  <2>1. /\ s.pc = "move" /\ s.then = q.then /\ s.lead = q.lead /\ s.seen = q.seen
        /\ s.move = q.move
    BY <1>1 DEF Call
  <2>2. Set(i, s)
    BY <1>4
  <2>3. q.lead = NoLead
    BY <1>4, <1>7
  <2>4. Phase(r, rows, mv) /\ (Unsettled(q) => Unsettled(r) /\ r.lead = q.lead)
    BY <1>3, <2>1, <2>2, <2>3
  <2> QED BY <2>4
<1>5. CASE q.lead # NoLead /\ Goto(i, "anchor")
  <2> PICK s : s = [q EXCEPT !.pc = "anchor"]
    OBVIOUS
  <2>1. /\ s.pc = "anchor" /\ s.then = q.then /\ s.lead = q.lead /\ s.seen = q.seen
        /\ s.move = q.move
    BY <1>1 DEF Call
  <2>2. Set(i, s)
    BY <1>5 DEF Goto
  <2>4. Phase(r, rows, mv) /\ (Unsettled(q) => Unsettled(r) /\ r.lead = q.lead)
    BY <1>3, <2>1, <2>2
  <2> QED BY <2>4
<1>6. CASE q.lead = NoLead /\ Finish(i)
  <2>1. ~Unsettled(q)
    BY <1>1, <1>6 DEF Unsettled, Pending, Returning
  <2>2. Shape(q)
    BY <1>1 DEF Phase
  <2> QED BY <1>1, <1>6, <2>1, <2>2, StockEnd DEF AtStock
<1> QED BY <1>4, <1>5, <1>6 DEF WriteQty

\* Where the handler goes with no more work on the stock to come.
LEMMA ThroughAny ==
  ASSUME FunnelOK, NEW i \in Instances, calls[i].then \in {<<>>, <<"enrol">>},
         NEW r, r = Through(i), NEW rows, NEW mv
  PROVE  Phase(r, rows, mv) /\ ~Unsettled(r)
<1> PICK q : q = calls[i]
  OBVIOUS
<1>1. r.pc \in {"idle", "enrol"} /\ r.then = <<>>
  BY ThroughCall
<1>2. Shape(r)
  BY <1>1 DEF Shape, AtStock
<1> QED BY <1>1, <1>2, FreePhase

\* While i works, whoever else holds stock without being won would be at work too.
LEMMA HeldElse ==
  ASSUME HeldOK, NEW i \in Instances, NEW l \in Leads, calls[i].lead # l \/ ~Unsettled(calls[i]),
         \A j \in Instances \ {i} : calls[j].pc = "idle"
  PROVE  Anchored(lead[l])
<1>1. ASSUME NEW j \in Instances, Unsettled(calls[j]), calls[j].lead = l
      PROVE  FALSE
  <2>1. j = i
    BY <1>1, IdlePhase
  <2> QED BY <1>1, <2>1
<1> QED BY <1>1 DEF HeldOK

\* The anchor says a sale, and a return takes it off; the leads are as good as
\* they were.
LEMMA WriteAnchorHeld ==
  ASSUME FunnelOK, HeldOK, NEW i \in Instances, WriteAnchor(i),
         \A j \in Instances \ {i} : calls[j].pc = "idle"
  PROVE  HeldOK'
<1> PICK q, rows, mv, rows2 : q = calls[i] /\ rows = lead /\ mv = moves /\ rows2 = lead'
  OBVIOUS
<1> PICK a : a = IF q.seen.anchor = 0 THEN q.move ELSE 0
  OBVIOUS
<1>1. q \in Call /\ q.pc = "anchor" /\ Phase(q, rows, mv) /\ Sound(q, Len(enrolled), Len(moves))
  BY CallOf DEF WriteAnchor, HeldOK
<1>2. q.lead \in Leads /\ q.lead # NoLead
  BY <1>1, ConstantFacts DEF Sound
<1>3. rows2 = [rows EXCEPT ![q.lead].anchor = a] /\ moves' = mv
  BY DEF WriteAnchor
<1>4. rows \in [Leads -> LeadRow(Len(moves))]
  BY DEF FunnelOK, StockOK
<1>5. \A l \in Leads \ {q.lead} : rows2[l] = rows[l]
  BY <1>2, <1>3, <1>4
<1>6. rows2[q.lead].anchor = a /\ rows2[q.lead].stage = rows[q.lead].stage
  BY <1>2, <1>3, <1>4 DEF LeadRow
<1>7. a # 0 => mv[a].change < 0 /\ rows[q.lead].stage \in Won
  <2>1. a # 0 => Selling(q) /\ a = q.move
    BY <1>1, <1>2 DEF Selling, AtStock
  <2> QED BY <1>1, <2>1 DEF Phase
<1>8. \A l \in Leads : rows2[l].anchor # 0 => mv[rows2[l].anchor].change < 0
  BY <1>5, <1>6, <1>7 DEF HeldOK
<1>9. \A l \in Leads : Anchored(rows2[l])
  <2>1. \A l \in Leads \ {q.lead} : Anchored(rows[l])
    BY HeldElse
  <2>2. Anchored(rows2[q.lead])
    BY <1>6, <1>7 DEF Anchored
  <2> QED BY <1>5, <2>1, <2>2
<1>10. \A j \in Instances : Phase(calls'[j], rows2, mv)
  <2> PICK r : r = calls'[i]
    OBVIOUS
  <2>1. r = Through(i)
    BY <1>1, FinishGoes DEF WriteAnchor
  <2>2. calls[i].then \in {<<>>, <<"enrol">>}
    BY <1>1 DEF Phase, Shape, AtStock
  <2>3. Phase(r, rows2, mv)
    BY <2>1, <2>2, ThroughAny
  <2>4. \A j \in Instances \ {i} : calls'[j].pc = "idle"
    BY WorkGoes DEF Goes
  <2>5. ASSUME NEW j \in Instances \ {i}
        PROVE  Phase(calls'[j], rows2, mv)
    <3> PICK s : s = calls'[j]
      OBVIOUS
    <3>1. Phase(s, rows2, mv)
      BY <2>4, IdlePhase
    <3> QED BY <3>1
  <2> QED BY <2>3, <2>5
<1> QED BY <1>3, <1>8, <1>9, <1>10 DEF HeldOK

\* A lead that is moved on: what it holds is still to be looked at.
LEMMA ChangeStageHeld ==
  ASSUME FunnelOK, HeldOK, NEW i \in Instances, ChangeStage(i),
         \A j \in Instances \ {i} : calls[j].pc = "idle"
  PROVE  HeldOK'
<1> PICK q, rows, mv, rows2 : q = calls[i] /\ rows = lead /\ mv = moves /\ rows2 = lead'
  OBVIOUS
<1> PICK row : row = rows2[q.lead]
  OBVIOUS
<1>1. q \in Call /\ q.pc = "stage" /\ Phase(q, rows, mv) /\ Sound(q, Len(enrolled), Len(moves))
  BY CallOf DEF ChangeStage, HeldOK
<1>2. q.lead \in Leads /\ q.from = rows[q.lead].stage /\ q.then \in Orders
  BY <1>1 DEF Sound, Phase, Shape
<1>3. rows2 = [rows EXCEPT ![q.lead].stage = q.to] /\ moves' = mv
  BY DEF ChangeStage
<1>4. rows \in [Leads -> LeadRow(Len(moves))]
  BY DEF FunnelOK, StockOK
<1>5. \A l \in Leads \ {q.lead} : rows2[l] = rows[l]
  BY <1>2, <1>3, <1>4
<1>6. row.anchor = rows[q.lead].anchor /\ row.stage = q.to
  BY <1>2, <1>3, <1>4 DEF LeadRow
<1>7. ~Unsettled(q)
  BY <1>1 DEF Unsettled, Pending, Returning, AtStock
<1>8. \A l \in Leads : Anchored(rows[l])
  BY <1>7, HeldElse
<1> PICK s : s = [q EXCEPT !.pc = "rules", !.seen = row]
  OBVIOUS
<1>9. /\ s.pc = "rules" /\ s.then = q.then /\ s.lead = q.lead /\ s.from = q.from /\ s.to = q.to
      /\ s.seen = row
  BY <1>1 DEF Call
<1>10. Set(i, s)
  BY DEF ChangeStage
<1>11. calls'[i] = s
  BY <1>9, <1>10, SetGoes
<1>12. Phase(s, rows2, mv) /\ Unsettled(s)
  <2>1. Shape(s) /\ Pending(s) /\ ~Selling(s) /\ ~Returning(s)
    BY <1>2, <1>9 DEF Shape, Pending, Selling, Returning, AtStock
  <2>2. row.anchor # 0 => q.from \in Won
    BY <1>2, <1>6, <1>8 DEF Anchored
  <2> QED BY <1>6, <1>9, <2>1, <2>2 DEF Phase, Unsettled
<1>13. \A j \in Instances \ {i} : calls'[j].pc = "idle"
  BY WorkGoes DEF Goes
<1>14. ASSUME NEW j \in Instances \ {i}
       PROVE  Phase(calls'[j], rows2, mv)
  <2> PICK r : r = calls'[j]
    OBVIOUS
  <2>1. Phase(r, rows2, mv)
    BY <1>13, IdlePhase
  <2> QED BY <2>1
<1>15. \A j \in Instances : Phase(calls'[j], rows2, mv)
  BY <1>11, <1>12, <1>14
<1>16. \A l \in Leads : rows2[l].anchor # 0 => mv[rows2[l].anchor].change < 0
  BY <1>5, <1>6 DEF HeldOK
<1>17. \A l \in Leads : \/ Anchored(rows2[l])
                        \/ \E j \in Instances : Unsettled(calls'[j]) /\ calls'[j].lead = l
  <2>1. \A l \in Leads \ {q.lead} : Anchored(rows2[l])
    BY <1>5, <1>8
  <2>2. Unsettled(calls'[i]) /\ calls'[i].lead = q.lead
    BY <1>9, <1>11, <1>12
  <2> QED BY <2>1, <2>2
<1> QED BY <1>3, <1>15, <1>16, <1>17 DEF HeldOK

LEMMA RunRulesPhase ==
  ASSUME FunnelOK, HeldOK, Synced, NEW i \in Instances, RunRules(i)
  PROVE  /\ lead' = lead
         /\ Phase(calls'[i], lead, moves)
         /\ Unsettled(calls'[i]) /\ calls'[i].lead = calls[i].lead
<1> PICK q, r, rows, mv : q = calls[i] /\ r = calls'[i] /\ rows = lead /\ mv = moves
  OBVIOUS
<1>1. q \in Call /\ q.pc = "rules" /\ Phase(q, rows, mv) /\ Sound(q, Len(enrolled), Len(moves))
  BY CallOf DEF RunRules, HeldOK
<1>2. lead' = lead
  <2>1. q.to \in Stages
    BY <1>1 DEF Sound
  <2>2. world.rule \in [Stages -> Stages \union {"none"}]
    BY WorldFacts DEF FunnelOK, CallsOK
  <2>3. world.rule[q.to] = "none"
    BY <2>1, <2>2 DEF Synced
  <2> QED BY <2>3 DEF RunRules
<1>3. /\ q.then \in Orders /\ rows[q.lead].stage = q.to /\ rows[q.lead].anchor = q.seen.anchor
      /\ q.seen.anchor # 0 => q.from \in Won
  BY <1>1 DEF Phase, Shape, Pending
<1>5. /\ r.lead = q.lead /\ r.from = q.from /\ r.to = q.to /\ r.seen = q.seen
      /\ \/ r.pc = "enrol" /\ r.then = <<"sync">>
         \/ r.pc = "sync" /\ r.then = <<"enrol">>
  BY <1>3, RulesCall
<1>6. Shape(r) /\ Pending(r) /\ ~Selling(r) /\ ~Returning(r)
  BY <1>5 DEF Shape, Pending, Selling, Returning, AtStock
<1>7. Phase(r, rows, mv)
  BY <1>3, <1>5, <1>6 DEF Phase
<1> QED BY <1>2, <1>5, <1>6, <1>7 DEF Unsettled

\* What is done to a lead by hand touches neither its stage nor its anchor.
LEMMA EditHeld ==
  ASSUME FunnelOK, HeldOK, Synced, Edit
  PROVE  HeldOK'
<1> PICK rows, mv, rows2 : rows = lead /\ mv = moves /\ rows2 = lead'
  OBVIOUS
<1>1. calls' = calls
  BY EditGoes
<1>2. moves' = mv
  BY DEF Edit, StockEdit, EditProduct, LinkItem, ChangePipeline, stockVars
<1>3. rows \in [Leads -> LeadRow(Len(moves))]
  BY DEF FunnelOK, StockOK
<1>4. \A l \in Leads : rows2[l].stage = rows[l].stage /\ rows2[l].anchor = rows[l].anchor
  <2>1. CASE rows2 = rows
    BY <2>1
  <2>2. ASSUME NEW k, NEW p, NEW n, EditProduct(k, p, n)
        PROVE  \A l \in Leads : rows2[l].stage = rows[l].stage /\ rows2[l].anchor = rows[l].anchor
    <3>1. rows2 = [rows EXCEPT ![k].product = p, ![k].need = n]
      BY <2>2 DEF EditProduct
    <3> QED BY <1>3, <3>1 DEF LeadRow
  <2>3. rows2 = rows \/ \E k, p, n : EditProduct(k, p, n)
    BY DEF Edit, StockEdit, LinkItem, stockVars, Synced
  <2> QED BY <2>1, <2>2, <2>3
<1>5. ASSUME NEW j \in Instances
      PROVE  Phase(calls[j], rows2, mv)
  <2> PICK q : q = calls[j]
    OBVIOUS
  <2>1. Phase(q, rows, mv) /\ Sound(q, Len(enrolled), Len(moves)) /\ q \in Call
    BY CallOf DEF HeldOK
  <2>2. q.lead \in Leads => rows2[q.lead].stage = rows[q.lead].stage /\ rows2[q.lead].anchor = rows[q.lead].anchor
    BY <1>4
  <2>3. Pending(q) \/ Selling(q) \/ Returning(q) \/ q.pc \in {"stage", "consume", "restore"} => q.lead \in Leads
    BY <2>1 DEF Sound, Pending, Selling, Returning, Call
  <2>4. Phase(q, rows2, mv)
    BY <2>1, <2>2, <2>3 DEF Phase
  <2> QED BY <2>4
<1>6. \A j \in Instances : Phase(calls[j], rows2, mv)
  BY <1>5
<1>7. \A l \in Leads : rows2[l].anchor # 0 => mv[rows2[l].anchor].change < 0
  BY <1>4 DEF HeldOK
<1>8. \A l \in Leads : \/ Anchored(rows2[l])
                       \/ \E j \in Instances : Unsettled(calls[j]) /\ calls[j].lead = l
  BY <1>4 DEF HeldOK, Anchored
<1> QED BY <1>1, <1>2, <1>6, <1>7, <1>8 DEF HeldOK

\* Faults are only counted up.
LEMMA NoFault ==
  ASSUME FunnelOK, [Next]_vars, faults' = 0
  PROVE  /\ faults = 0
         /\ \/ UNCHANGED vars \/ Edit
            \/ \E i \in Instances : Request(i) \/ Work(i)
<1>1. faults \in Nat
  BY ConstantFacts DEF FunnelOK, CallsOK
<1>2. ASSUME NEW i \in Instances, Die(i) \/ Stumble(i)
      PROVE  FALSE
  BY <1>1, <1>2 DEF Die, Stumble
<1>3. Edit => faults' = faults
  BY EditGoes
<1>4. \A i \in Instances : Request(i) => faults' = faults
  BY RequestBegins
<1>5. ASSUME NEW i \in Instances, Work(i)
      PROVE  faults' = faults
  BY <1>5 DEF Work, CadenceWork, StockWork, EnrolByStage, FindActive, InsertEnrolment,
     ReadEnrolment, FireStep, Advance, StopOne, Sync, Consume, Restore, ReadItems,
     InsertMove, WriteQty, WriteAnchor, ChangeStage, RunRules
<1>6. UNCHANGED vars => faults' = faults
  BY DEF vars, shared
<1> QED BY <1>2, <1>3, <1>4, <1>5, <1>6 DEF Next

LEMMA WorkHeld ==
  ASSUME FunnelOK, ShelfInv, HeldOK, Synced, NEW i \in Instances, Work(i),
         \A j \in Instances \ {i} : calls[j].pc = "idle"
  PROVE  HeldOK'
<1>1. ASSUME NEW P, Goes(i, P), lead' = lead,
             \A k \in 1 .. Len(moves) : moves'[k] = moves[k],
             Phase(calls'[i], lead, moves'),
             Unsettled(calls[i]) =>
               \/ Unsettled(calls'[i]) /\ calls'[i].lead = calls[i].lead
               \/ Anchored(lead[calls[i].lead])
      PROVE  HeldOK'
  BY <1>1, HeldNext DEF Goes
<1>2. CASE CadenceWork(i) /\ UNCHANGED stockVars
  <2>1. lead' = lead /\ moves' = moves
    BY <1>2 DEF stockVars
  <2>2. PICK P : Goes(i, P)
    BY <1>2, WorkGoes DEF CadenceWork
  <2>3. Phase(calls'[i], lead, moves)
    BY <1>2, EnrolPhase, RunPhase DEF CadenceWork
  <2>4. Unsettled(calls[i]) => Unsettled(calls'[i]) /\ calls'[i].lead = calls[i].lead
    BY <1>2, EnrolPhase, RunPhase DEF CadenceWork
  <2> QED BY <1>1, <2>1, <2>2, <2>3, <2>4
<1>3. CASE Sync(i) \/ Consume(i) \/ Restore(i) \/ ReadItems(i) \/ WriteQty(i)
  <2>1. lead' = lead /\ moves' = moves
    BY <1>3 DEF Sync, Consume, Restore, ReadItems, WriteQty, stockVars
  <2>2. PICK P : Goes(i, P)
    BY <1>3, WorkGoes
  <2>3. Phase(calls'[i], lead, moves)
    BY <1>3, SyncPhase, ConsumePhase, RestorePhase, ReadItemsPhase, WriteQtyPhase
  <2>4. Unsettled(calls[i]) =>
               \/ Unsettled(calls'[i]) /\ calls'[i].lead = calls[i].lead
               \/ Anchored(lead[calls[i].lead])
    BY <1>3, SyncPhase, ConsumePhase, RestorePhase, ReadItemsPhase, WriteQtyPhase
  <2> QED BY <1>1, <2>1, <2>2, <2>3, <2>4
<1>4. CASE InsertMove(i)
  <2>1. lead' = lead
    BY <1>4 DEF InsertMove
  <2>2. PICK P : Goes(i, P)
    BY <1>4, WorkGoes
  <2> QED BY <1>1, <1>4, <2>1, <2>2, InsertMovePhase
<1>5. CASE RunRules(i)
  <2>1. moves' = moves
    BY <1>5 DEF RunRules
  <2>2. PICK P : Goes(i, P)
    BY <1>5, WorkGoes
  <2> QED BY <1>1, <1>5, <2>1, <2>2, RunRulesPhase
<1>6. CASE WriteAnchor(i)
  BY <1>6, WriteAnchorHeld
<1>7. CASE ChangeStage(i)
  BY <1>7, ChangeStageHeld
<1> QED BY <1>2, <1>3, <1>4, <1>5, <1>6, <1>7 DEF Work, StockWork

LEMMA RequestHeld ==
  ASSUME FunnelOK, HeldOK, NEW i \in Instances, Request(i),
         \A j \in Instances \ {i} : calls[j].pc = "idle"
  PROVE  HeldOK'
<1>1. lead' = lead /\ moves' = moves
  BY DEF Request, StockRequest, ArriveMovement, ArriveStage, stockVars
<1>2. /\ \A j \in Instances \ {i} : calls'[j] = calls[j]
      /\ calls[i].pc = "idle"
  BY RequestGoes DEF Goes
<1>3. ~Unsettled(calls[i])
  BY <1>2, IdlePhase
<1>4. Phase(calls'[i], lead, moves)
  BY RequestPhase
<1> QED BY <1>1, <1>2, <1>3, <1>4, HeldNext

LEMMA HeldStep ==
  ASSUME FunnelOK, ShelfInv, SingleInv, HeldInv, [Next]_vars
  PROVE  HeldInv'
<1> SUFFICES ASSUME Calm'
             PROVE  HeldOK'
  BY DEF HeldInv
<1>1. world' = world
  BY ActorStep
<1>2. faults' = 0
  BY DEF Calm
<1>3. world.together = 1 /\ Synced
  BY <1>1 DEF Calm, Synced
<1>4. HeldOK
  BY <1>2, <1>3, NoFault DEF HeldInv, Calm
<1>5. CASE UNCHANGED vars
  BY <1>4, <1>5 DEF vars, stockVars, shared, HeldOK
<1>6. CASE Edit
  BY <1>3, <1>4, <1>6, EditHeld
<1>7. ASSUME NEW i \in Instances, Request(i)
      PROVE  HeldOK'
  <2>1. \A j \in Instances : calls[j].pc = "idle"
    BY <1>3, <1>7, RequestBegins, NoneBusy
  <2> QED BY <1>4, <1>7, <2>1, RequestHeld
<1>8. ASSUME NEW i \in Instances, Work(i)
      PROVE  HeldOK'
  <2>1. calls[i].pc # "idle"
    BY <1>8 DEF Work, CadenceWork, StockWork, EnrolByStage, FindActive, InsertEnrolment,
       ReadEnrolment, FireStep, Advance, StopOne, Sync, Consume, Restore, ReadItems,
       InsertMove, WriteQty, WriteAnchor, ChangeStage, RunRules
  <2>2. \A j \in Instances \ {i} : calls[j].pc = "idle"
    BY <1>3, <2>1, OthersIdle
  <2> QED BY <1>3, <1>4, <1>8, <2>2, WorkHeld
<1> QED BY <1>2, <1>5, <1>6, <1>7, <1>8, NoFault

(***************************************************************************)
(* While requests come one at a time, none dies and every change of stage  *)
(* syncs the stock, a lead that is not won holds none between two          *)
(* requests: whichever stage it was drawn back to, and whatever the lead,  *)
(* its product and the item of that have become meanwhile.                 *)
(***************************************************************************)
THEOREM HeldCorrect == Spec => []HeldOnlyWhenWon
<1>1. Init => HeldInv
  <2> SUFFICES ASSUME Init PROVE HeldOK
    BY DEF HeldInv
  <2>1. \A i \in Instances : calls[i] = Idle
    BY DEF Init
  <2>2. \A i \in Instances : Phase(calls[i], lead, moves)
    BY <2>1, IdleFields, IdlePhase
  <2>3. \A l \in Leads : lead[l].anchor = 0
    BY DEF Init
  <2> QED BY <2>2, <2>3 DEF HeldOK, Anchored
<1>2. Init => SingleInv
  <2> SUFFICES ASSUME Init PROVE OneCall
    BY DEF SingleInv
  <2> QED BY IdleFields DEF Init, OneCall
<1>3. Init => ShelfInv
  <2> SUFFICES ASSUME Init PROVE ShelfInv
    OBVIOUS
  <2>1. NeverNegative
    BY ConstantFacts DEF Init, NeverNegative
  <2>2. \A i \in Instances : calls[i] = Idle
    BY DEF Init
  <2> QED BY <2>1, <2>2, IdleFields DEF ShelfInv, Enough
<1>4. FunnelOK /\ ShelfInv /\ SingleInv /\ HeldInv /\ [Next]_vars => HeldInv'
  BY HeldStep
<1>5. FunnelOK /\ ShelfInv /\ [Next]_vars => ShelfInv'
  BY ShelfStep
<1>6. FunnelOK /\ SingleInv /\ [Next]_vars => SingleInv'
  BY SingleStep
<1>7. HeldInv => HeldOnlyWhenWon
  <2> SUFFICES ASSUME HeldOK, Busy = {}
               PROVE  \A l \in Leads : lead[l].anchor # 0 => lead[l].stage \in Won
    BY DEF HeldInv, Calm, HeldOnlyWhenWon
  <2>1. \A i \in Instances : ~Unsettled(calls[i])
    BY IdlePhase DEF Busy
  <2> QED BY <2>1 DEF HeldOK, Anchored
<1> QED BY <1>1, <1>2, <1>3, <1>4, <1>5, <1>6, <1>7, AlwaysOK, PTL DEF Spec

----------------------------------------------------------------------------
(* What the movements of a lead come to.                                   *)

\* The anchor of the lead is still the one the call saw.
Watching(q) ==
  \/ Pending(q)
  \/ q.pc \in {"consume", "restore"}
  \/ q.pc \in AtStock /\ q.lead # NoLead

\* Its movement is in the ledger, the anchor does not say so yet; or the sale
\* was let go.
Counting(q) == q.pc \in {"write", "anchor"} /\ q.lead # NoLead

\* What a call does with the stock of its lead: it takes a sale off, or returns
\* the one it saw.
Tracks(q, rows, mv, gn) ==
  /\ Shape(q)
  /\ Watching(q) => rows[q.lead].anchor = q.seen.anchor
  /\ q.pc \in {"read", "move", "write"} /\ q.lead # NoLead =>
       /\ Len(q.todo) = 1
       /\ q.seen.anchor # 0 =>
            /\ q.todo[1].item = mv[q.seen.anchor].item
            /\ q.todo[1].change = -mv[q.seen.anchor].change
  /\ Counting(q) /\ q.seen.anchor = 0 =>
       q.move # 0 /\ mv[q.move].lead = q.lead /\ q.move \notin gn

\* What stands of the movements of a lead.
SalesOf(mv, gn, l, item) ==
  {n \in DOMAIN mv : mv[n].lead = l /\ mv[n].item = item} \ gn

Stands(mv, gn, l, k) ==
  \A item \in Items :
    Sums(mv, SalesOf(mv, gn, l, item))[Len(mv)]
      = IF k # 0 /\ mv[k].item = item THEN mv[k].change ELSE 0

SaleOK ==
  /\ \A i \in Instances : Tracks(calls[i], lead, moves, gone)
  /\ \A l \in Leads : lead[l].anchor # 0 => moves[lead[l].anchor].lead = l
  /\ \A l \in Leads :
       \/ /\ lead[l].anchor \notin gone
          /\ Stands(moves, gone, l, lead[l].anchor)
       \/ \E i \in Instances : Counting(calls[i]) /\ calls[i].lead = l
  /\ \A i \in Instances : Counting(calls[i]) =>
       Stands(moves, gone, calls[i].lead, IF calls[i].seen.anchor = 0 THEN calls[i].move ELSE 0)

SaleInv == world.together = 1 /\ faults = 0 => SaleOK

\* Two calls that count the same.
SameSale(q, r) ==
  /\ Counting(r) <=> Counting(q)
  /\ Counting(q) => r.lead = q.lead /\ r.seen = q.seen /\ r.move = q.move

LEMMA FreeTracks ==
  ASSUME NEW q, NEW rows, NEW mv, NEW gn, Shape(q),
         q.pc \in {"idle", "stage", "next", "fire", "advance", "stop"}
           \/ (q.pc \in {"enrol", "find", "insert"} /\ q.then = <<>>)
           \/ (q.pc = "read" /\ q.lead = NoLead)
  PROVE  Tracks(q, rows, mv, gn) /\ ~Counting(q) /\ ~Watching(q)
<1>1. <<>> # <<"sync">>
  OBVIOUS
<1> QED BY <1>1 DEF Tracks, Watching, Counting, Pending, AtStock

LEMMA IdleTracks ==
  ASSUME NEW q, NEW rows, NEW mv, NEW gn, q.pc = "idle"
  PROVE  Tracks(q, rows, mv, gn) /\ ~Counting(q) /\ ~Watching(q)
<1>1. Shape(q)
  BY DEF Shape, AtStock
<1> QED BY <1>1, FreeTracks

\* The other instances rest, and what i does changes no anchor and no movement.
LEMMA SaleNext ==
  ASSUME FunnelOK, SaleOK, NEW i \in Instances,
         \A j \in Instances \ {i} : calls[j].pc = "idle" /\ calls'[j] = calls[j],
         \A l \in Leads : lead'[l].anchor = lead[l].anchor,
         moves' = moves, gone' = gone,
         Tracks(calls'[i], lead', moves, gone), SameSale(calls[i], calls'[i])
  PROVE  SaleOK'
<1> PICK rows, mv, gn : rows = lead' /\ mv = moves /\ gn = gone
  OBVIOUS
<1>1. ASSUME NEW j \in Instances
      PROVE  Tracks(calls'[j], rows, mv, gn)
  <2> PICK r : r = calls'[j]
    OBVIOUS
  <2>1. j = i \/ r.pc = "idle"
    OBVIOUS
  <2>2. Tracks(r, rows, mv, gn)
    BY <2>1, IdleTracks
  <2> QED BY <2>2
<1>2. \A l \in Leads : rows[l].anchor # 0 =>
        mv[rows[l].anchor].lead = l
  BY DEF SaleOK
<1>3. ASSUME NEW l \in Leads
      PROVE  \/ rows[l].anchor \notin gn /\ Stands(mv, gn, l, rows[l].anchor)
             \/ \E j \in Instances : Counting(calls'[j]) /\ calls'[j].lead = l
  <2>1. CASE lead[l].anchor \notin gn /\ Stands(mv, gn, l, lead[l].anchor)
    BY <2>1
  <2>2. CASE \E j \in Instances : Counting(calls[j]) /\ calls[j].lead = l
    <3>1. PICK j \in Instances : Counting(calls[j]) /\ calls[j].lead = l
      BY <2>2
    <3>2. CASE j = i
      BY <3>1, <3>2 DEF SameSale
    <3>3. CASE j # i
      BY <3>1, <3>3
    <3> QED BY <3>2, <3>3
  <2> QED BY <2>1, <2>2 DEF SaleOK
<1>4. ASSUME NEW j \in Instances, Counting(calls'[j])
      PROVE  Stands(mv, gn, calls'[j].lead, IF calls'[j].seen.anchor = 0 THEN calls'[j].move ELSE 0)
  <2>1. CASE j = i
    <3>1. /\ Counting(calls[i]) /\ calls'[i].lead = calls[i].lead
          /\ calls'[i].seen = calls[i].seen /\ calls'[i].move = calls[i].move
      BY <1>4, <2>1 DEF SameSale
    <3>2. Stands(mv, gn, calls[i].lead, IF calls[i].seen.anchor = 0 THEN calls[i].move ELSE 0)
      BY <3>1 DEF SaleOK
    <3> QED BY <2>1, <3>1, <3>2
  <2>2. CASE j # i
    BY <1>4, <2>2 DEF Counting
  <2> QED BY <2>1, <2>2
<1> QED BY <1>1, <1>2, <1>3, <1>4 DEF SaleOK

LEMMA PendingTracks ==
  ASSUME NEW q, NEW r, NEW rows, NEW rows2, NEW mv, NEW gn, Tracks(q, rows, mv, gn),
         Pending(q), Shape(r), Pending(r) \/ r.pc \in {"consume", "restore"},
         r.lead = q.lead, r.seen = q.seen, rows2[q.lead].anchor = rows[q.lead].anchor
  PROVE  Tracks(r, rows2, mv, gn) /\ SameSale(q, r)
<1>1. Watching(q) /\ rows2[r.lead].anchor = r.seen.anchor
  BY DEF Tracks, Watching
<1>2. ~Counting(q) /\ ~Counting(r) /\ r.pc \notin {"read", "move", "write"}
  BY DEF Counting, Pending
<1> QED BY <1>1, <1>2 DEF Tracks, SameSale

\* Through with the stock, a call has nothing more to do with it.
LEMMA EndTracks ==
  ASSUME FunnelOK, NEW i \in Instances, NEW r, r = Through(i),
         calls[i].then \in {<<>>, <<"enrol">>}, NEW rows, NEW mv, NEW gn
  PROVE  Tracks(r, rows, mv, gn) /\ ~Counting(r)
<1> PICK q : q = calls[i]
  OBVIOUS
<1>1. r.then = <<>> /\ r.pc \in {"idle", "enrol"}
  BY ThroughCall
<1>2. Shape(r)
  BY <1>1 DEF Shape, AtStock
<1> QED BY <1>1, <1>2, FreeTracks

LEMMA EnrolSale ==
  ASSUME FunnelOK, SaleOK, NEW i \in Instances,
         EnrolByStage(i) \/ FindActive(i) \/ InsertEnrolment(i)
  PROVE  Tracks(calls'[i], lead, moves, gone) /\ SameSale(calls[i], calls'[i])
<1> PICK q, r, rows, mv, gn : q = calls[i] /\ r = calls'[i] /\ rows = lead /\ mv = moves /\ gn = gone
  OBVIOUS
<1>1. Tracks(q, rows, mv, gn) /\ Shape(q)
  BY DEF SaleOK, Tracks
<1>2. /\ q.pc \in {"enrol", "find", "insert"}
      /\ \/ r = Through(i)
         \/ /\ r.then = q.then /\ r.pc \in {"find", "insert"} /\ r.lead = q.lead
            /\ r.to = q.to /\ r.from = q.from /\ r.seen = q.seen
  BY EnrolCall
<1>3. q.then \in {<<>>, <<"sync">>}
  BY <1>1, <1>2 DEF Shape
<1>4. ~Counting(q)
  BY <1>2 DEF Counting
<1>5. CASE q.then = <<>>
  <2>1. r.then = <<>> /\ r.pc \in {"idle", "find", "insert"}
    BY <1>2, <1>5, ThroughCall
  <2>2. Shape(r)
    BY <2>1 DEF Shape, AtStock
  <2> QED BY <1>4, <2>1, <2>2, FreeTracks DEF SameSale
<1>6. CASE q.then = <<"sync">>
  <2>1. /\ r.lead = q.lead /\ r.seen = q.seen
        /\ \/ r.pc = "sync" /\ r.then = <<>>
           \/ r.pc \in {"find", "insert"} /\ r.then = <<"sync">>
    BY <1>2, <1>6, ThroughCall
  <2>2. Pending(q) /\ Pending(r)
    BY <1>2, <1>6, <2>1 DEF Pending
  <2>3. Shape(r)
    BY <2>1 DEF Shape, AtStock
  <2> QED BY <1>1, <2>1, <2>2, <2>3, PendingTracks
<1> QED BY <1>3, <1>5, <1>6

LEMMA RunSale ==
  ASSUME FunnelOK, SaleOK, NEW i \in Instances,
         ReadEnrolment(i) \/ FireStep(i) \/ Advance(i) \/ StopOne(i)
  PROVE  Tracks(calls'[i], lead, moves, gone) /\ SameSale(calls[i], calls'[i])
<1> PICK q, r, rows, mv, gn : q = calls[i] /\ r = calls'[i] /\ rows = lead /\ mv = moves /\ gn = gone
  OBVIOUS
<1>1. q.pc \in {"next", "fire", "advance", "stop"}
  BY DEF ReadEnrolment, FireStep, Advance, StopOne
<1>2. q.then = <<>>
  BY <1>1 DEF SaleOK, Tracks, Shape
<1>3. r.pc \in {"idle", "next", "fire", "advance", "stop"} /\ r.then = <<>>
  BY <1>2, RunCall
<1>4. ~Counting(q)
  BY <1>1 DEF Counting
<1>5. Shape(r)
  BY <1>3 DEF Shape, AtStock
<1> QED BY <1>3, <1>4, <1>5, FreeTracks DEF SameSale

LEMMA RequestSale ==
  ASSUME FunnelOK, NEW i \in Instances, Request(i), calls[i].pc = "idle"
  PROVE  Tracks(calls'[i], lead, moves, gone) /\ SameSale(calls[i], calls'[i])
<1> PICK q, r, rows, mv, gn : q = calls[i] /\ r = calls'[i] /\ rows = lead /\ mv = moves /\ gn = gone
  OBVIOUS
<1>1. \/ r.pc \in {"find", "next", "stop"} /\ r.then = <<>>
      \/ r.pc = "read" /\ r.then = <<>> /\ r.lead = NoLead
      \/ r.pc = "stage" /\ r.then \in Orders
  BY RequestCall
<1>2. Shape(r)
  BY <1>1 DEF Shape, AtStock
<1>3. ~Counting(q)
  BY DEF Counting
<1> QED BY <1>1, <1>2, <1>3, FreeTracks DEF SameSale

\* The row that a change of stage returned is the one of the lead, and the
\* automation that follows touches no anchor.
LEMMA StageSale ==
  ASSUME FunnelOK, SaleOK, NEW i \in Instances, ChangeStage(i)
  PROVE  /\ Tracks(calls'[i], lead', moves, gone) /\ SameSale(calls[i], calls'[i])
         /\ \A l \in Leads : lead'[l].anchor = lead[l].anchor
<1> PICK q, r, rows, mv, gn : q = calls[i] /\ r = calls'[i] /\ rows = lead /\ mv = moves /\ gn = gone
  OBVIOUS
<1> PICK rows2 : rows2 = lead'
  OBVIOUS
<1> PICK row : row = rows2[q.lead]
  OBVIOUS
<1>1. q \in Call /\ q.pc = "stage" /\ Shape(q)
  BY CallOf DEF ChangeStage, SaleOK, Tracks
<1> PICK s : s = [q EXCEPT !.pc = "rules", !.seen = row]
  OBVIOUS
<1>2. s.pc = "rules" /\ s.then = q.then /\ s.lead = q.lead /\ s.seen = row
  BY <1>1 DEF Call
<1>3. Set(i, s)
  BY DEF ChangeStage
<1>4. r = s
  BY <1>2, <1>3, SetGoes
<1>5. Shape(r) /\ Pending(r)
  BY <1>1, <1>2, <1>4 DEF Shape, Pending, AtStock
<1>6. ~Counting(q) /\ ~Counting(r)
  BY <1>1, <1>2, <1>4 DEF Counting
<1>7. Tracks(r, rows2, mv, gn)
  BY <1>2, <1>4, <1>5, <1>6 DEF Tracks
<1>8. rows \in [Leads -> LeadRow(Len(moves))]
  BY DEF FunnelOK, StockOK
<1>9. rows2 = [rows EXCEPT ![q.lead].stage = q.to]
  BY DEF ChangeStage
<1>10. \A l \in Leads : rows2[l].anchor = rows[l].anchor
  BY <1>8, <1>9 DEF LeadRow
<1> QED BY <1>6, <1>7, <1>10 DEF SameSale

LEMMA RulesSale ==
  ASSUME FunnelOK, SaleOK, NEW i \in Instances, RunRules(i)
  PROVE  /\ Tracks(calls'[i], lead', moves, gone) /\ SameSale(calls[i], calls'[i])
         /\ \A l \in Leads : lead'[l].anchor = lead[l].anchor
<1> PICK q, r, rows, mv, gn : q = calls[i] /\ r = calls'[i] /\ rows = lead /\ mv = moves /\ gn = gone
  OBVIOUS
<1> PICK rows2 : rows2 = lead'
  OBVIOUS
<1>1. /\ q \in Call /\ q.pc = "rules" /\ Tracks(q, rows, mv, gn)
      /\ Sound(q, Len(enrolled), Len(moves))
  BY CallOf DEF RunRules, SaleOK
<1>2. q.then \in Orders /\ q.lead \in Leads /\ Pending(q)
  BY <1>1 DEF Sound, Tracks, Shape, Pending
<1>3. /\ r.lead = q.lead /\ r.seen = q.seen
      /\ \/ r.pc = "enrol" /\ r.then = <<"sync">>
         \/ r.pc = "sync" /\ r.then = <<"enrol">>
  BY <1>2, RulesCall
<1>4. Shape(r) /\ Pending(r)
  BY <1>3 DEF Shape, Pending, AtStock
<1>5. rows \in [Leads -> LeadRow(Len(moves))]
  BY DEF FunnelOK, StockOK
<1>6. \A l \in Leads : rows2[l].anchor = rows[l].anchor
  <2> PICK next : next = world.rule[q.to]
    OBVIOUS
  <2>1. rows2 = rows \/ rows2 = [rows EXCEPT ![q.lead].stage = next]
    BY DEF RunRules
  <2> QED BY <1>5, <2>1 DEF LeadRow
<1> QED BY <1>1, <1>2, <1>3, <1>4, <1>6, PendingTracks

LEMMA SyncSale ==
  ASSUME FunnelOK, SaleOK, NEW i \in Instances, Sync(i)
  PROVE  Tracks(calls'[i], lead, moves, gone) /\ SameSale(calls[i], calls'[i])
<1> PICK q, r, rows, mv, gn : q = calls[i] /\ r = calls'[i] /\ rows = lead /\ mv = moves /\ gn = gone
  OBVIOUS
<1>1. q \in Call /\ q.pc = "sync" /\ Tracks(q, rows, mv, gn)
  BY CallOf DEF Sync, SaleOK
<1>2. q.then \in {<<>>, <<"enrol">>} /\ Pending(q) /\ ~Counting(q)
  BY <1>1 DEF Tracks, Shape, Pending, Counting
<1>3. CASE Finish(i)
  <2>1. r = Through(i)
    BY <1>1, <1>3, FinishGoes
  <2> QED BY <1>2, <2>1, EndTracks DEF SameSale
<1>4. ASSUME NEW p \in {"consume", "restore"}, Goto(i, p)
      PROVE  Tracks(r, rows, mv, gn) /\ SameSale(q, r)
  <2> PICK s : s = [q EXCEPT !.pc = p]
    OBVIOUS
  <2>1. s.pc = p /\ s.then = q.then /\ s.lead = q.lead /\ s.seen = q.seen
    BY <1>1 DEF Call
  <2>2. Set(i, s)
    BY <1>4 DEF Goto
  <2>3. r = s
    BY <2>1, <2>2, SetGoes
  <2>4. Shape(s)
    BY <1>2, <2>1 DEF Shape, AtStock
  <2> QED BY <1>1, <1>2, <2>1, <2>3, <2>4, PendingTracks
<1> QED BY <1>3, <1>4 DEF Sync

LEMMA ConsumeSale ==
  ASSUME FunnelOK, SaleOK, NEW i \in Instances, Consume(i)
  PROVE  Tracks(calls'[i], lead, moves, gone) /\ SameSale(calls[i], calls'[i])
<1> PICK q, r, rows, mv, gn : q = calls[i] /\ r = calls'[i] /\ rows = lead /\ mv = moves /\ gn = gone
  OBVIOUS
<1>1. q \in Call /\ q.pc = "consume" /\ Tracks(q, rows, mv, gn)
  BY CallOf DEF Consume, SaleOK
<1>2. /\ q.then \in {<<>>, <<"enrol">>} /\ ~Counting(q)
      /\ rows[q.lead].anchor = q.seen.anchor
  BY <1>1 DEF Tracks, Shape, Watching, Counting
<1>3. CASE Finish(i)
  <2>1. r = Through(i)
    BY <1>1, <1>3, FinishGoes
  <2> QED BY <1>2, <2>1, EndTracks DEF SameSale
<1>4. CASE ~Finish(i)
  <2> PICK n : n = IF q.seen.need > 1 THEN q.seen.need ELSE 1
    OBVIOUS
  <2> PICK line : line = Line(ItemOf(q.seen.product), -n)
    OBVIOUS
  <2>1. q.seen.anchor = 0 /\ Set(i, [q EXCEPT !.pc = "read", !.todo = <<line>>])
    BY <1>4 DEF Consume
  <2> PICK s : s = [q EXCEPT !.pc = "read", !.todo = <<line>>]
    OBVIOUS
  <2>2. s.pc = "read" /\ s.then = q.then /\ s.lead = q.lead /\ s.seen = q.seen /\ s.todo = <<line>>
    BY <1>1 DEF Call
  <2>3. Set(i, s)
    BY <2>1
  <2>4. r = s
    BY <2>2, <2>3, SetGoes
  <2>5. Shape(s)
    BY <1>2, <2>2 DEF Shape, AtStock
  <2>6. Len(s.todo) = 1
    BY <2>2
  <2>7. ~Counting(s)
    BY <2>2 DEF Counting
  <2>8. Tracks(s, rows, mv, gn)
    BY <1>2, <2>1, <2>2, <2>5, <2>6, <2>7 DEF Tracks
  <2> QED BY <1>2, <2>4, <2>7, <2>8 DEF SameSale
<1> QED BY <1>3, <1>4

\* A call on the stock that goes on with what it holds.
LEMMA StockTracks ==
  ASSUME NEW q, NEW r, NEW rows, NEW mv, NEW gn, q.pc \in {"read", "move", "write"},
         Tracks(q, rows, mv, gn), r.pc \in AtStock,
         r.then = q.then, r.lead = q.lead, r.seen = q.seen, r.move = q.move,
         q.lead # NoLead =>
           /\ r.pc = "anchor" \/ r.todo = q.todo
           /\ r.pc \in {"write", "anchor"} <=> q.pc = "write"
  PROVE  Tracks(r, rows, mv, gn) /\ SameSale(q, r)
<1>1. Shape(r)
  BY DEF Tracks, Shape, AtStock
<1>2. SameSale(q, r)
  BY DEF SameSale, Counting, AtStock
<1>3. CASE q.lead = NoLead
  <2>1. ~Watching(r) /\ ~Counting(r)
    BY <1>3 DEF Watching, Counting, Pending, AtStock
  <2> QED BY <1>1, <1>2, <1>3, <2>1 DEF Tracks
<1>4. CASE q.lead # NoLead
  <2>1. rows[r.lead].anchor = r.seen.anchor
    BY <1>4 DEF Tracks, Watching, AtStock
  <2>2. r.pc \in {"read", "move", "write"} =>
          /\ Len(r.todo) = 1
          /\ r.seen.anchor # 0 =>
               /\ r.todo[1].item = mv[r.seen.anchor].item
               /\ r.todo[1].change = -mv[r.seen.anchor].change
    BY <1>4 DEF Tracks
  <2>3. Counting(r) /\ r.seen.anchor = 0 =>
          r.move # 0 /\ mv[r.move].lead = r.lead /\ r.move \notin gn
    BY <1>2 DEF Tracks, SameSale
  <2> QED BY <1>1, <1>2, <2>1, <2>2, <2>3 DEF Tracks
<1> QED BY <1>3, <1>4

LEMMA ReadItemsSale ==
  ASSUME FunnelOK, SaleOK, NEW i \in Instances, ReadItems(i)
  PROVE  Tracks(calls'[i], lead, moves, gone) /\ SameSale(calls[i], calls'[i])
<1> PICK q, r, rows, mv, gn : q = calls[i] /\ r = calls'[i] /\ rows = lead /\ mv = moves /\ gn = gone
  OBVIOUS
<1>1. q \in Call /\ q.pc = "read" /\ Tracks(q, rows, mv, gn)
  BY CallOf DEF ReadItems, SaleOK
<1>2. q.then \in {<<>>, <<"enrol">>} /\ ~Counting(q)
  BY <1>1 DEF Tracks, Shape, Counting, AtStock
<1>3. CASE Finish(i)
  <2>1. r = Through(i)
    BY <1>1, <1>3, FinishGoes
  <2> QED BY <1>2, <2>1, EndTracks DEF SameSale
<1>5. ASSUME NEW s, s.pc = "move", s.then = q.then, s.lead = q.lead, s.seen = q.seen,
             s.move = q.move, s.todo = q.todo, s.pc \in AtStock
      PROVE  Tracks(s, rows, mv, gn) /\ SameSale(q, s)
  <2>1. s.pc \in {"write", "anchor"} <=> q.pc = "write"
    BY <1>1, <1>5
  <2> QED BY <1>1, <1>5, <2>1, StockTracks
<1>4. CASE ~Finish(i)
  <2>1. Set(i, [q EXCEPT !.pc = "move", !.held = qty])
    BY <1>4 DEF ReadItems
  <2> PICK s : s = [q EXCEPT !.pc = "move", !.held = qty]
    OBVIOUS
  <2>2. /\ s.pc = "move" /\ s.then = q.then /\ s.lead = q.lead /\ s.seen = q.seen
        /\ s.move = q.move /\ s.todo = q.todo
    BY <1>1 DEF Call
  <2>3. Set(i, s)
    BY <2>1
  <2>4. r = s
    BY <2>2, <2>3, SetGoes
  <2>5. s.pc \in AtStock
    BY <2>2 DEF AtStock
  <2>6. Tracks(s, rows, mv, gn) /\ SameSale(q, s)
    BY <1>5, <2>2, <2>5
  <2> QED BY <2>4, <2>6
<1> QED BY <1>3, <1>4

LEMMA WriteQtySale ==
  ASSUME FunnelOK, SaleOK, NEW i \in Instances, WriteQty(i)
  PROVE  Tracks(calls'[i], lead, moves, gone) /\ SameSale(calls[i], calls'[i])
<1> PICK q, r, rows, mv, gn : q = calls[i] /\ r = calls'[i] /\ rows = lead /\ mv = moves /\ gn = gone
  OBVIOUS
<1>1. q \in Call /\ q.pc = "write" /\ Tracks(q, rows, mv, gn)
  BY CallOf DEF WriteQty, SaleOK
<1>2. q.then \in {<<>>, <<"enrol">>}
  BY <1>1 DEF Tracks, Shape, AtStock
<1>3. q.lead # NoLead => ~(Len(q.todo) > 1)
  <2> SUFFICES ASSUME q.lead # NoLead
               PROVE  ~(Len(q.todo) > 1)
    OBVIOUS
  <2>1. Len(q.todo) = 1
    BY <1>1 DEF Tracks
  <2> QED BY <2>1
<1>4. ASSUME NEW s, Set(i, s), s.pc \in {"move", "anchor"}, s.then = q.then, s.lead = q.lead,
             s.seen = q.seen, s.move = q.move, q.lead # NoLead => s.pc = "anchor"
      PROVE  Tracks(r, rows, mv, gn) /\ SameSale(q, r)
  <2>1. r = s
    BY <1>4, SetGoes
  <2>2. s.pc \in AtStock
    BY <1>4 DEF AtStock
  <2>3. Tracks(s, rows, mv, gn) /\ SameSale(q, s)
    BY <1>1, <1>4, <2>2, StockTracks
  <2> QED BY <2>1, <2>3
<1>5. CASE Len(q.todo) > 1 /\ Set(i, [q EXCEPT !.pc = "move", !.todo = Tail(q.todo)])
  <2> PICK s : s = [q EXCEPT !.pc = "move", !.todo = Tail(q.todo)]
    OBVIOUS
  <2>1. /\ s.pc = "move" /\ s.then = q.then /\ s.lead = q.lead /\ s.seen = q.seen
        /\ s.move = q.move
    BY <1>1 DEF Call
  <2>2. Set(i, s)
    BY <1>5
  <2>3. q.lead = NoLead
    BY <1>3, <1>5
  <2> QED BY <1>4, <2>1, <2>2, <2>3
<1>6. CASE q.lead # NoLead /\ Goto(i, "anchor")
  <2> PICK s : s = [q EXCEPT !.pc = "anchor"]
    OBVIOUS
  <2>1. /\ s.pc = "anchor" /\ s.then = q.then /\ s.lead = q.lead /\ s.seen = q.seen
        /\ s.move = q.move
    BY <1>1 DEF Call
  <2>2. Set(i, s)
    BY <1>6 DEF Goto
  <2> QED BY <1>4, <2>1, <2>2
<1>7. CASE q.lead = NoLead /\ Finish(i)
  <2>1. r = Through(i)
    BY <1>1, <1>7, FinishGoes
  <2>2. ~Counting(q)
    BY <1>7 DEF Counting
  <2> QED BY <1>2, <2>1, <2>2, EndTracks DEF SameSale
<1> QED BY <1>5, <1>6, <1>7 DEF WriteQty

\* What is done by hand touches no anchor, no movement and no call.
LEMMA EditSale ==
  ASSUME FunnelOK, SaleOK, Edit
  PROVE  SaleOK'
<1> PICK rows, mv, gn, rows2 : rows = lead /\ mv = moves /\ gn = gone /\ rows2 = lead'
  OBVIOUS
<1>1. calls' = calls
  BY EditGoes
<1>2. moves' = mv /\ gone' = gn
  BY DEF Edit, StockEdit, EditProduct, LinkItem, ChangePipeline, stockVars
<1>3. rows \in [Leads -> LeadRow(Len(moves))]
  BY DEF FunnelOK, StockOK
<1>4. \A l \in Leads : rows2[l].anchor = rows[l].anchor
  <2>1. CASE rows2 = rows
    BY <2>1
  <2>2. ASSUME NEW k, NEW p, NEW n, EditProduct(k, p, n)
        PROVE  \A l \in Leads : rows2[l].anchor = rows[l].anchor
    <3>1. rows2 = [rows EXCEPT ![k].product = p, ![k].need = n]
      BY <2>2 DEF EditProduct
    <3> QED BY <1>3, <3>1 DEF LeadRow
  <2>3. ASSUME NEW k, NEW to, ChangePipeline(k, to)
        PROVE  \A l \in Leads : rows2[l].anchor = rows[l].anchor
    <3>1. rows2 = [rows EXCEPT ![k].stage = to]
      BY <2>3 DEF ChangePipeline
    <3> QED BY <1>3, <3>1 DEF LeadRow
  <2>4. rows2 = rows \/ (\E k, p, n : EditProduct(k, p, n)) \/ \E k, to : ChangePipeline(k, to)
    BY DEF Edit, StockEdit, LinkItem, stockVars
  <2> QED BY <2>1, <2>2, <2>3, <2>4
<1>5. ASSUME NEW j \in Instances
      PROVE  Tracks(calls[j], rows2, mv, gn)
  <2> PICK q : q = calls[j]
    OBVIOUS
  <2>1. Tracks(q, rows, mv, gn) /\ Sound(q, Len(enrolled), Len(moves)) /\ q \in Call
    BY CallOf DEF SaleOK
  <2>2. Watching(q) => q.lead \in Leads
    BY <2>1 DEF Sound, Watching, Pending, Call
  <2>3. Watching(q) => rows2[q.lead].anchor = rows[q.lead].anchor
    BY <1>4, <2>2
  <2>4. Tracks(q, rows2, mv, gn)
    BY <2>1, <2>3 DEF Tracks
  <2> QED BY <2>4
<1>6. \A j \in Instances : Tracks(calls[j], rows2, mv, gn)
  BY <1>5
<1>7. \A l \in Leads : rows2[l].anchor # 0 => mv[rows2[l].anchor].lead = l
  BY <1>4 DEF SaleOK
<1>8. \A l \in Leads :
       \/ rows2[l].anchor \notin gn /\ Stands(mv, gn, l, rows2[l].anchor)
       \/ \E j \in Instances : Counting(calls[j]) /\ calls[j].lead = l
  BY <1>4 DEF SaleOK
<1>9. \A j \in Instances : Counting(calls[j]) =>
       Stands(mv, gn, calls[j].lead, IF calls[j].seen.anchor = 0 THEN calls[j].move ELSE 0)
  BY DEF SaleOK
<1> QED BY <1>1, <1>2, <1>6, <1>7, <1>8, <1>9 DEF SaleOK

\* The movements that stand of a lead, when a movement is added.
Appended(mv, gn, row, mw, l, k) ==
  /\ row.lead # l => Stands(mw, gn, l, k)
  /\ row.lead = l /\ k = 0 => Stands(mw, gn, l, Len(mv) + 1)
  /\ row.lead = l /\ k # 0 /\ row.item = mv[k].item /\ row.change = -mv[k].change =>
       Stands(mw, gn, l, 0)

LEMMA StandsAppend ==
  ASSUME NEW mv \in Seq(Move), NEW row \in Move, NEW mw, mw = Append(mv, row),
         NEW gn \in SUBSET (1 .. Len(mv)), NEW l, NEW k \in 0 .. Len(mv),
         Stands(mv, gn, l, k)
  PROVE  Appended(mv, gn, row, mw, l, k)
<1> PICK len, n : len = Len(mv) /\ n = len + 1
  OBVIOUS
<1>1. /\ len \in Nat /\ n \in Nat /\ n # 0 /\ Len(mw) = n /\ mw[n] = row
      /\ DOMAIN mv = 1 .. len /\ DOMAIN mw = 1 .. n
  OBVIOUS
<1>2. \A m \in 1 .. len : mw[m] = mv[m]
  OBVIOUS
<1>3. n \notin gn /\ n \notin 1 .. len
  BY <1>1
<1>4. ASSUME NEW item \in Items
      PROVE  Sums(mw, SalesOf(mw, gn, l, item))[n]
               = (IF k # 0 /\ mv[k].item = item THEN mv[k].change ELSE 0)
                   + (IF row.lead = l /\ row.item = item THEN row.change ELSE 0)
  <2> PICK S, T : S = SalesOf(mv, gn, l, item) /\ T = SalesOf(mw, gn, l, item)
    OBVIOUS
  <2>1. SameUpTo(len, S, T)
    BY <1>1, <1>2 DEF SameUpTo, SalesOf
  <2>2. n \in T <=> row.lead = l /\ row.item = item
    BY <1>1, <1>3 DEF SalesOf
  <2>3. Grown(mv, S, mw, T, row)
    BY <2>1, SumsAppend
  <2>4. Sums(mw, T)[n] = Sums(mv, S)[len] + IF n \in T THEN row.change ELSE 0
    BY <1>1, <2>3 DEF Grown
  <2>5. Sums(mv, S)[len] = IF k # 0 /\ mv[k].item = item THEN mv[k].change ELSE 0
    BY DEF Stands
  <2> QED BY <2>2, <2>4, <2>5
<1>5. row.change \in Int
  BY DEF Move
<1>6. k # 0 => k \in 1 .. len /\ mv[k].change \in Int /\ mw[k] = mv[k]
  <2> SUFFICES ASSUME k # 0
               PROVE  k \in 1 .. len /\ mv[k].change \in Int /\ mw[k] = mv[k]
    OBVIOUS
  <2>1. k \in 1 .. len
    BY <1>1
  <2>2. mv[k] \in Move
    BY <2>1, ElementOfSeq
  <2> QED BY <1>2, <2>1, <2>2 DEF Move
<1>7. ASSUME row.lead # l
      PROVE  Stands(mw, gn, l, k)
  <2>1. ASSUME NEW item \in Items
        PROVE  Sums(mw, SalesOf(mw, gn, l, item))[n]
                 = IF k # 0 /\ mw[k].item = item THEN mw[k].change ELSE 0
    BY <1>4, <1>6, <1>7
  <2> QED BY <1>1, <2>1 DEF Stands
<1>8. ASSUME row.lead = l, k = 0
      PROVE  Stands(mw, gn, l, n)
  <2>1. ASSUME NEW item \in Items
        PROVE  Sums(mw, SalesOf(mw, gn, l, item))[n]
                 = IF n # 0 /\ mw[n].item = item THEN mw[n].change ELSE 0
    BY <1>1, <1>4, <1>5, <1>8
  <2> QED BY <1>1, <2>1 DEF Stands
<1>9. ASSUME row.lead = l, k # 0, row.item = mv[k].item, row.change = -mv[k].change
      PROVE  Stands(mw, gn, l, 0)
  <2>1. ASSUME NEW item \in Items
        PROVE  Sums(mw, SalesOf(mw, gn, l, item))[n] = 0
    BY <1>4, <1>6, <1>9
  <2> QED BY <1>1, <2>1 DEF Stands
<1> QED BY <1>7, <1>8, <1>9 DEF Appended

\* ... and when a sale is let go.
LEMMA StandsGone ==
  ASSUME NEW mv \in Seq(Move), NEW gn, NEW k \in 1 .. Len(mv), k \notin gn,
         NEW l, NEW a, Stands(mv, gn, l, a)
  PROVE  /\ mv[k].lead # l => Stands(mv, gn \union {k}, l, a)
         /\ mv[k].lead = l /\ a = k => Stands(mv, gn \union {k}, l, 0)
<1> PICK len : len = Len(mv)
  OBVIOUS
<1>1. len \in Nat /\ DOMAIN mv = 1 .. len /\ k # 0 /\ k \in 1 .. len
  OBVIOUS
<1>2. ASSUME NEW item, mv[k].lead # l \/ mv[k].item # item
      PROVE  SalesOf(mv, gn \union {k}, l, item) = SalesOf(mv, gn, l, item)
  BY <1>2 DEF SalesOf
<1>3. ASSUME mv[k].lead # l
      PROVE  Stands(mv, gn \union {k}, l, a)
  BY <1>2, <1>3 DEF Stands
<1>4. ASSUME mv[k].lead = l, a = k
      PROVE  Stands(mv, gn \union {k}, l, 0)
  <2>1. ASSUME NEW item \in Items
        PROVE  Sums(mv, SalesOf(mv, gn \union {k}, l, item))[len] = 0
    <3> PICK S, T : S = SalesOf(mv, gn \union {k}, l, item) /\ T = SalesOf(mv, gn, l, item)
      OBVIOUS
    <3>1. Sums(mv, T)[len] = IF mv[k].item = item THEN mv[k].change ELSE 0
      BY <1>1, <1>4 DEF Stands
    <3>2. CASE mv[k].item # item
      BY <1>2, <3>1, <3>2
    <3>3. CASE mv[k].item = item
      <4>1. k \notin S /\ \A n \in 1 .. len : n \in T <=> n \in S \/ n = k
        BY <1>1, <1>4, <3>3 DEF SalesOf
      <4>2. Sums(mv, T)[len] = Sums(mv, S)[len] + mv[k].change
        BY <4>1, SumsPlus
      <4>3. Sums(mv, S)[len] \in Int
        BY SumsInt
      <4>4. mv[k].change \in Int
        <5>1. mv[k] \in Move
          BY <1>1, ElementOfSeq
        <5> QED BY <5>1 DEF Move
      <4> QED BY <3>1, <3>3, <4>2, <4>3, <4>4
    <3> QED BY <3>2, <3>3
  <2> QED BY <2>1 DEF Stands
<1> QED BY <1>3, <1>4

\* A lead whose movements nobody is about to anchor.
LEMMA SaleHas ==
  ASSUME SaleOK, NEW i \in Instances, NEW l \in Leads,
         ~Counting(calls[i]) \/ calls[i].lead # l,
         \A j \in Instances \ {i} : calls[j].pc = "idle"
  PROVE  lead[l].anchor \notin gone /\ Stands(moves, gone, l, lead[l].anchor)
<1>1. ASSUME NEW j \in Instances, Counting(calls[j]), calls[j].lead = l
      PROVE  FALSE
  <2>1. j = i
    BY <1>1 DEF Counting
  <2> QED BY <1>1, <2>1
<1> QED BY <1>1 DEF SaleOK

\* What i leaves behind, when the others rest.
Leaves(r, rows, mv, gn) ==
  /\ Tracks(r, rows, mv, gn)
  /\ \A l \in Leads : rows[l].anchor # 0 => mv[rows[l].anchor].lead = l
  /\ \A l \in Leads :
       \/ rows[l].anchor \notin gn /\ Stands(mv, gn, l, rows[l].anchor)
       \/ Counting(r) /\ r.lead = l
  /\ Counting(r) => Stands(mv, gn, r.lead, IF r.seen.anchor = 0 THEN r.move ELSE 0)

LEMMA SaleMade ==
  ASSUME NEW i \in Instances, \A j \in Instances \ {i} : calls'[j].pc = "idle",
         Leaves(calls'[i], lead', moves', gone')
  PROVE  SaleOK'
<1> PICK r, rows, mv, gn : r = calls'[i] /\ rows = lead' /\ mv = moves' /\ gn = gone'
  OBVIOUS
<1>0. Leaves(r, rows, mv, gn)
  OBVIOUS
<1>1. ASSUME NEW j \in Instances
      PROVE  Tracks(calls'[j], rows, mv, gn)
  <2> PICK s : s = calls'[j]
    OBVIOUS
  <2>1. j = i \/ s.pc = "idle"
    OBVIOUS
  <2>2. Tracks(s, rows, mv, gn)
    BY <1>0, <2>1, IdleTracks DEF Leaves
  <2> QED BY <2>2
<1>2. ASSUME NEW j \in Instances, Counting(calls'[j])
      PROVE  j = i
  BY <1>2 DEF Counting
<1>3. \A j \in Instances : Tracks(calls'[j], rows, mv, gn)
  BY <1>1
<1>4. \A l \in Leads :
       \/ rows[l].anchor \notin gn /\ Stands(mv, gn, l, rows[l].anchor)
       \/ \E j \in Instances : Counting(calls'[j]) /\ calls'[j].lead = l
  BY <1>0 DEF Leaves
<1>5. \A j \in Instances : Counting(calls'[j]) =>
       Stands(mv, gn, calls'[j].lead, IF calls'[j].seen.anchor = 0 THEN calls'[j].move ELSE 0)
  BY <1>0, <1>2 DEF Leaves
<1> QED BY <1>0, <1>3, <1>4, <1>5 DEF SaleOK, Leaves

\* A product without an item lets the sale go, and the anchor is still to be
\* freed; or the sale comes back.
LEMMA RestoreSale ==
  ASSUME FunnelOK, SaleOK, NEW i \in Instances, Restore(i),
         \A j \in Instances \ {i} : calls[j].pc = "idle" /\ calls'[j] = calls[j]
  PROVE  SaleOK'
<1> PICK q, r, rows, mv, gn : q = calls[i] /\ r = calls'[i] /\ rows = lead /\ mv = moves /\ gn = gone
  OBVIOUS
<1> PICK k : k = q.seen.anchor
  OBVIOUS
<1>1. /\ q \in Call /\ q.pc = "restore" /\ Tracks(q, rows, mv, gn)
      /\ Sound(q, Len(enrolled), Len(moves))
  BY CallOf DEF Restore, SaleOK
<1>2. /\ Shape(q) /\ q.then \in {<<>>, <<"enrol">>} /\ ~Counting(q)
      /\ rows[q.lead].anchor = k
  BY <1>1 DEF Tracks, Shape, Watching, Counting
<1>3. q.lead \in Leads /\ q.lead # NoLead
  BY <1>1, ConstantFacts DEF Sound
<1>4. lead' = rows /\ moves' = mv
  BY DEF Restore
<1>5. mv \in Seq(Move) /\ rows \in [Leads -> LeadRow(Len(mv))] /\ gn \subseteq 1 .. Len(mv)
  BY DEF FunnelOK, StockOK
<1>6. k # 0 => k \in 1 .. Len(mv) /\ mv[k].lead = q.lead
  <2>1. k \in 0 .. Len(mv) /\ Len(mv) \in Nat
    BY <1>2, <1>3, <1>5 DEF LeadRow
  <2>2. k # 0 => mv[k].lead = q.lead
    BY <1>2, <1>3 DEF SaleOK
  <2> QED BY <2>1, <2>2
<1>7. CASE k = 0
  <2>1. Finish(i) /\ gone' = gn
    BY <1>7 DEF Restore
  <2>2. r = Through(i)
    BY <1>1, <2>1, FinishGoes
  <2>3. Tracks(r, rows, mv, gn) /\ SameSale(q, r)
    BY <1>2, <2>2, EndTracks DEF SameSale
  <2> QED BY <1>4, <2>1, <2>3, SaleNext
<1>8. CASE k # 0 /\ ItemOf(q.seen.product) # NoItem
  <2> PICK line : line = Line(mv[k].item, -mv[k].change)
    OBVIOUS
  <2> PICK s : s = [q EXCEPT !.pc = "read", !.todo = <<line>>]
    OBVIOUS
  <2>1. s.pc = "read" /\ s.then = q.then /\ s.lead = q.lead /\ s.seen = q.seen /\ s.todo = <<line>>
    BY <1>1 DEF Call
  <2>2. Set(i, s) /\ gone' = gn
    BY <1>8 DEF Restore
  <2>3. r = s
    BY <2>1, <2>2, SetGoes
  <2>4. Shape(s) /\ ~Counting(s)
    BY <1>2, <2>1 DEF Shape, AtStock, Counting
  <2>5. Len(s.todo) = 1 /\ s.todo[1].item = mv[k].item /\ s.todo[1].change = -mv[k].change
    BY <2>1 DEF Line
  <2>6. Tracks(s, rows, mv, gn)
    BY <1>2, <2>1, <2>4, <2>5 DEF Tracks
  <2>7. Tracks(r, rows, mv, gn) /\ SameSale(q, r)
    BY <1>2, <2>3, <2>4, <2>6 DEF SameSale
  <2> QED BY <1>4, <2>2, <2>7, SaleNext
<1>9. CASE k # 0 /\ ItemOf(q.seen.product) = NoItem
  <2> PICK gn2 : gn2 = gn \union {k}
    OBVIOUS
  <2> PICK s : s = [q EXCEPT !.pc = "anchor"]
    OBVIOUS
  <2>1. s.pc = "anchor" /\ s.then = q.then /\ s.lead = q.lead /\ s.seen = q.seen
    BY <1>1 DEF Call
  <2>2. Set(i, s) /\ gone' = gn2
    BY <1>9 DEF Restore, Goto
  <2>3. r = s
    BY <2>1, <2>2, SetGoes
  <2>4. Shape(s) /\ Counting(s) /\ s.seen.anchor # 0
    BY <1>2, <1>3, <1>9, <2>1 DEF Shape, AtStock, Counting
  <2>5. Tracks(s, rows, mv, gn2)
    BY <1>2, <2>1, <2>4 DEF Tracks
  <2>6. \A l \in Leads : rows[l].anchor # 0 => mv[rows[l].anchor].lead = l
    BY DEF SaleOK
  <2>7. ASSUME NEW l \in Leads, l # q.lead
        PROVE  rows[l].anchor \notin gn2 /\ Stands(mv, gn2, l, rows[l].anchor)
    <3>1. rows[l].anchor \notin gn /\ Stands(mv, gn, l, rows[l].anchor)
      BY <2>7, SaleHas
    <3>2. mv[k].lead # l /\ rows[l].anchor # k
      BY <1>6, <1>9, <2>6, <2>7
    <3> PICK a : a = rows[l].anchor
      OBVIOUS
    <3>3. gn2 = gn \/ k \notin gn
      OBVIOUS
    <3>4. k \notin gn => Stands(mv, gn \union {k}, l, a)
      BY <1>5, <1>6, <1>9, <3>1, <3>2, StandsGone
    <3> QED BY <3>1, <3>2, <3>3, <3>4
  <2>8. Stands(mv, gn2, q.lead, 0)
    <3>1. k \notin gn /\ Stands(mv, gn, q.lead, k)
      BY <1>2, <1>3, SaleHas
    <3>2. k \in 1 .. Len(mv) /\ mv[k].lead = q.lead
      BY <1>6, <1>9
    <3>3. Stands(mv, gn \union {k}, q.lead, 0)
      BY <1>5, <3>1, <3>2, StandsGone
    <3> QED BY <3>3
  <2>9. \A j \in Instances \ {i} : calls'[j].pc = "idle"
    OBVIOUS
  <2>10. \A l \in Leads :
           \/ rows[l].anchor \notin gn2 /\ Stands(mv, gn2, l, rows[l].anchor)
           \/ Counting(s) /\ s.lead = l
    BY <2>1, <2>4, <2>7
  <2>11. Stands(mv, gn2, s.lead, IF s.seen.anchor = 0 THEN s.move ELSE 0)
    BY <2>1, <2>4, <2>8
  <2>12. Leaves(s, rows, mv, gn2)
    BY <2>5, <2>6, <2>10, <2>11 DEF Leaves
  <2>13. Leaves(calls'[i], lead', moves', gone')
    BY <1>4, <2>2, <2>3, <2>12
  <2> QED BY <2>9, <2>13, SaleMade
<1> QED BY <1>7, <1>8, <1>9

\* The movement of a lead is added before its anchor is written.
LEMMA InsertMoveSale ==
  ASSUME FunnelOK, SaleOK, NEW i \in Instances, InsertMove(i),
         \A j \in Instances \ {i} : calls[j].pc = "idle" /\ calls'[j] = calls[j]
  PROVE  SaleOK'
<1> PICK q, r, rows, mv, gn : q = calls[i] /\ r = calls'[i] /\ rows = lead /\ mv = moves /\ gn = gone
  OBVIOUS
<1> PICK n, mw : n = Len(mv) + 1 /\ mw = moves'
  OBVIOUS
<1>1. /\ q \in Call /\ q.pc = "move" /\ Tracks(q, rows, mv, gn)
      /\ Sound(q, Len(enrolled), Len(moves))
  BY CallOf DEF InsertMove, SaleOK
<1>2. q.todo \in Seq(StockLine) /\ q.todo # <<>> /\ ~Counting(q)
  BY <1>1 DEF Sound, Counting
<1>3. /\ mv \in Seq(Move) /\ rows \in [Leads -> LeadRow(Len(mv))]
      /\ gn \in SUBSET (1 .. Len(mv))
  BY DEF FunnelOK, StockOK
<1> PICK row : row = [item |-> Head(q.todo).item, change |-> Head(q.todo).change, lead |-> q.lead]
  OBVIOUS
<1>4. row \in Move /\ row.lead = q.lead /\ row.item = q.todo[1].item /\ row.change = q.todo[1].change
  <2>1. q.todo[1] \in StockLine /\ Head(q.todo) = q.todo[1]
    BY <1>2
  <2> QED BY <1>1, <2>1 DEF StockLine, Move, Call
<1>5. mw = Append(mv, row) /\ lead' = rows /\ gone' = gn
  BY DEF InsertMove
<1>6. /\ Len(mv) \in Nat /\ n # 0 /\ n \notin gn /\ mw[n] = row
      /\ \A m \in 1 .. Len(mv) : mw[m] = mv[m]
  <2>1. Len(mv) \in Nat /\ n \notin 1 .. Len(mv) /\ n # 0
    BY <1>3
  <2>2. mw[n] = row /\ \A m \in 1 .. Len(mv) : mw[m] = mv[m]
    BY <1>3, <1>5
  <2> QED BY <1>3, <2>1, <2>2
<1> PICK s : s = [q EXCEPT !.pc = "write", !.move = n]
  OBVIOUS
<1>7. /\ s.pc = "write" /\ s.then = q.then /\ s.lead = q.lead /\ s.seen = q.seen
      /\ s.todo = q.todo /\ s.move = n
  BY <1>1 DEF Call
<1>8. Set(i, s)
  BY DEF InsertMove
<1>9. r = s
  BY <1>7, <1>8, SetGoes
<1>10. \A l \in Leads : /\ rows[l].anchor \in 0 .. Len(mv)
                        /\ rows[l].anchor # 0 => mw[rows[l].anchor] = mv[rows[l].anchor]
  <2>1. \A l \in Leads : rows[l].anchor \in 0 .. Len(mv)
    BY <1>3 DEF LeadRow
  <2>2. \A l \in Leads : rows[l].anchor # 0 => rows[l].anchor \in 1 .. Len(mv)
    BY <1>6, <2>1
  <2> QED BY <1>6, <2>1, <2>2
<1>11. \A l \in Leads : rows[l].anchor # 0 => mw[rows[l].anchor].lead = l
  BY <1>10 DEF SaleOK
<1>12. ASSUME NEW l \in Leads
       PROVE  rows[l].anchor \notin gn /\ Stands(mv, gn, l, rows[l].anchor)
  BY <1>2, <1>12, SaleHas
<1>13. ASSUME NEW l \in Leads, l # q.lead
       PROVE  rows[l].anchor \notin gn /\ Stands(mw, gn, l, rows[l].anchor)
  <2> PICK a : a = rows[l].anchor
    OBVIOUS
  <2>1. a \in 0 .. Len(mv) /\ Stands(mv, gn, l, a)
    BY <1>10, <1>12, <1>13
  <2>2. row.lead # l
    BY <1>4, <1>13
  <2>3. Appended(mv, gn, row, mw, l, a)
    BY <1>3, <1>4, <1>5, <2>1, StandsAppend
  <2>4. Stands(mw, gn, l, a)
    BY <2>2, <2>3 DEF Appended
  <2> QED BY <1>12, <2>4
<1>14. ASSUME Counting(s)
       PROVE  /\ q.lead \in Leads /\ q.lead # NoLead
              /\ rows[q.lead].anchor = q.seen.anchor /\ Len(q.todo) = 1
              /\ q.seen.anchor # 0 =>
                   row.item = mv[q.seen.anchor].item /\ row.change = -mv[q.seen.anchor].change
  <2>1. q.lead # NoLead
    BY <1>7, <1>14 DEF Counting
  <2>2. q.lead \in Leads
    BY <1>1, <2>1 DEF Call
  <2>3. Watching(q)
    BY <1>1, <2>1 DEF Watching, AtStock
  <2>4. rows[q.lead].anchor = q.seen.anchor
    BY <1>1, <2>3 DEF Tracks
  <2>5. /\ Len(q.todo) = 1
        /\ q.seen.anchor # 0 => /\ q.todo[1].item = mv[q.seen.anchor].item
                                /\ q.todo[1].change = -mv[q.seen.anchor].change
    BY <1>1, <2>1 DEF Tracks
  <2> QED BY <1>4, <2>1, <2>2, <2>4, <2>5
<1>15. ASSUME Counting(s)
       PROVE  Stands(mw, gn, s.lead, IF s.seen.anchor = 0 THEN s.move ELSE 0)
  <2> PICK a, l : a = q.seen.anchor /\ l = q.lead
    OBVIOUS
  <2>1. l \in Leads /\ rows[l].anchor = a
    BY <1>14, <1>15
  <2>2. a \in 0 .. Len(mv) /\ Stands(mv, gn, l, a)
    BY <1>10, <1>12, <2>1
  <2>3. row.lead = l /\ (a # 0 => row.item = mv[a].item /\ row.change = -mv[a].change)
    BY <1>4, <1>14, <1>15
  <2>4. Appended(mv, gn, row, mw, l, a)
    BY <1>3, <1>4, <1>5, <2>2, StandsAppend
  <2>5. CASE a = 0
    <3>1. Stands(mw, gn, l, n)
      BY <2>3, <2>4, <2>5 DEF Appended
    <3> QED BY <1>7, <2>5, <3>1
  <2>6. CASE a # 0
    <3>1. Stands(mw, gn, l, 0)
      BY <2>3, <2>4, <2>6 DEF Appended
    <3> QED BY <1>7, <2>6, <3>1
  <2> QED BY <2>5, <2>6
<1>16. Tracks(s, rows, mw, gn)
  <2>1. Shape(s)
    BY <1>1, <1>7 DEF Tracks, Shape, AtStock
  <2>2. CASE q.lead = NoLead
    <3>1. ~Watching(s) /\ ~Counting(s)
      BY <1>7, <2>2 DEF Watching, Counting, Pending, AtStock
    <3> QED BY <1>7, <2>1, <2>2, <3>1 DEF Tracks
  <2>3. CASE q.lead # NoLead
    <3>1. Counting(s)
      BY <1>7, <2>3 DEF Counting
    <3>2. /\ q.lead \in Leads /\ rows[q.lead].anchor = q.seen.anchor /\ Len(q.todo) = 1
          /\ q.seen.anchor # 0 =>
               row.item = mv[q.seen.anchor].item /\ row.change = -mv[q.seen.anchor].change
      BY <1>14, <3>1
    <3>3. q.seen.anchor # 0 => mw[q.seen.anchor] = mv[q.seen.anchor]
      BY <1>10, <3>2
    <3>4. s.move # 0 /\ mw[s.move].lead = s.lead /\ s.move \notin gn
      BY <1>4, <1>6, <1>7
    <3>5. rows[s.lead].anchor = s.seen.anchor
      BY <1>7, <3>2
    <3>6. /\ Len(s.todo) = 1
          /\ s.seen.anchor # 0 =>
               /\ s.todo[1].item = mw[s.seen.anchor].item
               /\ s.todo[1].change = -mw[s.seen.anchor].change
      BY <1>4, <1>7, <3>2, <3>3
    <3> QED BY <2>1, <3>4, <3>5, <3>6 DEF Tracks
  <2> QED BY <2>2, <2>3
<1>17. \A l \in Leads :
         \/ rows[l].anchor \notin gn /\ Stands(mw, gn, l, rows[l].anchor)
         \/ Counting(s) /\ s.lead = l
  <2>1. ASSUME NEW l \in Leads, l = q.lead
        PROVE  Counting(s) /\ s.lead = l
    <3>1. q.lead # NoLead
      BY <2>1, ConstantFacts
    <3> QED BY <1>7, <2>1, <3>1 DEF Counting
  <2> QED BY <1>13, <2>1
<1>18. \A j \in Instances \ {i} : calls'[j].pc = "idle"
  OBVIOUS
<1>19. Leaves(s, rows, mw, gn)
  BY <1>11, <1>15, <1>16, <1>17 DEF Leaves
<1>20. Leaves(calls'[i], lead', moves', gone')
  BY <1>5, <1>9, <1>19
<1> QED BY <1>18, <1>20, SaleMade

LEMMA WriteAnchorSale ==
  ASSUME FunnelOK, SaleOK, NEW i \in Instances, WriteAnchor(i),
         \A j \in Instances \ {i} : calls[j].pc = "idle" /\ calls'[j] = calls[j]
  PROVE  SaleOK'
<1> PICK q, r, rows, mv, gn : q = calls[i] /\ r = calls'[i] /\ rows = lead /\ mv = moves /\ gn = gone
  OBVIOUS
<1> PICK rows2 : rows2 = lead'
  OBVIOUS
<1> PICK a : a = IF q.seen.anchor = 0 THEN q.move ELSE 0
  OBVIOUS
<1>1. /\ q \in Call /\ q.pc = "anchor" /\ Tracks(q, rows, mv, gn)
      /\ Sound(q, Len(enrolled), Len(moves))
  BY CallOf DEF WriteAnchor, SaleOK
<1>2. q.lead \in Leads /\ q.lead # NoLead
  BY <1>1, ConstantFacts DEF Sound
<1>3. Counting(q) /\ q.then \in {<<>>, <<"enrol">>}
  BY <1>1, <1>2 DEF Counting, Tracks, Shape, AtStock
<1>4. rows2 = [rows EXCEPT ![q.lead].anchor = a] /\ moves' = mv /\ gone' = gn
  BY DEF WriteAnchor
<1>5. rows \in [Leads -> LeadRow(Len(mv))] /\ gn \subseteq 1 .. Len(mv)
  BY DEF FunnelOK, StockOK
<1>6. \A l \in Leads \ {q.lead} : rows2[l] = rows[l]
  BY <1>2, <1>4, <1>5
<1>7. rows2[q.lead].anchor = a
  BY <1>2, <1>4, <1>5 DEF LeadRow
<1>8. a \notin gn /\ (a # 0 => mv[a].lead = q.lead)
  <2>1. 0 \notin gn
    BY <1>5
  <2>2. q.seen.anchor = 0 => mv[q.move].lead = q.lead /\ q.move \notin gn
    BY <1>1, <1>3 DEF Tracks
  <2> QED BY <2>1, <2>2
<1>9. Stands(mv, gn, q.lead, a)
  BY <1>3 DEF SaleOK
<1>10. ASSUME NEW l \in Leads, l # q.lead
       PROVE  rows[l].anchor \notin gn /\ Stands(mv, gn, l, rows[l].anchor)
  BY <1>10, SaleHas
<1>11. \A l \in Leads : rows2[l].anchor # 0 => mv[rows2[l].anchor].lead = l
  BY <1>6, <1>7, <1>8 DEF SaleOK
<1>12. \A l \in Leads : rows2[l].anchor \notin gn /\ Stands(mv, gn, l, rows2[l].anchor)
  BY <1>6, <1>7, <1>8, <1>9, <1>10
<1>13. r = Through(i)
  BY <1>1, FinishGoes DEF WriteAnchor
<1>14. Tracks(r, rows2, mv, gn) /\ ~Counting(r)
  BY <1>3, <1>13, EndTracks
<1>15. \A j \in Instances \ {i} : calls'[j].pc = "idle"
  OBVIOUS
<1>16. Leaves(r, rows2, mv, gn)
  BY <1>11, <1>12, <1>14 DEF Leaves
<1> QED BY <1>4, <1>15, <1>16, SaleMade

LEMMA WorkSale ==
  ASSUME FunnelOK, SaleOK, NEW i \in Instances, Work(i),
         \A j \in Instances \ {i} : calls[j].pc = "idle"
  PROVE  SaleOK'
<1>2. \A j \in Instances \ {i} : calls[j].pc = "idle" /\ calls'[j] = calls[j]
  BY WorkGoes DEF Goes, Work, CadenceWork, StockWork
<1>3. CASE CadenceWork(i) /\ UNCHANGED stockVars
  <2>1. lead' = lead /\ moves' = moves /\ gone' = gone
    BY <1>3 DEF stockVars
  <2>2. Tracks(calls'[i], lead, moves, gone) /\ SameSale(calls[i], calls'[i])
    BY <1>3, EnrolSale, RunSale DEF CadenceWork
  <2> QED BY <1>2, <2>1, <2>2, SaleNext
<1>4. CASE Sync(i) \/ Consume(i) \/ ReadItems(i) \/ WriteQty(i)
  <2>1. lead' = lead /\ moves' = moves /\ gone' = gone
    BY <1>4 DEF Sync, Consume, ReadItems, WriteQty, stockVars
  <2>2. Tracks(calls'[i], lead, moves, gone) /\ SameSale(calls[i], calls'[i])
    BY <1>4, SyncSale, ConsumeSale, ReadItemsSale, WriteQtySale
  <2> QED BY <1>2, <2>1, <2>2, SaleNext
<1>5. CASE ChangeStage(i) \/ RunRules(i)
  <2>1. moves' = moves /\ gone' = gone
    BY <1>5 DEF ChangeStage, RunRules
  <2>2. /\ Tracks(calls'[i], lead', moves, gone) /\ SameSale(calls[i], calls'[i])
        /\ \A l \in Leads : lead'[l].anchor = lead[l].anchor
    BY <1>5, StageSale, RulesSale
  <2> QED BY <1>2, <2>1, <2>2, SaleNext
<1>6. CASE Restore(i) \/ InsertMove(i) \/ WriteAnchor(i)
  BY <1>2, <1>6, RestoreSale, InsertMoveSale, WriteAnchorSale
<1> QED BY <1>3, <1>4, <1>5, <1>6 DEF Work, StockWork

LEMMA SaleStep ==
  ASSUME FunnelOK, SingleInv, SaleInv, [Next]_vars
  PROVE  SaleInv'
<1> SUFFICES ASSUME world'.together = 1, faults' = 0
             PROVE  SaleOK'
  BY DEF SaleInv
<1>1. world.together = 1 /\ faults = 0
  BY ActorStep, NoFault
<1>2. SaleOK
  BY <1>1 DEF SaleInv
<1>3. CASE UNCHANGED vars
  BY <1>2, <1>3 DEF vars, stockVars, shared, SaleOK
<1>4. CASE Edit
  BY <1>2, <1>4, EditSale
<1>5. ASSUME NEW i \in Instances, Request(i)
      PROVE  SaleOK'
  <2>1. \A j \in Instances : calls[j].pc = "idle"
    BY <1>1, <1>5, RequestBegins, NoneBusy
  <2>2. \A j \in Instances \ {i} : calls'[j] = calls[j]
    BY <1>5, RequestGoes DEF Goes
  <2>3. lead' = lead /\ moves' = moves /\ gone' = gone
    BY <1>5 DEF Request, StockRequest, ArriveMovement, ArriveStage, stockVars
  <2>4. Tracks(calls'[i], lead, moves, gone) /\ SameSale(calls[i], calls'[i])
    BY <1>5, <2>1, RequestSale
  <2> QED BY <1>2, <2>1, <2>2, <2>3, <2>4, SaleNext
<1>6. ASSUME NEW i \in Instances, Work(i)
      PROVE  SaleOK'
  <2>1. calls[i].pc # "idle"
    BY <1>6 DEF Work, CadenceWork, StockWork, EnrolByStage, FindActive, InsertEnrolment,
       ReadEnrolment, FireStep, Advance, StopOne, Sync, Consume, Restore, ReadItems,
       InsertMove, WriteQty, WriteAnchor, ChangeStage, RunRules
  <2>2. \A j \in Instances \ {i} : calls[j].pc = "idle"
    BY <1>1, <2>1, OthersIdle
  <2> QED BY <1>2, <1>6, <2>2, WorkSale
<1> QED BY <1>3, <1>4, <1>5, <1>6, NoFault

(***************************************************************************)
(* While requests come one at a time and none dies, the movements of a     *)
(* lead that stand add up, between two requests, to the one sale its       *)
(* anchor names: dragging it to and fro over the winning column neither    *)
(* empties the store nor makes pieces, whatever the lead, its product and  *)
(* the link have become meanwhile.                                         *)
(***************************************************************************)
THEOREM SaleCorrect == Spec => []OneSaleHeld
<1>1. Init => SaleInv
  <2> SUFFICES ASSUME Init PROVE SaleOK
    BY DEF SaleInv
  <2> PICK rows, mv, gn : rows = lead /\ mv = moves /\ gn = gone
    OBVIOUS
  <2>1. \A i \in Instances : calls[i] = Idle
    BY DEF Init
  <2>2. \A i \in Instances : Tracks(calls[i], rows, mv, gn) /\ ~Counting(calls[i])
    <3>1. Tracks(Idle, rows, mv, gn) /\ ~Counting(Idle)
      BY IdleFields, IdleTracks
    <3> QED BY <2>1, <3>1
  <2>3. \A l \in Leads : rows[l].anchor = 0
    BY DEF Init
  <2>4. mv = <<>> /\ gn = {} /\ mv \in Seq(Move) /\ Len(mv) = 0
    BY DEF Init
  <2>5. ASSUME NEW l
        PROVE  Stands(mv, gn, l, 0)
    <3>1. ASSUME NEW item \in Items
          PROVE  Sums(mv, SalesOf(mv, gn, l, item))[Len(mv)] = 0
      <4> PICK s, S : S = SalesOf(mv, gn, l, item) /\ s = Sums(mv, S)
        OBVIOUS
      <4>1. Running(s, mv, S, Len(mv))
        BY <2>4, SumsRun
      <4>2. s[0] = 0
        BY <4>1 DEF Running
      <4> QED BY <2>4, <4>2
    <3> QED BY <3>1 DEF Stands
  <2> QED BY <2>2, <2>3, <2>4, <2>5 DEF SaleOK
<1>2. Init => SingleInv
  <2> SUFFICES ASSUME Init PROVE OneCall
    BY DEF SingleInv
  <2> QED BY IdleFields DEF Init, OneCall
<1>3. FunnelOK /\ SingleInv /\ SaleInv /\ [Next]_vars => SaleInv'
  BY SaleStep
<1>4. FunnelOK /\ SingleInv /\ [Next]_vars => SingleInv'
  BY SingleStep
<1>5. SaleInv => OneSaleHeld
  <2> SUFFICES ASSUME SaleOK, Busy = {}, NEW l \in Leads, NEW item \in Items
               PROVE  Total({n \in DOMAIN moves : moves[n].lead = l /\ moves[n].item = item} \ gone)
                        = IF lead[l].anchor # 0 /\ moves[lead[l].anchor].item = item
                          THEN moves[lead[l].anchor].change ELSE 0
    BY DEF SaleInv, OneSaleHeld
  <2>1. \A i \in Instances : ~Counting(calls[i])
    BY DEF Busy, Counting
  <2>2. Stands(moves, gone, l, lead[l].anchor)
    BY <2>1 DEF SaleOK
  <2> QED BY <2>2 DEF Stands, Total, SalesOf
<1> QED BY <1>1, <1>2, <1>3, <1>4, <1>5, AlwaysOK, PTL DEF Spec

=============================================================================
