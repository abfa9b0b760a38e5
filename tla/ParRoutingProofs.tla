-------------------------- MODULE ParRoutingProofs --------------------------
(***************************************************************************)
(* What every chain that submitPAR writes has, for every matrix, every     *)
(* amount, every set of pre-approvers and every verifier.                  *)
(***************************************************************************)
EXTENDS ParRouting, TLAPS

FrontKeys == {"pre", "verify"}

\* Slots of the matrix stand as many levels behind where they were resolved.
Behind(c, from, d) ==
  \A x \in c : x.key \in FrontKeys
            \/ \E s \in from : s.key = x.key /\ x.step = s.step + d

\* Whoever was to sign still does, or is the requestor.
Answered(c, from) ==
  \A s \in from : \/ s.user = Requestor
                  \/ \E t \in c : t.user = s.user /\ (t.key = s.key \/ t.key \in FrontKeys)

\* The verifier signs first, the pre-approvers before the matrix.
InFront(c) ==
  \A s, t \in c :
    /\ s.key = "verify" /\ t # s => s.step < t.step
    /\ s.key = "pre" /\ t.key \notin FrontKeys => s.step < t.step

Typed(c) == \A s \in c : s.step \in Nat \ {0} /\ s.user \in Users \union {NoUser}

Fine(c, from) ==
  /\ Typed(c) /\ Typed(from) /\ c # {}
  /\ \E d \in Nat : Behind(c, from, d)
  /\ Answered(c, from) /\ InFront(c)

Without(c, keys) == \A s \in c : s.key \notin keys
Others(c) == \A s \in c : s.user # Requestor

ChainInv ==
  /\ resolved \in Chain!ResolvedChains(amount)
  /\ Without(resolved, FrontKeys)
  /\ \A s, t \in resolved : s.key = t.key => s = t
  /\ Fine(chain, resolved)
  /\ stage = "self" => chain = resolved
  /\ stage # "self" => Others(chain)
  /\ stage = "project" => Without(chain, FrontKeys)
  /\ stage = "verify" => Without(chain, {"verify"})

InputsOK ==
  /\ matrix \subseteq RowPool /\ preApprovers \subseteq Users
  /\ verifier \in Users \union {NoUser} /\ amount \in Amounts
  /\ stage \in {"resolve", "self", "project", "verify", "done"}

RoutingInv ==
  /\ InputsOK
  /\ stage = "resolve" => resolved = {} /\ chain = {}
  /\ stage # "resolve" => ChainInv

----------------------------------------------------------------------------
(* Lemmas about slots and chains.                                          *)

LEMMA SlotFields ==
  ASSUME NEW k, NEW n, NEW u, NEW r, NEW s, s = Chain!Slot(k, n, u, r)
  PROVE  s.key = k /\ s.step = n /\ s.user = u /\ s.role = r
  BY DEF Chain!Slot

\* Everybody moves one level back.
LEMMA ShiftedSlots ==
  ASSUME NEW c
  PROVE  /\ \A s \in c : \E x \in Chain!Shifted(c) :
              x.key = s.key /\ x.step = s.step + 1 /\ x.user = s.user
         /\ \A x \in Chain!Shifted(c) : \E s \in c :
              x.key = s.key /\ x.step = s.step + 1 /\ x.user = s.user
<1>1. ASSUME NEW s \in c
      PROVE  \E x \in Chain!Shifted(c) : x.key = s.key /\ x.step = s.step + 1 /\ x.user = s.user
  <2> PICK x : x = Chain!Slot(s.key, s.step + 1, s.user, s.role)
    OBVIOUS
  <2>1. x \in Chain!Shifted(c)
    BY DEF Chain!Shifted
  <2> QED BY <2>1, SlotFields
<1>2. ASSUME NEW x \in Chain!Shifted(c)
      PROVE  \E s \in c : x.key = s.key /\ x.step = s.step + 1 /\ x.user = s.user
  <2>1. PICK s \in c : x = Chain!Slot(s.key, s.step + 1, s.user, s.role)
    BY DEF Chain!Shifted
  <2> QED BY <2>1, SlotFields
<1> QED BY <1>1, <1>2

\* What a resolved chain is: each slot a row of the matrix, or the fallback.
LEMMA ResolvedSlots ==
  ASSUME NEW c \in Chain!ResolvedChains(amount), matrix \subseteq RowPool
  PROVE  /\ c # {}
         /\ \/ \A s \in c : \E r \in matrix : s = Chain!SlotOf(r)
            \/ c = {Chain!Slot("fallback", 1, NoUser, "par_admin")}
<1> DEFINE matching == {r \in matrix : Chain!Matches(r) /\ Chain!InBand(r, amount)}
           steps == {r.step : r \in matching}
           level(n) == Chain!LevelChoices({r \in matching : r.step = n})
           Goal == /\ c # {}
                   /\ \/ \A s \in c : \E r \in matrix : s = Chain!SlotOf(r)
                      \/ c = {Chain!Slot("fallback", 1, NoUser, "par_admin")}
<1>1. CASE matching # {}
  <2>1. PICK f \in [steps -> SUBSET matching] :
          /\ \A n \in steps : f[n] \in level(n)
          /\ c = {Chain!SlotOf(r) : r \in UNION {f[n] : n \in steps}}
    BY <1>1 DEF Chain!ResolvedChains
  <2>2. PICK r0 \in matching : TRUE
    BY <1>1
  <2>3. r0.step \in steps /\ f[r0.step] \in level(r0.step)
    BY <2>1
  <2>4. \A g : \A x \in Chain!LevelChoices(g) : x # {}
    BY DEF Chain!LevelChoices
  <2>5. PICK r1 : r1 \in f[r0.step]
    BY <2>3, <2>4
  <2>6. Chain!SlotOf(r1) \in c
    BY <2>1, <2>3, <2>5
  <2>7. \A s \in c : \E r \in matrix : s = Chain!SlotOf(r)
    BY <2>1
  <2> QED BY <2>6, <2>7
<1>2. CASE matching = {} /\ Chain!HighestBand # {}
  <2>1. c = {Chain!SlotOf(r) : r \in Chain!HighestBand}
    BY <1>2 DEF Chain!ResolvedChains
  <2>2. Chain!HighestBand \subseteq matrix
    BY DEF Chain!HighestBand
  <2> QED BY <1>2, <2>1, <2>2
<1>3. CASE matching = {} /\ Chain!HighestBand = {}
  BY <1>3 DEF Chain!ResolvedChains
<1> QED BY <1>1, <1>2, <1>3

LEMMA ResolvedFine ==
  ASSUME NEW c \in Chain!ResolvedChains(amount), matrix \subseteq RowPool
  PROVE  /\ Fine(c, c) /\ Without(c, FrontKeys)
         /\ \A s, t \in c : s.key = t.key => s = t
<1>1. \A r \in matrix : /\ r.step \in Nat \ {0} /\ r.user \in Users \union {NoUser}
                        /\ r.id \notin FrontKeys
                        /\ \A q \in matrix : r.id = q.id => r = q
  BY RoutingAssumption DEF FrontKeys
<1>2. ASSUME NEW r, NEW s, s = Chain!SlotOf(r)
      PROVE  s.key = r.id /\ s.step = r.step /\ s.user = r.user
  BY <1>2, SlotFields DEF Chain!SlotOf
<1>3. /\ Typed(c) /\ Without(c, FrontKeys)
      /\ \A s, t \in c : s.key = t.key => s = t
  <2>1. CASE \A s \in c : \E r \in matrix : s = Chain!SlotOf(r)
    <3>1. \A s \in c : \E r \in matrix : s = Chain!SlotOf(r) /\ s.key = r.id
                                        /\ s.step = r.step /\ s.user = r.user
      BY <1>2, <2>1
    <3> QED BY <1>1, <3>1 DEF Typed, Without
  <2>2. CASE c = {Chain!Slot("fallback", 1, NoUser, "par_admin")}
    <3> PICK s : s = Chain!Slot("fallback", 1, NoUser, "par_admin")
      OBVIOUS
    <3>1. s.key = "fallback" /\ s.step = 1 /\ s.user = NoUser /\ c = {s}
      BY <2>2, SlotFields
    <3> QED BY <3>1 DEF Typed, Without, FrontKeys
  <2> QED BY <2>1, <2>2, ResolvedSlots
<1>4. Behind(c, c, 0) /\ Answered(c, c) /\ InFront(c)
  BY <1>3 DEF Typed, Without, Behind, Answered, InFront, FrontKeys
<1> QED BY <1>3, <1>4, ResolvedSlots DEF Fine

\* The requestor's own slots go, or escalate.
LEMMA DropSelfFine ==
  ASSUME NEW c, Fine(c, c), Without(c, FrontKeys),
         NEW e, e = Chain!WithoutSelfApproval(c, Requestor)
  PROVE  Fine(e, c) /\ Others(e) /\ Without(e, FrontKeys)
<1> DEFINE others == {s \in c : s.user # Requestor}
<1>1. CASE others # {}
  <2>1. e = others
    BY <1>1 DEF Chain!WithoutSelfApproval
  <2>2. Behind(e, c, 0) /\ Typed(c)
    BY <2>1 DEF Behind, Fine, Typed
  <2> QED BY <1>1, <2>1, <2>2 DEF Fine, Typed, Answered, InFront, Others, Without, FrontKeys
<1>2. CASE others = {}
  <2>1. \A x \in e : \E s \in c : /\ x = Chain!Slot(s.key, s.step, NoUser, "par_admin")
                                  /\ x.key = s.key /\ x.step = s.step /\ x.user = NoUser
    BY <1>2, SlotFields DEF Chain!WithoutSelfApproval
  <2>2. \A s \in c : Chain!Slot(s.key, s.step, NoUser, "par_admin") \in e
    BY <1>2 DEF Chain!WithoutSelfApproval
  <2>3. e # {}
    BY <2>2 DEF Fine
  <2>4. Typed(e) /\ Typed(c) /\ Without(e, FrontKeys) /\ Others(e)
    BY <2>1, RoutingAssumption DEF Fine, Typed, Without, Others
  <2>5. Behind(e, c, 0)
    BY <2>1, <2>4 DEF Behind, Typed
  <2>6. Answered(e, c)
    BY <1>2 DEF Answered
  <2>7. InFront(e)
    BY <2>4 DEF Without, InFront, FrontKeys
  <2> QED BY <2>3, <2>4, <2>5, <2>6, <2>7 DEF Fine
<1> QED BY <1>1, <1>2

\* A new first level in front of what is kept of a chain: everybody who goes
\* signs on that level.
Fronted(c, e, front, kept, k) ==
  /\ k \in FrontKeys /\ front # {} /\ kept \subseteq c
  /\ \A x \in front : x.key = k /\ x.step = 1 /\ x.user \in Users \ {Requestor}
  /\ \A s \in c \ kept : \E x \in front : x.user = s.user
  /\ k = "pre" => Without(c, FrontKeys)
  /\ k = "verify" => \A x, y \in front : x = y
  /\ e = front \union Chain!Shifted(kept)

LEMMA FrontFine ==
  ASSUME NEW c, NEW from, NEW e, NEW front, NEW kept, NEW k, Fine(c, from), Others(c),
         Without(c, {"verify"}), Fronted(c, e, front, kept, k)
  PROVE  Fine(e, from) /\ Others(e)
<1>0. /\ k \in FrontKeys /\ front # {} /\ kept \subseteq c
      /\ \A x \in front : x.key = k /\ x.step = 1 /\ x.user \in Users \ {Requestor}
      /\ \A s \in c \ kept : \E x \in front : x.user = s.user
      /\ k = "pre" => Without(c, FrontKeys)
      /\ k = "verify" => \A x, y \in front : x = y
      /\ e = front \union Chain!Shifted(kept)
  BY DEF Fronted
<1>1. /\ Typed(c) /\ Typed(from) /\ Answered(c, from) /\ InFront(c)
      /\ \E d \in Nat : Behind(c, from, d)
  BY DEF Fine
<1>2. \A x \in e : \/ x \in front
                   \/ \E s \in kept : x.key = s.key /\ x.step = s.step + 1 /\ x.user = s.user
  BY <1>0, ShiftedSlots
<1>3. \A s \in kept : \E x \in e : x.key = s.key /\ x.step = s.step + 1 /\ x.user = s.user
  BY <1>0, ShiftedSlots
<1>4. Typed(e) /\ Others(e) /\ e # {}
  BY <1>0, <1>1, <1>2 DEF Typed, Others
<1>5. \E d \in Nat : Behind(e, from, d)
  <2>1. PICK d \in Nat : Behind(c, from, d)
    BY <1>1
  <2>2. ASSUME NEW x \in e, x.key \notin FrontKeys
        PROVE  \E s \in from : s.key = x.key /\ x.step = s.step + (d + 1)
    <3>1. PICK t \in kept : x.key = t.key /\ x.step = t.step + 1
      BY <1>0, <1>2, <2>2
    <3>2. PICK s \in from : s.key = t.key /\ t.step = s.step + d
      <4>1. t \in c /\ t.key \notin FrontKeys
        BY <1>0, <2>2, <3>1
      <4>2. \E s \in from : s.key = t.key /\ t.step = s.step + d
        BY <2>1, <4>1 DEF Behind
      <4> QED BY <4>2
    <3>3. s.step \in Nat
      BY <1>1 DEF Typed
    <3> QED BY <3>1, <3>2, <3>3
  <2> QED BY <2>2 DEF Behind
<1>6. Answered(e, from)
  <2>1. ASSUME NEW s \in from, s.user # Requestor
        PROVE  \E t \in e : t.user = s.user /\ (t.key = s.key \/ t.key \in FrontKeys)
    <3>1. PICK t \in c : t.user = s.user /\ (t.key = s.key \/ t.key \in FrontKeys)
      BY <1>1, <2>1 DEF Answered
    <3>2. CASE t \in kept
      BY <1>3, <3>1, <3>2
    <3>3. CASE t \notin kept
      BY <1>0, <1>2, <3>1, <3>3
    <3> QED BY <3>2, <3>3
  <2> QED BY <2>1 DEF Answered
<1>7. InFront(e)
  <2>1. ASSUME NEW s \in e, NEW t \in e, s.key = "verify", t # s
        PROVE  s.step < t.step
    <3>1. s \in front
      BY <1>0, <1>2, <2>1 DEF Without
    <3>2. t \notin front
      BY <1>0, <2>1, <3>1, <1>2 DEF Without
    <3>3. PICK y \in kept : t.step = y.step + 1
      BY <1>2, <3>2
    <3> QED BY <1>0, <1>1, <3>1, <3>3 DEF Typed
  <2>2. ASSUME NEW s \in e, NEW t \in e, s.key = "pre", t.key \notin FrontKeys
        PROVE  s.step < t.step
    <3>1. PICK y \in kept : t.step = y.step + 1 /\ y.key = t.key
      BY <1>0, <1>2, <2>2
    <3>2. CASE s \in front
      BY <1>0, <1>1, <3>1, <3>2 DEF Typed
    <3>3. CASE s \notin front
      <4>1. PICK x \in kept : s.step = x.step + 1 /\ x.key = s.key
        BY <1>2, <3>3
      <4>2. x.step < y.step
        BY <1>0, <1>1, <2>2, <3>1, <4>1 DEF InFront
      <4> QED BY <1>0, <1>1, <3>1, <4>1, <4>2 DEF Typed
    <3> QED BY <3>2, <3>3
  <2> QED BY <2>1, <2>2 DEF InFront
<1> QED BY <1>1, <1>4, <1>5, <1>6, <1>7 DEF Fine

LEMMA PreFine ==
  ASSUME NEW c, NEW from, Fine(c, from), Others(c), Without(c, FrontKeys),
         preApprovers \subseteq Users,
         NEW e, e = Chain!WithProjectPreApproval(c, Requestor)
  PROVE  Fine(e, from) /\ Others(e) /\ Without(e, {"verify"})
<1> PICK eligible : eligible = preApprovers \ {Requestor}
  OBVIOUS
<1>1. Without(c, {"verify"})
  BY DEF Without, FrontKeys
<1>2. CASE eligible = {}
  <2>1. e = c
    BY <1>2 DEF Chain!WithProjectPreApproval
  <2> QED BY <1>1, <2>1
<1>3. CASE eligible # {}
  <2> PICK kept, front : /\ kept = {s \in c : s.user \notin eligible}
                         /\ front = {Chain!Slot("pre", 1, u, "none") : u \in eligible}
    OBVIOUS
  <2>1. e = front \union Chain!Shifted(kept)
    BY <1>3 DEF Chain!WithProjectPreApproval, Chain!NoRole
  <2>2. \A x \in front : x.key = "pre" /\ x.step = 1 /\ x.user \in Users \ {Requestor}
    BY SlotFields
  <2>3. \A s \in c \ kept : \E x \in front : x.user = s.user
    <3>1. ASSUME NEW s \in c \ kept
          PROVE  \E x \in front : x.user = s.user
      <4> PICK x : x = Chain!Slot("pre", 1, s.user, "none")
        OBVIOUS
      <4>1. x.user = s.user
        BY SlotFields
      <4>2. x \in front
        OBVIOUS
      <4> QED BY <4>1, <4>2
    <3> QED BY <3>1
  <2>4. front # {} /\ kept \subseteq c
    BY <1>3
  <2>5. "pre" \in FrontKeys
    BY DEF FrontKeys
  <2>6. Fine(e, from) /\ Others(e)
    <3>1. Fronted(c, e, front, kept, "pre")
      BY <2>1, <2>2, <2>3, <2>4, <2>5 DEF Fronted
    <3> QED BY <1>1, <3>1, FrontFine
  <2>7. Without(e, {"verify"})
    <3>1. \A x \in e : x \in front \/ \E s \in kept : x.key = s.key
      BY <2>1, ShiftedSlots
    <3> QED BY <1>1, <2>2, <2>4, <3>1 DEF Without
  <2> QED BY <2>6, <2>7
<1> QED BY <1>2, <1>3

LEMMA VerifyFine ==
  ASSUME NEW c, NEW from, Fine(c, from), Others(c), Without(c, {"verify"}),
         verifier \in Users \union {NoUser},
         NEW e, e = Chain!WithRequesterVerification(c, verifier, Requestor)
  PROVE  Fine(e, from) /\ Others(e)
<1>1. CASE verifier \in {NoUser, Requestor}
  <2>1. e = c
    BY <1>1 DEF Chain!WithRequesterVerification
  <2> QED BY <2>1
<1>2. CASE verifier \notin {NoUser, Requestor}
  <2> PICK x, kept : /\ x = Chain!Slot("verify", 1, verifier, "none")
                     /\ kept = {s \in c : ~(s \in Chain!FirstLevel(c) /\ s.user = verifier)}
    OBVIOUS
  <2>1. e = {x} \union Chain!Shifted(kept)
    BY <1>2 DEF Chain!WithRequesterVerification, Chain!NoRole
  <2>2. x.key = "verify" /\ x.step = 1 /\ x.user = verifier
    BY SlotFields
  <2>3. \A s \in c \ kept : s.user = x.user
    BY <2>2
  <2>4. "verify" \in FrontKeys /\ kept \subseteq c
    BY DEF FrontKeys
  <2> PICK front : front = {x}
    OBVIOUS
  <2>5. /\ \A y \in front : y.key = "verify" /\ y.step = 1 /\ y.user \in Users \ {Requestor}
        /\ \A s \in c \ kept : \E y \in front : y.user = s.user
        /\ front # {} /\ \A y, z \in front : y = z
        /\ e = front \union Chain!Shifted(kept)
    BY <1>2, <2>1, <2>2, <2>3
  <2>6. Fronted(c, e, front, kept, "verify")
    BY <2>4, <2>5 DEF Fronted
  <2> QED BY <2>6, FrontFine
<1> QED BY <1>1, <1>2

----------------------------------------------------------------------------
(* The submit.                                                             *)

LEMMA SameChains ==
  ASSUME UNCHANGED inputs
  PROVE  Chain!ResolvedChains(amount)' = Chain!ResolvedChains(amount)
<1>1. matrix' = matrix /\ amount' = amount
  BY DEF inputs
<1> QED BY <1>1 DEF Chain!ResolvedChains, Chain!HighestBand, Chain!Matches, Chain!InBand,
       Chain!LevelChoices, Chain!MostSpecific, Chain!Specificity, Chain!SlotOf, Chain!Slot

\* The rewriting of the chain, and what it leaves alone.
LEMMA RoutingStep == ASSUME RoutingInv, [Next]_vars PROVE RoutingInv'
<1> PICK c, e, from, from2 : c = chain /\ e = chain' /\ from = resolved /\ from2 = resolved'
  OBVIOUS
<1>1. UNCHANGED inputs
  BY DEF Next, Resolve, DropSelf, AddPreApprovers, AddVerifier, vars
<1>2. InputsOK /\ InputsOK'
  BY <1>1 DEF RoutingInv, InputsOK, inputs, Next, Resolve, DropSelf, AddPreApprovers,
     AddVerifier, vars
<1>3. CASE UNCHANGED vars
  <2>1. stage' = stage /\ chain' = chain /\ resolved' = resolved
    BY <1>3 DEF vars
  <2>2. ChainInv => ChainInv'
    BY <1>1, <2>1, SameChains DEF ChainInv
  <2> QED BY <1>2, <2>1, <2>2 DEF RoutingInv
<1>4. CASE Resolve
  <2>1. stage' = "self" /\ e = from2 /\ e \in Chain!ResolvedChains(amount)
    BY <1>4 DEF Resolve
  <2>2. Fine(e, e) /\ Without(e, FrontKeys) /\ \A s, t \in e : s.key = t.key => s = t
    BY <1>2, <2>1, ResolvedFine DEF InputsOK
  <2>3. ChainInv'
    BY <1>1, <2>1, <2>2, SameChains DEF ChainInv
  <2> QED BY <1>2, <2>1, <2>3 DEF RoutingInv
<1>5. ASSUME stage # "resolve", from2 = from, stage' \in {"project", "verify", "done"},
             Fine(e, from) /\ Others(e), stage' = "project" => Without(e, FrontKeys),
             stage' = "verify" => Without(e, {"verify"})
      PROVE  RoutingInv'
  <2>1. ChainInv
    BY <1>5 DEF RoutingInv
  <2>2. ChainInv'
    BY <1>1, <1>5, <2>1, SameChains DEF ChainInv
  <2> QED BY <1>2, <1>5, <2>2 DEF RoutingInv
<1>6. CASE DropSelf
  <2>1. /\ stage = "self" /\ stage' = "project" /\ from2 = from
        /\ e = Chain!WithoutSelfApproval(c, Requestor)
    BY <1>6 DEF DropSelf
  <2>2. c = from /\ Fine(c, c) /\ Without(c, FrontKeys)
    BY <2>1 DEF RoutingInv, ChainInv
  <2>3. Fine(e, c) /\ Others(e) /\ Without(e, FrontKeys)
    BY <2>1, <2>2, DropSelfFine
  <2> QED BY <1>5, <2>1, <2>2, <2>3
<1>7. CASE AddPreApprovers
  <2>1. /\ stage = "project" /\ stage' = "verify" /\ from2 = from
        /\ e = Chain!WithProjectPreApproval(c, Requestor)
    BY <1>7 DEF AddPreApprovers
  <2>2. Fine(c, from) /\ Others(c) /\ Without(c, FrontKeys)
    BY <2>1 DEF RoutingInv, ChainInv
  <2>3. Fine(e, from) /\ Others(e) /\ Without(e, {"verify"})
    BY <1>2, <2>1, <2>2, PreFine DEF InputsOK
  <2> QED BY <1>5, <2>1, <2>3
<1>8. CASE AddVerifier
  <2>1. /\ stage = "verify" /\ stage' = "done" /\ from2 = from
        /\ e = Chain!WithRequesterVerification(c, verifier, Requestor)
    BY <1>8 DEF AddVerifier
  <2>2. Fine(c, from) /\ Others(c) /\ Without(c, {"verify"})
    BY <2>1 DEF RoutingInv, ChainInv
  <2>3. Fine(e, from) /\ Others(e)
    BY <1>2, <2>1, <2>2, VerifyFine DEF InputsOK
  <2> QED BY <1>5, <2>1, <2>3
<1> QED BY <1>3, <1>4, <1>6, <1>7, <1>8 DEF Next

LEMMA AlwaysRouting == Spec => []RoutingInv
<1>1. Init => RoutingInv
  BY DEF Init, RoutingInv, InputsOK
<1>2. RoutingInv /\ [Next]_vars => RoutingInv'
  BY RoutingStep
<1> QED BY <1>1, <1>2, PTL DEF Spec

\* The inputs, and every slot on a level and pinned to a member or to nobody.
THEOREM TypeCorrect == Spec => []TypeOK
<1>1. RoutingInv => TypeOK
  BY DEF RoutingInv, InputsOK, ChainInv, Fine, Typed, TypeOK
<1> QED BY <1>1, AlwaysRouting, PTL

(***************************************************************************)
(* Whoever the matrix asked for is still asked for in the chain that is    *)
(* written, by the slot he had or by one in front of it, unless he is the  *)
(* requestor.                                                              *)
(***************************************************************************)
THEOREM SignaturesCorrect == Spec => []NoSignatureLost
<1>1. ASSUME RoutingInv
      PROVE  NoSignatureLost
  <2> SUFFICES ASSUME Done, NEW s \in resolved, s.user # Requestor
               PROVE  Kept(s) # {} \/ \E t \in chain : t.user = s.user /\ t.key \in FrontKeys
    BY DEF NoSignatureLost, FrontKeys
  <2>1. Answered(chain, resolved)
    BY <1>1 DEF RoutingInv, ChainInv, Fine, Done
  <2>2. PICK t \in chain : t.user = s.user /\ (t.key = s.key \/ t.key \in FrontKeys)
    BY <2>1 DEF Answered
  <2> QED BY <2>2 DEF Kept
<1> QED BY <1>1, AlwaysRouting, PTL

\* A chain always has a slot, and none of them waits for the requestor.
THEOREM OthersCorrect == Spec => []SomebodyElseSigns
<1>1. RoutingInv => SomebodyElseSigns
  BY DEF RoutingInv, ChainInv, Fine, Done, Others, SomebodyElseSigns
<1> QED BY <1>1, AlwaysRouting, PTL

\* All slots of the matrix that are left move back by as many levels.
THEOREM OrderCorrect == Spec => []OrderKept
<1>1. ASSUME RoutingInv
      PROVE  OrderKept
  <2> SUFFICES ASSUME Done, NEW s \in resolved, NEW t \in resolved,
                      NEW x \in Kept(s), NEW y \in Kept(t)
               PROVE  x.step < y.step <=> s.step < t.step
    BY DEF OrderKept
  <2>1. ChainInv
    BY <1>1 DEF RoutingInv, Done
  <2>2. PICK d \in Nat : Behind(chain, resolved, d)
    BY <2>1 DEF ChainInv, Fine
  <2>3. s.step \in Nat /\ t.step \in Nat
    BY <2>1 DEF ChainInv, Fine, Typed
  <2>4. ASSUME NEW a \in resolved, NEW z \in Kept(a)
        PROVE  z.step = a.step + d
    <3>1. z \in chain /\ z.key = a.key /\ z.key \notin FrontKeys
      BY <2>1, <2>4 DEF Kept, ChainInv, Without
    <3>2. PICK b \in resolved : b.key = z.key /\ z.step = b.step + d
      BY <2>2, <3>1 DEF Behind
    <3>3. a = b
      BY <2>1, <3>1, <3>2 DEF ChainInv
    <3> QED BY <3>2, <3>3
  <2> QED BY <2>3, <2>4
<1> QED BY <1>1, AlwaysRouting, PTL

\* The verifier signs before everybody, the pre-approvers before the matrix.
THEOREM VerifierCorrect == Spec => []VerifierFirst
<1>1. RoutingInv => VerifierFirst
  BY DEF RoutingInv, ChainInv, Fine, Done, InFront, VerifierFirst, FrontKeys
<1> QED BY <1>1, AlwaysRouting, PTL

\* An amount without a band goes to every row of the highest one that fits.
THEOREM BandCorrect == Spec => []NoBandMeansHighest
<1>1. ASSUME RoutingInv
      PROVE  NoBandMeansHighest
  <2> SUFFICES ASSUME Done, \A r \in matrix : ~(Chain!Matches(r) /\ Chain!InBand(r, amount))
               PROVE  IF \E r \in matrix : Chain!Matches(r)
                      THEN \A r \in matrix :
                             Chain!Matches(r) /\ (\A q \in matrix : Chain!Matches(q) => q.min <= r.min)
                               => \E s \in resolved : s.key = r.id
                      ELSE resolved = {Chain!Slot("fallback", 1, NoUser, "par_admin")}
    BY DEF NoBandMeansHighest
  <2>1. resolved \in Chain!ResolvedChains(amount)
    BY <1>1 DEF RoutingInv, ChainInv, Done
  <2>2. {r \in matrix : Chain!Matches(r) /\ Chain!InBand(r, amount)} = {}
    OBVIOUS
  <2>3. IF Chain!HighestBand # {}
        THEN resolved = {Chain!SlotOf(r) : r \in Chain!HighestBand}
        ELSE resolved = {Chain!Slot("fallback", 1, NoUser, "par_admin")}
    BY <2>1, <2>2 DEF Chain!ResolvedChains
  <2>4. \A r : r \in Chain!HighestBand <=>
               /\ r \in matrix /\ Chain!Matches(r)
               /\ \A q \in matrix : Chain!Matches(q) => q.min <= r.min
    BY DEF Chain!HighestBand
  <2>5. ASSUME NEW r \in Chain!HighestBand
        PROVE  \E s \in resolved : s.key = r.id
    <3> PICK s : s = Chain!SlotOf(r)
      OBVIOUS
    <3>1. s \in resolved
      BY <2>3, <2>5
    <3>2. s.key = r.id
      BY SlotFields DEF Chain!SlotOf
    <3> QED BY <3>1, <3>2
  <2> QED BY <2>3, <2>4, <2>5
<1> QED BY <1>1, AlwaysRouting, PTL
=============================================================================
