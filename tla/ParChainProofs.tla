---------------------------- MODULE ParChainProofs --------------------------
(***************************************************************************)
(* What is true of every chain of approvals, for every workspace, matrix,  *)
(* verifier and amount.                                                    *)
(***************************************************************************)
EXTENDS ParChain, WellFoundedInduction, TLAPS

----------------------------------------------------------------------------
(* The chains a submit may write.                                          *)

\* Resolving yields slots, at least one (resolveApprovalChain).
LEMMA ResolvedSlots ==
  ASSUME NEW amount, NEW chain \in ResolvedChains(amount)
  PROVE  chain \subseteq Slots /\ chain # {}
<1> DEFINE matching == {r \in Matrix : Matches(r) /\ InBand(r, amount)}
           steps    == {r.step : r \in matching}
           levels   == [n \in steps |-> LevelChoices({r \in matching : r.step = n})]
           chosen   == {f \in [steps -> SUBSET matching] :
                          \A n \in steps : f[n] \in levels[n]}
<1>1. \A r \in Matrix : SlotOf(r) \in Slots
  BY MatrixAssumption DEF SlotOf, Slot, Slots, SlotKeys
<1>2. CASE matching # {}
  <2>1. PICK f \in chosen : chain = {SlotOf(r) : r \in UNION {f[n] : n \in steps}}
    BY <1>2 DEF ResolvedChains
  <2>2. \A n \in steps : f[n] \subseteq Matrix
    BY <2>1
  <2>3. PICK n \in steps : TRUE
    BY <1>2
  <2>4. f[n] \in LevelChoices({r \in matching : r.step = n})
    BY <2>1, <2>3
  <2>5. f[n] # {}
    BY <2>4 DEF LevelChoices
  <2>. QED BY <1>1, <2>1, <2>2, <2>3, <2>5
<1>3. CASE matching = {} /\ HighestBand # {}
  <2>1. chain = {SlotOf(r) : r \in HighestBand}
    BY <1>3 DEF ResolvedChains
  <2>2. HighestBand \subseteq Matrix
    BY DEF HighestBand
  <2>. QED BY <1>1, <1>3, <2>1, <2>2
<1>4. CASE matching = {} /\ HighestBand = {}
  <2>1. chain = {Slot("fallback", 1, NoUser, "par_admin")}
    BY <1>4 DEF ResolvedChains
  <2>. QED BY <2>1 DEF Slot, Slots, SlotKeys, RoleNames
<1>. QED BY <1>2, <1>3, <1>4

LEMMA ShiftedSlots ==
  ASSUME NEW chain \in SUBSET Slots
  PROVE  Shifted(chain) \subseteq Slots
<1>. SUFFICES ASSUME NEW s \in chain
               PROVE  Slot(s.key, s.step + 1, s.user, s.role) \in Slots
  BY DEF Shifted
<1>. QED BY DEF Slot, Slots

\* The three rewritings of submitPAR keep slots slots and lose no chain.
LEMMA SubmittedSlots ==
  ASSUME NEW amount, NEW actor \in Users, NEW chain \in SubmittedChains(amount, actor)
  PROVE  chain \subseteq Slots /\ chain # {}
<1>1. PICK c \in ResolvedChains(amount) :
        chain = WithRequesterVerification(
                  WithProjectPreApproval(WithoutSelfApproval(c, actor), actor),
                  Verifier, actor)
  BY DEF SubmittedChains
<1>. DEFINE others  == WithoutSelfApproval(c, actor)
            project == WithProjectPreApproval(others, actor)
<1>2. c \subseteq Slots /\ c # {}
  BY <1>1, ResolvedSlots
<1>3. others \subseteq Slots /\ others # {}
  <2>1. \A s \in c : Slot(s.key, s.step, NoUser, "par_admin") \in Slots
    BY <1>2 DEF Slot, Slots, RoleNames
  <2>. QED BY <1>2, <2>1 DEF WithoutSelfApproval
<1>4. project \subseteq Slots /\ project # {}
  <2>1. \A k \in SUBSET others : Shifted(k) \subseteq Slots
    BY <1>3, ShiftedSlots
  <2>2. \A u \in Users : Slot("pre", 1, u, NoRole) \in Slots
    BY DEF Slot, Slots, SlotKeys
  <2>3. PreApprovers \subseteq Users
    BY PeopleAssumption
  <2>. QED BY <1>3, <2>1, <2>2, <2>3 DEF WithProjectPreApproval
<1>5. chain \subseteq Slots /\ chain # {}
  <2>1. \A k \in SUBSET project : Shifted(k) \subseteq Slots
    BY <1>4, ShiftedSlots
  <2>2. Slot("verify", 1, Verifier, NoRole) \in Slots
    BY PeopleAssumption DEF Slot, Slots, SlotKeys
  <2>. QED BY <1>1, <1>4, <2>1, <2>2 DEF WithRequesterVerification
<1>. QED BY <1>5

\* Every set of levels has a lowest one.
LEMMA LeastNatural ==
  ASSUME NEW T \in SUBSET Nat, T # {}
  PROVE  \E m \in T : \A n \in T : m <= n
<1>1. PICK m \in T : \A n \in T : ~ (<<n, m>> \in OpToRel(<, Nat))
  BY WFMin, NatLessThanWellFounded
<1>2. \A n \in T : ~ (n < m)
  BY <1>1 DEF OpToRel
<1>. QED BY <1>2

LEMMA FirstLevelExists ==
  ASSUME NEW chain \in SUBSET Slots, chain # {}
  PROVE  FirstLevel(chain) # {}
<1>. DEFINE steps == {s.step : s \in chain}
<1>1. steps \in SUBSET Nat /\ steps # {}
  BY DEF Slots
<1>2. PICK m \in steps : \A n \in steps : m <= n
  BY <1>1, LeastNatural
<1>. QED BY <1>2 DEF FirstLevel

=============================================================================
