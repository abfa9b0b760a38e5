--------------------------- MODULE CommsInboxProofs -------------------------
(***************************************************************************)
(* What the inbox of a channel keeps, for every number of customers,       *)
(* messages, instances, deaths and worlds.                                 *)
(***************************************************************************)
EXTENDS CommsInbox, FiniteSetTheorems, TLAPS

----------------------------------------------------------------------------
(* The inductive invariants, each on top of the ones before it.            *)

\* Where a webhook holds a lead it has created: still to be claimed, or lost.
Undecided == {"claim", "winner", "discard"}

Unmerged == {l \in KnownLeads : MergedInto[l] = NoLead}

\* What an invitation or an agent comes to, and what a contact can hold.
Reached == {Visible(l) : l \in Chosen}
Linkable == history.won \union Chosen \union Reached

\* A contact holds what was won, invited or chosen for it; a created lead that
\* it holds was created for this customer and is there.
ContactInv ==
  \A c \in Customers :
    /\ contact[c].lead \in Linkable \union {NoLead}
    /\ contact[c].lead \in NewLeads => owner[contact[c].lead] = c

\* A lead is won when the contact is free, and the contact is never free again.
WonInv ==
  /\ history.won \subseteq NewLeads \union Unmerged
  /\ \A l \in history.won \intersect NewLeads :
       owner[l] # NoOne => contact[owner[l]].lead # NoLead
  /\ \A k, l \in history.won \intersect NewLeads :
       owner[k] = owner[l] /\ owner[k] # NoOne => k = l

\* No merge goes further than a webhook follows it.
ShortMerges == \A l \in KnownLeads : Hop(End(l)) = End(l)

\* What may stand in a timeline.
Filable == {NoLead} \union history.won \union Reached

\* What a call holds: a lead it created, which is its own and won once it is
\* claimed, or lost to another lead of the contact; what it read; what it
\* found.  Where no phone is told, nobody but its maker finds a created lead.
Rightful(r) ==
  /\ r.new # NoLead =>
       /\ r.pc \in {"claim", "winner", "discard", "conv", "store", "reply"}
       /\ owner[r.new] = From[r.of]
       /\ r.pc \notin Undecided => r.new \in history.won
       /\ r.pc \in {"claim", "winner"} => r.lead = r.new
       /\ world.phones = {} /\ r.pc \in Undecided => r.new \notin history.won
  /\ r.pc = "winner" => contact[From[r.of]].lead # NoLead
  /\ r.pc = "discard" =>
       /\ r.new # NoLead
       /\ contact[From[r.of]].lead \notin {NoLead, r.new}
  /\ r.pc \in {"discard", "follow"} => r.known # NoLead
  /\ r.pc \in WebhookAt => r.known \in Linkable \union {NoLead}
  /\ r.pc \in {"claim", "winner"} =>
       /\ r.lead \in NewLeads \union Unmerged
       /\ r.lead \in NewLeads => owner[r.lead] \in {From[r.of], NoOne}
       /\ world.phones = {} /\ r.lead \in NewLeads => r.new = r.lead

\* A created lead is in the hands of one call.
HandsApart ==
  \A i, j \in Calls : calls[i].new = calls[j].new /\ calls[i].new # NoLead => i = j

LinkInv ==
  /\ ContactInv /\ WonInv /\ HandsApart
  /\ \A i \in Calls : Rightful(calls[i])

\* A message lies in a conversation; the ids of conversations are their own.
ConvInv ==
  /\ \A m \in stored : conv[From[m]].id # 0
  /\ \A c \in Customers : conv[c].id = 0 => conv[c] = NoConv
  /\ \A c, d \in Customers : conv[c].id = conv[d].id /\ conv[c].id # 0 => c = d
  /\ \A i \in Calls : calls[i].pc \in {"store", "relink"} \union (SendAt \ {"start"}) =>
       calls[i].conv # 0
  /\ \A i \in Calls : calls[i].pc = "store" => calls[i].of \notin world.opened

\* The counter counts stored messages.
UnreadInv ==
  \A c \in Customers : conv[c].unread <= Cardinality({m \in stored : From[m] = c})

\* A message that goes out is in the hands of one call, and the provider's id
\* of it is known only once its outcome is written.
SendInv ==
  /\ \A i, j \in Calls :
       /\ calls[i].pc \in SendAt /\ calls[j].pc \in SendAt
       /\ calls[i].of = calls[j].of
       => i = j
  /\ \A o \in Outbound : out[o].known => out[o].status \notin {"none", "queued"}
  /\ \A i \in Calls :
       /\ calls[i].pc \in {"start", "compose"} => out[calls[i].of].status = "none"
       /\ calls[i].pc \in {"dispatch", "outcome"} =>
            out[calls[i].of].status \in {"none", "queued"}
       /\ calls[i].pc = "outcome" => calls[i].result # "none"

\* The steps in which a webhook settles the lead of its event.
Settles(i) ==
  \/ ResolveLead(i) \/ MatchLead(i) \/ CreateLead(i) \/ Claim(i)
  \/ ReadWinner(i) \/ Discard(i) \/ FollowWinner(i)

----------------------------------------------------------------------------
(* What the constants and the records are.                                 *)

LEMMA WorldFacts ==
  ASSUME world \in Worlds
  PROVE  /\ world.events \subseteq Inbound
         /\ world.invited \in [Inbound -> KnownLeads \union {NoLead}]
         /\ world.match \in [Customers -> KnownLeads \union {NoLead}]
         /\ world.sends \subseteq Outbound /\ world.links \subseteq KnownLeads
         /\ \A c \in Customers : world.match[c] # NoLead => MergedInto[world.match[c]] = NoLead
  BY InboxAssumption

LEMMA ConstantFacts ==
  /\ From \in [Inbound -> Customers] /\ At \in [Inbound -> Nat \ {0}]
  /\ To \in [Outbound -> Customers] /\ StartFor \in [Outbound -> KnownLeads]
  /\ MergedInto \in [KnownLeads -> KnownLeads \union {NoLead}]
  /\ NoLead \notin Leads /\ KnownLeads \intersect NewLeads = {}
  /\ NoOne \notin Customers /\ MaxDeaths \in Nat
  BY InboxAssumption DEF Leads

LEMMA InboundFinite == IsFiniteSet(Inbound) /\ Cardinality(Inbound) \in Nat
  BY InboxAssumption, FS_CardinalityType

\* The parts of TypeOK that an action changes or leaves alone together.
LeadsOK ==
  /\ contact \in [Customers -> Contact]
  /\ owner \in [NewLeads -> Customers \union {NoOne}]
  /\ history \in [won : SUBSET Leads, left : SUBSET NewLeads, deaths : 0 .. MaxDeaths]
  /\ world \in Worlds

ConvOK ==
  /\ conv \in [Customers -> Conversation]
  /\ stored \subseteq world.events \ world.opened
  /\ timeline \in [Inbound -> Seq(Leads \union {NoLead})]
  /\ made \in Nat

OutOK == out \in [Outbound -> Sent] /\ due \subseteq Inbound

CallsOK ==
  /\ calls \in [Calls -> Call]
  /\ \A i \in Calls :
       /\ calls[i].pc \in WebhookAt => calls[i].of \in world.events
       /\ calls[i].pc \in SendAt => calls[i].of \in world.sends

LEMMA TypeParts == TypeOK <=> LeadsOK /\ ConvOK /\ OutOK /\ CallsOK
  BY DEF TypeOK, LeadsOK, ConvOK, OutOK, CallsOK

LEMMA IdleType == made \in Nat => Idle \in Call
  BY DEF Idle, Call

\* The event a webhook handles, and the message of an agent's request.
LEMMA WebhookOf ==
  ASSUME LeadsOK, CallsOK, NEW i \in Calls, calls[i].pc \in WebhookAt
  PROVE  /\ calls[i] \in Call
         /\ calls[i].of \in world.events /\ calls[i].of \in Inbound
         /\ From[calls[i].of] \in Customers
  BY WorldFacts, ConstantFacts DEF LeadsOK, CallsOK

LEMMA SendOf ==
  ASSUME LeadsOK, CallsOK, NEW i \in Calls, calls[i].pc \in SendAt
  PROVE  /\ calls[i] \in Call
         /\ calls[i].of \in world.sends /\ calls[i].of \in Outbound
         /\ To[calls[i].of] \in Customers
         /\ StartFor[calls[i].of] \in KnownLeads
  BY WorldFacts, ConstantFacts DEF LeadsOK, CallsOK

\* One call goes on; conversations may have been made.
LEMMA CallsStep ==
  ASSUME CallsOK, world' = world, made \in Nat, made' \in {made, made + 1},
         NEW i \in Calls, NEW r \in Call',
         r.pc \in WebhookAt => r.of \in world.events,
         r.pc \in SendAt => r.of \in world.sends,
         calls' = [calls EXCEPT ![i] = r]
  PROVE  CallsOK'
<1>1. \A j \in Calls : calls[j] \in Call'
  <2>1. \A n \in 0 .. made : n \in 0 .. made'
    OBVIOUS
  <2> QED BY <2>1 DEF CallsOK, Call
<1>2. calls' \in [Calls -> Call']
  BY <1>1 DEF CallsOK
<1> QED BY <1>2 DEF CallsOK

LEMMA CallsStay ==
  ASSUME CallsOK, calls' = calls, world' = world, made' = made
  PROVE  CallsOK'
  BY DEF CallsOK, Call

LEMMA AnswerType ==
  ASSUME CallsOK, world' = world, made \in Nat, made' \in {made, made + 1},
         NEW i \in Calls, Answer(i)
  PROVE  CallsOK'
<1>1. Idle \in Call'
  BY DEF Idle, Call
<1>2. Idle.pc \notin WebhookAt \union SendAt
  BY DEF Idle, WebhookAt, SendAt
<1> QED BY <1>1, <1>2, CallsStep DEF Answer

LEMMA GotoType ==
  ASSUME CallsOK, UNCHANGED <<world, made>>, made \in Nat,
         NEW i \in Calls, NEW pc \in WebhookAt \union SendAt, Goto(i, pc),
         pc \in WebhookAt => calls[i].pc \in WebhookAt,
         pc \in SendAt => calls[i].pc \in SendAt
  PROVE  CallsOK'
<1> DEFINE r == [calls[i] EXCEPT !.pc = pc]
<1>1. calls[i] \in Call
  BY DEF CallsOK
<1>2. r \in Call' /\ r.pc = pc /\ r.of = calls[i].of
  BY <1>1 DEF Call
<1>3. calls' = [calls EXCEPT ![i] = r]
  BY DEF Goto
<1> QED BY <1>2, <1>3, CallsStep DEF CallsOK

\* leadInTenant comes to a lead that is there, or to none.
LEMMA HopType ==
  ASSUME NEW l \in Leads \union {NoLead}
  PROVE  /\ Hop(l) \in Leads \union {NoLead}
         /\ l \in KnownLeads => Hop(l) \in KnownLeads
         /\ l \notin KnownLeads => Hop(l) = l
  BY ConstantFacts DEF Hop, Leads

LEMMA EndType ==
  ASSUME NEW l \in Leads \union {NoLead}
  PROVE  /\ End(l) \in Leads \union {NoLead}
         /\ l \in KnownLeads => End(l) \in KnownLeads
         /\ l \notin KnownLeads => End(l) = l /\ Hop(l) = l
<1>1. CASE l \in KnownLeads
  <2> DEFINE a == Hop(l)  b == Hop(a)  d == Hop(b)
  <2>1. a \in KnownLeads
    BY <1>1, HopType
  <2>2. b \in KnownLeads
    BY <2>1, HopType DEF Leads
  <2>3. d \in KnownLeads
    BY <2>2, HopType DEF Leads
  <2>4. Hop(d) \in KnownLeads
    BY <2>3, HopType DEF Leads
  <2> QED BY <1>1, <2>4 DEF End, Leads
<1>2. CASE l \notin KnownLeads
  BY <1>2, HopType DEF End
<1> QED BY <1>1, <1>2

LEMMA VisibleType ==
  ASSUME NEW l \in Leads \union {NoLead}
  PROVE  /\ Visible(l) \in Leads \union {NoLead}
         /\ Visible(l) # NoLead => Exists(Visible(l))
         /\ l \in KnownLeads \union {NoLead} => Visible(l) \in KnownLeads \union {NoLead}
         /\ l \notin KnownLeads => Visible(l) = IF Exists(l) THEN l ELSE NoLead
<1>1. CASE l \in KnownLeads
  BY <1>1, EndType DEF Visible, Leads
<1>2. CASE l \notin KnownLeads
  BY <1>2, EndType, ConstantFacts DEF Visible, Exists, Leads
<1> QED BY <1>1, <1>2

----------------------------------------------------------------------------
(* Types are kept.                                                         *)

LEMMA ContactStep ==
  ASSUME LeadsOK, NEW c \in Customers, NEW row \in Contact,
         contact' = [contact EXCEPT ![c] = row],
         UNCHANGED <<owner, history, world>>
  PROVE  LeadsOK'
  BY DEF LeadsOK, Contact

LEMMA ConvStep ==
  ASSUME ConvOK, NEW c \in Customers, NEW row \in Conversation',
         conv' = [conv EXCEPT ![c] = row], made' \in {made, made + 1},
         UNCHANGED <<stored, timeline, world>>
  PROVE  ConvOK'
<1>1. \A n \in 0 .. made : n \in 0 .. made'
  BY DEF ConvOK
<1>2. \A d \in Customers : conv[d] \in Conversation'
  BY <1>1 DEF ConvOK, Conversation
<1> QED BY <1>2 DEF ConvOK

LEMMA NewRow ==
  ASSUME made \in Nat, made' = made + 1, NEW l \in Leads \union {NoLead}
  PROVE  [NoConv EXCEPT !.id = made + 1, !.lead = l] \in Conversation'
<1>1. NoConv \in Conversation'
  BY InboundFinite DEF NoConv, Conversation
<1>2. [NoConv EXCEPT !.id = made + 1] \in Conversation'
  BY <1>1 DEF Conversation
<1> QED BY <1>2 DEF Conversation

LEMMA CountedRow ==
  ASSUME NEW row \in Conversation, made' = made,
         NEW n \in 0 .. Cardinality(Inbound), NEW t \in {0} \union {At[m] : m \in Inbound}
  PROVE  [row EXCEPT !.unread = n, !.at = t] \in Conversation'
<1>1. [row EXCEPT !.unread = n] \in Conversation
  BY DEF Conversation
<1>2. [[row EXCEPT !.unread = n] EXCEPT !.at = t] \in Conversation
  BY <1>1 DEF Conversation
<1> QED BY <1>2 DEF Conversation

LEMMA OutStep ==
  ASSUME OutOK, NEW o \in Outbound, NEW row \in Sent,
         out' = [out EXCEPT ![o] = row], due' \subseteq due
  PROVE  OutOK'
  BY DEF OutOK

LEMMA LeadsStay ==
  ASSUME LeadsOK, UNCHANGED <<contact, owner, history, world>>
  PROVE  LeadsOK'
  BY DEF LeadsOK

LEMMA ConvStay ==
  ASSUME ConvOK, UNCHANGED <<conv, stored, timeline, made, world>>
  PROVE  ConvOK'
  BY DEF ConvOK, Conversation

LEMMA OutStay ==
  ASSUME OutOK, UNCHANGED out, due' \subseteq due
  PROVE  OutOK'
  BY DEF OutOK

LEMMA InitType == Init => TypeOK
<1> SUFFICES ASSUME Init PROVE TypeOK
  OBVIOUS
<1>1. LeadsOK
  BY ConstantFacts DEF Init, LeadsOK, NoContact, Contact
<1>2. ConvOK
  BY InboundFinite DEF Init, ConvOK, NoConv, Conversation
<1>3. OutOK
  BY WorldFacts DEF Init, OutOK, Sent, Statuses
<1>4. CallsOK
  BY IdleType DEF Init, CallsOK, Idle, WebhookAt, SendAt
<1> QED BY <1>1, <1>2, <1>3, <1>4, TypeParts

Types == LeadsOK /\ ConvOK /\ OutOK /\ CallsOK

\* What a match finds.
LEMMA MatchType ==
  ASSUME world \in Worlds, NEW c \in Customers
  PROVE  /\ Matches(c) \subseteq Leads
         /\ Matches(c) \subseteq NewLeads \union Unmerged
         /\ \A l \in Matches(c) : l \in NewLeads => owner[l] = c /\ c \in world.phones
<1>1. world.match[c] \in KnownLeads \union {NoLead}
      /\ (world.match[c] # NoLead => MergedInto[world.match[c]] = NoLead)
  BY WorldFacts
<1> QED BY <1>1, ConstantFacts DEF Matches, Unmerged, Leads

\* Where settling the lead leaves a call.
LEMMA SettledCall ==
  ASSUME Types, NEW i \in Calls, Settles(i)
  PROVE  \/ Answer(i) /\ Claim(i) /\ ~Exists(calls[i].lead)
         \/ \E r : /\ calls' = [calls EXCEPT ![i] = r] /\ r \in Call
                   /\ r.pc \in {"match", "create", "claim", "winner", "discard", "follow", "conv"}
                   /\ r.of = calls[i].of
                   /\ r.new = calls[i].new \/ CreateLead(i) \/ Discard(i)
<1> DEFINE At7 == {"match", "create", "claim", "winner", "discard", "follow", "conv"}
           m == calls[i].of  c == From[m]
           Ends(r) == /\ calls' = [calls EXCEPT ![i] = r] /\ r \in Call /\ r.pc \in At7
                      /\ r.of = calls[i].of
                      /\ r.new = calls[i].new \/ CreateLead(i) \/ Discard(i)
<1>0. /\ calls[i] \in Call /\ m \in Inbound /\ m \in world.events /\ c \in Customers
      /\ contact[c] \in Contact /\ world \in Worlds /\ At7 \subseteq WebhookAt
      /\ NoLead \in Leads \union {NoLead}
  BY WebhookOf DEF Types, LeadsOK, Settles, ResolveLead, MatchLead, CreateLead, Claim,
     ReadWinner, Discard, FollowWinner, WebhookAt
<1>1. ASSUME NEW l \in Leads \union {NoLead}, NEW pc \in At7,
             calls' = [calls EXCEPT ![i].lead = l, ![i].pc = pc]
      PROVE  \E r : Ends(r)
  <2>1. PICK r : r = [calls[i] EXCEPT !.lead = l, !.pc = pc]
    OBVIOUS
  <2>2. r \in Call /\ r.pc = pc /\ r.of = m /\ r.new = calls[i].new
    BY <1>0, <2>1 DEF Call
  <2>3. calls' = [calls EXCEPT ![i] = r]
    BY <1>1, <2>1
  <2> QED BY <2>2, <2>3
<1>2. ASSUME NEW pc \in At7, Goto(i, pc)  PROVE \E r : Ends(r)
  <2>1. PICK r : r = [calls[i] EXCEPT !.pc = pc]
    OBVIOUS
  <2>2. r \in Call /\ r.pc = pc /\ r.of = m /\ r.new = calls[i].new
    BY <1>0, <2>1 DEF Call
  <2>3. calls' = [calls EXCEPT ![i] = r]
    BY <1>2, <2>1 DEF Goto
  <2> QED BY <2>2, <2>3
<1> HIDE DEF Ends
<1>3. CASE ResolveLead(i)
  <2>1. world.invited[m] \in Leads \union {NoLead} /\ calls[i].known \in Leads \union {NoLead}
    BY <1>0, WorldFacts DEF Leads, Call
  <2>2. PICK link \in Leads \union {NoLead} : link = Visible(world.invited[m])
    BY <2>1, VisibleType
  <2>3. PICK old \in Leads \union {NoLead} : old = Visible(calls[i].known)
    BY <2>1, VisibleType
  <2>4. \/ calls' = [calls EXCEPT ![i].lead = link, ![i].pc = "conv"]
        \/ calls' = [calls EXCEPT ![i].lead = old, ![i].pc = "conv"]
        \/ Goto(i, "match")
    BY <1>3, <2>2, <2>3 DEF ResolveLead
  <2> QED BY <1>1, <1>2, <2>4 DEF Ends
<1>4. CASE MatchLead(i)
  <2>1. \/ \E l \in Matches(c) : calls' = [calls EXCEPT ![i].lead = l, ![i].pc = "claim"]
        \/ Goto(i, "create") \/ Goto(i, "conv")
    BY <1>4 DEF MatchLead
  <2>2. Matches(c) \subseteq Leads
    BY <1>0, MatchType
  <2> QED BY <1>1, <1>2, <2>1, <2>2 DEF Ends
<1>5. CASE CreateLead(i)
  <2>1. PICK l \in NewLeads : calls' = [calls EXCEPT ![i].lead = l, ![i].new = l, ![i].pc = "claim"]
    BY <1>5 DEF CreateLead, Fresh
  <2>2. PICK r : r = [calls[i] EXCEPT !.lead = l, !.new = l, !.pc = "claim"]
    OBVIOUS
  <2>3. r \in Call /\ r.pc = "claim" /\ r.of = m
    <3>1. PICK q : q = [calls[i] EXCEPT !.lead = l, !.new = l]
      OBVIOUS
    <3>2. q \in Call /\ r = [q EXCEPT !.pc = "claim"] /\ q.of = m
      BY <1>0, <2>2, <3>1 DEF Call, Leads
    <3> QED BY <1>0, <3>2 DEF Call
  <2>4. calls' = [calls EXCEPT ![i] = r]
    BY <2>1, <2>2
  <2> QED BY <1>5, <2>3, <2>4 DEF Ends
<1>6. CASE Claim(i)
  <2>1. Goto(i, "conv") \/ Goto(i, "winner") \/ (Answer(i) /\ ~Exists(calls[i].lead))
    BY <1>6 DEF Claim, Fail
  <2> QED BY <1>2, <1>6, <2>1 DEF Ends
<1>7. CASE ReadWinner(i)
  <2>1. contact[c].lead \in Leads \union {NoLead}
    BY <1>0 DEF Contact
  <2>2. PICK w \in Leads \union {NoLead} : w = contact[c].lead
    BY <2>1
  <2>3. PICK pc \in {"discard", "follow", "conv"} :
          calls' = [calls EXCEPT ![i].known = w, ![i].pc = pc]
    BY <1>7, <2>2 DEF ReadWinner
  <2>4. PICK r : r = [calls[i] EXCEPT !.known = w, !.pc = pc]
    OBVIOUS
  <2>5. r \in Call /\ r.pc = pc /\ r.of = m /\ r.new = calls[i].new
    BY <1>0, <2>4 DEF Call
  <2>6. calls' = [calls EXCEPT ![i] = r]
    BY <2>3, <2>4
  <2> QED BY <2>5, <2>6 DEF Ends
<1>8. CASE Discard(i)
  <2>1. PICK r : r = [calls[i] EXCEPT !.pc = "follow", !.lead = NoLead, !.new = NoLead]
    OBVIOUS
  <2>2. r \in Call /\ r.pc = "follow" /\ r.of = m
    <3>1. PICK q : q = [calls[i] EXCEPT !.pc = "follow", !.lead = NoLead]
      OBVIOUS
    <3>2. q \in Call /\ r = [q EXCEPT !.new = NoLead] /\ q.of = m /\ q.pc = "follow"
      BY <1>0, <2>1, <3>1 DEF Call
    <3> QED BY <3>2 DEF Call
  <2>3. calls' = [calls EXCEPT ![i] = r]
    BY <1>8, <2>1 DEF Discard
  <2> QED BY <1>8, <2>2, <2>3 DEF Ends
<1>9. CASE FollowWinner(i)
  <2>1. calls[i].known \in Leads \union {NoLead} /\ calls[i].lead \in Leads \union {NoLead}
    BY <1>0 DEF Call
  <2>2. PICK l \in Leads \union {NoLead} :
          l = IF Visible(calls[i].known) # NoLead THEN Visible(calls[i].known) ELSE calls[i].lead
    BY <2>1, VisibleType
  <2>3. calls' = [calls EXCEPT ![i].lead = l, ![i].pc = "conv"]
    <3>1. calls' = [calls EXCEPT ![i] = [calls[i] EXCEPT !.pc = "conv", !.lead = l]]
      BY <1>9, <2>2 DEF FollowWinner
    <3>2. [calls[i] EXCEPT !.pc = "conv", !.lead = l] = [calls[i] EXCEPT !.lead = l, !.pc = "conv"]
      BY <1>0 DEF Call
    <3> QED BY <3>1, <3>2
  <2> QED BY <1>1, <2>3 DEF Ends
<1> QED BY <1>3, <1>4, <1>5, <1>6, <1>7, <1>8, <1>9 DEF Settles, Ends

\* The lead is settled without a look at conversations and messages.
LEMMA SettledRest ==
  ASSUME NEW i \in Calls, Settles(i), ~Discard(i)
  PROVE  UNCHANGED <<conv, stored, timeline, out, due, made, world>>
  BY DEF Settles, ResolveLead, MatchLead, CreateLead, Claim, Fail, ReadWinner, FollowWinner, tables

LEMMA WebhookType ==
  ASSUME Types, UnreadInv, ConvInv, NEW i \in Calls,
         \/ UpsertContact(i) \/ Unblock(i) \/ Settles(i)
         \/ UpsertConversation(i) \/ Store(i) \/ Reply(i)
  PROVE  Types'
<1> DEFINE m == calls[i].of  c == From[m]
<1>0. /\ calls[i] \in Call /\ m \in world.events /\ m \in Inbound /\ c \in Customers
      /\ calls[i].pc \in WebhookAt
  BY WebhookOf DEF Types, UpsertContact, Unblock, Settles, ResolveLead, MatchLead, CreateLead,
     Claim, ReadWinner, Discard, FollowWinner, UpsertConversation, Store, Reply, WebhookAt
<1>00. /\ LeadsOK /\ ConvOK /\ OutOK /\ CallsOK /\ contact[c] \in Contact
       /\ conv[c] \in Conversation /\ made \in Nat /\ world \in Worlds
  BY <1>0 DEF Types, LeadsOK, ConvOK
<1>1. CASE UpsertContact(i)
  <2> DEFINE row == [contact[c] EXCEPT !.there = TRUE]
             r(pc) == [calls[i] EXCEPT !.known = row.lead, !.pc = pc]
  <2>1. row \in Contact
    BY <1>00 DEF Contact
  <2>2. LeadsOK'
    BY <1>0, <1>00, <1>1, <2>1, ContactStep DEF UpsertContact
  <2>3. ConvOK' /\ OutOK'
    BY <1>00, <1>1, ConvStay, OutStay DEF UpsertContact, Acknowledge
  <2>4. CallsOK'
    <3>1. CASE Acknowledge(i)
      BY <1>00, <1>1, <3>1, AnswerType DEF UpsertContact, Acknowledge
    <3>2. CASE \E pc \in {"unblock", "resolve"} : calls' = [calls EXCEPT ![i] = r(pc)]
      <4>1. PICK pc \in {"unblock", "resolve"} : calls' = [calls EXCEPT ![i] = r(pc)]
        BY <3>2
      <4>2. row.lead \in Leads \union {NoLead}
        BY <2>1 DEF Contact
      <4>3. r(pc) \in Call' /\ r(pc).pc = pc /\ r(pc).of = m
        BY <1>0, <1>1, <4>2 DEF Call, WebhookAt, UpsertContact
      <4> HIDE DEF r, row
      <4> QED
        BY <1>0, <1>00, <1>1, <4>1, <4>3, CallsStep DEF UpsertContact, SendAt
    <3> QED BY <1>1, <3>1, <3>2 DEF UpsertContact
  <2> QED BY <2>2, <2>3, <2>4 DEF Types
<1>2. CASE Unblock(i)
  <2>1. [contact[c] EXCEPT !.blocked = FALSE] \in Contact
    BY <1>00 DEF Contact
  <2>2. LeadsOK'
    BY <1>0, <1>00, <1>2, <2>1, ContactStep DEF Unblock
  <2>3. ConvOK' /\ OutOK'
    BY <1>00, <1>2, ConvStay, OutStay DEF Unblock
  <2>4. CallsOK'
    BY <1>0, <1>00, <1>2, GotoType DEF Unblock, WebhookAt, SendAt
  <2> QED BY <2>2, <2>3, <2>4 DEF Types
<1>3. CASE Settles(i)
  <2>1. CallsOK'
    <3>1. CASE Answer(i) /\ Claim(i)
      BY <1>00, <3>1, AnswerType DEF Claim, Fail
    <3>2. ASSUME NEW r, calls' = [calls EXCEPT ![i] = r], r \in Call, r.of = m,
                 r.pc \in {"match", "create", "claim", "winner", "discard", "follow", "conv"}
          PROVE  CallsOK'
      <4>1. r.pc \in WebhookAt /\ r.pc \notin SendAt
        BY <3>2 DEF WebhookAt, SendAt
      <4>2. UNCHANGED <<made, world>>
        BY <1>3, SettledRest DEF Discard
      <4>3. r \in Call'
        BY <3>2, <4>2 DEF Call
      <4> QED BY <1>0, <1>00, <3>2, <4>1, <4>2, <4>3, CallsStep
    <3> QED BY <1>3, <3>1, <3>2, SettledCall
  <2>2. CASE ~Discard(i)
    <3>1. ConvOK' /\ OutOK' /\ UNCHANGED world
      BY <1>00, <1>3, <2>2, SettledRest, ConvStay, OutStay
    <3>2. CASE ResolveLead(i)
      <4>1. world.invited[m] \in Leads \union {NoLead}
        BY <1>0, <1>00, WorldFacts DEF Leads
      <4>2. PICK link \in Leads \union {NoLead} : link = Visible(world.invited[m])
        BY <4>1, VisibleType
      <4>3. [contact[c] EXCEPT !.lead = link] \in Contact
        BY <1>00 DEF Contact
      <4>4. \/ contact' = contact
            \/ contact' = [contact EXCEPT ![c] = [contact[c] EXCEPT !.lead = link]]
        BY <3>2, <4>2 DEF ResolveLead
      <4>5. LeadsOK'
        BY <1>0, <1>00, <3>2, <4>3, <4>4, ContactStep, LeadsStay DEF ResolveLead
      <4> QED BY <2>1, <3>1, <4>5 DEF Types
    <3>3. CASE MatchLead(i) \/ ReadWinner(i) \/ FollowWinner(i)
      BY <1>00, <2>1, <3>1, <3>3, LeadsStay DEF MatchLead, ReadWinner, FollowWinner, tables, Types
    <3>4. CASE CreateLead(i)
      <4>1. PICK l \in NewLeads : owner' = [owner EXCEPT ![l] = c]
        BY <3>4 DEF CreateLead, Fresh
      <4>2. LeadsOK'
        BY <1>0, <1>00, <3>4, <4>1 DEF LeadsOK, CreateLead
      <4> QED BY <2>1, <3>1, <4>2 DEF Types
    <3>5. CASE Claim(i)
      <4>1. CASE UNCHANGED <<contact, owner, history>>
        BY <1>00, <2>1, <3>1, <4>1, LeadsStay DEF Types
      <4>2. CASE ~UNCHANGED <<contact, owner, history>>
        <5>1. /\ Exists(calls[i].lead) /\ contact' = [contact EXCEPT ![c].lead = calls[i].lead]
              /\ history' = [history EXCEPT !.won = @ \union {calls[i].lead}]
              /\ UNCHANGED <<owner, world>>
          BY <3>5, <4>2 DEF Claim, Fail, tables
        <5>2. calls[i].lead \in Leads
          BY <5>1 DEF Exists, Leads
        <5>3. [contact[c] EXCEPT !.lead = calls[i].lead] \in Contact
          BY <1>00, <5>2 DEF Contact
        <5>4. contact' \in [Customers -> Contact]
          BY <1>0, <1>00, <5>1, <5>3 DEF LeadsOK
        <5>5. history' \in [won : SUBSET Leads, left : SUBSET NewLeads, deaths : 0 .. MaxDeaths]
          BY <1>00, <5>1, <5>2 DEF LeadsOK
        <5>6. LeadsOK'
          BY <1>00, <5>1, <5>4, <5>5 DEF LeadsOK
        <5> QED BY <2>1, <3>1, <5>6 DEF Types
      <4> QED BY <4>1, <4>2
    <3> QED BY <1>3, <2>2, <3>2, <3>3, <3>4, <3>5 DEF Settles
  <2>3. CASE Discard(i)
    <3> DEFINE Unless(l) == IF l = calls[i].new THEN NoLead ELSE l
    <3>1. \A l \in Leads \union {NoLead} : Unless(l) \in Leads \union {NoLead}
      OBVIOUS
    <3>2. /\ contact' = [d \in Customers |-> [contact[d] EXCEPT !.lead = Unless(contact[d].lead)]]
          /\ conv' = [d \in Customers |-> [conv[d] EXCEPT !.lead = Unless(conv[d].lead)]]
          /\ timeline' = [n \in Inbound |-> [k \in DOMAIN timeline[n] |-> Unless(timeline[n][k])]]
          /\ owner' = [owner EXCEPT ![calls[i].new] = NoOne]
          /\ UNCHANGED <<stored, out, due, made, history, world>>
      BY <2>3 DEF Discard
    <3> HIDE DEF Unless
    <3>3. LeadsOK'
      <4>1. \A d \in Customers : [contact[d] EXCEPT !.lead = Unless(contact[d].lead)] \in Contact
        BY <1>00, <3>1 DEF LeadsOK, Contact
      <4> QED BY <1>00, <3>2, <4>1 DEF LeadsOK
    <3>4. ConvOK'
      <4>1. \A d \in Customers : [conv[d] EXCEPT !.lead = Unless(conv[d].lead)] \in Conversation
        BY <1>00, <3>1 DEF ConvOK, Conversation
      <4>2. ASSUME NEW n \in Inbound
            PROVE  timeline'[n] \in Seq(Leads \union {NoLead})
        <5>1. timeline[n] \in Seq(Leads \union {NoLead})
          BY <1>00 DEF ConvOK
        <5>2. PICK len \in Nat : DOMAIN timeline[n] = 1 .. len
          BY <5>1
        <5>3. timeline'[n] = [k \in 1 .. len |-> Unless(timeline[n][k])]
          BY <3>2, <5>2
        <5>4. \A k \in 1 .. len : Unless(timeline[n][k]) \in Leads \union {NoLead}
          BY <3>1, <5>1, <5>2
        <5> QED BY <5>3, <5>4
      <4>3. Conversation' = Conversation
        BY <3>2 DEF Conversation
      <4>4. timeline' \in [Inbound -> Seq(Leads \union {NoLead})]
        BY <3>2, <4>2
      <4> QED BY <1>00, <3>2, <4>1, <4>3, <4>4 DEF ConvOK
    <3>5. OutOK'
      BY <1>00, <3>2, OutStay
    <3> QED BY <2>1, <3>3, <3>4, <3>5 DEF Types
  <2> QED BY <2>2, <2>3
<1>6. CASE UpsertConversation(i)
  <2> DEFINE new == [NoConv EXCEPT !.id = made + 1, !.lead = calls[i].lead]
             moved == [conv[c] EXCEPT !.lead = calls[i].lead]
  <2>1. calls[i].lead \in Leads \union {NoLead}
    BY <1>0 DEF Call
  <2>2. LeadsOK' /\ OutOK' /\ UNCHANGED <<world, stored, timeline>>
    BY <1>00, <1>6, LeadsStay, OutStay DEF UpsertConversation, Acknowledge
  <2>3. ConvOK' /\ made' \in {made, made + 1}
    <3>1. CASE conv[c].id = 0
      <4>1. made' = made + 1 /\ conv' = [conv EXCEPT ![c] = new]
        BY <1>6, <3>1 DEF UpsertConversation
      <4>2. new \in Conversation'
        BY <1>00, <2>1, <4>1, NewRow
      <4> HIDE DEF new
      <4> QED BY <1>0, <1>00, <2>2, <4>1, <4>2, ConvStep
    <3>2. CASE conv[c].id # 0
      <4>1. made' = made /\ (conv' = conv \/ conv' = [conv EXCEPT ![c] = moved])
        BY <1>6, <3>2 DEF UpsertConversation
      <4>2. moved \in Conversation'
        BY <1>00, <2>1, <4>1 DEF Conversation
      <4> HIDE DEF moved
      <4> QED BY <1>0, <1>00, <2>2, <4>1, <4>2, ConvStep, ConvStay
    <3> QED BY <3>1, <3>2
  <2>4. CallsOK'
    <3>1. CASE Acknowledge(i)
      BY <1>00, <2>2, <2>3, <3>1, AnswerType DEF Acknowledge
    <3> DEFINE r == [calls[i] EXCEPT !.pc = "store", !.conv = conv'[c].id]
    <3>2. CASE calls' = [calls EXCEPT ![i] = r]
      <4>1. conv'[c].id \in 0 .. made'
        BY <1>0, <2>3 DEF ConvOK, Conversation
      <4>2. r \in Call' /\ r.pc = "store" /\ r.of = m
        <5>1. calls[i] \in Call'
          BY <1>0, <1>00, <2>3 DEF Call
        <5> QED BY <4>1, <5>1 DEF Call, WebhookAt
      <4> HIDE DEF r
      <4> QED BY <1>0, <1>00, <2>2, <2>3, <3>2, <4>2, CallsStep DEF SendAt
    <3> QED BY <1>6, <3>1, <3>2 DEF UpsertConversation
  <2> QED BY <2>2, <2>3, <2>4 DEF Types
<1>7. CASE Store(i)
  <2>1. LeadsOK' /\ OutOK' /\ UNCHANGED <<world, made>>
    BY <1>00, <1>7, LeadsStay, OutStay DEF Store, Acknowledge, Fail, tables
  <2>2. CallsOK'
    BY <1>0, <1>00, <1>7, <2>1, AnswerType, GotoType DEF Store, Acknowledge, Fail, WebhookAt, SendAt
  <2>3. CASE UNCHANGED <<conv, stored, timeline>>
    BY <1>00, <2>1, <2>2, <2>3, ConvStay DEF Types
  <2>4. CASE /\ m \notin stored /\ stored' = stored \union {m}
             /\ calls[i].lead = NoLead \/ Exists(calls[i].lead)
             /\ conv' = [conv EXCEPT ![c] = [conv[c] EXCEPT !.unread = @ + 1, !.at = Later(@, At[m])]]
             /\ timeline' = IF calls[i].lead = NoLead THEN timeline
                            ELSE [timeline EXCEPT ![m] = Append(@, calls[i].lead)]
             /\ calls[i].of \notin world.opened
    <3> DEFINE of(d) == {n \in stored : From[n] = d}
    <3>1. conv[c].unread \in Nat /\ conv[c].unread + 1 <= Cardinality(Inbound)
      <4>1. conv[c].unread <= Cardinality(of(c)) /\ conv[c].unread \in Nat
        BY <1>0, <1>00, InboundFinite DEF UnreadInv, Conversation
      <4>2. of(c) \subseteq Inbound /\ of(c) \union {m} \subseteq Inbound /\ m \notin of(c)
        BY <1>0, <1>00, <2>4, WorldFacts DEF ConvOK
      <4>3. IsFiniteSet(of(c)) /\ IsFiniteSet(of(c) \union {m})
        BY <4>2, InboundFinite, FS_Subset
      <4>4. Cardinality(of(c) \union {m}) = Cardinality(of(c)) + 1
        BY <4>2, <4>3, FS_AddElement
      <4>5. Cardinality(of(c) \union {m}) <= Cardinality(Inbound)
        BY <4>2, InboundFinite, FS_Subset
      <4>6. Cardinality(of(c)) \in Nat
        BY <4>3, FS_CardinalityType
      <4> QED BY <4>1, <4>4, <4>5, <4>6, InboundFinite
    <3>2. Later(conv[c].at, At[m]) \in {0} \union {At[n] : n \in Inbound}
      BY <1>0, <1>00 DEF Later, Conversation
    <3>3. [conv[c] EXCEPT !.unread = @ + 1, !.at = Later(@, At[m])] \in Conversation'
      <4>1. conv[c].unread + 1 \in 0 .. Cardinality(Inbound)
        BY <3>1, InboundFinite
      <4>2. [conv[c] EXCEPT !.unread = conv[c].unread + 1, !.at = Later(conv[c].at, At[m])]
              \in Conversation'
        BY <1>00, <2>1, <3>2, <4>1, CountedRow
      <4> QED BY <1>00, <4>2 DEF Conversation
    <3>4. conv' \in [Customers -> Conversation']
      <4> DEFINE row == [conv[c] EXCEPT !.unread = @ + 1, !.at = Later(@, At[m])]
      <4>1. conv \in [Customers -> Conversation']
        BY <1>00, <2>1 DEF ConvOK, Conversation
      <4>2. conv' = [conv EXCEPT ![c] = row] /\ row \in Conversation'
        BY <2>4, <3>3
      <4> HIDE DEF row
      <4> QED BY <4>1, <4>2
    <3>5. timeline' \in [Inbound -> Seq(Leads \union {NoLead})]
      <4>1. calls[i].lead \in Leads \union {NoLead}
        BY <1>0 DEF Call
      <4>2. timeline[m] \in Seq(Leads \union {NoLead})
        BY <1>0, <1>00 DEF ConvOK
      <4>3. Append(timeline[m], calls[i].lead) \in Seq(Leads \union {NoLead})
        BY <4>1, <4>2
      <4> QED BY <1>00, <2>4, <4>3 DEF ConvOK
    <3>6. stored' \subseteq world.events \ world.opened
      BY <1>0, <1>00, <2>4 DEF ConvOK
    <3> QED BY <1>00, <2>1, <2>2, <3>4, <3>5, <3>6 DEF Types, ConvOK
  <2>5. m \notin world.opened
    BY <1>7 DEF ConvInv, Store
  <2> QED BY <1>7, <2>3, <2>4, <2>5 DEF Store, Acknowledge, Fail, tables
<1>8. CASE Reply(i)
  <2>1. UNCHANGED <<tables, made, history, world>> /\ due' \subseteq due /\ Answer(i)
    BY <1>8 DEF Reply, Acknowledge
  <2> QED
    BY <1>00, <2>1, LeadsStay, ConvStay, OutStay, AnswerType DEF tables, Types
<1> QED BY <1>1, <1>2, <1>3, <1>6, <1>7, <1>8

LEMMA ArrivalType ==
  ASSUME Types, NEW i \in Calls, Come(i)
  PROVE  Types'
<1>0. /\ LeadsOK /\ ConvOK /\ OutOK /\ CallsOK /\ world \in Worlds /\ made \in Nat
  BY DEF Types, LeadsOK, ConvOK
<1>1. ASSUME NEW m \in world.events, ArriveEvent(i, m)
      PROVE  Types'
  <2> DEFINE r == [Idle EXCEPT !.pc = "contact", !.of = m]
  <2>1. r \in Call' /\ r.pc = "contact" /\ r.of = m
    BY <1>0, <1>1, IdleType, WorldFacts DEF ArriveEvent, Call, WebhookAt
  <2>2. calls' = [calls EXCEPT ![i] = r] /\ UNCHANGED <<tables, due, made, history, world>>
    BY <1>1 DEF ArriveEvent
  <2> HIDE DEF r
  <2> QED
    BY <1>0, <2>1, <2>2, CallsStep, LeadsStay, ConvStay, OutStay DEF SendAt, tables, Types
<1>2. ASSUME NEW o \in world.sends, ArriveSend(i, o)
      PROVE  Types'
  <2> DEFINE r == [Idle EXCEPT !.pc = "compose", !.of = o, !.conv = conv[To[o]].id]
  <2>0. o \in Outbound /\ conv[To[o]].id \in 0 .. made
    BY <1>0, <1>2, WorldFacts, ConstantFacts DEF ConvOK, Conversation
  <2>1. r \in Call' /\ r.pc = "compose" /\ r.of = o
    BY <1>0, <1>2, <2>0, IdleType DEF ArriveSend, Call, SendAt
  <2>2. calls' = [calls EXCEPT ![i] = r] /\ UNCHANGED <<tables, due, made, history, world>>
    BY <1>2 DEF ArriveSend
  <2> HIDE DEF r
  <2> QED
    BY <1>0, <2>1, <2>2, CallsStep, LeadsStay, ConvStay, OutStay DEF WebhookAt, tables, Types
<1>3. ASSUME NEW o \in world.sends, ArriveStart(i, o)
      PROVE  Types'
  <2> DEFINE r == [Idle EXCEPT !.pc = "start", !.of = o]
             row == [contact[To[o]] EXCEPT !.there = TRUE, !.lead = StartFor[o]]
  <2>0. o \in Outbound /\ To[o] \in Customers /\ StartFor[o] \in Leads
    BY <1>0, <1>3, WorldFacts, ConstantFacts DEF Leads
  <2>1. r \in Call' /\ r.pc = "start" /\ r.of = o
    BY <1>0, <1>3, <2>0, IdleType DEF ArriveStart, Call, SendAt
  <2>2. calls' = [calls EXCEPT ![i] = r] /\ UNCHANGED <<conv, stored, timeline, out, owner, due, made, history, world>>
    BY <1>3 DEF ArriveStart
  <2>3. row \in Contact
    <3>1. contact[To[o]] \in Contact
      BY <1>0, <2>0 DEF LeadsOK
    <3>2. [contact[To[o]] EXCEPT !.there = TRUE] \in Contact
      BY <3>1 DEF Contact
    <3> QED BY <2>0, <3>2 DEF Contact
  <2>4. contact' = [contact EXCEPT ![To[o]] = row]
    BY <1>3 DEF ArriveStart
  <2> HIDE DEF r, row
  <2>5. LeadsOK'
    BY <1>0, <2>0, <2>2, <2>3, <2>4, ContactStep
  <2> QED
    BY <1>0, <2>1, <2>2, <2>5, CallsStep, ConvStay, OutStay DEF WebhookAt, Types
<1>4. ASSUME NEW c \in Customers, NEW l \in world.links, ArriveLink(i, c, l)
      PROVE  Types'
  <2> DEFINE r == [Idle EXCEPT !.pc = "relink", !.lead = l, !.conv = conv[c].id]
             row == [contact[c] EXCEPT !.lead = l]
  <2>0. l \in Leads /\ conv[c].id \in 0 .. made
    BY <1>0, <1>4, WorldFacts DEF Leads, ConvOK, Conversation
  <2>1. r \in Call' /\ r.pc = "relink"
    BY <1>0, <1>4, <2>0, IdleType DEF ArriveLink, Call
  <2>2. calls' = [calls EXCEPT ![i] = r] /\ UNCHANGED <<conv, stored, timeline, out, owner, due, made, history, world>>
    BY <1>4 DEF ArriveLink
  <2>3. row \in Contact
    BY <1>0, <2>0 DEF LeadsOK, Contact
  <2>4. contact' = [contact EXCEPT ![c] = row]
    BY <1>4 DEF ArriveLink
  <2> HIDE DEF r, row
  <2>5. LeadsOK'
    BY <1>0, <2>2, <2>3, <2>4, ContactStep
  <2> QED
    BY <1>0, <2>1, <2>2, <2>5, CallsStep, ConvStay, OutStay DEF WebhookAt, SendAt, Types
<1> QED BY <1>1, <1>2, <1>3, <1>4 DEF Come

LEMMA ReadRow ==
  ASSUME NEW row \in Conversation
  PROVE  [row EXCEPT !.unread = 0] \in Conversation
  BY InboundFinite DEF Conversation

LEMMA AgentType ==
  ASSUME Types, NEW i \in Calls,
         \/ StartConversation(i) \/ Compose(i) \/ Drop(i) \/ Dispatch(i)
         \/ WriteOutcome(i) \/ Throw(i) \/ Touch(i) \/ Relink(i)
  PROVE  Types'
<1>0. /\ LeadsOK /\ ConvOK /\ OutOK /\ CallsOK /\ world \in Worlds /\ made \in Nat
      /\ calls[i] \in Call
  BY DEF Types, LeadsOK, ConvOK, CallsOK
<1> DEFINE o == calls[i].of  c == To[o]
<1>00. calls[i].pc \in SendAt =>
         /\ o \in world.sends /\ o \in Outbound /\ c \in Customers
         /\ StartFor[o] \in Leads /\ conv[c] \in Conversation
  BY <1>0, SendOf DEF ConvOK, Leads
<1>1. CASE StartConversation(i)
  <2> DEFINE row == [NoConv EXCEPT !.id = made + 1, !.lead = StartFor[o]]
             new == [calls[i] EXCEPT !.pc = "compose", !.fresh = TRUE, !.conv = made + 1]
             old == [calls[i] EXCEPT !.pc = "compose", !.conv = conv[c].id]
  <2>0. /\ calls[i].pc \in SendAt
        /\ UNCHANGED <<contact, stored, timeline, out, owner, due, history, world>>
    BY <1>1 DEF StartConversation, SendAt
  <2>1. CASE conv[c].id = 0
    <3>1. /\ made' = made + 1 /\ conv' = [conv EXCEPT ![c] = row]
          /\ calls' = [calls EXCEPT ![i] = new]
      BY <1>1, <2>1 DEF StartConversation
    <3>2. row \in Conversation'
      BY <1>0, <1>00, <2>0, <3>1, NewRow
    <3>3. new \in Call' /\ new.pc = "compose" /\ new.of = o
      <4>1. calls[i] \in Call'
        BY <1>0, <3>1 DEF Call
      <4>2. made + 1 \in 0 .. made'
        BY <1>0, <3>1
      <4> QED BY <4>1, <4>2 DEF Call, SendAt
    <3> HIDE DEF row, new
    <3>4. ConvOK'
      BY <1>0, <1>00, <2>0, <3>1, <3>2, ConvStep
    <3>5. CallsOK'
      BY <1>0, <1>00, <2>0, <3>1, <3>3, CallsStep DEF WebhookAt
    <3> QED BY <1>0, <2>0, <3>4, <3>5, LeadsStay, OutStay DEF Types
  <2>2. CASE conv[c].id # 0
    <3>1. UNCHANGED <<conv, made>> /\ calls' = [calls EXCEPT ![i] = old]
      BY <1>1, <2>2 DEF StartConversation
    <3>2. conv[c].id \in 0 .. made
      BY <1>00, <2>0 DEF Conversation
    <3>3. old \in Call' /\ old.pc = "compose" /\ old.of = o
      BY <1>0, <3>1, <3>2 DEF Call, SendAt
    <3> HIDE DEF old
    <3>5. CallsOK'
      BY <1>0, <1>00, <2>0, <3>1, <3>3, CallsStep DEF WebhookAt
    <3> QED BY <1>0, <2>0, <3>1, <3>5, LeadsStay, OutStay, ConvStay DEF Types
  <2> QED BY <2>1, <2>2
<1>2. CASE Compose(i)
  <2>0. /\ calls[i].pc = "compose" /\ calls[i].pc \in SendAt
        /\ UNCHANGED <<contact, conv, stored, timeline, owner, due, made, history, world>>
    BY <1>2 DEF Compose, SendAt
  <2>1. CallsOK'
    BY <1>0, <1>2, <2>0, AnswerType, GotoType DEF Compose, SendAt, WebhookAt
  <2>2. OutOK'
    <3>1. [out[o] EXCEPT !.status = "queued"] \in Sent
      BY <1>0, <1>00, <2>0 DEF OutOK, Sent, Statuses
    <3>2. out' = out \/ out' = [out EXCEPT ![o] = [out[o] EXCEPT !.status = "queued"]]
      BY <1>2 DEF Compose
    <3> QED BY <1>0, <1>00, <2>0, <3>1, <3>2, OutStep, OutStay
  <2> QED BY <1>0, <2>0, <2>1, <2>2, LeadsStay, ConvStay DEF Types
<1>3. CASE Drop(i)
  <2>0. /\ calls[i].pc \in SendAt /\ Answer(i)
        /\ UNCHANGED <<contact, timeline, owner, due, made, history, world>>
    BY <1>3 DEF Drop, SendAt
  <2>1. CallsOK'
    BY <1>0, <2>0, AnswerType
  <2>2. ConvOK'
    <3>1. NoConv \in Conversation
      BY <1>0, InboundFinite DEF NoConv, Conversation
    <3>2. conv' \in [Customers -> Conversation]
      BY <1>0, <1>00, <1>3, <2>0, <3>1 DEF Drop, ConvOK
    <3>3. stored' \subseteq stored
      BY <1>3 DEF Drop
    <3> QED BY <1>0, <2>0, <3>2, <3>3 DEF ConvOK, Conversation
  <2>3. OutOK'
    <3>1. ASSUME NEW p \in Outbound
          PROVE  [out[p] EXCEPT !.status = "none", !.known = FALSE] \in Sent
      <4>1. out[p] \in Sent
        BY <1>0 DEF OutOK
      <4>2. [out[p] EXCEPT !.status = "none"] \in Sent
        BY <4>1 DEF Sent, Statuses
      <4> QED BY <4>2 DEF Sent
    <3>2. \A p \in Outbound : out'[p] \in Sent
      BY <1>0, <1>3, <3>1 DEF Drop, OutOK
    <3>3. out' = [p \in Outbound |-> out'[p]]
      BY <1>3 DEF Drop
    <3> QED BY <1>0, <2>0, <3>2, <3>3 DEF OutOK
  <2> QED BY <1>0, <2>0, <2>1, <2>2, <2>3, LeadsStay DEF Types
<1>4. CASE Dispatch(i)
  <2>0. /\ calls[i].pc \in SendAt
        /\ UNCHANGED <<contact, conv, stored, timeline, owner, due, made, history, world>>
    BY <1>4 DEF Dispatch, SendAt
  <2>1. PICK s \in {"sent", "failed"} :
          /\ calls' = [calls EXCEPT ![i] = [calls[i] EXCEPT !.pc = "outcome", !.result = s]]
          /\ \/ out' = [out EXCEPT ![o] = [out[o] EXCEPT !.reports = {"sent"}]]
             \/ out' = out
    BY <1>4 DEF Dispatch
  <2> DEFINE r == [calls[i] EXCEPT !.pc = "outcome", !.result = s]
  <2>2. r \in Call' /\ r.pc = "outcome" /\ r.of = o
    BY <1>0, <2>0 DEF Call, SendAt
  <2>3. calls' = [calls EXCEPT ![i] = r]
    BY <2>1
  <2> HIDE DEF r
  <2>4. CallsOK'
    BY <1>0, <1>00, <2>0, <2>2, <2>3, CallsStep DEF WebhookAt
  <2>5. [out[o] EXCEPT !.reports = {"sent"}] \in Sent
    BY <1>0, <1>00, <2>0 DEF OutOK, Sent, Reports
  <2>6. OutOK'
    BY <1>0, <1>00, <2>0, <2>1, <2>5, OutStep, OutStay
  <2> QED BY <1>0, <2>0, <2>4, <2>6, LeadsStay, ConvStay DEF Types
<1>5. CASE WriteOutcome(i)
  <2> DEFINE s == calls[i].result
             row == [out[o] EXCEPT !.status = s, !.known = (s = "sent")]
  <2>0. /\ calls[i].pc = "outcome" /\ calls[i].pc \in SendAt /\ Goto(i, "touch")
        /\ UNCHANGED <<contact, conv, stored, timeline, owner, due, made, history, world>>
        /\ out' = out \/ out' = [out EXCEPT ![o] = row]
    BY <1>5 DEF WriteOutcome, SendAt
  <2>1. CallsOK'
    BY <1>0, <2>0, GotoType DEF SendAt, WebhookAt
  <2>2. row \in Sent
    <3>1. out[o] \in Sent /\ s \in Statuses
      BY <1>0, <1>00, <2>0 DEF OutOK, Call, Statuses
    <3>2. [out[o] EXCEPT !.status = s] \in Sent
      BY <3>1 DEF Sent
    <3> QED BY <3>2 DEF Sent
  <2> HIDE DEF row
  <2>3. OutOK'
    BY <1>0, <1>00, <2>0, <2>2, OutStep, OutStay
  <2> QED BY <1>0, <2>0, <2>1, <2>3, LeadsStay, ConvStay DEF Types
<1>6. CASE Touch(i)
  <2>0. /\ Answer(i) \/ Goto(i, "drop")
        /\ conv' = [d \in Customers |-> IF conv[d].id = calls[i].conv
                      THEN [conv[d] EXCEPT !.unread = 0] ELSE conv[d]]
        /\ UNCHANGED <<contact, stored, timeline, out, owner, due, made, history, world>>
        /\ calls[i].pc \in SendAt
    BY <1>6 DEF Touch, SendAt
  <2>1. CallsOK'
    BY <1>0, <2>0, AnswerType, GotoType DEF SendAt, WebhookAt
  <2>2. \A d \in Customers : conv[d] \in Conversation /\ [conv[d] EXCEPT !.unread = 0] \in Conversation
    BY <1>0, ReadRow DEF ConvOK
  <2>3. ConvOK'
    BY <1>0, <2>0, <2>2 DEF ConvOK, Conversation
  <2> QED BY <1>0, <2>0, <2>1, <2>3, LeadsStay, OutStay DEF Types
<1>7. CASE Relink(i)
  <2>0. /\ Answer(i)
        /\ conv' = [d \in Customers |-> IF conv[d].id = calls[i].conv
                      THEN [conv[d] EXCEPT !.lead = calls[i].lead] ELSE conv[d]]
        /\ UNCHANGED <<contact, stored, timeline, out, owner, due, made, history, world>>
    BY <1>7 DEF Relink
  <2>1. CallsOK'
    BY <1>0, <2>0, AnswerType
  <2>2. calls[i].lead \in Leads \union {NoLead}
    BY <1>0 DEF Call
  <2>3. \A d \in Customers : /\ conv[d] \in Conversation
                             /\ [conv[d] EXCEPT !.lead = calls[i].lead] \in Conversation
    BY <1>0, <2>2 DEF ConvOK, Conversation
  <2>4. ConvOK'
    BY <1>0, <2>0, <2>3 DEF ConvOK, Conversation
  <2> QED BY <1>0, <2>0, <2>1, <2>4, LeadsStay, OutStay DEF Types
<1>8. CASE Throw(i)
  <2>0. /\ Answer(i) \/ Goto(i, "drop")
        /\ UNCHANGED <<tables, due, made, history, world>> /\ calls[i].pc \in SendAt
    BY <1>8 DEF Throw, SendAt
  <2>1. CallsOK'
    BY <1>0, <2>0, AnswerType, GotoType DEF SendAt, WebhookAt
  <2> QED BY <1>0, <2>0, <2>1, LeadsStay, ConvStay, OutStay DEF tables, Types
<1> QED BY <1>1, <1>2, <1>3, <1>4, <1>5, <1>6, <1>7, <1>8

LEMMA OtherType ==
  ASSUME Types,
         \/ \E i \in Calls : Die(i)
         \/ \E c \in Customers : SetBlocked(c) \/ MarkRead(c)
         \/ \E o \in Outbound, s \in Reports : Report(o, s) \/ ApplyStatus(o, s)
         \/ UNCHANGED vars
  PROVE  Types'
<1>0. /\ LeadsOK /\ ConvOK /\ OutOK /\ CallsOK /\ world \in Worlds /\ made \in Nat
  BY DEF Types, LeadsOK, ConvOK
<1>1. ASSUME NEW i \in Calls, Die(i)  PROVE Types'
  <2>1. /\ history.deaths < MaxDeaths /\ Answer(i)
        /\ history' = [history EXCEPT !.deaths = @ + 1,
             !.left = @ \union ({calls[i].new} \ ({NoLead} \union history.won))]
        /\ UNCHANGED <<tables, due, made, world>>
    BY <1>1 DEF Die
  <2>2. calls[i].new \in NewLeads \union {NoLead}
    BY <1>0 DEF CallsOK, Call
  <2>3. history' \in [won : SUBSET Leads, left : SUBSET NewLeads, deaths : 0 .. MaxDeaths]
    <3>1. history.deaths + 1 \in 0 .. MaxDeaths
      BY <1>0, <2>1, ConstantFacts DEF LeadsOK
    <3>2. [history EXCEPT !.deaths = history.deaths + 1]
            \in [won : SUBSET Leads, left : SUBSET NewLeads, deaths : 0 .. MaxDeaths]
      BY <1>0, <3>1 DEF LeadsOK
    <3>3. history.left \union ({calls[i].new} \ ({NoLead} \union history.won)) \in SUBSET NewLeads
      BY <1>0, <2>2 DEF LeadsOK
    <3> QED BY <1>0, <2>1, <3>2, <3>3 DEF LeadsOK
  <2>4. LeadsOK'
    BY <1>0, <2>1, <2>3 DEF LeadsOK, tables
  <2> QED BY <1>0, <2>1, <2>4, ConvStay, OutStay, AnswerType DEF tables, Types
<1>2. ASSUME NEW c \in Customers, SetBlocked(c)  PROVE Types'
  <2>1. [contact[c] EXCEPT !.blocked = ~@] \in Contact
    BY <1>0 DEF LeadsOK, Contact
  <2>2. LeadsOK'
    BY <1>0, <1>2, <2>1, ContactStep DEF SetBlocked
  <2> QED BY <1>0, <1>2, <2>2, ConvStay, OutStay, CallsStay DEF SetBlocked, Types
<1>3. ASSUME NEW c \in Customers, MarkRead(c)  PROVE Types'
  <2>1. conv' = [conv EXCEPT ![c] = [conv[c] EXCEPT !.unread = 0]]
        /\ UNCHANGED <<contact, stored, timeline, out, owner, due, calls, made, history, world>>
    BY <1>3 DEF MarkRead
  <2>2. [conv[c] EXCEPT !.unread = 0] \in Conversation'
    BY <1>0, <2>1, ReadRow DEF ConvOK, Conversation
  <2>3. ConvOK'
    BY <1>0, <2>1, <2>2, ConvStep
  <2> QED BY <1>0, <2>1, <2>3, LeadsStay, OutStay, CallsStay DEF Types
<1>4. ASSUME NEW o \in Outbound, NEW s \in Reports, Report(o, s) \/ ApplyStatus(o, s)
      PROVE  Types'
  <2>1. /\ \/ out' = [out EXCEPT ![o] = [out[o] EXCEPT !.reports = @ \union {s}]]
           \/ out' = [out EXCEPT ![o] = [out[o] EXCEPT !.status = s]]
        /\ UNCHANGED <<contact, conv, stored, timeline, owner, due, calls, made, history, world>>
    BY <1>4 DEF Report, ApplyStatus
  <2>2. /\ [out[o] EXCEPT !.reports = @ \union {s}] \in Sent
        /\ [out[o] EXCEPT !.status = s] \in Sent
    BY <1>0 DEF OutOK, Sent, Reports, Statuses
  <2>3. OutOK'
    BY <1>0, <2>1, <2>2, OutStep
  <2> QED BY <1>0, <2>1, <2>3, LeadsStay, ConvStay, CallsStay DEF Types
<1>5. CASE UNCHANGED vars
  BY <1>0, <1>5, LeadsStay, ConvStay, OutStay, CallsStay DEF vars, tables, Types
<1> QED BY <1>1, <1>2, <1>3, <1>4, <1>5

LEMMA NextType == Types /\ UnreadInv /\ ConvInv /\ [Next]_vars => Types'
  BY ArrivalType, WebhookType, AgentType, OtherType DEF Next, Proceed, Settles

----------------------------------------------------------------------------
(* Conversations, their ids and their counters.                            *)

\* What an action does to the instances, when it is not theirs to change
\* what a conversation is.
LEMMA CallsFromIdle ==
  ASSUME Types, ConvInv, NEW i \in Calls, NEW r,
         calls' = [calls EXCEPT ![i] = r], UNCHANGED <<conv, stored, world>>,
         r.pc \in {"store", "relink"} \union (SendAt \ {"start"}) => r.conv # 0,
         r.pc = "store" => r.of \notin world.opened
  PROVE  ConvInv'
<1>1. \A j \in Calls : calls'[j] = r \/ calls'[j] = calls[j]
  BY DEF Types, CallsOK
<1> QED BY <1>1 DEF ConvInv, SendAt

LEMMA AnswerConv ==
  ASSUME Types, ConvInv, NEW i \in Calls, Answer(i), UNCHANGED <<conv, stored, world>>
  PROVE  ConvInv'
  BY CallsFromIdle DEF Answer, Idle, SendAt

LEMMA GotoConv ==
  ASSUME Types, ConvInv, NEW i \in Calls, NEW pc, Goto(i, pc), UNCHANGED <<conv, stored, world>>,
         pc # "store",
         pc \in {"relink"} \union (SendAt \ {"start"}) => calls[i].pc \in SendAt \ {"start"}
  PROVE  ConvInv'
<1> DEFINE r == [calls[i] EXCEPT !.pc = pc]
<1>1. r.pc = pc /\ r.conv = calls[i].conv
  BY DEF Types, CallsOK, Call
<1>2. calls' = [calls EXCEPT ![i] = r]
  BY DEF Goto
<1> HIDE DEF r
<1> QED BY <1>1, <1>2, CallsFromIdle DEF ConvInv

LEMMA StayConv ==
  ASSUME ConvInv, UNCHANGED <<conv, stored, calls, world>>
  PROVE  ConvInv'
  BY DEF ConvInv

LEMMA RowsType ==
  ASSUME Types
  PROVE  /\ \A c \in Customers : conv[c] \in Conversation
         /\ \A i \in Calls : calls[i] \in Call
         /\ \A m \in stored : m \in Inbound /\ From[m] \in Customers
         /\ made \in Nat /\ stored \subseteq Inbound
<1>1. world.events \subseteq Inbound
  BY WorldFacts DEF Types, LeadsOK
<1> QED BY <1>1, ConstantFacts DEF Types, ConvOK, CallsOK

\* A conversation is created with the next id.
LEMMA CreateConv ==
  ASSUME Types, Types', ConvInv, NEW c \in Customers, NEW l \in Leads \union {NoLead},
         conv[c].id = 0, made' = made + 1,
         conv' = [conv EXCEPT ![c] = [NoConv EXCEPT !.id = made + 1, !.lead = l]],
         UNCHANGED <<stored, world>>,
         NEW i \in Calls, NEW r, calls' = [calls EXCEPT ![i] = r],
         r.pc \in {"store", "relink"} \union (SendAt \ {"start"}) => r.conv # 0,
         r.pc = "store" => r.of \notin world.opened
  PROVE  ConvInv'
<1> DEFINE row == [NoConv EXCEPT !.id = made + 1, !.lead = l]
<1>1. row.id = made + 1 /\ made + 1 # 0
  BY RowsType DEF NoConv
<1>2. \A d \in Customers : conv[d].id \in 0 .. made
  BY RowsType DEF Conversation
<1>3. \A d \in Customers : d # c => conv'[d] = conv[d]
  BY DEF Types, ConvOK
<1>4. conv'[c] = row
  BY DEF Types, ConvOK
<1> HIDE DEF row
<1>5. \A j \in Calls : calls'[j] = r \/ calls'[j] = calls[j]
  BY DEF Types, CallsOK
<1>6. \A m \in stored' : conv'[From[m]].id # 0
  BY <1>1, <1>3, <1>4 DEF ConvInv
<1>7. \A d \in Customers : conv'[d].id = 0 => conv'[d] = NoConv
  BY <1>1, <1>3, <1>4 DEF ConvInv
<1>8. \A d, e \in Customers : conv'[d].id = conv'[e].id /\ conv'[d].id # 0 => d = e
  <2>1. \A d \in Customers : d # c => conv'[d].id # made + 1
    BY <1>2, <1>3, RowsType
  <2> QED BY <1>1, <1>3, <1>4, <2>1 DEF ConvInv
<1> QED BY <1>5, <1>6, <1>7, <1>8 DEF ConvInv, SendAt

\* Rows that exist change in their lead, counter or time.
LEMMA ChangeConv ==
  ASSUME Types, ConvInv, \A c \in Customers : conv'[c].id = conv[c].id,
         \A c \in Customers : conv[c].id = 0 => conv'[c] = conv[c],
         stored' \subseteq Inbound, \A m \in stored' : m \in stored \/ conv[From[m]].id # 0,
         UNCHANGED world, \A m \in Inbound : From[m] \in Customers,
         NEW i \in Calls, NEW r, calls' = [calls EXCEPT ![i] = r],
         r.pc \in {"store", "relink"} \union (SendAt \ {"start"}) => r.conv # 0,
         r.pc = "store" => r.of \notin world.opened
  PROVE  ConvInv'
<1>1. \A j \in Calls : calls'[j] = r \/ calls'[j] = calls[j]
  BY DEF Types, CallsOK
<1> QED BY <1>1 DEF ConvInv, SendAt

LEMMA CameConv ==
  ASSUME Types, Types', ConvInv, NEW i \in Calls, Come(i)
  PROVE  ConvInv'
<1>1. ASSUME NEW m \in world.events, ArriveEvent(i, m)  PROVE ConvInv'
  BY <1>1, CallsFromIdle DEF ArriveEvent, Idle, SendAt, tables
<1>2. ASSUME NEW o \in world.sends, ArriveSend(i, o)  PROVE ConvInv'
  BY <1>2, CallsFromIdle DEF ArriveSend, Idle, SendAt, tables
<1>3. ASSUME NEW o \in world.sends, ArriveStart(i, o)  PROVE ConvInv'
  BY <1>3, CallsFromIdle DEF ArriveStart, Idle, SendAt
<1>4. ASSUME NEW c \in Customers, NEW l \in world.links, ArriveLink(i, c, l)
      PROVE  ConvInv'
  BY <1>4, CallsFromIdle DEF ArriveLink, Idle, SendAt
<1> QED BY <1>1, <1>2, <1>3, <1>4 DEF Come

LEMMA WebhookConv ==
  ASSUME Types, Types', ConvInv, NEW i \in Calls,
         \/ UpsertContact(i) \/ Unblock(i) \/ Settles(i)
         \/ UpsertConversation(i) \/ Store(i) \/ Reply(i)
  PROVE  ConvInv'
<1> DEFINE m == calls[i].of  c == From[m]
<1>0. /\ calls[i] \in Call /\ m \in Inbound /\ c \in Customers /\ conv[c] \in Conversation
  <2>1. calls[i].pc \in WebhookAt
    BY DEF UpsertContact, Unblock, Settles, ResolveLead, MatchLead, CreateLead, Claim,
           ReadWinner, Discard, FollowWinner, UpsertConversation, Store, Reply, WebhookAt
  <2> QED BY <2>1, WebhookOf, RowsType DEF Types
<1>1. CASE UpsertContact(i) \/ Unblock(i) \/ Reply(i)
  <2>1. UNCHANGED <<conv, stored, world>>
    BY <1>1 DEF UpsertContact, Unblock, Reply, Acknowledge, tables
  <2>2. \/ Answer(i) \/ Goto(i, "resolve")
        \/ \E l \in Leads \union {NoLead}, pc \in {"unblock", "resolve"} :
             calls' = [calls EXCEPT ![i].known = l, ![i].pc = pc]
    <3>1. contact[c] \in Contact
      BY <1>0 DEF Types, LeadsOK
    <3>2. [contact[c] EXCEPT !.there = TRUE].lead \in Leads \union {NoLead}
      BY <3>1 DEF Contact
    <3> QED BY <1>1, <3>2 DEF UpsertContact, Unblock, Reply, Acknowledge
  <2>3. ASSUME NEW l \in Leads \union {NoLead}, NEW pc \in {"unblock", "resolve"},
               calls' = [calls EXCEPT ![i].known = l, ![i].pc = pc]
        PROVE  ConvInv'
    <3> DEFINE r == [calls[i] EXCEPT !.known = l, !.pc = pc]
    <3>1. r.pc = pc /\ calls' = [calls EXCEPT ![i] = r]
      BY <1>0, <2>3 DEF Call
    <3> HIDE DEF r
    <3> QED BY <2>1, <3>1, CallsFromIdle DEF SendAt
  <2> QED BY <2>1, <2>2, <2>3, AnswerConv, GotoConv DEF SendAt
<1>2. CASE Settles(i)
  <2>1. UNCHANGED <<stored, world>> /\ \A d \in Customers :
          conv'[d].id = conv[d].id /\ (conv[d].id = 0 => conv'[d] = conv[d])
    <3>1. CASE ~Discard(i)
      BY <1>2, <3>1, SettledRest
    <3>2. CASE Discard(i)
      <4>1. \A d \in Customers : conv[d] \in Conversation
        BY RowsType
      <4>2. \A d \in Customers : conv[d].id = 0 => conv[d].lead = NoLead
        BY DEF ConvInv, NoConv
      <4>3. \A d \in Customers : conv'[d] = [conv[d] EXCEPT !.lead =
               IF conv[d].lead = calls[i].new THEN NoLead ELSE conv[d].lead]
        BY <3>2 DEF Discard
      <4>4. \A d \in Customers : conv[d].id = 0 => conv'[d] = conv[d]
        BY <4>1, <4>2, <4>3 DEF Conversation
      <4> QED BY <3>2, <4>1, <4>3, <4>4 DEF Discard, Conversation
    <3> QED BY <1>2, <3>1, <3>2
  <2>2. PICK r : calls' = [calls EXCEPT ![i] = r] /\ r.pc \notin {"store", "relink"} \union SendAt
    <3>1. Idle.pc = "idle"
      BY DEF Idle
    <3> QED BY <1>2, <3>1, SettledCall DEF Answer, SendAt
  <2>3. \A n \in Inbound : From[n] \in Customers
    BY ConstantFacts
  <2>4. stored' \subseteq Inbound
    BY <2>1, RowsType
  <2> QED BY <2>1, <2>2, <2>3, <2>4, ChangeConv
<1>3. CASE UpsertConversation(i)
  <2>1. UNCHANGED <<stored, world>> /\ calls[i].lead \in Leads \union {NoLead}
    BY <1>0, <1>3 DEF UpsertConversation, Call
  <2>2. conv'[c].id # 0
    <3>1. conv[c].id = 0 => conv'[c] = [NoConv EXCEPT !.id = made + 1, !.lead = calls[i].lead]
      BY <1>0, <1>3 DEF UpsertConversation, Types, ConvOK
    <3>2. [NoConv EXCEPT !.id = made + 1, !.lead = calls[i].lead].id = made + 1
      BY DEF NoConv
    <3>3. ASSUME conv[c].id # 0  PROVE conv'[c].id = conv[c].id
      <4>1. conv' = conv \/ conv' = [conv EXCEPT ![c] = [conv[c] EXCEPT !.lead = calls[i].lead]]
        BY <1>3, <3>3 DEF UpsertConversation
      <4>2. [conv[c] EXCEPT !.lead = calls[i].lead].id = conv[c].id
        BY <1>0 DEF Conversation
      <4> QED BY <1>0, <4>1, <4>2 DEF Types, ConvOK
    <3>4. made + 1 # 0
      BY RowsType
    <3> QED BY <3>1, <3>2, <3>3, <3>4
  <2>3. PICK r : /\ calls' = [calls EXCEPT ![i] = r]
                 /\ r.pc \in {"store", "relink"} \union (SendAt \ {"start"}) => r.conv # 0
                 /\ r.pc = "store" => r.of \notin world.opened
    <3>1. CASE m \in world.opened
      BY <1>3, <3>1 DEF UpsertConversation, Acknowledge, Answer, Idle, SendAt
    <3>2. CASE m \notin world.opened
      <4> DEFINE s == [calls[i] EXCEPT !.pc = "store", !.conv = conv'[c].id]
      <4>1. calls' = [calls EXCEPT ![i] = s]
        BY <1>3, <3>2 DEF UpsertConversation
      <4>2. s.conv = conv'[c].id /\ s.of = m
        BY <1>0 DEF Call
      <4> QED BY <2>2, <3>2, <4>1, <4>2
    <3> QED BY <3>1, <3>2
  <2>4. CASE conv[c].id = 0
    <3>1. /\ made' = made + 1
          /\ conv' = [conv EXCEPT ![c] = [NoConv EXCEPT !.id = made + 1, !.lead = calls[i].lead]]
      BY <1>3, <2>4 DEF UpsertConversation
    <3> QED BY <1>0, <2>1, <2>3, <2>4, <3>1, CreateConv
  <2>5. CASE conv[c].id # 0
    <3>1. conv' = conv \/ conv' = [conv EXCEPT ![c] = [conv[c] EXCEPT !.lead = calls[i].lead]]
      BY <1>3, <2>5 DEF UpsertConversation
    <3>2. [conv[c] EXCEPT !.lead = calls[i].lead].id = conv[c].id
      BY <1>0 DEF Conversation
    <3>3. \A d \in Customers : conv'[d].id = conv[d].id /\ (conv[d].id = 0 => conv'[d] = conv[d])
      BY <1>0, <2>5, <3>1, <3>2 DEF Types, ConvOK
    <3>4. stored' \subseteq Inbound /\ \A n \in Inbound : From[n] \in Customers
      BY <2>1, RowsType, ConstantFacts
    <3> QED BY <2>1, <2>3, <3>3, <3>4, ChangeConv
  <2> QED BY <2>4, <2>5
<1>4. CASE Store(i)
  <2>1. CASE UNCHANGED tables /\ Answer(i)
    BY <1>4, <2>1, AnswerConv DEF Store, Acknowledge, Fail, tables
  <2>2. CASE ~(UNCHANGED tables /\ Answer(i))
    <3> DEFINE row == [conv[c] EXCEPT !.unread = @ + 1, !.at = Later(@, At[m])]
    <3>1. /\ calls[i].conv = conv[c].id /\ stored' = stored \union {m}
          /\ conv' = [conv EXCEPT ![c] = row] /\ Goto(i, "reply") /\ UNCHANGED world
      BY <1>4, <2>2 DEF Store, Acknowledge, Fail
    <3>2. row.id = conv[c].id
      BY <1>0 DEF Conversation
    <3>3. conv[c].id # 0
      BY <1>4, <3>1 DEF ConvInv, Store
    <3> HIDE DEF row
    <3>4. \A d \in Customers : conv'[d].id = conv[d].id /\ (conv[d].id = 0 => conv'[d] = conv[d])
      BY <1>0, <3>1, <3>2, <3>3 DEF Types, ConvOK
    <3>5. stored' \subseteq Inbound /\ (\A n \in Inbound : From[n] \in Customers)
          /\ \A n \in stored' : n \in stored \/ conv[From[n]].id # 0
      BY <1>0, <3>1, <3>3, RowsType, ConstantFacts
    <3> DEFINE r == [calls[i] EXCEPT !.pc = "reply"]
    <3>6. calls' = [calls EXCEPT ![i] = r] /\ r.pc = "reply"
      BY <1>0, <3>1 DEF Goto, Call
    <3> HIDE DEF r
    <3> QED BY <3>1, <3>4, <3>5, <3>6, ChangeConv DEF SendAt
  <2> QED BY <2>1, <2>2
<1> QED BY <1>1, <1>2, <1>3, <1>4

LEMMA AgentConv ==
  ASSUME Types, Types', ConvInv, NEW i \in Calls,
         \/ StartConversation(i) \/ Compose(i) \/ Drop(i) \/ Dispatch(i)
         \/ WriteOutcome(i) \/ Throw(i) \/ Touch(i) \/ Relink(i)
  PROVE  ConvInv'
<1> DEFINE o == calls[i].of  c == To[o]
<1>0. calls[i] \in Call /\ \A d \in Customers : conv[d] \in Conversation
  BY RowsType
<1>00. stored \subseteq Inbound /\ (\A n \in Inbound : From[n] \in Customers)
  BY RowsType, ConstantFacts
<1>1. CASE StartConversation(i)
  <2>0. c \in Customers /\ StartFor[o] \in Leads \union {NoLead} /\ UNCHANGED <<stored, world>>
    <3>1. calls[i].pc \in SendAt
      BY <1>1 DEF StartConversation, SendAt
    <3> QED BY <1>1, <3>1, SendOf DEF Types, Leads, StartConversation
  <2>1. CASE conv[c].id = 0
    <3> DEFINE r == [calls[i] EXCEPT !.pc = "compose", !.fresh = TRUE, !.conv = made + 1]
    <3>1. /\ made' = made + 1 /\ calls' = [calls EXCEPT ![i] = r]
          /\ conv' = [conv EXCEPT ![c] = [NoConv EXCEPT !.id = made + 1, !.lead = StartFor[o]]]
      BY <1>1, <2>1 DEF StartConversation
    <3>2. r.pc = "compose" /\ r.conv = made + 1 /\ made + 1 # 0
      BY <1>0, RowsType DEF Call
    <3> HIDE DEF r
    <3> QED BY <2>0, <2>1, <3>1, <3>2, CreateConv
  <2>2. CASE conv[c].id # 0
    <3> DEFINE r == [calls[i] EXCEPT !.pc = "compose", !.conv = conv[c].id]
    <3>1. UNCHANGED conv /\ calls' = [calls EXCEPT ![i] = r]
      BY <1>1, <2>2 DEF StartConversation
    <3>2. r.pc = "compose" /\ r.conv = conv[c].id
      BY <1>0 DEF Call
    <3> HIDE DEF r
    <3> QED BY <2>0, <2>2, <3>1, <3>2, CallsFromIdle
  <2> QED BY <2>1, <2>2
<1>2. CASE Compose(i)
  <2>1. UNCHANGED <<conv, stored, world>> /\ calls[i].pc \in SendAt \ {"start"}
        /\ (Answer(i) \/ Goto(i, "drop") \/ Goto(i, "dispatch"))
    BY <1>2 DEF Compose, SendAt
  <2> QED BY <2>1, AnswerConv, GotoConv
<1>3. CASE Drop(i)
  <2>1. calls[i].conv # 0 /\ Answer(i) /\ UNCHANGED world
    BY <1>3 DEF Drop, ConvInv, SendAt
  <2>2. CASE conv[c].id # calls[i].conv
    BY <1>3, <2>1, <2>2, AnswerConv DEF Drop
  <2>3. CASE conv[c].id = calls[i].conv
    <3>1. /\ conv' = [conv EXCEPT ![c] = NoConv]
          /\ stored' = {m \in stored : From[m] # c}
          /\ calls' = [calls EXCEPT ![i] = Idle]
      BY <1>3, <2>1, <2>3 DEF Drop, Answer
    <3>2. \A d \in Customers : conv'[d] = conv[d] \/ conv'[d] = NoConv
      BY <3>1 DEF Types, ConvOK
    <3>3. NoConv.id = 0 /\ Idle.pc = "idle"
      BY DEF NoConv, Idle
    <3>4. \A m \in stored' : conv'[From[m]] = conv[From[m]] /\ m \in stored
      BY <1>00, <3>1 DEF Types, ConvOK
    <3>5. \A j \in Calls : calls'[j] = Idle \/ calls'[j] = calls[j]
      BY <3>1 DEF Types, CallsOK
    <3> QED BY <2>1, <3>2, <3>3, <3>4, <3>5 DEF ConvInv, SendAt
  <2> QED BY <2>2, <2>3
<1>4. CASE Dispatch(i)
  <2>1. PICK s \in {"sent", "failed"} :
          calls' = [calls EXCEPT ![i] = [calls[i] EXCEPT !.pc = "outcome", !.result = s]]
    BY <1>4 DEF Dispatch
  <2> DEFINE r == [calls[i] EXCEPT !.pc = "outcome", !.result = s]
  <2>2. r.pc = "outcome" /\ r.conv = calls[i].conv /\ calls[i].pc \in SendAt \ {"start"}
    BY <1>0, <1>4 DEF Call, Dispatch, SendAt
  <2>3. calls' = [calls EXCEPT ![i] = r] /\ calls[i].conv # 0
    BY <2>1, <2>2 DEF ConvInv
  <2> HIDE DEF r
  <2> QED BY <1>4, <2>2, <2>3, CallsFromIdle DEF Dispatch
<1>5. CASE WriteOutcome(i)
  <2>1. UNCHANGED <<conv, stored, world>> /\ calls[i].pc \in SendAt \ {"start"} /\ Goto(i, "touch")
    BY <1>5 DEF WriteOutcome, SendAt
  <2> QED BY <2>1, GotoConv
<1>6. CASE Touch(i) \/ Relink(i)
  <2> PICK drop : drop = [calls[i] EXCEPT !.pc = "drop"]
    OBVIOUS
  <2>0. drop.pc = "drop" /\ drop.conv = calls[i].conv
    BY <1>0 DEF Call
  <2>1. /\ calls[i].conv # 0 /\ UNCHANGED <<stored, world>>
        /\ calls' = [calls EXCEPT ![i] = Idle] \/ calls' = [calls EXCEPT ![i] = drop]
    BY <1>6 DEF ConvInv, Touch, Relink, SendAt, Answer, Goto
  <2>2. \A d \in Customers : /\ conv[d].id # calls[i].conv => conv'[d] = conv[d]
                             /\ conv'[d].id = conv[d].id
    BY <1>0, <1>6 DEF Touch, Relink, Conversation
  <2>3. Idle.pc = "idle"
    BY DEF Idle
  <2> QED BY <1>00, <2>0, <2>1, <2>2, <2>3, ChangeConv DEF SendAt
<1>7. CASE Throw(i)
  <2>1. UNCHANGED <<conv, stored, world>> /\ calls[i].pc \in SendAt \ {"start"}
        /\ (Answer(i) \/ Goto(i, "drop"))
    BY <1>7 DEF Throw, SendAt, tables
  <2> QED BY <2>1, AnswerConv, GotoConv
<1> QED BY <1>1, <1>2, <1>3, <1>4, <1>5, <1>6, <1>7

LEMMA OtherConv ==
  ASSUME Types, Types', ConvInv,
         \/ \E i \in Calls : Die(i)
         \/ \E c \in Customers : SetBlocked(c) \/ MarkRead(c)
         \/ \E o \in Outbound, s \in Reports : Report(o, s) \/ ApplyStatus(o, s)
         \/ UNCHANGED vars
  PROVE  ConvInv'
<1>1. ASSUME NEW i \in Calls, Die(i)  PROVE ConvInv'
  BY <1>1, AnswerConv DEF Die, tables
<1>2. ASSUME NEW c \in Customers, MarkRead(c)  PROVE ConvInv'
  <2>1. \A d \in Customers : conv[d] \in Conversation
    BY RowsType
  <2>2. \A d \in Customers : conv'[d] = conv[d] \/ (d = c /\ conv'[d] = [conv[d] EXCEPT !.unread = 0])
    BY <1>2 DEF MarkRead, Types, ConvOK
  <2>3. \A d \in Customers : conv'[d].id = conv[d].id
    BY <2>1, <2>2 DEF Conversation
  <2>4. \A d \in Customers : conv[d].id = 0 => conv'[d] = conv[d]
    BY <1>2, <2>2 DEF MarkRead
  <2>5. \A m \in stored : From[m] \in Customers
    BY RowsType
  <2> QED BY <1>2, <2>3, <2>4, <2>5 DEF MarkRead, ConvInv
<1>3. ASSUME UNCHANGED <<conv, stored, calls, world>>  PROVE ConvInv'
  BY <1>3, StayConv
<1> QED BY <1>1, <1>2, <1>3 DEF SetBlocked, Report, ApplyStatus, vars, tables

LEMMA NextConv == Types /\ Types' /\ ConvInv /\ [Next]_vars => ConvInv'
  BY CameConv, WebhookConv, AgentConv, OtherConv DEF Next, Proceed, Settles

LEMMA StoredOf ==
  ASSUME Types, NEW c \in Customers
  PROVE  /\ IsFiniteSet({m \in stored : From[m] = c})
         /\ Cardinality({m \in stored : From[m] = c}) \in Nat
<1>1. {m \in stored : From[m] = c} \subseteq Inbound
  BY RowsType
<1> QED BY <1>1, InboundFinite, FS_Subset, FS_CardinalityType

\* A counter goes up only with a stored message.
LEMMA KeptUnread ==
  ASSUME Types, Types', UnreadInv, UNCHANGED stored,
         \A c \in Customers : conv'[c].unread \in {0, conv[c].unread}
  PROVE  UnreadInv'
<1> SUFFICES ASSUME NEW c \in Customers
             PROVE  conv'[c].unread <= Cardinality({m \in stored' : From[m] = c})
  BY DEF UnreadInv
<1> DEFINE S == {m \in stored : From[m] = c}
<1>1. S = {m \in stored' : From[m] = c}
  OBVIOUS
<1>2. conv[c].unread <= Cardinality(S) /\ Cardinality(S) \in Nat
  BY StoredOf DEF UnreadInv
<1> HIDE DEF S
<1> QED BY <1>1, <1>2

LEMMA NextUnread == Types /\ Types' /\ ConvInv /\ UnreadInv /\ [Next]_vars => UnreadInv'
<1> SUFFICES ASSUME Types, Types', ConvInv, UnreadInv, [Next]_vars
             PROVE  UnreadInv'
  OBVIOUS
<1>0. \A d \in Customers : conv[d] \in Conversation
  BY RowsType
<1>1. CASE UNCHANGED <<conv, stored>>
  BY <1>1, KeptUnread
<1>2. ASSUME NEW c \in Customers, NEW row, row.unread \in {0, conv[c].unread},
             conv' = [conv EXCEPT ![c] = row], UNCHANGED stored
      PROVE  UnreadInv'
  <2>1. \A d \in Customers : conv'[d] = conv[d] \/ (d = c /\ conv'[d] = row)
    BY <1>2 DEF Types, ConvOK
  <2> QED BY <1>2, <2>1, KeptUnread
<1>3. ASSUME NEW c \in Customers, MarkRead(c)  PROVE UnreadInv'
  <2> DEFINE read == [conv[c] EXCEPT !.unread = 0]
  <2>1. read.unread \in {0, conv[c].unread}
    BY <1>0 DEF Conversation
  <2>2. conv' = [conv EXCEPT ![c] = read] /\ UNCHANGED stored
    BY <1>3 DEF MarkRead
  <2> HIDE DEF read
  <2>3. \A d \in Customers : conv'[d] = conv[d] \/ (d = c /\ conv'[d] = read)
    BY <2>2 DEF Types, ConvOK
  <2> QED BY <2>1, <2>2, <2>3, KeptUnread
<1>4. ASSUME NEW i \in Calls, Discard(i) \/ Touch(i) \/ Relink(i)  PROVE UnreadInv'
  BY <1>0, <1>4, KeptUnread DEF Discard, Touch, Relink, Conversation
<1>5. ASSUME NEW i \in Calls, UpsertConversation(i)  PROVE UnreadInv'
  <2> DEFINE c == From[calls[i].of]
             new == [NoConv EXCEPT !.id = made + 1, !.lead = calls[i].lead]
             moved == [conv[c] EXCEPT !.lead = calls[i].lead]
  <2>1. c \in Customers
    BY <1>5, WebhookOf DEF UpsertConversation, WebhookAt, Types
  <2>2. new.unread = 0 /\ moved.unread = conv[c].unread
    BY <1>0, <2>1 DEF Conversation, NoConv
  <2>3. /\ conv' = conv \/ conv' = [conv EXCEPT ![c] = new] \/ conv' = [conv EXCEPT ![c] = moved]
        /\ UNCHANGED stored
    BY <1>5 DEF UpsertConversation
  <2> HIDE DEF new, moved
  <2> QED BY <1>1, <1>2, <2>1, <2>2, <2>3
<1>6. ASSUME NEW i \in Calls, StartConversation(i)  PROVE UnreadInv'
  <2> DEFINE c == To[calls[i].of]
             new == [NoConv EXCEPT !.id = made + 1, !.lead = StartFor[calls[i].of]]
  <2>1. c \in Customers
    BY <1>6, SendOf DEF StartConversation, SendAt, Types
  <2>2. new.unread = 0
    BY DEF NoConv
  <2>3. (conv' = conv \/ conv' = [conv EXCEPT ![c] = new]) /\ UNCHANGED stored
    BY <1>6 DEF StartConversation
  <2> HIDE DEF new
  <2> QED BY <1>1, <1>2, <2>1, <2>2, <2>3
<1>7. ASSUME NEW i \in Calls, Drop(i)  PROVE UnreadInv'
  <2> DEFINE c == To[calls[i].of]
  <2>1. CASE conv[c].id # calls[i].conv
    BY <1>1, <1>7, <2>1 DEF Drop
  <2>2. CASE conv[c].id = calls[i].conv
    <3> SUFFICES ASSUME NEW d \in Customers
                 PROVE  conv'[d].unread <= Cardinality({m \in stored' : From[m] = d})
      BY DEF UnreadInv
    <3>1. conv' = [conv EXCEPT ![c] = NoConv] /\ stored' = {m \in stored : From[m] # c}
      BY <1>7, <2>2 DEF Drop
    <3>2. CASE d = c
      <4>1. conv'[d].unread = 0
        BY <3>1, <3>2 DEF Types, ConvOK, NoConv
      <4>2. {m \in stored' : From[m] = d} = {}
        BY <3>1, <3>2
      <4> QED BY <4>1, <4>2, FS_EmptySet
    <3>3. CASE d # c
      <4>1. conv'[d] = conv[d]
        BY <3>1, <3>3 DEF Types, ConvOK
      <4>2. {m \in stored' : From[m] = d} = {m \in stored : From[m] = d}
        BY <3>1, <3>3
      <4> QED BY <4>1, <4>2 DEF UnreadInv
    <3> QED BY <3>2, <3>3
  <2> QED BY <2>1, <2>2
<1>8. ASSUME NEW i \in Calls, Store(i)  PROVE UnreadInv'
  <2> DEFINE m == calls[i].of  c == From[m]
             row == [conv[c] EXCEPT !.unread = @ + 1, !.at = Later(@, At[m])]
  <2>1. c \in Customers /\ m \in Inbound
    BY <1>8, WebhookOf DEF Store, WebhookAt, Types
  <2>2. CASE UNCHANGED tables
    BY <1>1, <2>2 DEF tables
  <2>3. CASE m \notin stored /\ stored' = stored \union {m} /\ conv' = [conv EXCEPT ![c] = row]
    <3> SUFFICES ASSUME NEW d \in Customers
                 PROVE  conv'[d].unread <= Cardinality({n \in stored' : From[n] = d})
      BY DEF UnreadInv
    <3> DEFINE S == {n \in stored : From[n] = d}
    <3>0. conv[d].unread <= Cardinality(S) /\ IsFiniteSet(S) /\ Cardinality(S) \in Nat
          /\ conv[d].unread \in Nat
      BY <1>0, StoredOf, InboundFinite DEF UnreadInv, Conversation
    <3>1. CASE d = c
      <4>1. conv'[d].unread = conv[d].unread + 1
        <5>1. row.unread = conv[c].unread + 1
          BY <1>0, <2>1 DEF Conversation
        <5>2. conv'[d] = row
          BY <2>1, <2>3, <3>1 DEF Types, ConvOK
        <5> QED BY <3>1, <5>1, <5>2
      <4>2. {n \in stored' : From[n] = d} = S \union {m} /\ m \notin S
        BY <2>3, <3>1
      <4>3. Cardinality(S \union {m}) = Cardinality(S) + 1
        BY <3>0, <4>2, FS_AddElement
      <4> HIDE DEF S
      <4> QED BY <3>0, <4>1, <4>2, <4>3
    <3>2. CASE d # c
      <4>1. conv'[d] = conv[d]
        BY <2>3, <3>2 DEF Types, ConvOK
      <4>2. {n \in stored' : From[n] = d} = S
        BY <2>3, <3>2
      <4> QED BY <3>0, <4>1, <4>2
    <3> QED BY <3>1, <3>2
  <2> QED BY <1>8, <2>2, <2>3 DEF Store, Acknowledge, Fail, tables
<1>9. ASSUME NEW i \in Calls,
             \/ Come(i) \/ UpsertContact(i) \/ Unblock(i) \/ (Settles(i) /\ ~Discard(i))
             \/ Reply(i) \/ Compose(i) \/ Dispatch(i) \/ WriteOutcome(i) \/ Throw(i) \/ Die(i)
      PROVE  UNCHANGED <<conv, stored>>
  BY <1>9, SettledRest DEF Come, ArriveEvent, ArriveSend, ArriveStart, ArriveLink,
     UpsertContact, Unblock, Reply, Compose, Dispatch, WriteOutcome, Throw, Die, tables
<1>10. ASSUME NEW c \in Customers, SetBlocked(c)  PROVE UNCHANGED <<conv, stored>>
  BY <1>10 DEF SetBlocked
<1>11. ASSUME NEW o \in Outbound, NEW s \in Reports, Report(o, s) \/ ApplyStatus(o, s)
       PROVE  UNCHANGED <<conv, stored>>
  BY <1>11 DEF Report, ApplyStatus
<1>12. UNCHANGED vars => UNCHANGED <<conv, stored>>
  BY DEF vars, tables
<1> QED BY <1>1, <1>3, <1>4, <1>5, <1>6, <1>7, <1>8, <1>9, <1>10, <1>11, <1>12
        DEF Next, Proceed, Settles

BaseInv == Types /\ ConvInv /\ UnreadInv

LEMMA InitBase == Init => BaseInv
<1> SUFFICES ASSUME Init PROVE BaseInv
  OBVIOUS
<1>1. Types
  BY InitType, TypeParts DEF Types
<1>2. ConvInv
  BY DEF Init, ConvInv, NoConv, Idle, SendAt
<1>3. UnreadInv
  <2>1. \A c \in Customers : {m \in stored : From[m] = c} = {}
    BY DEF Init
  <2> QED BY <2>1, FS_EmptySet DEF Init, UnreadInv, NoConv
<1> QED BY <1>1, <1>2, <1>3 DEF BaseInv

LEMMA BaseCorrect == Spec => []BaseInv
<1>1. BaseInv /\ [Next]_vars => BaseInv'
  BY NextType, NextConv, NextUnread DEF BaseInv
<1> QED BY <1>1, InitBase, PTL DEF Spec

(***************************************************************************)
(* What the tables and the instances hold has its type, and no counter of  *)
(* unread messages exceeds the messages that there are, however webhooks,  *)
(* agents, deaths and redeliveries meet.                                   *)
(***************************************************************************)
THEOREM TypeCorrect == Spec => []TypeOK
<1>1. BaseInv => TypeOK
  BY TypeParts DEF BaseInv, Types
<1> QED BY <1>1, BaseCorrect, PTL

----------------------------------------------------------------------------
(* The 24-hour window.                                                     *)

\* A conversation is as late as the newest message in it.
LEMMA KeptWindow ==
  ASSUME Types, WindowFromNewest, ConvInv, UNCHANGED stored,
         \A c \in Customers : \/ conv'[c].at = conv[c].at /\ conv'[c].id = conv[c].id
                              \/ conv[c].id = 0 /\ conv'[c].at = 0
  PROVE  WindowFromNewest'
<1>1. \A m \in stored : conv[From[m]].id # 0
  BY DEF ConvInv
<1> QED BY <1>1 DEF WindowFromNewest

LEMMA NextWindow ==
  ASSUME BaseInv, WindowFromNewest, [Next]_vars
  PROVE  WindowFromNewest'
<1>0. Types /\ ConvInv /\ \A d \in Customers : conv[d] \in Conversation
  BY RowsType DEF BaseInv
<1>1. CASE UNCHANGED <<conv, stored>>
  BY <1>0, <1>1, KeptWindow
<1>2. ASSUME NEW c \in Customers, NEW row, conv' = [conv EXCEPT ![c] = row], UNCHANGED stored,
             \/ row.at = conv[c].at /\ row.id = conv[c].id
             \/ conv[c].id = 0 /\ row.at = 0
      PROVE  WindowFromNewest'
  <2>1. \A d \in Customers : conv'[d] = conv[d] \/ (d = c /\ conv'[d] = row)
    BY <1>0, <1>2 DEF Types, ConvOK
  <2> QED BY <1>0, <1>2, <2>1, KeptWindow
<1>3. ASSUME NEW c \in Customers, MarkRead(c)  PROVE WindowFromNewest'
  <2> DEFINE row == [conv[c] EXCEPT !.unread = 0]
  <2>1. row.at = conv[c].at /\ row.id = conv[c].id
    BY <1>0 DEF Conversation
  <2>2. conv' = [conv EXCEPT ![c] = row] /\ UNCHANGED stored
    BY <1>3 DEF MarkRead
  <2> HIDE DEF row
  <2> QED BY <1>2, <2>1, <2>2
<1>4. ASSUME NEW i \in Calls, Discard(i) \/ Touch(i) \/ Relink(i)  PROVE WindowFromNewest'
  BY <1>0, <1>4, KeptWindow DEF Discard, Touch, Relink, Conversation
<1>5. ASSUME NEW i \in Calls, UpsertConversation(i)  PROVE WindowFromNewest'
  <2> DEFINE c == From[calls[i].of]
             new == [NoConv EXCEPT !.id = made + 1, !.lead = calls[i].lead]
             moved == [conv[c] EXCEPT !.lead = calls[i].lead]
  <2>1. c \in Customers
    BY <1>0, <1>5, WebhookOf DEF UpsertConversation, WebhookAt, Types
  <2>2. new.at = 0 /\ moved.at = conv[c].at /\ moved.id = conv[c].id
    BY <1>0, <2>1 DEF Conversation, NoConv
  <2>3. /\ \/ conv' = conv
           \/ conv[c].id = 0 /\ conv' = [conv EXCEPT ![c] = new]
           \/ conv' = [conv EXCEPT ![c] = moved]
        /\ UNCHANGED stored
    BY <1>5 DEF UpsertConversation
  <2> HIDE DEF new, moved
  <2> QED BY <1>1, <1>2, <2>1, <2>2, <2>3
<1>6. ASSUME NEW i \in Calls, StartConversation(i)  PROVE WindowFromNewest'
  <2> DEFINE c == To[calls[i].of]
             new == [NoConv EXCEPT !.id = made + 1, !.lead = StartFor[calls[i].of]]
  <2>1. c \in Customers
    BY <1>0, <1>6, SendOf DEF StartConversation, SendAt, Types
  <2>2. new.at = 0
    BY DEF NoConv
  <2>3. /\ conv' = conv \/ (conv[c].id = 0 /\ conv' = [conv EXCEPT ![c] = new])
        /\ UNCHANGED stored
    BY <1>6 DEF StartConversation
  <2> HIDE DEF new
  <2> QED BY <1>1, <1>2, <2>1, <2>2, <2>3
<1>7. ASSUME NEW i \in Calls, Drop(i)  PROVE WindowFromNewest'
  <2> DEFINE c == To[calls[i].of]
  <2>1. CASE conv[c].id # calls[i].conv
    BY <1>1, <1>7, <2>1 DEF Drop
  <2>2. CASE conv[c].id = calls[i].conv
    <3>1. conv' = [conv EXCEPT ![c] = NoConv] /\ stored' = {m \in stored : From[m] # c}
      BY <1>7, <2>2 DEF Drop
    <3>2. \A d \in Customers : IF d = c THEN conv'[d].id = 0 ELSE conv'[d] = conv[d]
      BY <1>0, <3>1 DEF Types, ConvOK, NoConv
    <3> QED BY <3>1, <3>2 DEF WindowFromNewest
  <2> QED BY <2>1, <2>2
<1>8. ASSUME NEW i \in Calls, Store(i)  PROVE WindowFromNewest'
  <2> DEFINE m == calls[i].of  c == From[m]
             row == [conv[c] EXCEPT !.unread = @ + 1, !.at = Later(@, At[m])]
  <2>1. c \in Customers /\ m \in Inbound /\ At[m] \in Nat
    BY <1>0, <1>8, WebhookOf, ConstantFacts DEF Store, WebhookAt, Types
  <2>2. CASE UNCHANGED tables
    BY <1>1, <2>2 DEF tables
  <2>3. CASE stored' = stored \union {m} /\ conv' = [conv EXCEPT ![c] = row]
             /\ calls[i].conv = conv[c].id
    <3>1. row.at = Later(conv[c].at, At[m]) /\ row.id = conv[c].id
      BY <1>0, <2>1 DEF Conversation
    <3>2. \A d \in Customers : conv'[d] = IF d = c THEN row ELSE conv[d]
      BY <1>0, <2>1, <2>3 DEF Types, ConvOK
    <3>3. conv[c].at \in Nat /\ \A n \in stored : n \in Inbound /\ At[n] \in Nat
      BY <1>0, <2>1, RowsType, ConstantFacts DEF Conversation
    <3>4. conv[c].id # 0
      BY <1>0, <1>8, <2>3 DEF ConvInv, Store
    <3> HIDE DEF row
    <3> SUFFICES ASSUME NEW d \in Customers, conv'[d].id # 0
                 PROVE  /\ \A n \in stored' : From[n] = d => At[n] <= conv'[d].at
                        /\ conv'[d].at # 0 =>
                             \E n \in stored' : From[n] = d /\ At[n] = conv'[d].at
      BY DEF WindowFromNewest
    <3>5. CASE d # c
      BY <2>3, <3>2, <3>5 DEF WindowFromNewest
    <3>6. CASE d = c
      <4>1. conv'[d].at = Later(conv[c].at, At[m])
        BY <3>1, <3>2, <3>6
      <4>2. \A n \in stored : From[n] = c => At[n] <= conv[c].at
        BY <2>1, <3>4 DEF WindowFromNewest
      <4>3. conv[c].at # 0 => \E n \in stored : From[n] = c /\ At[n] = conv[c].at
        BY <2>1, <3>4 DEF WindowFromNewest
      <4> QED BY <2>1, <2>3, <3>3, <3>6, <4>1, <4>2, <4>3 DEF Later
    <3> QED BY <3>5, <3>6
  <2> QED BY <1>8, <2>2, <2>3 DEF Store, Acknowledge, Fail, tables
<1>9. ASSUME NEW i \in Calls,
             \/ Come(i) \/ UpsertContact(i) \/ Unblock(i) \/ (Settles(i) /\ ~Discard(i))
             \/ Reply(i) \/ Compose(i) \/ Dispatch(i) \/ WriteOutcome(i) \/ Throw(i) \/ Die(i)
      PROVE  UNCHANGED <<conv, stored>>
  BY <1>9, SettledRest DEF Come, ArriveEvent, ArriveSend, ArriveStart, ArriveLink,
     UpsertContact, Unblock, Reply, Compose, Dispatch, WriteOutcome, Throw, Die, tables
<1>10. ASSUME NEW c \in Customers, SetBlocked(c)  PROVE UNCHANGED <<conv, stored>>
  BY <1>10 DEF SetBlocked
<1>11. ASSUME NEW o \in Outbound, NEW s \in Reports, Report(o, s) \/ ApplyStatus(o, s)
       PROVE  UNCHANGED <<conv, stored>>
  BY <1>11 DEF Report, ApplyStatus
<1>12. UNCHANGED vars => UNCHANGED <<conv, stored>>
  BY DEF vars, tables
<1> QED BY <1>1, <1>3, <1>4, <1>5, <1>6, <1>7, <1>8, <1>9, <1>10, <1>11, <1>12
        DEF Next, Proceed, Settles

(***************************************************************************)
(* The time from which the 24-hour window of a conversation counts is the  *)
(* time of its newest message, in whatever order and however often the     *)
(* messages are delivered.                                                 *)
(***************************************************************************)
THEOREM WindowCorrect == Spec => []WindowFromNewest
<1>1. Init => WindowFromNewest
  BY DEF Init, WindowFromNewest, NoConv
<1>2. BaseInv /\ WindowFromNewest /\ [Next]_vars => WindowFromNewest'
  BY NextWindow
<1> QED BY <1>1, <1>2, BaseCorrect, PTL DEF Spec

----------------------------------------------------------------------------
(* Customers and leads.                                                    *)

LEMMA ChosenKnown ==
  ASSUME Types
  PROVE  /\ Chosen \subseteq KnownLeads \union {NoLead}
         /\ Reached \subseteq KnownLeads \union {NoLead}
         /\ Linkable \subseteq Leads \union {NoLead}
         /\ (Linkable \union {NoLead}) \intersect NewLeads \subseteq history.won
<1>1. world \in Worlds /\ history.won \subseteq Leads
  BY DEF Types, LeadsOK
<1>2. Chosen \subseteq KnownLeads \union {NoLead}
  BY <1>1, WorldFacts, ConstantFacts DEF Chosen
<1>3. Reached \subseteq KnownLeads \union {NoLead}
  BY <1>2, VisibleType DEF Reached, Leads
<1> QED BY <1>1, <1>2, <1>3, ConstantFacts DEF Linkable, Leads

\* Where a lead from before leads to does not change.
LEMMA ReachedStays ==
  ASSUME Types, world' = world
  PROVE  Chosen' = Chosen /\ Reached' = Reached
<1>1. Chosen' = Chosen
  BY DEF Chosen
<1>2. ASSUME NEW l \in KnownLeads \union {NoLead}
      PROVE  Visible(l)' = Visible(l)
  <2>1. CASE l \in KnownLeads
    BY <2>1, EndType DEF Visible, Exists, Leads
  <2>2. CASE l = NoLead
    BY <2>2, EndType, ConstantFacts DEF Visible, Exists, Leads
  <2> QED BY <2>1, <2>2
<1>3. \A l \in Chosen : Visible(l)' = Visible(l)
  BY <1>2, ChosenKnown
<1> QED BY <1>1, <1>3 DEF Reached

LEMMA UnmergedStays ==
  ASSUME NEW l \in Unmerged
  PROVE  End(l) = l /\ Hop(l) = l /\ Visible(l) = l
<1>1. Hop(l) = l /\ l \in KnownLeads
  BY DEF Unmerged, Hop
<1> QED BY <1>1 DEF End, Visible, Exists

\* What a contact holds can be followed to what may be filed on.
LEMMA FollowLinkable ==
  ASSUME Types, WonInv, NEW l \in Linkable \union {NoLead}
  PROVE  Visible(l) \in Filable
<1>0. l \in Leads \union {NoLead}
  BY ChosenKnown
<1>1. CASE l \in history.won
  <2>1. CASE l \in NewLeads
    BY <1>0, <1>1, <2>1, VisibleType, ConstantFacts DEF Filable, Leads
  <2>2. CASE l \in Unmerged
    BY <1>1, <2>2, UnmergedStays DEF Filable
  <2> QED BY <1>1, <2>1, <2>2 DEF WonInv
<1>2. CASE l \in Chosen
  BY <1>2 DEF Filable, Reached
<1>3. CASE l = NoLead
  BY <1>3, VisibleType, ConstantFacts DEF Filable, Exists, Leads
<1>4. CASE l \in Reached /\ l # NoLead
  <2>1. PICK k \in Chosen : l = Visible(k)
    BY <1>4 DEF Reached
  <2>2. l = End(k) /\ Hop(l) = l /\ Exists(l)
    BY <1>4, <2>1 DEF Visible
  <2>3. End(l) = l
    BY <2>2 DEF End
  <2> QED BY <1>4, <2>2, <2>3 DEF Visible, Filable
<1> QED BY <1>1, <1>2, <1>3, <1>4 DEF Linkable

LEMMA CallsType ==
  ASSUME Types, NEW i \in Calls
  PROVE  /\ calls[i] \in Call /\ calls[i].new \in NewLeads \union {NoLead}
         /\ calls[i].pc \in WebhookAt => /\ From[calls[i].of] \in Customers
                                         /\ calls[i].of \in Inbound
  BY WebhookOf DEF Types, CallsOK, Call

\* No step but on the lead of a contact, an owner or what is won matters to
\* what a call holds.
LEMMA StillRightful ==
  ASSUME Types, LinkInv, NEW r, Rightful(r),
         r.pc \in {"winner", "discard"} => From[r.of] \in Customers,
         \A c \in Customers : contact'[c].lead = contact[c].lead,
         UNCHANGED <<owner, world>>, history'.won = history.won
  PROVE  Rightful(r)'
<1>1. Linkable' = Linkable
  BY ReachedStays DEF Linkable
<1>2. UNCHANGED <<Unmerged, Undecided>>
  BY DEF Unmerged, Undecided
<1> QED BY <1>1, <1>2 DEF Rightful

LEMMA LinkFrame ==
  ASSUME Types, LinkInv,
         \A c \in Customers : contact'[c].lead = contact[c].lead,
         UNCHANGED <<owner, world>>, history'.won = history.won,
         NEW i \in Calls, NEW r, calls' = [calls EXCEPT ![i] = r],
         Rightful(r), r.new \in {NoLead, calls[i].new},
         r.pc \in {"winner", "discard"} => From[r.of] \in Customers
  PROVE  LinkInv'
<1>1. Linkable' = Linkable
  BY ReachedStays DEF Linkable
<1>2. \A j \in Calls : calls'[j] = calls[j] \/ (j = i /\ calls'[j] = r)
  BY DEF Types, CallsOK
<1>3. \A j \in Calls : Rightful(calls[j])'
  <2> SUFFICES ASSUME NEW j \in Calls PROVE Rightful(calls[j])'
    OBVIOUS
  <2>1. Rightful(calls[j]) /\ Rightful(r)
    BY DEF LinkInv
  <2>2. PICK s : s = calls'[j]
    OBVIOUS
  <2>3. Rightful(s) /\ (s.pc \in {"winner", "discard"} => From[s.of] \in Customers)
    BY <1>2, <2>1, <2>2, CallsType DEF WebhookAt
  <2>4. Rightful(s)'
    BY <2>3, StillRightful
  <2> QED BY <2>2, <2>4 DEF Rightful
<1>4. HandsApart'
  BY <1>2 DEF LinkInv, HandsApart
<1>5. ContactInv' /\ WonInv'
  <2>1. history'.won \subseteq NewLeads \union Unmerged
    BY DEF LinkInv, WonInv, Unmerged
  <2>2. \A l \in history.won \intersect NewLeads :
          owner[l] # NoOne => owner[l] \in Customers
    BY DEF Types, LeadsOK
  <2> QED BY <1>1, <2>1, <2>2 DEF LinkInv, ContactInv, WonInv, Unmerged
<1> QED BY <1>3, <1>4, <1>5 DEF LinkInv


LEMMA LinkStay ==
  ASSUME Types, LinkInv, UNCHANGED <<owner, world, calls>>, history'.won = history.won,
         \A c \in Customers : contact'[c].lead = contact[c].lead
  PROVE  LinkInv'
<1>1. CASE Calls = {}
  <2>1. Linkable' = Linkable /\ (\A l \in NewLeads : owner[l] # NoOne => owner[l] \in Customers)
    BY ReachedStays DEF Linkable, Types, LeadsOK
  <2> QED BY <1>1, <2>1 DEF LinkInv, ContactInv, WonInv, HandsApart, Unmerged
<1>2. ASSUME NEW i \in Calls  PROVE LinkInv'
  <2>1. PICK r : r = calls[i]
    OBVIOUS
  <2>2. calls' = [calls EXCEPT ![i] = r] /\ Rightful(r)
    BY <2>1 DEF Types, CallsOK, LinkInv
  <2>3. r.pc \in {"winner", "discard"} => From[r.of] \in Customers
    BY <2>1, CallsType DEF WebhookAt
  <2> QED BY <2>1, <2>2, <2>3, LinkFrame
<1> QED BY <1>1, <1>2

\* An agent's call, or one at rest, holds no lead of its own.
LEMMA OutsideRightful ==
  ASSUME NEW r, r.new = NoLead, r.pc \in SendAt \union {"idle", "relink"}
  PROVE  Rightful(r)
  BY DEF Rightful, SendAt, WebhookAt

LEMMA LinkOutside ==
  ASSUME Types, LinkInv, UNCHANGED <<owner, world>>, history'.won = history.won,
         \A c \in Customers : contact'[c].lead = contact[c].lead,
         NEW i \in Calls, NEW r, calls' = [calls EXCEPT ![i] = r],
         r.new = NoLead, r.pc \in SendAt \union {"idle", "relink"}
  PROVE  LinkInv'
<1>1. Rightful(r) /\ r.pc \notin {"winner", "discard"}
  BY OutsideRightful DEF SendAt
<1> QED BY <1>1, LinkFrame

LEMMA LinkAnswer ==
  ASSUME Types, LinkInv, UNCHANGED <<owner, world>>, history'.won = history.won,
         \A c \in Customers : contact'[c].lead = contact[c].lead,
         NEW i \in Calls, Answer(i)
  PROVE  LinkInv'
<1>1. Idle.new = NoLead /\ Idle.pc = "idle"
  BY DEF Idle
<1> QED BY <1>1, LinkOutside DEF Answer

\* A webhook's call that goes on with the lead it holds.
LEMMA LinkGoesOn ==
  ASSUME Types, LinkInv, UNCHANGED <<owner, world>>, history'.won = history.won,
         \A c \in Customers : contact'[c].lead = contact[c].lead,
         NEW i \in Calls, NEW r, calls' = [calls EXCEPT ![i] = r],
         r.of = calls[i].of, r.new = calls[i].new, r.lead = calls[i].lead,
         r.known = calls[i].known,
         \/ calls[i].pc = "conv" /\ r.pc = "store"
         \/ calls[i].pc = "store" /\ r.pc = "reply"
  PROVE  LinkInv'
<1>1. Rightful(calls[i])
  BY DEF LinkInv
<1>2. Rightful(r) /\ r.pc \notin {"winner", "discard"}
  BY <1>1 DEF Rightful, WebhookAt, Undecided
<1> QED BY <1>2, LinkFrame

\* An invitation or an agent links the contact to a lead from before.
LEMMA LinkTo ==
  ASSUME Types, LinkInv, UNCHANGED <<owner, world>>, history'.won = history.won,
         NEW c \in Customers, NEW l \in KnownLeads, l \in Chosen \union Reached,
         \A d \in Customers : contact'[d].lead = IF d = c THEN l ELSE contact[d].lead,
         NEW i \in Calls, NEW r, calls' = [calls EXCEPT ![i] = r],
         r.new = NoLead, r.pc \in {"relink", "start", "conv"},
         r.pc = "conv" => r.known \in Linkable \union {NoLead}
  PROVE  LinkInv'
<1>0. l # NoLead /\ l \notin NewLeads
  BY ConstantFacts DEF Leads
<1>1. Linkable' = Linkable
  BY ReachedStays DEF Linkable
<1>2. \A j \in Calls : calls'[j] = calls[j] \/ (j = i /\ calls'[j] = r)
  BY DEF Types, CallsOK
<1>3. UNCHANGED <<Unmerged, Undecided>>
  BY DEF Unmerged, Undecided
<1>4. Rightful(r)'
  BY <1>1, <1>3 DEF Rightful, Undecided, WebhookAt
<1>5. ASSUME NEW s, Rightful(s), s.new \in NewLeads \union {NoLead},
             s.pc \in {"winner", "discard"} => From[s.of] \in Customers
      PROVE  Rightful(s)'
  BY <1>0, <1>1, <1>3, <1>5 DEF Rightful
<1>6. \A j \in Calls : Rightful(calls[j])'
  <2> SUFFICES ASSUME NEW j \in Calls PROVE Rightful(calls[j])'
    OBVIOUS
  <2>1. PICK s : s = calls'[j]
    OBVIOUS
  <2>2. s = r \/ (Rightful(s) /\ s.new \in NewLeads \union {NoLead}
                  /\ (s.pc \in {"winner", "discard"} => From[s.of] \in Customers))
    BY <1>2, <2>1, CallsType DEF LinkInv, WebhookAt
  <2>3. Rightful(s)'
    BY <1>4, <1>5, <2>2
  <2> QED BY <2>1, <2>3 DEF Rightful
<1>7. HandsApart'
  BY <1>2 DEF LinkInv, HandsApart
<1>8. ContactInv'
  BY <1>0, <1>1 DEF LinkInv, ContactInv, Linkable
<1>9. WonInv'
  <2>1. \A k \in NewLeads : owner[k] # NoOne => owner[k] \in Customers
    BY DEF Types, LeadsOK
  <2> QED BY <1>0, <2>1 DEF LinkInv, WonInv, Unmerged
<1> QED BY <1>6, <1>7, <1>8, <1>9 DEF LinkInv

LEMMA ContactLink ==
  ASSUME Types, LinkInv, NEW i \in Calls,
         UpsertContact(i) \/ Unblock(i) \/ Reply(i)
  PROVE  LinkInv'
<1> DEFINE m == calls[i].of  c == From[m]
           row == [contact[c] EXCEPT !.there = TRUE]
           ends == m \in world.opened /\ m \in world.bare
<1>0. /\ calls[i] \in Call /\ c \in Customers /\ Rightful(calls[i])
      /\ UNCHANGED <<owner, world>> /\ history'.won = history.won
  BY CallsType DEF LinkInv, UpsertContact, Unblock, Reply, WebhookAt, tables
<1>00. \A d \in Customers : contact[d] \in Contact
  BY DEF Types, LeadsOK
<1>1. CASE UpsertContact(i)
  <2>1. \A d \in Customers : contact'[d].lead = contact[d].lead
    BY <1>0, <1>00, <1>1 DEF UpsertContact, Types, LeadsOK, Contact
  <2>2. CASE ends
    BY <1>0, <1>1, <2>1, <2>2, LinkAnswer DEF UpsertContact, Acknowledge
  <2>3. CASE ~ends
    <3> DEFINE pc == IF row.blocked /\ m \notin world.opened THEN "unblock" ELSE "resolve"
               r == [calls[i] EXCEPT !.known = row.lead, !.pc = pc]
    <3>1. calls' = [calls EXCEPT ![i] = r] /\ calls[i].pc = "contact"
      BY <1>1, <2>3 DEF UpsertContact
    <3>2. r.pc \in {"unblock", "resolve"} /\ r.new = calls[i].new /\ r.known = contact[c].lead
      BY <1>0, <1>00 DEF Call, Contact
    <3>3. calls[i].new = NoLead /\ contact[c].lead \in Linkable \union {NoLead}
      BY <1>0, <3>1 DEF Rightful, LinkInv, ContactInv
    <3> HIDE DEF r
    <3>4. Rightful(r) /\ r.pc \notin {"winner", "discard"}
      BY <3>2, <3>3 DEF Rightful
    <3> QED BY <1>0, <2>1, <3>1, <3>2, <3>3, <3>4, LinkFrame
  <2> QED BY <2>2, <2>3
<1>2. CASE Unblock(i)
  <2>1. \A d \in Customers : contact'[d].lead = contact[d].lead
    BY <1>0, <1>00, <1>2 DEF Unblock, Types, LeadsOK, Contact
  <2> DEFINE r == [calls[i] EXCEPT !.pc = "resolve"]
  <2>2. calls' = [calls EXCEPT ![i] = r] /\ calls[i].pc = "unblock"
    BY <1>2 DEF Unblock, Goto
  <2>3. r.pc = "resolve" /\ r.new = calls[i].new /\ r.known = calls[i].known
    BY <1>0 DEF Call
  <2>4. calls[i].new = NoLead /\ calls[i].known \in Linkable \union {NoLead}
    BY <1>0, <2>2 DEF Rightful, WebhookAt
  <2> HIDE DEF r
  <2>5. Rightful(r) /\ r.pc \notin {"winner", "discard"}
    BY <2>3, <2>4 DEF Rightful
  <2> QED BY <1>0, <2>1, <2>2, <2>3, <2>4, <2>5, LinkFrame
<1>3. CASE Reply(i)
  BY <1>0, <1>3, LinkAnswer DEF Reply, Acknowledge, tables
<1> QED BY <1>1, <1>2, <1>3

\* The lead an invitation names, or the one of the contact, at its end.
LEMMA LinkRead ==
  ASSUME Types, NEW i \in Calls, calls[i].pc \in WebhookAt
  PROVE  LET link == Visible(world.invited[calls[i].of])
             old  == Visible(calls[i].known)
         IN /\ link # NoLead => link \in KnownLeads /\ link \in Reached
            /\ old \in Leads \union {NoLead}
<1>1. /\ calls[i].of \in world.events /\ calls[i].of \in Inbound
      /\ calls[i].known \in Leads \union {NoLead} /\ From[calls[i].of] \in Customers
  BY WebhookOf DEF Types, Call
<1>2. world.invited[calls[i].of] \in KnownLeads \union {NoLead}
  BY <1>1, WorldFacts DEF Types, LeadsOK
<1>3. Visible(world.invited[calls[i].of]) \in KnownLeads \union {NoLead}
  BY <1>2, VisibleType DEF Leads
<1>4. world.invited[calls[i].of] \in Chosen
  BY <1>1 DEF Chosen
<1> QED BY <1>1, <1>3, <1>4, VisibleType DEF Reached

\* A lead is created with an identity that nobody holds.
LEMMA CreateLink ==
  ASSUME Types, LinkInv, NEW i \in Calls, calls[i].pc = "create",
         NEW n \in Fresh, owner' = [owner EXCEPT ![n] = From[calls[i].of]],
         calls' = [calls EXCEPT ![i] = [calls[i] EXCEPT !.lead = n, !.new = n, !.pc = "claim"]],
         UNCHANGED <<contact, history, world>>
  PROVE  LinkInv'
<1> DEFINE c == From[calls[i].of]
           r == [calls[i] EXCEPT !.lead = n, !.new = n, !.pc = "claim"]
<1>0. /\ calls[i] \in Call /\ c \in Customers /\ n \in NewLeads /\ n # NoLead
      /\ Rightful(calls[i]) /\ owner[n] = NoOne /\ n \notin history.won
      /\ c # NoOne
  BY CallsType, ConstantFacts DEF LinkInv, Fresh, WebhookAt, Leads
<1>1. Linkable' = Linkable
  BY ReachedStays DEF Linkable
<1>2. UNCHANGED <<Unmerged, Undecided>>
  BY DEF Unmerged, Undecided
<1>3. \A k \in NewLeads : owner'[k] = IF k = n THEN c ELSE owner[k]
  BY <1>0 DEF Types, LeadsOK
<1>4. \A j \in Calls : j # i => calls'[j] = calls[j]
  BY DEF Types, CallsOK
<1>5. r.pc = "claim" /\ r.new = n /\ r.lead = n /\ r.of = calls[i].of /\ r.known = calls[i].known
  BY <1>0 DEF Call
<1>6. calls'[i] = r
  BY DEF Types, CallsOK
<1>7. \A j \in Calls : calls[j].new # n
  <2> SUFFICES ASSUME NEW j \in Calls, calls[j].new = n PROVE FALSE
    OBVIOUS
  <2>1. Rightful(calls[j])
    BY DEF LinkInv
  <2>2. owner[n] = From[calls[j].of] /\ calls[j].pc \in WebhookAt
    BY <1>0, <2>1 DEF Rightful, WebhookAt
  <2> QED BY <1>0, <2>2, CallsType, ConstantFacts
<1> HIDE DEF r
<1>8. \A j \in Calls : Rightful(calls[j])'
  <2> SUFFICES ASSUME NEW j \in Calls PROVE Rightful(calls[j])'
    OBVIOUS
  <2>1. CASE j = i
    <3>1. r.known \in Linkable \union {NoLead}
      BY <1>0, <1>5 DEF Rightful, WebhookAt
    <3> QED BY <1>0, <1>1, <1>2, <1>3, <1>5, <1>6, <2>1, <3>1 DEF Rightful, Undecided
  <2>2. CASE j # i
    <3>1. Rightful(calls[j]) /\ calls[j].new # n /\ calls[j].lead # n
          /\ calls[j].new \in NewLeads \union {NoLead} /\ calls'[j] = calls[j]
      BY <1>4, <1>7, <2>2, CallsType DEF LinkInv, Fresh
    <3>2. PICK s : s = calls[j]
      OBVIOUS
    <3>3. Rightful(s) /\ s.new # n /\ s.lead # n /\ s.new \in NewLeads \union {NoLead}
      BY <3>1, <3>2
    <3>4. Rightful(s)'
      BY <1>1, <1>2, <1>3, <3>3 DEF Rightful
    <3> QED BY <3>1, <3>2, <3>4 DEF Rightful
  <2> QED BY <2>1, <2>2
<1>9. HandsApart'
  BY <1>4, <1>5, <1>6, <1>7 DEF LinkInv, HandsApart
<1>10. ContactInv'
  <2>1. \A d \in Customers : contact[d].lead # n
    BY <1>0, ChosenKnown DEF LinkInv, ContactInv
  <2> QED BY <1>1, <1>3, <2>1 DEF LinkInv, ContactInv
<1>11. WonInv'
  BY <1>0, <1>2, <1>3 DEF LinkInv, WonInv
<1> QED BY <1>8, <1>9, <1>10, <1>11 DEF LinkInv

LEMMA ResolveLink ==
  ASSUME Types, LinkInv, NEW i \in Calls, ResolveLead(i)
  PROVE  LinkInv'
<1> DEFINE c == From[calls[i].of]
<1> PICK link : link = Visible(world.invited[calls[i].of])
  OBVIOUS
<1>0. /\ calls[i] \in Call /\ c \in Customers /\ Rightful(calls[i])
      /\ calls[i].pc = "resolve" /\ UNCHANGED <<owner, history, world>>
  BY CallsType DEF LinkInv, ResolveLead, WebhookAt
<1>1. /\ calls[i].known \in Linkable \union {NoLead} /\ calls[i].new = NoLead
      /\ link # NoLead => link \in KnownLeads /\ link \in Reached
  <2>1. calls[i].known \in Linkable \union {NoLead} /\ calls[i].new = NoLead
    BY <1>0 DEF Rightful, WebhookAt
  <2> QED BY <1>0, <2>1, LinkRead DEF WebhookAt
<1>2. PICK r : /\ calls' = [calls EXCEPT ![i] = r] /\ r.pc \in {"conv", "match"}
               /\ r.new = NoLead /\ r.known = calls[i].known
               /\ r.pc = "match" => contact' = contact
  <2>1. ASSUME NEW l, calls' = [calls EXCEPT ![i].lead = l, ![i].pc = "conv"]
        PROVE  \E r : /\ calls' = [calls EXCEPT ![i] = r] /\ r.pc = "conv"
                      /\ r.new = NoLead /\ r.known = calls[i].known
    <3>1. PICK r : r = [calls[i] EXCEPT !.lead = l, !.pc = "conv"]
      OBVIOUS
    <3>2. r.pc = "conv" /\ r.new = NoLead /\ r.known = calls[i].known
      BY <1>0, <1>1, <3>1 DEF Call
    <3> QED BY <2>1, <3>1, <3>2
  <2>2. CASE Goto(i, "match") /\ contact' = contact
    <3>1. PICK r : r = [calls[i] EXCEPT !.pc = "match"]
      OBVIOUS
    <3>2. r.pc = "match" /\ r.new = NoLead /\ r.known = calls[i].known
      BY <1>0, <1>1, <3>1 DEF Call
    <3> QED BY <2>2, <3>1, <3>2 DEF Goto
  <2>3. \/ \E l : calls' = [calls EXCEPT ![i].lead = l, ![i].pc = "conv"]
        \/ Goto(i, "match") /\ contact' = contact
    BY DEF ResolveLead
  <2> QED BY <2>1, <2>2, <2>3
<1>3. Rightful(r) /\ r.pc \notin {"winner", "discard"}
  BY <1>1, <1>2 DEF Rightful
<1>4. CASE contact' = contact
  BY <1>0, <1>2, <1>3, <1>4, LinkFrame
<1>5. CASE contact' # contact
  <2>1. link # NoLead /\ contact' = [contact EXCEPT ![c].lead = link]
    BY <1>5 DEF ResolveLead
  <2>2. \A d \in Customers : contact'[d].lead = IF d = c THEN link ELSE contact[d].lead
    BY <1>0, <2>1 DEF Types, LeadsOK, Contact
  <2> QED BY <1>0, <1>1, <1>2, <1>5, <2>1, <2>2, LinkTo
<1> QED BY <1>4, <1>5

\* A match is unmerged, or was created for the same customer.
LEMMA MatchLink ==
  ASSUME Types, LinkInv, NEW i \in Calls, MatchLead(i)
  PROVE  LinkInv'
<1> DEFINE c == From[calls[i].of]
<1>0. /\ calls[i] \in Call /\ c \in Customers /\ Rightful(calls[i]) /\ world \in Worlds
      /\ calls[i].pc = "match" /\ UNCHANGED <<contact, owner, history, world>>
  BY CallsType DEF LinkInv, MatchLead, WebhookAt, tables, Types, LeadsOK
<1>1. calls[i].known \in Linkable \union {NoLead} /\ calls[i].new = NoLead
  BY <1>0 DEF Rightful, WebhookAt
<1>2. ASSUME NEW pc \in {"create", "conv"}, Goto(i, pc)  PROVE LinkInv'
  <2>1. PICK r : r = [calls[i] EXCEPT !.pc = pc]
    OBVIOUS
  <2>2. r.pc = pc /\ r.new = NoLead /\ r.known = calls[i].known
    BY <1>0, <1>1, <2>1 DEF Call
  <2>3. Rightful(r)
    BY <1>1, <2>2 DEF Rightful
  <2>4. calls' = [calls EXCEPT ![i] = r]
    BY <1>2, <2>1 DEF Goto
  <2> QED BY <1>0, <2>2, <2>3, <2>4, LinkFrame
<1>3. ASSUME NEW l \in Matches(c), calls' = [calls EXCEPT ![i].lead = l, ![i].pc = "claim"]
      PROVE  LinkInv'
  <2>1. PICK r : r = [calls[i] EXCEPT !.lead = l, !.pc = "claim"]
    OBVIOUS
  <2>2. /\ r.pc = "claim" /\ r.new = NoLead /\ r.lead = l /\ r.known = calls[i].known
        /\ r.of = calls[i].of
    BY <1>0, <1>1, <2>1 DEF Call
  <2>3. /\ l \in NewLeads \union Unmerged
        /\ l \in NewLeads => owner[l] = c /\ world.phones # {}
    BY <1>0, MatchType
  <2>4. Rightful(r)
    BY <1>1, <2>2, <2>3 DEF Rightful
  <2>5. calls' = [calls EXCEPT ![i] = r]
    BY <1>3, <2>1
  <2> QED BY <1>0, <2>2, <2>4, <2>5, LinkFrame
<1> QED BY <1>2, <1>3 DEF MatchLead

\* The contact is free: the call wins it, and nobody has won a lead for this
\* customer before.
LEMMA WinLink ==
  ASSUME Types, LinkInv, NEW i \in Calls, calls[i].pc = "claim",
         contact[From[calls[i].of]].lead = NoLead, Exists(calls[i].lead),
         contact' = [contact EXCEPT ![From[calls[i].of]].lead = calls[i].lead],
         history' = [history EXCEPT !.won = @ \union {calls[i].lead}],
         calls' = [calls EXCEPT ![i] = [calls[i] EXCEPT !.pc = "conv"]],
         UNCHANGED <<owner, world>>
  PROVE  LinkInv'
<1> DEFINE c == From[calls[i].of]
<1> PICK l : l = calls[i].lead
  OBVIOUS
<1> PICK r : r = [calls[i] EXCEPT !.pc = "conv"]
  OBVIOUS
<1>0. /\ calls[i] \in Call /\ c \in Customers /\ Rightful(calls[i]) /\ l \in Leads
      /\ l # NoLead /\ c # NoOne
  <2>1. l \in Leads
    BY DEF Exists, Leads
  <2> QED BY <2>1, CallsType, ConstantFacts DEF LinkInv, WebhookAt
<1>1. history'.won = history.won \union {l} /\ history.won \subseteq Leads
  BY DEF Types, LeadsOK
<1>2. /\ l \in NewLeads \union Unmerged
      /\ l \in NewLeads => owner[l] = c
      /\ calls[i].new # NoLead => calls[i].new = l
      /\ calls[i].known \in Linkable \union {NoLead}
      /\ calls[i].new # NoLead => owner[calls[i].new] = c
  <2>1. l \in NewLeads => owner[l] # NoOne
    BY ConstantFacts DEF Exists
  <2> QED BY <1>0, <2>1 DEF Rightful, WebhookAt
<1>3. Linkable' = Linkable \union {l}
  BY <1>1, ReachedStays DEF Linkable
<1>4. UNCHANGED <<Unmerged, Undecided>>
  BY DEF Unmerged, Undecided
<1>5. \A d \in Customers : contact'[d].lead = IF d = c THEN l ELSE contact[d].lead
  BY <1>0 DEF Types, LeadsOK, Contact
<1>6. calls'[i] = r /\ (\A j \in Calls : j # i => calls'[j] = calls[j])
  BY DEF Types, CallsOK
<1>7. r.pc = "conv" /\ r.new = calls[i].new /\ r.lead = l /\ r.of = calls[i].of /\ r.known = calls[i].known
  BY <1>0 DEF Call
<1>8. Rightful(r)'
  BY <1>1, <1>2, <1>3, <1>4, <1>7 DEF Rightful, Undecided
<1>9. ASSUME NEW s, Rightful(s), s.new \in NewLeads \union {NoLead},
             s.pc \in {"winner", "discard"} => From[s.of] \in Customers,
             s.new # NoLead /\ world.phones = {} => s.new # l
      PROVE  Rightful(s)'
  <2>1. s.pc \in {"winner", "discard"} => From[s.of] # c
    BY <1>9 DEF Rightful
  <2>2. s.pc \in {"winner", "discard"} =>
          contact'[From[s.of]].lead = contact[From[s.of]].lead
    BY <1>5, <1>9, <2>1
  <2> QED BY <1>1, <1>3, <1>4, <1>9, <2>2 DEF Rightful
<1>10. \A j \in Calls : Rightful(calls[j])'
  <2> SUFFICES ASSUME NEW j \in Calls PROVE Rightful(calls[j])'
    OBVIOUS
  <2>1. PICK s : s = calls'[j]
    OBVIOUS
  <2>2. CASE j = i
    BY <1>6, <1>8, <2>1, <2>2 DEF Rightful
  <2>3. ASSUME j # i, world.phones = {}, calls[j].new # NoLead  PROVE calls[j].new # l
    <3>1. CASE l \in NewLeads
      <4>1. calls[i].new = l
        BY <1>0, <2>3, <3>1 DEF Rightful
      <4> QED BY <1>0, <2>3, <4>1 DEF LinkInv, HandsApart
    <3>2. CASE l \notin NewLeads
      BY <2>3, <3>2, CallsType
    <3> QED BY <3>1, <3>2
  <2>4. CASE j # i
    <3>1. /\ Rightful(s) /\ s.new \in NewLeads \union {NoLead}
          /\ s.pc \in {"winner", "discard"} => From[s.of] \in Customers
          /\ s.new # NoLead /\ world.phones = {} => s.new # l
      BY <1>6, <2>1, <2>3, <2>4, CallsType DEF LinkInv, WebhookAt
    <3>2. Rightful(s)'
      BY <1>9, <3>1
    <3> QED BY <2>1, <3>2 DEF Rightful
  <2> QED BY <2>2, <2>4
<1>11. HandsApart'
  BY <1>6, <1>7 DEF LinkInv, HandsApart
<1>12. ContactInv'
  BY <1>2, <1>3, <1>5 DEF LinkInv, ContactInv
<1>13. WonInv'
  <2>1. \A k \in NewLeads : owner[k] # NoOne => owner[k] \in Customers
    BY DEF Types, LeadsOK
  <2>2. \A k \in history.won \intersect NewLeads : owner[k] # c
    BY <1>0 DEF LinkInv, WonInv
  <2>3. \A k \in history'.won \intersect NewLeads :
          owner[k] # NoOne => contact'[owner[k]].lead # NoLead
    BY <1>0, <1>1, <1>2, <1>5, <2>1 DEF LinkInv, WonInv
  <2>4. \A k, n \in history'.won \intersect NewLeads :
          owner[k] = owner[n] /\ owner[k] # NoOne => k = n
    BY <1>1, <1>2, <2>2 DEF LinkInv, WonInv
  <2> QED BY <1>1, <1>2, <1>4, <2>3, <2>4 DEF LinkInv, WonInv
<1> QED BY <1>10, <1>11, <1>12, <1>13 DEF LinkInv

\* The conditional UPDATE wins the contact, or finds it linked.
LEMMA ClaimLink ==
  ASSUME Types, LinkInv, NEW i \in Calls, Claim(i)
  PROVE  LinkInv'
<1> DEFINE c == From[calls[i].of]
<1>1. calls[i].pc = "claim"
  BY DEF Claim
<1>2. \/ /\ contact[c].lead = NoLead /\ Exists(calls[i].lead)
         /\ contact' = [contact EXCEPT ![c].lead = calls[i].lead]
         /\ history' = [history EXCEPT !.won = @ \union {calls[i].lead}]
         /\ calls' = [calls EXCEPT ![i] = [calls[i] EXCEPT !.pc = "conv"]]
         /\ UNCHANGED <<owner, world>>
      \/ Answer(i) /\ UNCHANGED <<contact, owner, history, world>>
      \/ /\ contact[c].lead # NoLead /\ Goto(i, "winner")
         /\ UNCHANGED <<contact, owner, history, world>>
  BY DEF Claim, Goto, Fail, tables
<1>3. CASE /\ contact[c].lead # NoLead /\ Goto(i, "winner")
           /\ UNCHANGED <<contact, owner, history, world>>
  <2>1. PICK r : r = [calls[i] EXCEPT !.pc = "winner"]
    OBVIOUS
  <2>2. calls[i] \in Call /\ c \in Customers /\ Rightful(calls[i])
    BY <1>1, CallsType DEF WebhookAt, LinkInv
  <2>3. /\ r.pc = "winner" /\ r.lead = calls[i].lead /\ r.new = calls[i].new
        /\ r.of = calls[i].of /\ r.known = calls[i].known
    BY <2>1, <2>2 DEF Call
  <2>4. Rightful(r)
    BY <1>1, <1>3, <2>2, <2>3 DEF Rightful, WebhookAt, Undecided
  <2>5. calls' = [calls EXCEPT ![i] = r]
    BY <1>3, <2>1 DEF Goto
  <2> QED BY <1>3, <2>2, <2>3, <2>4, <2>5, LinkFrame
<1> QED BY <1>1, <1>2, <1>3, WinLink, LinkAnswer

\* The contact holds another lead, or the one the call has: then it was won.
LEMMA WinnerLink ==
  ASSUME Types, LinkInv, NEW i \in Calls, ReadWinner(i)
  PROVE  LinkInv'
<1> DEFINE c == From[calls[i].of]
<1> PICK w : w = contact[c].lead
  OBVIOUS
<1> PICK pc : pc = IF calls[i].new # NoLead /\ w # calls[i].new THEN "discard"
                   ELSE IF w \notin {NoLead, calls[i].lead} THEN "follow" ELSE "conv"
  OBVIOUS
<1> PICK r : r = [calls[i] EXCEPT !.known = w, !.pc = pc]
  OBVIOUS
<1>0. /\ calls[i] \in Call /\ c \in Customers /\ Rightful(calls[i]) /\ calls[i].pc = "winner"
      /\ calls' = [calls EXCEPT ![i] = r] /\ UNCHANGED <<contact, owner, history, world>>
  BY CallsType DEF LinkInv, ReadWinner, WebhookAt, tables
<1>1. /\ r.pc = pc /\ r.known = w /\ r.lead = calls[i].lead /\ r.new = calls[i].new
      /\ r.of = calls[i].of
  BY <1>0 DEF Call
<1>2. w \in Linkable \union {NoLead} /\ w # NoLead
  BY <1>0 DEF LinkInv, ContactInv, Rightful
<1>3. w \in NewLeads => w \in history.won
  BY <1>2, ChosenKnown
<1>4. /\ calls[i].new # NoLead => owner[calls[i].new] = c
      /\ calls[i].new \in NewLeads \union {NoLead}
      /\ world.phones = {} /\ calls[i].new # NoLead => calls[i].new \notin history.won
  BY <1>0, CallsType DEF Rightful, Undecided
<1>5. Rightful(r)
  BY <1>0, <1>1, <1>2, <1>3, <1>4 DEF Rightful, WebhookAt, Undecided
<1> QED BY <1>0, <1>1, <1>5, LinkFrame

LEMMA FollowLink ==
  ASSUME Types, LinkInv, NEW i \in Calls, FollowWinner(i)
  PROVE  LinkInv'
<1> PICK l : l = IF Visible(calls[i].known) # NoLead THEN Visible(calls[i].known)
                 ELSE calls[i].lead
  OBVIOUS
<1> PICK r : r = [calls[i] EXCEPT !.pc = "conv", !.lead = l]
  OBVIOUS
<1>0. /\ calls[i] \in Call /\ Rightful(calls[i]) /\ calls[i].pc = "follow"
      /\ calls' = [calls EXCEPT ![i] = r] /\ UNCHANGED <<contact, owner, history, world>>
  BY CallsType DEF LinkInv, FollowWinner, tables
<1>1. r.pc = "conv" /\ r.new = calls[i].new /\ r.known = calls[i].known
  BY <1>0 DEF Call
<1>2. Rightful(r) /\ r.new = NoLead
  BY <1>0, <1>1 DEF Rightful, WebhookAt
<1> QED BY <1>0, <1>1, <1>2, LinkFrame

\* No contact holds the lead that is taken back.
LEMMA DiscardLink ==
  ASSUME Types, LinkInv, NEW i \in Calls, Discard(i)
  PROVE  /\ LinkInv'
         /\ \A d \in Customers : contact'[d].lead = contact[d].lead
<1> DEFINE c == From[calls[i].of]
<1> PICK gone : gone = calls[i].new
  OBVIOUS
<1> PICK r : r = [calls[i] EXCEPT !.pc = "follow", !.lead = NoLead, !.new = NoLead]
  OBVIOUS
<1>0. /\ calls[i] \in Call /\ c \in Customers /\ Rightful(calls[i])
      /\ calls[i].pc = "discard" /\ calls' = [calls EXCEPT ![i] = r]
      /\ UNCHANGED <<history, world>> /\ owner' = [owner EXCEPT ![gone] = NoOne]
      /\ contact' = [d \in Customers |-> [contact[d] EXCEPT !.lead =
                       IF contact[d].lead = gone THEN NoLead ELSE contact[d].lead]]
  BY CallsType DEF LinkInv, Discard, WebhookAt
<1>1. /\ gone \in NewLeads /\ gone # NoLead /\ owner[gone] = c
      /\ contact[c].lead # gone /\ calls[i].known \in Linkable \union {NoLead}
      /\ calls[i].known # NoLead
  BY <1>0, CallsType DEF Rightful, WebhookAt
<1>2. \A d \in Customers : contact[d].lead # gone
  BY <1>1 DEF LinkInv, ContactInv
<1>3. \A d \in Customers : contact'[d].lead = contact[d].lead
  BY <1>0, <1>2 DEF Types, LeadsOK, Contact
<1>4. \A k \in NewLeads : owner'[k] = IF k = gone THEN NoOne ELSE owner[k]
  BY <1>0 DEF Types, LeadsOK
<1>5. Linkable' = Linkable
  BY <1>0, ReachedStays DEF Linkable
<1>6. UNCHANGED <<Unmerged, Undecided>>
  BY DEF Unmerged, Undecided
<1>7. calls'[i] = r /\ (\A j \in Calls : j # i => calls'[j] = calls[j])
  BY <1>0 DEF Types, CallsOK
<1>8. r.pc = "follow" /\ r.new = NoLead /\ r.known = calls[i].known
  <2>1. PICK q : q = [calls[i] EXCEPT !.pc = "follow", !.lead = NoLead]
    OBVIOUS
  <2>2. q \in Call /\ r = [q EXCEPT !.new = NoLead] /\ q.pc = "follow" /\ q.known = calls[i].known
    BY <1>0, <2>1 DEF Call, WebhookAt
  <2> QED BY <2>2 DEF Call
<1>9. Rightful(r)'
  BY <1>1, <1>5, <1>6, <1>8 DEF Rightful, Undecided
<1>10. ASSUME NEW s, Rightful(s), s.new \in NewLeads \union {NoLead}, s.new # gone,
              s.pc \in {"winner", "discard"} => From[s.of] \in Customers
       PROVE  Rightful(s)'
  BY <1>0, <1>3, <1>4, <1>5, <1>6, <1>10 DEF Rightful
<1>11. \A j \in Calls : Rightful(calls[j])'
  <2> SUFFICES ASSUME NEW j \in Calls PROVE Rightful(calls[j])'
    OBVIOUS
  <2>1. PICK s : s = calls'[j]
    OBVIOUS
  <2>2. j # i => calls[j].new # gone
    BY <1>1 DEF LinkInv, HandsApart
  <2>3. s = r \/ (/\ Rightful(s) /\ s.new \in NewLeads \union {NoLead} /\ s.new # gone
                  /\ s.pc \in {"winner", "discard"} => From[s.of] \in Customers)
    BY <1>7, <2>1, <2>2, CallsType DEF LinkInv, WebhookAt
  <2>4. Rightful(s)'
    BY <1>9, <1>10, <2>3
  <2> QED BY <2>1, <2>4 DEF Rightful
<1>12. HandsApart'
  <2>1. \A j \in Calls : calls'[j].new \in {NoLead, calls[j].new}
    BY <1>7, <1>8
  <2> QED BY <2>1 DEF LinkInv, HandsApart
<1>13. ContactInv'
  BY <1>2, <1>3, <1>4, <1>5 DEF LinkInv, ContactInv
<1>14. WonInv'
  <2>1. \A k \in NewLeads : owner[k] # NoOne => owner[k] \in Customers
    BY DEF Types, LeadsOK
  <2>2. \A k \in NewLeads : owner'[k] # NoOne => owner'[k] = owner[k]
    BY <1>4
  <2>3. history' = history
    BY <1>0
  <2> QED BY <1>3, <1>6, <2>1, <2>2, <2>3 DEF LinkInv, WonInv
<1> QED BY <1>3, <1>11, <1>12, <1>13, <1>14 DEF LinkInv

LEMMA ConvLink ==
  ASSUME Types, LinkInv, NEW i \in Calls, UpsertConversation(i) \/ Store(i)
  PROVE  LinkInv'
<1>0. /\ calls[i] \in Call /\ UNCHANGED <<contact, owner, history, world>>
      /\ calls[i].pc \in {"conv", "store"}
  BY CallsType DEF UpsertConversation, Store, tables, Fail
<1>1. CASE Answer(i)
  BY <1>0, <1>1, LinkAnswer
<1>2. ASSUME NEW k, calls' = [calls EXCEPT ![i] = [calls[i] EXCEPT !.pc = "store", !.conv = k]],
             calls[i].pc = "conv"
      PROVE  LinkInv'
  <2>1. PICK r : r = [calls[i] EXCEPT !.pc = "store", !.conv = k]
    OBVIOUS
  <2>2. /\ r.pc = "store" /\ r.of = calls[i].of /\ r.new = calls[i].new
        /\ r.lead = calls[i].lead /\ r.known = calls[i].known
    BY <1>0, <2>1 DEF Call
  <2>3. calls' = [calls EXCEPT ![i] = r] /\ calls[i].pc = "conv"
    BY <1>2, <2>1
  <2> QED BY <1>0, <2>2, <2>3, LinkGoesOn
<1>3. CASE Goto(i, "reply") /\ calls[i].pc = "store"
  <2>1. PICK r : r = [calls[i] EXCEPT !.pc = "reply"]
    OBVIOUS
  <2>2. /\ r.pc = "reply" /\ r.of = calls[i].of /\ r.new = calls[i].new
        /\ r.lead = calls[i].lead /\ r.known = calls[i].known
    BY <1>0, <2>1 DEF Call
  <2>3. calls' = [calls EXCEPT ![i] = r] /\ calls[i].pc = "store"
    BY <1>3, <2>1 DEF Goto
  <2> QED BY <1>0, <2>2, <2>3, LinkGoesOn
<1>4. UpsertConversation(i) =>
        \/ Answer(i)
        \/ /\ calls[i].pc = "conv"
           /\ \E k : calls' = [calls EXCEPT ![i] = [calls[i] EXCEPT !.pc = "store", !.conv = k]]
  BY DEF UpsertConversation, Acknowledge
<1>5. Store(i) => Answer(i) \/ (Goto(i, "reply") /\ calls[i].pc = "store")
  BY DEF Store, Acknowledge, Fail
<1> QED BY <1>1, <1>2, <1>3, <1>4, <1>5

\* What arrives, and what the agents' calls do.
LEMMA CameLink ==
  ASSUME Types, LinkInv, NEW i \in Calls, Come(i)
  PROVE  LinkInv'
<1>0. \A d \in Customers : contact[d] \in Contact
  BY DEF Types, LeadsOK
<1>1. ASSUME NEW m \in world.events, ArriveEvent(i, m)  PROVE LinkInv'
  <2>1. PICK r : r = [Idle EXCEPT !.pc = "contact", !.of = m]
    OBVIOUS
  <2>2. r.pc = "contact" /\ r.new = NoLead /\ r.known = NoLead
    BY <2>1 DEF Idle
  <2>3. Rightful(r)
    BY <2>2 DEF Rightful
  <2>4. calls' = [calls EXCEPT ![i] = r] /\ UNCHANGED <<contact, owner, history, world>>
    BY <1>1, <2>1 DEF ArriveEvent, tables
  <2> QED BY <2>2, <2>3, <2>4, LinkFrame
<1>2. ASSUME NEW o \in world.sends, ArriveSend(i, o)  PROVE LinkInv'
  <2>1. PICK r : r = [Idle EXCEPT !.pc = "compose", !.of = o, !.conv = conv[To[o]].id]
    OBVIOUS
  <2>2. r.pc \in SendAt /\ r.new = NoLead
    BY <2>1 DEF Idle, SendAt
  <2>4. calls' = [calls EXCEPT ![i] = r] /\ UNCHANGED <<contact, owner, history, world>>
    BY <1>2, <2>1 DEF ArriveSend, tables
  <2> QED BY <2>2, <2>4, LinkOutside
<1>3. ASSUME NEW o \in world.sends, ArriveStart(i, o)  PROVE LinkInv'
  <2>1. PICK r : r = [Idle EXCEPT !.pc = "start", !.of = o]
    OBVIOUS
  <2>2. r.pc = "start" /\ r.new = NoLead
    BY <2>1 DEF Idle
  <2>3. calls' = [calls EXCEPT ![i] = r] /\ UNCHANGED <<owner, history, world>>
    BY <1>3, <2>1 DEF ArriveStart
  <2>4. StartFor[o] \in KnownLeads /\ StartFor[o] \in Chosen /\ To[o] \in Customers
    BY WorldFacts, ConstantFacts DEF Types, LeadsOK, Chosen
  <2>5. \A d \in Customers :
          contact'[d].lead = IF d = To[o] THEN StartFor[o] ELSE contact[d].lead
    BY <1>0, <1>3, <2>4 DEF ArriveStart, Types, LeadsOK, Contact
  <2> QED BY <2>2, <2>3, <2>4, <2>5, LinkTo
<1>4. ASSUME NEW c \in Customers, NEW l \in world.links, ArriveLink(i, c, l)  PROVE LinkInv'
  <2>1. PICK r : r = [Idle EXCEPT !.pc = "relink", !.lead = l, !.conv = conv[c].id]
    OBVIOUS
  <2>2. r.pc = "relink" /\ r.new = NoLead
    BY <2>1 DEF Idle
  <2>3. calls' = [calls EXCEPT ![i] = r] /\ UNCHANGED <<owner, history, world>>
    BY <1>4, <2>1 DEF ArriveLink
  <2>4. l \in KnownLeads /\ l \in Chosen
    BY WorldFacts DEF Types, LeadsOK, Chosen
  <2>5. \A d \in Customers : contact'[d].lead = IF d = c THEN l ELSE contact[d].lead
    BY <1>0, <1>4 DEF ArriveLink, Types, LeadsOK, Contact
  <2> QED BY <2>2, <2>3, <2>4, <2>5, LinkTo
<1> QED BY <1>1, <1>2, <1>3, <1>4 DEF Come

LEMMA AgentLink ==
  ASSUME Types, LinkInv, NEW i \in Calls,
         \/ Relink(i) \/ StartConversation(i) \/ Compose(i) \/ Drop(i)
         \/ Dispatch(i) \/ WriteOutcome(i) \/ Throw(i) \/ Touch(i)
  PROVE  LinkInv'
<1>1. /\ UNCHANGED <<contact, owner, history, world>> /\ calls[i] \in Call
      /\ calls[i].pc \in SendAt \union {"relink"}
  BY CallsType DEF Relink, StartConversation, Compose, Drop, Dispatch, WriteOutcome,
     Throw, Touch, SendAt, tables
<1>2. calls[i].new = NoLead
  BY <1>1 DEF LinkInv, Rightful, SendAt
<1>3. ASSUME NEW r, r.pc \in SendAt, r.new = calls[i].new, calls' = [calls EXCEPT ![i] = r]
      PROVE  LinkInv'
  BY <1>1, <1>2, <1>3, LinkOutside
<1>4. CASE Relink(i) \/ Drop(i)
  BY <1>1, <1>4, LinkAnswer DEF Relink, Drop
<1>5. ASSUME NEW pc \in SendAt, Goto(i, pc)  PROVE LinkInv'
  <2>1. PICK r : r = [calls[i] EXCEPT !.pc = pc]
    OBVIOUS
  <2>2. r.pc = pc /\ r.new = calls[i].new
    BY <1>1, <2>1 DEF Call
  <2>3. calls' = [calls EXCEPT ![i] = r]
    BY <1>5, <2>1 DEF Goto
  <2> QED BY <1>3, <2>2, <2>3
<1>6. CASE Compose(i)
  BY <1>1, <1>5, <1>6, LinkAnswer DEF Compose, SendAt
<1>7. CASE WriteOutcome(i)
  BY <1>5, <1>7 DEF WriteOutcome, SendAt
<1>8. CASE Dispatch(i)
  <2>1. PICK s : calls' = [calls EXCEPT ![i] = [calls[i] EXCEPT !.pc = "outcome", !.result = s]]
    BY <1>8 DEF Dispatch
  <2>2. PICK r : r = [calls[i] EXCEPT !.pc = "outcome", !.result = s]
    OBVIOUS
  <2>3. r.pc \in SendAt /\ r.new = calls[i].new
    BY <1>1, <2>2 DEF Call, SendAt
  <2>4. calls' = [calls EXCEPT ![i] = r]
    BY <2>1, <2>2
  <2> QED BY <1>3, <2>3, <2>4
<1>9. CASE StartConversation(i)
  <2>1. \E k : \E fresh : calls' = [calls EXCEPT ![i] =
               [calls[i] EXCEPT !.pc = "compose", !.fresh = fresh, !.conv = k]]
    <3>1. [calls[i] EXCEPT !.pc = "compose", !.conv = conv[To[calls[i].of]].id]
            = [calls[i] EXCEPT !.pc = "compose", !.fresh = calls[i].fresh,
                 !.conv = conv[To[calls[i].of]].id]
      BY <1>1 DEF Call
    <3>2. \/ calls' = [calls EXCEPT ![i] =
                [calls[i] EXCEPT !.pc = "compose", !.fresh = TRUE, !.conv = made + 1]]
          \/ calls' = [calls EXCEPT ![i] =
                [calls[i] EXCEPT !.pc = "compose", !.conv = conv[To[calls[i].of]].id]]
      BY <1>9 DEF StartConversation
    <3> QED BY <3>1, <3>2
  <2>2. PICK k, fresh : calls' = [calls EXCEPT ![i] =
               [calls[i] EXCEPT !.pc = "compose", !.fresh = fresh, !.conv = k]]
    BY <2>1
  <2>3. PICK r : r = [calls[i] EXCEPT !.pc = "compose", !.fresh = fresh, !.conv = k]
    OBVIOUS
  <2>4. r.pc \in SendAt /\ r.new = calls[i].new
    BY <1>1, <2>3 DEF Call, SendAt
  <2>5. calls' = [calls EXCEPT ![i] = r]
    BY <2>2, <2>3
  <2> QED BY <1>3, <2>4, <2>5
<1>10. CASE Throw(i) \/ Touch(i)
  BY <1>1, <1>5, <1>10, LinkAnswer DEF Throw, Touch, SendAt
<1> QED BY <1>4, <1>6, <1>7, <1>8, <1>9, <1>10

LEMMA OtherLink ==
  ASSUME Types, LinkInv,
         \/ \E i \in Calls : Die(i)
         \/ \E c \in Customers : SetBlocked(c) \/ MarkRead(c)
         \/ \E o \in Outbound, s \in Reports : Report(o, s) \/ ApplyStatus(o, s)
         \/ UNCHANGED vars
  PROVE  LinkInv'
<1>1. ASSUME NEW i \in Calls, Die(i)  PROVE LinkInv'
  <2>1. history'.won = history.won
    BY <1>1 DEF Die, Types, LeadsOK
  <2> QED BY <1>1, <2>1, LinkAnswer DEF Die, tables
<1>2. ASSUME NEW c \in Customers, SetBlocked(c)  PROVE LinkInv'
  <2>1. \A d \in Customers : contact'[d].lead = contact[d].lead
    BY <1>2 DEF SetBlocked, Types, LeadsOK, Contact
  <2> QED BY <1>2, <2>1, LinkStay DEF SetBlocked
<1>3. ASSUME UNCHANGED <<contact, owner, world, calls, history>>  PROVE LinkInv'
  BY <1>3, LinkStay
<1> QED BY <1>1, <1>2, <1>3 DEF MarkRead, Report, ApplyStatus, vars, tables

LEMMA NextLink == Types /\ LinkInv /\ [Next]_vars => LinkInv'
<1> SUFFICES ASSUME Types, LinkInv, [Next]_vars PROVE LinkInv'
  OBVIOUS
<1>1. ASSUME NEW i \in Calls, CreateLead(i)  PROVE LinkInv'
  <2>1. PICK n : n = CHOOSE l \in Fresh : TRUE
    OBVIOUS
  <2>2. /\ calls[i].pc = "create" /\ n \in Fresh
        /\ owner' = [owner EXCEPT ![n] = From[calls[i].of]]
        /\ calls' = [calls EXCEPT ![i] = [calls[i] EXCEPT !.lead = n, !.new = n, !.pc = "claim"]]
        /\ UNCHANGED <<contact, history, world>>
    BY <1>1, <2>1 DEF CreateLead
  <2> QED BY <2>2, CreateLink
<1>2. ASSUME NEW i \in Calls, Settles(i)  PROVE LinkInv'
  BY <1>1, <1>2, ResolveLink, MatchLink, ClaimLink, WinnerLink, FollowLink, DiscardLink DEF Settles
<1>3. ASSUME NEW i \in Calls, Proceed(i)  PROVE LinkInv'
  BY <1>2, <1>3, ContactLink, ConvLink, AgentLink DEF Proceed, Settles
<1> QED BY <1>3, CameLink, OtherLink DEF Next

LEMMA InitLink == Init => LinkInv
<1> SUFFICES ASSUME Init PROVE LinkInv
  OBVIOUS
<1>1. \A i \in Calls : calls[i] = Idle
  BY DEF Init
<1>2. \A i \in Calls : Rightful(calls[i])
  BY <1>1 DEF Idle, Rightful, WebhookAt
<1>3. ContactInv /\ WonInv /\ HandsApart
  BY <1>1, ConstantFacts DEF Init, ContactInv, WonInv, HandsApart, NoContact, Idle, Leads
<1> QED BY <1>2, <1>3 DEF LinkInv

LEMMA LinkCorrect == Spec => []LinkInv
<1>1. BaseInv => Types
  BY DEF BaseInv
<1> QED BY <1>1, BaseCorrect, InitLink, NextLink, PTL DEF Spec

\* A lead that exists was won, left by a call that died, or is in the hands of
\* a call.
HandInv ==
  \A l \in NewLeads : owner[l] # NoOne =>
    l \in history.won \union history.left \/ \E i \in Calls : calls[i].new = l

LEMMA HandStep ==
  ASSUME HandInv,
         \A l \in NewLeads : owner'[l] # NoOne =>
           owner[l] # NoOne \/ \E i \in Calls : calls'[i].new = l,
         history.won \subseteq history'.won, history.left \subseteq history'.left,
         \A i \in Calls, l \in NewLeads : calls[i].new = l =>
           \/ calls'[i].new = l \/ owner'[l] = NoOne
           \/ l \in history'.won \union history'.left
  PROVE  HandInv'
  BY DEF HandInv

\* What a call that ends leaves behind.
LEMMA HandAnswer ==
  ASSUME Types, HandInv, NEW i \in Calls, Answer(i), UNCHANGED owner,
         history.won \subseteq history'.won, history.left \subseteq history'.left,
         calls[i].new \in {NoLead} \union history'.won \union history'.left
  PROVE  HandInv'
<1>1. \A j \in Calls : j # i => calls'[j] = calls[j]
  BY DEF Answer, Types, CallsOK
<1>2. NoLead \notin NewLeads
  BY ConstantFacts DEF Leads
<1> QED BY <1>1, <1>2, HandStep

LEMMA HandGoesOn ==
  ASSUME Types, HandInv, NEW i \in Calls, NEW r, calls' = [calls EXCEPT ![i] = r],
         r.new = calls[i].new \/ calls[i].new = NoLead, UNCHANGED owner,
         history.won \subseteq history'.won, history.left \subseteq history'.left
  PROVE  HandInv'
<1>1. \A j \in Calls : calls'[j] = IF j = i THEN r ELSE calls[j]
  BY DEF Types, CallsOK
<1>2. NoLead \notin NewLeads
  BY ConstantFacts DEF Leads
<1> QED BY <1>1, <1>2, HandStep

\* Only a webhook that claims holds a lead that is not won.
LEMMA NewOf ==
  ASSUME Types, LinkInv, NEW i \in Calls, calls[i].new \notin history.won
  PROVE  calls[i].new = NoLead \/ calls[i].pc \in Undecided
<1>1. Rightful(calls[i])
  BY DEF LinkInv
<1> QED BY <1>1 DEF Rightful

LEMMA WebhookHand ==
  ASSUME Types, LinkInv, HandInv, NEW i \in Calls,
         \/ UpsertContact(i) \/ Unblock(i) \/ Settles(i)
         \/ UpsertConversation(i) \/ Store(i) \/ Reply(i)
  PROVE  HandInv'
<1>0. calls[i] \in Call /\ Rightful(calls[i]) /\ history.won \subseteq Leads
  BY CallsType DEF LinkInv, Types, LeadsOK
<1>1. CASE Answer(i) /\ UNCHANGED <<owner, history>> /\ calls[i].pc \notin Undecided
  <2>1. calls[i].new \in {NoLead} \union history.won
    BY <1>1, NewOf
  <2> QED BY <1>1, <2>1, HandAnswer
<1>2. ASSUME NEW pc, Goto(i, pc), UNCHANGED owner, history.won \subseteq history'.won,
             history.left \subseteq history'.left
      PROVE  HandInv'
  <2>1. PICK r : r = [calls[i] EXCEPT !.pc = pc]
    OBVIOUS
  <2>2. r.new = calls[i].new
    BY <1>0, <2>1 DEF Call
  <2>3. calls' = [calls EXCEPT ![i] = r]
    BY <1>2, <2>1 DEF Goto
  <2> QED BY <1>2, <2>2, <2>3, HandGoesOn
<1>3. CASE UpsertContact(i)
  <2>1. calls[i].pc = "contact" /\ UNCHANGED <<owner, history>>
    BY <1>3 DEF UpsertContact
  <2>2. CASE Answer(i)
    BY <1>1, <2>1, <2>2 DEF Undecided
  <2>3. ASSUME NEW known, NEW pc,
               calls' = [calls EXCEPT ![i] = [calls[i] EXCEPT !.known = known, !.pc = pc]]
        PROVE  HandInv'
    <3>1. PICK r : r = [calls[i] EXCEPT !.known = known, !.pc = pc]
      OBVIOUS
    <3>2. r.new = calls[i].new
      BY <1>0, <3>1 DEF Call
    <3>3. calls' = [calls EXCEPT ![i] = r]
      BY <2>3, <3>1
    <3> QED BY <2>1, <3>2, <3>3, HandGoesOn
  <2> DEFINE c == From[calls[i].of]
             row == [contact[c] EXCEPT !.there = TRUE]
             pc == IF row.blocked /\ calls[i].of \notin world.opened THEN "unblock" ELSE "resolve"
  <2>4. Answer(i) \/ calls' = [calls EXCEPT ![i] = [calls[i] EXCEPT !.known = row.lead, !.pc = pc]]
    BY <1>3 DEF UpsertContact, Acknowledge
  <2> HIDE DEF pc, row
  <2> QED BY <2>2, <2>3, <2>4
<1>4. CASE Unblock(i)
  BY <1>2, <1>4 DEF Unblock
<1>5. CASE CreateLead(i)
  <2> DEFINE n == CHOOSE l \in Fresh : TRUE
             r == [calls[i] EXCEPT !.lead = n, !.new = n, !.pc = "claim"]
  <2>1. /\ owner' = [owner EXCEPT ![n] = From[calls[i].of]] /\ UNCHANGED history
        /\ calls' = [calls EXCEPT ![i] = r] /\ Fresh # {} /\ calls[i].pc = "create"
    BY <1>5 DEF CreateLead
  <2>2. calls[i].new = NoLead
    BY <1>0, <2>1 DEF Rightful
  <2>3. r.new = n /\ n \in NewLeads
    <3> HIDE DEF n
    <3>1. r.new = n
      BY <1>0 DEF Call
    <3>2. n \in NewLeads
      BY <2>1 DEF Fresh, n
    <3> QED BY <3>1, <3>2
  <2> HIDE DEF n, r
  <2>4. \A j \in Calls : calls'[j] = IF j = i THEN r ELSE calls[j]
    BY <2>1 DEF Types, CallsOK
  <2>5. \A l \in NewLeads : l # n => owner'[l] = owner[l]
    BY <2>1, <2>3 DEF Types, LeadsOK
  <2>6. NoLead \notin NewLeads
    BY ConstantFacts DEF Leads
  <2>7. \A l \in NewLeads : owner'[l] # NoOne =>
          owner[l] # NoOne \/ \E j \in Calls : calls'[j].new = l
    BY <2>3, <2>4, <2>5
  <2>8. \A j \in Calls, l \in NewLeads : calls[j].new = l => calls'[j].new = l
    BY <2>2, <2>4, <2>6
  <2> QED BY <2>1, <2>7, <2>8, HandStep
<1>6. CASE Settles(i) /\ ~CreateLead(i) /\ ~Discard(i)
  <2>1. UNCHANGED owner /\ history.won \subseteq history'.won
        /\ history.left \subseteq history'.left
    BY <1>6 DEF Settles, ResolveLead, MatchLead, Claim, ReadWinner, FollowWinner, Fail, tables,
       Types, LeadsOK
  <2>2. CASE Answer(i) /\ Claim(i) /\ ~Exists(calls[i].lead)
    <3>1. calls[i].new = NoLead
      <4>0. calls[i].pc = "claim"
        BY <2>2 DEF Claim
      <4>1. calls[i].new # NoLead =>
              calls[i].lead \in NewLeads /\ owner[calls[i].lead] \in Customers
        BY <1>0, <4>0, CallsType DEF Rightful, WebhookAt
      <4> QED BY <2>2, <4>1, ConstantFacts DEF Exists
    <3> QED BY <2>1, <2>2, <3>1, HandAnswer
  <2>3. ASSUME NEW r, calls' = [calls EXCEPT ![i] = r], r.new = calls[i].new
        PROVE  HandInv'
    BY <2>1, <2>3, HandGoesOn
  <2> QED BY <1>6, <2>2, <2>3, SettledCall
<1>7. CASE Discard(i)
  <2>1. PICK r : r = [calls[i] EXCEPT !.pc = "follow", !.lead = NoLead, !.new = NoLead]
    OBVIOUS
  <2>2. /\ calls' = [calls EXCEPT ![i] = r] /\ UNCHANGED history
        /\ owner' = [owner EXCEPT ![calls[i].new] = NoOne]
    BY <1>7, <2>1 DEF Discard
  <2>3. \A j \in Calls : j # i => calls'[j] = calls[j]
    BY <2>2 DEF Types, CallsOK
  <2>4. \A l \in NewLeads : owner'[l] = IF l = calls[i].new THEN NoOne ELSE owner[l]
    BY <2>2 DEF Types, LeadsOK
  <2> QED BY <2>2, <2>3, <2>4, HandStep
<1>8. CASE UpsertConversation(i)
  <2>1. UNCHANGED <<owner, history>> /\ calls[i].pc = "conv"
    BY <1>8 DEF UpsertConversation
  <2>2. ASSUME NEW k, calls' = [calls EXCEPT ![i] = [calls[i] EXCEPT !.pc = "store", !.conv = k]]
        PROVE  HandInv'
    <3>1. PICK r : r = [calls[i] EXCEPT !.pc = "store", !.conv = k]
      OBVIOUS
    <3>2. r.new = calls[i].new
      BY <1>0, <3>1 DEF Call
    <3>3. calls' = [calls EXCEPT ![i] = r]
      BY <2>2, <3>1
    <3> QED BY <2>1, <3>2, <3>3, HandGoesOn
  <2>3. \/ Answer(i)
        \/ \E k : calls' = [calls EXCEPT ![i] = [calls[i] EXCEPT !.pc = "store", !.conv = k]]
    BY <1>8 DEF UpsertConversation, Acknowledge
  <2> QED BY <1>1, <2>1, <2>2, <2>3 DEF Undecided
<1>9. CASE Store(i)
  <2>1. UNCHANGED <<owner, history>> /\ calls[i].pc = "store" /\ (Answer(i) \/ Goto(i, "reply"))
    BY <1>9 DEF Store, Acknowledge, Fail, tables
  <2> QED BY <1>1, <1>2, <2>1 DEF Undecided
<1>10. CASE Reply(i)
  BY <1>1, <1>10 DEF Reply, Acknowledge, tables, Undecided
<1> QED BY <1>3, <1>4, <1>5, <1>6, <1>7, <1>8, <1>9, <1>10 DEF Settles

LEMMA OtherHand ==
  ASSUME Types, LinkInv, HandInv,
         \/ \E i \in Calls : Come(i) \/ Die(i)
         \/ \E i \in Calls : \/ Relink(i) \/ StartConversation(i) \/ Compose(i) \/ Drop(i)
                             \/ Dispatch(i) \/ WriteOutcome(i) \/ Throw(i) \/ Touch(i)
         \/ \E c \in Customers : SetBlocked(c) \/ MarkRead(c)
         \/ \E o \in Outbound, s \in Reports : Report(o, s) \/ ApplyStatus(o, s)
         \/ UNCHANGED vars
  PROVE  HandInv'
<1>0. \A i \in Calls : calls[i] \in Call /\ Rightful(calls[i])
  BY CallsType DEF LinkInv
<1>1. ASSUME NEW i \in Calls, Die(i)  PROVE HandInv'
  <2>1. Answer(i) /\ UNCHANGED owner
    BY <1>1 DEF Die, tables
  <2>2. /\ history.won = history'.won /\ history.left \subseteq history'.left
        /\ calls[i].new \in {NoLead} \union history'.won \union history'.left
    BY <1>1 DEF Die, Types, LeadsOK
  <2> QED BY <2>1, <2>2, HandAnswer
<1>2. ASSUME NEW i \in Calls, calls[i].pc \notin WebhookAt, UNCHANGED <<owner, history>>,
             \A j \in Calls : j # i => calls'[j] = calls[j]
      PROVE  HandInv'
  <2>1. calls[i].new = NoLead
    BY <1>0, <1>2 DEF Rightful, WebhookAt
  <2>2. NoLead \notin NewLeads
    BY ConstantFacts DEF Leads
  <2> QED BY <1>2, <2>1, <2>2, HandStep
<1>3. ASSUME NEW i \in Calls, Come(i)  PROVE HandInv'
  <2>1. calls[i].pc \notin WebhookAt /\ UNCHANGED <<owner, history>>
    BY <1>3 DEF Come, ArriveEvent, ArriveSend, ArriveStart, ArriveLink, WebhookAt, tables
  <2>2. \A j \in Calls : j # i => calls'[j] = calls[j]
    BY <1>3 DEF Come, ArriveEvent, ArriveSend, ArriveStart, ArriveLink, Types, CallsOK
  <2> QED BY <1>2, <2>1, <2>2
<1>4. ASSUME NEW i \in Calls,
             \/ Relink(i) \/ StartConversation(i) \/ Compose(i) \/ Drop(i)
             \/ Dispatch(i) \/ WriteOutcome(i) \/ Throw(i) \/ Touch(i)
      PROVE  HandInv'
  <2>1. calls[i].pc \notin WebhookAt /\ UNCHANGED <<owner, history>>
    BY <1>4 DEF Relink, StartConversation, Compose, Drop, Dispatch, WriteOutcome, Throw, Touch,
       WebhookAt, tables
  <2>2. \A j \in Calls : j # i => calls'[j] = calls[j]
    BY <1>4 DEF Relink, StartConversation, Compose, Drop, Dispatch, WriteOutcome, Throw, Touch,
       Answer, Goto, Types, CallsOK
  <2> QED BY <1>2, <2>1, <2>2
<1>5. ASSUME UNCHANGED <<owner, history, calls>>  PROVE HandInv'
  BY <1>5, HandStep
<1> QED BY <1>1, <1>3, <1>4, <1>5 DEF SetBlocked, MarkRead, Report, ApplyStatus, vars, tables

LEMMA NextHand == Types /\ LinkInv /\ HandInv /\ [Next]_vars => HandInv'
  BY WebhookHand, OtherHand DEF Next, Proceed, Settles

LEMMA HandCorrect == Spec => []HandInv
<1>1. Init => HandInv
  BY DEF Init, HandInv
<1>2. BaseInv => Types
  BY DEF BaseInv
<1> QED BY <1>1, <1>2, BaseCorrect, LinkCorrect, NextHand, PTL DEF Spec

(***************************************************************************)
(* One lead per person: however many webhooks of a new customer run in     *)
(* parallel, are delivered again or die, at most one of the leads created  *)
(* for him is ever linked, and every other one is deleted unless a call    *)
(* died with it in its hands.                                              *)
(***************************************************************************)
THEOREM OneLeadCorrect == Spec => []OneLeadPerPerson
<1>1. LinkInv /\ HandInv => OneLeadPerPerson
  BY DEF LinkInv, WonInv, HandInv, OneLeadPerPerson
<1> QED BY <1>1, LinkCorrect, HandCorrect, PTL

\* Who changes the lead of a contact that has one.
LEMMA KeptStep ==
  ASSUME Types, LinkInv, [Next]_vars, NEW c \in Customers,
         contact[c].lead # NoLead, contact'[c].lead # contact[c].lead
  PROVE  contact'[c].lead \in Chosen \union Reached
<1>0. \A d \in Customers : contact[d] \in Contact
  BY DEF Types, LeadsOK
<1>1. ASSUME NEW i \in Calls, ResolveLead(i)  PROVE contact'[c].lead \in Chosen \union Reached
  <2> DEFINE link == Visible(world.invited[calls[i].of])
  <2>1. contact' = contact \/ (link # NoLead /\ contact' = [contact EXCEPT ![From[calls[i].of]].lead = link])
    BY <1>1 DEF ResolveLead
  <2>2. link # NoLead => link \in Reached
    BY <1>1, LinkRead DEF ResolveLead, WebhookAt
  <2> HIDE DEF link
  <2> QED BY <1>0, <2>1, <2>2 DEF Types, LeadsOK, Contact
<1>2. ASSUME NEW i \in Calls, Come(i)  PROVE contact'[c].lead \in Chosen \union Reached
  <2>1. \A o \in world.sends : StartFor[o] \in Chosen
    BY DEF Chosen
  <2>2. world.links \subseteq Chosen
    BY DEF Chosen
  <2>3. \A d \in Customers : \A l :
          contact' = [contact EXCEPT ![d].lead = l] => contact'[c].lead \in {l, contact[c].lead}
    BY <1>0 DEF Types, LeadsOK, Contact
  <2>4. \A d \in Customers : \A l :
          contact' = [contact EXCEPT ![d].there = TRUE, ![d].lead = l]
            => contact'[c].lead \in {l, contact[c].lead}
    BY <1>0 DEF Types, LeadsOK, Contact
  <2>5. \A o \in world.sends : To[o] \in Customers
    BY WorldFacts, ConstantFacts DEF Types, LeadsOK
  <2>6. \/ contact' = contact
        \/ \E o \in world.sends :
             contact' = [contact EXCEPT ![To[o]].there = TRUE, ![To[o]].lead = StartFor[o]]
        \/ \E d \in Customers, l \in world.links : contact' = [contact EXCEPT ![d].lead = l]
    BY <1>2 DEF Come, ArriveEvent, ArriveSend, ArriveStart, ArriveLink, tables
  <2>7. CASE \E o \in world.sends :
               contact' = [contact EXCEPT ![To[o]].there = TRUE, ![To[o]].lead = StartFor[o]]
    <3>1. PICK o \in world.sends :
            contact' = [contact EXCEPT ![To[o]].there = TRUE, ![To[o]].lead = StartFor[o]]
      BY <2>7
    <3>2. contact'[c].lead \in {StartFor[o], contact[c].lead}
      BY <2>4, <2>5, <3>1
    <3> QED BY <2>1, <3>2
  <2>8. CASE \E d \in Customers, l \in world.links : contact' = [contact EXCEPT ![d].lead = l]
    BY <2>2, <2>3, <2>8
  <2> QED BY <2>6, <2>7, <2>8
<1>3. ASSUME NEW i \in Calls, Claim(i)  PROVE FALSE
  <2>1. contact' = contact \/ (contact[From[calls[i].of]].lead = NoLead
          /\ contact' = [contact EXCEPT ![From[calls[i].of]].lead = calls[i].lead])
    BY <1>3 DEF Claim, Fail, tables
  <2> QED BY <1>0, <2>1 DEF Types, LeadsOK
<1>4. ASSUME NEW i \in Calls, Discard(i)  PROVE FALSE
  BY <1>4, DiscardLink
<1>5. ASSUME NEW i \in Calls, UpsertContact(i) \/ Unblock(i)  PROVE FALSE
  BY <1>0, <1>5 DEF UpsertContact, Unblock, Types, LeadsOK, Contact
<1>6. ASSUME NEW d \in Customers, SetBlocked(d)  PROVE FALSE
  BY <1>0, <1>6 DEF SetBlocked, Types, LeadsOK, Contact
<1>7. ASSUME NEW i \in Calls,
             \/ MatchLead(i) \/ CreateLead(i) \/ ReadWinner(i) \/ FollowWinner(i)
             \/ UpsertConversation(i) \/ Store(i) \/ Reply(i) \/ Relink(i)
             \/ StartConversation(i) \/ Compose(i) \/ Drop(i) \/ Dispatch(i)
             \/ WriteOutcome(i) \/ Throw(i) \/ Touch(i) \/ Die(i)
      PROVE  FALSE
  BY <1>7 DEF MatchLead, CreateLead, ReadWinner, FollowWinner, UpsertConversation, Store, Fail,
     Reply, Relink, StartConversation, Compose, Drop, Dispatch, WriteOutcome, Throw, Touch, Die,
     tables
<1>8. ~UNCHANGED contact
  OBVIOUS
<1> QED BY <1>1, <1>2, <1>3, <1>4, <1>5, <1>6, <1>7, <1>8
        DEF Next, Proceed, MarkRead, Report, ApplyStatus, vars, tables

(***************************************************************************)
(* Once a customer is linked to a lead, only an invitation or an agent     *)
(* links him to another: no match and no new lead of a late or repeated    *)
(* webhook takes the contact over.                                         *)
(***************************************************************************)
THEOREM LinkKeptCorrect == Spec => LinkKept
<1> DEFINE Kept == \A c \in Customers :
             contact[c].lead # NoLead /\ contact'[c].lead # contact[c].lead =>
               contact'[c].lead \in Chosen \union {Visible(l) : l \in Chosen}
<1>1. Types /\ LinkInv /\ [Next]_vars => [Kept]_vars
  BY KeptStep DEF Reached
<1>2. BaseInv => Types
  BY DEF BaseInv
<1> QED BY <1>1, <1>2, BaseCorrect, LinkCorrect, PTL DEF Spec, LinkKept

\* What stands in a timeline stays a lead that was linked.
LEMMA FiledStay ==
  ASSUME Types, FiledWhereLinked, world' = world,
         history.won \subseteq history'.won, UNCHANGED timeline
  PROVE  FiledWhereLinked'
  BY ReachedStays DEF FiledWhereLinked, Reached

LEMMA WonGrows == Types /\ [Next]_vars => history.won \subseteq history'.won
<1> SUFFICES ASSUME Types, [Next]_vars PROVE history.won \subseteq history'.won
  OBVIOUS
<1>1. ASSUME NEW i \in Calls, Claim(i) \/ Die(i)  PROVE history.won \subseteq history'.won
  BY <1>1 DEF Claim, Fail, Die, Types, LeadsOK
<1>2. ASSUME NEW i \in Calls, Come(i)  PROVE UNCHANGED history
  BY <1>2 DEF Come, ArriveEvent, ArriveSend, ArriveStart, ArriveLink
<1>3. ASSUME NEW i \in Calls, Proceed(i), ~Claim(i)  PROVE UNCHANGED history
  BY <1>3 DEF Proceed, UpsertContact, Unblock, ResolveLead, MatchLead, CreateLead, ReadWinner,
     Discard, FollowWinner, UpsertConversation, Store, Fail, Reply, Relink, StartConversation,
     Compose, Drop, Dispatch, WriteOutcome, Throw, Touch
<1>4. UNCHANGED vars => UNCHANGED history
  BY DEF vars
<1> QED BY <1>1, <1>2, <1>3, <1>4 DEF Next, SetBlocked, MarkRead, Report, ApplyStatus

\* Only the transaction of a webhook and the deletion of a lead write timelines.
LEMMA TimelineStays ==
  ASSUME [Next]_vars, \A i \in Calls : ~Store(i) /\ ~Discard(i)
  PROVE  UNCHANGED timeline
<1>1. ASSUME NEW i \in Calls, Come(i) \/ Die(i)  PROVE UNCHANGED timeline
  BY <1>1 DEF Come, ArriveEvent, ArriveSend, ArriveStart, ArriveLink, Die, tables
<1>2. ASSUME NEW i \in Calls, Proceed(i)  PROVE UNCHANGED timeline
  BY <1>2 DEF Proceed, UpsertContact, Unblock, ResolveLead, MatchLead, CreateLead, Claim,
     ReadWinner, FollowWinner, UpsertConversation, Fail, Reply, Relink, StartConversation,
     Compose, Drop, Dispatch, WriteOutcome, Throw, Touch, tables
<1> QED BY <1>1, <1>2 DEF Next, SetBlocked, MarkRead, Report, ApplyStatus, vars, tables

LEMMA FilableGrows ==
  ASSUME Types, [Next]_vars
  PROVE  /\ world' = world /\ history.won \subseteq history'.won
         /\ Reached' = Reached /\ Filable \subseteq Filable'
<1>1. ASSUME NEW i \in Calls, Come(i) \/ Die(i)  PROVE world' = world
  BY <1>1 DEF Come, ArriveEvent, ArriveSend, ArriveStart, ArriveLink, Die
<1>2. ASSUME NEW i \in Calls, Settles(i)  PROVE world' = world
  BY <1>2, SettledRest DEF Discard
<1>3. ASSUME NEW i \in Calls,
             \/ UpsertContact(i) \/ Unblock(i) \/ UpsertConversation(i) \/ Store(i) \/ Reply(i)
             \/ Relink(i) \/ StartConversation(i) \/ Compose(i) \/ Drop(i)
             \/ Dispatch(i) \/ WriteOutcome(i) \/ Throw(i) \/ Touch(i)
      PROVE  world' = world
  BY <1>3 DEF UpsertContact, Unblock, UpsertConversation, Store, Fail, Reply, Relink,
     StartConversation, Compose, Drop, Dispatch, WriteOutcome, Throw, Touch
<1>4. UNCHANGED vars => world' = world
  BY DEF vars
<1>5. world' = world
  BY <1>1, <1>2, <1>3, <1>4 DEF Next, Proceed, Settles, SetBlocked, MarkRead, Report, ApplyStatus
<1> QED BY <1>5, WonGrows, ReachedStays DEF Filable

\* A call writes into the conversation and the timeline of a lead that may stand
\* there, and holds none before it has looked for one; a lead that was linked
\* is there.
HeldInv ==
  \A i \in Calls :
    /\ calls[i].pc \in {"conv", "store"} => calls[i].lead \in Filable
    /\ calls[i].pc \in {"contact", "unblock", "resolve", "match", "create"} =>
         calls[i].lead = NoLead

FileInv ==
  /\ HeldInv
  /\ \A l \in history.won \intersect NewLeads : owner[l] # NoOne

\* No call deletes a lead that a contact was once linked to.
LinkedStays ==
  \A l \in history.won \intersect NewLeads : owner[l] # NoOne => owner'[l] # NoOne

LEMMA HeldStep ==
  ASSUME Types, HeldInv, Filable \subseteq Filable',
         NEW i \in Calls, NEW r, calls' = [calls EXCEPT ![i] = r],
         r.pc \in {"conv", "store"} => r.lead \in Filable',
         r.pc \in {"contact", "unblock", "resolve", "match", "create"} => r.lead = NoLead
  PROVE  HeldInv'
<1>1. \A j \in Calls : calls'[j] = r \/ calls'[j] = calls[j]
  BY DEF Types, CallsOK
<1> QED BY <1>1 DEF HeldInv

\* A call that goes on to where no lead is needed, or with the lead it holds.
LEMMA HeldKeeps ==
  ASSUME Types, HeldInv, Filable \subseteq Filable', NEW i \in Calls,
         NEW r, calls' = [calls EXCEPT ![i] = r],
         \/ r.pc \notin {"conv", "store", "contact", "unblock", "resolve", "match", "create"}
         \/ /\ r.lead = calls[i].lead
            /\ calls[i].pc \in {"contact", "unblock", "resolve", "match", "create"}
            /\ r.pc \in {"conv", "unblock", "resolve", "match", "create"}
         \/ r.lead = calls[i].lead /\ calls[i].pc = "conv" /\ r.pc = "store"
  PROVE  HeldInv'
<1>1. \/ r.lead = NoLead
      \/ r.pc \notin {"conv", "store", "contact", "unblock", "resolve", "match", "create"}
      \/ r.lead \in Filable /\ r.pc = "store"
  BY DEF HeldInv
<1>2. NoLead \in Filable
  BY DEF Filable
<1> QED BY <1>1, <1>2, HeldStep

LEMMA HeldGoto ==
  ASSUME Types, HeldInv, Filable \subseteq Filable', NEW i \in Calls, NEW pc, Goto(i, pc),
         \/ pc \notin {"conv", "store", "contact", "unblock", "resolve", "match", "create"}
         \/ /\ calls[i].pc \in {"contact", "unblock", "resolve", "match", "create"}
            /\ pc \in {"conv", "unblock", "resolve", "match", "create"}
  PROVE  HeldInv'
<1>1. PICK r : r = [calls[i] EXCEPT !.pc = pc]
  OBVIOUS
<1>2. r.pc = pc /\ r.lead = calls[i].lead
  BY <1>1, CallsType DEF Call
<1>3. calls' = [calls EXCEPT ![i] = r]
  BY <1>1 DEF Goto
<1> QED BY <1>2, <1>3, HeldKeeps

LEMMA HeldAnswer ==
  ASSUME Types, HeldInv, Filable \subseteq Filable', NEW i \in Calls, Answer(i)
  PROVE  HeldInv'
<1>1. Idle.pc = "idle"
  BY DEF Idle
<1> QED BY <1>1, HeldKeeps DEF Answer

LEMMA SettledHeld ==
  ASSUME ShortMerges, Types, LinkInv, FileInv, Filable \subseteq Filable', NEW i \in Calls,
         Settles(i)
  PROVE  HeldInv'
<1> DEFINE c == From[calls[i].of]
<1>0. /\ calls[i] \in Call /\ Rightful(calls[i]) /\ HeldInv /\ WonInv /\ c \in Customers
      /\ calls[i].pc \in WebhookAt
  BY CallsType DEF LinkInv, FileInv, Settles, ResolveLead, MatchLead, CreateLead, Claim,
     ReadWinner, Discard, FollowWinner, WebhookAt
<1>1. ASSUME NEW l, NEW pc, calls' = [calls EXCEPT ![i].lead = l, ![i].pc = pc],
             \/ l \in Filable /\ pc = "conv"
             \/ pc \in {"claim", "winner", "discard", "follow"}
      PROVE  HeldInv'
  <2>1. PICK r : r = [calls[i] EXCEPT !.lead = l, !.pc = pc]
    OBVIOUS
  <2>2. r.pc = pc /\ r.lead = l
    BY <1>0, <2>1 DEF Call
  <2>3. calls' = [calls EXCEPT ![i] = r]
    BY <1>1, <2>1
  <2> QED BY <1>0, <1>1, <2>2, <2>3, HeldStep
<1>2. CASE ResolveLead(i)
  <2>1. PICK link : link = Visible(world.invited[calls[i].of])
    OBVIOUS
  <2>2. PICK old : old = Visible(calls[i].known)
    OBVIOUS
  <2>3. \/ link # NoLead /\ calls' = [calls EXCEPT ![i].lead = link, ![i].pc = "conv"]
        \/ calls' = [calls EXCEPT ![i].lead = old, ![i].pc = "conv"]
        \/ Goto(i, "match") /\ calls[i].pc = "resolve"
    BY <1>2, <2>1, <2>2 DEF ResolveLead
  <2>4. link # NoLead => link \in Filable
    BY <1>0, <2>1, LinkRead DEF Filable
  <2>5. old \in Filable
    BY <1>0, <2>2, FollowLinkable DEF Rightful
  <2> QED BY <1>0, <1>1, <2>3, <2>4, <2>5, HeldGoto
<1>3. CASE MatchLead(i)
  BY <1>0, <1>1, <1>3, HeldGoto DEF MatchLead
<1>4. CASE CreateLead(i) \/ Discard(i)
  <2>1. PICK n : n = CHOOSE l \in Fresh : TRUE
    OBVIOUS
  <2>2. \/ calls' = [calls EXCEPT ![i].lead = n, ![i].new = n, ![i].pc = "claim"]
        \/ calls' = [calls EXCEPT ![i].pc = "follow", ![i].lead = NoLead, ![i].new = NoLead]
    BY <1>4, <2>1 DEF CreateLead, Discard
  <2>3. ASSUME NEW r, calls' = [calls EXCEPT ![i] = r], r.pc \in {"claim", "follow"}
        PROVE  HeldInv'
    BY <1>0, <2>3, HeldKeeps
  <2>4. PICK q : q = [calls[i] EXCEPT !.lead = n, !.new = n, !.pc = "claim"]
    OBVIOUS
  <2>5. PICK r : r = [calls[i] EXCEPT !.pc = "follow", !.lead = NoLead, !.new = NoLead]
    OBVIOUS
  <2>6. q.pc = "claim" /\ r.pc = "follow"
    BY <1>0, <2>4, <2>5 DEF Call
  <2>7. calls' = [calls EXCEPT ![i] = q] \/ calls' = [calls EXCEPT ![i] = r]
    BY <2>2, <2>4, <2>5
  <2> QED BY <2>3, <2>6, <2>7
<1>5. CASE Claim(i)
  <2>1. calls[i].pc = "claim" /\ (Answer(i) \/ Goto(i, "winner") \/
          (Goto(i, "conv") /\ history' = [history EXCEPT !.won = @ \union {calls[i].lead}]))
    BY <1>5 DEF Claim, Fail
  <2>2. CASE Goto(i, "conv") /\ history' = [history EXCEPT !.won = @ \union {calls[i].lead}]
    <3>1. calls[i].lead \in Filable'
      BY <2>2 DEF Types, LeadsOK, Filable
    <3>2. PICK r : r = [calls[i] EXCEPT !.pc = "conv"]
      OBVIOUS
    <3>3. r.pc = "conv" /\ r.lead = calls[i].lead
      BY <1>0, <3>2 DEF Call
    <3>4. calls' = [calls EXCEPT ![i] = r]
      BY <2>2, <3>2 DEF Goto
    <3> QED BY <1>0, <3>1, <3>3, <3>4, HeldStep
  <2> QED BY <1>0, <2>1, <2>2, HeldAnswer, HeldGoto
<1>6. CASE ReadWinner(i)
  <2>1. PICK w : w = contact[c].lead
    OBVIOUS
  <2>2. PICK pc : pc = IF calls[i].new # NoLead /\ w # calls[i].new THEN "discard"
                       ELSE IF w \notin {NoLead, calls[i].lead} THEN "follow" ELSE "conv"
    OBVIOUS
  <2>3. calls[i].pc = "winner" /\ calls' = [calls EXCEPT ![i].known = w, ![i].pc = pc]
    BY <1>6, <2>1, <2>2 DEF ReadWinner
  <2>4. PICK r : r = [calls[i] EXCEPT !.known = w, !.pc = pc]
    OBVIOUS
  <2>5. r.pc = pc /\ r.lead = calls[i].lead /\ calls' = [calls EXCEPT ![i] = r]
    BY <1>0, <2>3, <2>4 DEF Call
  <2>6. CASE pc = "conv"
    <3>1. w # NoLead /\ w \in Linkable \union {NoLead}
      BY <1>0, <2>1, <2>3 DEF Rightful, LinkInv, ContactInv
    <3>2. calls[i].lead = w
      BY <1>0, <2>2, <2>3, <2>6, <3>1 DEF Rightful
    <3>3. w \in NewLeads \union Unmerged
      BY <1>0, <2>3, <3>2 DEF Rightful
    <3>4. w \in NewLeads => w \in Filable
      BY <3>1, ChosenKnown DEF Filable
    <3>5. w \in Unmerged => w \in Filable
      BY <1>0, <3>1, UnmergedStays, FollowLinkable
    <3>6. w \in Filable
      BY <3>3, <3>4, <3>5
    <3> QED BY <1>0, <2>5, <2>6, <3>2, <3>6, HeldStep
  <2>7. CASE pc # "conv"
    <3>1. pc \in {"discard", "follow"}
      BY <2>2, <2>7
    <3> QED BY <1>0, <2>5, <3>1, HeldKeeps
  <2> QED BY <2>6, <2>7
<1>7. CASE FollowWinner(i)
  <2>1. PICK known : known = calls[i].known
    OBVIOUS
  <2>2. calls[i].pc = "follow" /\ known \in Linkable /\ known # NoLead
    BY <1>0, <1>7, <2>1 DEF FollowWinner, Rightful
  <2>3. Visible(known) # NoLead
    <3>1. CASE known \in NewLeads
      <4>1. Exists(known)
        BY <2>2, <3>1, ChosenKnown DEF FileInv, Exists
      <4> QED BY <2>2, <3>1, <4>1, VisibleType, ConstantFacts DEF Leads
    <3>2. CASE known \in KnownLeads
      <4>1. End(known) \in KnownLeads /\ Hop(End(known)) = End(known)
        BY <3>2, EndType DEF ShortMerges, Leads
      <4> QED BY <4>1, ConstantFacts DEF Visible, Exists, Leads
    <3> QED BY <2>2, <3>1, <3>2, ChosenKnown DEF Leads
  <2>4. Visible(known) \in Filable
    BY <1>0, <2>2, FollowLinkable
  <2>5. PICK r : r = [calls[i] EXCEPT !.pc = "conv", !.lead = Visible(known)]
    OBVIOUS
  <2>6. r.pc = "conv" /\ r.lead = Visible(known)
    BY <1>0, <2>5 DEF Call
  <2>7. calls' = [calls EXCEPT ![i] = r]
    BY <1>7, <2>1, <2>3, <2>5 DEF FollowWinner
  <2> QED BY <1>0, <2>4, <2>6, <2>7, HeldStep
<1> QED BY <1>2, <1>3, <1>4, <1>5, <1>6, <1>7 DEF Settles

LEMMA NextHeld ==
  ASSUME ShortMerges, Types, LinkInv, FileInv, [Next]_vars
  PROVE  HeldInv'
<1>0. HeldInv /\ Filable \subseteq Filable' /\ \A i \in Calls : calls[i] \in Call
  BY FilableGrows, CallsType DEF FileInv
<1>1. ASSUME NEW i \in Calls, UpsertContact(i)  PROVE HeldInv'
  <2>1. calls[i].pc = "contact" /\
        (Answer(i) \/ \E known : \E pc \in {"unblock", "resolve"} :
                        calls' = [calls EXCEPT ![i].known = known, ![i].pc = pc])
    BY <1>1 DEF UpsertContact, Acknowledge
  <2>2. ASSUME NEW known, NEW pc \in {"unblock", "resolve"},
               calls' = [calls EXCEPT ![i].known = known, ![i].pc = pc]
        PROVE  HeldInv'
    <3>1. PICK r : r = [calls[i] EXCEPT !.known = known, !.pc = pc]
      OBVIOUS
    <3>2. r.pc = pc /\ r.lead = calls[i].lead
      BY <1>0, <3>1 DEF Call
    <3>3. calls' = [calls EXCEPT ![i] = r]
      BY <2>2, <3>1
    <3> QED BY <1>0, <2>1, <3>2, <3>3, HeldKeeps
  <2> QED BY <1>0, <2>1, <2>2, HeldAnswer
<1>2. ASSUME NEW i \in Calls, UpsertConversation(i)  PROVE HeldInv'
  <2>1. calls[i].pc = "conv" /\ (Answer(i) \/ \E k :
                        calls' = [calls EXCEPT ![i].pc = "store", ![i].conv = k])
    BY <1>2 DEF UpsertConversation, Acknowledge
  <2>2. ASSUME NEW k, calls' = [calls EXCEPT ![i].pc = "store", ![i].conv = k]
        PROVE  HeldInv'
    <3>1. PICK r : r = [calls[i] EXCEPT !.pc = "store", !.conv = k]
      OBVIOUS
    <3>2. r.pc = "store" /\ r.lead = calls[i].lead
      BY <1>0, <3>1 DEF Call
    <3>3. calls' = [calls EXCEPT ![i] = r]
      BY <2>2, <3>1
    <3> QED BY <1>0, <2>1, <3>2, <3>3, HeldKeeps
  <2> QED BY <1>0, <2>1, <2>2, HeldAnswer
<1>3. ASSUME NEW i \in Calls,
             \/ Unblock(i) \/ Store(i) \/ Reply(i) \/ Relink(i) \/ Compose(i) \/ Drop(i)
             \/ WriteOutcome(i) \/ Throw(i) \/ Touch(i) \/ Die(i)
      PROVE  HeldInv'
  <2>1. \/ Answer(i)
        \/ Goto(i, "resolve") /\ calls[i].pc = "unblock"
        \/ Goto(i, "reply") \/ Goto(i, "drop") \/ Goto(i, "dispatch") \/ Goto(i, "touch")
    BY <1>3 DEF Unblock, Store, Fail, Reply, Acknowledge, Relink, Compose, Drop, WriteOutcome,
       Throw, Touch, Die
  <2> QED BY <1>0, <2>1, HeldAnswer, HeldGoto
<1>4. ASSUME NEW i \in Calls, NEW r, calls' = [calls EXCEPT ![i] = r], r.pc \in SendAt \union {"relink"}
      PROVE  HeldInv'
  BY <1>0, <1>4, HeldKeeps DEF SendAt
<1>5. ASSUME NEW i \in Calls, Come(i)  PROVE HeldInv'
  <2>1. ASSUME NEW m, ArriveEvent(i, m)  PROVE HeldInv'
    <3>1. PICK r : r = [Idle EXCEPT !.pc = "contact", !.of = m]
      OBVIOUS
    <3>2. r.pc = "contact" /\ r.lead = NoLead
      BY <3>1 DEF Idle
    <3>3. calls' = [calls EXCEPT ![i] = r]
      BY <2>1, <3>1 DEF ArriveEvent
    <3> QED BY <1>0, <3>2, <3>3, HeldStep
  <2>2. ASSUME NEW o, ArriveSend(i, o)  PROVE HeldInv'
    <3>1. PICK r : r = [Idle EXCEPT !.pc = "compose", !.of = o, !.conv = conv[To[o]].id]
      OBVIOUS
    <3>2. r.pc \in SendAt
      BY <3>1 DEF Idle, SendAt
    <3>3. calls' = [calls EXCEPT ![i] = r]
      BY <2>2, <3>1 DEF ArriveSend
    <3> QED BY <1>4, <3>2, <3>3
  <2>3. ASSUME NEW o, ArriveStart(i, o)  PROVE HeldInv'
    <3>1. PICK r : r = [Idle EXCEPT !.pc = "start", !.of = o]
      OBVIOUS
    <3>2. r.pc \in SendAt
      BY <3>1 DEF Idle, SendAt
    <3>3. calls' = [calls EXCEPT ![i] = r]
      BY <2>3, <3>1 DEF ArriveStart
    <3> QED BY <1>4, <3>2, <3>3
  <2>4. ASSUME NEW c, NEW l, ArriveLink(i, c, l)  PROVE HeldInv'
    <3>1. PICK r : r = [Idle EXCEPT !.pc = "relink", !.lead = l, !.conv = conv[c].id]
      OBVIOUS
    <3>2. r.pc = "relink"
      BY <3>1 DEF Idle
    <3>3. calls' = [calls EXCEPT ![i] = r]
      BY <2>4, <3>1 DEF ArriveLink
    <3> QED BY <1>4, <3>2, <3>3
  <2> QED BY <1>5, <2>1, <2>2, <2>3, <2>4 DEF Come
<1>6. ASSUME NEW i \in Calls, Dispatch(i)  PROVE HeldInv'
  <2>1. PICK t : calls' = [calls EXCEPT ![i].pc = "outcome", ![i].result = t]
    BY <1>6 DEF Dispatch
  <2>2. PICK r : r = [calls[i] EXCEPT !.pc = "outcome", !.result = t]
    OBVIOUS
  <2>3. r.pc \in SendAt
    BY <1>0, <2>2 DEF Call, SendAt
  <2>4. calls' = [calls EXCEPT ![i] = r]
    BY <2>1, <2>2
  <2> QED BY <1>4, <2>3, <2>4
<1>7. ASSUME NEW i \in Calls, StartConversation(i)  PROVE HeldInv'
  <2>1. PICK r : /\ calls' = [calls EXCEPT ![i] = r]
                 /\ \/ r = [calls[i] EXCEPT !.pc = "compose", !.fresh = TRUE, !.conv = made + 1]
                    \/ r = [calls[i] EXCEPT !.pc = "compose", !.conv = conv[To[calls[i].of]].id]
    BY <1>7 DEF StartConversation
  <2>2. r.pc \in SendAt
    BY <1>0, <2>1 DEF Call, SendAt
  <2> QED BY <1>4, <2>1, <2>2
<1>8. CASE calls' = calls
  BY <1>0, <1>8 DEF HeldInv
<1>9. ASSUME NEW i \in Calls, Settles(i)  PROVE HeldInv'
  BY <1>0, <1>9, SettledHeld
<1> QED BY <1>1, <1>2, <1>3, <1>5, <1>6, <1>7, <1>8, <1>9
        DEF Next, Proceed, Settles, SetBlocked, MarkRead, Report, ApplyStatus, vars

\* What is linked is there, and stays.
LEMMA NextFile ==
  ASSUME ShortMerges, Types, LinkInv, FileInv, [Next]_vars, LinkedStays \/ UNCHANGED vars
  PROVE  FileInv'
<1>1. CASE history'.won = history.won
  <2>1. LinkedStays
    BY DEF LinkedStays, vars, tables
  <2> QED BY <1>1, <2>1, NextHeld DEF FileInv, LinkedStays
<1>2. ASSUME NEW i \in Calls, Claim(i)  PROVE FileInv'
  <2>1. UNCHANGED owner /\ (history'.won = history.won \/
          (history'.won = history.won \union {calls[i].lead} /\ Exists(calls[i].lead)))
    BY <1>2 DEF Claim, Fail, tables, Types, LeadsOK
  <2>2. KnownLeads \intersect NewLeads = {}
    BY ConstantFacts
  <2> QED BY <2>1, <2>2, NextHeld DEF FileInv, Exists
<1>3. ASSUME NEW i \in Calls, Die(i)  PROVE history'.won = history.won
  BY <1>3 DEF Die, Types, LeadsOK
<1>4. ASSUME NEW i \in Calls, Come(i)  PROVE UNCHANGED history
  BY <1>4 DEF Come, ArriveEvent, ArriveSend, ArriveStart, ArriveLink
<1>5. ASSUME NEW i \in Calls, Proceed(i), ~Claim(i)  PROVE UNCHANGED history
  BY <1>5 DEF Proceed, UpsertContact, Unblock, ResolveLead, MatchLead, CreateLead, ReadWinner,
     Discard, FollowWinner, UpsertConversation, Store, Fail, Reply, Relink, StartConversation,
     Compose, Drop, Dispatch, WriteOutcome, Throw, Touch
<1> QED BY <1>1, <1>2, <1>3, <1>4, <1>5 DEF Next, SetBlocked, MarkRead, Report, ApplyStatus, vars

\* Without a phone number only its maker finds a created lead, and he takes
\* back only what he has not linked.
LEMMA NoPhonesStay ==
  ASSUME Types, LinkInv, world.phones = {}, [Next]_vars
  PROVE  LinkedStays
<1>1. ASSUME NEW i \in Calls, Discard(i)  PROVE LinkedStays
  <2>1. Rightful(calls[i]) /\ calls[i].pc = "discard"
        /\ owner' = [owner EXCEPT ![calls[i].new] = NoOne]
    BY <1>1 DEF LinkInv, Discard
  <2>2. calls[i].new \notin history.won
    BY <2>1 DEF Rightful, Undecided
  <2>3. \A l \in NewLeads : l # calls[i].new => owner'[l] = owner[l]
    BY <2>1 DEF Types, LeadsOK
  <2> QED BY <2>2, <2>3 DEF LinkedStays
<1>2. ASSUME NEW i \in Calls, CreateLead(i)  PROVE LinkedStays
  <2>1. PICK l : owner' = [owner EXCEPT ![l] = From[calls[i].of]] /\ calls[i].pc = "create"
    BY <1>2 DEF CreateLead
  <2>2. From[calls[i].of] # NoOne
    BY <2>1, CallsType, ConstantFacts DEF WebhookAt
  <2>3. \A k \in NewLeads : owner'[k] \in {owner[k], From[calls[i].of]}
    BY <2>1 DEF Types, LeadsOK
  <2> QED BY <2>2, <2>3 DEF LinkedStays
<1>3. ASSUME NEW i \in Calls, Come(i) \/ Die(i)  PROVE UNCHANGED owner
  BY <1>3 DEF Come, ArriveEvent, ArriveSend, ArriveStart, ArriveLink, Die, tables
<1>4. ASSUME NEW i \in Calls, Proceed(i), ~Discard(i), ~CreateLead(i)  PROVE UNCHANGED owner
  BY <1>4 DEF Proceed, UpsertContact, Unblock, ResolveLead, MatchLead, Claim, ReadWinner,
     FollowWinner, UpsertConversation, Store, Fail, Reply, Relink, StartConversation,
     Compose, Drop, Dispatch, WriteOutcome, Throw, Touch, tables
<1>5. UNCHANGED owner => LinkedStays
  BY DEF LinkedStays
<1>6. UNCHANGED vars => UNCHANGED owner
  BY DEF vars, tables
<1> QED BY <1>1, <1>2, <1>3, <1>4, <1>5, <1>6 DEF Next, SetBlocked, MarkRead, Report, ApplyStatus

LEMMA NextFiled ==
  ASSUME Types, FileInv, FiledWhereLinked, [Next]_vars
  PROVE  FiledWhereLinked'
<1>0. /\ world' = world /\ history.won \subseteq history'.won
      /\ Reached' = Reached
  BY FilableGrows
<1>1. CASE UNCHANGED timeline
  BY <1>0, <1>1, FiledStay
<1>2. ASSUME NEW i \in Calls, Store(i), timeline' # timeline  PROVE FiledWhereLinked'
  <2> DEFINE m == calls[i].of  l == calls[i].lead
  <2>1. timeline' = [timeline EXCEPT ![m] = Append(@, l)] /\ calls[i].pc = "store"
    BY <1>2 DEF Store, Fail, tables
  <2>2. l \in Filable /\ m \in Inbound
    BY <2>1, CallsType DEF FileInv, HeldInv, WebhookAt
  <2>3. \A k \in Inbound : timeline[k] \in Seq(Leads \union {NoLead})
    BY DEF Types, ConvOK
  <2>4. l \in Leads \union {NoLead}
    BY CallsType DEF Call
  <2> SUFFICES ASSUME NEW k \in Inbound, NEW n \in DOMAIN timeline'[k]
               PROVE  timeline'[k][n] \in {NoLead} \union history'.won \union Reached
    BY <1>0 DEF FiledWhereLinked, Reached
  <2>5. CASE k # m
    <3>1. timeline'[k] = timeline[k]
      BY <2>1, <2>5 DEF Types, ConvOK
    <3> QED BY <1>0, <3>1 DEF FiledWhereLinked, Reached
  <2>6. CASE k = m
    <3> DEFINE old == timeline[k]
    <3>1. timeline'[k] = Append(old, l)
      BY <2>1, <2>2, <2>6 DEF Types, ConvOK
    <3>2. old \in Seq(Leads \union {NoLead})
      BY <2>3
    <3>3. \A j \in DOMAIN old : old[j] \in {NoLead} \union history.won \union Reached
      BY DEF FiledWhereLinked, Reached
    <3> HIDE DEF l, old
    <3>4. n \in 1 .. Len(old) + 1
      BY <2>4, <3>1, <3>2
    <3>5. n \in DOMAIN old \/ n = Len(old) + 1
      BY <3>2, <3>4
    <3>6. Append(old, l)[n] = l \/ (n \in DOMAIN old /\ Append(old, l)[n] = old[n])
      BY <2>4, <3>2, <3>5
    <3> QED BY <1>0, <2>2, <3>1, <3>3, <3>6 DEF Filable
  <2> QED BY <2>5, <2>6
<1>3. ASSUME NEW i \in Calls, Discard(i)  PROVE FiledWhereLinked'
  <2> SUFFICES ASSUME NEW k \in Inbound, NEW n \in DOMAIN timeline'[k]
               PROVE  timeline'[k][n] \in {NoLead} \union history'.won \union Reached
    BY <1>0 DEF FiledWhereLinked, Reached
  <2>1. timeline'[k] = [j \in DOMAIN timeline[k] |->
          IF timeline[k][j] = calls[i].new THEN NoLead ELSE timeline[k][j]]
    BY <1>3 DEF Discard
  <2>2. n \in DOMAIN timeline[k] /\ timeline'[k][n] \in {NoLead, timeline[k][n]}
    BY <2>1
  <2> QED BY <1>0, <2>2 DEF FiledWhereLinked, Reached
<1> QED BY <1>1, <1>2, <1>3, TimelineStays

(***************************************************************************)
(* As long as no merge goes further than four hops, and no call takes back *)
(* a lead it made after another call has linked it, a message is filed on  *)
(* a lead its sender has been linked to: never on the one a call had found *)
(* or created before it lost the contact.  The code does not ensure the    *)
(* second: where the channel tells phones, a webhook finds the lead another *)
(* is about to claim and links it; an agent then links the contact         *)
(* elsewhere, the first webhook loses and deletes the lead.  A third one   *)
(* that has just read it as the winner finds it gone, and files on its own *)
(* match (ingest.ts:162-163).                                              *)
(***************************************************************************)
LinkedKept == [][LinkedStays]_vars

LEMMA InitFile == Init => FileInv /\ FiledWhereLinked
  BY DEF Init, FileInv, HeldInv, Idle, FiledWhereLinked

THEOREM FiledCorrect ==
  ASSUME ShortMerges
  PROVE  Spec /\ LinkedKept => []FiledWhereLinked
<1>1. BaseInv => Types
  BY DEF BaseInv
<1>2. Types /\ LinkInv /\ FileInv /\ [Next]_vars /\ [LinkedStays]_vars => FileInv'
  BY NextFile
<1>3. Types /\ FileInv /\ FiledWhereLinked /\ [Next]_vars => FiledWhereLinked'
  BY NextFiled
<1> QED BY <1>1, <1>2, <1>3, InitFile, BaseCorrect, LinkCorrect, PTL DEF Spec, LinkedKept

(***************************************************************************)
(* Where no channel tells phones, nothing more is needed: a lead is found  *)
(* by nobody but the call that made it, so none that was linked goes.      *)
(***************************************************************************)
THEOREM FiledWithoutPhones ==
  ASSUME ShortMerges, \A w \in Worlds : w.phones = {}
  PROVE  Spec => []FiledWhereLinked
<1>1. BaseInv => Types
  BY DEF BaseInv
<1>2. Types /\ LinkInv /\ FileInv /\ [Next]_vars => FileInv'
  <2> SUFFICES ASSUME Types, LinkInv, FileInv, [Next]_vars PROVE FileInv'
    OBVIOUS
  <2>1. world.phones = {}
    BY DEF Types, LeadsOK
  <2> QED BY <2>1, NoPhonesStay, NextFile
<1>3. Types /\ FileInv /\ FiledWhereLinked /\ [Next]_vars => FiledWhereLinked'
  BY NextFiled
<1> QED BY <1>1, <1>2, <1>3, InitFile, BaseCorrect, LinkCorrect, PTL DEF Spec

----------------------------------------------------------------------------
(* What the agents send.                                                   *)

\* One agent's call changes, and at most the message it holds.
LEMMA SendStep ==
  ASSUME Types, SendInv, NEW i \in Calls, NEW r, calls' = [calls EXCEPT ![i] = r],
         r.pc \in SendAt => calls[i].pc \in SendAt /\ r.of = calls[i].of,
         \A o \in Outbound :
           \/ out'[o].status = out[o].status /\ out'[o].known = out[o].known
           \/ out'[o].status = "none" /\ ~out'[o].known
           \/ /\ calls[i].pc \in SendAt /\ o = calls[i].of
              /\ out'[o].known => out'[o].status \notin {"none", "queued"},
         r.pc \in {"start", "compose"} => out'[r.of].status = "none",
         r.pc \in {"dispatch", "outcome"} => out'[r.of].status \in {"none", "queued"},
         r.pc = "outcome" => r.result # "none"
  PROVE  SendInv'
<1>1. \A j \in Calls : calls'[j] = IF j = i THEN r ELSE calls[j]
  BY DEF Types, CallsOK
<1>2. \A j, k \in Calls :
        /\ calls'[j].pc \in SendAt /\ calls'[k].pc \in SendAt /\ calls'[j].of = calls'[k].of
        => j = k
  BY <1>1 DEF SendInv
<1>3. \A o \in Outbound : out'[o].known => out'[o].status \notin {"none", "queued"}
  BY DEF SendInv
<1>4. ASSUME NEW j \in Calls, j # i, calls[j].pc \in SendAt
      PROVE  out'[calls[j].of].status \in {"none", out[calls[j].of].status}
  <2>1. calls[j].of \in Outbound
    BY <1>4, SendOf DEF Types
  <2>2. calls[i].pc \in SendAt => calls[j].of # calls[i].of
    BY <1>4 DEF SendInv
  <2> QED BY <2>1, <2>2
<1>5. \A j \in Calls :
        /\ calls'[j].pc \in {"start", "compose"} => out'[calls'[j].of].status = "none"
        /\ calls'[j].pc \in {"dispatch", "outcome"} =>
             out'[calls'[j].of].status \in {"none", "queued"}
        /\ calls'[j].pc = "outcome" => calls'[j].result # "none"
  BY <1>1, <1>4 DEF SendInv, SendAt
<1> QED BY <1>2, <1>3, <1>5 DEF SendInv

LEMMA SendOutside ==
  ASSUME Types, SendInv, UNCHANGED out, NEW i \in Calls, NEW r,
         calls' = [calls EXCEPT ![i] = r], r.pc \notin SendAt
  PROVE  SendInv'
  BY SendStep DEF SendAt

LEMMA SendAnswer ==
  ASSUME Types, SendInv, NEW i \in Calls, Answer(i),
         \A o \in Outbound :
           \/ out'[o].status = out[o].status /\ out'[o].known = out[o].known
           \/ out'[o].status = "none" /\ ~out'[o].known
  PROVE  SendInv'
<1>1. Idle.pc = "idle"
  BY DEF Idle
<1> QED BY <1>1, SendStep DEF Answer, SendAt

\* A request that arrives is the only one for its message.
LEMMA SendArrives ==
  ASSUME Types, SendInv, UNCHANGED out, NEW i \in Calls, NEW o \in world.sends,
         out[o].status = "none", \A j \in Calls : calls[j].of # o,
         NEW r, calls' = [calls EXCEPT ![i] = r], r.pc \in {"start", "compose"}, r.of = o
  PROVE  SendInv'
<1>1. \A j \in Calls : calls'[j] = IF j = i THEN r ELSE calls[j]
  BY DEF Types, CallsOK
<1> QED BY <1>1 DEF SendInv

LEMMA CameSend ==
  ASSUME Types, SendInv, NEW i \in Calls, Come(i)
  PROVE  SendInv'
<1>1. ASSUME NEW m \in world.events, ArriveEvent(i, m)  PROVE SendInv'
  <2>1. [Idle EXCEPT !.pc = "contact", !.of = m].pc = "contact"
    BY DEF Idle
  <2> QED BY <1>1, <2>1, SendOutside DEF ArriveEvent, tables, SendAt
<1>2. ASSUME NEW o \in world.sends, ArriveSend(i, o)  PROVE SendInv'
  <2>1. PICK r : r = [Idle EXCEPT !.pc = "compose", !.of = o, !.conv = conv[To[o]].id]
    OBVIOUS
  <2>2. r.pc = "compose" /\ r.of = o
    BY <2>1 DEF Idle
  <2>3. /\ calls' = [calls EXCEPT ![i] = r] /\ UNCHANGED out
        /\ out[o].status = "none" /\ \A j \in Calls : calls[j].of # o
    BY <1>2, <2>1 DEF ArriveSend, tables
  <2> QED BY <2>2, <2>3, SendArrives
<1>3. ASSUME NEW o \in world.sends, ArriveStart(i, o)  PROVE SendInv'
  <2>1. PICK r : r = [Idle EXCEPT !.pc = "start", !.of = o]
    OBVIOUS
  <2>2. r.pc = "start" /\ r.of = o
    BY <2>1 DEF Idle
  <2>3. /\ calls' = [calls EXCEPT ![i] = r] /\ UNCHANGED out
        /\ out[o].status = "none" /\ \A j \in Calls : calls[j].of # o
    BY <1>3, <2>1 DEF ArriveStart
  <2> QED BY <2>2, <2>3, SendArrives
<1>4. ASSUME NEW c \in Customers, NEW l \in world.links, ArriveLink(i, c, l)  PROVE SendInv'
  <2>1. PICK r : r = [Idle EXCEPT !.pc = "relink", !.lead = l, !.conv = conv[c].id]
    OBVIOUS
  <2>2. r.pc = "relink"
    BY <2>1 DEF Idle
  <2>3. calls' = [calls EXCEPT ![i] = r] /\ UNCHANGED out
    BY <1>4, <2>1 DEF ArriveLink
  <2> QED BY <2>2, <2>3, SendOutside DEF SendAt
<1> QED BY <1>1, <1>2, <1>3, <1>4 DEF Come

\* A webhook's call stays one.
LEMMA WebhookSend ==
  ASSUME Types, Types', SendInv, NEW i \in Calls,
         \/ UpsertContact(i) \/ Unblock(i) \/ Settles(i)
         \/ UpsertConversation(i) \/ Store(i) \/ Reply(i)
  PROVE  SendInv'
<1>1. UNCHANGED out /\ calls[i] \in Call
  BY CallsType, SettledRest DEF Discard, UpsertContact, Unblock, UpsertConversation, Store, Fail,
     Reply, tables
<1>2. \A j \in Calls : j # i => calls'[j] = calls[j]
  <2>1. CASE Settles(i)
    BY <2>1, SettledCall DEF Answer, Types, CallsOK
  <2>2. CASE ~Settles(i)
    BY <2>2 DEF UpsertContact, Unblock, UpsertConversation, Store, Fail, Reply, Acknowledge,
       Answer, Goto, Types, CallsOK
  <2> QED BY <2>1, <2>2
<1>0. /\ Idle.pc = "idle"
      /\ SendAt \intersect {"idle", "unblock", "resolve", "match", "create", "claim", "winner",
                           "discard", "follow", "store", "conv", "reply"} = {}
  BY DEF Idle, SendAt
<1>3. calls'[i].pc \notin SendAt
  <2>1. CASE Settles(i)
    <3>1. Answer(i) => calls'[i] = Idle
      BY DEF Answer, Types, CallsOK
    <3>2. ASSUME NEW r, calls' = [calls EXCEPT ![i] = r]  PROVE calls'[i] = r
      BY <3>2 DEF Types, CallsOK
    <3> QED BY <1>0, <2>1, <3>1, <3>2, SettledCall
  <2>3. CASE UpsertContact(i)
    <3> DEFINE row == [contact[From[calls[i].of]] EXCEPT !.there = TRUE]
               pc == IF row.blocked /\ calls[i].of \notin world.opened THEN "unblock" ELSE "resolve"
    <3>1. calls'[i] = Idle \/ calls'[i] = [calls[i] EXCEPT !.known = row.lead, !.pc = pc]
      BY <2>3 DEF UpsertContact, Acknowledge, Answer, Types, CallsOK
    <3>2. pc \in {"unblock", "resolve"}
      OBVIOUS
    <3> HIDE DEF pc, row
    <3>3. [calls[i] EXCEPT !.known = row.lead, !.pc = pc].pc = pc
      BY <1>1 DEF Call
    <3> QED BY <1>0, <3>1, <3>2, <3>3
  <2>4. CASE UpsertConversation(i)
    <3> DEFINE k == conv'[From[calls[i].of]].id
    <3>1. calls'[i] = Idle \/ calls'[i] = [calls[i] EXCEPT !.pc = "store", !.conv = k]
      BY <2>4 DEF UpsertConversation, Acknowledge, Answer, Types, CallsOK
    <3> HIDE DEF k
    <3>2. [calls[i] EXCEPT !.pc = "store", !.conv = k].pc = "store"
      BY <1>1 DEF Call
    <3> QED BY <1>0, <3>1, <3>2
  <2>5. CASE Unblock(i) \/ Store(i) \/ Reply(i)
    <3>1. \/ calls'[i] = Idle \/ calls'[i] = [calls[i] EXCEPT !.pc = "resolve"]
          \/ calls'[i] = [calls[i] EXCEPT !.pc = "reply"]
      BY <2>5 DEF Unblock, Store, Reply, Fail, Acknowledge, Answer, Goto, Types, CallsOK
    <3>2. /\ [calls[i] EXCEPT !.pc = "resolve"].pc = "resolve"
          /\ [calls[i] EXCEPT !.pc = "reply"].pc = "reply"
      BY <1>1 DEF Call
    <3> QED BY <1>0, <3>1, <3>2
  <2> QED BY <2>1, <2>3, <2>4, <2>5
<1>4. PICK r : r = calls'[i]
  OBVIOUS
<1>5. calls' = [calls EXCEPT ![i] = r]
  BY <1>2, <1>4 DEF Types, CallsOK
<1> QED BY <1>1, <1>3, <1>4, <1>5, SendOutside

LEMMA AgentSend ==
  ASSUME Types, Types', SendInv, NEW i \in Calls,
         \/ Relink(i) \/ StartConversation(i) \/ Compose(i) \/ Drop(i)
         \/ Dispatch(i) \/ WriteOutcome(i) \/ Throw(i) \/ Touch(i)
  PROVE  SendInv'
<1> DEFINE o == calls[i].of
<1>0. calls[i] \in Call /\ \A p \in Outbound : out[p] \in Sent
  BY CallsType DEF Types, OutOK
<1>1. CASE Relink(i) \/ Throw(i) \/ Touch(i)
  <2>1. UNCHANGED out /\ (Answer(i) \/ (Goto(i, "drop") /\ calls[i].pc \in SendAt))
    BY <1>1 DEF Relink, Throw, Touch, SendAt, tables
  <2>2. CASE Answer(i)
    BY <2>1, <2>2, SendAnswer
  <2>3. CASE Goto(i, "drop") /\ calls[i].pc \in SendAt
    <3>1. PICK r : r = [calls[i] EXCEPT !.pc = "drop"]
      OBVIOUS
    <3>2. r.pc = "drop" /\ r.of = o
      BY <1>0, <3>1 DEF Call
    <3>3. calls' = [calls EXCEPT ![i] = r]
      BY <2>3, <3>1 DEF Goto
    <3> QED BY <2>1, <2>3, <3>2, <3>3, SendStep
  <2> QED BY <2>1, <2>2, <2>3
<1>2. CASE StartConversation(i)
  <2>1. calls[i].pc = "start" /\ UNCHANGED out
    BY <1>2 DEF StartConversation
  <2>2. PICK r : r = calls'[i]
    OBVIOUS
  <2>3. \/ calls' = [calls EXCEPT ![i] =
              [calls[i] EXCEPT !.pc = "compose", !.fresh = TRUE, !.conv = made + 1]]
        \/ calls' = [calls EXCEPT ![i] =
              [calls[i] EXCEPT !.pc = "compose", !.conv = conv[To[calls[i].of]].id]]
    BY <1>2 DEF StartConversation
  <2>4. r.pc = "compose" /\ r.of = o
    <3>1. \/ r = [calls[i] EXCEPT !.pc = "compose", !.fresh = TRUE, !.conv = made + 1]
          \/ r = [calls[i] EXCEPT !.pc = "compose", !.conv = conv[To[calls[i].of]].id]
      BY <2>2, <2>3 DEF Types, CallsOK
    <3> QED BY <1>0, <3>1 DEF Call
  <2>5. calls' = [calls EXCEPT ![i] = r]
    BY <2>2, <2>3 DEF Types, CallsOK
  <2>6. out[o].status = "none"
    BY <2>1 DEF SendInv
  <2> QED BY <2>1, <2>4, <2>5, <2>6, SendStep DEF SendAt
<1>3. CASE Compose(i)
  <2>1. calls[i].pc = "compose" /\ out[o].status = "none" /\ o \in Outbound /\ ~out[o].known
    BY <1>0, <1>3, SendOf DEF Compose, SendInv, SendAt, Types, Sent
  <2>2. CASE Answer(i) /\ UNCHANGED out
    BY <2>2, SendAnswer
  <2>3. ASSUME NEW pc \in {"drop", "dispatch"}, Goto(i, pc),
               \/ pc = "drop" /\ UNCHANGED out
               \/ out' = [out EXCEPT ![o].status = "queued"]
        PROVE  SendInv'
    <3>1. PICK r : r = [calls[i] EXCEPT !.pc = pc]
      OBVIOUS
    <3>2. r.pc = pc /\ r.of = o
      BY <1>0, <3>1 DEF Call
    <3>3. calls' = [calls EXCEPT ![i] = r]
      BY <2>3, <3>1 DEF Goto
    <3>4. \A p \in Outbound : out'[p].known = out[p].known
            /\ (p # o => out'[p].status = out[p].status)
      BY <1>0, <2>1, <2>3 DEF Types, OutOK, Sent
    <3>5. pc = "dispatch" => out'[o].status = "queued"
      BY <1>0, <2>1, <2>3 DEF Types, OutOK, Sent
    <3> QED BY <2>1, <3>2, <3>3, <3>4, <3>5, SendStep DEF SendAt
  <2> QED BY <1>3, <2>2, <2>3 DEF Compose
<1>4. CASE Drop(i)
  <2>1. \A p \in Outbound :
          \/ out'[p].status = out[p].status /\ out'[p].known = out[p].known
          \/ out'[p].status = "none" /\ ~out'[p].known
    BY <1>0, <1>4 DEF Drop, Sent
  <2> QED BY <1>4, <2>1, SendAnswer DEF Drop
<1>5. CASE Dispatch(i)
  <2>1. calls[i].pc = "dispatch" /\ o \in Outbound /\ out[o].status \in {"none", "queued"}
    BY <1>5, SendOf DEF Dispatch, SendInv, SendAt, Types
  <2>2. PICK s \in {"sent", "failed"} :
          /\ calls' = [calls EXCEPT ![i] = [calls[i] EXCEPT !.pc = "outcome", !.result = s]]
          /\ out' = out \/ out' = [out EXCEPT ![o].reports = {"sent"}]
    BY <1>5 DEF Dispatch
  <2>3. PICK r : r = [calls[i] EXCEPT !.pc = "outcome", !.result = s]
    OBVIOUS
  <2>4. r.pc = "outcome" /\ r.of = o /\ r.result = s
    BY <1>0, <2>3 DEF Call
  <2>5. calls' = [calls EXCEPT ![i] = r]
    BY <2>2, <2>3
  <2>6. \A p \in Outbound : out'[p].status = out[p].status /\ out'[p].known = out[p].known
    BY <1>0, <2>1, <2>2 DEF Types, OutOK, Sent
  <2> QED BY <2>1, <2>4, <2>5, <2>6, SendStep DEF SendAt
<1>6. CASE WriteOutcome(i)
  <2>1. /\ calls[i].pc = "outcome" /\ o \in Outbound /\ out[o].status \in {"none", "queued"}
        /\ calls[i].result \in {"sent", "failed"}
    BY <1>0, <1>6, SendOf DEF WriteOutcome, SendInv, SendAt, Types, Call
  <2>2. PICK r : r = [calls[i] EXCEPT !.pc = "touch"]
    OBVIOUS
  <2>3. r.pc = "touch" /\ r.of = o
    BY <1>0, <2>2 DEF Call
  <2>4. calls' = [calls EXCEPT ![i] = r]
    BY <1>6, <2>2 DEF WriteOutcome, Goto
  <2>5. out' = out \/ out' = [out EXCEPT ![o].status = calls[i].result,
                                         ![o].known = (calls[i].result = "sent")]
    BY <1>6 DEF WriteOutcome
  <2>6. \A p \in Outbound :
          \/ out'[p].status = out[p].status /\ out'[p].known = out[p].known
          \/ p = o /\ out'[p].status \in {"sent", "failed"}
    BY <1>0, <2>1, <2>5 DEF Types, OutOK, Sent
  <2> QED BY <2>1, <2>3, <2>4, <2>6, SendStep DEF SendAt
<1> QED BY <1>1, <1>2, <1>3, <1>4, <1>5, <1>6

LEMMA OtherSend ==
  ASSUME Types, Types', SendInv,
         \/ \E i \in Calls : Die(i)
         \/ \E c \in Customers : SetBlocked(c) \/ MarkRead(c)
         \/ \E o \in Outbound, s \in Reports : Report(o, s) \/ ApplyStatus(o, s)
         \/ UNCHANGED vars
  PROVE  SendInv'
<1>0. \A p \in Outbound : out[p] \in Sent
  BY DEF Types, OutOK
<1>1. ASSUME NEW i \in Calls, Die(i)  PROVE SendInv'
  BY <1>1, SendAnswer DEF Die, tables
<1>2. ASSUME UNCHANGED <<out, calls>>  PROVE SendInv'
  BY <1>2 DEF SendInv
<1>3. ASSUME NEW o \in Outbound, NEW s \in Reports, Report(o, s)  PROVE SendInv'
  <2>1. /\ \A p \in Outbound : out'[p].status = out[p].status /\ out'[p].known = out[p].known
        /\ calls' = calls /\ world' = world
    BY <1>0, <1>3 DEF Report, Types, OutOK, Sent
  <2>2. \A i \in Calls : calls[i].pc \in SendAt => calls[i].of \in Outbound
    BY SendOf DEF Types
  <2> QED BY <2>1, <2>2 DEF SendInv, SendAt
<1>4. ASSUME NEW o \in Outbound, NEW s \in Reports, ApplyStatus(o, s)  PROVE SendInv'
  <2>1. /\ calls' = calls /\ s \notin {"none", "queued"}
        /\ out[o].known /\ out[o].status \notin {"none", "queued"}
    BY <1>4 DEF ApplyStatus, SendInv, Reports
  <2>2. \A p \in Outbound : out'[p].known = out[p].known
          /\ out'[p].status = IF p = o THEN s ELSE out[p].status
    BY <1>0, <1>4 DEF ApplyStatus, Types, OutOK, Sent
  <2>3. \A i \in Calls : calls[i].pc \in {"start", "compose", "dispatch", "outcome"} =>
          calls[i].of # o /\ calls[i].of \in Outbound
    BY <2>1, SendOf DEF SendInv, SendAt, Types
  <2> QED BY <2>1, <2>2, <2>3 DEF SendInv
<1> QED BY <1>1, <1>2, <1>3, <1>4 DEF SetBlocked, MarkRead, vars, tables

LEMMA NextSend == Types /\ Types' /\ SendInv /\ [Next]_vars => SendInv'
  BY CameSend, WebhookSend, AgentSend, OtherSend DEF Next, Proceed, Settles

LEMMA SendCorrect == Spec => []SendInv
<1>1. Init => SendInv
  BY DEF Init, SendInv, Idle, SendAt
<1>2. BaseInv => Types
  BY DEF BaseInv
<1> QED BY <1>1, <1>2, BaseCorrect, NextSend, PTL DEF Spec

LEMMA ForwardStep ==
  ASSUME Types, SendInv, [Next]_vars, NEW o \in Outbound,
         out'[o].status \notin {out[o].status, "none"}
  PROVE  <<out[o].status, out'[o].status>> \in Forward
<1>0. \A p \in Outbound : out[p] \in Sent
  BY DEF Types, OutOK
<1>1. ASSUME NEW i \in Calls, Compose(i)
      PROVE  out[o].status = "none" /\ out'[o].status = "queued"
  <2>1. out[calls[i].of].status = "none" /\ calls[i].of \in Outbound
    BY <1>1, SendOf DEF Compose, SendInv, SendAt, Types
  <2>2. out' = [out EXCEPT ![calls[i].of].status = "queued"]
    BY <1>1 DEF Compose
  <2> QED BY <1>0, <2>1, <2>2 DEF Types, OutOK, Sent
<1>2. ASSUME NEW i \in Calls, WriteOutcome(i)
      PROVE  out[o].status = "queued" /\ out'[o].status \in {"sent", "failed"}
  <2> DEFINE p == calls[i].of
  <2>1. /\ p \in Outbound /\ calls[i].result \in {"sent", "failed"}
        /\ out[p].status \in {"none", "queued"}
    BY <1>2, SendOf DEF WriteOutcome, SendInv, SendAt, Types, Call
  <2>2. out[p].status # "none"
        /\ out' = [out EXCEPT ![p].status = calls[i].result, ![p].known = (calls[i].result = "sent")]
    BY <1>2 DEF WriteOutcome
  <2> QED BY <1>0, <2>1, <2>2 DEF Types, OutOK, Sent
<1>3. ASSUME NEW i \in Calls, Drop(i)  PROVE FALSE
  <2>1. out'[o].status \in {"none", out[o].status}
    BY <1>0, <1>3 DEF Drop, Sent
  <2> QED BY <2>1
<1>4. ASSUME NEW i \in Calls, Dispatch(i)  PROVE FALSE
  BY <1>0, <1>4 DEF Dispatch, Types, OutOK, Sent
<1>5. ASSUME NEW p \in Outbound, NEW s \in Reports, Report(p, s)  PROVE FALSE
  BY <1>0, <1>5 DEF Report, Types, OutOK, Sent
<1>6. ASSUME NEW p \in Outbound, NEW s \in Reports, ApplyStatus(p, s)
      PROVE  out'[o].status = s /\ out[o].status \in StatusFrom(s) \ {"queued"} /\ s # "sent"
  <2>1. p = o /\ out'[o].status = s
    BY <1>0, <1>6 DEF ApplyStatus, Types, OutOK, Sent
  <2>2. out[o].status \in StatusFrom(s) \ {"queued"}
    BY <1>6, <2>1 DEF ApplyStatus, SendInv
  <2> QED BY <2>1, <2>2 DEF StatusFrom
<1>7. ASSUME NEW i \in Calls, Come(i) \/ Die(i)  PROVE FALSE
  BY <1>7 DEF Come, ArriveEvent, ArriveSend, ArriveStart, ArriveLink, Die, tables
<1>8. ASSUME NEW i \in Calls,
             \/ UpsertContact(i) \/ Unblock(i) \/ Settles(i)
             \/ UpsertConversation(i) \/ Store(i) \/ Reply(i) \/ Relink(i)
             \/ StartConversation(i) \/ Throw(i) \/ Touch(i)
      PROVE  FALSE
  BY <1>8, SettledRest DEF UpsertContact, Unblock, Fail, Discard, UpsertConversation,
     Store, Reply, Relink, StartConversation, Throw, Touch, tables
<1>9. ASSUME NEW s \in Reports, out'[o].status = s, s # "sent",
             out[o].status \in StatusFrom(s) \ {"queued"}
      PROVE  <<out[o].status, out'[o].status>> \in Forward
  BY <1>9 DEF Reports, StatusFrom, Forward
<1>10. ~UNCHANGED out
  OBVIOUS
<1>11. <<"none", "queued">> \in Forward /\ \A s \in {"sent", "failed"} : <<"queued", s>> \in Forward
  BY DEF Forward
<1> QED BY <1>1, <1>2, <1>3, <1>4, <1>5, <1>6, <1>7, <1>8, <1>9, <1>10, <1>11
        DEF Next, Proceed, Settles, SetBlocked, MarkRead, vars, tables

(***************************************************************************)
(* The status an agent sees of a message only goes forward, whatever the   *)
(* order in which the provider's answer and its reports come, as long as   *)
(* its row is there.                                                       *)
(***************************************************************************)
THEOREM StatusCorrect == Spec => StatusForward
<1> DEFINE Step == \A o \in Outbound : out'[o].status \notin {out[o].status, "none"} =>
                     <<out[o].status, out'[o].status>> \in Forward
<1>1. Types /\ SendInv /\ [Next]_vars => [Step]_vars
  BY ForwardStep
<1>2. BaseInv => Types
  BY DEF BaseInv
<1> QED BY <1>1, <1>2, BaseCorrect, SendCorrect, PTL DEF Spec, StatusForward
----------------------------------------------------------------------------
(* The promise of the inbox.                                               *)

Unread == [c \in Customers |-> conv[c].unread]
Filed == [m \in Inbound |-> Len(timeline[m])]

LEMMA StutterStep ==
  ASSUME UNCHANGED stored, \A c \in Customers : conv'[c].unread = conv[c].unread,
         \A m \in Inbound : Len(timeline'[m]) = Len(timeline[m])
  PROVE  UNCHANGED <<stored, Unread, Filed>>
  BY DEF Unread, Filed

\* One row of the conversations may be cleared.
LEMMA ClearStep ==
  ASSUME UNCHANGED <<stored, timeline>>, NEW c \in Customers,
         \A d \in Customers :
           conv'[d].unread = IF d = c THEN 0 ELSE conv[d].unread
  PROVE  Promise!Clear(c)
<1>1. Unread' = [Unread EXCEPT ![c] = 0]
  BY DEF Unread
<1>2. UNCHANGED <<stored, Filed>>
  BY DEF Filed
<1> QED BY <1>1, <1>2 DEF Promise!Clear, Unread, Filed

\* Whoever answers in a conversation clears that one.
LEMMA TouchStep ==
  ASSUME Types, ConvInv, NEW i \in Calls, Touch(i)
  PROVE  Promise!Next \/ UNCHANGED <<stored, Unread, Filed>>
<1>0. \A d \in Customers : conv[d] \in Conversation
  BY DEF Types, ConvOK
<1>1. calls[i].conv # 0 /\ UNCHANGED <<stored, timeline>>
  BY DEF Touch, ConvInv, SendAt
<1>2. \A d \in Customers : conv'[d].unread = IF conv[d].id = calls[i].conv THEN 0 ELSE conv[d].unread
  BY <1>0 DEF Touch, Conversation
<1>3. CASE \E c \in Customers : conv[c].id = calls[i].conv
  <2>1. PICK c \in Customers : conv[c].id = calls[i].conv
    BY <1>3
  <2>2. \A d \in Customers : conv[d].id = calls[i].conv => d = c
    BY <1>1, <2>1 DEF ConvInv
  <2>3. \A d \in Customers : conv'[d].unread = IF d = c THEN 0 ELSE conv[d].unread
    BY <1>2, <2>1, <2>2
  <2> QED BY <1>1, <2>3, ClearStep DEF Promise!Next
<1>4. CASE \A c \in Customers : conv[c].id # calls[i].conv
  BY <1>1, <1>2, <1>4, StutterStep
<1> QED BY <1>3, <1>4

LEMMA StoreStep ==
  ASSUME Types, NEW i \in Calls, Store(i)
  PROVE  Promise!Next \/ UNCHANGED <<stored, Unread, Filed>>
<1> DEFINE m == calls[i].of  c == From[m]  l == calls[i].lead
           row == [conv[c] EXCEPT !.unread = @ + 1, !.at = Later(@, At[m])]
<1>0. m \in Inbound /\ c \in Customers /\ l \in Leads \union {NoLead}
  BY CallsType DEF Store, WebhookAt, Call
<1>1. CASE UNCHANGED tables
  BY <1>1 DEF tables, Unread, Filed
<1>2. CASE /\ m \notin stored /\ stored' = stored \union {m}
           /\ conv' = [conv EXCEPT ![c] = row]
           /\ timeline' = timeline \/ timeline' = [timeline EXCEPT ![m] = Append(@, l)]
  <2>1. row.unread = conv[c].unread + 1
    BY <1>0 DEF Types, ConvOK, Conversation
  <2>2. Unread' = [Unread EXCEPT ![c] = @ + 1]
    <3>1. \A d \in Customers : conv'[d] = IF d = c THEN row ELSE conv[d]
      BY <1>2 DEF Types, ConvOK
    <3> HIDE DEF row
    <3> QED BY <2>1, <3>1 DEF Unread
  <2>3. \E n \in {0, 1} : Filed' = [Filed EXCEPT ![m] = @ + n]
    <3>1. timeline \in [Inbound -> Seq(Leads \union {NoLead})]
      BY DEF Types, ConvOK
    <3>2. \A k \in Inbound : Len(timeline[k]) \in Nat
      BY <3>1
    <3>3. CASE timeline' = timeline
      <4>1. Filed' = [Filed EXCEPT ![m] = @ + 0]
        BY <1>0, <3>2, <3>3 DEF Filed
      <4> QED BY <4>1
    <3>4. CASE timeline' = [timeline EXCEPT ![m] = Append(@, l)]
      <4>1. Len(timeline'[m]) = Len(timeline[m]) + 1
        <5>1. timeline'[m] = Append(timeline[m], l) /\ timeline[m] \in Seq(Leads \union {NoLead})
          BY <1>0, <3>1, <3>4
        <5> HIDE DEF l, m
        <5> QED BY <1>0, <5>1
      <4>2. \A k \in Inbound : k # m => timeline'[k] = timeline[k]
        BY <3>1, <3>4
      <4>3. Filed' = [Filed EXCEPT ![m] = @ + 1]
        BY <1>0, <4>1, <4>2 DEF Filed
      <4> QED BY <4>3
    <3> QED BY <1>2, <3>3, <3>4
  <2> QED BY <1>0, <1>2, <2>2, <2>3 DEF Promise!Next, Promise!Show, Unread, Filed
<1>3. \/ UNCHANGED tables
      \/ /\ m \notin stored /\ stored' = stored \union {m}
         /\ conv' = [conv EXCEPT ![c] = row]
         /\ timeline' = timeline \/ timeline' = [timeline EXCEPT ![m] = Append(@, l)]
  BY DEF Store, Fail, tables
<1> QED BY <1>1, <1>2, <1>3

\* A conversation that is created starts with the count that it had: none.
LEMMA RowStep ==
  ASSUME Types, ConvInv, NEW i \in Calls,
         UpsertConversation(i) \/ StartConversation(i)
  PROVE  UNCHANGED <<stored, Unread, Filed>>
<1>0. \A d \in Customers : conv[d] \in Conversation
  BY DEF Types, ConvOK
<1>1. ASSUME NEW c \in Customers, conv[c].id = 0,
             NEW r, r.unread = 0, conv' = [conv EXCEPT ![c] = r]
      PROVE  \A d \in Customers : conv'[d].unread = conv[d].unread
  <2>1. conv[c].unread = 0
    BY <1>1 DEF ConvInv, NoConv
  <2> QED BY <1>1, <2>1 DEF Types, ConvOK
<1>2. CASE UpsertConversation(i)
  <2> DEFINE c == From[calls[i].of]
             new == [NoConv EXCEPT !.id = made + 1, !.lead = calls[i].lead]
             moved == [conv[c] EXCEPT !.lead = calls[i].lead]
  <2>1. c \in Customers
    BY <1>2, CallsType DEF UpsertConversation, WebhookAt
  <2>2. new.unread = 0 /\ moved.unread = conv[c].unread
    BY <1>0, <2>1 DEF Conversation, NoConv
  <2>3. /\ \/ conv' = conv \/ (conv[c].id = 0 /\ conv' = [conv EXCEPT ![c] = new])
           \/ conv' = [conv EXCEPT ![c] = moved]
        /\ UNCHANGED <<stored, timeline>>
    BY <1>2 DEF UpsertConversation
  <2> HIDE DEF new, moved
  <2>4. \A d \in Customers : conv'[d].unread = conv[d].unread
    BY <1>1, <2>1, <2>2, <2>3 DEF Types, ConvOK
  <2> QED BY <2>3, <2>4, StutterStep
<1>3. CASE StartConversation(i)
  <2> DEFINE c == To[calls[i].of]
             new == [NoConv EXCEPT !.id = made + 1, !.lead = StartFor[calls[i].of]]
  <2>1. c \in Customers
    BY <1>3, SendOf DEF StartConversation, SendAt, Types
  <2>2. new.unread = 0
    BY DEF NoConv
  <2>3. /\ conv' = conv \/ (conv[c].id = 0 /\ conv' = [conv EXCEPT ![c] = new])
        /\ UNCHANGED <<stored, timeline>>
    BY <1>3 DEF StartConversation
  <2> HIDE DEF new
  <2>4. \A d \in Customers : conv'[d].unread = conv[d].unread
    BY <1>1, <2>1, <2>2, <2>3
  <2> QED BY <2>3, <2>4, StutterStep
<1> QED BY <1>2, <1>3

\* A conversation without messages has nothing unread.
LEMMA DropStep ==
  ASSUME Types, UnreadInv, NEW i \in Calls, Drop(i), stored \subseteq stored'
  PROVE  UNCHANGED <<stored, Unread, Filed>>
<1> DEFINE c == To[calls[i].of]
<1>1. CASE conv[c].id # calls[i].conv
  BY <1>1, StutterStep DEF Drop
<1>2. CASE conv[c].id = calls[i].conv
  <2>1. /\ conv' = [conv EXCEPT ![c] = NoConv] /\ stored' = {m \in stored : From[m] # c}
        /\ UNCHANGED timeline
    BY <1>2 DEF Drop
  <2>2. c \in Customers
    BY SendOf DEF Drop, SendAt, Types
  <2>3. {m \in stored : From[m] = c} = {} /\ stored' = stored
    BY <2>1
  <2>4. conv[c].unread = 0
    <3>1. Cardinality({m \in stored : From[m] = c}) = 0
      BY <2>3, FS_EmptySet
    <3>2. conv[c].unread <= 0
      BY <2>2, <3>1 DEF UnreadInv
    <3>3. conv[c] \in Conversation
      BY <2>2 DEF Types, ConvOK
    <3>4. conv[c].unread \in Nat
      BY <3>3, InboundFinite DEF Conversation
    <3> QED BY <3>2, <3>4
  <2>5. \A d \in Customers : conv'[d].unread = conv[d].unread
    BY <2>1, <2>4 DEF Types, ConvOK, NoConv
  <2> QED BY <2>1, <2>3, <2>5, StutterStep
<1> QED BY <1>1, <1>2

LEMMA RelinkStep ==
  ASSUME Types, NEW i \in Calls, Relink(i) \/ Discard(i)
  PROVE  UNCHANGED <<stored, Unread, Filed>>
<1>1. UNCHANGED stored
  BY DEF Relink, Discard
<1>2. \A d \in Customers : conv'[d].unread = conv[d].unread
  BY DEF Relink, Discard, Types, ConvOK, Conversation
<1>3. \A m \in Inbound : Len(timeline'[m]) = Len(timeline[m])
  <2>1. CASE Relink(i)
    BY <2>1 DEF Relink
  <2>2. ASSUME Discard(i), NEW m \in Inbound  PROVE Len(timeline'[m]) = Len(timeline[m])
    <3>1. timeline'[m] = [n \in DOMAIN timeline[m] |->
            IF timeline[m][n] = calls[i].new THEN NoLead ELSE timeline[m][n]]
      BY <2>2 DEF Discard
    <3>2. timeline[m] \in Seq(Leads \union {NoLead})
      BY DEF Types, ConvOK
    <3>3. DOMAIN timeline'[m] = 1 .. Len(timeline[m]) /\ Len(timeline[m]) \in Nat
      BY <3>1, <3>2
    <3>4. timeline'[m] = [n \in 1 .. Len(timeline[m]) |-> timeline'[m][n]]
      BY <3>1, <3>3
    <3> QED BY <3>3, <3>4
  <2> QED BY <2>1, <2>2
<1> QED BY <1>1, <1>2, <1>3, StutterStep

LEMMA PromiseStep ==
  ASSUME Types, ConvInv, UnreadInv, [Next]_vars, stored \subseteq stored'
  PROVE  Promise!Next \/ UNCHANGED <<stored, Unread, Filed>>
<1>1. ASSUME NEW i \in Calls,
             \/ UpsertContact(i) \/ Unblock(i) \/ (Settles(i) /\ ~Discard(i)) \/ Reply(i)
             \/ Compose(i) \/ Dispatch(i) \/ WriteOutcome(i) \/ Throw(i) \/ Come(i) \/ Die(i)
      PROVE  UNCHANGED <<stored, conv, timeline>>
  BY <1>1, SettledRest DEF UpsertContact, Unblock, Reply, Compose, Dispatch,
     WriteOutcome, Throw, Come, ArriveEvent, ArriveSend, ArriveStart, ArriveLink, Die, tables
<1>2. ASSUME NEW c \in Customers, MarkRead(c)  PROVE Promise!Next
  <2>1. \A d \in Customers : conv'[d].unread = IF d = c THEN 0 ELSE conv[d].unread
    BY <1>2 DEF MarkRead, Types, ConvOK, Conversation
  <2> QED BY <1>2, <2>1, ClearStep DEF MarkRead, Promise!Next
<1>3. UNCHANGED <<stored, conv, timeline>> => UNCHANGED <<stored, Unread, Filed>>
  BY DEF Unread, Filed
<1>4. ASSUME NEW i \in Calls, Proceed(i)
      PROVE  Promise!Next \/ UNCHANGED <<stored, Unread, Filed>>
  BY <1>1, <1>3, <1>4, TouchStep, StoreStep, RowStep, DropStep, RelinkStep DEF Proceed, Settles
<1>5. ASSUME \/ \E c \in Customers : SetBlocked(c)
             \/ \E o \in Outbound, s \in Reports : Report(o, s) \/ ApplyStatus(o, s)
             \/ UNCHANGED vars
      PROVE  UNCHANGED <<stored, conv, timeline>>
  BY <1>5 DEF SetBlocked, Report, ApplyStatus, vars, tables
<1> QED BY <1>1, <1>2, <1>3, <1>4, <1>5 DEF Next

LEMMA PromiseInit == Init => Promise!Init
<1> SUFFICES ASSUME Init PROVE Promise!Init
  OBVIOUS
<1>1. stored = {} /\ Unread = [c \in Customers |-> 0]
  BY DEF Init, Unread, NoConv
<1>2. Filed = [m \in Inbound |-> 0]
  BY DEF Init, Filed
<1> QED BY <1>1, <1>2 DEF Promise!Init, Unread, Filed

(***************************************************************************)
(* The inbox keeps its promise: a message is shown once, counted once and  *)
(* filed at most once, under redelivery, parallel webhooks and deaths; as  *)
(* long as no refused start takes a conversation with messages away.       *)
(***************************************************************************)
THEOREM InboxPromise == Spec /\ DropsOnlyEmpty => ImplementsInbox
<1> DEFINE Empty == stored \subseteq stored'
<1>1. Types /\ ConvInv /\ UnreadInv /\ [Next]_vars /\ [Empty]_vars
        => [Promise!Next]_(Promise!vars)
  <2>1. UNCHANGED vars => stored \subseteq stored'
    BY DEF vars, tables
  <2>2. UNCHANGED <<stored, Unread, Filed>> => UNCHANGED Promise!vars
    BY DEF Promise!vars, Unread, Filed
  <2> QED BY <2>1, <2>2, PromiseStep
<1>2. BaseInv => Types /\ ConvInv /\ UnreadInv
  BY DEF BaseInv
<1> QED BY <1>1, <1>2, BaseCorrect, PromiseInit, PTL DEF Spec, DropsOnlyEmpty, ImplementsInbox, Promise!Spec
=============================================================================
