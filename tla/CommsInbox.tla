------------------------------ MODULE CommsInbox ----------------------------
(***************************************************************************)
(* The inbox of one messenger channel: what customers write comes in by    *)
(* webhooks, what agents write goes out through the provider.  Webhooks    *)
(* run on several instances at once, are delivered in any order and again  *)
(* until the provider gets a 200, and an instance may die between any two  *)
(* of its database calls.  Only the message, the counters of its           *)
(* conversation and its entry in the timeline are written in a             *)
(* transaction.  An action is one statement, or several of which only one  *)
(* meets another actor: a row inserted unless it is there and then read    *)
(* (contacts, conversations), a row read and then changed by its key.      *)
(***************************************************************************)
EXTENDS Integers, Sequences, FiniteSets

CONSTANTS
  Customers,
  Inbound,      \* events of the customers: messages, and opened invitations
  From, At,     \* who sends each of them, and when
  KnownLeads,   \* leads from before, and the one each was merged into
  MergedInto,
  NewLeads,     \* identities of the leads the webhooks create
  NoLead,
  NoOne,
  Outbound,     \* messages of the agents, to whom each goes, and from whose
  To,           \* lead a new conversation is started
  StartFor,
  Calls,        \* instances working at one time
  MaxDeaths,    \* bounds on deaths, and on conversations made
  MaxMade,
  Worlds        \* who does what, and how the channel is set: each behaviour
                \* takes place in one of these

ASSUME InboxAssumption ==
  /\ From \in [Inbound -> Customers] /\ At \in [Inbound -> Nat \ {0}]
  /\ To \in [Outbound -> Customers] /\ StartFor \in [Outbound -> KnownLeads]
  /\ MergedInto \in [KnownLeads -> KnownLeads \union {NoLead}]
  /\ Worlds \subseteq [
       events     : SUBSET Inbound,    \* what the customers send: messages,
       opened     : SUBSET Inbound,    \* or that they opened the chat
       bare       : SUBSET Inbound,    \* which of them carry no payload, and
       invited    : [Inbound -> KnownLeads \union {NoLead}], \* the lead of
                                       \* a signed one, NoLead for another
       match      : [Customers -> KnownLeads \union {NoLead}], \* the oldest
                                       \* lead with their phone or email
       phones     : SUBSET Customers,  \* whose phone the channel tells
       blocks     : SUBSET Customers,  \* who may block the channel
       sends      : SUBSET Outbound,   \* what the agents send
       starts     : BOOLEAN,           \* whether they start conversations
       links      : SUBSET KnownLeads, \* what they link conversations to
       reads      : SUBSET Customers,  \* whose conversations they open
       autoCreate : BOOLEAN]           \* config.autoCreateLead
  /\ NoLead \notin KnownLeads \union NewLeads /\ KnownLeads \intersect NewLeads = {}
  /\ NoOne \notin Customers /\ IsFiniteSet(Inbound)
  /\ \A w \in Worlds, c \in Customers :   \* a match is not merged away
       w.match[c] # NoLead => MergedInto[w.match[c]] = NoLead
  /\ \A w \in Worlds, m \in Inbound : m \in w.bare => w.invited[m] = NoLead
  /\ MaxDeaths \in Nat /\ MaxMade \in Nat

VARIABLES
  contact,  \* comm_contacts: the lead and whether the customer blocked us
  conv,     \* comm_conversations: id, lead, unread count, last_inbound_at
  stored,   \* comm_messages that came in
  timeline, \* lead_interactions of each of them, in the order they were made,
            \* NoLead for one deleted with its lead
  out,      \* status of the messages that go out, and what was reported
  owner,    \* the customer each new lead was created for, NoOne when absent
  due,      \* events the provider has had no 200 for
  calls,    \* the instances: what each has read and does next
  made,     \* conversations created so far
  history,  \* leads that won a contact; leads a dying call left; deaths
  world     \* the one of Worlds, fixed

tables == <<contact, conv, stored, timeline, out, owner>>
vars == <<tables, due, calls, made, history, world>>

Leads == KnownLeads \union NewLeads
Statuses == {"none", "queued", "sent", "delivered", "read", "failed"}
Reports == {"sent", "delivered", "read", "failed"}

Contact == [there : BOOLEAN, lead : Leads \union {NoLead}, blocked : BOOLEAN]
Conversation == [id : 0 .. made, lead : Leads \union {NoLead},
                 unread : 0 .. Cardinality(Inbound),
                 at : {0} \union {At[m] : m \in Inbound}]
Sent == [status : Statuses, known : BOOLEAN, reports : SUBSET Reports]

NoContact == [there |-> FALSE, lead |-> NoLead, blocked |-> FALSE]
NoConv == [id |-> 0, lead |-> NoLead, unread |-> 0, at |-> 0]
Idle == [pc |-> "idle", of |-> "none", known |-> NoLead, lead |-> NoLead,
         new |-> NoLead, conv |-> 0, fresh |-> FALSE, result |-> "none"]

\* Where a webhook and an agent's request may be between two round trips.
WebhookAt == {"contact", "unblock", "resolve", "match", "create", "claim",
              "winner", "discard", "follow", "conv", "store", "reply"}
SendAt == {"start", "compose", "drop", "dispatch", "outcome", "touch"}

Call == [pc : {"idle", "relink"} \union WebhookAt \union SendAt,
         of : Inbound \union Outbound \union {"none"},
         known : Leads \union {NoLead}, lead : Leads \union {NoLead},
         new : NewLeads \union {NoLead}, conv : 0 .. made, fresh : BOOLEAN,
         result : {"none", "sent", "failed"}]

TypeOK ==
  /\ contact \in [Customers -> Contact] /\ conv \in [Customers -> Conversation]
  /\ stored \subseteq world.events \ world.opened
  /\ timeline \in [Inbound -> Seq(Leads \union {NoLead})]
  /\ out \in [Outbound -> Sent]
  /\ owner \in [NewLeads -> Customers \union {NoOne}]
  /\ due \subseteq Inbound
  /\ made \in Nat /\ world \in Worlds
  /\ calls \in [Calls -> Call]
  /\ \A i \in Calls :
       /\ calls[i].pc \in WebhookAt => calls[i].of \in world.events
       /\ calls[i].pc \in SendAt => calls[i].of \in world.sends
  /\ history \in [won : SUBSET Leads, left : SUBSET NewLeads, deaths : 0 .. MaxDeaths]

Init ==
  /\ contact = [c \in Customers |-> NoContact]
  /\ conv = [c \in Customers |-> NoConv]
  /\ stored = {}
  /\ timeline = [m \in Inbound |-> <<>>]
  /\ out = [o \in Outbound |-> [status |-> "none", known |-> FALSE, reports |-> {}]]
  /\ owner = [l \in NewLeads |-> NoOne]
  /\ world \in Worlds
  /\ due = world.events
  /\ calls = [i \in Calls |-> Idle]
  /\ made = 0
  /\ history = [won |-> {}, left |-> {}, deaths |-> 0]

Goto(i, pc) == calls' = [calls EXCEPT ![i].pc = pc]
Answer(i) == calls' = [calls EXCEPT ![i] = Idle]

----------------------------------------------------------------------------
(* Which lead a customer's event belongs to.                               *)

Exists(l) == l \in KnownLeads \/ (l \in NewLeads /\ owner[l] # NoOne)

\* leadInTenant: five reads, so four hops along merged_into_id.
Hop(l) == IF l \in KnownLeads /\ MergedInto[l] # NoLead THEN MergedInto[l] ELSE l

End(l) == Hop(Hop(Hop(Hop(l))))

Visible(l) == IF Exists(End(l)) /\ Hop(End(l)) = End(l) THEN End(l) ELSE NoLead

\* The query by normalized phone or email, oldest lead first: a known lead,
\* or one that a webhook of the same customer has just created.
Matches(c) ==
  IF world.match[c] # NoLead THEN {world.match[c]}
  ELSE IF c \in world.phones THEN {l \in NewLeads : owner[l] = c} ELSE {}

\* An identity for a lead to be created: one that nobody holds.
Fresh ==
  {n \in NewLeads : owner[n] = NoOne /\ n \notin history.won
                      /\ \A j \in Calls : calls[j].lead # n}

----------------------------------------------------------------------------
(* The webhook of a customer's message or opened invitation.               *)

\* Variant: the 200 is sent before the event is processed.
ArriveEventAcksFirst(i, m) ==
  /\ calls[i].pc = "idle"
  /\ calls' = [calls EXCEPT ![i] = [Idle EXCEPT !.pc = "contact", !.of = m]]
  /\ due' = due \ {m}
  /\ UNCHANGED <<tables, made, history, world>>

\* The provider delivers what has no 200 yet, and what has one once more.
ArriveEvent(i, m) ==
  /\ calls[i].pc = "idle"
  /\ calls' = [calls EXCEPT ![i] = [Idle EXCEPT !.pc = "contact", !.of = m]]
  /\ UNCHANGED <<tables, due, made, history, world>>

Acknowledge(i) == Answer(i) /\ due' = due \ {calls[i].of}

\* upsertContact: an INSERT that does nothing on conflict, and the row read.
UpsertContact(i) ==
  LET m == calls[i].of
      c == From[m]
      row == [contact[c] EXCEPT !.there = TRUE]
      ends == m \in world.opened /\ m \in world.bare
  IN
  /\ calls[i].pc = "contact"
  /\ contact' = [contact EXCEPT ![c] = row]
  /\ \/ /\ ends
        /\ Acknowledge(i)
     \/ /\ ~ends
        /\ calls' = [calls EXCEPT ![i].known = row.lead,
             ![i].pc = IF row.blocked /\ m \notin world.opened THEN "unblock" ELSE "resolve"]
        /\ UNCHANGED due
  /\ UNCHANGED <<conv, stored, timeline, out, owner, made, history, world>>

\* Whoever writes to us does not block us any more.
Unblock(i) ==
  /\ calls[i].pc = "unblock"
  /\ contact' = [contact EXCEPT ![From[calls[i].of]].blocked = FALSE]
  /\ Goto(i, "resolve")
  /\ UNCHANGED <<conv, stored, timeline, out, owner, due, made, history, world>>

\* resolveLead: the invitation, else the link the contact was read with; when
\* neither leads anywhere, a lead is looked for.
ResolveLead(i) ==
  LET call  == calls[i]
      link  == Visible(world.invited[call.of])
      old   == Visible(call.known)
      With(l, pc) == calls' = [calls EXCEPT ![i].lead = l, ![i].pc = pc]
  IN
  /\ call.pc = "resolve"
  /\ \/ /\ link # NoLead
        /\ contact' = IF call.known = link THEN contact
                      ELSE [contact EXCEPT ![From[call.of]].lead = link]
        /\ With(link, "conv")
     \/ /\ link = NoLead /\ old # NoLead
        /\ With(old, "conv")
        /\ UNCHANGED contact
     \/ /\ link = NoLead /\ old = NoLead
        /\ Goto(i, "match")
        /\ UNCHANGED contact
  /\ UNCHANGED <<conv, stored, timeline, out, owner, due, made, history, world>>

\* A lead with the same phone or email; else a new one, or none at all.
MatchLead(i) ==
  LET c == From[calls[i].of] IN
  /\ calls[i].pc = "match"
  /\ \/ \E l \in Matches(c) : calls' = [calls EXCEPT ![i].lead = l, ![i].pc = "claim"]
     \/ Matches(c) = {} /\ world.autoCreate /\ Goto(i, "create")
     \/ Matches(c) = {} /\ ~world.autoCreate /\ Goto(i, "conv")
  /\ UNCHANGED <<tables, due, made, history, world>>

\* The INSERT, after the wait for the tenant's pipeline.
CreateLead(i) ==
  LET l == CHOOSE n \in Fresh : TRUE IN
  /\ calls[i].pc = "create"
  /\ Fresh # {}
  /\ owner' = [owner EXCEPT ![l] = From[calls[i].of]]
  /\ calls' = [calls EXCEPT ![i].lead = l, ![i].new = l, ![i].pc = "claim"]
  /\ UNCHANGED <<contact, conv, stored, timeline, out, due, made, history, world>>

\* The call throws: the webhook answers 500 and the provider keeps the event.
Fail(i) ==
  /\ Answer(i)
  /\ UNCHANGED <<tables, due, made, history, world>>

\* Variant: the contact is linked whatever it is linked to by now.
ClaimAnyway(i) ==
  LET call == calls[i] IN
  /\ call.pc = "claim"
  /\ contact' = [contact EXCEPT ![From[call.of]].lead = call.lead]
  /\ history' = [history EXCEPT !.won = @ \union {call.lead}]
  /\ Goto(i, "conv")
  /\ UNCHANGED <<conv, stored, timeline, out, owner, due, made, world>>

\* Variant: a call that lost goes on with the lead it has.
ClaimGoesOn(i) ==
  LET call   == calls[i]
      winner == contact[From[call.of]].lead
  IN
  /\ call.pc = "claim"
  /\ contact' = IF winner # NoLead THEN contact
                ELSE [contact EXCEPT ![From[call.of]].lead = call.lead]
  /\ history' = IF winner # NoLead THEN history
                ELSE [history EXCEPT !.won = @ \union {call.lead}]
  /\ calls' = [calls EXCEPT ![i].pc = "conv", ![i].new = NoLead]
  /\ UNCHANGED <<conv, stored, timeline, out, owner, due, made, world>>

\* claimContactLead: UPDATE ... WHERE lead_id IS NULL.
Claim(i) ==
  LET call == calls[i]
      c    == From[call.of]
  IN
  /\ call.pc = "claim"
  /\ \/ /\ contact[c].lead = NoLead /\ Exists(call.lead)
        /\ contact' = [contact EXCEPT ![c].lead = call.lead]
        /\ history' = [history EXCEPT !.won = @ \union {call.lead}]
        /\ Goto(i, "conv")
        /\ UNCHANGED <<conv, stored, timeline, out, owner, due, made, world>>
     \/ /\ contact[c].lead = NoLead /\ ~Exists(call.lead)
        /\ Fail(i)
     \/ /\ contact[c].lead # NoLead
        /\ Goto(i, "winner")
        /\ UNCHANGED <<tables, due, made, history, world>>

\* ... and, when it changed no row, the SELECT of the lead that won.  A call
\* that had created a lead deletes it before it follows the winner.
ReadWinner(i) ==
  LET call   == calls[i]
      winner == contact[From[call.of]].lead
      next   == IF call.new # NoLead /\ winner # call.new THEN "discard"
                ELSE IF winner \notin {NoLead, call.lead} THEN "follow" ELSE "conv"
  IN
  /\ call.pc = "winner"
  /\ calls' = [calls EXCEPT ![i].known = winner, ![i].pc = next]
  /\ UNCHANGED <<tables, due, made, history, world>>

\* DELETE of the lead, its timeline with it; a link to it becomes NULL.
Discard(i) ==
  LET gone == calls[i].new
      Unless(l) == IF l = gone THEN NoLead ELSE l
  IN
  /\ calls[i].pc = "discard"
  /\ owner' = [owner EXCEPT ![gone] = NoOne]
  /\ timeline' = [m \in Inbound |->
       [n \in DOMAIN timeline[m] |-> Unless(timeline[m][n])]]
  /\ contact' = [c \in Customers |->
       [contact[c] EXCEPT !.lead = Unless(contact[c].lead)]]
  /\ conv' = [c \in Customers |-> [conv[c] EXCEPT !.lead = Unless(conv[c].lead)]]
  /\ calls' = [calls EXCEPT ![i].pc = "follow", ![i].lead = NoLead, ![i].new = NoLead]
  /\ UNCHANGED <<stored, out, due, made, history, world>>

\* leadInTenant of the winner; without it, the match, or no lead.
FollowWinner(i) ==
  LET other == Visible(calls[i].known) IN
  /\ calls[i].pc = "follow"
  /\ calls' = [calls EXCEPT ![i].pc = "conv",
                            ![i].lead = IF other # NoLead THEN other ELSE @]
  /\ UNCHANGED <<tables, due, made, history, world>>

\* upsertConversation: the row, created when it is missing; its lead follows
\* the one resolved.
UpsertConversation(i) ==
  LET call == calls[i]
      c    == From[call.of]
      row  == conv[c]
  IN
  /\ call.pc = "conv"
  /\ \/ /\ row.id = 0
        /\ made' = made + 1
        /\ conv' = [conv EXCEPT ![c] = [NoConv EXCEPT
             !.id = made + 1, !.lead = call.lead]]
     \/ /\ row.id # 0
        /\ conv' = IF call.lead = NoLead THEN conv
                   ELSE [conv EXCEPT ![c].lead = call.lead]
        /\ UNCHANGED made
  /\ \/ /\ call.of \in world.opened
        /\ Acknowledge(i)
     \/ /\ call.of \notin world.opened
        /\ calls' = [calls EXCEPT ![i].pc = "store", ![i].conv = conv'[c].id]
        /\ UNCHANGED due
  /\ UNCHANGED <<contact, stored, timeline, out, owner, history, world>>

Later(a, b) == IF a > b THEN a ELSE b

\* Variant: the counters move before the message is known to be new.
StoreCountsFirst(i) ==
  LET call == calls[i]
      m    == call.of
      c    == From[m]
  IN
  /\ call.pc = "store"
  /\ call.conv = conv[c].id
  /\ stored' = stored \union {m}
  /\ conv' = [conv EXCEPT ![c].unread = @ + 1, ![c].at = Later(@, At[m])]
  /\ timeline' = IF m \in stored \/ call.lead = NoLead THEN timeline
                 ELSE [timeline EXCEPT ![m] = Append(@, call.lead)]
  /\ Goto(i, "reply")
  /\ UNCHANGED <<contact, out, owner, due, made, history, world>>

\* Variant: last_inbound_at is the time of the message stored last.
StoreSetsTime(i) ==
  LET call == calls[i]
      m    == call.of
      c    == From[m]
  IN
  /\ call.pc = "store"
  /\ call.conv = conv[c].id
  /\ m \notin stored
  /\ stored' = stored \union {m}
  /\ conv' = [conv EXCEPT ![c].unread = @ + 1, ![c].at = At[m]]
  /\ timeline' = IF call.lead = NoLead THEN timeline
                 ELSE [timeline EXCEPT ![m] = Append(@, call.lead)]
  /\ Goto(i, "reply")
  /\ UNCHANGED <<contact, out, owner, due, made, history, world>>

\* The transaction: the message, unless the unique index on its provider id
\* has it already, the counters and the timeline entry, all or nothing.  A
\* conversation or a lead deleted meanwhile breaks a foreign key.
Store(i) ==
  LET call == calls[i]
      m    == call.of
      c    == From[m]
      sound == call.conv = conv[c].id /\ (call.lead = NoLead \/ Exists(call.lead))
  IN
  /\ call.pc = "store"
  /\ \/ /\ m \in stored
        /\ Acknowledge(i)
        /\ UNCHANGED <<tables, made, history, world>>
     \/ /\ m \notin stored /\ ~sound
        /\ Fail(i)
     \/ /\ m \notin stored /\ sound
        /\ stored' = stored \union {m}
        /\ conv' = [conv EXCEPT ![c].unread = @ + 1, ![c].at = Later(@, At[m])]
        /\ timeline' = IF call.lead = NoLead THEN timeline
                       ELSE [timeline EXCEPT ![m] = Append(@, call.lead)]
        /\ Goto(i, "reply")
        /\ UNCHANGED <<contact, out, owner, due, made, history, world>>

\* stopCadencesOnReply and notifyResponsible, which change nothing kept here,
\* and the 200.
Reply(i) ==
  /\ calls[i].pc = "reply"
  /\ Acknowledge(i)
  /\ UNCHANGED <<tables, made, history, world>>

\* The events "blocked" and "unblocked", which may come late too.
SetBlocked(c) ==
  /\ contact[c].there /\ c \in world.blocks
  /\ contact' = [contact EXCEPT ![c].blocked = ~@]
  /\ UNCHANGED <<conv, stored, timeline, out, owner, due, calls, made, history, world>>

----------------------------------------------------------------------------
(* What the agents do.                                                     *)

\* POST .../read.
MarkRead(c) ==
  /\ conv[c].id # 0 /\ c \in world.reads
  /\ conv' = [conv EXCEPT ![c].unread = 0]
  /\ UNCHANGED <<contact, stored, timeline, out, owner, due, calls, made, history, world>>

\* PATCH .../:id with a lead: the contact, and then the conversation.
ArriveLink(i, c, l) ==
  /\ calls[i].pc = "idle"
  /\ conv[c].id # 0
  /\ contact' = [contact EXCEPT ![c].lead = l]
  /\ calls' = [calls EXCEPT ![i] = [Idle EXCEPT
       !.pc = "relink", !.lead = l, !.conv = conv[c].id]]
  /\ UNCHANGED <<conv, stored, timeline, out, owner, due, made, history, world>>

Relink(i) ==
  /\ calls[i].pc = "relink"
  /\ conv' = [c \in Customers |->
       IF conv[c].id = calls[i].conv THEN [conv[c] EXCEPT !.lead = calls[i].lead]
       ELSE conv[c]]
  /\ Answer(i)
  /\ UNCHANGED <<contact, stored, timeline, out, owner, due, made, history, world>>

ArriveSend(i, o) ==
  /\ calls[i].pc = "idle"
  /\ out[o].status = "none" /\ \A j \in Calls : calls[j].of # o
  /\ conv[To[o]].id # 0
  /\ calls' = [calls EXCEPT ![i] = [Idle EXCEPT
       !.pc = "compose", !.of = o, !.conv = conv[To[o]].id]]
  /\ UNCHANGED <<tables, due, made, history, world>>

\* startConversation, up to the contact: found, or created with the lead.
ArriveStart(i, o) ==
  /\ world.starts /\ made < MaxMade
  /\ calls[i].pc = "idle"
  /\ out[o].status = "none" /\ \A j \in Calls : calls[j].of # o
  /\ contact' = [contact EXCEPT ![To[o]].there = TRUE, ![To[o]].lead = StartFor[o]]
  /\ calls' = [calls EXCEPT ![i] = [Idle EXCEPT !.pc = "start", !.of = o]]
  /\ UNCHANGED <<conv, stored, timeline, out, owner, due, made, history, world>>

\* ... and the conversation.
StartConversation(i) ==
  LET c == To[calls[i].of] IN
  /\ calls[i].pc = "start"
  /\ \/ /\ conv[c].id = 0
        /\ made' = made + 1
        /\ conv' = [conv EXCEPT ![c] = [NoConv EXCEPT
             !.id = made + 1, !.lead = StartFor[calls[i].of]]]
        /\ calls' = [calls EXCEPT ![i].pc = "compose", ![i].fresh = TRUE,
                                  ![i].conv = made + 1]
     \/ /\ conv[c].id # 0
        /\ calls' = [calls EXCEPT ![i].pc = "compose", ![i].conv = conv[c].id]
        /\ UNCHANGED <<conv, made>>
  /\ UNCHANGED <<contact, stored, timeline, out, owner, due, history, world>>

\* sendInConversation refuses (blocked, consent withdrawn, window closed, ...)
\* or inserts the message as queued.
Compose(i) ==
  LET call == calls[i]
      c    == To[call.of]
  IN
  /\ call.pc = "compose"
  /\ \/ IF call.fresh THEN Goto(i, "drop") /\ UNCHANGED out
                      ELSE Answer(i) /\ UNCHANGED out
     \/ /\ conv[c].id = call.conv /\ ~contact[c].blocked
        /\ out' = [out EXCEPT ![call.of].status = "queued"]
        /\ Goto(i, "dispatch")
  /\ UNCHANGED <<contact, conv, stored, timeline, owner, due, made, history, world>>

\* "A refused attempt leaves no empty conversation behind": DELETE WHERE id,
\* and the messages of the conversation with it.
Drop(i) ==
  LET c == To[calls[i].of] IN
  /\ calls[i].pc = "drop"
  /\ conv' = IF conv[c].id = calls[i].conv THEN [conv EXCEPT ![c] = NoConv] ELSE conv
  /\ stored' = IF conv[c].id = calls[i].conv THEN {m \in stored : From[m] # c}
               ELSE stored
  /\ out' = [o \in Outbound |->
       IF conv[c].id = calls[i].conv /\ To[o] = c
       THEN [out[o] EXCEPT !.status = "none", !.known = FALSE] ELSE out[o]]
  /\ Answer(i)
  /\ UNCHANGED <<contact, timeline, owner, due, made, history, world>>

\* The provider takes the message, and may report on it from now on, or not.
Dispatch(i) ==
  /\ calls[i].pc = "dispatch"
  /\ \E r \in {"sent", "failed"} :
       /\ calls' = [calls EXCEPT ![i].pc = "outcome", ![i].result = r]
       /\ out' = IF r = "sent" THEN [out EXCEPT ![calls[i].of].reports = {"sent"}]
                 ELSE out
  /\ UNCHANGED <<contact, conv, stored, timeline, owner, due, made, history, world>>

\* UPDATE comm_messages SET status, external_id WHERE id.
WriteOutcome(i) ==
  LET r == calls[i].result
      o == calls[i].of
  IN
  /\ calls[i].pc = "outcome"
  /\ out' = IF out[o].status = "none" THEN out
            ELSE [out EXCEPT ![o].status = r, ![o].known = (r = "sent")]
  /\ Goto(i, "touch")
  /\ UNCHANGED <<contact, conv, stored, timeline, owner, due, made, history, world>>

\* The UPDATE of the message or of its conversation throws; the catch of a call
\* that made the conversation drops it, whatever the provider has taken.
Throw(i) ==
  /\ calls[i].pc \in {"outcome", "touch"}
  /\ IF calls[i].fresh THEN Goto(i, "drop") ELSE Answer(i)
  /\ UNCHANGED <<tables, due, made, history, world>>

\* The conversation counts as read by whoever answers in it.  The entry in the
\* timeline of its lead, the last statement, is not kept here, but may throw.
Touch(i) ==
  /\ calls[i].pc = "touch"
  /\ conv' = [c \in Customers |->
       IF conv[c].id = calls[i].conv THEN [conv[c] EXCEPT !.unread = 0] ELSE conv[c]]
  /\ \/ Answer(i)
     \/ calls[i].fresh /\ Goto(i, "drop")
  /\ UNCHANGED <<contact, stored, timeline, out, owner, due, made, history, world>>

----------------------------------------------------------------------------
(* Delivery reports.                                                       *)

\* The provider comes to know more about a message it took.
Report(o, s) ==
  /\ out[o].reports # {} /\ s \notin out[o].reports
  /\ s = "failed" => "read" \notin out[o].reports
  /\ "failed" \notin out[o].reports
  /\ out' = [out EXCEPT ![o].reports = @ \union {s}]
  /\ UNCHANGED <<contact, conv, stored, timeline, owner, due, calls, made, history, world>>

\* Variant: a late "delivered" may replace a "read".
StatusFromAny(s) == {"queued", "sent", "delivered", "read"}

StatusFrom(s) ==
  CASE s = "sent"      -> {"queued"}
    [] s = "delivered" -> {"queued", "sent"}
    [] OTHER           -> {"queued", "sent", "delivered"}

\* applyStatus: one UPDATE with the condition in it, on the message of that
\* provider id; reports come in any order, and again.
ApplyStatus(o, s) ==
  /\ s \in out[o].reports
  /\ out[o].known /\ out[o].status \in StatusFrom(s)
  /\ out' = [out EXCEPT ![o].status = s]
  /\ UNCHANGED <<contact, conv, stored, timeline, owner, due, calls, made, history, world>>

----------------------------------------------------------------------------

\* The instance dies; nothing it has committed is undone.
Die(i) ==
  /\ calls[i].pc # "idle"
  /\ history.deaths < MaxDeaths
  /\ Answer(i)
  /\ history' = [history EXCEPT !.deaths = @ + 1,
       !.left = @ \union ({calls[i].new} \ ({NoLead} \union history.won))]
  /\ UNCHANGED <<tables, due, made, world>>

Come(i) ==
  \/ \E m \in world.events : ArriveEvent(i, m)
  \/ \E o \in world.sends : ArriveSend(i, o) \/ ArriveStart(i, o)
  \/ \E c \in Customers, l \in world.links : ArriveLink(i, c, l)

Proceed(i) ==
  \/ UpsertContact(i) \/ Unblock(i) \/ ResolveLead(i) \/ MatchLead(i)
  \/ CreateLead(i) \/ Claim(i) \/ ReadWinner(i) \/ Discard(i) \/ FollowWinner(i)
  \/ UpsertConversation(i) \/ Store(i) \/ Reply(i)
  \/ Relink(i) \/ StartConversation(i) \/ Compose(i) \/ Drop(i)
  \/ Dispatch(i) \/ WriteOutcome(i) \/ Throw(i) \/ Touch(i)

Next ==
  \/ \E i \in Calls : Come(i) \/ Proceed(i) \/ Die(i)
  \/ \E c \in Customers : SetBlocked(c) \/ MarkRead(c)
  \/ \E o \in Outbound, s \in Reports : Report(o, s) \/ ApplyStatus(o, s)

\* The provider delivers again what it has no 200 for; the server works off
\* what it has accepted.
Redeliver(m) == m \in due /\ \E i \in Calls : ArriveEvent(i, m)

Spec ==
  /\ Init /\ [][Next]_vars
  /\ \A i \in Calls : WF_vars(Proceed(i))
  /\ \A m \in Inbound : SF_vars(Redeliver(m))

----------------------------------------------------------------------------
(* Properties.                                                             *)

\* The inbox keeps its promise under redelivery, parallel instances and
\* deaths: one entry, one count, and no message lost.
Promise == INSTANCE Inbox WITH
  shown   <- stored,
  unread  <- [c \in Customers |-> conv[c].unread],
  filed   <- [m \in Inbound |-> Len(timeline[m])]

ImplementsInbox == Promise!Spec
NoneLost ==
  \A m \in Inbound : m \in due \ world.opened ~> m \in stored

\* "Two parallel webhooks of a new person would create two leads": at most one
\* of the leads created for a customer is ever linked, and one that is not is
\* in the hands of a call or was left by a call that died.
OneLeadPerPerson ==
  /\ \A k, l \in history.won \intersect NewLeads :
       owner[k] = owner[l] /\ owner[k] # NoOne => k = l
  /\ \A l \in NewLeads : owner[l] # NoOne =>
       \/ l \in history.won \union history.left
       \/ \E i \in Calls : calls[i].new = l

\* A message is filed on a lead its sender has been linked to, never on the
\* one a call had found or created before it lost the contact.
Chosen ==
  {world.invited[m] : m \in world.events} \union world.links
    \union {StartFor[o] : o \in world.sends}

FiledWhereLinked ==
  \A m \in Inbound : \A n \in DOMAIN timeline[m] :
    timeline[m][n] \in {NoLead} \union history.won \union {Visible(l) : l \in Chosen}

\* Once a customer is linked, only an invitation or an agent links him to
\* another lead: a match or a new lead never takes over.
LinkKept ==
  [][\A c \in Customers :
       contact[c].lead # NoLead /\ contact'[c].lead # contact[c].lead =>
         contact'[c].lead \in Chosen \union {Visible(l) : l \in Chosen}]_vars

\* The 24-hour window counts from the newest message, however late an older
\* one is delivered.
WindowFromNewest ==
  \A c \in Customers : conv[c].id # 0 =>
    /\ \A m \in stored : From[m] = c => At[m] <= conv[c].at
    /\ conv[c].at # 0 => \E m \in stored : From[m] = c /\ At[m] = conv[c].at

\* What a customer has read never shows as less, and a failed message does
\* not come back, as long as its row is there: a dropped conversation takes
\* its rows along.
Forward ==
  {<<"none", "queued">>, <<"queued", "sent">>, <<"queued", "failed">>,
   <<"sent", "delivered">>, <<"sent", "read">>, <<"sent", "failed">>,
   <<"delivered", "read">>, <<"delivered", "failed">>}

StatusForward ==
  [][\A o \in Outbound : out'[o].status \notin {out[o].status, "none"} =>
       <<out[o].status, out'[o].status>> \in Forward]_vars

\* "A refused attempt leaves no empty conversation behind": what it deletes is
\* empty of what the customer wrote.
DropsOnlyEmpty == [][stored \subseteq stored']_vars

=============================================================================
