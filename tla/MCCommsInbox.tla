---------------------------- MODULE MCCommsInbox ----------------------------
(* In each world two things meet: two first messages, a message and an      *)
(* invitation, a message and an agent, an answer and the reports on it.     *)
EXTENDS CommsInbox

CONSTANTS ann, m1, m2, o1, k1, k2, k3

MCFrom == [m \in Inbound |-> ann]
MCAt == [m \in Inbound |-> IF m = m2 THEN 2 ELSE 1]
MCMergedInto == [l \in KnownLeads |-> IF l = k1 THEN k2 ELSE NoLead]
MCTo == [o \in Outbound |-> ann]
MCStartFor == [o \in Outbound |-> k3]

Strangers ==
  [events |-> {m1, m2}, opened |-> {}, bare |-> {}, invited |-> [m \in Inbound |-> NoLead],
   match |-> [c \in Customers |-> NoLead], phones |-> {}, blocks |-> {},
   sends |-> {}, starts |-> FALSE, links |-> {}, reads |-> {},
   autoCreate |-> TRUE]

Invitation == [Strangers EXCEPT !.invited[m2] = k1]

MCWorlds ==
  {Strangers,
   [Strangers EXCEPT !.phones = {ann}, !.reads = {ann}],
   Invitation,
   [Invitation EXCEPT !.match[ann] = k3],
   [Invitation EXCEPT !.phones = {ann}],
   [Invitation EXCEPT !.opened = {m1, m2}, !.bare = {m1}],
   [Strangers EXCEPT !.opened = {m1}],
   [Strangers EXCEPT !.events = {m1}, !.links = {k3}],
   [Strangers EXCEPT !.events = {m1}, !.sends = {o1}, !.blocks = {ann},
                     !.autoCreate = FALSE],
   [Strangers EXCEPT !.events = {}, !.sends = {o1}, !.starts = TRUE]}

MCStartWorlds ==
  {[Strangers EXCEPT !.events = {m1}, !.sends = {o1}, !.starts = TRUE]}

=============================================================================
