---------------------------------- MODULE Inbox -----------------------------
(***************************************************************************)
(* What a team is promised about the messages its customers write on one   *)
(* channel: each appears in its conversation once and is filed on a lead   *)
(* at most once, and the unread counter counts it once.                    *)
(***************************************************************************)
EXTENDS Naturals

CONSTANTS
  Customers,
  Inbound,  \* the messages the customers write
  From      \* who writes each of them

VARIABLES
  shown,    \* the messages in their conversations
  unread,   \* the number at each conversation
  filed     \* how many entries each message has in the timeline of a lead

vars == <<shown, unread, filed>>

Init ==
  /\ shown = {}
  /\ unread = [c \in Customers |-> 0]
  /\ filed = [m \in Inbound |-> 0]

Show(m) ==
  /\ m \notin shown
  /\ shown' = shown \union {m}
  /\ unread' = [unread EXCEPT ![From[m]] = @ + 1]
  /\ \E n \in {0, 1} : filed' = [filed EXCEPT ![m] = @ + n]

\* Somebody of the team opens the conversation or answers in it.
Clear(c) ==
  /\ unread' = [unread EXCEPT ![c] = 0]
  /\ UNCHANGED <<shown, filed>>

Next ==
  \/ \E m \in Inbound : Show(m)
  \/ \E c \in Customers : Clear(c)

Spec == Init /\ [][Next]_vars

=============================================================================
