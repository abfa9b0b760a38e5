---------------------------- MODULE ParLifecycle ----------------------------
(***************************************************************************)
(* What the payment action request module promises, with everything that   *)
(* makes it hard left out.  A request carries terms (the money, the payee, *)
(* the purpose).  Its author may change them only while the request is     *)
(* open.  Submitting fixes the set of signatures it still misses; each     *)
(* signature removes one, and the request reaches finance exactly with the *)
(* last.  Anything that interrupts this throws the collected signatures    *)
(* away.                                                                   *)
(***************************************************************************)
CONSTANTS
  Terms,        \* what is being agreed to
  PayableTerms, \* the terms of requests that end in a payment
  Signatures    \* the signatures a request can need

VARIABLES
  stage,   \* where the request is
  terms,   \* what is agreed to
  missing  \* signatures still to be collected

vars == <<stage, terms, missing>>

Stages ==
  {"open", "routed", "refused", "cleared", "held", "paid", "cancelled"}

TypeOK ==
  /\ stage \in Stages
  /\ terms \in Terms
  /\ missing \subseteq Signatures

Init ==
  /\ stage = "open"
  /\ terms \in Terms
  /\ missing = {}

Edit ==
  /\ stage = "open"
  /\ terms' \in Terms
  /\ UNCHANGED <<stage, missing>>

Submit ==
  /\ stage = "open"
  /\ stage' = "routed"
  /\ missing' \subseteq Signatures
  /\ missing' # {}
  /\ UNCHANGED terms

Sign ==
  /\ stage = "routed"
  /\ \E s \in missing : missing' = missing \ {s}
  /\ stage' = IF missing' = {} THEN "cleared" ELSE "routed"
  /\ UNCHANGED terms

\* The chain stops: for good, or back to the author.
Stop ==
  /\ stage = "routed"
  /\ stage' \in {"refused", "open"}
  /\ missing' = {}
  /\ UNCHANGED terms

\* Back to the author from anywhere before the money has left.
Return ==
  /\ stage \in {"refused", "cleared", "held"}
  /\ stage' = "open"
  /\ UNCHANGED <<terms, missing>>

Hold ==
  /\ stage = "cleared" /\ terms \in PayableTerms
  /\ stage' = "held"
  /\ UNCHANGED <<terms, missing>>

Regrant ==
  /\ stage = "held"
  /\ stage' = "cleared"
  /\ UNCHANGED <<terms, missing>>

Pay ==
  /\ stage = "cleared" /\ terms \in PayableTerms
  /\ stage' = "paid"
  /\ UNCHANGED <<terms, missing>>

Unpay ==
  /\ stage = "paid"
  /\ stage' = "cleared"
  /\ UNCHANGED <<terms, missing>>

Cancel ==
  /\ stage \notin {"paid", "cancelled"}
  /\ stage' = "cancelled"
  /\ missing' = {}
  /\ UNCHANGED terms

Next ==
  \/ Edit \/ Submit \/ Sign \/ Stop \/ Return
  \/ Hold \/ Regrant \/ Pay \/ Unpay \/ Cancel

Spec == Init /\ [][Next]_vars

=============================================================================
