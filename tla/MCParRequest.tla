---------------------------- MODULE MCParRequest ----------------------------
(* A workspace of four people for ParRequest.  Ann asks; she also holds the *)
(* approver role.  Bob approves up to 30 MDL and delegates to Cat, who is   *)
(* finance and not an approver.  Dan is a tenant admin: Ann's verifier, and *)
(* the director on the last level of large requests, on a row labelled      *)
(* exactly like the verifier's.                                             *)
EXTENDS ParRequest

CONSTANTS ann, bob, cat, dan

MCUsers == {ann, bob, cat, dan}
MCMemberRoles ==
  [u \in MCUsers |-> CASE u = ann -> {"requestor", "approver"}
                       [] u = bob -> {"approver"}
                       [] u = cat -> {"finance"}
                       [] u = dan -> {}]
MCDelegators == [u \in MCUsers |-> IF u = cat THEN {bob} ELSE {}]
MCLimit == [u \in MCUsers |-> IF u = bob THEN 30 ELSE NoLimit]

Everywhere == [d \in Dimensions |-> AnyValue]
Row(id, min, max, step, user, role, mode) ==
  [id |-> id, min |-> min, max |-> max, step |-> step, user |-> user,
   role |-> role, mode |-> mode, on |-> Everywhere]

\* Up to 25 MDL any approver; above, finance first, then Bob and Dan side by
\* side.
MCMatrix ==
  {Row("small", 0, 25, 1, NoUser, NoRole, "single"),
   Row("finance", 26, AnyValue, 1, NoUser, "finance", "single"),
   Row("board", 26, AnyValue, 2, bob, NoRole, "parallel"),
   Row("director", 26, AnyValue, 2, dan, NoRole, "parallel")}
MCContext == [d \in Dimensions |-> "here"]

=============================================================================
