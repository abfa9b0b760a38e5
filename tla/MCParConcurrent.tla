--------------------------- MODULE MCParConcurrent --------------------------
(* Ann asks; Bob, Cat and Dan sign.  In MCParallel Bob and Cat sign side   *)
(* by side, then any approver (either of them, so that two calls can be    *)
(* about one row), then Dan.  In MCSingle any approver signs, then Dan.    *)
EXTENDS ParConcurrent, TLC

CONSTANTS ann, bob, cat, dan

MCUsers == {ann, bob, cat, dan}
MCMemberRoles ==
  [u \in MCUsers |-> CASE u = ann -> {"requestor"}
                       [] u \in {bob, cat} -> {"approver"}
                       [] u = dan -> {"finance"}]
MCDelegators == [u \in MCUsers |-> {}]
MCLimit == [u \in MCUsers |-> NoLimit]

Everywhere == [d \in Dimensions |-> AnyValue]
Row(id, step, user, role, mode) ==
  [id |-> id, min |-> 0, max |-> AnyValue, step |-> step, user |-> user,
   role |-> role, mode |-> mode, on |-> Everywhere]

MCParallel ==
  {Row("left", 1, bob, NoRole, "parallel"),
   Row("right", 1, cat, NoRole, "parallel"),
   Row("any", 2, NoUser, "approver", "single"),
   Row("last", 3, dan, NoRole, "single")}
MCSingle ==
  {Row("any", 1, NoUser, "approver", "single"),
   Row("last", 2, dan, NoRole, "single")}
MCContext == [d \in Dimensions |-> "here"]

Sym == Permutations(Calls)

=============================================================================
