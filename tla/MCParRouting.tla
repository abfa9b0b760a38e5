---------------------------- MODULE MCParRouting ----------------------------
(* A pool of matrix rows in which everything that decides between rows      *)
(* happens: two bands, a gap above them, parallel and single rows on one    *)
(* level, rows pinned to the requestor, and a row for this project only.    *)
EXTENDS ParRouting

CONSTANTS ann, bob, cat

MCUsers == {ann, bob, cat}
MCMemberRoles == [u \in MCUsers |-> {}]
MCDelegators == [u \in MCUsers |-> {}]
MCLimit == [u \in MCUsers |-> NoLimit]
Dimensions == {"chargeTo", "department", "payer", "project"}
MCContext == [d \in Dimensions |-> "here"]
Everywhere == [d \in Dimensions |-> AnyValue]
Here == [Everywhere EXCEPT !["project"] = "here"]
There == [Everywhere EXCEPT !["payer"] = "there"]
Row(id, min, max, step, user, mode, on) ==
  [id |-> id, min |-> min, max |-> max, step |-> step, user |-> user,
   role |-> "none", mode |-> mode, on |-> on]

MCRowPool ==
  {Row("small1", 0, 25, 1, NoUser, "single", Everywhere),
   Row("small2", 0, 25, 2, ann, "single", Everywhere),
   Row("left", 26, 50, 1, bob, "parallel", Everywhere),
   Row("right", 26, 50, 1, ann, "parallel", Everywhere),
   Row("second", 26, 50, 2, cat, "single", Everywhere),
   Row("rival", 26, 50, 2, bob, "single", Everywhere),
   Row("local", 26, 50, 1, cat, "single", Here),
   Row("elsewhere", 40, AnyValue, 1, bob, "single", There)}

=============================================================================
