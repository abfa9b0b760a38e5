---------------------------- MODULE MCFinBilling ----------------------------
(***************************************************************************)
(* Two agreements: a rent with two monthly services, one due on the first  *)
(* of the month and one on the last day of a long month, and a setup       *)
(* without a period.  Long months have three days and short ones two, and  *)
(* they alternate: the third has no match in a short month, as the 31st    *)
(* has none in February.                                                   *)
(***************************************************************************)
EXTENDS FinBilling, TLC

CONSTANTS rent, setup, office, parking, install, r1, r2

MCAgreements == {rent, setup}
MCServices == {office, parking, install}
MCOf == (office :> rent) @@ (parking :> rent) @@ (install :> setup)
Date(month, day) == [m |-> month, d |-> day]
MCFirst == (office :> Date(0, 3)) @@ (parking :> Date(0, 1)) @@ (install :> Date(0, 2))
MCStep == (office :> 1) @@ (parking :> 1) @@ (install :> 0)
MCYear == 2
MCLengths == (0 :> 3) @@ (1 :> 2)
MCAuto == {rent}
MCRunners == {r1, r2}

\* Runs one after the other, for any period, into the third month and with
\* people and failures in between; and runs that overlap.
World(A, together, until, inv, faults, edits) ==
  [active |-> A, together |-> together, until |-> until, invoices |-> inv, faults |-> faults, edits |-> edits]
MCWorlds ==
  {World({rent}, 1, Date(2, 1), 2, 0, 0),
   World({rent}, 1, Date(1, 2), 2, 1, 0),
   World({rent}, 1, Date(1, 2), 2, 0, 1),
   World({rent, setup}, 1, Date(0, 2), 2, 1, 0),
   World({rent}, 1, Date(0, 1), 0, 2, 0),
   World({rent}, 2, Date(1, 1), 1, 0, 0),
   World({rent}, 2, Date(0, 2), 1, 1, 0)}

\* The rent for one bill of the last day of a long month, one run at a time.
MCMonthEnd == {World({rent}, 1, Date(0, 3), 0, 0, 0)}

Sym == Permutations(MCRunners)
=============================================================================
