----------------------------- MODULE MCCrmFunnel ----------------------------
(* In each world some parts of the funnel meet: a stage and its cadence,    *)
(* the cron and an answer, cadences that compete for the cron, two changes  *)
(* of stage, a change of stage and a movement, or one request after another *)
(* while products and links change.                                         *)
EXTENDS CrmFunnel

CONSTANTS l1, a, b, p1, p2, calls2, offer, ring

MCSteps == [c \in Cadences |-> IF c = calls2 THEN <<0, 1>>
                               ELSE IF c = offer THEN <<0>> ELSE <<>>]
MCTriggers == [c \in Cadences |-> IF c = calls2 THEN "open" ELSE "none"]
MCFirstProduct == [l \in Leads |-> p1]
MCFirstItem == [p \in Products |-> IF p = p1 THEN a ELSE b]
MCOpening == [item \in Items |-> 2]

Nothing ==
  [together |-> 2, rows |-> 0, moves |-> 0, faults |-> 1, targets |-> {},
   silent |-> {}, rule |-> [s \in Stages |-> "none"], lines |-> {}, edits |-> {},
   relinks |-> {}, enrols |-> {}, toggles |-> {}, replies |-> FALSE,
   cron |-> FALSE]

FollowUp == [Nothing EXCEPT !.rows = 1, !.cron = TRUE]
Sale == [Nothing EXCEPT !.moves = 2, !.targets = {"won"}]

Take(item, n) == <<Line(item, -n)>>
Product(p, n) == [lead |-> l1, product |-> p, need |-> n]

MCWorlds ==
  {[FollowUp EXCEPT !.faults = 0, !.enrols = {calls2}, !.replies = TRUE],
   [FollowUp EXCEPT !.together = 1, !.rows = 2, !.enrols = {calls2, offer},
                    !.toggles = {offer}],
   [FollowUp EXCEPT !.together = 1, !.rows = 2, !.enrols = {ring},
                    !.moves = 1, !.targets = {"open", "won"}, !.toggles = {calls2}],
   [Sale EXCEPT !.moves = 1, !.targets = {"won", "lost"}, !.rule["won"] = "paid"],
   [Sale EXCEPT !.lines = {Take(a, 2)}],
   [Nothing EXCEPT !.moves = 2, !.lines =
      {Take(a, 1) \o Take(b, 1), Take(a, 1) \o Take(a, 1), <<Line(a, 1)>>}],
   [Sale EXCEPT !.together = 1, !.moves = 3, !.targets = {"won", "paid", "new"},
                !.edits = {Product(p1, 2), Product(p2, 1)},
                !.relinks = {[product |-> p1, item |-> b]}],
   [Sale EXCEPT !.together = 1, !.moves = 4, !.targets = {"won", "lost"},
                !.silent = {"won", "open"}, !.rule["won"] = "open",
                !.relinks = {[product |-> p1, item |-> NoItem],
                             [product |-> p1, item |-> a]}]}

=============================================================================
