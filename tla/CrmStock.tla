------------------------------ MODULE CrmStock ------------------------------
(***************************************************************************)
(* The stock of the products that leads are sold.  A movement is written   *)
(* in three calls, without a transaction: the item is read, the movement   *)
(* is inserted, and the new quantity is written.  Winning a lead consumes  *)
(* the stock of its product once, the anchor on the lead says which        *)
(* movement did, and leaving the win gives it back.                        *)
(***************************************************************************)
EXTENDS CrmInstances

CONSTANTS
  Items,
  Products,
  NoProduct,
  NoItem,
  Won,       \* the stages with is_won
  Opening,   \* the quantity of each item at first
  MaxMoves   \* bound on the movements

ASSUME StockAssumption == Opening \in [Items -> Nat] /\ MaxMoves \in Nat

VARIABLES
  lead,   \* leads: stage, product, quantity asked for, and stock_movement_id
  linked, \* crm_products.inventory_item_id
  qty,    \* fin_inventory_items.qty_on_hand
  moves,  \* fin_stock_movements, with the sign of their type
  torn,   \* items whose quantity was written over another write, or not at
          \* all since the instance died
  gone    \* sales let go when their product lost its item

stockVars == <<lead, linked, qty, moves, torn, gone>>

StockTypeOK ==
  /\ DOMAIN lead = Leads
  /\ \A l \in Leads : /\ lead[l].product \in Products \union {NoProduct}
                      /\ lead[l].need \in Nat
                      /\ lead[l].anchor \in 0 .. Len(moves)
  /\ linked \in [Products -> Items \union {NoItem}]
  /\ qty \in [Items -> Int]
  /\ moves \in Seq([item : Items, change : Int, lead : Leads \union {NoLead}])
  /\ torn \subseteq Items
  /\ gone \subseteq DOMAIN moves

\* trackedProduct.
ItemOf(product) == IF product = NoProduct THEN NoItem ELSE linked[product]

Line(item, change) == [item |-> item, change |-> change]

----------------------------------------------------------------------------
(* What a change of stage does to the stock.                               *)

\* Variant: the stock comes back only when the lead is lost.
SyncOnlyLost(i) ==
  LET call == calls[i] IN
  /\ call.pc = "sync"
  /\ IF call.to \in Won /\ call.from \notin Won THEN Goto(i, "consume")
     ELSE IF call.from \in Won /\ call.to = "lost" THEN Goto(i, "restore")
     ELSE Finish(i)
  /\ UNCHANGED <<stockVars, faults, world>>

\* syncLeadStockForStage: entering a win, and leaving every win.
Sync(i) ==
  LET call == calls[i] IN
  /\ call.pc = "sync"
  /\ IF call.to \in Won /\ call.from \notin Won THEN Goto(i, "consume")
     ELSE IF call.from \in Won /\ call.to \notin Won THEN Goto(i, "restore")
     ELSE Finish(i)
  /\ UNCHANGED <<stockVars, faults, world>>

\* consume, by the row of the lead as the change of stage returned it.
Consume(i) ==
  LET call == calls[i]
      item == ItemOf(call.seen.product)
      need == IF call.seen.need > 1 THEN call.seen.need ELSE 1
  IN
  /\ call.pc = "consume"
  /\ IF call.seen.anchor # 0 \/ item = NoItem THEN Finish(i)
     ELSE Set(i, [call EXCEPT !.pc = "read", !.todo = <<Line(item, -need)>>])
  /\ UNCHANGED <<stockVars, faults, world>>

\* Variant: the quantity of the lead comes back, not the one of the sale.
RestoreAsked(i) ==
  LET call == calls[i]
      sale == moves[call.seen.anchor]
      free == call.seen.anchor # 0 /\ ItemOf(call.seen.product) = NoItem
  IN
  /\ call.pc = "restore"
  /\ IF call.seen.anchor = 0 THEN Finish(i)
     ELSE IF free THEN Goto(i, "anchor")
     ELSE Set(i, [call EXCEPT !.pc = "read", !.todo = <<Line(sale.item, call.seen.need)>>])
  /\ gone' = IF free THEN gone \union {call.seen.anchor} ELSE gone
  /\ UNCHANGED <<lead, linked, qty, moves, torn, faults, world>>

\* restore: the quantity and the item of the sale, not of the lead by now.  A
\* product without an item only frees the anchor.
Restore(i) ==
  LET call == calls[i]
      sale == moves[call.seen.anchor]
      free == call.seen.anchor # 0 /\ ItemOf(call.seen.product) = NoItem
  IN
  /\ call.pc = "restore"
  /\ IF call.seen.anchor = 0 THEN Finish(i)
     ELSE IF free THEN Goto(i, "anchor")
     ELSE Set(i, [call EXCEPT !.pc = "read", !.todo = <<Line(sale.item, -sale.change)>>])
  /\ gone' = IF free THEN gone \union {call.seen.anchor} ELSE gone
  /\ UNCHANGED <<lead, linked, qty, moves, torn, faults, world>>

----------------------------------------------------------------------------
(* recordStockMovement, and the loop of the hook of an issued invoice.     *)

\* POST /movements, the hook of a purchase (one line) and the hook of an issued
\* invoice (several).
ArriveMovement(i, lines) ==
  /\ Len(moves) < world.moves
  /\ Accept(i, [Idle EXCEPT !.pc = "read", !.todo = lines])
  /\ UNCHANGED <<stockVars, faults, world>>

\* Variant: the quantity is not compared with what is asked for.
ReadItemsUnchecked(i) ==
  LET call == calls[i] IN
  /\ call.pc = "read"
  /\ Set(i, [call EXCEPT !.pc = "move", !.held = qty])
  /\ UNCHANGED <<stockVars, faults, world>>

\* Every line is compared with what is there; one that asks for too much ends
\* the request (a won lead gets a note, and its winning stands).
ReadItems(i) ==
  LET call == calls[i]
      fits == \A n \in DOMAIN call.todo : qty[call.todo[n].item] + call.todo[n].change >= 0
  IN
  /\ call.pc = "read"
  /\ IF fits THEN Set(i, [call EXCEPT !.pc = "move", !.held = qty]) ELSE Finish(i)
  /\ UNCHANGED <<stockVars, faults, world>>

InsertMove(i) ==
  LET call == calls[i]
      line == Head(call.todo)
  IN
  /\ call.pc = "move"
  /\ moves' = Append(moves, [item |-> line.item, change |-> line.change, lead |-> call.lead])
  /\ Set(i, [call EXCEPT !.pc = "write", !.move = Len(moves) + 1])
  /\ UNCHANGED <<lead, linked, qty, torn, gone, faults, world>>

\* Variant: a return leaves the quantity as it is.
WriteQtyOut(i) ==
  LET call == calls[i]
      line == Head(call.todo)
      more == Len(call.todo) > 1
  IN
  /\ call.pc = "write"
  /\ qty' = IF line.change > 0 THEN qty
            ELSE [qty EXCEPT ![line.item] = call.held[line.item] + line.change]
  /\ torn' = IF qty[line.item] # call.held[line.item] THEN torn \union {line.item} ELSE torn
  /\ IF more THEN Set(i, [call EXCEPT !.pc = "move", !.todo = Tail(@)])
     ELSE IF call.lead # NoLead THEN Goto(i, "anchor") ELSE Finish(i)
  /\ UNCHANGED <<lead, linked, moves, gone, faults, world>>

\* UPDATE ... SET qty_on_hand = what was read and the movement: whatever else
\* was written in between is written over.
WriteQty(i) ==
  LET call == calls[i]
      line == Head(call.todo)
      more == Len(call.todo) > 1
  IN
  /\ call.pc = "write"
  /\ qty' = [qty EXCEPT ![line.item] = call.held[line.item] + line.change]
  /\ torn' = IF qty[line.item] # call.held[line.item] THEN torn \union {line.item} ELSE torn
  /\ IF more THEN Set(i, [call EXCEPT !.pc = "move", !.todo = Tail(@)])
     ELSE IF call.lead # NoLead THEN Goto(i, "anchor") ELSE Finish(i)
  /\ UNCHANGED <<lead, linked, moves, gone, faults, world>>

\* The anchor on the lead: the movement that consumed, none after a return.
WriteAnchor(i) ==
  LET call == calls[i] IN
  /\ call.pc = "anchor"
  /\ lead' = [lead EXCEPT ![call.lead].anchor = IF call.seen.anchor = 0 THEN call.move ELSE 0]
  /\ Finish(i)
  /\ UNCHANGED <<linked, qty, moves, torn, gone, faults, world>>

\* PATCH /:id, the product and the quantity.
EditProduct(l, p, n) ==
  /\ lead' = [lead EXCEPT ![l].product = p, ![l].need = n]
  /\ UNCHANGED <<linked, qty, moves, torn, gone, shared>>

\* The product is linked to another item, or to none.
LinkItem(p, item) ==
  /\ linked' = [linked EXCEPT ![p] = item]
  /\ UNCHANGED <<lead, qty, moves, torn, gone, shared>>

StockWork(i) ==
  \/ Sync(i) \/ Consume(i) \/ Restore(i)
  \/ ReadItems(i) \/ InsertMove(i) \/ WriteQty(i) \/ WriteAnchor(i)

StockRequest(i) == \E lines \in world.lines : ArriveMovement(i, lines)

StockEdit ==
  \/ \E edit \in world.edits : EditProduct(edit.lead, edit.product, edit.need)
  \/ \E edit \in world.relinks : LinkItem(edit.product, edit.item)

----------------------------------------------------------------------------
(* Properties.                                                             *)

\* What the movements of S come to, after each movement of a ledger mv.
Change(mv, S, n) == IF n \in S THEN mv[n].change ELSE 0
Sums(mv, S) ==
  LET sum[n \in 0 .. Len(mv)] == IF n = 0 THEN 0 ELSE sum[n - 1] + Change(mv, S, n)
  IN  sum

Total(S) == Sums(moves, S)[Len(moves)]

\* The movements an instance has inserted and not yet counted.
Uncounted == {calls[i].move : i \in {j \in Instances : calls[j].pc = "write"}}

\* However movements overlap, no item ever falls below zero: each writes a
\* quantity it has found to be enough.
NeverNegative == \A item \in Items : qty[item] >= 0

\* The ledger and the shelf agree: what is on hand is what there was at first
\* and every movement since, except for an item of which a write was lost.
LedgerAgrees ==
  \A item \in Items \ torn :
    qty[item] = Opening[item]
      + Total({n \in DOMAIN moves : moves[n].item = item} \ Uncounted)

\* "A lead dragged to and fro over the winning column cannot empty the store",
\* and a return makes no pieces: while requests come one at a time and none
\* dies, the movements of a lead that stand add up to the one sale its anchor
\* names, whatever the lead, its product and the link have become meanwhile.
OneSaleHeld ==
  world.together = 1 /\ faults = 0 /\ Busy = {} =>
    \A l \in Leads, item \in Items :
      Total({n \in DOMAIN moves : moves[n].lead = l /\ moves[n].item = item} \ gone)
        = IF lead[l].anchor # 0 /\ moves[lead[l].anchor].item = item
          THEN moves[lead[l].anchor].change ELSE 0

Synced == world.silent = {} /\ \A s \in DOMAIN world.rule : world.rule[s] = "none"

\* A lead that is not won holds no stock, whichever stage it was drawn back to:
\* while requests come one at a time, none dies and the stage changes only by
\* the routes that sync the stock.
HeldOnlyWhenWon ==
  world.together = 1 /\ faults = 0 /\ Busy = {} /\ Synced =>
    \A l \in Leads : lead[l].anchor # 0 => lead[l].stage \in Won

=============================================================================
