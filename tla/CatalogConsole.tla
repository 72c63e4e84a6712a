--------------------------- MODULE CatalogConsole ---------------------------
(***************************************************************************)
(* The catalog table of the admin console (public/admin/app.js) and the    *)
(* route it posts to (POST /api/admin/catalog in server/server.js), over   *)
(* the chain, while learners take units from the shelf and refunds put     *)
(* them back.  Nobody funds more in this module: the admin edits the price *)
(* and the switch of an item, never its stock field.                       *)
(*                                                                         *)
(* The route answers a field it is not sent from what it reads, and writes *)
(* all of them in one transaction: what it read may have changed.          *)
(***************************************************************************)
EXTENDS Integers

CONSTANTS
  Costs,       \* prices in credits, all above zero
  FirstCost,   \* the catalog's own, one of them
  FirstStock   \* the units a sponsor has paid for, all on the shelf at first

VARIABLES
  item,    \* the ledger's item: cost, stock and whether it is active
  taken,   \* units in swaps that are open or settled
  answers, \* what load() has been answered and has not rendered yet
  form,    \* the row as rendered, with what has been typed into it since
  click,   \* the press of a button that is being served
  draft    \* what the route will write

vars == <<item, taken, answers, form, click, draft>>
-----------------------------------------------------------------------------
\* The item as deploy.js and seed list it, from catalog.ITEMS.
FirstItem == [cost |-> FirstCost, stock |-> FirstStock, active |-> TRUE]

Idle == [pc |-> "idle"]

\* A POST with these fields and no others; the second of a toggle, or the only one.
Posting(fields) == [pc |-> "posted", fields |-> fields, toggle |-> FALSE]

Init ==
  /\ item = FirstItem /\ taken = 0
  /\ answers = {} /\ form = FirstItem
  /\ click = Idle /\ draft = FirstItem
-----------------------------------------------------------------------------
\* requestSwap: what is active and on the shelf can be had.
Take ==
  /\ item.active /\ item.stock > 0
  /\ item' = [item EXCEPT !.stock = @ - 1]
  /\ taken' = taken + 1
  /\ UNCHANGED <<answers, form, click, draft>>

\* cancelSwap.
PutBack ==
  /\ taken > 0
  /\ item' = [item EXCEPT !.stock = @ + 1]
  /\ taken' = taken - 1
  /\ UNCHANGED <<answers, form, click, draft>>

\* GET /api/admin/state, with catalogView.
LoadServed ==
  /\ answers = {} /\ answers' = {item}
  /\ UNCHANGED <<item, taken, form, click, draft>>

\* The rows are rendered anew, whatever has been typed into them.
Render ==
  /\ form' \in answers /\ answers' = {}
  /\ UNCHANGED <<item, taken, click, draft>>

TypeCost(c) ==
  /\ form' = [form EXCEPT !.cost = c]
  /\ UNCHANGED <<item, taken, answers, click, draft>>

\* "save" posts both fields of the row, also the one nobody edited.
PressSave ==
  /\ click = Idle
  /\ click' = Posting([cost |-> form.cost, stock |-> form.stock])
  /\ UNCHANGED <<item, taken, answers, form, draft>>

\* "activate" or "deactivate" first posts no field, to learn how the item is.
PressToggle ==
  /\ click = Idle
  /\ click' = [pc |-> "posted", fields |-> << >>, toggle |-> TRUE]
  /\ UNCHANGED <<item, taken, answers, form, draft>>

\* What is sent, and the rest as it is.
Merged(fields) ==
  [f \in DOMAIN item |-> IF f \in DOMAIN fields THEN fields[f] ELSE item[f]]

\* The route up to its transaction.
RouteReads ==
  /\ click.pc = "posted"
  /\ draft' = Merged(click.fields)
  /\ click' = [click EXCEPT !.pc = "writing"]
  /\ UNCHANGED <<item, taken, answers, form>>

\* configureCatalogItem; the console that asked how the item is then posts its opposite.
RouteWrites ==
  /\ click.pc = "writing"
  /\ item' = draft
  /\ click' = IF click.toggle THEN Posting([active |-> ~draft.active]) ELSE Idle
  /\ UNCHANGED <<taken, answers, form, draft>>

\* The transaction is refused, or the request gets nowhere: an alert.
RouteFails ==
  /\ click.pc \in {"posted", "writing"}
  /\ click' = Idle
  /\ UNCHANGED <<item, taken, answers, form, draft>>
-----------------------------------------------------------------------------
Learners == Take \/ PutBack
Console == LoadServed \/ Render \/ PressSave \/ PressToggle \/ \E c \in Costs : TypeCost(c)
Route == RouteReads \/ RouteWrites \/ RouteFails

Next == Learners \/ Console \/ Route

Spec == Init /\ [][Next]_vars
-----------------------------------------------------------------------------
\* "Stock is what a sponsor has already funded - nothing is listed beyond it."
\* (public/demo/index.html line 65): what is on the shelf and what learners
\* have taken is never more than was funded.
NothingListedBeyondFunded == item.stock + taken <= FirstStock
=============================================================================
