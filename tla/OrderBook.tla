----------------------------- MODULE OrderBook -----------------------------
(***************************************************************************)
(* Orders and positions of one account through the adapter                 *)
(* (backend/broker_base.py, the order endpoints of trading_api.py, the     *)
(* _submit_* of modules/tradelocker).  A bulk order and every operation on *)
(* open positions is a loop of calls to the broker over a list read once;  *)
(* other requests, the market and the broker go on between two of them.    *)
(*                                                                         *)
(* The broker refuses what it cannot do and may refuse anything else.  One *)
(* symbol, buys only: TradeMath has both sides and the levels' arithmetic. *)
(***************************************************************************)
EXTENDS Integers, FiniteSets

CONSTANTS
    Ids,          \* position ids the broker hands out
    Clients,      \* requests at once
    Quotes,       \* prices
    Spread,       \* how far a basket's target is from an entry
    Margin,       \* positions the account's margin can hold
    MaxBulk,      \* bound: orders of a bulk
    MaxPasses     \* bound: operations begun

VARIABLES
    book,         \* position id -> NoPos or [entry, sl, tp, vol], or Closed
    rests,        \* order id -> the price it waits for, or 0; it becomes the position of that id
    quote,        \* the market
    pass,         \* client -> the operation it runs
    told,         \* client -> position id -> what its pass reported
    passes,
    aimed,        \* history: position id -> the target last asked for
    crossed       \* history: positions two passes held at once

bookVars == <<book, rests, quote, pass, told, passes, aimed, crossed>>

Lot == 2      \* the volume of an order, which can be closed in two parts
NoPos == [entry |-> 0, sl |-> 0, tp |-> 0, vol |-> 0]
Closed == [entry |-> -1, sl |-> 0, tp |-> 0, vol |-> 0]
Opened(price, sl, tp) == [entry |-> price, sl |-> sl, tp |-> tp, vol |-> Lot]
Open == {i \in Ids : book[i].entry > 0}
Free == Margin - Cardinality(Open)

Placing(kind, count, price, sl, tp) ==
    [kind |-> kind, left |-> count, list |-> [i \in Ids |-> NoPos], todo |-> {},
     quote |-> price, sl |-> sl, tp |-> tp, drop |-> {}]
\* Of a close, left is the volume asked for, 0 for all of each position.
Over(kind, list, todo, drop, vol) ==
    [kind |-> kind, left |-> vol, list |-> list, todo |-> todo, quote |-> 0, sl |-> 0, tp |-> 0, drop |-> drop]
NoPass == Placing("none", 0, 0, 0, 0)
\* Of a close, num is what its volume leaves of the position as listed; of a
\* deletion, the stop as listed.
Nothing == [what |-> "none", num |-> 0]

Running(c, kinds) == pass[c].kind \in kinds
Holds(c, i) == i \in pass[c].todo
Begins(c) == Running(c, {"none"}) /\ passes < MaxPasses /\ passes' = passes + 1
Reports(c, i, what, num) == told' = [told EXCEPT ![c][i] = [what |-> what, num |-> num]]
Forgets(c) == told' = [told EXCEPT ![c] = [i \in Ids |-> Nothing]]

-----------------------------------------------------------------------------
(* Orders. *)

\* market_buy_bulk and, with one order, place_order: the margin of all of them
\* is checked before the first, unless the caller says not to.
BulkBegins(c, count, sl, tp, emergency) ==
    /\ Begins(c)
    /\ emergency \/ Free >= count
    /\ pass' = [pass EXCEPT ![c] = Placing("bulk", count, quote, sl, tp)]
    /\ Forgets(c)
    /\ UNCHANGED <<book, rests, quote, aimed, crossed>>

\* The next order; a pending one a step further.
Left(c) == IF pass[c].left = 1 THEN NoPass
           ELSE [pass[c] EXCEPT !.left = pass[c].left - 1,
                            !.quote = pass[c].quote + (IF Running(c, {"pending"}) THEN 1 ELSE 0)]

\* One order, filled at the market; the broker has margin of its own to check.
BulkPlaces(c, i) ==
    /\ Running(c, {"bulk"})
    /\ book[i] = NoPos /\ rests[i] = 0 /\ Free > 0
    /\ book' = [book EXCEPT ![i] = Opened(quote, pass[c].sl, pass[c].tp)]
    /\ aimed' = [aimed EXCEPT ![i] = pass[c].tp]
    /\ pass' = [pass EXCEPT ![c] = Left(c)]
    /\ Reports(c, i, "placed", 0)
    /\ UNCHANGED <<rests, quote, passes, crossed>>

\* One order refused: it counts as failed and the loop goes on.
BulkFails(c) ==
    /\ Running(c, {"bulk", "pending"})
    /\ pass' = [pass EXCEPT ![c] = Left(c)]
    /\ UNCHANGED <<book, rests, quote, told, passes, aimed, crossed>>

\* pending_bulk and, with one order, pending_order: no margin is asked for yet.
PendingBegins(c, count, price) ==
    /\ Begins(c)
    /\ pass' = [pass EXCEPT ![c] = Placing("pending", count, price, 0, 0)]
    /\ Forgets(c)
    /\ UNCHANGED <<book, rests, quote, aimed, crossed>>

PendingPlaces(c, i) ==
    /\ Running(c, {"pending"})
    /\ book[i] = NoPos /\ rests[i] = 0
    /\ rests' = [rests EXCEPT ![i] = pass[c].quote]
    /\ pass' = [pass EXCEPT ![c] = Left(c)]
    /\ Reports(c, i, "resting", 0)
    /\ UNCHANGED <<book, quote, passes, aimed, crossed>>

\* modify_order: an order moved while it waits.
ModifiesOrder(c, i, price) ==
    /\ Begins(c) /\ rests[i] # 0
    /\ rests' = [rests EXCEPT ![i] = price]
    /\ UNCHANGED <<book, quote, pass, told, aimed, crossed>>

-----------------------------------------------------------------------------
(* Passes over the open positions, or over the waiting orders. *)

Kinds == {"close", "break-even", "lock-profit", "delete", "basket"}

\* _filter_positions: the list as it is now, narrowed to one, to winners or losers.
Lists(c, kind, only, drop, vol) ==
    /\ Begins(c)
    /\ LET todo == {i \in Open : CASE only = "all" -> TRUE
                                   [] only = "profit" -> quote > book[i].entry
                                   [] only = "loss" -> quote < book[i].entry}
       IN  /\ todo # {}
           /\ pass' = [pass EXCEPT ![c] = Over(kind, book, todo, drop, vol)]
           /\ crossed' = crossed \cup {i \in todo : \E d \in Clients : Holds(d, i)}
    /\ Forgets(c)
    /\ UNCHANGED <<book, rests, quote, aimed>>

\* cancel_orders: the list of orders as it is now.
ListsOrders(c) ==
    /\ Begins(c)
    /\ \E todo \in {{i \in Ids : rests[i] # 0}} :
        /\ todo # {}
        /\ pass' = [pass EXCEPT ![c] = Over("cancel", [i \in Ids |-> NoPos], todo, {}, 0)]
    /\ Forgets(c)
    /\ UNCHANGED <<book, rests, quote, aimed, crossed>>

\* The quote of the pass: read for the first position, kept for the others.
Seen(c) == IF pass[c].quote = 0 THEN quote ELSE pass[c].quote

After(c, i) == LET rest == pass[c].todo \ {i} IN
    [pass EXCEPT ![c] = IF rest = {} THEN NoPass
                        ELSE [pass[c] EXCEPT !.todo = rest, !.quote = Seen(c)]]

\* Mutant of Refused: an exception is reported as what was asked for.
RefusedReported(c, i, what, num) ==
    /\ Reports(c, i, what, num)
    /\ UNCHANGED <<book, aimed>>

\* The broker raised: the position's entry says so and the loop goes on.
Refused(c, i, what, num) ==
    /\ Reports(c, i, "failed", 0)
    /\ UNCHANGED <<book, aimed>>

\* close: whatever is left of the list, one at a time, of each the volume asked
\* for or the volume listed.
Asked(c, i) == IF pass[c].left = 0 THEN pass[c].list[i].vol ELSE pass[c].left
Less(p, vol) == IF p.vol <= vol THEN Closed ELSE [p EXCEPT !.vol = p.vol - vol]

Closes(c, i) ==
    LET leaves == pass[c].list[i].vol - Asked(c, i)
    IN  /\ Running(c, {"close"}) /\ Holds(c, i)
        /\ \/ /\ i \in Open
              /\ book' = [book EXCEPT ![i] = Less(book[i], Asked(c, i))]
              /\ Reports(c, i, "closed", leaves) /\ UNCHANGED aimed
           \/ Refused(c, i, "closed", leaves)
        /\ pass' = After(c, i)
        /\ UNCHANGED <<rests, quote, passes, crossed>>

\* _safe_cancel: an order that was filled meanwhile cannot be cancelled, and is reported so.
Cancels(c, i) ==
    /\ Running(c, {"cancel"}) /\ Holds(c, i)
    /\ \/ /\ rests[i] # 0
          /\ rests' = [rests EXCEPT ![i] = 0] /\ book' = [book EXCEPT ![i] = Closed]
          /\ Reports(c, i, "cancelled", 0) /\ UNCHANGED aimed
       \/ Refused(c, i, "cancelled", 0) /\ UNCHANGED rests
    /\ pass' = After(c, i)
    /\ UNCHANGED <<quote, passes, crossed>>

\* break_even and lock_profit (of half): the new stop, and the target as listed.
NewStop(c, i) == LET e == pass[c].list[i].entry IN
    IF Running(c, {"break-even"}) THEN e ELSE e + (Seen(c) - e) \div 2

\* _submit_modify_position sends the levels that are set, and no others.
Modified(p, sl, tp) ==
    [p EXCEPT !.sl = IF sl = 0 THEN p.sl ELSE sl, !.tp = IF tp = 0 THEN p.tp ELSE tp]

Moves(c, i) ==
    LET listed == pass[c].list[i] IN
    /\ Running(c, {"break-even", "lock-profit"}) /\ Holds(c, i)
    /\ IF Seen(c) <= listed.entry
       THEN Reports(c, i, "skipped", 0) /\ UNCHANGED <<book, aimed>>
       ELSE \/ /\ i \in Open /\ NewStop(c, i) < quote
               /\ book' = [book EXCEPT ![i] = Modified(book[i], NewStop(c, i), listed.tp)]
               /\ Reports(c, i, "moved", 0) /\ UNCHANGED aimed
            \/ Refused(c, i, "moved", 0)
    /\ pass' = After(c, i)
    /\ UNCHANGED <<rests, quote, passes, crossed>>

\* remove_levels: what is not dropped is written back as listed, what is
\* dropped is written as 0, which this broker's adapter does not send.
Deletes(c, i) ==
    LET listed == pass[c].list[i]
        sl == IF "sl" \in pass[c].drop THEN 0 ELSE listed.sl
        tp == IF "tp" \in pass[c].drop THEN 0 ELSE listed.tp
    IN  /\ Running(c, {"delete"}) /\ Holds(c, i)
        /\ \/ /\ i \in Open
              /\ book' = [book EXCEPT ![i] = Modified(book[i], sl, tp)]
              /\ Reports(c, i, "deleted", listed.sl) /\ UNCHANGED aimed
           \/ Refused(c, i, "deleted", listed.sl)
        /\ pass' = After(c, i)
        /\ UNCHANGED <<rests, quote, passes, crossed>>

\* calc_basket_target applied, of its targets: the level TradeMath comes to, and the
\* stop as listed.
Aims(c, i) ==
    LET listed == pass[c].list[i]
        level == listed.entry + Spread
    IN  /\ Running(c, {"basket"}) /\ Holds(c, i)
        /\ \/ /\ i \in Open /\ level > quote
              /\ book' = [book EXCEPT ![i] = Modified(book[i], listed.sl, level)]
              /\ aimed' = [aimed EXCEPT ![i] = level]
              /\ Reports(c, i, "aimed", 0)
           \/ Refused(c, i, "aimed", 0)
        /\ pass' = After(c, i)
        /\ UNCHANGED <<rests, quote, passes, crossed>>

\* modify_position: one call, with both levels; 0 leaves a level alone.
ModifiesPosition(c, i, sl, tp) ==
    /\ Begins(c) /\ i \in Open
    /\ sl < quote /\ (tp = 0 \/ tp > quote)
    /\ book' = [book EXCEPT ![i] = Modified(book[i], sl, tp)]
    /\ aimed' = [aimed EXCEPT ![i] = IF tp = 0 THEN aimed[i] ELSE tp]
    /\ told' = [d \in Clients |-> [told[d] EXCEPT ![i] = Nothing]]
    /\ crossed' = IF \E d \in Clients : Holds(d, i) THEN crossed \cup {i} ELSE crossed
    /\ UNCHANGED <<rests, quote, pass>>

-----------------------------------------------------------------------------
(* The market, and the broker closing at a level. *)

\* The waiting orders a move of the market passes.
Passed(q) == {i \in Ids : rests[i] # 0 /\ ((quote < rests[i] /\ rests[i] <= q) \/ (q <= rests[i] /\ rests[i] < quote))}

\* An order that is passed is filled, if the margin allows all of them.
QuoteMoves(q) ==
    /\ q # quote /\ quote' = q
    /\ book' = [i \in Ids |->
                  IF i \in Open /\ (q <= book[i].sl \/ (book[i].tp # 0 /\ q >= book[i].tp)) THEN Closed
                  ELSE IF i \notin Passed(q) THEN book[i]
                  ELSE IF Cardinality(Passed(q)) <= Free THEN Opened(rests[i], 0, 0) ELSE Closed]
    /\ rests' = [i \in Ids |-> IF i \in Passed(q) THEN 0 ELSE rests[i]]
    /\ UNCHANGED <<pass, told, passes, aimed, crossed>>

Init ==
    /\ book = [i \in Ids |-> NoPos] /\ rests = [i \in Ids |-> 0] /\ quote \in Quotes
    /\ pass = [c \in Clients |-> NoPass]
    /\ told = [c \in Clients |-> [i \in Ids |-> Nothing]]
    /\ passes = 0 /\ aimed = [i \in Ids |-> 0] /\ crossed = {}

(* What the API's endpoints ask for: the arguments of a request. *)

\* place_order, place_order_bulk and snipe, which checks no margin.
MarketRequests(c) ==
    \E n \in 1..MaxBulk, sl \in {0, 1}, tp \in {0, 6}, emergency \in BOOLEAN :
        BulkBegins(c, n, sl, tp, emergency)

\* pending_order, pending_bulk, modify_order, cancel_order and cancel_orders.
PendingRequests(c) ==
    \/ \E n \in 1..MaxBulk : PendingBegins(c, n, 4)
    \/ \E i \in Ids : ModifiesOrder(c, i, 5)
    \/ ListsOrders(c)

\* close, break_even, modify_position, delete_sltp, of `which' level, and lock_profit.
PassRequests(c) ==
    \/ \E only \in {"all", "profit", "loss"} :
         \/ \E kind \in Kinds \ {"delete"} : Lists(c, kind, only, {}, 0)
         \/ \E vol \in 1..Lot : Lists(c, "close", only, {}, vol)
         \/ \E which \in {{"sl"}, {"tp"}, {"sl", "tp"}} : Lists(c, "delete", only, which, 0)
    \/ \E i \in Ids, sl \in {0, 2}, tp \in {0, 7} : ModifiesPosition(c, i, sl, tp)

Next ==
    \/ \E c \in Clients :
        \/ MarketRequests(c) \/ PendingRequests(c) \/ PassRequests(c) \/ BulkFails(c)
        \/ \E i \in Ids : \/ BulkPlaces(c, i) \/ Closes(c, i) \/ Moves(c, i) \/ Deletes(c, i)
                         \/ Aims(c, i) \/ PendingPlaces(c, i) \/ Cancels(c, i)
    \/ \E q \in Quotes : QuoteMoves(q)

Spec == Init /\ [][Next]_bookVars

-----------------------------------------------------------------------------
(* Properties. *)

\* What a pass reported of a position is what became of it: of one closed no more
\* is left than its volume leaves, an order cancelled is not filled later, a stop
\* moved to break even or beyond is at the broker, and the target is still the one
\* last asked for, whatever the market, the broker and other requests did between
\* two calls of the loop (broker_base.py:758-825, 932-998, trading_api.py:568-584).
\* Of a level reported deleted the contrary: the stop and the target stay, since
\* no level of 0 is sent (modules/tradelocker/backend/tradelocker/trader.py:592-600).
\* A position that two requests held at once is excepted: each writes back the
\* level it read before the other's change.
ReportsAreTrue ==
    \A c \in Clients, i \in Ids \ crossed :
        /\ told[c][i].what = "closed" /\ i \in Open => book[i].vol <= told[c][i].num
        /\ told[c][i].what = "cancelled" => i \notin Open /\ rests[i] = 0
        /\ told[c][i].what = "resting" => rests[i] # 0 \/ book[i] # NoPos
        /\ told[c][i].what = "moved" /\ i \in Open =>
              book[i].sl >= book[i].entry
        /\ told[c][i].what = "deleted" /\ told[c][i].num # 0 /\ i \in Open => book[i].sl # 0
        /\ i \in Open => book[i].tp = aimed[i]

-----------------------------------------------------------------------------
(* Why it holds: the inductive invariant. *)

Position == [entry : Int, sl : Int, tp : Int, vol : Nat]
Pass == [kind : Kinds \cup {"none", "bulk", "pending", "cancel"}, left : Int, list : [Ids -> Position],
         todo : SUBSET Ids, quote : Nat, sl : Int, tp : Int, drop : SUBSET {"sl", "tp"}]

Report == [what : {"none", "placed", "resting", "failed", "closed", "cancelled", "skipped", "moved",
                   "deleted", "aimed"}, num : Int]

OrdersTypeOK ==
    /\ book \in [Ids -> Position] /\ rests \in [Ids -> Nat] /\ quote \in Quotes
    /\ pass \in [Clients -> Pass] /\ aimed \in [Ids -> Int]
    /\ told \in [Clients -> [Ids -> Report]]

\* A position is not there yet, open or closed; what waits is not there yet, and has no
\* target.
BookIsSound ==
    /\ \A i \in Ids :
          /\ book[i] \in {NoPos, Closed} \/ i \in Open
          /\ rests[i] # 0 => book[i] = NoPos
          /\ book[i] = NoPos => aimed[i] = 0
    /\ \A c \in Clients : /\ Running(c, {"pending"}) => pass[c].quote # 0
                          /\ Running(c, {"none", "bulk", "pending"}) => pass[c].todo = {}
                          /\ Running(c, Kinds) => pass[c].left >= 0

\* A pass that has a position to itself knows it as it is, while it is open.
HeldIsListed ==
    \A c \in Clients, i \in Ids \ crossed : Running(c, Kinds) /\ Holds(c, i) =>
        /\ book[i] # NoPos /\ (i \in Open => pass[c].list[i] = book[i])
        /\ \A d \in Clients : Running(d, Kinds) /\ Holds(d, i) => d = c

\* What was reported of a position is of one that is, or was, there.
ToldIsOfSome ==
    \A c \in Clients, i \in Ids :
        /\ told[c][i].what = "cancelled" => book[i] = Closed
        /\ told[c][i].what \in {"closed", "moved", "deleted"} => book[i] # NoPos

IInv == OrdersTypeOK /\ BookIsSound /\ HeldIsListed /\ ToldIsOfSome /\ ReportsAreTrue
=============================================================================
