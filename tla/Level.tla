------------------------------- MODULE Level -------------------------------
(***************************************************************************)
(* The L3 price level of src/src/include/level.h and src/src/level.cpp:   *)
(* the aggregate quantity, the order count and the FIFO of orders resting  *)
(* at one price.  An order is a record [odid, quantity, filled]; its price *)
(* is the price of the level that holds it.  The aggregate `quantity' and  *)
(* `num_orders' are stored fields updated incrementally, exactly as in the *)
(* code, so that their agreement with the FIFO is something to check.     *)
(***************************************************************************)
LOCAL INSTANCE Integers
LOCAL INSTANCE Sequences

\* Order::getRemainingQuantity
Remaining(o) == o.quantity - o.filled

\* Order(id, is_sell, quantity, price): nothing filled yet.
NewOrder(id, qty) == [odid |-> id, quantity |-> qty, filled |-> 0]

\* A level as std::map::operator[] creates it, once addOrder has set its
\* price.
NewLevel(p) == [price |-> p, quantity |-> 0, num_orders |-> 0, orders |-> <<>>]

\* L3PriceLevel::addOrder: append to the FIFO, count it, add its remaining.
AddOrder(l, o) ==
    [l EXCEPT !.quantity   = @ + Remaining(o),
              !.num_orders = @ + 1,
              !.orders     = Append(@, o)]

\* The order of the FIFO with id `id' (the handler's iterator).
OrderWithId(l, id) ==
    l.orders[CHOOSE i \in DOMAIN l.orders : l.orders[i].odid = id]

\* Mutant of RemoveOrder: subtracts the original quantity, not the remaining.
RemoveOrderOriginalQty(l, id) ==
    [l EXCEPT !.orders     = SelectSeq(@, LAMBDA o : o.odid # id),
              !.quantity   = @ - OrderWithId(l, id).quantity,
              !.num_orders = @ - 1]

\* L3PriceLevel::removeOrder: erase at the handler's position, subtract the
\* order's remaining quantity, uncount it.
RemoveOrder(l, id) ==
    [l EXCEPT !.orders     = SelectSeq(@, LAMBDA o : o.odid # id),
              !.quantity   = @ - Remaining(OrderWithId(l, id)),
              !.num_orders = @ - 1]

\* L3PriceLevel::modifyOrder (same price only): the aggregate moves by the
\* change of the original quantity, which is then overwritten.
ModifyOrder(l, id, newQty) ==
    [l EXCEPT !.quantity = @ + newQty - OrderWithId(l, id).quantity,
              !.orders   = [i \in DOMAIN @ |->
                              IF @[i].odid = id
                              THEN [@[i] EXCEPT !.quantity = newQty]
                              ELSE @[i]]]

\* L3PriceLevel::fillOrder: advance the order's filled quantity; the order
\* stays in the FIFO even when exhausted.
FillOrder(l, id, qty) ==
    [l EXCEPT !.quantity = @ - qty,
              !.orders   = [i \in DOMAIN @ |->
                              IF @[i].odid = id
                              THEN [@[i] EXCEPT !.filled = @ + qty]
                              ELSE @[i]]]

\* L3PriceLevel::getL2Level
L2Level(l) == [price |-> l.price, quantity |-> l.quantity]
=============================================================================
