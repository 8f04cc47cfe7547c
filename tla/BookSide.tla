------------------------------ MODULE BookSide ------------------------------
(***************************************************************************)
(* One side (bid or ask) of the book, src/src/book_side.cpp.  A side is a  *)
(* record                                                                  *)
(*   is_sell        : FALSE for the bid side, TRUE for the ask side        *)
(*   levels         : price -> L3 level (module Level); DOMAIN = levels_   *)
(*   pending_remove : price -> qty, pending_liq_remove_qty_                *)
(*   pending_add    : price -> qty, pending_liq_add_qty_                   *)
(*   snap_queue     : Seq of L2 side snapshots, l2_snap_queue_             *)
(* and every method of BookSide is an operator from a side (and the        *)
(* method's arguments) to the side after the call, with the events it      *)
(* returns.  order_map_ is not a separate field: it is the set of orders   *)
(* in the FIFOs, which the code keeps in step with it on every path.       *)
(* Prices are integers: the code only compares and equates them.           *)
(***************************************************************************)
LOCAL INSTANCE Integers
LOCAL INSTANCE Sequences
LOCAL INSTANCE SequencesExt
Lvl == INSTANCE Level

\* The order id the code gives to inferred liquidity in events.
SyntheticId == -1
\* processL2Snapshot: `int fake_order_id = 100;', restarted on every call.
FirstFakeOrderId == 100

Least(a, b) == IF a <= b THEN a ELSE b

\* std::map / unordered_map helpers: insert-or-assign, erase, operator[] +=.
Put(f, k, v)   == [x \in DOMAIN f \cup {k} |-> IF x = k THEN v ELSE f[x]]
Erase(f, k)    == [x \in DOMAIN f \ {k} |-> f[x]]
AddQty(f, k, d) == Put(f, k, IF k \in DOMAIN f THEN f[k] + d ELSE d)

EmptySide(isSell) ==
    [is_sell |-> isSell, levels |-> <<>>, pending_remove |-> <<>>,
     pending_add |-> <<>>, snap_queue |-> <<>>]

\* comp_: BidComparator (higher first) or AskComparator (lower first).
Better(s, p, q) == IF s.is_sell THEN p < q ELSE p > q

\* The begin() of a map ordered by comp_, over a non-empty key set.
BestOf(s, keys) == CHOOSE p \in keys : \A q \in keys \ {p} : Better(s, p, q)

\* The keys in the map's iteration order.
RECURSIVE PriorityOrder(_, _)
PriorityOrder(s, keys) ==
    IF keys = {} THEN <<>>
    ELSE <<BestOf(s, keys)>> \o PriorityOrder(s, keys \ {BestOf(s, keys)})

Top(s) == BestOf(s, DOMAIN s.levels)

OrderIds(s) ==
    UNION {{o.odid : o \in Range(s.levels[p].orders)} : p \in DOMAIN s.levels}

\* existOrder
ExistOrder(s, id) == id \in OrderIds(s)

\* The price of the level holding order id (handler.order->price).
PriceOf(s, id) ==
    CHOOSE p \in DOMAIN s.levels :
        \E i \in DOMAIN s.levels[p].orders : s.levels[p].orders[i].odid = id

OrderOf(s, id) == Lvl!OrderWithId(s.levels[PriceOf(s, id)], id)

\* existLevel
ExistLevel(s, p) == p \in DOMAIN s.levels

\* An OrderInfo emitted by this side.
Event(kind, id, s, qty, p) ==
    [event |-> kind, odid |-> id, is_sell |-> s.is_sell,
     quantity |-> qty, price |-> p]

\* Mutant of AddOrder: the existOrder guard is dropped.
AddOrderNoDuplicateCheck(s, p, o) ==
    [s EXCEPT !.levels =
        Put(@, p, Lvl!AddOrder(IF p \in DOMAIN @ THEN @[p] ELSE Lvl!NewLevel(p), o))]

\* addOrder: no-op for a known id; else into the level at the order's price,
\* creating the level.
AddOrder(s, p, o) ==
    IF ExistOrder(s, o.odid) THEN s
    ELSE [s EXCEPT !.levels =
            Put(@, p, Lvl!AddOrder(IF p \in DOMAIN @ THEN @[p]
                                   ELSE Lvl!NewLevel(p), o))]

\* removeOrder: no-op for an unknown id; erases the level left empty.
RemoveOrder(s, id) ==
    IF ~ExistOrder(s, id) THEN s
    ELSE LET p == PriceOf(s, id)
             l == Lvl!RemoveOrder(s.levels[p], id)
         IN [s EXCEPT !.levels = IF l.num_orders = 0 THEN Erase(@, l.price)
                                 ELSE Put(@, p, l)]

\* modifyOrder: quantity change in place at the same price; otherwise a
\* fresh order keeping filled_quantity, removed then added.
ModifyOrder(s, id, qty, p) ==
    IF ~ExistOrder(s, id) THEN s
    ELSE IF PriceOf(s, id) = p
         THEN [s EXCEPT !.levels[p] = Lvl!ModifyOrder(@, id, qty)]
         ELSE AddOrder(RemoveOrder(s, id), p,
                       [Lvl!NewOrder(id, qty) EXCEPT !.filled = OrderOf(s, id).filled])

\* Mutant of BookCrossedWithPrice: a price equal to the top does not cross.
BookCrossedStrict(s, price) ==
    /\ DOMAIN s.levels # {}
    /\ IF s.is_sell THEN price > Top(s) ELSE Top(s) > price

\* bookCrossedWithPrice: would an opposite order at `price' cross this side?
BookCrossedWithPrice(s, price) ==
    /\ DOMAIN s.levels # {}
    /\ IF s.is_sell THEN price >= Top(s) ELSE Top(s) >= price

\* The (price, quantity) list of the side in priority order.
L2Side(s) ==
    LET ps == PriorityOrder(s, DOMAIN s.levels)
    IN [i \in DOMAIN ps |-> Lvl!L2Level(s.levels[ps[i]])]

\* saveL2SnapshoSide: push the current projection on the queue.
SaveL2SnapshotSide(s) == [s EXCEPT !.snap_queue = Append(@, L2Side(s))]

\* removeOrder followed by saveL2SnapshoSide, for each id in turn.
RemoveAndSaveAll(s, ids) ==
    FoldLeft(LAMBDA acc, id : SaveL2SnapshotSide(RemoveOrder(acc, id)), s, ids)

\* Mutant of MatchPendingLiqRemove: the match is not capped by the entry.
MatchPendingLiqRemoveUnbounded(s, qty, p) ==
    IF p \in DOMAIN s.pending_remove
    THEN LET left == s.pending_remove[p] - qty
         IN [side    |-> [s EXCEPT !.pending_remove =
                            IF left = 0 THEN Erase(@, p) ELSE Put(@, p, left)],
             matched |-> qty]
    ELSE [side |-> s, matched |-> 0]

\* matchPendingLiqRemove: exact-price match, entry erased when it hits 0.
MatchPendingLiqRemove(s, qty, p) ==
    IF p \in DOMAIN s.pending_remove
    THEN LET m    == Least(s.pending_remove[p], qty)
             left == s.pending_remove[p] - m
         IN [side    |-> [s EXCEPT !.pending_remove =
                            IF left = 0 THEN Erase(@, p) ELSE Put(@, p, left)],
             matched |-> m]
    ELSE [side |-> s, matched |-> 0]

\* Mutant of AddPendingLiqRemoveQty: the uncrossing's fills are not
\* recorded as expected removals.
AddPendingLiqRemoveQtyNone(s, events) == s

\* addPendingLiqRemoveQty: every EXEC event becomes an expected removal.
AddPendingLiqRemoveQty(s, events) ==
    FoldLeft(LAMBDA acc, e :
                IF e.event = "EXEC"
                THEN [acc EXCEPT !.pending_remove = AddQty(@, e.price, e.quantity)]
                ELSE acc,
             s, events)
\* removeOrder for each id in turn.
RemoveAll(s, ids) == FoldLeft(LAMBDA acc, id : RemoveOrder(acc, id), s, ids)

(***************************************************************************)
(* processCrossedOrder.  r is [side, rem, events, exhausted]: the side,    *)
(* the aggressor's remaining quantity, the events so far and the ids to    *)
(* remove once the walk of the top level is over.                          *)
(***************************************************************************)
\* The for-loop over the FIFO of the top level p, from position i.
RECURSIVE CrossFill(_, _, _)
CrossFill(p, i, r) ==
    IF i > Len(r.side.levels[p].orders) \/ r.rem = 0 THEN r
    ELSE LET o      == r.side.levels[p].orders[i]
             f      == Least(r.rem, Lvl!Remaining(o))
             filled == SaveL2SnapshotSide(
                         [r.side EXCEPT !.levels[p] = Lvl!FillOrder(@, o.odid, f)])
         IN CrossFill(p, i + 1,
              [side      |-> [filled EXCEPT !.pending_remove = AddQty(@, p, f)],
               rem       |-> r.rem - f,
               events    |-> Append(r.events, Event("EXEC", o.odid, r.side, f, p)),
               exhausted |-> IF Lvl!Remaining(o) = f
                             THEN Append(r.exhausted, o.odid) ELSE r.exhausted])

\* The while-loop: walk the top level while the aggressor still crosses it.
RECURSIVE CrossLoop(_, _)
CrossLoop(price, r) ==
    IF r.rem > 0 /\ BookCrossedWithPrice(r.side, price)
    THEN LET w == CrossFill(Top(r.side), 1, [r EXCEPT !.exhausted = <<>>])
         IN CrossLoop(price, [w EXCEPT !.side = RemoveAll(@, w.exhausted)])
    ELSE r

\* The aggressor is given by its price and remaining quantity; `rem' of the
\* result is its remaining quantity afterwards.
ProcessCrossedOrder(s, price, rem) ==
    CrossLoop(price, [side |-> s, rem |-> rem, events |-> <<>>, exhausted |-> <<>>])

\* processOrderCancel: absorb what was predicted, cancel the rest.
ProcessOrderCancel(s, id, qty, p) ==
    LET m    == MatchPendingLiqRemove(s, qty, p)
        rest == qty - m.matched
    IN IF rest > 0 /\ ExistOrder(m.side, id)
       THEN [side   |-> RemoveOrder(m.side, id),
             events |-> <<Event("CANCEL", id, s, rest, p)>>]
       ELSE [side |-> m.side, events |-> <<>>]

(***************************************************************************)
(* processTrade                                                            *)
(***************************************************************************)
\* Step 1: cancel every order of each level strictly better than the trade
\* price (the event carries order->quantity), saving after each removal.
RECURSIVE CancelThrough(_, _)
CancelThrough(price, r) ==
    IF DOMAIN r.side.levels # {} /\ Better(r.side, Top(r.side), price)
    THEN LET os == r.side.levels[Top(r.side)].orders
         IN CancelThrough(price,
              [side   |-> RemoveAndSaveAll(r.side, [i \in DOMAIN os |-> os[i].odid]),
               events |-> r.events \o
                          [i \in DOMAIN os |->
                             Event("CANCEL", os[i].odid, r.side, os[i].quantity,
                                   Top(r.side))]])
    ELSE r

\* Step 2: the for-loop over the FIFO at the trade price.
RECURSIVE TradeFill(_, _, _)
TradeFill(p, i, r) ==
    IF i > Len(r.side.levels[p].orders) \/ r.rem = 0 THEN r
    ELSE LET o == r.side.levels[p].orders[i]
             f == Least(r.rem, Lvl!Remaining(o))
         IN TradeFill(p, i + 1,
              [side      |-> SaveL2SnapshotSide(
                               [r.side EXCEPT !.levels[p] = Lvl!FillOrder(@, o.odid, f)]),
               rem       |-> r.rem - f,
               events    |-> Append(r.events, Event("EXEC", o.odid, r.side, f, p)),
               exhausted |-> IF Lvl!Remaining(o) = f
                             THEN Append(r.exhausted, o.odid) ELSE r.exhausted])

ProcessTrade(s, qty, price) ==
    LET a == MatchPendingLiqRemove(s, qty, price)
        b == CancelThrough(price, [side |-> a.side, events |-> <<>>])
        c == IF ExistLevel(b.side, price)
             THEN LET w == TradeFill(price, 1, [side |-> b.side, rem |-> qty - a.matched,
                                                events |-> b.events, exhausted |-> <<>>])
                  IN [w EXCEPT !.side = RemoveAndSaveAll(@, w.exhausted)]
             ELSE [side |-> b.side, rem |-> qty - a.matched, events |-> b.events,
                   exhausted |-> <<>>]
    IN IF c.rem > 0      \* Step 3: an unseen aggressor is expected
       THEN [side   |-> [c.side EXCEPT !.pending_add = AddQty(@, price, c.rem)],
             events |-> c.events \o <<Event("ADD", SyntheticId, s, c.rem, price),
                                      Event("EXEC", SyntheticId, s, c.rem, price)>>]
       ELSE [side |-> c.side, events |-> c.events]

(***************************************************************************)
(* matchPendingLiqAdd.  The loop consumes entries from begin() while the   *)
(* price beats-or-equals the entry's key, but erases an exhausted entry by *)
(* `price', the argument, and not by the entry's key.  An iteration that   *)
(* changes nothing and does not break repeats for ever: `hangs' says the   *)
(* call never returns.                                                     *)
(***************************************************************************)
\* Mutant: the `matched_qty == quantity' break is missing.
RECURSIVE MatchAddLoopNoBreak(_, _, _, _)
MatchAddLoopNoBreak(s, qty, price, matched) ==
    IF DOMAIN s.pending_add = {}
    THEN [side |-> s, matched |-> matched, hangs |-> FALSE]
    ELSE LET k        == BestOf(s, DOMAIN s.pending_add)
             canMatch == IF s.is_sell THEN price <= k ELSE price >= k
             cur      == Least(s.pending_add[k], qty - matched)
             dec      == [s.pending_add EXCEPT ![k] = @ - cur]
             s2       == [s EXCEPT !.pending_add =
                            IF dec[k] = 0 THEN Erase(dec, price) ELSE dec]
         IN IF ~canMatch THEN [side |-> s, matched |-> matched, hangs |-> FALSE]
            ELSE IF s2 = s
                 THEN [side |-> s, matched |-> matched, hangs |-> TRUE]
            ELSE MatchAddLoopNoBreak(s2, qty, price, matched + cur)

RECURSIVE MatchAddLoop(_, _, _, _)
MatchAddLoop(s, qty, price, matched) ==
    IF DOMAIN s.pending_add = {}
    THEN [side |-> s, matched |-> matched, hangs |-> FALSE]
    ELSE LET k        == BestOf(s, DOMAIN s.pending_add)
             canMatch == IF s.is_sell THEN price <= k ELSE price >= k
             cur      == Least(s.pending_add[k], qty - matched)
             dec      == [s.pending_add EXCEPT ![k] = @ - cur]
             s2       == [s EXCEPT !.pending_add =
                            IF dec[k] = 0 THEN Erase(dec, price) ELSE dec]
         IN IF ~canMatch THEN [side |-> s, matched |-> matched, hangs |-> FALSE]
            ELSE IF matched + cur = qty
                 THEN [side |-> s2, matched |-> qty, hangs |-> FALSE]
            ELSE IF s2 = s
                 THEN [side |-> s, matched |-> matched, hangs |-> TRUE]
            ELSE MatchAddLoop(s2, qty, price, matched + cur)

MatchPendingLiqAdd(s, qty, price) == MatchAddLoop(s, qty, price, 0)
(***************************************************************************)
(* processL2Snapshot.  r is [side, events, staged, fake]: staged holds the *)
(* pending_orders list as [odid, price, qty] entries (the order itself is  *)
(* found again by its id, unique in the side), fake the next fake id.      *)
(***************************************************************************)
\* The walk from the front of a level's FIFO covering `deficit'.
RECURSIVE StageFront(_, _, _)
StageFront(l, i, deficit) ==
    IF i > Len(l.orders) \/ deficit = 0 THEN <<>>
    ELSE LET q == Least(deficit, Lvl!Remaining(l.orders[i]))
         IN <<[odid |-> l.orders[i].odid, price |-> l.price, qty |-> q]>>
            \o StageFront(l, i + 1, deficit - q)

\* Liquidity the snapshot shows and L3 lacks: ADD(-1), expected add, and a
\* fake order (addOrder, so a no-op when the fake id is already resting).
AddSynthetic(r, p, q) ==
    [r EXCEPT !.side   = AddOrder([@ EXCEPT !.pending_add = AddQty(@, p, q)], p,
                                  Lvl!NewOrder(r.fake, q)),
              !.events = Append(@, Event("ADD", SyntheticId, r.side, q, p)),
              !.fake   = @ + 1]

\* One iteration of the loop over the snapshot's levels.
ReconcileLevel(r, lv) ==
    IF ExistLevel(r.side, lv.price)
    THEN LET l == r.side.levels[lv.price]
         IN IF lv.quantity < l.quantity
            THEN [r EXCEPT !.staged = @ \o StageFront(l, 1, l.quantity - lv.quantity)]
            ELSE IF lv.quantity > l.quantity
                 THEN AddSynthetic(r, lv.price, lv.quantity - l.quantity)
                 ELSE r
    ELSE AddSynthetic(r, lv.price, lv.quantity)

\* Every order of the levels absent from the snapshot, in map order.
StageAbsent(s, snapPrices) ==
    FoldLeft(LAMBDA acc, p :
                LET os == s.levels[p].orders
                IN acc \o [i \in DOMAIN os |->
                             [odid |-> os[i].odid, price |-> p,
                              qty |-> Lvl!Remaining(os[i])]],
             <<>>, PriorityOrder(s, DOMAIN s.levels \ snapPrices))

\* ceil(0.3 * n) in double arithmetic; equal to (3n + 9) div 10 for every
\* n below 200, far above what a model reaches.
ExecutedOrderNum(n) == (3 * n + 9) \div 10

\* The first ExecutedOrderNum entries become EXEC, the rest CANCEL; an entry
\* covering the order's remaining removes it, a smaller one fills it.
AttributeStaged(s, events, staged) ==
    LET n == ExecutedOrderNum(Len(staged))
        Step(acc, i) ==
            LET e == staged[i]
                o == OrderOf(acc.side, e.odid)
            IN [side   |-> IF Lvl!Remaining(o) = e.qty
                           THEN RemoveOrder(acc.side, e.odid)
                           ELSE IF ExistLevel(acc.side, e.price)
                                THEN [acc.side EXCEPT !.levels[e.price] =
                                        Lvl!FillOrder(@, e.odid, e.qty)]
                                ELSE acc.side,
                events |-> Append(acc.events,
                                  Event(IF i <= n THEN "EXEC" ELSE "CANCEL",
                                        e.odid, acc.side, e.qty, e.price))]
    IN FoldLeftDomain(Step, [side |-> s, events |-> events], staged)

ProcessL2Snapshot(s, snap) ==
    IF s.snap_queue # <<>> /\ Head(s.snap_queue) = snap
    THEN [side |-> [s EXCEPT !.snap_queue = Tail(@)], events |-> <<>>]
    ELSE IF s.snap_queue = <<>>
    THEN LET r == FoldLeft(ReconcileLevel,
                           [side |-> s, events |-> <<>>, staged |-> <<>>,
                            fake |-> FirstFakeOrderId],
                           snap)
             snapPrices == {snap[i].price : i \in DOMAIN snap}
         IN AttributeStaged(r.side, r.events,
                            r.staged \o StageAbsent(r.side, snapPrices))
    ELSE [side |-> s, events |-> <<>>]     \* a polluted snapshot is dropped
=============================================================================
