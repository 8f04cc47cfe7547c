----------------------------- MODULE BookManager -----------------------------
(***************************************************************************)
(* BookManager, src/src/book_manager.cpp: the facade that feeds each       *)
(* inbound message to the SmartOrderBook and buffers the events it         *)
(* returns until flushEvents hands them to the handlers.  The engine is    *)
(* single-threaded: each message is processed to completion in one step,   *)
(* and the three feeds (orders, trades, snapshots) interleave in any order *)
(* the caller delivers them.                                               *)
(***************************************************************************)
EXTENDS Integers, Sequences, SequencesExt

CONSTANTS
    OrderIds,     \* ids the order feed uses
    Prices,       \* the price grid (integers; prices are only compared)
    Quantities    \* quantities of order and trade messages and of levels

ASSUME OrderIds \subseteq Nat /\ Prices \subseteq Int
ASSUME Quantities \subseteq Nat \ {0}

VARIABLES
    book,     \* book_: the two sides of the SmartOrderBook
    events    \* events_: OrderInfos produced and not yet flushed

vars == <<book, events>>

OB == INSTANCE OrderBook
BS == INSTANCE BookSide
Lvl == INSTANCE Level

(***************************************************************************)
(* Inputs.  A snapshot side lists distinct prices in the side's priority   *)
(* order (the code assumes the feed sorts them), each with a quantity; a   *)
(* snapshot message pairs an uncrossed bid and ask side.                   *)
(***************************************************************************)
SnapshotSides(isSell) ==
    UNION {{[i \in 1..Len(ps) |-> [price |-> ps[i], quantity |-> qs[i]]] :
               qs \in [1..Len(ps) -> Quantities]} :
           ps \in {BS!PriorityOrder(BS!EmptySide(isSell), P) : P \in SUBSET Prices}}

Snapshots ==
    {sn \in SnapshotSides(FALSE) \X SnapshotSides(TRUE) :
        sn[1] # <<>> /\ sn[2] # <<>> => sn[1][1].price < sn[2][1].price}

Init ==
    /\ book = OB!EmptyBook
    /\ events = <<>>

\* mergeEvents(events_, ...)
Emit(r) ==
    /\ book' = r.book
    /\ events' = events \o r.events

(***************************************************************************)
(* processOrderMessage: ADD, CANCEL and MODIFY.  A handler that never      *)
(* returns (matchPendingLiqAdd spinning) has no next state.                *)
(***************************************************************************)
AddOrderMessage(id, isSell, qty, p) ==
    LET r == OB!ProcessOrderAddMessage(book, id, isSell, qty, p)
    IN ~r.hangs /\ Emit(r)

CancelOrderMessage(id, isSell, qty, p) ==
    Emit(OB!ProcessOrderCancelMessage(book, id, isSell, qty, p))

ModifyOrderMessage(id, isSell, qty, p) ==
    LET r == OB!ProcessOrderModifyMessage(book, id, isSell, qty, p)
    IN ~r.hangs /\ Emit(r)

\* processTradeMessage
TradeMessage(qty, p) == Emit(OB!ProcessTradeMessage(book, qty, p))

\* processSnapshotMessage
SnapshotMessage(sn) == Emit(OB!ProcessSnapshotMessage(book, sn[1], sn[2]))

\* flushEvents: every event goes to its handler (declared, defined outside
\* this repository, and given only the event), then the buffer is cleared.
FlushEvents ==
    /\ events' = <<>>
    /\ UNCHANGED book

OrderFeed ==
    \E id \in OrderIds, isSell \in BOOLEAN, qty \in Quantities, p \in Prices :
        \/ AddOrderMessage(id, isSell, qty, p)
        \/ CancelOrderMessage(id, isSell, qty, p)
        \/ ModifyOrderMessage(id, isSell, qty, p)

TradeFeed == \E qty \in Quantities, p \in Prices : TradeMessage(qty, p)

SnapshotFeed == \E sn \in Snapshots : SnapshotMessage(sn)

Next == OrderFeed \/ TradeFeed \/ SnapshotFeed \/ FlushEvents

Spec == Init /\ [][Next]_vars

\* The engine without the snapshot feed.
NextOrdersTrades == OrderFeed \/ TradeFeed \/ FlushEvents

SpecOrdersTrades == Init /\ [][NextOrdersTrades]_vars

-----------------------------------------------------------------------------
(***************************************************************************)
(* Properties                                                              *)
(***************************************************************************)
Sides == BOOLEAN

TypeOK ==
    /\ DOMAIN book = BOOLEAN
    /\ \A s \in Sides :
        /\ book[s].is_sell = s
        /\ DOMAIN book[s].levels \subseteq Prices
        /\ \A p \in DOMAIN book[s].levels :
              /\ book[s].levels[p].price = p
              /\ \A o \in Range(book[s].levels[p].orders) :
                    o.filled \in Nat /\ o.quantity \in Nat
        /\ \A p \in DOMAIN book[s].pending_add : book[s].pending_add[p] \in Nat
        /\ \A p \in DOMAIN book[s].pending_remove : book[s].pending_remove[p] \in Nat
    /\ \A i \in DOMAIN events :
          events[i].event \in {"ADD", "CANCEL", "EXEC", "MODIF"}

\* P1 of the spec: after every message the stored aggregate of each level
\* (kept incrementally by addOrder, removeOrder, fillOrder and modifyOrder
\* across uncrossing, trade matching, cancels and snapshot reconciliation)
\* equals the remaining quantity of its FIFO, and num_orders its length.
LevelAggregatesConsistent ==
    \A s \in Sides : \A p \in DOMAIN book[s].levels :
        LET l == book[s].levels[p]
        IN /\ l.quantity = FoldLeft(LAMBDA acc, o : acc + Lvl!Remaining(o), 0, l.orders)
           /\ l.num_orders = Len(l.orders)

\* P2 and I2 of the spec: no level is left without orders, every resting
\* order has quantity left, and an id rests at most once on a side, so that
\* removeOrder by id and the FIFO walks of uncrossing and trade matching
\* never meet an exhausted or doubled order.
BookWellFormed ==
    \A s \in Sides :
        /\ \A p \in DOMAIN book[s].levels :
              /\ book[s].levels[p].orders # <<>>
              /\ \A o \in Range(book[s].levels[p].orders) : Lvl!Remaining(o) > 0
        /\ \A p, q \in DOMAIN book[s].levels :
              \A i \in DOMAIN book[s].levels[p].orders,
                 j \in DOMAIN book[s].levels[q].orders :
                 book[s].levels[p].orders[i].odid = book[s].levels[q].orders[j].odid
                    => p = q /\ i = j

\* P3 of the spec: after every message the best bid is strictly below the
\* best ask, whichever of uncrossing, trades, cancels and modifies led there.
Uncrossed ==
    DOMAIN book[FALSE].levels # {} /\ DOMAIN book[TRUE].levels # {}
        => BS!Top(book[FALSE]) < BS!Top(book[TRUE])
\* Spec 4.2.6: the projections queued while a trade or an uncrossing
\* changes the side are states an incoming venue snapshot can show, so no
\* queued projection lists a level with no quantity.
QueuedProjectionsObservable ==
    \A s \in Sides : \A i \in DOMAIN book[s].snap_queue :
        \A lv \in Range(book[s].snap_queue[i]) : lv.quantity > 0

\* The aggregate quantity of the book at a price (0 without a level).
L2Qty(b, s, p) == IF p \in DOMAIN b[s].levels THEN b[s].levels[p].quantity ELSE 0

\* The events a step appended to events_.
NewEvents == SubSeq(events', Len(events) + 1, Len(events'))

\* How the events move the quantity of side s at price p when replayed.
EventDelta(es, s, p) ==
    FoldLeft(LAMBDA acc, e :
                IF e.is_sell = s /\ e.price = p
                THEN IF e.event = "ADD" THEN acc + e.quantity ELSE acc - e.quantity
                ELSE acc,
             0, es)

\* I5 of the spec: the events a message emits explain the change of the
\* book: replaying its ADD, CANCEL and EXEC events on the L2 view before the
\* message gives the L2 view after it (MODIF events, which carry a new
\* quantity and not a change, are left out).
EventsExplainBook ==
    [][(\A i \in DOMAIN NewEvents : NewEvents[i].event # "MODIF") =>
          \A s \in Sides, p \in Prices :
              L2Qty(book', s, p) = L2Qty(book, s, p) + EventDelta(NewEvents, s, p)]_vars

\* Where the order with id rests: its side, price and remaining quantity.
RestingOrders(b, id) ==
    UNION {{[side |-> s, price |-> p, remaining |-> Lvl!Remaining(o)] :
               o \in {o2 \in Range(b[s].levels[p].orders) : o2.odid = id}} :
           <<s, p>> \in {<<s2, p2>> \in Sides \X Prices : p2 \in DOMAIN b[s2].levels}}

\* A MODIFY of a resting order on its own side takes effect: afterwards the
\* order rests nowhere but at the new price, with at most the new
\* quantity (less if the add was absorbed or uncrossed), or not at all.
\* processOrderModifyMessage cancels at the new price and re-adds; the
\* cancel meets whatever pending_liq_remove_qty_ earlier uncrossings left
\* at that price.
ModifyTakesEffect ==
    [][\A id \in OrderIds, isSell \in BOOLEAN, q \in Quantities, p \in Prices :
          /\ ModifyOrderMessage(id, isSell, q, p)
          /\ \E o \in RestingOrders(book, id) : o.side = isSell
          => \A o \in RestingOrders(book', id) :
                o.side = isSell => o.price = p /\ o.remaining <= q]_vars

\* Spec S6: a snapshot whose side equals the last projection that side has
\* queued confirms it, popping a queued entry, so that l2_snap_queue_
\* shrinks whenever the venue shows the state the engine predicted last
\* (processL2Snapshot and saveL2SnapshoSide).
SnapshotOfLastProjectionConfirms ==
    [][\A sn \in Snapshots :
          SnapshotMessage(sn)
          => \A s \in Sides :
                LET q == book[s].snap_queue
                IN q # <<>> /\ sn[IF s THEN 2 ELSE 1] = q[Len(q)]
                   => Len(book'[s].snap_queue) < Len(q)]_vars

=============================================================================
