------------------------------ MODULE OrderBook ------------------------------
(***************************************************************************)
(* SmartOrderBook, src/src/order_book.cpp: the two sides and the routing   *)
(* of each message to them.  A book is a function from is_sell to a side   *)
(* (sides_[0] is the bid side, sides_[1] the ask side); every public       *)
(* method is an operator from a book and a message to [book, events], the  *)
(* book after the call and the OrderInfoVec it returns.                    *)
(***************************************************************************)
LOCAL INSTANCE Integers
LOCAL INSTANCE Sequences
BS == INSTANCE BookSide

\* SmartOrderBook(): an empty bid side and an empty ask side.
EmptyBook == [isSell \in BOOLEAN |-> BS!EmptySide(isSell)]

\* existOrder: the id rests on either side.
ExistOrder(book, id) == BS!ExistOrder(book[FALSE], id) \/ BS!ExistOrder(book[TRUE], id)

\* getOrderHandler(id).order: looked up on the bid side first.
HandlerOrder(book, id) ==
    IF BS!ExistOrder(book[FALSE], id) THEN BS!OrderOf(book[FALSE], id)
    ELSE BS!OrderOf(book[TRUE], id)

OrderEvent(kind, id, isSell, qty, p) ==
    [event |-> kind, odid |-> id, is_sell |-> isSell, quantity |-> qty, price |-> p]

(***************************************************************************)
(* processOrderAddMessage: absorb what a trade predicted, uncross the      *)
(* opposite side, rest the remainder.  `hangs' is TRUE when the call of    *)
(* matchPendingLiqAdd never returns.                                       *)
(***************************************************************************)
ProcessOrderAddMessage(book, id, isSell, qty, p) ==
    LET m   == BS!MatchPendingLiqAdd(book[isSell], qty, p)
        rem == qty - m.matched
        u   == IF BS!BookCrossedWithPrice(book[~isSell], p)
               THEN BS!ProcessCrossedOrder(book[~isSell], p, rem)
               ELSE [side |-> book[~isSell], rem |-> rem, events |-> <<>>]
        own == BS!AddPendingLiqRemoveQty(m.side, u.events)
    IN IF rem = 0
       THEN [book |-> [book EXCEPT ![isSell] = m.side], events |-> <<>>,
             hangs |-> m.hangs]
       ELSE IF u.rem = 0
       THEN [book |-> [s \in BOOLEAN |-> IF s = isSell THEN own ELSE u.side],
             events |-> u.events, hangs |-> m.hangs]
       ELSE [book |-> [s \in BOOLEAN |->
                         IF s = isSell
                         THEN BS!AddOrder(own, p, [BS!Lvl!NewOrder(id, qty) EXCEPT
                                                     !.filled = qty - u.rem])
                         ELSE u.side],
             events |-> Append(u.events, OrderEvent("ADD", id, isSell, u.rem, p)),
             hangs |-> m.hangs]

\* processOrderCancelMessage: delegated to the message's side.
ProcessOrderCancelMessage(book, id, isSell, qty, p) ==
    LET c == BS!ProcessOrderCancel(book[isSell], id, qty, p)
    IN [book |-> [book EXCEPT ![isSell] = c.side], events |-> c.events]

(***************************************************************************)
(* processOrderModifyMessage: MODIF always; for a known id a cancel of the *)
(* order's current remaining at the new price, then an add of the new      *)
(* quantity.  The events of both inner calls are discarded.                *)
(***************************************************************************)
ProcessOrderModifyMessage(book, id, isSell, qty, p) ==
    LET modif == <<OrderEvent("MODIF", id, isSell, qty, p)>>
    IN IF ~ExistOrder(book, id)
       THEN [book |-> book, events |-> modif, hangs |-> FALSE]
       ELSE LET c == ProcessOrderCancelMessage(book, id, isSell,
                        BS!Lvl!Remaining(HandlerOrder(book, id)), p)
                a == ProcessOrderAddMessage(c.book, id, isSell, qty, p)
            IN [book |-> a.book, events |-> modif, hangs |-> a.hangs]

\* processTradeMessage: the bid side, then the ask side.
ProcessTradeMessage(book, qty, p) ==
    LET b == BS!ProcessTrade(book[FALSE], qty, p)
        a == BS!ProcessTrade(book[TRUE], qty, p)
    IN [book |-> [s \in BOOLEAN |-> IF s THEN a.side ELSE b.side],
        events |-> b.events \o a.events]

\* processSnapshotMessage: the bid levels to the bid side, then the asks.
ProcessSnapshotMessage(book, bidLevels, askLevels) ==
    LET b == BS!ProcessL2Snapshot(book[FALSE], bidLevels)
        a == BS!ProcessL2Snapshot(book[TRUE], askLevels)
    IN [book |-> [s \in BOOLEAN |-> IF s THEN a.side ELSE b.side],
        events |-> b.events \o a.events]

\* getL2Book: (price, aggregate quantity) of each side in priority order.
GetL2Book(book) == [s \in BOOLEAN |-> BS!L2Side(book[s])]
=============================================================================
