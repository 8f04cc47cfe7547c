----------------------------- MODULE MarketFeeds -----------------------------
(***************************************************************************)
(* The engine (BookManager) composed with the venue it observes (spec      *)
(* section 1).  The venue keeps the true book of one instrument, matches   *)
(* an incoming order against it by price-time priority, and publishes      *)
(* three independent FIFO feeds: order messages (the ADD of every order    *)
(* with its full quantity, the CANCEL of a resting one), one trade print   *)
(* per fill at the resting price, and L2 snapshots of its book whenever it *)
(* likes.  The engine takes the head of any feed whose turn comes, so the  *)
(* feeds interleave in every order while each keeps its own order.  The    *)
(* venue is the environment of the code and is modelled from the spec.    *)
(***************************************************************************)
EXTENDS Integers, Sequences, SequencesExt

CONSTANTS
    OrderIds, Prices, Quantities,
    MaxVenueSteps,  \* venue actions (orders, cancels, snapshots) in a run
    MaxVenueSnapshots, \* of which snapshots
    Aggressors      \* whether the venue receives orders that trade

VARIABLES
    book, events,   \* the engine: BookManager's state
    vorders,        \* the venue's resting orders in arrival (time) order
    vsteps,         \* venue actions so far
    vsnaps,         \* snapshots the venue has published
    vsnapped,       \* no order or cancel since the venue's last snapshot
    orderQ,         \* order feed not yet delivered to the engine
    tradeQ,         \* trade feed not yet delivered
    snapQ,          \* snapshot feed not yet delivered
    headSpins,      \* the ADD at the head of orderQ would never return
    sequential      \* every delivery so far took the oldest published message

engine == <<book, events>>
venue == <<vorders, vsteps, vsnaps, vsnapped, orderQ, tradeQ, snapQ>>
vars == <<book, events, vorders, vsteps, vsnaps, vsnapped, orderQ, tradeQ, snapQ, headSpins, sequential>>

BM == INSTANCE BookManager

(***************************************************************************)
(* The venue.  Every message it publishes carries `at', the venue step     *)
(* that published it; only the observer `sequential' reads the stamp, the *)
(* engine's handlers see the fields of OrderMessage, TradeMessage and      *)
(* SnapshotMessage alone.  A snapshot is <<bid levels, ask levels, at>>.   *)
(***************************************************************************)
UsedIds == {m.id : m \in Range(orderQ)} \cup {o.id : o \in Range(vorders)}

\* A resting order of side s at price rp is hit by an aggressor at p.
Crosses(s, p, rp) == IF s THEN rp <= p ELSE rp >= p

\* Resting order i goes before j: better price, then earlier arrival.
Before(vo, i, j) ==
    \/ vo[i].price = vo[j].price /\ i <= j
    \/ vo[i].price # vo[j].price /\ IF vo[i].is_sell THEN vo[i].price < vo[j].price
                                                      ELSE vo[i].price > vo[j].price

\* Match an aggressor of quantity rem on side a at price p.
RECURSIVE VenueMatch(_, _, _, _, _)
VenueMatch(vo, a, p, rem, prints) ==
    LET hit == {i \in DOMAIN vo : vo[i].is_sell # a /\ Crosses(vo[i].is_sell, p, vo[i].price)}
    IN IF rem = 0 \/ hit = {}
       THEN [orders |-> vo, rem |-> rem, prints |-> prints]
       ELSE LET i == CHOOSE i \in hit : \A j \in hit : Before(vo, i, j)
                f == IF rem < vo[i].quantity THEN rem ELSE vo[i].quantity
                vo2 == IF f = vo[i].quantity THEN RemoveAt(vo, i)
                       ELSE [vo EXCEPT ![i].quantity = @ - f]
            IN VenueMatch(vo2, a, p, rem - f,
                          Append(prints, [quantity |-> f, price |-> vo[i].price, at |-> vsteps]))

VenueStep ==
    /\ vsteps < MaxVenueSteps
    /\ vsteps' = vsteps + 1
    /\ UNCHANGED engine

\* A new order: its ADD, the prints of its fills, its remainder resting.
VenueAdd(id, s, q, p) ==
    LET m == VenueMatch(vorders, s, p, q, <<>>)
    IN /\ VenueStep
       /\ id \notin UsedIds
       /\ Aggressors \/ m.prints = <<>>
       /\ vsnapped' = FALSE
       /\ orderQ' = Append(orderQ, [type |-> "ADD", id |-> id, is_sell |-> s,
                                    quantity |-> q, price |-> p, at |-> vsteps])
       /\ tradeQ' = tradeQ \o m.prints
       /\ vorders' = IF m.rem = 0 THEN m.orders
                     ELSE Append(m.orders, [id |-> id, is_sell |-> s,
                                            quantity |-> m.rem, price |-> p])
       /\ UNCHANGED <<snapQ, vsnaps>>

\* A resting order is cancelled: its CANCEL carries what remained.
VenueCancel(i) ==
    /\ VenueStep
    /\ orderQ' = Append(orderQ, [type |-> "CANCEL", id |-> vorders[i].id,
                                 is_sell |-> vorders[i].is_sell,
                                 quantity |-> vorders[i].quantity,
                                 price |-> vorders[i].price, at |-> vsteps])
    /\ vorders' = RemoveAt(vorders, i)
    /\ vsnapped' = FALSE
    /\ UNCHANGED <<tradeQ, snapQ, vsnaps>>

\* The venue's depth on side s, in that side's priority order.
VenueL2(s) ==
    LET ps == BM!BS!PriorityOrder(BM!BS!EmptySide(s),
                                  {o.price : o \in {o2 \in Range(vorders) : o2.is_sell = s}})
        qty(p) == FoldLeft(LAMBDA acc, o : IF o.is_sell = s /\ o.price = p
                                           THEN acc + o.quantity ELSE acc,
                           0, vorders)
    IN [i \in DOMAIN ps |-> [price |-> ps[i], quantity |-> qty(ps[i])]]

VenueSnapshot ==
    /\ VenueStep
    /\ vsnaps < MaxVenueSnapshots
    /\ snapQ' = Append(snapQ, <<VenueL2(FALSE), VenueL2(TRUE), vsteps>>)
    /\ vsnaps' = vsnaps + 1
    /\ vsnapped' = TRUE
    /\ UNCHANGED <<vorders, orderQ, tradeQ>>

Venue ==
    \/ VenueSnapshot
    \/ \E i \in DOMAIN vorders : VenueCancel(i)
    \/ \E id \in OrderIds, s \in BOOLEAN, q \in Quantities, p \in Prices :
          VenueAdd(id, s, q, p)

(***************************************************************************)
(* The engine takes the head of one feed.  An ADD whose handler never      *)
(* returns blocks the engine (BookManager's actions have no such step).    *)
(***************************************************************************)
DeliverOrder ==
    /\ orderQ # <<>>
    /\ LET m == Head(orderQ)
       IN \/ m.type = "ADD" /\ BM!AddOrderMessage(m.id, m.is_sell, m.quantity, m.price)
          \/ m.type = "CANCEL" /\ BM!CancelOrderMessage(m.id, m.is_sell, m.quantity, m.price)
    /\ orderQ' = Tail(orderQ)
    /\ UNCHANGED <<vorders, vsteps, vsnaps, vsnapped, tradeQ, snapQ>>

DeliverTrade ==
    /\ tradeQ # <<>>
    /\ BM!TradeMessage(Head(tradeQ).quantity, Head(tradeQ).price)
    /\ tradeQ' = Tail(tradeQ)
    /\ UNCHANGED <<vorders, vsteps, vsnaps, vsnapped, orderQ, snapQ>>

DeliverSnapshot ==
    /\ snapQ # <<>>
    /\ BM!SnapshotMessage(Head(snapQ))
    /\ snapQ' = Tail(snapQ)
    /\ UNCHANGED <<vorders, vsteps, vsnaps, vsnapped, orderQ, tradeQ>>

Engine == DeliverOrder \/ DeliverTrade \/ DeliverSnapshot

\* The ADD at the head of the order feed, handed to the engine now, would
\* spin in matchPendingLiqAdd and never return.
(***************************************************************************)
(* Publication order.  Within a venue step the ADD goes before the prints  *)
(* of its fills; steps are ordered by `at'.  A delivery is in order when   *)
(* the message it takes ranks no later than the head of any other feed.    *)
(***************************************************************************)
OrderRank == 2 * Head(orderQ).at
TradeRank == 2 * Head(tradeQ).at + 1
SnapRank == 2 * Head(snapQ)[3]

HeadRanks ==
    {r \in {IF orderQ # <<>> THEN OrderRank ELSE -1,
            IF tradeQ # <<>> THEN TradeRank ELSE -1,
            IF snapQ # <<>> THEN SnapRank ELSE -1} : r >= 0}

InOrder(r) == \A h \in HeadRanks : r <= h

HeadSpins(q, b) ==
    /\ q # <<>>
    /\ Head(q).type = "ADD"
    /\ BM!OB!ProcessOrderAddMessage(b, Head(q).id, Head(q).is_sell,
                                    Head(q).quantity, Head(q).price).hangs

Init ==
    /\ BM!Init
    /\ vorders = <<>> /\ vsteps = 0 /\ vsnaps = 0 /\ vsnapped = FALSE
    /\ orderQ = <<>> /\ tradeQ = <<>> /\ snapQ = <<>>
    /\ headSpins = FALSE
    /\ sequential = TRUE

\* headSpins and sequential are observers, set by every step from the
\* states it joins.  Only DeliverX pops feed X.
Next ==
    /\ Venue \/ Engine
    /\ headSpins' = HeadSpins(orderQ', book')
    /\ sequential' =
          /\ sequential
          /\ orderQ # <<>> /\ orderQ' = Tail(orderQ) => InOrder(OrderRank)
          /\ tradeQ # <<>> /\ tradeQ' = Tail(tradeQ) => InOrder(TradeRank)
          /\ snapQ # <<>> /\ snapQ' = Tail(snapQ) => InOrder(SnapRank)

(***************************************************************************)
(* Fairness.  The caller keeps handing received messages to the engine:    *)
(* weak fairness on taking the head of each feed.  The venue owes nothing: *)
(* it may fall quiet at any time.  Only DeliverX pops feed X, so weak      *)
(* fairness of "feed X loses its head" (the feed as subscript) is weak     *)
(* fairness of DeliverX.  A trade or snapshot handler always returns; an   *)
(* order handler unless its ADD spins in matchPendingLiqAdd (headSpins),   *)
(* when DeliverOrder has no step.                                          *)
(***************************************************************************)
Pop(q) == q # <<>> /\ q' = Tail(q)

Spec ==
    /\ Init /\ [][Next]_vars
    /\ WF_orderQ(~headSpins /\ Pop(orderQ))
    /\ WF_tradeQ(Pop(tradeQ))
    /\ WF_snapQ(Pop(snapQ))

-----------------------------------------------------------------------------
Drained == orderQ = <<>> /\ tradeQ = <<>> /\ snapQ = <<>>

EngineL2 == BM!OB!GetL2Book(book)

\* The purpose of the engine (spec section 1, and snapshots as the
\* authoritative depth of the glossary): once the engine has processed
\* everything the three feeds carried, in whatever interleaving they
\* arrived, and the venue's last act was a snapshot of its book, the
\* engine's L2 projection is the venue's book.
ConvergedWhenDrained ==
    Drained /\ vsnapped => EngineL2 = [s \in BOOLEAN |-> VenueL2(s)]

\* Without the snapshot feed: once the engine has processed every order
\* message and trade print the venue published, its L2 projection is the
\* venue's book.
OrderTradeFeedsConverge ==
    Drained => EngineL2 = [s \in BOOLEAN |-> VenueL2(s)]

\* Every message the venue publishes is eventually processed: no handler
\* leaves the engine stuck (matchPendingLiqAdd spinning), so the feeds end
\* up drained once the venue falls quiet.
EngineDrainsFeeds == <>[]Drained

\* Where the feeds do not overtake one another: if the engine has taken
\* every message in the order the venue published it, then once the feeds
\* are drained its L2 projection is the venue's book.  Uncrossing by the
\* engine, the pending removals it leaves for the prints, the prints' fill
\* of the FIFO (processTrade) and a snapshot that reflects all of it must
\* agree step for step with the venue's matching.
SequentialDeliveryConverges ==
    Drained /\ sequential => EngineL2 = [s \in BOOLEAN |-> VenueL2(s)]
=============================================================================
