# TLA+ model of the order-book reconciliation engine

The repository (`src/src`) rebuilds a full-depth (L3) order book from three
venue feeds that may arrive in any relative order: order messages
(ADD / CANCEL / MODIFY), trade prints, and aggregated L2 snapshots. It
reconciles what it infers from one feed with what the others later confirm,
and emits a stream of `OrderInfo` events (ADD, CANCEL, MODIF, EXEC).
The engine is single threaded: every inbound message is handled to
completion before the next one. The only concurrency is therefore the
interleaving of the three feeds, and each message handler is one atomic step
of the model.

## Parts of the system and how they interact

| Part | Source | Module | Status |
|---|---|---|---|
| Order | `include/order.h`, `order.cpp` | `Level` | modelled |
| Price level (L3 FIFO, L2 projection) | `include/level.h`, `level.cpp` | `Level` | modelled |
| Book side (levels, order map, pending maps, L2 snapshot queue) | `include/book_side.h`, `book_side.cpp` | `BookSide` | modelled |
| SmartOrderBook (routing, cross-side uncrossing, modify) | `include/order_book.h`, `order_book.cpp` | `OrderBook` | modelled |
| BookManager (message dispatch, event buffer, flush) | `include/book_manager.h`, `book_manager.cpp` | `BookManager`, `MC_BookManager` | modelled |
| L2Book container | `include/l2_book.h`, `l2_book.cpp` | `L2Book`, `MC_L2Book`; `OrderBook` (`GetL2Book`) | modelled |
| Messages, trades, `OrderInfo`, comparators | `include/message.h`, `trade.h`, `common.h` | `BookManager`, `BookSide` | modelled |
| Venue and its three feeds (environment, not code) | spec section 1 | `MarketFeeds`, `MC_MarketFeeds` | modelled from the spec |
| Printing (`operator<<`) | several | none | not modelled (pure output) |
| Unit tests | `src/tests` | none | read for intended behaviour |

`BookManager` owns a `SmartOrderBook` and an event buffer. It forwards each
message to the book and appends the returned events. The book holds two
`BookSide`s, one per side (bid and ask). An ADD first consumes the side's
*pending-add* quantity, which trades printed before the order arrived
created. It then uncrosses against the opposite side, recording
*pending-remove* quantity for the trades it expects. Finally it rests the
remainder. A CANCEL is absorbed first by pending-remove quantity at its price. A
trade is applied to both sides. Each side cancels the orders priced through the
trade, fills the FIFO at the trade price, and records any unexplained quantity
as pending-add with a synthetic ADD/EXEC pair. Every fill or removal pushes an
L2 projection of the side onto `l2_snap_queue_`. A snapshot side equal to the
queue front only pops it. A snapshot that arrives while the queue is empty
"leads" the order feed and is reconciled by synthesising orders (fake ids from
100) and removals (the first 30% EXEC, the rest CANCEL). Any other snapshot is
dropped as corrupted.

## Modules

* **`Level`**: a level is the record `[price, quantity, num_orders, orders]`.
  Here `orders` is the FIFO of `[odid, quantity, filled]`. `quantity` and
  `num_orders` are stored and updated incrementally, as in `level.cpp`, and are
  not recomputed. Operators: `AddOrder`, `RemoveOrder`, `ModifyOrder`,
  `FillOrder`, `L2Level`.
* **`BookSide`**: a side is `[is_sell, levels, pending_remove, pending_add,
  snap_queue]`. `levels` is a function from prices to levels, and the two
  pending maps are functions from prices to quantities. Each method is an
  operator from a side to `[side, events, ...]`. Loops over the FIFO or the
  map are `RECURSIVE` operators that follow the code's loop structure,
  including where `saveL2SnapshoSide` is called inside them
  (`CrossFill`, `TradeFill`, `CancelThrough`, `StageFront`, `MatchAddLoop`).
  `MatchAddLoop` keeps the code's `erase(price)`. It reports `hangs` when an
  iteration makes no progress, which is the non-terminating loop of
  `matchPendingLiqAdd`.
* **`OrderBook`**: the book is a function from `BOOLEAN` (is_sell) to
  sides. Each `process*Message` is one operator that performs the whole
  handler, with its early returns. Modify emits only MODIF and discards the
  events of the inner cancel and add, as the code does.
* **`BookManager`**: `VARIABLES book, events`. There is one action per
  message kind (`AddOrderMessage`, `CancelOrderMessage`, `ModifyOrderMessage`,
  `TradeMessage`, `SnapshotMessage`) plus `FlushEvents`. Inputs are chosen
  with `\E` from the constants `OrderIds`, `Prices`, `Quantities` and from
  `Snapshots`, the set of uncrossed, sorted snapshot pairs. An add or modify
  whose handler would not return has no successor. `MarketFeeds` shows that
  this happens (`add_spins_under_venue_feeds`).
* **`MC_BookManager`**: the model-checking instance. Ids `{1,2}`, prices
  `1..3`, quantities `{1,2}`; snapshots have at most `MaxSnapshotLevels`
  levels per side. `StateBounds` caps the event buffer (`MaxBufferedEvents`),
  the snapshot queue (`MaxQueuedSnapshots`), and the sum of pending
  quantities per side (`MaxPendingQty`). `BookView == book` identifies states
  that differ only in buffered events, which none of the invariants read.

* **`L2Book`**: `VARIABLES bidBook, askBook, call`. Each side is a function
  from prices to `[price, quantity]`. There is one action per method:
  `AddLevel` (an existing level is left alone, which is the `cerr` path),
  `UpdateLevel`, `RemoveLevel`, `CheckLevel` (existLevel) and `ReadLevel`
  (getL2Level). `ReadLevel` goes through `GetL2Level`, the inserting
  `operator[]`, and is guarded by `existLevel` as `l2_book.h` requires.
  `call` records the last call and its result.
* **`MarketFeeds`**: the engine (`BM == INSTANCE BookManager`) composed
  with a venue modelled from the spec. The venue keeps its true resting orders
  (`vorders`, in time order). It matches an incoming order by price-time
  priority (`VenueMatch`). It then appends the order's ADD (full quantity) to
  `orderQ` and one print per fill, at the resting price, to `tradeQ`. It may
  cancel a resting order (a CANCEL of its remaining quantity) or append an L2
  snapshot of its book to `snapQ`. `DeliverOrder`, `DeliverTrade` and
  `DeliverSnapshot` hand the head of a feed to the matching
  `BookManager::process*Message`. Each feed is FIFO, and the three interleave
  freely. `Aggressors` switches crossing orders on or off. `MaxVenueSteps` and
  `MaxVenueSnapshots` bound the venue. Each published message carries `at`,
  the venue step that published it. Only the observer variable `sequential`
  reads it; the handlers see the fields of the C++ message structs alone.
  `sequential` stays TRUE while every delivery takes the oldest published
  message: within a step the ADD goes before the prints of its fills
  (`OrderRank`, `TradeRank`, `SnapRank`, `InOrder`).

## Runs

Passing runs. Together they fire every action and every disjunct.

* `book_orders_trades`: the order and trade feeds only (`SpecOrdersTrades`).
  Bounds: buffer 4, queue 1, pending 2. Checks four invariants:
  * `TypeOK`.
  * `LevelAggregatesConsistent`: each level's stored quantity and order count
    equal its FIFO.
  * `BookWellFormed`: no level is empty, every resting order has remaining
    quantity > 0, and an id rests at most once on each side. The model keeps
    no separate id map; `order_map_` is derived from the FIFOs.
  * `Uncrossed`: best bid < best ask.

  About 28k distinct views. Without the snapshot feed the projection queues
  never pop, so the queue cap of 1 stops each branch at the second saved
  projection on a side (see Bounds).
* `book_with_snapshots`: all three feeds, snapshots of at most one level per
  side. Bounds: buffer 4, queue 1, pending 1. Checks `LevelAggregatesConsistent`
  and `BookWellFormed`, now also through reconciliation and attribution.
  About 49k distinct states.
  `Uncrossed` is not part of it because it does not hold with snapshots (see
  below).
* `l2book_calls`: every sequence of `L2Book` calls over 3 prices and 2
  quantities. Checks `TypeOK`: every level is the `L2PriceLevel` of its own
  price, with a quantity that a caller gave it.
* `aggressor_feeds_drain`: the venue with crossing orders at one price,
  quantities 1 and 2, 5 venue steps and 1 snapshot. About 2.4M distinct states
  in about two minutes. Checks two things:
  * `EngineDrainsFeeds` (`<>[]Drained`), under the fairness below.
  * `SequentialDeliveryConverges`: if every message was delivered in
    publication order, the drained engine's L2 view is the venue's book. This
    covers the engine uncrossing an aggressor itself, the pending removals
    that must then absorb the venue's prints on both sides, FIFO fills by
    prints, cancels of partly filled orders, and an in-order snapshot. The
    violation runs below show that the property fails as soon as a feed
    overtakes another (`synthetic_order_outlives_cancel`). It also fails with
    a second price tick even in order (`trade_cancels_aggressor_remainder`).
    A mutant that drops `addPendingLiqRemoveQty` breaks it.

Violation runs. Each checks one property that the spec states, and each
documents a finding in `PROJECT.json`:

* `zero_level_projection_queued` (`QueuedProjectionsObservable`): uncrossing
  saves the projection right after the fill, before the exhausted order is
  removed, so a level with quantity 0 is queued. No venue snapshot equals it,
  and every later snapshot on that side is dropped.
* `last_projection_not_confirmed` (`SnapshotOfLastProjectionConfirms`, spec
  S6, an action property). Bid 1@1 rests. A print 1@1 queues the projection
  `[(1,0)]` and then `[]` on the bid side. A snapshot with an empty bid side
  equals the last projection, but `processL2Snapshot` compares it only with
  the front, `[(1,0)]`, and drops it. Nothing is popped, so the queue only
  grows while the venue shows what the engine predicted last.
* `snapshot_crosses_book` (`Uncrossed`, spec P3): with a stale projection on
  the bid queue, a snapshot's bid half is dropped while its ask half leads and
  inserts ask liquidity at the bid price.
* `events_explain_book` (`EventsExplainBook`, spec P4 and I5): a duplicate ADD
  emits ADD but changes nothing, so replaying the events does not give the book.
* `modify_absorbed_by_pending_remove` (`ModifyTakesEffect`, an action
  property). Ask 1@1 rests. Bid id 1 2@2 uncrosses it, which leaves bid
  `pending_remove[1] = 1`. A MODIFY of the bid to price 1 cancels at the new
  price, and the pending removal absorbs that cancel. The order stays at 2.
* `add_spins_under_venue_feeds` (`EngineDrainsFeeds`). At the venue, ask 1@1
  rests and bid 2@2 takes it and rests 1@2. The print reaches the engine
  before the bid's ADD and leaves a pending add at 1. `matchPendingLiqAdd`
  erases key 2, not key 1, so the ADD 2@2 never returns and the order feed
  never drains.
* `synthetic_order_outlives_cancel` (`ConvergedWhenDrained`). The venue adds
  id 1, cancels it, adds id 2 and snapshots. The snapshot reaches the engine
  first and creates a synthetic order with a pending add. The ADD of id 1 is
  absorbed. The CANCEL of id 1 finds nothing. The ADD of id 2 is added on top.
  The engine then shows twice the venue's depth.
* `trade_cancels_aggressor_remainder` (`OrderTradeFeedsConverge`). The
  engine uncrosses bid 2@2 against ask 1@1 itself. The print 1@1 is absorbed
  by `pending_remove`, but step 1 of `processTrade` still runs on the bid side
  and cancels the bid's remainder at 2.

Each property of a passing run has a mutant in `PROJECT.json`: a one-line
change of a mapped operator (a dropped guard, a wrong quantity, a `>` for
`>=`, a missing `break`) that TLC then finds violating the property under the
same cfg.

Not every violation has a run, because the project keeps at most twelve.
Three of them are recorded only as hazards. First, the fake id restarts at 100
on every snapshot, so the synthetic order of a second leading snapshot is
ignored by `addOrder`. The ADD is still emitted and the pending add still
grows. `EventsExplainBook` catches this too: TLC finds it from two snapshots
when duplicate real ADDs are excluded. Second, a leading snapshot's pending adds at two bid
prices block an ADD at the worse price, because the walk starts at the best
key. This violates `ConvergedWhenDrained` with two prices. Third, a print
that overtakes the CANCEL of an order ahead in the FIFO fills the wrong
order, because prints carry no order id. This violates
`OrderTradeFeedsConverge` even at one price.

## Bounds

Two ids are enough for duplicates, FIFO priority inside a level and
cancels of other orders. Three prices give a level on each side with one
between them, so crossing, trading through a level and a level absent from a
snapshot all occur. Two quantities give partial fills. Every violation above
is found within these bounds in at most 5 messages.

The caps thin the passing `BookManager` runs more than a cap usually does.
States beyond a cap are checked but not extended.

* **Queue cap in `book_orders_trades`.** That run has no snapshot feed, so
  the projection queues only grow. A queue cap of 1 therefore stops a branch
  once one side has saved two projections. That is after about two trades or
  uncrossings on that side.
* **`BookView` merges states.** It leaves out the event buffer, so states
  that differ only in buffered events count as one. A book first reached with
  a buffer beyond the cap is then not extended, even though a flush would have
  let it continue.

Dropping the queues from the view, or raising the caps, either runs out of
the time budget or makes TLC fail when it spills the state queue to disk.

Every handler, early return and loop iteration is still reached. The
invariants of these two runs are nevertheless checked over the books reached
within a few messages, not over every reachable book. The deep multi-message
cases are the ones the violation runs and `MarketFeeds` reach.

For `MarketFeeds`, three ids let the venue add, cancel and add again. Two
quantities give an aggressor that fills partly and rests. Four venue steps
hold two resting orders, an aggressor and a snapshot. The passing run takes
five, so that a cancel or a second aggressor can follow. The passing liveness run
uses one price because the ADD spin needs two (see
`add_spins_under_venue_feeds`). `L2Book` uses 3 prices and 2 quantities,
which is enough for every method on a present and an absent level of each
side.

## Fairness

Only `MarketFeeds` states liveness. The code does not drive itself: the
caller hands it each received message (spec section 5, single-threaded
cooperative). The assumption is therefore weak fairness on taking the head of
each feed: `WF_orderQ(~headSpins /\ Pop(orderQ))`, `WF_tradeQ(Pop(tradeQ))`
and `WF_snapQ(Pop(snapQ))`. Only `DeliverX` pops feed X, so each is weak
fairness of `DeliverX`. A trade or snapshot handler always returns. An order
handler returns unless its ADD spins in `matchPendingLiqAdd`. The observer
variable `headSpins` records that case: every step sets it from the state it
reaches (`HeadSpins`). A spinning ADD has no step, so fairness cannot demand
one. `headSpins` is a function of the other variables, so it adds no states,
and ENABLED stays a cheap state test. The venue gets no
fairness: it may fall quiet at any time, and that is why
`CHECK_DEADLOCK FALSE` is set there.

## Not modelled

* Printing, and the `on*` callbacks, which `book_manager.h` declares but the
  repository never defines.
* Convergence in general: without order ids on prints, and with snapshots
  that lag the order feed, the engine is not expected to reach the venue's
  book in every interleaving. The convergence properties are kept as
  violation runs for the concrete mechanisms above.
* The `assert`s on side routing. The model routes by `is_sell`, so they hold.

## Plan for later work

1. Convergence under in-order delivery at two or more price ticks: it fails
   today (`trade_cancels_aggressor_remainder`). A fix of `processTrade` step 1
   could be checked against `SequentialDeliveryConverges` on `MCPrices`.
2. Modify under the venue model (the venue does not send MODIFY yet).
3. A liveness statement about the L2 snapshot queue under the venue model.
   `last_projection_not_confirmed` already shows that it can grow while the
   venue agrees with the engine.
4. A refinement worth checking. The earlier depth-book abstraction of
   `L2Book` copied the container's guards, so it held by construction and
   was dropped. An abstraction of the engine's L2 projection that is
   independent of its bookkeeping would be a real one.
