---------------------------- MODULE MC_BookManager ----------------------------
(***************************************************************************)
(* Model-checking instance of BookManager: a price grid of three ticks,    *)
(* two order ids, quantities 1 and 2, and named bounds on the unbounded    *)
(* parts of the state, given per run in the .cfg.                          *)
(***************************************************************************)
EXTENDS BookManager

CONSTANTS
    MaxBufferedEvents,   \* events_ longer than this are not extended
    MaxQueuedSnapshots,  \* l2_snap_queue_ longer than this is not extended
    MaxPendingQty,       \* bound on a side's total pending quantity
    MaxSnapshotLevels    \* levels a side of a snapshot message lists

MCOrderIds == {1, 2}
MCPrices == 1..3
MCQuantities == {1, 2}

\* Snapshot messages with at most MaxSnapshotLevels levels a side.
MCSnapshots ==
    {sn \in SnapshotSides(FALSE) \X SnapshotSides(TRUE) :
        /\ Len(sn[1]) <= MaxSnapshotLevels /\ Len(sn[2]) <= MaxSnapshotLevels
        /\ sn[1] # <<>> /\ sn[2] # <<>> => sn[1][1].price < sn[2][1].price}

\* States beyond the bounds are checked but not extended.
StateBounds ==
    /\ Len(events) <= MaxBufferedEvents
    /\ \A s \in Sides :
        /\ Len(book[s].snap_queue) <= MaxQueuedSnapshots
        /\ FoldFunction(+, 0, book[s].pending_add)
             + FoldFunction(+, 0, book[s].pending_remove) <= MaxPendingQty

\* The event buffer never influences the book (flushEvents only clears it):
\* runs whose properties do not read it fingerprint states by the book.
BookView == book

=============================================================================
