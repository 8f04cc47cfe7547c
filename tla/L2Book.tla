------------------------------- MODULE L2Book -------------------------------
(***************************************************************************)
(* L2Book, src/src/l2_book.cpp: two ordered maps from price to             *)
(* L2PriceLevel {price, quantity}, one per side.  Each method is one step; *)
(* the maps' ordering only matters to printing, so a side is a function    *)
(* from prices to level records.                                           *)
(***************************************************************************)
EXTENDS Integers, Functions, TLC

CONSTANTS Prices, Quantities

VARIABLES
    bidBook,   \* bidBook_
    askBook,   \* askBook_
    call       \* the last call made on the book and its result

book == <<bidBook, askBook>>
vars == <<bidBook, askBook, call>>

\* The map is_sell selects, and the step that gives it a new value.
SideBook(isSell) == IF isSell THEN askBook ELSE bidBook

SetSideBook(isSell, m) ==
    IF isSell THEN askBook' = m /\ UNCHANGED bidBook
              ELSE bidBook' = m /\ UNCHANGED askBook

\* L2PriceLevel(): the default-constructed level.
DefaultLevel == [price |-> 0, quantity |-> 0]

\* L2Book() = default: both maps empty.
Init ==
    /\ bidBook = [p \in {} |-> DefaultLevel]
    /\ askBook = [p \in {} |-> DefaultLevel]
    /\ call = [op |-> "none"]

Called(op, isSell, p, q) ==
    call' = [op |-> op, side |-> isSell, price |-> p, quantity |-> q]

ExistLevel(isSell, p) == p \in DOMAIN SideBook(isSell)

\* getL2Level: book[price] through operator[], which inserts a
\* default-constructed level when none is at the price.  Returns the level
\* and the map after the lookup.
GetL2Level(m, p) ==
    LET m2 == IF p \in DOMAIN m THEN m ELSE (p :> DefaultLevel) @@ m
    IN [level |-> m2[p], map |-> m2]

\* Mutant of AddLevel: the new level keeps the price of the default
\* constructor.
AddLevelDefaultPrice(isSell, p, q) ==
    /\ Called("addLevel", isSell, p, q)
    /\ \/ ExistLevel(isSell, p) /\ UNCHANGED book
       \/ /\ ~ExistLevel(isSell, p)
          /\ SetSideBook(isSell, (p :> [DefaultLevel EXCEPT !.quantity = q]) @@ SideBook(isSell))

\* addLevel: an existing level is reported on std::cerr and left alone.
AddLevel(isSell, p, q) ==
    /\ Called("addLevel", isSell, p, q)
    /\ \/ ExistLevel(isSell, p) /\ UNCHANGED book
       \/ /\ ~ExistLevel(isSell, p)
          /\ SetSideBook(isSell, (p :> [price |-> p, quantity |-> q]) @@ SideBook(isSell))

\* updateLevel: only a level that exists is changed.
UpdateLevel(isSell, p, q) ==
    /\ Called("updateLevel", isSell, p, q)
    /\ \/ ~ExistLevel(isSell, p) /\ UNCHANGED book
       \/ /\ ExistLevel(isSell, p)
          /\ SetSideBook(isSell, [SideBook(isSell) EXCEPT ![p] = [price |-> p, quantity |-> q]])

\* removeLevel: only a level that exists is erased.
RemoveLevel(isSell, p) ==
    /\ Called("removeLevel", isSell, p, 0)
    /\ \/ ~ExistLevel(isSell, p) /\ UNCHANGED book
       \/ /\ ExistLevel(isSell, p)
          /\ SetSideBook(isSell, Restrict(SideBook(isSell), DOMAIN SideBook(isSell) \ {p}))

\* A call of existLevel: the quantity field reports 1 for a level, 0 for none.
CheckLevel(isSell, p) ==
    /\ Called("existLevel", isSell, p, IF ExistLevel(isSell, p) THEN 1 ELSE 0)
    /\ UNCHANGED book

\* A call of getL2Level, which l2_book.h obliges the caller to make only
\* after existLevel (as the test of getL2Level does).
ReadLevel(isSell, p) ==
    LET r == GetL2Level(SideBook(isSell), p)
    IN /\ ExistLevel(isSell, p)
       /\ Called("getL2Level", isSell, p, r.level.quantity)
       /\ SetSideBook(isSell, r.map)

Next ==
    \E isSell \in BOOLEAN, p \in Prices :
        \/ RemoveLevel(isSell, p) \/ CheckLevel(isSell, p) \/ ReadLevel(isSell, p)
        \/ \E q \in Quantities : AddLevel(isSell, p, q) \/ UpdateLevel(isSell, p, q)

Spec == Init /\ [][Next]_vars

-----------------------------------------------------------------------------
\* Every level is the L2PriceLevel of its own price, with a quantity a
\* caller gave it: addLevel and updateLevel write {price, quantity}, and the
\* lookup of getL2Level never leaves a default {0, 0} level behind.
TypeOK ==
    \A s \in BOOLEAN :
        /\ DOMAIN SideBook(s) \subseteq Prices
        /\ \A p \in DOMAIN SideBook(s) :
              SideBook(s)[p] \in [price : {p}, quantity : Quantities]

=============================================================================
