------------------------------ MODULE Listings ------------------------------
(***************************************************************************)
(* The lists that are read page by page: users, deposit tickets, offer     *)
(* events and their purchases, the shop.  Each request reads the rows of   *)
(* its page, by offset, and the number of all rows, with two queries that  *)
(* run at once and share no transaction.  A reader who walks through the   *)
(* pages goes on while the number it was told promises more, and waits     *)
(* for each answer (AdminPages has the answers that cross).  Rows come and *)
(* go meanwhile.  Rows that were created at the same instant are not told  *)
(* apart by the order of the queries; here no two are.                     *)
(***************************************************************************)
EXTENDS Integers, FiniteSets

CONSTANTS
    ListRows,      \* ids, in the order of creation
    PageRows,      \* pageSize: 20 or 30 by the pages, 24 by the shop
    MaxListAsks    \* bound on what the reader and the rows do

ASSUME ListAssumption ==
    /\ IsFiniteSet(ListRows) /\ ListRows \subseteq Nat
    /\ PageRows \in Nat \ {0} /\ MaxListAsks \in Nat

\* newestFirst: the order; leaves: rows may leave the list; between: rows may
\* come between others (a ticket whose status enters the filter, a user who
\* logs in from an address that is searched for, a machine put on sale).
UsersList == [name |-> "users", newestFirst |-> TRUE, leaves |-> TRUE, between |-> TRUE]
TicketsList == [name |-> "tickets", newestFirst |-> TRUE, leaves |-> TRUE, between |-> TRUE]
EventsList == [name |-> "events", newestFirst |-> TRUE, leaves |-> TRUE, between |-> FALSE]
PurchasesList == [name |-> "purchases", newestFirst |-> TRUE, leaves |-> FALSE, between |-> FALSE]
ShopList == [name |-> "shop", newestFirst |-> FALSE, leaves |-> TRUE, between |-> TRUE]
Lists == {UsersList, TicketsList, EventsList, PurchasesList, ShopList}

VARIABLES
    list,
    listed,     \* rows of the list
    reading,    \* the page asked for last, and what its two queries have read
    promised,   \* the number of rows the screen tells
    reached,    \* history: the last page shown
    atStart,    \* history: the rows there were when the walk began
    seen,       \* history: the rows shown since
    upsets,     \* history: what happened during the walk
    repeated,   \* history: a page that was new showed a row again
    listAsks

walkVars == <<reading, promised, reached, seen, repeated>>
listVars == <<list, listed, atStart, upsets, listAsks, walkVars>>

Upsets == {"left", "came", "torn", "failed"}

\* pc: asked, then found or counted, answered when both queries are done.
Asking(page) == [page |-> page, pc |-> "asked", rows |-> {}, total |-> 0]

ListInit ==
    /\ list \in Lists
    /\ listed \in SUBSET ListRows
    /\ atStart = listed
    /\ reading = Asking(1) /\ promised = 0 /\ reached = 0
    /\ seen = {} /\ upsets = {} /\ repeated = FALSE
    /\ listAsks = 0

AskList == listAsks < MaxListAsks /\ listAsks' = listAsks + 1

-----------------------------------------------------------------------------
(* The handlers                                                             *)

Before(q, r) == IF list.newestFirst THEN q > r ELSE q < r
Rank(r) == Cardinality({q \in listed : Before(q, r)})

SkipOnePage(page) == page * PageRows

Skip(page) == (page - 1) * PageRows

PageOf(page) == {r \in listed : Skip(page) <= Rank(r) /\ Rank(r) < Skip(page) + PageRows}

FindMany ==
    /\ reading.pc \in {"asked", "counted"}
    /\ reading' = [reading EXCEPT !.rows = PageOf(reading.page),
                                  !.pc = IF reading.pc = "asked" THEN "found" ELSE "answered"]
    /\ UNCHANGED <<list, listed, promised, reached, atStart, seen, upsets, repeated, listAsks>>

Count ==
    /\ reading.pc \in {"asked", "found"}
    /\ reading' = [reading EXCEPT !.total = Cardinality(listed),
                                  !.pc = IF reading.pc = "asked" THEN "counted" ELSE "answered"]
    /\ UNCHANGED <<list, listed, promised, reached, atStart, seen, upsets, repeated, listAsks>>

-----------------------------------------------------------------------------
(* The reader                                                               *)

ShowPage ==
    /\ reading.pc = "answered"
    /\ reading' = [reading EXCEPT !.pc = "shown"]
    /\ promised' = reading.total
    /\ seen' = seen \cup reading.rows
    /\ reached' = IF reading.page > reached THEN reading.page ELSE reached
    /\ repeated' = (repeated \/ (reading.page > reached /\ reading.rows \cap seen # {}))
    /\ UNCHANGED <<list, listed, atStart, upsets, listAsks>>

\* The rows and their number stay; the page the reader is on has changed.
FailPage ==
    /\ reading.pc # "shown"
    /\ reading' = [reading EXCEPT !.pc = "shown"]
    /\ upsets' = upsets \cup {"failed"}
    /\ UNCHANGED <<list, listed, promised, reached, atStart, seen, repeated, listAsks>>

\* The button is disabled on the last page.
OffersNext == reading.page * PageRows < promised

NextPage ==
    /\ reading.pc = "shown" /\ OffersNext
    /\ AskList
    /\ reading' = Asking(reading.page + 1)
    /\ UNCHANGED <<list, listed, promised, reached, atStart, seen, upsets, repeated>>

PreviousPage ==
    /\ reading.pc = "shown" /\ reading.page # 1
    /\ AskList
    /\ reading' = Asking(reading.page - 1)
    /\ UNCHANGED <<list, listed, promised, reached, atStart, seen, upsets, repeated>>

\* The list is opened anew.
StartOver ==
    /\ AskList
    /\ reading' = Asking(1) /\ promised' = 0 /\ reached' = 0
    /\ atStart' = listed
    /\ seen' = {} /\ upsets' = {} /\ repeated' = FALSE
    /\ UNCHANGED <<list, listed>>

-----------------------------------------------------------------------------
(* The rows                                                                 *)

\* Torn: the number was read without the row, the page is read with it.
Come(r) ==
    /\ r \notin listed
    /\ list.between \/ \A q \in listed : q < r
    /\ AskList
    /\ listed' = listed \cup {r}
    /\ upsets' = upsets \cup {"came"} \cup (IF reading.pc = "counted" THEN {"torn"} ELSE {})
    /\ UNCHANGED <<list, atStart, walkVars>>

Leave(r) ==
    /\ r \in listed /\ list.leaves
    /\ AskList
    /\ listed' = listed \ {r}
    /\ upsets' = upsets \cup {"left"}
    /\ UNCHANGED <<list, atStart, walkVars>>

ListNext ==
    \/ FindMany \/ Count \/ ShowPage \/ FailPage \/ NextPage \/ PreviousPage \/ StartOver
    \/ \E r \in ListRows : Come(r) \/ Leave(r)

ListSpec == ListInit /\ [][ListNext]_listVars

-----------------------------------------------------------------------------
\* Pages, rows and what happened are what they should be.
ListTypeOK ==
    /\ list \in Lists /\ listed \subseteq ListRows
    /\ reading \in [page : Nat \ {0}, pc : {"asked", "found", "counted", "answered", "shown"},
                    rows : SUBSET ListRows, total : Nat]
    /\ promised \in Nat /\ reached \in Nat /\ listAsks \in Nat
    /\ atStart \subseteq ListRows /\ seen \subseteq ListRows
    /\ upsets \subseteq Upsets /\ repeated \in BOOLEAN

\* A reader who has come to the last page has been shown every row there was
\* at the start, whatever rows came meanwhile, unless a row left the list, a
\* page failed, or a row came between the two queries of a page.
WalkSeesAll ==
    reading.pc = "shown" /\ ~OffersNext /\ {"left", "torn", "failed"} \cap upsets = {} => atStart \subseteq seen

\* A page that was not shown before shows no row again, unless a row came.
RepeatsWhenRowsCome == repeated => "came" \in upsets

(* A walk through the pages of a list misses and repeats rows only when     *)
(* rows leave or come in the ways the parts name.                           *)
ListingSafe == ListTypeOK /\ WalkSeesAll /\ RepeatsWhenRowsCome
=============================================================================
