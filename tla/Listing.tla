------------------------------ MODULE Listing ------------------------------
(***************************************************************************)
(* The lists of the administration web: operations.service.ts answers a    *)
(* page behind a cursor, resource-screen.tsx walks them with Next and      *)
(* Previous, while rows are inserted and change.  A row is kept as its id, *)
(* the instant it is ordered by, and whether it matches the filter on the  *)
(* screen.  The cursor carries the instant as a JavaScript date, to the    *)
(* millisecond; the columns hold microseconds.                             *)
(***************************************************************************)
EXTENDS Integers, Sequences, FiniteSets, SequencesExt

CONSTANTS Lists,        \* the lists looked at, a subset of DOMAIN ListKinds
          Ids,          \* row ids: random, so any order of insertion
          MaxAt,        \* the latest instant, in ticks
          Ticks,        \* ticks of the database's clock in a millisecond
          Limit,        \* rows of a page (25)
          MaxPages      \* bound on how far a walk goes

ASSUME IdsOrdered == Ids \subseteq Int /\ IsFiniteSet(Ids)
ASSUME SizesPositive == MaxAt \in Nat /\ Ticks \in Nat \ {0} /\ Limit \in Nat \ {0}

VARIABLES list, table, page, walk, stayed

listVars == <<list, table, page, walk, stayed>>

NoCursor == [none |-> TRUE]

(* How a list treats a search term: as a further conjunct of the query     *)
(* ("and"), as an OR that takes the place of the cursor's in the spread    *)
(* object ("or"), or not at all ("none"); whether a status narrows it; and *)
(* whose clock stamps its rows: Prisma fills a default of now() in whole   *)
(* milliseconds, the worker's raw SQL leaves it to the database.           *)
Kind(search, status, clock) == [search |-> search, status |-> status, clock |-> clock]

PeopleLists ==
    [users |-> Kind("or", TRUE, "app"), family |-> Kind("and", TRUE, "app"),
     guards |-> Kind("or", TRUE, "app"), devices |-> Kind("none", TRUE, "app")]

VisitorLists ==
    [visits |-> Kind("or", TRUE, "app"), approvals |-> Kind("none", TRUE, "app"),
     preApprovals |-> Kind("none", TRUE, "app"), overrides |-> Kind("none", FALSE, "app"),
     events |-> Kind("none", FALSE, "database")]

DeliveryLists ==
    [dailyHelp |-> Kind("and", TRUE, "app"), assignments |-> Kind("none", TRUE, "app"),
     attendance |-> Kind("none", TRUE, "app"), parcels |-> Kind("or", TRUE, "app")]

CommunicationLists ==
    [notices |-> Kind("or", TRUE, "app"), acknowledgements |-> Kind("none", FALSE, "app"),
     complaints |-> Kind("and", TRUE, "app")]

MoneyLists ==
    [batches |-> Kind("none", TRUE, "app"), charges |-> Kind("none", TRUE, "app"),
     payments |-> Kind("and", TRUE, "app"), allocations |-> Kind("none", FALSE, "app"),
     receipts |-> Kind("none", TRUE, "app"), reversals |-> Kind("none", FALSE, "app")]

AdministrationLists ==
    [emergencies |-> Kind("none", TRUE, "app"), roles |-> Kind("or", TRUE, "app"),
     permissions |-> Kind("and", FALSE, "app"), audit |-> Kind("or", TRUE, "app"),
     deliveries |-> Kind("none", TRUE, "app")]

\* The list of memberships has a service of its own, and no search.
MembershipList == [memberships |-> Kind("none", FALSE, "app")]

ListKinds == PeopleLists @@ VisitorLists @@ DeliveryLists @@ CommunicationLists @@ MoneyLists
             @@ AdministrationLists @@ MembershipList

\* The instants the rows of the list can carry.
Instants == {t \in 0 .. MaxAt : ListKinds[list].clock = "app" => t % Ticks = 0}

Row(id, at, match) == [id |-> id, at |-> at, match |-> match]
IdsOf(rows) == {r.id : r \in rows}

-----------------------------------------------------------------------------
(* The query *)

\* orderBy: the instant, then the id, both descending.
Before(r, s) == r.at > s.at \/ (r.at = s.at /\ r.id > s.id)

\* Mutant: rows of the cursor's own instant are taken to have been shown.
BehindInstant(r, cursor) == cursor = NoCursor \/ r.at < cursor.at * Ticks

\* cursor, timeCursor: rows strictly behind the cursor, whose instant is in milliseconds.
BehindCursor(r, cursor) ==
    \/ cursor = NoCursor
    \/ r.at < cursor.at * Ticks
    \/ r.at = cursor.at * Ticks /\ r.id < cursor.id

SearchReplacesCursor(filter) == filter = "search" /\ ListKinds[list].search = "or"

Narrows(filter) ==
    \/ filter = "search" /\ ListKinds[list].search # "none"
    \/ filter = "status" /\ ListKinds[list].status

Matching(filter) == {r \in table : Narrows(filter) => r.match}

Answers(filter, cursor) ==
    {r \in Matching(filter) : SearchReplacesCursor(filter) \/ BehindCursor(r, cursor)}

\* take: the first rows of the page; the row that shows there are more is not sent.
PageOf(filter, cursor) ==
    LET answers == Answers(filter, cursor)
    IN {r \in answers : Cardinality({s \in answers : Before(s, r)}) < Limit}

LastOf(items) == CHOOSE r \in items : \A s \in items : s = r \/ Before(s, r)

\* pageResult, timestampPage: the last row of any page that is not empty, more rows or not.
CursorAfter(items) ==
    IF items = {} THEN NoCursor
    ELSE [at |-> LastOf(items).at \div Ticks, id |-> LastOf(items).id]

-----------------------------------------------------------------------------
(* The screen *)

Show(filter, cursor, history) ==
    page' = [filter |-> filter, cursor |-> cursor, history |-> history,
               items |-> PageOf(filter, cursor)]

ListInit ==
    /\ list \in Lists
    /\ \E ids \in SUBSET Ids : \E at \in [ids -> Instants], match \in [ids -> BOOLEAN] :
          table = {Row(i, at[i], match[i]) : i \in ids}
    /\ page = [filter |-> "none", cursor |-> NoCursor, history |-> <<>>,
                 items |-> PageOf("none", NoCursor)]
    /\ walk = <<page.items>>
    /\ stayed = IdsOf(table)

\* submitSearch, clearFilters and the status selector: back to the first page.
Filter(filter) ==
    /\ filter # page.filter
    /\ Show(filter, NoCursor, <<>>)
    /\ walk' = <<page'.items>>
    /\ stayed' = IdsOf(Matching(filter))
    /\ UNCHANGED <<list, table>>

\* The buttons stand under a table: an empty page has neither.
NextPage ==
    /\ page.items # {}
    /\ Len(walk) < MaxPages
    /\ Show(page.filter, CursorAfter(page.items), Append(page.history, page.cursor))
    /\ walk' = Append(walk, page'.items)
    /\ UNCHANGED <<list, table, stayed>>

PreviousPage ==
    /\ page.items # {}
    /\ page.history # <<>>
    /\ Show(page.filter, Last(page.history), Front(page.history))
    /\ walk' = Append(SubSeq(walk, 1, Len(walk) - 2), page'.items)
    /\ UNCHANGED <<list, table, stayed>>

\* The refresh button, and the invalidation after a mutation succeeded.
Refetch ==
    /\ Show(page.filter, page.cursor, page.history)
    /\ walk' = Append(Front(walk), page'.items)
    /\ UNCHANGED <<list, table, stayed>>

-----------------------------------------------------------------------------
(* The rows meanwhile *)

\* Another request commits a row; its instant is that of its transaction's statement, so it
\* may be earlier than rows already shown.
Insert ==
    /\ \E id \in Ids \ IdsOf(table), at \in Instants, match \in BOOLEAN :
          table' = table \cup {Row(id, at, match)}
    /\ UNCHANGED <<list, page, walk, stayed>>

\* A row changes so that it starts or stops to match; nothing deletes a row.
Change ==
    /\ \E r \in table :
          /\ table' = (table \ {r}) \cup {[r EXCEPT !.match = ~@]}
          /\ stayed' = IF Narrows(page.filter) THEN stayed \ {r.id} ELSE stayed
    /\ UNCHANGED <<list, page, walk>>

ListNext ==
    \/ \E filter \in {"none", "search", "status"} : Filter(filter)
    \/ NextPage \/ PreviousPage \/ Refetch \/ Insert \/ Change

ListSpec == ListInit /\ [][ListNext]_listVars

-----------------------------------------------------------------------------
(* A walk with Next from the first page to the end shows every row that    *)
(* matched all the while exactly once, whatever was inserted or changed    *)
(* meanwhile and however often a page was read again.                      *)
WalkComplete ==
    page.items = {} =>
        \A id \in stayed : Cardinality({i \in DOMAIN walk : id \in IdsOf(walk[i])}) = 1

\* Searching where the search replaces the cursor, and rows stamped by the database's
\* clock, are left out: there it fails.
RegularWalkComplete ==
    ListKinds[list].clock = "app" /\ ~SearchReplacesCursor(page.filter) => WalkComplete

\* No page shows a row an earlier one of the walk showed: a search moves on when Next is pressed.
PagesDiffer ==
    \A i, j \in DOMAIN walk : i # j => IdsOf(walk[i]) \cap IdsOf(walk[j]) \cap stayed = {}

\* Where Next leads there is a page to show (and a way back).
NextLeadsOn == page.items = {} => page.history = <<>>
=============================================================================
