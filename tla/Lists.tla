------------------------------- MODULE Lists -------------------------------
(***************************************************************************)
(* The paged lists of the API: a client walks from page to page by offset  *)
(* while rows come, go and move.  A page is read in one statement and the  *)
(* total in the next one of the same batch, each with a snapshot of its    *)
(* own; the token of the next page says where the walk stands and which    *)
(* request it belongs to.                                                  *)
(*                                                                         *)
(* One client walks at a time, and follows each token once.                *)
(***************************************************************************)
EXTENDS Integers, FiniteSets, SequencesExt

CONSTANTS
  Listings,        \* the list methods that are called, see ListMethods
  RowIds,          \* rows there can be, by id
  Names,           \* what rows are named and filters select by
  PageSizes,       \* page sizes clients ask for
  MaxChanges       \* changes of rows in a run, which bounds a run

ListMethods ==
  {"ListUsers", "ListOrganizationUsers", "ListProjects", "ListRoles",
   "ListProjectRoleAssignments", "ListOrganizationRoleAssignments",
   "ListSystemRoles", "ListSystemRoleAssignments"}

ASSUME ListsAssumption ==
  /\ Listings \subseteq ListMethods
  /\ RowIds \subseteq Nat /\ IsFiniteSet(RowIds)
  /\ PageSizes \subseteq Int /\ MaxChanges \in Nat

VARIABLES
  listed,  \* the rows there are: id -> [label, name, updated]
  walk,    \* the walk: its method, its first request and the next token
  page,    \* the request whose page is read and whose rows are to be counted
  shown,   \* how often the walk has shown each row
  owed,    \* history: the rows that could be read all along the walk
  gone, came, moved,  \* history: rows that left, entered and moved since it began
  changes  \* changes of rows so far

listsVars == <<listed, walk, page, shown, owed, gone, came, moved, changes>>

NoToken == [offset |-> 0, order |-> "", filter |-> "nil"]
NoWalk == [method |-> "none", filter |-> "nil", order |-> "", token |-> NoToken,
           state |-> "none"]
NoPage == [size |-> 0, filter |-> "nil", order |-> ""]

Never == MaxChanges + 1   \* updated_at of a row not updated: NULL sorts last
-----------------------------------------------------------------------------
(* Requests.  The handlers cap pages at 100 rows and default to 50; here   *)
(* they do at 2 and 1.                                                     *)
MaxPageSize == 2
DefaultPageSize == 1

PageSize(n) == IF n <= 0 \/ n > MaxPageSize THEN DefaultPageSize ELSE n

(* A filter is missing, present and empty, or selects by a name. *)
Filters(m) ==
  IF m \in {"ListUsers", "ListOrganizationUsers", "ListProjects"}
  THEN {"nil", "empty"} \cup Names ELSE {"nil"}

Selects(filter, row) == filter \in {"nil", "empty"} \/ row.name = filter

(* UserOrderBysFromPB: only users are sorted as the caller asks. *)
Orders(m) ==
  IF m = "ListUsers" THEN {"", "email", "updated_at", "updated_at desc"} ELSE {""}

(* An empty message encodes to no bytes, which decode to no message. *)
EncodePageToken(offset, order, filter) ==
  [offset |-> offset, order |-> order, filter |-> IF filter = "empty" THEN "nil" ELSE filter]

(* Mutant: a token does not remember the order. *)
TokenFitsFilter(token, order, filter) == token.filter = filter

(* DecodePageToken's checks; a token says nothing of the page size. *)
TokenFits(token, order, filter) ==
  token.order = order /\ token.filter = filter
-----------------------------------------------------------------------------
(* Queries. *)
Matching(rows_, filter) == {i \in DOMAIN rows_ : Selects(filter, rows_[i])}

SortKey(row, id, m, order) ==
  CASE order = "updated_at" -> row.updated
    [] order = "updated_at desc" -> -row.updated
    [] order = "" /\ m = "ListUsers" -> id
    [] OTHER -> row.label

(* orderByClause ends every order with the id. *)
Precedes(rows_, i, j, m, order) ==
  LET a == SortKey(rows_[i], i, m, order)
      b == SortKey(rows_[j], j, m, order)
  IN a < b \/ (a = b /\ i < j)

(* The sequences a query may return: any that puts no row before one that  *)
(* precedes it.                                                            *)
Sorted(rows_, ids, m, order) ==
  {s \in SetToSeqs(ids) :
     \A a, b \in DOMAIN s : a < b => Precedes(rows_, s[a], s[b], m, order)}

PageOf(s, offset, size) == SubSeq(s, offset + 1, Min({offset + size, Len(s)}))
-----------------------------------------------------------------------------
Row(label, name, updated) == [label |-> label, name |-> name, updated |-> updated]

ListsInit ==
  /\ \E ids \in SUBSET RowIds :
       listed \in [ids -> {Row(l, n, t) : l \in RowIds, n \in Names, t \in {1, Never}}]
  /\ \A i \in DOMAIN listed : listed[i].label = Max(RowIds) - i + Min(RowIds)
  /\ walk = NoWalk /\ page = NoPage
  /\ shown = [i \in RowIds |-> 0] /\ owed = {}
  /\ gone = 0 /\ came = 0 /\ moved = 0 /\ changes = 0

(* The first statement of the batch. *)
ReadPage(m, order, filter, offset, n) ==
  \E s \in Sorted(listed, Matching(listed, filter), m, order) :
    /\ page' = [size |-> PageSize(n), filter |-> filter, order |-> order]
    /\ LET read == ToSet(PageOf(s, offset, PageSize(n))) IN
       shown' = [i \in RowIds |->
                   (IF offset = 0 THEN 0 ELSE shown[i]) + IF i \in read THEN 1 ELSE 0]

FirstPage(m, order, filter, n) ==
  /\ walk.state = "none"
  /\ ReadPage(m, order, filter, 0, n)
  /\ walk' = [method |-> m, filter |-> filter, order |-> order,
              token |-> NoToken, state |-> "count"]
  /\ owed' = Matching(listed, filter)
  /\ gone' = 0 /\ came' = 0 /\ moved' = 0
  /\ UNCHANGED <<listed, changes>>

(* A client that changes its request with the token is refused. *)
NextPage(order, filter, n) ==
  /\ walk.state = "token"
  /\ TokenFits(walk.token, order, filter)
  /\ ReadPage(walk.method, order, filter, walk.token.offset, n)
  /\ walk' = [walk EXCEPT !.state = "count"]
  /\ UNCHANGED <<listed, owed, gone, came, moved, changes>>

(* The second statement, and the response. *)
CountRows ==
  /\ walk.state = "count"
  /\ LET next == walk.token.offset + page.size IN
     walk' = IF next < Cardinality(Matching(listed, page.filter))
             THEN [walk EXCEPT !.state = "token",
                               !.token = EncodePageToken(next, page.order, page.filter)]
             ELSE [walk EXCEPT !.state = "ended", !.token = NoToken]
  /\ page' = NoPage
  /\ UNCHANGED <<listed, shown, owed, gone, came, moved, changes>>
-----------------------------------------------------------------------------
(* The history of a change from listed to rows_: row i left what the walk  *)
(* selects, entered it, or changed the key it is sorted by.                *)
Noted(rows_, i) ==
  LET was == i \in Matching(listed, walk.filter)
      is == i \in Matching(rows_, walk.filter)
      key(r) == SortKey(r[i], i, walk.method, walk.order)
  IN /\ owed' = owed \cap Matching(rows_, walk.filter)
     /\ gone' = gone + IF was /\ ~is THEN 1 ELSE 0
     /\ came' = came + IF ~was /\ is THEN 1 ELSE 0
     /\ moved' = moved + IF was /\ is /\ key(rows_) # key(listed) THEN 1 ELSE 0

Change(rows_, i) ==
  /\ walk.state # "none" /\ changes < MaxChanges
  /\ changes' = changes + 1
  /\ listed' = rows_
  /\ Noted(rows_, i)
  /\ UNCHANGED <<walk, page, shown>>

FreeLabel(l) == \A i \in DOMAIN listed : listed[i].label # l

(* A user, a project, a role or an assignment is created. *)
InsertRow(i, l, n) ==
  /\ i \notin DOMAIN listed /\ FreeLabel(l)
  /\ Change([j \in DOMAIN listed \cup {i} |->
               IF j = i THEN Row(l, n, Never) ELSE listed[j]], i)

(* A role is deleted, an assignment removed, or with the last assignment a *)
(* project becomes inaccessible.  Users stay.                              *)
RemoveRow(i) ==
  /\ walk.method \in ListMethods \ {"ListUsers", "ListSystemRoles"}
  /\ i \in DOMAIN listed
  /\ Change([j \in DOMAIN listed \ {i} |-> listed[j]], i)

(* UpdateUser renames a user and sets updated_at to the time, which two    *)
(* updates may share.                                                      *)
UpdateUserRow(i, n, t) ==
  /\ walk.method \in {"ListUsers", "ListOrganizationUsers"}
  /\ i \in DOMAIN listed
  /\ \A j \in DOMAIN listed : listed[j].updated # Never => listed[j].updated <= t
  /\ Change([listed EXCEPT ![i] = Row(@.label, n, t)], i)

(* UpdateRole gives a role a new name, by which roles are sorted. *)
RenameRole(i, l) ==
  /\ walk.method \in {"ListRoles", "ListProjectRoleAssignments",
                      "ListOrganizationRoleAssignments"}
  /\ i \in DOMAIN listed /\ FreeLabel(l)
  /\ Change([listed EXCEPT ![i] = Row(l, @.name, @.updated)], i)

ListsNext ==
  \/ \E m \in Listings : \E o \in Orders(m), f \in Filters(m), n \in PageSizes :
       FirstPage(m, o, f, n)
  \/ \E o \in Orders(walk.method), f \in Filters(walk.method), n \in PageSizes :
       NextPage(o, f, n)
  \/ CountRows
  \/ \E i, l \in RowIds, n \in Names : InsertRow(i, l, n)
  \/ \E i \in RowIds : RemoveRow(i)
  \/ \E i \in RowIds, n \in Names, t \in 1..MaxChanges : UpdateUserRow(i, n, t)
  \/ \E i, l \in RowIds : RenameRole(i, l)

ListsSpec == ListsInit /\ [][ListsNext]_listsVars
-----------------------------------------------------------------------------
ListsTypeOK ==
  /\ DOMAIN listed \subseteq RowIds
  /\ \A i \in DOMAIN listed :
       listed[i] \in [label : RowIds, name : Names, updated : 1..Never]
  /\ walk.state \in {"none", "count", "token", "ended"}
  /\ shown \in [RowIds -> Nat] /\ owed \subseteq DOMAIN listed
  /\ {gone, came, moved} \subseteq 0..MaxChanges

\* Each time that a row was shown again.
Repeats == UNION {{i} \X (2..shown[i]) : i \in RowIds}

(* A walk that reached the last page has shown every row that could be     *)
(* read all along, but for as many as left or moved meanwhile, and showed  *)
(* a row twice only when one entered or moved: the sort orders are total   *)
(* (orderByClause), and a token is refused with another order or filter    *)
(* (pagination.go, DecodePageToken).                                       *)
PagesAreExplained ==
  /\ walk.state = "ended" => Cardinality({i \in owed : shown[i] = 0}) <= gone + moved
  /\ Cardinality(Repeats) <= came + moved
=============================================================================
