----------------------------- MODULE ListQueries -----------------------------
(***************************************************************************)
(* A paged list of the console: the query that the list page asks for      *)
(* through dataProvider.ts, and the list functions of the API that answer  *)
(* it.  Each of them counts the rows and fetches one page of them in two   *)
(* queries that run beside each other, outside of any transaction, while   *)
(* other people insert rows.  Nothing deletes a row.                       *)
(*                                                                         *)
(* A row is its number of insertion and one other column, `kind', which    *)
(* many rows may share (a status, a name); a search finds the rows of kind *)
(* 1, and the regions of one provider are those of kind 1 too.  Of the     *)
(* order the list is sorted by only three things matter: oldest or newest  *)
(* first (id, createdAt), by a column with ties, and no order at all.      *)
(***************************************************************************)
EXTENDS Naturals, Sequences, FiniteSets, FiniteSetsExt

CONSTANTS MaxRows,       \* bound on the rows
          PageSizes,     \* rows per page a user may ask for
          DefaultLimit   \* rows per page where the request names none

ASSUME PagesAssumption == /\ MaxRows \in Nat
                          /\ PageSizes \subseteq Nat \ {0}
                          /\ DefaultLimit \in Nat \ {0}

VARIABLES
    lqRows,    \* the kinds of the rows, in the order they were inserted
    lqAsked,   \* what the list page asks for
    lqFetch,   \* the answer as far as it is there
    lqShown,   \* what the page shows
    lqWalk     \* history: a reader who goes through the pages from the first

lqVars == <<lqRows, lqAsked, lqFetch, lqShown, lqWalk>>

-----------------------------------------------------------------------------
Resources == {"accounts", "workspaces", "principals", "regions", "providers"}
Sorts == {"oldest", "newest", "kind", "creator", "none"}

Rows == DOMAIN lqRows
OfKind1 == {r \in Rows : lqRows[r] = 1}

Pending == [pc |-> "pending", count |-> 0, rows |-> <<>>, counted |-> FALSE,
            found |-> FALSE, raced |-> FALSE]
Nothing == [pc |-> "nothing", rows |-> <<>>, total |-> 0,
            hasNextPage |-> FALSE, hasPreviousPage |-> FALSE]
NoWalk == [on |-> FALSE, first |-> {}, seen |-> {}, raced |-> FALSE]

(* The offset of a page. *)
OffsetPaginationFromOne(page, limit) == (page - 1) * limit + 1
OffsetPagination(page, limit) == (page - 1) * limit

TotalPages(total, limit) == (total + limit - 1) \div limit

HasNextPage(page, total, limit) == page < TotalPages(total, limit)

(* The orders in which the database may return the rows: any that the sort *)
(* admits; rows that tie, or all of them without a sort, come as they may. *)
Admitted(sort, r, s) ==
    CASE sort = "oldest" -> r < s
      [] sort = "newest" -> r > s
      [] sort = "kind"   -> lqRows[r] <= lqRows[s]
      [] OTHER           -> TRUE

Orders(hits, sort) ==
    {o \in [1..Cardinality(hits) -> hits] :
        \A i, j \in DOMAIN o : i < j => o[i] # o[j] /\ Admitted(sort, o[i], o[j])}

PageOf(order, offset, limit) == SubSeq(order, offset + 1, Min({offset + limit, Len(order)}))

-----------------------------------------------------------------------------
(* The list functions: which rows they look at, how they sort and page     *)
(* them, and whether the database refuses the query.                       *)

Searched(p) == IF p.search THEN OfKind1 ELSE Rows

(* createdBy.email is a heading one may sort by, but no column of a table. *)
Unsortable(p) == p.sort = "creator"

ListAccountsInternal(p) ==
    [hits |-> Searched(p), sort |-> p.sort, page |-> p.page, limit |-> p.perPage,
     fails |-> Unsortable(p)]

ListAllAccounts(p) == ListAccountsInternal(p)

(* Searches extAccountId, which a workspace does not have. *)
ListWorkspaces(p) ==
    [hits |-> Searched(p), sort |-> p.sort, page |-> p.page, limit |-> p.perPage,
     fails |-> p.search \/ Unsortable(p)]

ListPrincipals(p) ==
    [hits |-> Searched(p), sort |-> p.sort, page |-> p.page, limit |-> p.perPage,
     fails |-> FALSE]

ListPlatformProviderRegions(p) ==
    [hits |-> OfKind1, sort |-> p.sort, page |-> p.page, limit |-> p.perPage,
     fails |-> FALSE]

(* The controller hands nothing on but the default page. *)
ListPlatformProviders(p) ==
    [hits |-> Rows, sort |-> "none", page |-> 1, limit |-> DefaultLimit, fails |-> FALSE]

(* getList of the data provider: the resource is the path. *)
GetList(p) == CASE p.resource = "accounts"   -> ListAllAccounts(p)
                [] p.resource = "workspaces" -> ListWorkspaces(p)
                [] p.resource = "principals" -> ListPrincipals(p)
                [] p.resource = "regions"    -> ListPlatformProviderRegions(p)
                [] p.resource = "providers"  -> ListPlatformProviders(p)

(* The sort a list starts with, and the columns its headings offer. *)
DefaultSort(resource) == IF resource = "accounts" THEN "newest" ELSE "oldest"
Headings(resource) == CASE resource \in {"accounts", "workspaces"} -> {"oldest", "newest", "kind", "creator"}
                        [] resource = "regions" -> {"oldest"}
                        [] OTHER -> {"oldest", "newest", "kind"}

-----------------------------------------------------------------------------
LQInit == /\ lqRows = <<>>
          /\ lqAsked = [resource |-> "none", page |-> 1, perPage |-> DefaultLimit,
                        search |-> FALSE, sort |-> "none"]
          /\ lqFetch = Pending
          /\ lqShown = Nothing
          /\ lqWalk = NoWalk

(* Someone inserts a row.  An answer that is half there is raced. *)
Insert(kind) ==
    /\ Len(lqRows) < MaxRows
    /\ lqRows' = Append(lqRows, kind)
    /\ lqFetch' = [lqFetch EXCEPT !.raced = @ \/ (lqFetch.counted # lqFetch.found)]
    /\ UNCHANGED <<lqAsked, lqShown, lqWalk>>

(* A new query.  The walk goes on with the next page, and begins again     *)
(* with every first page.                                                  *)
Ask(asked) ==
    /\ lqAsked' = asked
    /\ lqFetch' = Pending
    /\ lqShown' = Nothing
    /\ lqWalk' = IF GetList(asked).page = 1
                 THEN [NoWalk EXCEPT !.on = TRUE, !.first = GetList(asked).hits]
                 ELSE IF asked.page = lqAsked.page + 1 /\ lqShown.pc = "page"
                 THEN lqWalk ELSE NoWalk
    /\ UNCHANGED lqRows

OpenList(resource) ==
    /\ lqAsked.resource = "none"
    /\ Ask([lqAsked EXCEPT !.resource = resource, !.sort = DefaultSort(resource)])

SetPage(page) ==
    /\ lqAsked.resource \notin {"none", "providers"}
    /\ lqShown.pc = "page"
    /\ page \in 1..TotalPages(lqShown.total, lqAsked.perPage) \ {lqAsked.page}
    /\ Ask([lqAsked EXCEPT !.page = page])

SetPerPage(size) ==
    /\ lqAsked.resource \notin {"none", "providers"}
    /\ Ask([lqAsked EXCEPT !.page = 1, !.perPage = size])

SetSort(sort) ==
    /\ lqAsked.resource # "none"
    /\ sort \in Headings(lqAsked.resource)
    /\ Ask([lqAsked EXCEPT !.page = 1, !.sort = sort])

SetSearch(search) ==
    /\ lqAsked.resource \in {"accounts", "workspaces", "principals"}
    /\ Ask([lqAsked EXCEPT !.page = 1, !.search = search])

Fetching == lqAsked.resource # "none" /\ lqFetch.pc = "pending"

Refused ==
    /\ Fetching
    /\ GetList(lqAsked).fails
    /\ lqFetch' = [lqFetch EXCEPT !.pc = "done"]
    /\ lqShown' = [Nothing EXCEPT !.pc = "error"]
    /\ lqWalk' = NoWalk
    /\ UNCHANGED <<lqRows, lqAsked>>

Count ==
    /\ Fetching /\ ~ GetList(lqAsked).fails
    /\ ~ lqFetch.counted
    /\ lqFetch' = [lqFetch EXCEPT !.counted = TRUE,
                                  !.count = Cardinality(GetList(lqAsked).hits)]
    /\ UNCHANGED <<lqRows, lqAsked, lqShown, lqWalk>>

FindMany ==
    /\ Fetching /\ ~ GetList(lqAsked).fails
    /\ ~ lqFetch.found
    /\ LET q == GetList(lqAsked)
       IN  \E o \in Orders(q.hits, q.sort) :
              lqFetch' = [lqFetch EXCEPT !.found = TRUE,
                            !.rows = PageOf(o, OffsetPagination(q.page, q.limit), q.limit)]
    /\ UNCHANGED <<lqRows, lqAsked, lqShown, lqWalk>>

(* Both queries are answered. *)
Show ==
    /\ Fetching /\ lqFetch.counted /\ lqFetch.found
    /\ lqFetch' = [lqFetch EXCEPT !.pc = "done"]
    /\ LET q == GetList(lqAsked)
       IN  lqShown' = [pc |-> "page", rows |-> lqFetch.rows, total |-> lqFetch.count,
                       hasNextPage |-> HasNextPage(q.page, lqFetch.count, q.limit),
                       hasPreviousPage |-> q.page > 1]
    /\ lqWalk' = IF lqWalk.on
                 THEN [lqWalk EXCEPT !.seen = @ \cup {lqFetch.rows[i] : i \in DOMAIN lqFetch.rows},
                                     !.raced = @ \/ lqFetch.raced]
                 ELSE lqWalk
    /\ UNCHANGED <<lqRows, lqAsked>>

LQNext == \/ \E kind \in {1, 2} : Insert(kind)
          \/ \E resource \in Resources : OpenList(resource)
          \/ \E page \in 1..MaxRows : SetPage(page)
          \/ \E size \in PageSizes : SetPerPage(size)
          \/ \E sort \in Sorts : SetSort(sort)
          \/ \E search \in BOOLEAN : SetSearch(search)
          \/ Refused \/ Count \/ FindMany \/ Show

LQSpec == LQInit /\ [][LQNext]_lqVars

-----------------------------------------------------------------------------
(* Properties *)

(* The range a page names ("11-20 of 34"); list-pagination.tsx.            *)
PageStart == (lqAsked.page - 1) * lqAsked.perPage + 1
PageEnd == IF lqShown.hasNextPage THEN lqAsked.page * lqAsked.perPage ELSE lqShown.total

(* The range is as long as the page, unless a row came between its two     *)
(* queries; and a list is refused only for a search of workspaces or for a *)
(* sort by creator, two controls the console offers and the API cannot     *)
(* serve.                                                                  *)
RangeFits ==
    /\ lqShown.pc = "page" /\ ~ lqFetch.raced /\ lqAsked.resource # "providers"
       => Len(lqShown.rows) = PageEnd + 1 - PageStart
    /\ lqShown.pc = "error" => \/ lqAsked.resource = "workspaces" /\ lqAsked.search
                              \/ lqAsked.sort = "creator"

(* Everything is of its kind, and the range of a page fits it.             *)
LQTypeOK ==
    /\ lqRows \in UNION {[1..n -> {1, 2}] : n \in 0..MaxRows}
    /\ lqAsked \in [resource : Resources \cup {"none"}, page : 1..(MaxRows + 1),
                    perPage : PageSizes \cup {DefaultLimit}, search : BOOLEAN,
                    sort : Sorts]
    /\ lqShown.pc \in {"nothing", "page", "error"}
    /\ lqShown.total \in 0..MaxRows
    /\ lqWalk.seen \subseteq Rows /\ lqWalk.first \subseteq Rows
    /\ RangeFits

(* Whoever leafs through a list from its first page until there is no next *)
(* one has seen every row that was there when he began, whatever has been  *)
(* inserted meanwhile, if the sort leaves no ties and no row came between  *)
(* the two queries of a page.                                              *)
WalkSeesAll ==
    /\ lqShown.pc = "page" /\ ~ lqShown.hasNextPage
    /\ lqWalk.on /\ ~ lqWalk.raced
    /\ GetList(lqAsked).sort \in {"oldest", "newest"}
    => lqWalk.first \subseteq lqWalk.seen

-----------------------------------------------------------------------------
(* The inductive invariant *)

Asked == GetList(lqAsked)
Offset == OffsetPagination(Asked.page, Asked.limit)
Fetched == {lqFetch.rows[i] : i \in DOMAIN lqFetch.rows}

(* The place of a row among the hits, in an order without ties.  An insert *)
(* never moves a row towards the front.                                    *)
Place(hits, sort, r) ==
    Cardinality({h \in hits : IF sort = "oldest" THEN h <= r ELSE h >= r})

(* Every row of the beginning is in a set, if it is now among the first.   *)
Among(place, rows) ==
    \A r \in lqWalk.first : Place(Asked.hits, Asked.sort, r) <= place => r \in rows

(* The rows on a page, if n are there.                                     *)
PageLength(n) == IF Offset + Asked.limit <= n THEN Asked.limit ELSE n - Offset

LQShape ==
    /\ lqRows \in Seq({1, 2}) /\ Len(lqRows) <= MaxRows
    /\ lqAsked \in [resource : Resources \cup {"none"}, page : 1..(MaxRows + 1),
                    perPage : PageSizes \cup {DefaultLimit}, search : BOOLEAN,
                    sort : Sorts]
    /\ lqAsked.resource = "none" => lqAsked.page = 1 /\ lqShown = Nothing
    /\ lqFetch \in [pc : {"pending", "done"}, count : Nat, rows : Seq(Rows),
                    counted : BOOLEAN, found : BOOLEAN, raced : BOOLEAN]
    /\ lqShown \in [pc : {"nothing", "page", "error"}, rows : Seq(Rows), total : Nat,
                    hasNextPage : BOOLEAN, hasPreviousPage : BOOLEAN]
    /\ lqWalk \in [on : BOOLEAN, first : SUBSET Rows, seen : SUBSET Rows, raced : BOOLEAN]

(* A page never begins behind the last row, and its two answers agree      *)
(* unless a row came between them.                                         *)
AnswersAgree ==
    LET n == Cardinality(Asked.hits)
    IN  lqAsked.resource # "none" =>
        /\ Offset <= n
        /\ lqFetch.counted => lqFetch.count <= n
        /\ lqFetch.counted /\ ~ lqFetch.found /\ ~ lqFetch.raced => lqFetch.count = n
        /\ lqFetch.found /\ ~ lqFetch.counted /\ ~ lqFetch.raced
              => Len(lqFetch.rows) = PageLength(n)
        /\ lqFetch.found /\ lqFetch.counted /\ ~ lqFetch.raced
              => Len(lqFetch.rows) = PageLength(lqFetch.count)
        /\ lqShown.total <= n

(* A reader in a sorted list has seen the rows of the beginning up to his  *)
(* page; a page that is fetched continues them, and with the last page     *)
(* they are all there.                                                     *)
WalkInOrder ==
    lqWalk.on =>
    /\ lqAsked.resource # "none"
    /\ lqWalk.first \subseteq Asked.hits
    /\ Asked.sort \in {"oldest", "newest"} =>
       /\ Among(IF lqShown.pc = "page" THEN Offset + Asked.limit ELSE Offset, lqWalk.seen)
       /\ lqFetch.found => Among(Offset + Asked.limit, lqWalk.seen \cup Fetched)
       /\ lqFetch.found /\ lqFetch.counted /\ ~ lqFetch.raced
             /\ lqFetch.count <= Offset + Asked.limit
             => lqWalk.first \subseteq lqWalk.seen \cup Fetched

LQInv == LQShape /\ AnswersAgree /\ RangeFits /\ WalkInOrder /\ WalkSeesAll
=============================================================================
