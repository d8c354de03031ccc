----------------------------- MODULE UserListing -----------------------------
(***************************************************************************)
(* An administrator walks through GET /users page by page, as long as      *)
(* `hasNextPage` says so, while accounts are created, renamed and deleted. *)
(* A page is an offset into the listing as it is when its query runs, and  *)
(* its total comes from a second query: Promise.all starts both, and the   *)
(* database serves them in either order.                                   *)
(***************************************************************************)
EXTENDS Naturals, FiniteSets, FiniteSetsExt

CONSTANTS
    UserCount,  \* accounts there may be
    KeyCount,   \* values of the sort key
    Limits,     \* page sizes asked for
    MaxChanges  \* bound on the changes to the table

ASSUME ListAssumption ==
    UserCount \in Nat /\ KeyCount \in Nat /\ Limits \subseteq Nat \ {0} /\ MaxChanges \in Nat

VARIABLES
    ulSort,     \* what is asked for: sort key, direction and limit
    ulKey,      \* the sort key of each user's row; 0 if it is not there, or is deleted
    ulPage,     \* the page asked for; 0 before the first
    ulItems,    \* its items, once that query has run
    ulTotal,    \* its count, once that query has run
    ulPc,       \* "off", "query", "read" when the page is answered, "done"
    ulSeen,     \* how often each user was shown (0, 1 or 2)
    ulChanges,  \* how many changes there were
    ulStayed,   \* history: users there all the time
    ulEvents    \* history: what happened during the walk

ulVars == <<ulSort, ulKey, ulPage, ulItems, ulTotal, ulPc, ulSeen, ulChanges, ulStayed, ulEvents>>

ListedUsers == 1..UserCount
Keys == 1..KeyCount
NotRead == UserCount + 1    \* no count yet
NoItems == {0}              \* no items yet

ListTypeOK ==
    /\ ulSort \in [by : {"createdAt", "name"}, desc : BOOLEAN, limit : Limits \cup {1}]
    /\ ulKey \in [ListedUsers -> 0..KeyCount]
    /\ ulPage \in 0..(UserCount + 1)
    /\ ulItems \in (SUBSET ListedUsers) \cup {NoItems}
    /\ ulTotal \in 0..NotRead
    /\ ulPc \in {"off", "query", "read", "done"}
    /\ ulSeen \in [ListedUsers -> 0..2]
    /\ ulChanges \in 0..MaxChanges
    /\ ulStayed \subseteq ListedUsers
    /\ ulEvents \subseteq {"created", "removed", "moved", "tied", "between"}

ListInit ==
    /\ ulSort = [by |-> "createdAt", desc |-> TRUE, limit |-> 1]
    /\ ulKey = [u \in ListedUsers |-> 0]
    /\ ulPage = 0
    /\ ulItems = NoItems
    /\ ulTotal = NotRead
    /\ ulPc = "off"
    /\ ulSeen = [u \in ListedUsers |-> 0]
    /\ ulChanges = 0
    /\ ulStayed = {}
    /\ ulEvents = {}
----------------------------------------------------------------------------
PresentIn(key) == {u \in ListedUsers : key[u] # 0}

Before(u, v) ==     \* orderBy: { [sortBy]: sortOrder }
    IF ulSort.desc THEN ulKey[u] > ulKey[v] ELSE ulKey[u] < ulKey[v]

\* Mutant: the number of pages is taken for an offset.
PagesAsOffset == ulPage - 1

Skip == (ulPage - 1) * ulSort.limit

\* Rows of equal keys come in any order, and not the same one from query to
\* query: of each such group a page holds as many as the group has places in it.
IsPage(items) ==
    \A u \in PresentIn(ulKey) :
        LET group == {v \in PresentIn(ulKey) : ulKey[v] = ulKey[u]}
            first == Cardinality({v \in PresentIn(ulKey) : Before(v, u)})
            places == (first + 1)..(first + Cardinality(group))
        IN  Cardinality(items \cap group) = Cardinality(places \cap (Skip + 1)..(Skip + ulSort.limit))

TotalPages == (ulTotal + ulSort.limit - 1) \div ulSort.limit

\* Mutant: the last page is taken to have been reached one page early.
LastButOne == ulPage + 1 < TotalPages

HasNextPage == ulPage < TotalPages

Ties(key) == \E u, v \in PresentIn(key) : u # v /\ key[u] = key[v]

Note(events) == ulEvents' = ulEvents \cup events \cup (IF Ties(ulKey') THEN {"tied"} ELSE {})
----------------------------------------------------------------------------
ListStart ==
    /\ ulPc = "off"
    /\ ulSort' \in [by : {"createdAt", "name"}, desc : BOOLEAN, limit : Limits]
    /\ ulKey' \in [ListedUsers -> 0..KeyCount]
    /\ ulStayed' = PresentIn(ulKey')
    /\ Note({})
    /\ ulPage' = 1
    /\ ulPc' = "query"
    /\ UNCHANGED <<ulItems, ulTotal, ulSeen, ulChanges>>

FindMany ==
    /\ ulPc = "query" /\ ulItems = NoItems
    /\ ulItems' \in {items \in SUBSET PresentIn(ulKey) : IsPage(items)}
    /\ ulSeen' = [u \in ListedUsers |-> IF u \in ulItems' THEN Min({ulSeen[u] + 1, 2}) ELSE ulSeen[u]]
    /\ UNCHANGED <<ulSort, ulKey, ulPage, ulTotal, ulPc, ulChanges, ulStayed, ulEvents>>

CountUsers ==
    /\ ulPc = "query" /\ ulTotal = NotRead
    /\ ulTotal' = Cardinality(PresentIn(ulKey))
    /\ UNCHANGED <<ulSort, ulKey, ulPage, ulItems, ulPc, ulSeen, ulChanges, ulStayed, ulEvents>>

\* The answer, after which the administrator asks for the next page or stops.
AnswerPage ==
    /\ ulPc = "query" /\ ulItems # NoItems /\ ulTotal # NotRead
    /\ ulPc' = IF HasNextPage /\ ulPage <= UserCount THEN "read" ELSE "done"
    /\ ulItems' = NoItems
    /\ ulTotal' = NotRead
    /\ UNCHANGED <<ulSort, ulKey, ulPage, ulSeen, ulChanges, ulStayed, ulEvents>>

NextPage ==
    /\ ulPc = "read"
    /\ ulPage' = ulPage + 1
    /\ ulPc' = "query"
    /\ UNCHANGED <<ulSort, ulKey, ulItems, ulTotal, ulSeen, ulChanges, ulStayed, ulEvents>>

Change == ulPc \in {"query", "read"} /\ ulChanges < MaxChanges /\ ulChanges' = ulChanges + 1

UnchangedByChange == UNCHANGED <<ulSort, ulPage, ulItems, ulTotal, ulPc, ulSeen>>

\* register(): a new id, and no row is newer.
CreateUser ==
    /\ Change
    /\ \E u \in ListedUsers, k \in Keys :
         /\ ulKey[u] = 0 /\ ulSeen[u] = 0
         /\ ulSort.by = "createdAt" => \A v \in ListedUsers : ulKey[v] <= k
         /\ ulKey' = [ulKey EXCEPT ![u] = k]
    /\ Note({"created"} \cup IF ulTotal # NotRead /\ ulItems = NoItems THEN {"between"} ELSE {})
    /\ UNCHANGED ulStayed
    /\ UnchangedByChange

\* remove(): a soft-deleted row fails the where clause of both queries.
RemoveUser ==
    /\ Change
    /\ \E u \in PresentIn(ulKey) :
         /\ ulKey' = [ulKey EXCEPT ![u] = 0]
         /\ ulStayed' = ulStayed \ {u}
    /\ Note({"removed"})
    /\ UnchangedByChange

\* A profile update changes what the listing is sorted by.
RenameUser ==
    /\ ulSort.by = "name"
    /\ Change
    /\ \E u \in PresentIn(ulKey), k \in Keys : k # ulKey[u] /\ ulKey' = [ulKey EXCEPT ![u] = k]
    /\ Note({"moved"})
    /\ UNCHANGED ulStayed
    /\ UnchangedByChange

ListNext ==
    \/ ListStart \/ FindMany \/ CountUsers \/ AnswerPage \/ NextPage
    \/ CreateUser \/ RemoveUser \/ RenameUser

ListSpec == ListInit /\ [][ListNext]_ulVars
----------------------------------------------------------------------------
\* A walk to the last page shows everybody who was there all the time, unless
\* somebody was removed or renamed meanwhile, two sort keys are equal, or somebody
\* was created between the count and the items of one page.
SkipsExplained ==
    ulPc = "done" /\ (\E u \in ulStayed : ulSeen[u] = 0) =>
        ulEvents \cap {"removed", "moved", "tied", "between"} # {}

\* Nobody is shown twice, unless somebody was created or renamed meanwhile, or two
\* sort keys are equal; in the order of creation, only if the newest come first.
RepeatsExplained ==
    (\E u \in ListedUsers : ulSeen[u] = 2) =>
        \/ ulEvents \cap {"moved", "tied"} # {}
        \/ "created" \in ulEvents /\ (ulSort.by = "createdAt" => ulSort.desc)

\* How many rows come before a user's in the listing, and how many places of it the
\* pages asked for so far have covered.
Place(u) == Cardinality({v \in PresentIn(ulKey) : Before(v, u)})

Covered == IF ulPc = "query" /\ ulItems = NoItems THEN Skip ELSE Skip + ulSort.limit

\* Inductive: a page under way has a number, and between pages nothing is read.
WalkShape ==
    /\ ulPc = "off" => ulEvents = {} /\ \A u \in ListedUsers : ulSeen[u] = 0
    /\ ulPc # "off" => ulPage >= 1 /\ (Ties(ulKey) => "tied" \in ulEvents)
    /\ ulPc # "query" => ulItems = NoItems /\ ulTotal = NotRead
    /\ ulPc = "read" => ulPage <= UserCount

\* Inductive, for SkipsExplained: who was there all the time and was not shown is
\* past the places covered, and the count tells of it.
NotYetShown ==
    ulPc # "off" /\ ulEvents \cap {"removed", "moved", "tied", "between"} = {} =>
        /\ ulStayed \subseteq PresentIn(ulKey)
        /\ ulTotal # NotRead /\ ulItems = NoItems => ulTotal = Cardinality(PresentIn(ulKey))
        /\ \A u \in ulStayed :
             ulSeen[u] = 0 =>
                 /\ ulPc # "done"
                 /\ Place(u) >= Covered
                 /\ ulTotal # NotRead /\ ulItems # NoItems => ulTotal > Covered

\* Inductive, for RepeatsExplained: who was shown is within the places covered.
AlreadyShown ==
    (/\ ulPc # "off" /\ ulEvents \cap {"moved", "tied"} = {}
     /\ "created" \in ulEvents => ulSort.by = "createdAt" /\ ~ulSort.desc) =>
        \A u \in ListedUsers :
            ulSeen[u] < 2 /\ (ulSeen[u] = 1 /\ ulKey[u] # 0 => Place(u) < Covered)

ListInv == ListTypeOK /\ WalkShape /\ NotYetShown /\ AlreadyShown
=============================================================================
