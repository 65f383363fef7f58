------------------------------ MODULE UserList ------------------------------
(***************************************************************************)
(* A client that goes through the user list page by page (GET /users),     *)
(* while users are created and deleted.                                    *)
(*                                                                         *)
(* A page is two queries at once, of the rows and of their number, each    *)
(* with a snapshot of its own; nothing holds from one page to the next.    *)
(* The sort field is one that does not change and in which no two users    *)
(* agree: createdAt, the default, or email.  By status, name or updatedAt  *)
(* pages need not fit together even if nobody comes or goes.               *)
(***************************************************************************)
EXTENDS Users

CONSTANTS Position, \* where sortBy and sortOrder put a user
          Limit,    \* the page size
          MaxBusy   \* a bound on the requests and walks at the same time

ASSUME UserListAssumption ==
  /\ Position \in [User -> Nat]
  /\ \A u, v \in User : Position[u] = Position[v] => u = v
  /\ Limit \in 1..100
  /\ MaxBusy \in Nat

VARIABLES
  walk, \* the client, and a history of what happens meanwhile
  lists \* whether there is such a client at all

-----------------------------------------------------------------------------
Query == {"none", "asked", "answered"}

WalkState == [page : Nat,            \* 0: no walk
              rowsQuery : Query, countQuery : Query,
              total : Nat,           \* totalItems
              listed : SUBSET User,  \* on the pages so far
              twice : BOOLEAN,       \* somebody on more than one of them
              since : SUBSET User,   \* present all along
              created : BOOLEAN, deleted : BOOLEAN,
              split : BOOLEAN]       \* created between a count and its rows

NoWalk == [page |-> 0, rowsQuery |-> "none", countQuery |-> "none",
           total |-> 0, listed |-> {}, twice |-> FALSE, since |-> {},
           created |-> FALSE, deleted |-> FALSE, split |-> FALSE]

UserListTypeOK == TypeOK /\ walk \in WalkState /\ lists \in BOOLEAN

UserListInit == Init /\ walk = NoWalk /\ lists \in BOOLEAN

-----------------------------------------------------------------------------
(* The place of user u among those whose deletedAt is null, in order. *)
Rank(u) == Cardinality({v \in Present : Position[v] <= Position[u]})

(* The first page is taken to be number 0. *)
Skip_FromZero(page) == page * Limit

(* A page begins with the last row of the page before. *)
Skip_Overlap(page) == IF page = 1 THEN 0 ELSE (page - 1) * Limit - 1

Skip(page) == (page - 1) * Limit

Page(page) == {u \in Present : Rank(u) > Skip(page) /\ Rank(u) <= Skip(page) + Limit}

(* Math.ceil(totalItems / limit). *)
TotalPages(n) == (n + Limit - 1) \div Limit

BeginWalk ==
  /\ lists /\ walk.page = 0
  /\ walk' = [NoWalk EXCEPT !.page = 1, !.rowsQuery = "asked",
                            !.countQuery = "asked", !.since = Present]
  /\ UNCHANGED vars

(* findMany. *)
FindRows ==
  /\ walk.rowsQuery = "asked"
  /\ walk' = [walk EXCEPT !.rowsQuery = "answered",
                          !.twice = @ \/ walk.listed \intersect Page(walk.page) # {},
                          !.listed = @ \union Page(walk.page)]
  /\ UNCHANGED vars

(* count. *)
CountRows ==
  /\ walk.countQuery = "asked"
  /\ walk' = [walk EXCEPT !.countQuery = "answered",
                          !.total = Cardinality(Present)]
  /\ UNCHANGED vars

Answered == walk.rowsQuery = "answered" /\ walk.countQuery = "answered"

(* The client has the last page if meta says so. *)
Done == Answered /\ walk.page >= TotalPages(walk.total)

NextPage ==
  /\ Answered /\ ~Done
  /\ walk' = [walk EXCEPT !.page = @ + 1, !.rowsQuery = "asked",
                          !.countQuery = "asked"]
  /\ UNCHANGED vars

EndWalk ==
  /\ Done
  /\ walk' = NoWalk
  /\ UNCHANGED vars

(* What a step of another request does to the walk's history. *)
Watch ==
  walk' = IF walk.page = 0 THEN walk
          ELSE [walk EXCEPT !.since = @ \intersect Present',
                            !.created = @ \/ rows' # rows,
                            !.deleted = @ \/ deleted' # deleted,
                            !.split = @ \/ /\ rows' # rows
                                           /\ walk.countQuery = "answered"
                                           /\ walk.rowsQuery = "asked"]

(* A bound: role and status changes, which the list does not depend on, are  *)
(* followed where there is no client.                                        *)
Followed == lists => \A r \in Request : req[r].pc \notin {"updating", "changing"}

Busy == Cardinality({r \in Request : req[r].pc # "idle"})
          + IF walk.page = 0 THEN 0 ELSE 1

UserListNext ==
  /\ \/ Next /\ Watch
     \/ BeginWalk \/ FindRows \/ CountRows \/ NextPage \/ EndWalk
  /\ UNCHANGED lists
  /\ Followed' /\ Busy' <= MaxBusy

UserListSpec == UserListInit /\ [][UserListNext]_<<vars, walk, lists>>

-----------------------------------------------------------------------------
(* A user who is there all along is on some page, unless somebody was        *)
(* deleted meanwhile (what follows moves up, past the page to come), or      *)
(* somebody was created between the two queries of a page (its number of     *)
(* pages is then too small for its rows).  Creations at any other moment     *)
(* lose nobody.                                                              *)
WalkMissesNobody ==
  Done /\ ~walk.deleted /\ ~walk.split => walk.since \subseteq walk.listed

(* Nobody is on two pages unless somebody was created meanwhile: deletions   *)
(* repeat nobody.                                                            *)
WalkRepeatsNobody == walk.twice => walk.created
=============================================================================
