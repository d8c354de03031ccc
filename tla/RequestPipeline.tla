--------------------------- MODULE RequestPipeline ---------------------------
(***************************************************************************)
(* What every request passes: body parser and CORS, the middleware that    *)
(* opens the request's AsyncLocalStorage store, throttler, bearer check,   *)
(* roles guard, idempotency, validation pipe, handler with its cache       *)
(* calls, response interceptor or exception filter.  One process serves    *)
(* several requests, interleaved at their awaits; all bearers are one      *)
(* user, whose row others change meanwhile.                                *)
(*                                                                         *)
(* Idempotency has a module of its own; here it is the response saved      *)
(* under a key.                                                            *)
(***************************************************************************)
EXTENDS Naturals

CONSTANTS
    RequestCount,
    Inputs,     \* what clients send
    MaxCacheOps,\* bound on the cache calls of a handler
    MaxRowChanges

VARIABLES
    rpPc,       \* the await at which each request stands
    rpIn,       \* what it asks
    rpStore,    \* its AsyncLocalStorage store: cacheOps; its id is the request
    rpThrown,   \* the exception the filter caught
    rpAnswer,   \* the body that goes out, or out soon
    rpSaved,    \* the record of each key: the request whose body it holds, or 0
    rpRow,      \* role and status of the user's row
    rpChanges,  \* how often it changed
    rpRowRead,  \* history: the row as the bearer check read it
    rpOps       \* history: the cache calls each request made

rpVars == <<rpPc, rpIn, rpStore, rpThrown, rpAnswer, rpSaved, rpRow, rpChanges, rpRowRead, rpOps>>

RequestIds == 1..RequestCount
IdempotencyKeys == {"none", "k"}
Rows == {"user", "admin", "suspended", "deleted"}

Route(public, admin, post, cached) ==
    [public |-> public, admin |-> admin, post |-> post, cached |-> cached]

\* Routes by what the pipeline asks of them.
Routes ==
    [health |-> Route(TRUE, FALSE, FALSE, FALSE),
     me |-> Route(FALSE, FALSE, FALSE, TRUE),
     list |-> Route(FALSE, TRUE, FALSE, FALSE),
     register |-> Route(TRUE, FALSE, TRUE, FALSE),
     commit |-> Route(FALSE, FALSE, TRUE, FALSE)]

ASSUME PipelineAssumption ==
    /\ RequestCount \in Nat /\ MaxCacheOps \in Nat /\ MaxRowChanges \in Nat
    /\ Inputs \subseteq [route : DOMAIN Routes, token : STRING, role : Rows,
                         body : {"good", "invalid", "malformed"}, key : IdempotencyKeys]

Thrown(kind, status, code) == [kind |-> kind, status |-> status, code |-> code]
NoError == Thrown("none", 0, "none")
NoInput == [route |-> "none", token |-> "none", role |-> "user", body |-> "good", key |-> "none"]
NoAnswer == [status |-> 0, code |-> "none", id |-> 0, ops |-> 0]

Statuses == {0, 200, 201, 400, 401, 403, 404, 409, 422, 429, 500, 503}
Codes == {"none", "ERR_HTTP_n", "ERR_TOKEN_INVALID", "ERR_INSUFFICIENT_PERMISSIONS",
          "ERR_DUPLICATE_REQUEST", "ERR_IDEMPOTENCY_KEY_MISMATCH", "ERR_VALIDATION_FAILED",
          "ERR_USER_NOT_FOUND", "ERR_EMAIL_ALREADY_EXISTS", "ERR_FILE_NOT_FOUND",
          "ERR_UNIQUE_CONSTRAINT", "ERR_RECORD_NOT_FOUND", "ERR_FOREIGN_KEY_CONSTRAINT",
          "ERR_DATABASE", "ERR_INTERNAL_SERVER", "P1001", "P2002"}

RpTypeOK ==
    /\ rpPc \in [RequestIds -> {"away", "token", "recheck", "key", "pipe", "work", "store", "answered"}]
    /\ rpIn \in [RequestIds -> Inputs \cup {NoInput}]
    /\ rpStore \in [RequestIds -> Nat]
    /\ rpThrown \in [RequestIds -> [kind : {"none", "api", "http", "prisma", "other"},
                                    status : Statuses, code : Codes]]
    /\ rpAnswer \in [RequestIds -> [status : Statuses, code : Codes,
                                    id : RequestIds \cup {0}, ops : Nat]]
    /\ rpSaved \in [IdempotencyKeys -> RequestIds \cup {0}]
    /\ rpRow \in Rows
    /\ rpChanges \in 0..MaxRowChanges
    /\ rpRowRead \in [RequestIds -> Rows \cup {"none"}]
    /\ rpOps \in [RequestIds -> 0..MaxCacheOps]

RpInit ==
    /\ rpPc = [r \in RequestIds |-> "away"]
    /\ rpIn = [r \in RequestIds |-> NoInput]
    /\ rpStore = [r \in RequestIds |-> 0]
    /\ rpThrown = [r \in RequestIds |-> NoError]
    /\ rpAnswer = [r \in RequestIds |-> NoAnswer]
    /\ rpSaved = [k \in IdempotencyKeys |-> 0]
    /\ rpRow = "user"
    /\ rpChanges = 0
    /\ rpRowRead = [r \in RequestIds |-> "none"]
    /\ rpOps = [r \in RequestIds |-> 0]
----------------------------------------------------------------------------
InScope == {r \in RequestIds : rpPc[r] \notin {"away", "answered"}}

\* Mutant: the stores are kept in one variable, which the last to enter holds.
LatestStore(r) == CHOOSE s \in InScope : \A t \in InScope : t <= s

\* als.getStore(): follows the awaits of the request.
StoreOf(r) == r

\* Mutant: the role the token was signed with.
RoleInToken(r) == rpIn[r].role

\* req.user.role, as validate() of the JWT strategy selects it.
RoleOf(r) == rpRow

\* canActivate() of the roles guard.
Permitted(r) == Routes[rpIn[r].route].admin => RoleOf(r) = "admin"

\* handlePrismaError(): any other code is a database error.
PrismaResponses ==
    [P2002 |-> [status |-> 409, code |-> "ERR_UNIQUE_CONSTRAINT"],
     P2025 |-> [status |-> 404, code |-> "ERR_RECORD_NOT_FOUND"],
     P2003 |-> [status |-> 400, code |-> "ERR_FOREIGN_KEY_CONSTRAINT"]]

PrismaResponse(code) ==
    IF code \in DOMAIN PrismaResponses THEN PrismaResponses[code]
    ELSE [status |-> 500, code |-> "ERR_DATABASE"]

\* resolveException(): only an ApiError keeps its code; of any other HttpException
\* whose message is a string, what stands beside the message is lost.
Resolved(e) ==
    IF e.kind = "api" THEN [status |-> e.status, code |-> e.code]
    ELSE IF e.kind = "http" THEN [status |-> e.status, code |-> "ERR_HTTP_n"]
    ELSE IF e.kind = "prisma" THEN PrismaResponse(e.code)
    ELSE [status |-> 500, code |-> "ERR_INTERNAL_SERVER"]

\* attachDiagnostics() of the store r runs in.
Stamped(r, status, code) ==
    [status |-> status, code |-> code, id |-> StoreOf(r), ops |-> rpStore[StoreOf(r)]]

Go(r, pc) == rpPc' = [rpPc EXCEPT ![r] = pc]

\* AllExceptionsFilter, inside the scope.
Fail(r, e) ==
    /\ Go(r, "answered")
    /\ rpThrown' = [rpThrown EXCEPT ![r] = e]
    /\ rpAnswer' = [rpAnswer EXCEPT ![r] = Stamped(r, Resolved(e).status, Resolved(e).code)]

Proceed(r, pc) == Go(r, pc) /\ UNCHANGED <<rpThrown, rpAnswer>>

AfterGuards(route) == IF route.post THEN "key" ELSE "pipe"

\* RequestContext.run(): a store of its own, with its counters at zero.
OpenScope(r) == rpStore' = [rpStore EXCEPT ![r] = 0]

\* recordCache(), in the store of whoever runs.
CountCacheCall(r) == rpStore' = [rpStore EXCEPT ![StoreOf(r)] = @ + 1]

InvalidToken == Thrown("http", 401, "ERR_TOKEN_INVALID")
Unknown == Thrown("other", 500, "none")
DatabaseDown == Thrown("prisma", 500, "P1001")

\* What the handlers throw, by route; the health check rethrows a database error.
HandlerErrors ==
    [health |-> {Thrown("http", 503, "none"), DatabaseDown},
     me |-> {Thrown("api", 404, "ERR_USER_NOT_FOUND"), DatabaseDown},
     list |-> {DatabaseDown},
     register |-> {Thrown("api", 409, "ERR_EMAIL_ALREADY_EXISTS"),
                   Thrown("prisma", 409, "P2002"), DatabaseDown},
     commit |-> {Thrown("api", 404, "ERR_FILE_NOT_FOUND"), Unknown}]
----------------------------------------------------------------------------
\* The body parser or CORS refuses it before the scope is opened: the filter
\* answers without request and timing.
RpRefuseEarly(r) ==
    /\ rpPc[r] = "away"
    /\ \E in \in Inputs :
         /\ in.body = "malformed"
         /\ rpIn' = [rpIn EXCEPT ![r] = in]
    /\ \E status \in {400, 500} :       \* bad JSON; too large, or a foreign origin
         LET e == IF status = 400 THEN Thrown("http", 400, "none") ELSE Unknown
         IN  /\ rpThrown' = [rpThrown EXCEPT ![r] = e]
             /\ rpAnswer' = [rpAnswer EXCEPT ![r] =
                               [status |-> status, code |-> Resolved(e).code, id |-> 0, ops |-> 0]]
    /\ Go(r, "answered")
    /\ UNCHANGED <<rpStore, rpSaved, rpRow, rpChanges, rpRowRead, rpOps>>

\* The three middlewares, the throttler, and the bearer check of a public route;
\* no roles are asked for there.
RpEnter(r) ==
    /\ rpPc[r] = "away"
    /\ \E in \in Inputs :
         LET route == Routes[in.route]
         IN  /\ in.body # "malformed"
             /\ rpIn' = [rpIn EXCEPT ![r] = in]
             /\ OpenScope(r)
             /\ \/ /\ Go(r, "answered")
                   /\ rpThrown' = [rpThrown EXCEPT ![r] = Thrown("http", 429, "none")]
                   /\ rpAnswer' = [rpAnswer EXCEPT ![r] =
                                     [status |-> 429, code |-> "ERR_HTTP_n", id |-> r, ops |-> 0]]
                \/ Proceed(r, IF route.public THEN AfterGuards(route) ELSE "token")
    /\ UNCHANGED <<rpSaved, rpRow, rpChanges, rpRowRead, rpOps>>

\* validate() reads the row; an error of the read, too, ends in handleRequest()'s
\* 401.  The roles guard follows without an await.  The global guards do so, and
\* then the same guards again, which the controllers name: a second read.
RpAuthenticate(r) ==
    /\ rpPc[r] \in {"token", "recheck"}
    /\ \/ Fail(r, InvalidToken) /\ UNCHANGED rpRowRead
       \/ /\ rpIn[r].token = "valid" /\ rpRow \notin {"suspended", "deleted"}
          /\ rpRowRead' = [rpRowRead EXCEPT ![r] = rpRow]
          /\ IF ~Permitted(r)
               THEN Fail(r, Thrown("http", 403, "ERR_INSUFFICIENT_PERMISSIONS"))
               ELSE Proceed(r, IF rpPc[r] = "token" THEN "recheck"
                               ELSE AfterGuards(Routes[rpIn[r].route]))
    /\ UNCHANGED <<rpIn, rpStore, rpSaved, rpRow, rpChanges, rpOps>>

\* A keyed request gets the body saved under its key, whole; without a key a
\* repeat is refused; an old record counts for nothing.
RpLookUp(r) ==
    /\ rpPc[r] = "key"
    /\ LET key == rpIn[r].key
           first == rpSaved[key]
           same == first # 0 /\ rpIn[first].route = rpIn[r].route /\ rpIn[first].body = rpIn[r].body
       IN  \/ Proceed(r, "pipe")
           \/ /\ same /\ key # "none"
              /\ Go(r, "answered")
              /\ rpAnswer' = [rpAnswer EXCEPT ![r] = rpAnswer[first]]
              /\ UNCHANGED rpThrown
           \/ same /\ key = "none" /\ Fail(r, Thrown("api", 409, "ERR_DUPLICATE_REQUEST"))
           \/ /\ first # 0 /\ ~same /\ key # "none"
              /\ Fail(r, Thrown("api", 422, "ERR_IDEMPOTENCY_KEY_MISMATCH"))
    /\ UNCHANGED <<rpIn, rpStore, rpSaved, rpRow, rpChanges, rpRowRead, rpOps>>

RpValidate(r) ==
    /\ rpPc[r] = "pipe"
    /\ IF rpIn[r].body = "invalid" THEN Fail(r, Thrown("http", 400, "ERR_VALIDATION_FAILED"))
                                   ELSE Proceed(r, "work")
    /\ UNCHANGED <<rpIn, rpStore, rpSaved, rpRow, rpChanges, rpRowRead, rpOps>>

\* A cache call of the handler is over, for better or worse: recordCache().
RpUseCache(r) ==
    /\ rpPc[r] = "work" /\ Routes[rpIn[r].route].cached /\ rpOps[r] < MaxCacheOps
    /\ CountCacheCall(r)
    /\ rpOps' = [rpOps EXCEPT ![r] = @ + 1]
    /\ UNCHANGED <<rpPc, rpIn, rpThrown, rpAnswer, rpSaved, rpRow, rpChanges, rpRowRead>>

\* The handler is done: the response interceptor stamps its envelope, and the
\* idempotency interceptor around it has yet to save that.
RpFinish(r) ==
    /\ rpPc[r] = "work"
    /\ \/ /\ rpAnswer' = [rpAnswer EXCEPT ![r] =
                            Stamped(r, IF Routes[rpIn[r].route].post THEN 201 ELSE 200, "none")]
          /\ Go(r, IF Routes[rpIn[r].route].post THEN "store" ELSE "answered")
          /\ UNCHANGED rpThrown
       \/ \E e \in HandlerErrors[rpIn[r].route] : Fail(r, e)
    /\ UNCHANGED <<rpIn, rpStore, rpSaved, rpRow, rpChanges, rpRowRead, rpOps>>

\* storeRecord(), whose failure is only logged.
RpSave(r) ==
    /\ rpPc[r] = "store"
    /\ Proceed(r, "answered")
    /\ rpSaved' \in {rpSaved, [rpSaved EXCEPT ![rpIn[r].key] = r]}
    /\ UNCHANGED <<rpIn, rpStore, rpRow, rpChanges, rpRowRead, rpOps>>

\* An administrator, or the user's own removal.
RpChangeRow ==
    /\ rpChanges < MaxRowChanges
    /\ rpChanges' = rpChanges + 1
    /\ rpRow' \in Rows \ {rpRow}
    /\ UNCHANGED <<rpPc, rpIn, rpStore, rpThrown, rpAnswer, rpSaved, rpRowRead, rpOps>>

RpNext ==
    \/ \E r \in RequestIds :
         \/ RpRefuseEarly(r) \/ RpEnter(r) \/ RpAuthenticate(r) \/ RpLookUp(r)
         \/ RpValidate(r) \/ RpUseCache(r) \/ RpFinish(r) \/ RpSave(r)
    \/ RpChangeRow

RpSpec == RpInit /\ [][RpNext]_rpVars
----------------------------------------------------------------------------
\* However requests interleave, an answer carries the id of its own request and
\* counts its own cache calls and no other's; but for one refused before its scope
\* was opened, and a replay, which carries those of the request it repeats.
OwnDiagnostics ==
    \A r \in RequestIds : rpPc[r] = "answered" =>
        \/ rpAnswer[r].id = r /\ rpAnswer[r].ops = rpOps[r]
        \/ rpIn[r].body = "malformed" /\ rpAnswer[r].id = 0
        \/ /\ rpIn[r].key # "none"
           /\ \E q \in RequestIds \ {r} :
                rpPc[q] = "answered" /\ rpIn[q].key = rpIn[r].key /\ rpAnswer[r] = rpAnswer[q]

\* A request gets past the guards of a route that is not public only with a valid
\* token of an account that was active when this request read its row, and, where
\* an administrator is asked for, was one then, whatever its token says.
CurrentRole ==
    \A r \in RequestIds :
        rpPc[r] \in {"key", "pipe", "work", "store"} /\ ~Routes[rpIn[r].route].public =>
            /\ rpIn[r].token = "valid"
            /\ rpRowRead[r] \in {"user", "admin"}
            /\ Routes[rpIn[r].route].admin => rpRowRead[r] = "admin"

\* Inductive: a store counts the calls of its request, an answer under way is
\* stamped already, and a record holds an answer that went out under its key.
RpProgress ==
    /\ \A r \in RequestIds :
         /\ IF rpPc[r] = "away" THEN rpOps[r] = 0 ELSE rpIn[r] \in Inputs
         /\ rpPc[r] \notin {"away", "answered"} => rpStore[r] = rpOps[r]
         /\ rpPc[r] = "store" => rpAnswer[r].id = r /\ rpAnswer[r].ops = rpOps[r]
    /\ \A k \in IdempotencyKeys : rpSaved[k] # 0 =>
         rpPc[rpSaved[k]] = "answered" /\ rpIn[rpSaved[k]].key = k

RpInv == RpTypeOK /\ RpProgress /\ OwnDiagnostics /\ CurrentRole
=============================================================================
