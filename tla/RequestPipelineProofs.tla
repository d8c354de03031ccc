------------------------ MODULE RequestPipelineProofs ------------------------
(***************************************************************************)
(* Proofs about RequestPipeline, for any number of requests, any inputs    *)
(* and any bounds.  A step is of one request, so that a property of every  *)
(* request is kept if the one that moves keeps it: StepKeeps says so once, *)
(* and each action then shows what it does to its own request.             *)
(***************************************************************************)
EXTENDS RequestPipeline, TLAPS

Exceptions == [kind : {"none", "api", "http", "prisma", "other"}, status : Statuses, code : Codes]
Answers == [status : Statuses, code : Codes, id : RequestIds \cup {0}, ops : Nat]
Awaits == {"away", "token", "recheck", "key", "pipe", "work", "store", "answered"}

\* The three per-request parts of the invariant.
Counted(r) ==
    /\ IF rpPc[r] = "away" THEN rpOps[r] = 0 ELSE rpIn[r] \in Inputs
    /\ rpPc[r] \notin {"away", "answered"} => rpStore[r] = rpOps[r]
    /\ rpPc[r] = "store" => rpAnswer[r].id = r /\ rpAnswer[r].ops = rpOps[r]

Own(r) ==
    rpPc[r] = "answered" =>
        \/ rpAnswer[r].id = r /\ rpAnswer[r].ops = rpOps[r]
        \/ rpIn[r].body = "malformed" /\ rpAnswer[r].id = 0
        \/ /\ rpIn[r].key # "none"
           /\ \E q \in RequestIds \ {r} :
                rpPc[q] = "answered" /\ rpIn[q].key = rpIn[r].key /\ rpAnswer[r] = rpAnswer[q]

Guarded(r) ==
    rpPc[r] \in {"key", "pipe", "work", "store"} /\ ~Routes[rpIn[r].route].public =>
        /\ rpIn[r].token = "valid"
        /\ rpRowRead[r] \in {"user", "admin"}
        /\ Routes[rpIn[r].route].admin => rpRowRead[r] = "admin"

Saved == \A k \in IdempotencyKeys : rpSaved[k] # 0 =>
           rpPc[rpSaved[k]] = "answered" /\ rpIn[rpSaved[k]].key = k

(* The invariant, request by request.                                      *)
LEMMA RpInvParts ==
    RpInv <=> /\ RpTypeOK /\ Saved
              /\ \A r \in RequestIds : Counted(r) /\ Own(r) /\ Guarded(r)
BY DEF RpInv, RpProgress, OwnDiagnostics, CurrentRole, Counted, Own, Guarded, Saved

(* No step but of another request: what it may not touch of the others.    *)
OthersKept(r) == \A q \in RequestIds \ {r} :
    /\ rpPc'[q] = rpPc[q] /\ rpIn'[q] = rpIn[q] /\ rpStore'[q] = rpStore[q]
    /\ rpAnswer'[q] = rpAnswer[q] /\ rpRowRead'[q] = rpRowRead[q] /\ rpOps'[q] = rpOps[q]

(* A step of one request that keeps its own part keeps the invariant: what *)
(* has been answered is answered for good.                                 *)
LEMMA StepKeeps ==
    ASSUME RpInv, NEW r \in RequestIds, rpPc[r] # "answered", OthersKept(r), RpTypeOK',
           Counted(r)', Own(r)', Guarded(r)',
           \/ rpSaved' = rpSaved
           \/ /\ rpSaved' = [rpSaved EXCEPT ![rpIn[r].key] = r]
              /\ rpPc'[r] = "answered" /\ rpIn'[r] = rpIn[r]
    PROVE  RpInv'
<1>1. ASSUME NEW q \in RequestIds PROVE Counted(q)' /\ Own(q)' /\ Guarded(q)'
  <2>1. CASE q = r
    BY <2>1
  <2>2. CASE q # r
    <3>1. Counted(q)' /\ Guarded(q)'
      BY <2>2, RpInvParts DEF OthersKept, Counted, Guarded
    <3>2. Own(q)'
      BY <2>2, RpInvParts DEF OthersKept, Own
    <3>3. QED
      BY <3>1, <3>2
  <2>3. QED
    BY <2>1, <2>2
<1>2. Saved'
  <2> SUFFICES ASSUME NEW k \in IdempotencyKeys, rpSaved'[k] # 0
               PROVE  rpPc'[rpSaved'[k]] = "answered" /\ rpIn'[rpSaved'[k]].key = k
    BY DEF Saved
  <2>1. rpSaved \in [IdempotencyKeys -> RequestIds \cup {0}]
    BY RpInvParts DEF RpTypeOK
  <2>2. CASE rpSaved'[k] = rpSaved[k]
    <3>1. rpSaved[k] \in RequestIds /\ rpPc[rpSaved[k]] = "answered" /\ rpIn[rpSaved[k]].key = k
      BY <2>1, <2>2, RpInvParts DEF Saved
    <3>2. rpSaved[k] \in RequestIds \ {r}
      BY <3>1
    <3>3. QED
      BY <2>2, <3>1, <3>2 DEF OthersKept
  <2>3. CASE rpSaved'[k] # rpSaved[k]
    <3>1. k = rpIn[r].key /\ rpSaved'[k] = r /\ rpPc'[r] = "answered" /\ rpIn'[r] = rpIn[r]
      BY <2>1, <2>3
    <3>2. QED
      BY <3>1
  <2>4. QED
    BY <2>2, <2>3
<1>3. QED
  BY <1>1, <1>2 DEF RpInv, RpProgress, OwnDiagnostics, CurrentRole, Counted, Own, Guarded, Saved

(* Before any request the invariant holds.                                 *)
LEMMA RpInitInv == RpInit => RpInv
<1> SUFFICES ASSUME RpInit PROVE RpInv
  OBVIOUS
<1>1. RpTypeOK
  <2>1. NoError \in Exceptions
    BY DEF NoError, Thrown, Exceptions, Statuses, Codes
  <2>2. NoAnswer \in Answers
    BY DEF NoAnswer, Answers, Statuses, Codes
  <2>3. QED
    BY <2>1, <2>2, PipelineAssumption DEF RpInit, RpTypeOK, Exceptions, Answers, Rows
<1>2. Saved
  BY DEF RpInit, Saved
<1>3. ASSUME NEW r \in RequestIds PROVE Counted(r) /\ Own(r) /\ Guarded(r)
  BY DEF RpInit, Counted, Own, Guarded
<1>4. QED
  BY <1>1, <1>2, <1>3, RpInvParts

(* Every exception resolves to a status and a code.                        *)
LEMMA ResolvedType ==
    ASSUME NEW e \in Exceptions
    PROVE  Resolved(e).status \in Statuses /\ Resolved(e).code \in Codes
<1> USE DEF Resolved
<1>1. CASE e.kind \in {"api", "http"}
  BY <1>1 DEF Exceptions, Codes
<1>2. CASE e.kind = "prisma" /\ e.code \in DOMAIN PrismaResponses
  <2>1. Resolved(e) = PrismaResponses[e.code] /\ e.code \in {"P2002", "P2025", "P2003"}
    BY <1>2 DEF PrismaResponse, PrismaResponses
  <2>2. /\ PrismaResponses["P2002"] = [status |-> 409, code |-> "ERR_UNIQUE_CONSTRAINT"]
        /\ PrismaResponses["P2025"] = [status |-> 404, code |-> "ERR_RECORD_NOT_FOUND"]
        /\ PrismaResponses["P2003"] = [status |-> 400, code |-> "ERR_FOREIGN_KEY_CONSTRAINT"]
    BY DEF PrismaResponses
  <2>3. \A code \in {"P2002", "P2025", "P2003"} :
          PrismaResponses[code].status \in Statuses /\ PrismaResponses[code].code \in Codes
    BY <2>2 DEF Statuses, Codes
  <2>4. QED
    BY <2>1, <2>3
<1>3. CASE e.kind = "prisma" /\ e.code \notin DOMAIN PrismaResponses
  <2>1. Resolved(e) = [status |-> 500, code |-> "ERR_DATABASE"]
    BY <1>3 DEF PrismaResponse
  <2>2. QED
    BY <2>1 DEF Statuses, Codes
<1>4. CASE e.kind \notin {"api", "http", "prisma"}
  <2>1. Resolved(e) = [status |-> 500, code |-> "ERR_INTERNAL_SERVER"]
    BY <1>4
  <2>2. QED
    BY <2>1 DEF Statuses, Codes
<1>5. QED
  BY <1>1, <1>2, <1>3, <1>4

(* A request that fails in its scope is stamped with its own id and count. *)
LEMMA FailStamps ==
    ASSUME RpTypeOK, NEW r \in RequestIds, NEW e \in Exceptions, Fail(r, e)
    PROVE  /\ rpPc' = [rpPc EXCEPT ![r] = "answered"]
           /\ rpThrown' \in [RequestIds -> Exceptions]
           /\ rpAnswer' \in [RequestIds -> Answers]
           /\ rpAnswer'[r].id = r /\ rpAnswer'[r].ops = rpStore[r]
           /\ \A q \in RequestIds \ {r} : rpAnswer'[q] = rpAnswer[q]
<1>1. rpAnswer \in [RequestIds -> Answers] /\ rpThrown \in [RequestIds -> Exceptions]
  BY DEF RpTypeOK, Answers, Exceptions
<1>2. rpStore[r] \in Nat
  BY DEF RpTypeOK
<1> DEFINE stamped == [status |-> Resolved(e).status, code |-> Resolved(e).code,
                       id |-> r, ops |-> rpStore[r]]
<1>3. rpAnswer' = [rpAnswer EXCEPT ![r] = stamped] /\ rpThrown' = [rpThrown EXCEPT ![r] = e]
  BY DEF Fail, Stamped, StoreOf
<1>4. stamped \in Answers
  BY <1>2, ResolvedType DEF Answers
<1>5. stamped.id = r /\ stamped.ops = rpStore[r]
  OBVIOUS
<1>6. rpPc' = [rpPc EXCEPT ![r] = "answered"]
  BY DEF Fail, Go
<1> HIDE DEF stamped
<1>7. QED
  BY <1>1, <1>3, <1>4, <1>5, <1>6

(* A failure inside the scope keeps the invariant.                         *)
LEMMA FailInv ==
    ASSUME RpInv, NEW r \in RequestIds, rpPc[r] \notin {"away", "answered"},
           NEW e \in Exceptions, Fail(r, e),
           UNCHANGED <<rpIn, rpStore, rpSaved, rpRow, rpChanges, rpRowRead, rpOps>>
    PROVE  RpInv'
<1>1. RpTypeOK /\ Counted(r)
  BY RpInvParts
<1>2. /\ rpPc' = [rpPc EXCEPT ![r] = "answered"]
      /\ rpThrown' \in [RequestIds -> Exceptions]
      /\ rpAnswer' \in [RequestIds -> Answers]
      /\ rpAnswer'[r].id = r /\ rpAnswer'[r].ops = rpStore[r]
      /\ \A q \in RequestIds \ {r} : rpAnswer'[q] = rpAnswer[q]
  BY <1>1, FailStamps
<1>3. rpPc \in [RequestIds -> Awaits]
  BY <1>1 DEF RpTypeOK, Awaits
<1>4. rpPc'[r] = "answered" /\ OthersKept(r)
  BY <1>2, <1>3 DEF OthersKept
<1>5. RpTypeOK'
  BY <1>1, <1>2 DEF RpTypeOK, Exceptions, Answers
<1>6. Counted(r)' /\ Own(r)' /\ Guarded(r)'
  BY <1>1, <1>2, <1>4 DEF Counted, Own, Guarded
<1>7. QED
  BY <1>4, <1>5, <1>6, StepKeeps

(* A step that only moves on, from one await to the next in the scope.     *)
LEMMA ProceedInv ==
    ASSUME RpInv, NEW r \in RequestIds, rpPc[r] \notin {"away", "store", "answered"},
           NEW pc \in {"token", "recheck", "key", "pipe", "work"}, Proceed(r, pc),
           UNCHANGED <<rpIn, rpStore, rpSaved, rpRow, rpChanges, rpOps>>,
           rpRowRead' = rpRowRead \/ rpRowRead' = [rpRowRead EXCEPT ![r] = rpRow],
           Guarded(r)'
    PROVE  RpInv'
<1>1. RpTypeOK /\ Counted(r)
  BY RpInvParts
<1>2. rpPc' = [rpPc EXCEPT ![r] = pc] /\ rpThrown' = rpThrown /\ rpAnswer' = rpAnswer
  BY DEF Proceed, Go
<1>3. rpPc \in [RequestIds -> Awaits] /\ rpRowRead \in [RequestIds -> Rows \cup {"none"}] /\ rpRow \in Rows
  BY <1>1 DEF RpTypeOK, Awaits
<1>4. rpPc'[r] = pc /\ OthersKept(r)
  BY <1>2, <1>3 DEF OthersKept
<1>5. RpTypeOK'
  BY <1>1, <1>2, <1>3 DEF RpTypeOK
<1>6. Counted(r)' /\ Own(r)'
  BY <1>1, <1>4 DEF Counted, Own
<1>7. QED
  BY <1>4, <1>5, <1>6, StepKeeps
----------------------------------------------------------------------------
(* A request refused by the body parser is answered without a scope.       *)
LEMMA RefuseEarlyInv == ASSUME RpInv, NEW r \in RequestIds, RpRefuseEarly(r) PROVE RpInv'
<1>1. RpTypeOK
  BY RpInvParts
<1>2. PICK in \in Inputs : in.body = "malformed" /\ rpIn' = [rpIn EXCEPT ![r] = in]
  BY DEF RpRefuseEarly
<1>3. PICK status \in {400, 500} :
        LET e == IF status = 400 THEN Thrown("http", 400, "none") ELSE Unknown
        IN  /\ rpThrown' = [rpThrown EXCEPT ![r] = e]
            /\ rpAnswer' = [rpAnswer EXCEPT ![r] =
                              [status |-> status, code |-> Resolved(e).code, id |-> 0, ops |-> 0]]
  BY DEF RpRefuseEarly
<1> DEFINE thrown == IF status = 400 THEN Thrown("http", 400, "none") ELSE Unknown
           early == [status |-> status, code |-> Resolved(thrown).code, id |-> 0, ops |-> 0]
<1>4. rpThrown' = [rpThrown EXCEPT ![r] = thrown] /\ rpAnswer' = [rpAnswer EXCEPT ![r] = early]
  BY <1>3
<1>5. thrown \in Exceptions
  BY DEF Thrown, Unknown, Exceptions, Statuses, Codes
<1>6. early \in Answers /\ early.id = 0
  <2> HIDE DEF thrown
  <2>1. Resolved(thrown).code \in Codes
    BY <1>5, ResolvedType
  <2>2. QED
    BY <2>1 DEF Answers, Statuses
<1> HIDE DEF thrown, early
<1>7. /\ rpPc[r] = "away" /\ rpPc' = [rpPc EXCEPT ![r] = "answered"]
      /\ UNCHANGED <<rpStore, rpSaved, rpRow, rpChanges, rpRowRead, rpOps>>
  BY DEF RpRefuseEarly, Go
<1>8. RpTypeOK'
  BY <1>1, <1>2, <1>4, <1>5, <1>6, <1>7 DEF RpTypeOK, Exceptions, Answers
<1>9. rpPc'[r] = "answered" /\ rpIn'[r] = in /\ rpAnswer'[r].id = 0 /\ OthersKept(r)
  BY <1>1, <1>2, <1>4, <1>5, <1>6, <1>7 DEF RpTypeOK, OthersKept
<1>10. Counted(r)' /\ Own(r)' /\ Guarded(r)'
  BY <1>2, <1>9 DEF Counted, Own, Guarded
<1>11. QED
  BY <1>7, <1>8, <1>9, <1>10, StepKeeps

(* A request enters with counters at zero, or is throttled at once.        *)
LEMMA EnterInv == ASSUME RpInv, NEW r \in RequestIds, RpEnter(r) PROVE RpInv'
<1>1. RpTypeOK /\ Counted(r)
  BY RpInvParts
<1>2. PICK in \in Inputs :
        /\ rpIn' = [rpIn EXCEPT ![r] = in] /\ OpenScope(r)
        /\ \/ /\ Go(r, "answered")
              /\ rpThrown' = [rpThrown EXCEPT ![r] = Thrown("http", 429, "none")]
              /\ rpAnswer' = [rpAnswer EXCEPT ![r] =
                                [status |-> 429, code |-> "ERR_HTTP_n", id |-> r, ops |-> 0]]
           \/ Proceed(r, IF Routes[in.route].public THEN AfterGuards(Routes[in.route]) ELSE "token")
  BY DEF RpEnter
<1>3. /\ rpPc[r] = "away" /\ rpOps[r] = 0
      /\ rpStore' = [rpStore EXCEPT ![r] = 0]
      /\ UNCHANGED <<rpSaved, rpRow, rpChanges, rpRowRead, rpOps>>
  BY <1>1, <1>2 DEF RpEnter, OpenScope, Counted
<1>4. rpIn'[r] = in /\ rpStore'[r] = 0 /\ rpOps'[r] = 0
  BY <1>1, <1>2, <1>3 DEF RpTypeOK
<1>5. CASE /\ Go(r, "answered")
           /\ rpThrown' = [rpThrown EXCEPT ![r] = Thrown("http", 429, "none")]
           /\ rpAnswer' = [rpAnswer EXCEPT ![r] =
                             [status |-> 429, code |-> "ERR_HTTP_n", id |-> r, ops |-> 0]]
  <2>1. Thrown("http", 429, "none") \in Exceptions
    BY DEF Thrown, Exceptions, Statuses, Codes
  <2>2. [status |-> 429, code |-> "ERR_HTTP_n", id |-> r, ops |-> 0] \in Answers
    <3>1. 429 \in Statuses /\ "ERR_HTTP_n" \in Codes
      BY DEF Statuses, Codes
    <3>2. QED
      BY <3>1 DEF Answers
  <2>3. RpTypeOK'
    BY <1>1, <1>2, <1>3, <1>5, <2>1, <2>2 DEF RpTypeOK, Go, Exceptions, Answers
  <2>4. rpPc'[r] = "answered" /\ rpAnswer'[r].id = r /\ rpAnswer'[r].ops = 0 /\ OthersKept(r)
    BY <1>1, <1>2, <1>3, <1>5 DEF RpTypeOK, Go, OthersKept
  <2>5. Counted(r)' /\ Own(r)' /\ Guarded(r)'
    BY <1>4, <2>4 DEF Counted, Own, Guarded
  <2>6. QED
    BY <1>3, <2>3, <2>4, <2>5, StepKeeps
<1>6. CASE Proceed(r, IF Routes[in.route].public THEN AfterGuards(Routes[in.route]) ELSE "token")
  <2>1. PICK pc \in {"token", "key", "pipe"} :
          /\ Proceed(r, pc)
          /\ pc # "token" => Routes[in.route].public
    BY <1>6 DEF AfterGuards
  <2>2. rpPc' = [rpPc EXCEPT ![r] = pc] /\ rpThrown' = rpThrown /\ rpAnswer' = rpAnswer
    BY <2>1 DEF Proceed, Go
  <2>3. RpTypeOK'
    BY <1>1, <1>2, <1>3, <2>2 DEF RpTypeOK
  <2>4. rpPc'[r] = pc /\ OthersKept(r)
    BY <1>1, <1>2, <1>3, <2>2 DEF RpTypeOK, OthersKept
  <2>5. Counted(r)' /\ Own(r)'
    BY <1>4, <2>4 DEF Counted, Own
  <2>6. Guarded(r)'
    BY <1>4, <2>1, <2>4 DEF Guarded
  <2>7. QED
    BY <1>3, <2>3, <2>4, <2>5, <2>6, StepKeeps
<1>7. QED
  BY <1>2, <1>5, <1>6

(* The bearer check and the roles guard judge the row of this very read.   *)
LEMMA AuthenticateInv == ASSUME RpInv, NEW r \in RequestIds, RpAuthenticate(r) PROVE RpInv'
<1>1. /\ RpTypeOK /\ rpPc[r] \in {"token", "recheck"}
      /\ UNCHANGED <<rpIn, rpStore, rpSaved, rpRow, rpChanges, rpOps>>
  BY RpInvParts DEF RpAuthenticate
<1>2. CASE Fail(r, InvalidToken) /\ UNCHANGED rpRowRead
  <2>1. InvalidToken \in Exceptions
    BY DEF InvalidToken, Thrown, Exceptions, Statuses, Codes
  <2>2. QED
    BY <1>1, <1>2, <2>1, FailInv
<1>3. CASE /\ rpIn[r].token = "valid" /\ rpRow \notin {"suspended", "deleted"}
           /\ rpRowRead' = [rpRowRead EXCEPT ![r] = rpRow]
           /\ IF ~Permitted(r)
                THEN Fail(r, Thrown("http", 403, "ERR_INSUFFICIENT_PERMISSIONS"))
                ELSE Proceed(r, IF rpPc[r] = "token" THEN "recheck"
                                ELSE AfterGuards(Routes[rpIn[r].route]))
  <2>1. rpRowRead'[r] = rpRow /\ rpRow \in {"user", "admin"}
    BY <1>1, <1>3 DEF RpTypeOK, Rows
  <2>2. CASE ~Permitted(r) /\ Fail(r, Thrown("http", 403, "ERR_INSUFFICIENT_PERMISSIONS"))
    <3> DEFINE e == Thrown("http", 403, "ERR_INSUFFICIENT_PERMISSIONS")
    <3>1. e \in Exceptions
      BY DEF Thrown, Exceptions, Statuses, Codes
    <3>2. /\ rpPc' = [rpPc EXCEPT ![r] = "answered"]
          /\ rpThrown' \in [RequestIds -> Exceptions]
          /\ rpAnswer' \in [RequestIds -> Answers]
          /\ rpAnswer'[r].id = r /\ rpAnswer'[r].ops = rpStore[r]
          /\ \A q \in RequestIds \ {r} : rpAnswer'[q] = rpAnswer[q]
      BY <1>1, <2>2, <3>1, FailStamps
    <3>3. rpPc'[r] = "answered" /\ OthersKept(r)
      BY <1>1, <1>3, <3>2 DEF RpTypeOK, OthersKept
    <3>4. RpTypeOK'
      BY <1>1, <1>3, <3>2 DEF RpTypeOK, Exceptions, Answers
    <3>5. Counted(r)' /\ Own(r)' /\ Guarded(r)'
      BY <1>1, <3>2, <3>3, RpInvParts DEF Counted, Own, Guarded
    <3>6. QED
      BY <1>1, <3>3, <3>4, <3>5, StepKeeps
  <2>3. CASE /\ Permitted(r)
             /\ Proceed(r, IF rpPc[r] = "token" THEN "recheck" ELSE AfterGuards(Routes[rpIn[r].route]))
    <3>1. PICK pc \in {"recheck", "key", "pipe"} : Proceed(r, pc)
      BY <2>3 DEF AfterGuards
    <3>2. Routes[rpIn[r].route].admin => rpRow = "admin"
      BY <2>3 DEF Permitted, RoleOf
    <3>3. rpIn' = rpIn
      BY <1>1
    <3>4. Guarded(r)'
      BY <1>3, <2>1, <3>2, <3>3 DEF Guarded
    <3>5. QED
      BY <1>1, <1>3, <3>1, <3>4, ProceedInv
  <2>4. QED
    BY <1>3, <2>2, <2>3
<1>4. QED
  BY <1>2, <1>3 DEF RpAuthenticate

(* A replay is the answer of the request whose record its key holds.       *)
LEMMA LookUpInv == ASSUME RpInv, NEW r \in RequestIds, RpLookUp(r) PROVE RpInv'
<1>1. /\ RpTypeOK /\ Saved /\ Counted(r) /\ Guarded(r) /\ rpPc[r] = "key"
      /\ UNCHANGED <<rpIn, rpStore, rpSaved, rpRow, rpChanges, rpRowRead, rpOps>>
  BY RpInvParts DEF RpLookUp
<1> DEFINE key == rpIn[r].key
           first == rpSaved[key]
<1>2. CASE Proceed(r, "pipe")
  <2>1. Guarded(r)'
    BY <1>1 DEF Guarded
  <2>2. QED
    BY <1>1, <1>2, <2>1, ProceedInv
<1>3. CASE /\ first # 0 /\ key # "none" /\ Go(r, "answered")
           /\ rpAnswer' = [rpAnswer EXCEPT ![r] = rpAnswer[first]]
           /\ UNCHANGED rpThrown
  <2>1. key \in IdempotencyKeys
    BY <1>1, PipelineAssumption DEF RpTypeOK, NoInput, IdempotencyKeys
  <2>2. first \in RequestIds /\ rpPc[first] = "answered" /\ rpIn[first].key = key
    BY <1>1, <1>3, <2>1 DEF RpTypeOK, Saved
  <2>3. first \in RequestIds \ {r}
    BY <1>1, <2>2
  <2>4. rpPc' = [rpPc EXCEPT ![r] = "answered"]
    BY <1>3 DEF Go
  <2>5. /\ rpPc'[r] = "answered" /\ rpAnswer'[r] = rpAnswer[first] /\ OthersKept(r)
        /\ rpPc'[first] = "answered" /\ rpAnswer'[first] = rpAnswer[first]
    BY <1>1, <1>3, <2>2, <2>3, <2>4 DEF RpTypeOK, OthersKept
  <2>6. RpTypeOK'
    BY <1>1, <1>3, <2>2, <2>4 DEF RpTypeOK
  <2>7. Counted(r)' /\ Own(r)' /\ Guarded(r)'
    BY <1>1, <1>3, <2>2, <2>3, <2>5 DEF Counted, Own, Guarded
  <2>8. QED
    BY <1>1, <2>5, <2>6, <2>7, StepKeeps
<1>4. CASE Fail(r, Thrown("api", 409, "ERR_DUPLICATE_REQUEST"))
  <2>1. Thrown("api", 409, "ERR_DUPLICATE_REQUEST") \in Exceptions
    BY DEF Thrown, Exceptions, Statuses, Codes
  <2>2. QED
    BY <1>1, <1>4, <2>1, FailInv
<1>5. CASE Fail(r, Thrown("api", 422, "ERR_IDEMPOTENCY_KEY_MISMATCH"))
  <2>1. Thrown("api", 422, "ERR_IDEMPOTENCY_KEY_MISMATCH") \in Exceptions
    BY DEF Thrown, Exceptions, Statuses, Codes
  <2>2. QED
    BY <1>1, <1>5, <2>1, FailInv
<1>6. QED
  BY <1>2, <1>3, <1>4, <1>5 DEF RpLookUp

(* The validation pipe lets a request on, or it fails.                     *)
LEMMA ValidateInv == ASSUME RpInv, NEW r \in RequestIds, RpValidate(r) PROVE RpInv'
<1>1. /\ rpPc[r] = "pipe" /\ Guarded(r)
      /\ UNCHANGED <<rpIn, rpStore, rpSaved, rpRow, rpChanges, rpRowRead, rpOps>>
  BY RpInvParts DEF RpValidate
<1>2. CASE Fail(r, Thrown("http", 400, "ERR_VALIDATION_FAILED"))
  <2>1. Thrown("http", 400, "ERR_VALIDATION_FAILED") \in Exceptions
    BY DEF Thrown, Exceptions, Statuses, Codes
  <2>2. QED
    BY <1>1, <1>2, <2>1, FailInv
<1>3. CASE Proceed(r, "work")
  <2>1. Guarded(r)'
    BY <1>1 DEF Guarded
  <2>2. QED
    BY <1>1, <1>3, <2>1, ProceedInv
<1>4. QED
  BY <1>2, <1>3 DEF RpValidate

(* A cache call is counted in the store of the request that made it.       *)
LEMMA UseCacheInv == ASSUME RpInv, NEW r \in RequestIds, RpUseCache(r) PROVE RpInv'
<1>1. /\ RpTypeOK /\ Counted(r) /\ Guarded(r) /\ rpPc[r] = "work" /\ rpOps[r] < MaxCacheOps
      /\ rpStore' = [rpStore EXCEPT ![r] = @ + 1] /\ rpOps' = [rpOps EXCEPT ![r] = @ + 1]
      /\ UNCHANGED <<rpPc, rpIn, rpThrown, rpAnswer, rpSaved, rpRow, rpChanges, rpRowRead>>
  BY RpInvParts DEF RpUseCache, CountCacheCall, StoreOf
<1>2. /\ rpOps'[r] = rpOps[r] + 1 /\ rpStore'[r] = rpStore[r] + 1 /\ OthersKept(r)
      /\ rpOps[r] + 1 \in 0..MaxCacheOps
  BY <1>1, PipelineAssumption DEF RpTypeOK, OthersKept
<1>3. RpTypeOK'
  <2>1. rpOps' \in [RequestIds -> 0..MaxCacheOps] /\ rpStore' \in [RequestIds -> Nat]
    BY <1>1, <1>2 DEF RpTypeOK
  <2>2. QED
    BY <1>1, <2>1 DEF RpTypeOK
<1>4. Counted(r)' /\ Own(r)' /\ Guarded(r)'
  BY <1>1, <1>2 DEF Counted, Own, Guarded
<1>5. QED
  BY <1>1, <1>2, <1>3, <1>4, StepKeeps

(* What the handlers throw is typed.                                       *)
LEMMA HandlerErrorType ==
    ASSUME NEW route \in DOMAIN Routes, NEW e \in HandlerErrors[route]
    PROVE  e \in Exceptions
<1>1. DatabaseDown \in Exceptions /\ Unknown \in Exceptions
  BY DEF DatabaseDown, Unknown, Thrown, Exceptions, Statuses, Codes
<1>2. CASE route = "health"
  <2>1. HandlerErrors[route] = {Thrown("http", 503, "none"), DatabaseDown}
    BY <1>2 DEF HandlerErrors
  <2>2. Thrown("http", 503, "none") \in Exceptions
    BY DEF Thrown, Exceptions, Statuses, Codes
  <2>3. QED
    BY <1>1, <2>1, <2>2
<1>3. CASE route = "me"
  <2>1. HandlerErrors[route] = {Thrown("api", 404, "ERR_USER_NOT_FOUND"), DatabaseDown}
    BY <1>3 DEF HandlerErrors
  <2>2. Thrown("api", 404, "ERR_USER_NOT_FOUND") \in Exceptions
    BY DEF Thrown, Exceptions, Statuses, Codes
  <2>3. QED
    BY <1>1, <2>1, <2>2
<1>4. CASE route = "list"
  <2>1. HandlerErrors[route] = {DatabaseDown}
    BY <1>4 DEF HandlerErrors
  <2>2. QED
    BY <1>1, <2>1
<1>5. CASE route = "register"
  <2>1. HandlerErrors[route] = {Thrown("api", 409, "ERR_EMAIL_ALREADY_EXISTS"),
                                Thrown("prisma", 409, "P2002"), DatabaseDown}
    BY <1>5 DEF HandlerErrors
  <2>2. /\ Thrown("api", 409, "ERR_EMAIL_ALREADY_EXISTS") \in Exceptions
        /\ Thrown("prisma", 409, "P2002") \in Exceptions
    BY DEF Thrown, Exceptions, Statuses, Codes
  <2>3. QED
    BY <1>1, <2>1, <2>2
<1>6. CASE route = "commit"
  <2>1. HandlerErrors[route] = {Thrown("api", 404, "ERR_FILE_NOT_FOUND"), Unknown}
    BY <1>6 DEF HandlerErrors
  <2>2. Thrown("api", 404, "ERR_FILE_NOT_FOUND") \in Exceptions
    BY DEF Thrown, Exceptions, Statuses, Codes
  <2>3. QED
    BY <1>1, <2>1, <2>2
<1>7. QED
  BY <1>2, <1>3, <1>4, <1>5, <1>6 DEF Routes

(* A handler that is done is stamped with its own id and count.            *)
LEMMA FinishInv == ASSUME RpInv, NEW r \in RequestIds, RpFinish(r) PROVE RpInv'
<1>1. /\ RpTypeOK /\ Counted(r) /\ Guarded(r) /\ rpPc[r] = "work"
      /\ UNCHANGED <<rpIn, rpStore, rpSaved, rpRow, rpChanges, rpRowRead, rpOps>>
  BY RpInvParts DEF RpFinish
<1>2. CASE /\ rpAnswer' = [rpAnswer EXCEPT ![r] =
                            Stamped(r, IF Routes[rpIn[r].route].post THEN 201 ELSE 200, "none")]
           /\ Go(r, IF Routes[rpIn[r].route].post THEN "store" ELSE "answered")
           /\ UNCHANGED rpThrown
  <2>1. PICK status \in {200, 201}, pc \in {"store", "answered"} :
          /\ rpAnswer' = [rpAnswer EXCEPT ![r] =
                            [status |-> status, code |-> "none", id |-> r, ops |-> rpStore[r]]]
          /\ rpPc' = [rpPc EXCEPT ![r] = pc]
    <3>1. CASE Routes[rpIn[r].route].post
      <4>1. /\ rpAnswer' = [rpAnswer EXCEPT ![r] =
                              [status |-> 201, code |-> "none", id |-> r, ops |-> rpStore[r]]]
            /\ rpPc' = [rpPc EXCEPT ![r] = "store"]
        BY <1>2, <3>1 DEF Stamped, StoreOf, Go
      <4>2. QED
        BY <4>1
    <3>2. CASE ~Routes[rpIn[r].route].post
      <4>1. /\ rpAnswer' = [rpAnswer EXCEPT ![r] =
                              [status |-> 200, code |-> "none", id |-> r, ops |-> rpStore[r]]]
            /\ rpPc' = [rpPc EXCEPT ![r] = "answered"]
        BY <1>2, <3>2 DEF Stamped, StoreOf, Go
      <4>2. QED
        BY <4>1
    <3>3. QED
      BY <3>1, <3>2
  <2>2. [status |-> status, code |-> "none", id |-> r, ops |-> rpStore[r]] \in Answers
    <3>1. status \in Statuses /\ "none" \in Codes /\ rpStore[r] \in Nat
      BY <1>1 DEF RpTypeOK, Statuses, Codes
    <3>2. QED
      BY <3>1 DEF Answers
  <2>3. RpTypeOK'
    BY <1>1, <1>2, <2>1, <2>2 DEF RpTypeOK, Answers
  <2>4. /\ rpPc'[r] = pc /\ rpAnswer'[r].id = r /\ rpAnswer'[r].ops = rpStore[r] /\ OthersKept(r)
    BY <1>1, <2>1 DEF RpTypeOK, OthersKept
  <2>5. Counted(r)' /\ Own(r)' /\ Guarded(r)'
    BY <1>1, <2>4 DEF Counted, Own, Guarded
  <2>6. QED
    BY <1>1, <2>3, <2>4, <2>5, StepKeeps
<1>3. CASE \E e \in HandlerErrors[rpIn[r].route] : Fail(r, e)
  <2>1. PICK e \in HandlerErrors[rpIn[r].route] : Fail(r, e)
    BY <1>3
  <2>2. rpIn[r].route \in DOMAIN Routes
    BY <1>1, PipelineAssumption DEF Counted
  <2>3. e \in Exceptions
    BY <2>1, <2>2, HandlerErrorType
  <2>4. QED
    BY <1>1, <2>1, <2>3, FailInv
<1>4. QED
  BY <1>2, <1>3 DEF RpFinish

(* A record names the request that is answered by the same step.           *)
LEMMA SaveInv == ASSUME RpInv, NEW r \in RequestIds, RpSave(r) PROVE RpInv'
<1>1. /\ RpTypeOK /\ Counted(r) /\ rpPc[r] = "store"
      /\ rpPc' = [rpPc EXCEPT ![r] = "answered"]
      /\ rpSaved' = rpSaved \/ rpSaved' = [rpSaved EXCEPT ![rpIn[r].key] = r]
      /\ UNCHANGED <<rpThrown, rpAnswer, rpIn, rpStore, rpRow, rpChanges, rpRowRead, rpOps>>
  BY RpInvParts DEF RpSave, Proceed, Go
<1>2. rpPc'[r] = "answered" /\ OthersKept(r)
  BY <1>1 DEF RpTypeOK, OthersKept
<1>3. RpTypeOK'
  BY <1>1 DEF RpTypeOK
<1>4. Counted(r)' /\ Own(r)' /\ Guarded(r)'
  BY <1>1, <1>2 DEF Counted, Own, Guarded
<1>5. QED
  BY <1>1, <1>2, <1>3, <1>4, StepKeeps

(* The row changes under requests that have read it.                       *)
LEMMA ChangeRowInv == ASSUME RpInv, RpChangeRow PROVE RpInv'
<1>1. rpChanges' \in 0..MaxRowChanges /\ rpRow' \in Rows
  BY PipelineAssumption DEF RpChangeRow, RpInv, RpTypeOK
<1>2. RpTypeOK'
  BY <1>1 DEF RpChangeRow, RpInv, RpTypeOK
<1>3. QED
  BY <1>2 DEF RpChangeRow, RpInv, RpProgress, OwnDiagnostics, CurrentRole
----------------------------------------------------------------------------
(* The strengthened invariant of the pipeline is inductive.                *)
THEOREM PipelineInvariance == RpSpec => []RpInv
<1>1. RpInit => RpInv
  BY RpInitInv
<1>2. RpInv /\ [RpNext]_rpVars => RpInv'
  <2>1. RpInv /\ UNCHANGED rpVars => RpInv'
    BY DEF rpVars, RpInv, RpTypeOK, RpProgress, OwnDiagnostics, CurrentRole
  <2>2. QED
    BY <2>1, RefuseEarlyInv, EnterInv, AuthenticateInv, LookUpInv, ValidateInv, UseCacheInv,
       FinishInv, SaveInv, ChangeRowInv DEF RpNext
<1>3. QED
  BY <1>1, <1>2, PTL DEF RpSpec

(* An answer carries its own id and count, or is a named exception.        *)
THEOREM AnswersAreOwn == RpSpec => []OwnDiagnostics
BY PipelineInvariance, PTL DEF RpInv

(* Behind the guards the row this request read was good enough.            *)
THEOREM RoleIsCurrent == RpSpec => []CurrentRole
BY PipelineInvariance, PTL DEF RpInv
=============================================================================
