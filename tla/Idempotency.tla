---------------------------- MODULE Idempotency ----------------------------
(***************************************************************************)
(* The global IdempotencyInterceptor: every non-multipart POST looks up an *)
(* earlier record, runs its handler when it finds none, and stores the     *)
(* response.  Each await (lookup, delete, handler, create) is an action of *)
(* its own, so requests interleave as they do on the event loop of one     *)
(* instance or across the instances that share the database.               *)
(*                                                                         *)
(* A response body is named by the request whose handler produced it.      *)
(* Other methods and multipart requests bypass the interceptor and never   *)
(* enter the model.                                                        *)
(***************************************************************************)
EXTENDS Naturals

CONSTANTS
    Requests,   \* the POST requests of a run, each an HTTP call of its own
    Keys,       \* Idempotency-Key values
    NoKey,      \* the header is absent (stored as NULL)
    EmptyKey,   \* the header is present and empty: falsy, yet not NULL
    Hashes,     \* SHA-256(method:path:stableBody)
    Clients,    \* who sends a request; no part of the hash
    KeyedTtl,   \* KEYED_TTL_MS
    HashTtl,    \* HASH_TTL_MS
    MaxTime     \* bound on the clock

ASSUME KeysAssumption == NoKey \notin Keys /\ EmptyKey \notin Keys /\ NoKey # EmptyKey
ASSUME TimeAssumption == KeyedTtl \in Nat /\ HashTtl \in Nat /\ MaxTime \in Nat

VARIABLES
    clock,      \* Date.now()
    records,    \* the idempotency_records table
    pc,         \* where each request stands in intercept()
    call,       \* what each request carries, and its `now`
    ranAt,      \* when its handler took effect
    answer,     \* what its client was answered
    ran,        \* history: the requests whose handler took effect
    stored,     \* history: the requests whose create() succeeded
    prior,      \* history: `stored` when a request arrived
    purgers     \* history: the requests whose delete() removed a record

vars == <<clock, records, pc, call, ranAt, answer, ran, stored, prior, purgers>>

HeaderValues == Keys \cup {NoKey, EmptyKey}
Calls == [key : HeaderValues, hash : Hashes, client : Clients, now : Nat]
Records == [key : HeaderValues, hash : Hashes, body : Requests,
            createdAt : Nat, expiresAt : Nat]
PCs == {"idle", "lookup", "purge", "handle", "store", "done", "lost"}
Answers == [kind : {"none", "error", "fresh", "replay", "mismatch", "duplicate"},
            of : Requests]

TypeOK ==
    /\ clock \in Nat
    /\ records \subseteq Records
    /\ pc \in [Requests -> PCs]
    /\ call \in [Requests -> Calls]
    /\ ranAt \in [Requests -> Nat]
    /\ answer \in [Requests -> Answers]
    /\ ran \subseteq Requests
    /\ stored \subseteq Requests
    /\ prior \in [Requests -> SUBSET Requests]
    /\ purgers \subseteq Requests

Init ==
    /\ clock = 0
    /\ records = {}
    /\ pc = [r \in Requests |-> "idle"]
    /\ call \in [Requests -> [key : HeaderValues, hash : Hashes,
                              client : Clients, now : {0}]]
    /\ ranAt = [r \in Requests |-> 0]
    /\ answer = [r \in Requests |-> [kind |-> "none", of |-> r]]
    /\ ran = {}
    /\ stored = {}
    /\ prior = [r \in Requests |-> {}]
    /\ purgers = {}
----------------------------------------------------------------------------
\* `if (idempotencyKey)`: an empty header value takes the hash-only path.
Keyed(r) == call[r].key \in Keys

\* The row findUnique can return, if there is one.
RecordsOfKey(r) == {rec \in records : rec.key = call[r].key}

\* Mutant: a record is dropped already in the last instant it is valid.
ExpiredAtBoundary(r, rec) == rec.expiresAt <= call[r].now

Expired(r, rec) == rec.expiresAt < call[r].now

\* Mutants: keyed rows match too; the raw header is looked up, '' for NULL.
DuplicatesOfAnyKey(r) ==
    {rec \in records : /\ rec.hash = call[r].hash
                       /\ rec.createdAt + HashTtl >= call[r].now
                       /\ rec.expiresAt > call[r].now}
DuplicatesOfHeader(r) == {rec \in DuplicatesOfAnyKey(r) : rec.key = call[r].key}

\* The rows the hash-only findFirst can return.
Duplicates(r) ==
    {rec \in records : /\ rec.hash = call[r].hash
                       /\ rec.key = NoKey
                       /\ rec.createdAt + HashTtl >= call[r].now
                       /\ rec.expiresAt > call[r].now}

\* The record is computed when the handler returns; createdAt is the insert's.
ExpiresAt(r) == ranAt[r] + (IF Keyed(r) THEN KeyedTtl ELSE HashTtl)

\* Mutant: the response body is not stored.
NewRecordNoBody(r) == [key |-> call[r].key, hash |-> call[r].hash,
                       createdAt |-> clock, expiresAt |-> ExpiresAt(r)]

NewRecord(r) == [key |-> call[r].key, hash |-> call[r].hash, body |-> r,
                 createdAt |-> clock, expiresAt |-> ExpiresAt(r)]

\* Mutant: the column has no unique index.
NeverConflicts(r) == FALSE

\* The unique index on idempotency_key: NULLs never collide, '' does.
Conflicts(r) == call[r].key # NoKey /\ RecordsOfKey(r) # {}

Goto(r, label) == pc' = [pc EXCEPT ![r] = label]

\* Ends r with an answer taken from the response, or the record, of e.
Reply(r, kind, e) ==
    Goto(r, "done") /\ answer' = [answer EXCEPT ![r] = [kind |-> kind, of |-> e]]
----------------------------------------------------------------------------
\* A POST arrives; `now` is taken before the lookup is awaited.
Receive(r) ==
    /\ pc[r] = "idle"
    /\ Goto(r, "lookup")
    /\ call' = [call EXCEPT ![r].now = clock]
    /\ prior' = [prior EXCEPT ![r] = stored]
    /\ UNCHANGED <<clock, records, ranAt, answer, ran, stored, purgers>>

FindKeyed(r) ==
    /\ pc[r] = "lookup"
    /\ Keyed(r)
    /\ \/ /\ RecordsOfKey(r) = {}
          /\ Goto(r, "handle")
          /\ UNCHANGED answer
       \/ \E rec \in RecordsOfKey(r) :
            \/ /\ Expired(r, rec)
               /\ Goto(r, "purge")
               /\ UNCHANGED answer
            \/ /\ ~Expired(r, rec)
               /\ rec.hash # call[r].hash
               /\ Reply(r, "mismatch", rec.body)
            \/ /\ ~Expired(r, rec)
               /\ rec.hash = call[r].hash
               /\ Reply(r, "replay", rec.body)
    /\ UNCHANGED <<clock, records, call, ranAt, ran, stored, prior, purgers>>

\* Deletes by key, whatever row holds the key by now; any error is swallowed.
PurgeExpired(r) ==
    /\ pc[r] = "purge"
    /\ \/ /\ records' = records \ RecordsOfKey(r)
          /\ purgers' = IF RecordsOfKey(r) = {} THEN purgers ELSE purgers \cup {r}
       \/ UNCHANGED <<records, purgers>>
    /\ Goto(r, "handle")
    /\ UNCHANGED <<clock, call, ranAt, answer, ran, stored, prior>>

FindDuplicate(r) ==
    /\ pc[r] = "lookup"
    /\ ~Keyed(r)
    /\ \/ /\ Duplicates(r) = {}
          /\ Goto(r, "handle")
          /\ UNCHANGED answer
       \/ \E rec \in Duplicates(r) :
            Reply(r, "duplicate", rec.body)
    /\ UNCHANGED <<clock, records, call, ranAt, ran, stored, prior, purgers>>

\* The lookup or the handler throws: nothing is stored, the filter answers.
Fail(r) ==
    /\ pc[r] \in {"lookup", "handle"}
    /\ Reply(r, "error", r)
    /\ UNCHANGED <<clock, records, call, ranAt, ran, stored, prior, purgers>>

TakeEffect(r) ==
    /\ pc[r] = "handle"
    /\ ranAt' = [ranAt EXCEPT ![r] = clock]
    /\ ran' = ran \cup {r}

\* The handler takes effect and returns its response.
Handle(r) ==
    /\ TakeEffect(r)
    /\ Goto(r, "store")
    /\ UNCHANGED <<clock, records, call, answer, stored, prior, purgers>>

\* It takes effect, then throws: AuthService.register creates the user, and
\* saveRefreshToken fails.  Again nothing is stored.
FailLate(r) ==
    /\ TakeEffect(r)
    /\ Reply(r, "error", r)
    /\ UNCHANGED <<clock, records, call, stored, prior, purgers>>

\* create(): a unique violation is ignored, any other failure is only logged;
\* the response goes out in all three cases.
Store(r) ==
    /\ pc[r] = "store"
    /\ \/ /\ ~Conflicts(r)
          /\ records' = records \cup {NewRecord(r)}
          /\ stored' = stored \cup {r}
       \/ UNCHANGED <<records, stored>>
    /\ Reply(r, "fresh", r)
    /\ UNCHANGED <<clock, call, ranAt, ran, prior, purgers>>

\* The instance serving the request dies, or its connection does, at any await.
Crash(r) ==
    /\ pc[r] \in {"lookup", "purge", "handle", "store"}
    /\ Goto(r, "lost")
    /\ UNCHANGED <<clock, records, call, ranAt, answer, ran, stored, prior, purgers>>

Tick ==
    /\ clock < MaxTime
    /\ clock' = clock + 1
    /\ UNCHANGED <<records, pc, call, ranAt, answer, ran, stored, prior, purgers>>

Next ==
    \/ Tick
    \/ \E r \in Requests :
         \/ Receive(r) \/ FindKeyed(r) \/ PurgeExpired(r) \/ FindDuplicate(r)
         \/ Fail(r) \/ Handle(r) \/ FailLate(r) \/ Store(r) \/ Crash(r)

Spec == Init /\ [][Next]_vars
----------------------------------------------------------------------------
\* Two requests under one live key; two of the same fingerprint.
SameKey(e, r) == Keyed(e) /\ call[e].key = call[r].key
SameHash(e, r) == call[e].hash = call[r].hash

(***************************************************************************)
(* A 409, a 422 or a replay answers a request only because of a record     *)
(* that an earlier request of the same key (or, for a 409, of the same     *)
(* fingerprint and no key) stored, valid at this request's `now`: a replay *)
(* is the body that handler really produced for the same fingerprint.      *)
(***************************************************************************)
AnswersJustified ==
    \A r \in Requests : LET e == answer[r].of IN
        /\ answer[r].kind \in {"replay", "mismatch"} =>
              /\ e \in stored /\ e # r /\ SameKey(e, r)
              /\ call[r].now <= ExpiresAt(e)
              /\ SameHash(e, r) <=> answer[r].kind = "replay"
        /\ answer[r].kind = "duplicate" =>
              /\ e \in stored /\ e # r /\ SameHash(e, r)
              /\ call[e].key = NoKey /\ ~Keyed(r)
              /\ call[r].now < ExpiresAt(e)

(***************************************************************************)
(* "Same key + same body: original response replayed (no reprocessing)",   *)
(* as far as the code keeps it.  A request that arrives after a record was *)
(* stored under its key does not run its handler while that record is      *)
(* valid, unless a third request, itself received before the record was    *)
(* stored, read an older expired row and then deleted by key.              *)
(***************************************************************************)
NoReprocessing ==
    \A e, r \in Requests :
        /\ e \in prior[r] /\ SameKey(e, r) /\ r \in ran
        /\ ranAt[r] <= ExpiresAt(e)
        => \E d \in purgers : SameKey(e, d) /\ e \notin prior[d]

(***************************************************************************)
(* The double-submit guard: a request without a key whose fingerprint was  *)
(* stored before it arrived, and not expired at its `now`, never runs.     *)
(***************************************************************************)
NoDoubleSubmit ==
    \A e, r \in Requests :
        /\ e \in prior[r] /\ SameHash(e, r)
        /\ call[e].key = NoKey /\ ~Keyed(r)
        /\ call[r].now < ExpiresAt(e)
        => r \notin ran
(***************************************************************************)
(* What the documentation says without the races.                          *)
(*                                                                         *)
(* idempotency.interceptor.ts:68-69 and 226-227: when create() loses the   *)
(* race for a key, both requests produced the same response.               *)
(***************************************************************************)
RacersAgree ==
    [][\A b \in Requests :
         pc[b] = "store" /\ pc'[b] = "done" /\ Conflicts(b) =>
             \A rec \in RecordsOfKey(b) : answer'[b].of = rec.body]_vars

(***************************************************************************)
(* docs/API.md:37: a retry with the same key and body gets the original    *)
(* response, with no reprocessing, for as long as the key has not expired. *)
(***************************************************************************)
RetryReplayed ==
    \A e, r \in Requests :
        /\ e \in prior[r] /\ SameKey(e, r) /\ SameHash(e, r)
        /\ ranAt[r] <= ExpiresAt(e)
        => r \notin ran
----------------------------------------------------------------------------
(***************************************************************************)
(* The interceptor implements IdempotentRequest.  A keyed record answers   *)
(* the requests of its key, one without a key those without a usable key   *)
(* that have its fingerprint, and one filed under an empty key none.       *)
(***************************************************************************)
Bond ==
    [p \in Requests \X Requests |->
        IF SameKey(p[1], p[2])
        THEN IF SameHash(p[1], p[2]) THEN "replay" ELSE "refuse"
        ELSE IF call[p[1]].key = NoKey /\ ~Keyed(p[2]) /\ SameHash(p[1], p[2])
             THEN "refuse" ELSE "none"]

KeyedRequests == {r \in Requests : Keyed(r)}

OnRecord == {rec.body : rec \in records}

\* The two boundaries: a keyed record is valid in its last instant, others not.
LapsedAt(e, now) == IF Keyed(e) THEN ExpiresAt(e) < now ELSE ExpiresAt(e) <= now

Lapsed == {e \in stored : LapsedAt(e, clock)}
Spent == [r \in Requests |-> {e \in prior[r] : LapsedAt(e, call[r].now)}]

Progress ==
    [idle |-> "none", lookup |-> "pending", purge |-> "pending", handle |-> "pending",
     store |-> "pending", done |-> "done", lost |-> "lost"]
Verdict == [none |-> "none", error |-> "error", fresh |-> "fresh", replay |-> "replay",
            mismatch |-> "refuse", duplicate |-> "refuse"]

Outcomes ==
    [r \in Requests |->
        IF pc[r] = "done" THEN [is |-> Verdict[answer[r].kind], of |-> answer[r].of]
                          ELSE [is |-> Progress[pc[r]], of |-> r]]

Promise == INSTANCE IdempotentRequest WITH
    bond <- Bond,
    keyed <- KeyedRequests,
    effects <- ran,
    filed <- stored,
    recorded <- OnRecord,
    lapsed <- Lapsed,
    known <- prior,
    old <- Spent,
    outcome <- Outcomes

Refines == Promise!Spec
----------------------------------------------------------------------------
(* The strengthening that makes the three properties inductive.            *)

\* What the steps of a request leave behind, and when.
Timeline ==
    /\ stored \subseteq ran
    /\ \A r \in Requests :
         /\ call[r].now <= clock /\ ranAt[r] <= clock
         /\ pc[r] = "store" => r \in ran
         /\ r \in ran => pc[r] \in {"store", "done", "lost"}
         /\ r \in stored => pc[r] = "done"
         /\ r \in ran => call[r].now <= ranAt[r]
         /\ r \in purgers => pc[r] # "idle"
         /\ pc[r] = "purge" => Keyed(r)
         /\ answer[r].kind # "none" => pc[r] = "done"
         /\ prior[r] \subseteq stored

\* Every row is what its request stored, and a key has at most one row.
RowsFaithful ==
    /\ \A rec \in records :
         /\ rec.body \in stored
         /\ rec.key = call[rec.body].key /\ rec.hash = call[rec.body].hash
         /\ rec.expiresAt = ExpiresAt(rec.body) /\ ranAt[rec.body] <= rec.createdAt
    /\ \A a, b \in records : a.key = b.key /\ a.key # NoKey => a = b

HasRow(e) == \E rec \in records : rec.body = e

\* A delete that took e's row, or could have: e expired, or was not there yet.
Purged(e) == \E d \in purgers : /\ SameKey(e, d)
                                /\ e \notin prior[d] \/ ExpiresAt(e) < call[d].now

\* Rows disappear by deletes only, and only rows with a usable key.
RowsKept == \A e \in stored : HasRow(e) \/ Purged(e)

\* A request about to delete saw every row it knew of expired.
PurgesStale ==
    \A d \in Requests : pc[d] = "purge" =>
        \A e \in prior[d] : SameKey(e, d) /\ HasRow(e) => ExpiresAt(e) < call[d].now

\* A request past its lookup missed only records that are gone or expired.
LookupMissed ==
    \A r \in Requests : pc[r] = "handle" =>
        \A e \in prior[r] :
            /\ SameKey(e, r) => Purged(e) \/ ExpiresAt(e) < call[r].now
            /\ SameHash(e, r) /\ call[e].key = NoKey /\ ~Keyed(r)
                 => ExpiresAt(e) <= call[r].now

IInv ==
    /\ TypeOK /\ Timeline /\ RowsFaithful /\ RowsKept /\ PurgesStale /\ LookupMissed
    /\ AnswersJustified /\ NoReprocessing /\ NoDoubleSubmit

(* What the refinement needs besides: what a request past its lookup still *)
(* finds in the table it saw expired, and it deletes only where it saw it. *)
StandsStale ==
    \A r \in Requests : pc[r] = "handle" =>
        \A e \in prior[r] : SameKey(e, r) /\ HasRow(e) => ExpiresAt(e) < call[r].now

PurgesOwed ==
    \A r \in Requests : pc[r] = "purge" =>
        \E e \in stored : SameKey(e, r) /\ ExpiresAt(e) < call[r].now

RInv == IInv /\ StandsStale /\ PurgesOwed
=============================================================================
