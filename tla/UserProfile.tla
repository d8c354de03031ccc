---------------------------- MODULE UserProfile ----------------------------
(***************************************************************************)
(* UserService over one user row and the profile cache: cache-aside reads, *)
(* updates and soft deletes that write the row and then drop the cached    *)
(* profile.  The cache is the in-memory store of each server instance;     *)
(* CacheService swallows every cache failure.  Keys of different users     *)
(* never meet but for LRU eviction, which Evict stands for.                *)
(*                                                                         *)
(* Every write of the row gives it the next revision; a cached profile or  *)
(* an answer is named by the revision it was read at.                      *)
(***************************************************************************)
EXTENDS Naturals

CONSTANTS
    Instances,  \* server processes, each with a cache of its own
    Requests,   \* the requests of a run
    Ttl,        \* profile TTL (300 s)
    MaxTime     \* bound on the clock

ASSUME BoundsAssumption == Ttl \in Nat /\ MaxTime \in Nat

VARIABLES
    clock,
    row,        \* the users row: its revision, and whether deletedAt is set
    cache,      \* user:{id} in the cache of each instance
    pc,         \* where each request stands
    job,        \* what each request does, and the instance that serves it
    rev,        \* the revision a request returned, read or wrote
    answer,     \* what its client was answered
    endedAt,    \* history: when
    filled,     \* history: the reads that stored their profile in a cache
    cleared,    \* history: the writes whose cache del() worked
    prior       \* history: the requests answered before it arrived

vars == <<clock, row, cache, pc, job, rev, answer, endedAt, filled, cleared, prior>>

Ops == {"read", "update", "remove"}
NoEntry == [rev |-> 0, until |-> 0]
PCs == {"idle", "start", "load", "fill", "write", "clear", "done", "lost"}
Answers == {"none", "cached", "ok", "notFound", "error"}

TypeOK ==
    /\ clock \in Nat
    /\ row \in [rev : Nat, deleted : BOOLEAN]
    /\ cache \in [Instances -> [rev : Nat, until : Nat]]
    /\ pc \in [Requests -> PCs]
    /\ job \in [Requests -> [op : Ops, at : Instances]]
    /\ rev \in [Requests -> Nat]
    /\ answer \in [Requests -> Answers]
    /\ endedAt \in [Requests -> Nat]
    /\ filled \subseteq Requests
    /\ cleared \subseteq Requests
    /\ prior \in [Requests -> SUBSET Requests]

\* The user exists; revision 0 is left to the empty cache entry.
Init ==
    /\ clock = 0
    /\ row = [rev |-> 1, deleted |-> FALSE]
    /\ cache = [i \in Instances |-> NoEntry]
    /\ pc = [r \in Requests |-> "idle"]
    /\ job \in [Requests -> [op : Ops, at : Instances]]
    /\ rev = [r \in Requests |-> 0]
    /\ answer = [r \in Requests |-> "none"]
    /\ endedAt = [r \in Requests |-> 0]
    /\ filled = {}
    /\ cleared = {}
    /\ prior = [r \in Requests |-> {}]
----------------------------------------------------------------------------
\* Mutant: set() without a TTL, so that an entry stays until it is evicted.
HitForever(i) == cache[i] # NoEntry

\* The store returns an entry until its TTL has passed.
Hit(i) == cache[i] # NoEntry /\ clock <= cache[i].until

Goto(r, label) == pc' = [pc EXCEPT ![r] = label]

Reply(r, a) ==
    /\ Goto(r, "done")
    /\ answer' = [answer EXCEPT ![r] = a]
    /\ endedAt' = [endedAt EXCEPT ![r] = clock]

\* Mutant: the profile is stored without its expiry.
EntryNoTtl(n) == [rev |-> n]

Entry(n) == [rev |-> n, until |-> clock + Ttl]

SetCache(i, entry) == cache' = [cache EXCEPT ![i] = entry]
----------------------------------------------------------------------------
Arrive(r) ==
    /\ pc[r] = "idle"
    /\ Goto(r, IF job[r].op = "read" THEN "start" ELSE "load")
    /\ prior' = [prior EXCEPT ![r] = {q \in Requests : pc[q] = "done"}]
    /\ UNCHANGED <<clock, row, cache, job, rev, answer, endedAt, filled, cleared>>

\* findById: cache.get, which reports a miss when the cache fails.
LookupCache(r) ==
    /\ pc[r] = "start"
    /\ LET i == job[r].at IN
       \/ /\ Hit(i)
          /\ rev' = [rev EXCEPT ![r] = cache[i].rev]
          /\ Reply(r, "cached")
       \/ /\ Goto(r, "load")
          /\ UNCHANGED <<rev, answer, endedAt>>
    /\ UNCHANGED <<clock, row, cache, job, filled, cleared, prior>>

\* Mutant: `if (!user)` without `user.deletedAt`.
LoadAnyRow(r) ==
    /\ pc[r] = "load"
    /\ rev' = [rev EXCEPT ![r] = row.rev]
    /\ Goto(r, IF job[r].op = "read" THEN "fill" ELSE "write")
    /\ UNCHANGED <<clock, row, cache, job, answer, endedAt, filled, cleared, prior>>

\* userRepository.findById and the check all three operations make.
LoadRow(r) ==
    /\ pc[r] = "load"
    /\ \/ /\ row.deleted
          /\ Reply(r, "notFound")
          /\ UNCHANGED rev
       \/ /\ ~row.deleted
          /\ rev' = [rev EXCEPT ![r] = row.rev]
          /\ Goto(r, IF job[r].op = "read" THEN "fill" ELSE "write")
          /\ UNCHANGED <<answer, endedAt>>
       \/ /\ Reply(r, "error")
          /\ UNCHANGED rev
    /\ UNCHANGED <<clock, row, cache, job, filled, cleared, prior>>

\* cache.set, which may fail in silence, and the answer.
FillCache(r) ==
    /\ pc[r] = "fill"
    /\ \/ /\ SetCache(job[r].at, Entry(rev[r]))
          /\ filled' = filled \cup {r}
       \/ UNCHANGED <<cache, filled>>
    /\ Reply(r, "ok")
    /\ UNCHANGED <<clock, row, job, rev, cleared, prior>>

\* update() and softDelete() write by id alone, whatever became of the row.
WriteRow(r) ==
    /\ pc[r] = "write"
    /\ \/ /\ row' = [rev |-> row.rev + 1,
                     deleted |-> row.deleted \/ job[r].op = "remove"]
          /\ rev' = [rev EXCEPT ![r] = row.rev + 1]
          /\ Goto(r, "clear")
          /\ UNCHANGED <<answer, endedAt>>
       \/ /\ Reply(r, "error")
          /\ UNCHANGED <<row, rev>>
    /\ UNCHANGED <<clock, cache, job, filled, cleared, prior>>

\* Mutant: del() of a key that findById never uses.
ClearOtherKey(r) ==
    /\ pc[r] = "clear"
    /\ cleared' = cleared \cup {r}
    /\ Reply(r, "ok")
    /\ UNCHANGED <<clock, row, cache, job, rev, filled, prior>>

\* cache.del on this instance, which may fail in silence, and the answer.
ClearCache(r) ==
    /\ pc[r] = "clear"
    /\ \/ /\ SetCache(job[r].at, NoEntry)
          /\ cleared' = cleared \cup {r}
       \/ UNCHANGED <<cache, cleared>>
    /\ Reply(r, "ok")
    /\ UNCHANGED <<clock, row, job, rev, filled, prior>>

\* The LRU store (max 1000 entries) drops the profile for that of another user.
Evict(i) ==
    /\ cache[i] # NoEntry
    /\ SetCache(i, NoEntry)
    /\ UNCHANGED <<clock, row, pc, job, rev, answer, endedAt, filled, cleared, prior>>

\* An instance dies and comes back: its cache and its requests are lost.
Restart(i) ==
    /\ SetCache(i, NoEntry)
    /\ pc' = [r \in Requests |->
                IF job[r].at = i /\ pc[r] \notin {"idle", "done"} THEN "lost" ELSE pc[r]]
    /\ UNCHANGED <<clock, row, job, rev, answer, endedAt, filled, cleared, prior>>

Tick ==
    /\ clock < MaxTime
    /\ clock' = clock + 1
    /\ UNCHANGED <<row, cache, pc, job, rev, answer, endedAt, filled, cleared, prior>>

Next ==
    \/ Tick
    \/ \E i \in Instances : Evict(i) \/ Restart(i)
    \/ \E r \in Requests :
         \/ Arrive(r) \/ LookupCache(r) \/ LoadRow(r) \/ FillCache(r)
         \/ WriteRow(r) \/ ClearCache(r)

Spec == Init /\ [][Next]_vars
----------------------------------------------------------------------------
IsRead(r) == job[r].op = "read"
GotProfile(r) == IsRead(r) /\ answer[r] \in {"cached", "ok"}

\* w wrote the row and cleared the cache of r's instance before r arrived.
SettledBefore(w, r) ==
    /\ w \in prior[r] /\ w \in cleared
    /\ job[w].at = job[r].at

\* A read of the same instance that was under way during w put this revision
\* back into the cache.
LateFill(w, i, n) ==
    \E x \in filled : /\ job[x].at = i /\ rev[x] = n
                      /\ x \notin prior[w] /\ w \notin prior[x]

(***************************************************************************)
(* A read that arrives after an update or remove was answered, on the      *)
(* instance that served it and with the cache reachable, returns what that *)
(* write left or something newer, unless a read that was under way during  *)
(* the write filled the cache with what it had read before it.             *)
(***************************************************************************)
ReadsFresh ==
    \A w, r \in Requests :
        SettledBefore(w, r) /\ GotProfile(r) /\ rev[r] < rev[w]
        => LateFill(w, job[r].at, rev[r])

(***************************************************************************)
(* After a remove was answered, updates and removes get a 404 whatever the *)
(* instance, and so do reads that miss the cache; a read can still get the *)
(* profile from the cache only if the del() failed or was done on another  *)
(* instance, or a late fill brought it back.                               *)
(***************************************************************************)
RemovedIsGone ==
    \A d, r \in Requests :
        /\ job[d].op = "remove" /\ answer[d] = "ok" /\ d \in prior[r]
        /\ answer[r] \in {"cached", "ok"}
        => /\ answer[r] = "cached" /\ rev[r] < rev[d]
           /\ SettledBefore(d, r) => LateFill(d, job[r].at, rev[r])

(***************************************************************************)
(* A cached answer repeats what an earlier read of the same instance found *)
(* in the database and stored at most one TTL ago.                         *)
(***************************************************************************)
HitsJustified ==
    \A r \in Requests : answer[r] = "cached" =>
        \E x \in filled : /\ job[x].at = job[r].at /\ rev[x] = rev[r]
                          /\ endedAt[x] <= endedAt[r] /\ endedAt[r] <= endedAt[x] + Ttl

(***************************************************************************)
(* user.service.ts:29: findById throws 404 if the user is soft-deleted.    *)
(***************************************************************************)
RemovedIsNotFound ==
    \A d, r \in Requests :
        job[d].op = "remove" /\ SettledBefore(d, r) => ~GotProfile(r)
----------------------------------------------------------------------------
(* The strengthening that makes ReadsFresh and HitsJustified inductive;    *)
(* RemovedIsGone follows from it.                                          *)

\* What each step of a request leaves behind, and when.
Timeline ==
    \A r \in Requests :
        /\ answer[r] # "none" => pc[r] = "done"
        /\ pc[r] \in {"start", "fill"} => IsRead(r)
        /\ pc[r] \in {"write", "clear"} => ~IsRead(r)
        /\ answer[r] = "cached" => IsRead(r)
        /\ r \in filled => IsRead(r) /\ answer[r] = "ok"
        /\ r \in cleared => ~IsRead(r) /\ answer[r] = "ok"
        /\ pc[r] = "idle" => prior[r] = {}
        /\ \A q \in prior[r] : pc[q] = "done"
        /\ endedAt[r] <= clock /\ rev[r] <= row.rev

\* The request found a live row and has its revision.
Loaded(r) == IsRead(r) /\ (pc[r] = "fill" \/ answer[r] = "ok")

Removed(d) == job[d].op = "remove" /\ (pc[d] = "clear" \/ answer[d] = "ok")

\* A loaded revision is at least that of every write answered before.
LoadsFresh ==
    \A r \in Requests : \A w \in prior[r] :
        Loaded(r) /\ w \in cleared => rev[w] <= rev[r]

\* A live revision is older than every remove; nothing is loaded after one.
LoadsLive ==
    \A d \in Requests : Removed(d) =>
        /\ row.deleted
        /\ \A r \in Requests :
             /\ Loaded(r) \/ answer[r] = "cached" => rev[r] < rev[d]
             /\ d \in prior[r] /\ answer[d] = "ok" =>
                  /\ pc[r] \notin {"fill", "write", "clear"} /\ answer[r] # "ok"

\* A cached profile was stored by a read, and outlives a clearing write only
\* by a late fill.
CacheExplained ==
    \A i \in Instances : cache[i] # NoEntry =>
        /\ \E x \in filled : /\ job[x].at = i /\ rev[x] = cache[i].rev
                             /\ cache[i].until = endedAt[x] + Ttl
        /\ \A w \in cleared : job[w].at = i /\ cache[i].rev < rev[w]
                              => LateFill(w, i, cache[i].rev)

IInv ==
    /\ TypeOK /\ Timeline /\ LoadsFresh /\ LoadsLive /\ CacheExplained
    /\ ReadsFresh /\ HitsJustified
=============================================================================
