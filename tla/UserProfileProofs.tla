------------------------- MODULE UserProfileProofs -------------------------
(***************************************************************************)
(* Proofs about UserProfile for every set of instances and requests, every *)
(* TTL and every bound on the clock.  IInv is inductive: LoadsFresh and    *)
(* LoadsLive say what reads of the row return, CacheExplained carries that *)
(* through the cache, and the three properties follow where an answer is   *)
(* given.                                                                  *)
(***************************************************************************)
EXTENDS UserProfile, TLAPS

(* The initial state satisfies the inductive invariant.                    *)
LEMMA InitIInv == Init => IInv
<1> SUFFICES ASSUME Init PROVE IInv
  OBVIOUS
<1>1. TypeOK
  BY DEF Init, TypeOK, PCs, Answers, NoEntry, Ops
<1>2. Timeline /\ LoadsFresh /\ LoadsLive /\ CacheExplained
  BY DEF Init, Timeline, LoadsFresh, LoadsLive, CacheExplained, Loaded, Removed
<1>3. ReadsFresh /\ HitsJustified
  BY DEF Init, ReadsFresh, HitsJustified, SettledBefore
<1>4. QED
  BY <1>1, <1>2, <1>3 DEF IInv

(* Every step keeps every variable in its type.                            *)
LEMMA StepTypeOK == ASSUME TypeOK, [Next]_vars PROVE TypeOK'
<1> USE BoundsAssumption DEF TypeOK, PCs, Answers, NoEntry, Goto, Reply, SetCache
<1>1. CASE Tick
  BY <1>1 DEF Tick
<1>2. ASSUME NEW i \in Instances, Evict(i) PROVE TypeOK'
  BY <1>2 DEF Evict
<1>3. ASSUME NEW i \in Instances, Restart(i) PROVE TypeOK'
  BY <1>3 DEF Restart
<1>4. ASSUME NEW r \in Requests, Arrive(r) PROVE TypeOK'
  BY <1>4 DEF Arrive
<1>5. ASSUME NEW r \in Requests, LookupCache(r) PROVE TypeOK'
  <2>1. cache[job[r].at].rev \in Nat
    OBVIOUS
  <2>2. rev' \in [Requests -> Nat]
    BY <1>5, <2>1 DEF LookupCache
  <2>3. pc' \in [Requests -> PCs]
    BY <1>5 DEF LookupCache
  <2>4. answer' \in [Requests -> Answers]
    BY <1>5 DEF LookupCache
  <2>5. endedAt' \in [Requests -> Nat]
    BY <1>5 DEF LookupCache
  <2>6. QED
    BY <1>5, <2>2, <2>3, <2>4, <2>5 DEF LookupCache
<1>6. ASSUME NEW r \in Requests, LoadRow(r) PROVE TypeOK'
  <2>1. rev' \in [Requests -> Nat]
    BY <1>6 DEF LoadRow
  <2>2. pc' \in [Requests -> PCs]
    BY <1>6 DEF LoadRow
  <2>3. answer' \in [Requests -> Answers]
    BY <1>6 DEF LoadRow
  <2>4. endedAt' \in [Requests -> Nat]
    BY <1>6 DEF LoadRow
  <2>5. QED
    BY <1>6, <2>1, <2>2, <2>3, <2>4 DEF LoadRow
<1>7. ASSUME NEW r \in Requests, FillCache(r) PROVE TypeOK'
  <2>1. cache' \in [Instances -> [rev : Nat, until : Nat]]
    BY <1>7 DEF FillCache, Entry
  <2>2. pc' \in [Requests -> PCs] /\ answer' \in [Requests -> Answers]
    BY <1>7 DEF FillCache
  <2>3. endedAt' \in [Requests -> Nat] /\ filled' \subseteq Requests
    BY <1>7 DEF FillCache
  <2>4. QED
    BY <1>7, <2>1, <2>2, <2>3 DEF FillCache
<1>8. ASSUME NEW r \in Requests, WriteRow(r) PROVE TypeOK'
  <2>1. row' \in [rev : Nat, deleted : BOOLEAN]
    <3>1. (job[r].op = "remove") \in BOOLEAN
      OBVIOUS
    <3>2. [rev |-> row.rev + 1, deleted |-> row.deleted \/ job[r].op = "remove"]
             \in [rev : Nat, deleted : BOOLEAN]
      OBVIOUS
    <3>3. QED
      BY <1>8, <3>2 DEF WriteRow
  <2>6. rev' \in [Requests -> Nat]
    BY <1>8 DEF WriteRow
  <2>2. pc' \in [Requests -> PCs]
    BY <1>8 DEF WriteRow
  <2>3. answer' \in [Requests -> Answers]
    BY <1>8 DEF WriteRow
  <2>4. endedAt' \in [Requests -> Nat]
    BY <1>8 DEF WriteRow
  <2>5. QED
    BY <1>8, <2>1, <2>2, <2>3, <2>4, <2>6 DEF WriteRow
<1>9. ASSUME NEW r \in Requests, ClearCache(r) PROVE TypeOK'
  <2>1. cache' \in [Instances -> [rev : Nat, until : Nat]]
    <3>1. NoEntry \in [rev : Nat, until : Nat]
      OBVIOUS
    <3>2. cache' = cache \/ cache' = [cache EXCEPT ![job[r].at] = NoEntry]
      BY <1>9 DEF ClearCache
    <3>3. QED
      BY <3>1, <3>2
  <2>2. answer' \in [Requests -> Answers] /\ endedAt' \in [Requests -> Nat]
    BY <1>9 DEF ClearCache
  <2>3. QED
    BY <1>9, <2>1, <2>2 DEF ClearCache
<1>10. CASE UNCHANGED vars
  BY <1>10 DEF vars
<1>11. QED
  BY <1>1, <1>2, <1>3, <1>4, <1>5, <1>6, <1>7, <1>8, <1>9, <1>10 DEF Next

(* What no step may change: the row only moves on, a removed row stays     *)
(* removed, and a request that was answered keeps its answer.              *)
PastKept ==
    /\ job' = job /\ clock <= clock' /\ row.rev <= row'.rev
    /\ row.deleted => row'.deleted
    /\ filled \subseteq filled' /\ cleared \subseteq cleared'
    /\ \A r \in Requests :
         /\ pc[r] # "idle" => pc'[r] # "idle" /\ prior'[r] = prior[r]
         /\ pc[r] = "done" => /\ pc'[r] = "done" /\ answer'[r] = answer[r]
                              /\ endedAt'[r] = endedAt[r] /\ rev'[r] = rev[r]

(* Every step keeps the past.                                              *)
LEMMA Stable == ASSUME TypeOK, [Next]_vars PROVE PastKept
<1> USE DEF TypeOK, PCs, Goto, Reply, PastKept
<1>1. CASE Tick
  BY <1>1, BoundsAssumption DEF Tick
<1>2. ASSUME NEW i \in Instances, Evict(i) PROVE PastKept
  BY <1>2 DEF Evict
<1>3. ASSUME NEW i \in Instances, Restart(i) PROVE PastKept
  BY <1>3 DEF Restart
<1>4. ASSUME NEW r \in Requests, Arrive(r) PROVE PastKept
  BY <1>4 DEF Arrive
<1>5. ASSUME NEW r \in Requests, LookupCache(r) PROVE PastKept
  BY <1>5 DEF LookupCache
<1>6. ASSUME NEW r \in Requests, LoadRow(r) PROVE PastKept
  BY <1>6 DEF LoadRow
<1>7. ASSUME NEW r \in Requests, FillCache(r) PROVE PastKept
  BY <1>7 DEF FillCache
<1>8. ASSUME NEW r \in Requests, WriteRow(r) PROVE PastKept
  BY <1>8 DEF WriteRow
<1>9. ASSUME NEW r \in Requests, ClearCache(r) PROVE PastKept
  BY <1>9 DEF ClearCache
<1>10. CASE UNCHANGED vars
  BY <1>10 DEF vars
<1>11. QED
  BY <1>1, <1>2, <1>3, <1>4, <1>5, <1>6, <1>7, <1>8, <1>9, <1>10 DEF Next

(* The order of a request's own steps is preserved by every step.          *)
LEMMA StepTimeline == ASSUME IInv, [Next]_vars PROVE Timeline'
<1> USE DEF IInv, TypeOK, Timeline, PCs, Goto, Reply, IsRead, Ops
<1>1. CASE Tick
  BY <1>1, BoundsAssumption DEF Tick
<1>2. ASSUME NEW i \in Instances, Evict(i) PROVE Timeline'
  BY <1>2 DEF Evict
<1>3. ASSUME NEW i \in Instances, Restart(i) PROVE Timeline'
  BY <1>3 DEF Restart
<1>4. ASSUME NEW r \in Requests, Arrive(r) PROVE Timeline'
  BY <1>4 DEF Arrive
<1>5. ASSUME NEW r \in Requests, LookupCache(r) PROVE Timeline'
  <2>1. cache[job[r].at] # NoEntry => cache[job[r].at].rev <= row.rev
    BY DEF CacheExplained
  <2>2. QED
    BY <1>5, <2>1 DEF LookupCache, Hit
<1>6. ASSUME NEW r \in Requests, LoadRow(r) PROVE Timeline'
  BY <1>6 DEF LoadRow
<1>7. ASSUME NEW r \in Requests, FillCache(r) PROVE Timeline'
  BY <1>7 DEF FillCache
<1>8. ASSUME NEW r \in Requests, WriteRow(r) PROVE Timeline'
  BY <1>8 DEF WriteRow
<1>9. ASSUME NEW r \in Requests, ClearCache(r) PROVE Timeline'
  BY <1>9 DEF ClearCache
<1>10. CASE UNCHANGED vars
  BY <1>10 DEF vars
<1>11. QED
  BY <1>1, <1>2, <1>3, <1>4, <1>5, <1>6, <1>7, <1>8, <1>9, <1>10 DEF Next

(* A read gets its revision from the row, which is never behind a write    *)
(* that was answered.                                                      *)
LEMMA StepLoadsFresh == ASSUME IInv, [Next]_vars PROVE LoadsFresh'
<1> USE DEF IInv
<1>1. PastKept
  BY Stable
<1> SUFFICES ASSUME NEW r \in Requests, NEW w \in prior'[r], Loaded(r)', w \in cleared'
             PROVE  rev'[w] <= rev'[r]
  BY DEF LoadsFresh
<1>2. \/ Loaded(r) /\ rev'[r] = rev[r]
      \/ LoadRow(r) /\ rev'[r] = row.rev
  BY DEF Next, Tick, Evict, Restart, Arrive, LookupCache, LoadRow, FillCache, WriteRow,
         ClearCache, vars, Goto, Reply, TypeOK, Timeline, Loaded, IsRead, Ops
<1>3. w \in prior[r] /\ pc[w] = "done"
  BY <1>1, <1>2 DEF PastKept, LoadRow, Loaded, Timeline
<1>4. w \in Requests /\ w \in cleared /\ rev'[w] = rev[w]
  BY <1>1, <1>3 DEF PastKept, TypeOK, Next, Tick, Evict, Restart, Arrive, LookupCache,
                    LoadRow, FillCache, WriteRow, ClearCache, vars
<1>5. QED
  BY <1>2, <1>3, <1>4 DEF LoadsFresh, Timeline

(* Nothing is loaded from a removed row.                                   *)
LEMMA StepLoadsLive == ASSUME IInv, [Next]_vars PROVE LoadsLive'
<1> USE DEF IInv
<1>1. PastKept
  BY Stable
<1> SUFFICES ASSUME NEW d \in Requests, Removed(d)'
             PROVE  /\ row'.deleted
                    /\ \A r \in Requests :
                         /\ Loaded(r)' \/ answer'[r] = "cached" => rev'[r] < rev'[d]
                         /\ d \in prior'[r] /\ answer'[d] = "ok" =>
                              /\ pc'[r] \notin {"fill", "write", "clear"}
                              /\ answer'[r] # "ok"
  BY DEF LoadsLive
<1>2. \/ Removed(d) /\ rev'[d] = rev[d]
      \/ WriteRow(d) /\ row'.deleted /\ rev'[d] = row.rev + 1 /\ pc'[d] = "clear"
                     /\ answer'[d] # "ok"
  <2>1. CASE WriteRow(d)
    <3>1. pc[d] = "write" /\ answer[d] # "ok" /\ job' = job
      BY <2>1 DEF WriteRow, Timeline
    <3>2. pc'[d] = "clear" /\ job[d].op = "remove"
      BY <2>1, <3>1 DEF WriteRow, Removed, Goto, Reply, TypeOK, Answers
    <3>3. /\ row' = [rev |-> row.rev + 1,
                     deleted |-> row.deleted \/ job[d].op = "remove"]
          /\ rev'[d] = row.rev + 1 /\ answer' = answer
      BY <2>1, <3>2 DEF WriteRow, Goto, Reply, TypeOK
    <3>4. row'.deleted
      BY <3>2, <3>3
    <3>5. QED
      BY <2>1, <3>1, <3>2, <3>3, <3>4
  <2>2. CASE ~WriteRow(d)
    BY <2>2 DEF Next, Tick, Evict, Restart, Arrive, LookupCache, LoadRow, FillCache,
       WriteRow, ClearCache, vars, Goto, Reply, TypeOK, Timeline, Removed, IsRead, Ops
  <2>3. QED
    BY <2>1, <2>2
<1>3. row'.deleted
  BY <1>1, <1>2 DEF LoadsLive, PastKept
<1>4. ASSUME NEW r \in Requests, Loaded(r)' \/ answer'[r] = "cached"
      PROVE  rev'[r] < rev'[d]
  <2>1. \/ (Loaded(r) \/ answer[r] = "cached") /\ rev'[r] = rev[r]
        \/ LoadRow(r) /\ ~row.deleted /\ row' = row /\ pc[r] = "load"
        \/ /\ LookupCache(r) /\ cache[job[r].at] # NoEntry
           /\ rev'[r] = cache[job[r].at].rev /\ pc[r] = "start"
    BY <1>4 DEF Next, Tick, Evict, Restart, Arrive, LookupCache, LoadRow, FillCache,
         WriteRow, ClearCache, vars, Goto, Reply, TypeOK, Timeline, Loaded, IsRead, Ops, Hit
  <2>2. ~LoadRow(r) \/ row.deleted \/ row' # row
    BY <1>3
  <2>3. ASSUME LookupCache(r), cache[job[r].at] # NoEntry, pc[r] = "start"
        PROVE  /\ \E x \in Requests : Loaded(x) /\ rev[x] = cache[job[r].at].rev
               /\ ~WriteRow(d)
    BY <2>3 DEF CacheExplained, Timeline, Loaded, TypeOK, LookupCache, WriteRow, Goto, Reply
  <2>4. CASE Removed(d) /\ rev'[d] = rev[d]
    BY <2>1, <2>2, <2>3, <2>4 DEF LoadsLive
  <2>5. CASE WriteRow(d) /\ rev'[d] = row.rev + 1
    BY <2>1, <2>2, <2>3, <2>5 DEF Timeline, TypeOK
  <2>6. QED
    BY <1>2, <2>4, <2>5
<1>5. ASSUME NEW r \in Requests, d \in prior'[r], answer'[d] = "ok"
      PROVE  pc'[r] \notin {"fill", "write", "clear"} /\ answer'[r] # "ok"
  <2>1. Removed(d) /\ row.deleted
    BY <1>2, <1>5 DEF LoadsLive
  <2>2. CASE d \in prior[r]
    <3>1. pc[d] = "done"
      BY <2>2 DEF Timeline
    <3>2. answer[d] = "ok"
      BY <2>1, <3>1 DEF Removed
    <3>3. pc[r] \notin {"fill", "write", "clear"} /\ answer[r] # "ok"
      BY <2>1, <2>2, <3>2 DEF LoadsLive
    <3>4. QED
      BY <2>1, <3>3 DEF Next, Tick, Evict, Restart, Arrive, LookupCache, LoadRow,
         FillCache, WriteRow, ClearCache, vars, Goto, Reply, TypeOK
  <2>3. CASE d \notin prior[r]
    <3>1. Arrive(r)
      BY <1>5, <2>3 DEF Next, Tick, Evict, Restart, Arrive, LookupCache, LoadRow,
         FillCache, WriteRow, ClearCache, vars, TypeOK
    <3>2. QED
      BY <3>1 DEF Arrive, Goto, Timeline, TypeOK, Answers
  <2>4. QED
    BY <2>2, <2>3
<1>6. QED
  BY <1>3, <1>4, <1>5

(* An entry comes from FillCache only, and a write that cleared the cache  *)
(* before that was seen by the read or was not answered when it arrived.   *)
LEMMA StepCacheExplained == ASSUME IInv, [Next]_vars PROVE CacheExplained'
<1> USE DEF IInv
<1>1. PastKept
  BY Stable
<1> SUFFICES ASSUME NEW i \in Instances, cache'[i] # NoEntry
             PROVE  /\ \E x \in filled' : /\ job'[x].at = i /\ rev'[x] = cache'[i].rev
                                          /\ cache'[i].until = endedAt'[x] + Ttl
                    /\ \A w \in cleared' : job'[w].at = i /\ cache'[i].rev < rev'[w]
                                           => LateFill(w, i, cache[i].rev)'
  BY DEF CacheExplained
<1>2. \/ cache'[i] = cache[i] /\ \A w \in cleared' : w \in cleared \/ job'[w].at # i
      \/ \E r \in Requests :
           /\ FillCache(r) /\ job[r].at = i /\ r \in filled' /\ cleared' = cleared
           /\ cache'[i] = Entry(rev[r]) /\ endedAt'[r] = clock /\ rev' = rev
           /\ job' = job /\ prior' = prior /\ pc[r] = "fill"
  BY DEF Next, Tick, Evict, Restart, Arrive, LookupCache, LoadRow, FillCache, WriteRow,
         ClearCache, vars, Reply, SetCache, TypeOK
<1>3. CASE /\ cache'[i] = cache[i]
           /\ \A w \in cleared' : w \in cleared \/ job'[w].at # i
  <2>1. PICK x \in filled : /\ job[x].at = i /\ rev[x] = cache[i].rev
                            /\ cache[i].until = endedAt[x] + Ttl
    BY <1>3 DEF CacheExplained
  <2>2. x \in filled' /\ job' = job /\ rev'[x] = rev[x] /\ endedAt'[x] = endedAt[x]
    BY <1>1 DEF PastKept, Timeline, TypeOK
  <2>3. \A w \in cleared : rev'[w] = rev[w] /\ job'[w] = job[w]
    BY <1>1 DEF PastKept, Timeline, TypeOK
  <2>4. \A w \in cleared : job[w].at = i /\ cache[i].rev < rev[w]
                            => LateFill(w, i, cache[i].rev)
    BY <1>3 DEF CacheExplained
  <2>5. \A w \in cleared : LateFill(w, i, cache[i].rev) => LateFill(w, i, cache[i].rev)'
    <3> SUFFICES ASSUME NEW w \in cleared, LateFill(w, i, cache[i].rev)
                 PROVE  LateFill(w, i, cache[i].rev)'
      OBVIOUS
    <3>1. PICK y \in filled : /\ job[y].at = i /\ rev[y] = cache[i].rev
                              /\ y \notin prior[w] /\ w \notin prior[y]
      BY DEF LateFill
    <3>2. /\ y \in filled' /\ job'[y].at = i /\ w \notin prior'[y]
          /\ rev'[y] = cache'[i].rev
      BY <1>1, <1>3, <3>1 DEF PastKept, Timeline, TypeOK
    <3>3. y \notin prior'[w]
      BY <1>1, <3>1 DEF PastKept, Timeline, TypeOK
    <3>4. QED
      BY <3>2, <3>3 DEF LateFill
  <2>6. QED
    BY <1>3, <2>1, <2>2, <2>3, <2>4, <2>5
<1>4. ASSUME NEW r \in Requests,
             /\ FillCache(r) /\ job[r].at = i /\ r \in filled' /\ cleared' = cleared
             /\ cache'[i] = Entry(rev[r]) /\ endedAt'[r] = clock /\ rev' = rev
             /\ job' = job /\ prior' = prior /\ pc[r] = "fill"
      PROVE  /\ \E x \in filled' : /\ job'[x].at = i /\ rev'[x] = cache'[i].rev
                                   /\ cache'[i].until = endedAt'[x] + Ttl
             /\ \A w \in cleared' : job'[w].at = i /\ cache'[i].rev < rev'[w]
                                    => LateFill(w, i, cache[i].rev)'
  <2>1. cache'[i].rev = rev[r] /\ cache'[i].until = clock + Ttl
    BY <1>4 DEF Entry
  <2>2. Loaded(r)
    BY <1>4 DEF Loaded, Timeline
  <2>3. \A w \in cleared : rev[r] < rev[w] => w \notin prior[r]
    BY <2>2 DEF LoadsFresh, TypeOK
  <2>4. \A w \in cleared : r \notin prior[w]
    BY <1>4 DEF Timeline, TypeOK
  <2>5. QED
    BY <1>4, <2>1, <2>3, <2>4 DEF LateFill
<1>5. QED
  BY <1>2, <1>3, <1>4

(* A profile is answered by a read of the row or by a hit, and both are    *)
(* fresh but for the late fill.                                            *)
LEMMA StepReadsFresh == ASSUME IInv, [Next]_vars PROVE ReadsFresh'
<1> USE DEF IInv
<1>1. PastKept /\ LoadsFresh' /\ Timeline'
  BY Stable, StepLoadsFresh, StepTimeline
<1> SUFFICES ASSUME NEW w \in Requests, NEW r \in Requests, SettledBefore(w, r)',
                    GotProfile(r)', rev'[r] < rev'[w]
             PROVE  LateFill(w, job[r].at, rev[r])'
  BY DEF ReadsFresh
<1>2. CASE answer'[r] = "ok"
  <2>1. rev'[w] <= rev'[r]
    BY <1>1, <1>2 DEF LoadsFresh, Loaded, GotProfile, SettledBefore
  <2>2. rev'[w] \in Nat /\ rev'[r] \in Nat
    BY StepTypeOK DEF TypeOK
  <2>3. QED
    BY <2>1, <2>2
<1>3. CASE answer'[r] = "cached"
  <2>1. \/ answer[r] = "cached"
        \/ /\ LookupCache(r) /\ cache[job[r].at] # NoEntry /\ pc[r] = "start"
           /\ rev'[r] = cache[job[r].at].rev /\ cleared' = cleared /\ prior' = prior
    BY <1>3 DEF Next, Tick, Evict, Restart, Arrive, LookupCache, LoadRow, FillCache,
         WriteRow, ClearCache, vars, Goto, Reply, TypeOK, Hit
  <2>2. pc[r] # "idle" /\ w \in prior[r] /\ pc[w] = "done" /\ IsRead(r)
    BY <1>1, <2>1 DEF PastKept, Timeline, SettledBefore
  <2>3. w \in cleared /\ rev'[w] = rev[w] /\ job' = job /\ job[w].at = job[r].at
    BY <1>1, <2>2 DEF PastKept, TypeOK, Next, Tick, Evict, Restart, Arrive, LookupCache,
         LoadRow, FillCache, WriteRow, ClearCache, vars, SettledBefore
  <2>4. LateFill(w, job[r].at, rev'[r])
    <3>1. CASE answer[r] = "cached"
      BY <1>1, <2>2, <2>3, <3>1 DEF ReadsFresh, SettledBefore, GotProfile, PastKept, Timeline
    <3>2. CASE /\ cache[job[r].at] # NoEntry
               /\ rev'[r] = cache[job[r].at].rev
      BY <2>3, <3>2 DEF CacheExplained, TypeOK
    <3>3. QED
      BY <2>1, <3>1, <3>2
  <2>5. PICK x \in filled : /\ job[x].at = job[r].at /\ rev[x] = rev'[r]
                            /\ x \notin prior[w] /\ w \notin prior[x]
    BY <2>4 DEF LateFill
  <2>6. /\ x \in filled' /\ job' = job /\ rev'[x] = rev[x]
        /\ prior'[x] = prior[x] /\ prior'[w] = prior[w]
    BY <1>1, <2>2 DEF PastKept, Timeline, TypeOK
  <2>7. QED
    BY <2>5, <2>6 DEF LateFill
<1>4. QED
  BY <1>2, <1>3 DEF GotProfile

(* A remove that was answered is visible to whatever reads the row.        *)
LEMMA GoneByLoads == IInv => RemovedIsGone
<1> USE DEF IInv
<1> SUFFICES ASSUME IInv PROVE RemovedIsGone
  OBVIOUS
<1> SUFFICES ASSUME NEW d \in Requests, NEW r \in Requests,
                    job[d].op = "remove", answer[d] = "ok", d \in prior[r],
                    answer[r] \in {"cached", "ok"}
             PROVE  /\ answer[r] = "cached" /\ rev[r] < rev[d]
                    /\ SettledBefore(d, r) => LateFill(d, job[r].at, rev[r])
  BY DEF RemovedIsGone
<1>1. answer[r] = "cached" /\ rev[r] < rev[d]
  BY DEF LoadsLive, Removed
<1>2. GotProfile(r)
  BY <1>1 DEF GotProfile, Timeline
<1>3. QED
  BY <1>1, <1>2 DEF ReadsFresh

(* A hit needs an entry, and an entry its fill.                            *)
LEMMA StepHitsJustified == ASSUME IInv, [Next]_vars PROVE HitsJustified'
<1> USE DEF IInv
<1>1. PastKept
  BY Stable
<1> SUFFICES ASSUME NEW r \in Requests, answer'[r] = "cached"
             PROVE  \E x \in filled' :
                      /\ job'[x].at = job'[r].at /\ rev'[x] = rev'[r]
                      /\ endedAt'[x] <= endedAt'[r] /\ endedAt'[r] <= endedAt'[x] + Ttl
  BY DEF HitsJustified
<1>2. \/ /\ answer[r] = "cached" /\ rev'[r] = rev[r] /\ endedAt'[r] = endedAt[r]
      \/ /\ Hit(job[r].at) /\ rev'[r] = cache[job[r].at].rev /\ endedAt'[r] = clock
  BY DEF Next, Tick, Evict, Restart, Arrive, LookupCache, LoadRow, FillCache, WriteRow,
         ClearCache, vars, Goto, Reply, TypeOK, Timeline
<1>3. PICK x \in filled :
         /\ job[x].at = job[r].at /\ rev[x] = rev'[r]
         /\ endedAt[x] <= endedAt'[r] /\ endedAt'[r] <= endedAt[x] + Ttl
  <2>1. CASE answer[r] = "cached" /\ rev'[r] = rev[r] /\ endedAt'[r] = endedAt[r]
    BY <2>1 DEF HitsJustified
  <2>2. CASE /\ Hit(job[r].at) /\ rev'[r] = cache[job[r].at].rev
             /\ endedAt'[r] = clock
    <3>1. PICK x \in filled : /\ job[x].at = job[r].at /\ rev[x] = cache[job[r].at].rev
                              /\ cache[job[r].at].until = endedAt[x] + Ttl
      BY <2>2 DEF CacheExplained, Hit, TypeOK
    <3>2. endedAt[x] <= clock
      BY DEF Timeline, TypeOK
    <3>3. QED
      BY <2>2, <3>1, <3>2 DEF Hit
  <2>3. QED
    BY <1>2, <2>1, <2>2
<1>4. x \in filled' /\ job' = job /\ rev'[x] = rev[x] /\ endedAt'[x] = endedAt[x]
  BY <1>1 DEF PastKept, Timeline, TypeOK
<1>5. QED
  BY <1>3, <1>4
----------------------------------------------------------------------------
(* The inductive invariant holds in every reachable state.                 *)
THEOREM Invariance == Spec => []IInv
<1>1. Init => IInv
  BY InitIInv
<1>2. IInv /\ [Next]_vars => IInv'
  <2> SUFFICES ASSUME IInv, [Next]_vars PROVE IInv'
    OBVIOUS
  <2>1. TypeOK' /\ Timeline' /\ LoadsFresh' /\ LoadsLive' /\ CacheExplained'
    BY StepTypeOK, StepTimeline, StepLoadsFresh, StepLoadsLive, StepCacheExplained
    DEF IInv
  <2>2. ReadsFresh' /\ HitsJustified'
    BY StepReadsFresh, StepHitsJustified
  <2>3. QED
    BY <2>1, <2>2 DEF IInv
<1>3. QED
  BY <1>1, <1>2, PTL DEF Spec

(* The variables keep their types, whatever the constants.                 *)
THEOREM TypeCorrect == Spec => []TypeOK
BY Invariance, PTL DEF IInv

(* A profile read after an update returns that update or a newer one,      *)
(* unless a read under way during the update refilled the cache late.      *)
THEOREM ReadsAreFresh == Spec => []ReadsFresh
BY Invariance, PTL DEF IInv

(* A removed user is reachable through a stale cache entry only.           *)
THEOREM RemovedStaysGone == Spec => []RemovedIsGone
BY Invariance, GoneByLoads, PTL

(* No profile is served from the cache past its TTL.                       *)
THEOREM HitsWithinTtl == Spec => []HitsJustified
BY Invariance, PTL DEF IInv
=============================================================================
