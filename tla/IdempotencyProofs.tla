------------------------- MODULE IdempotencyProofs -------------------------
(***************************************************************************)
(* Proofs about Idempotency for every set of requests, keys and hashes,    *)
(* both TTLs and every bound on the clock.  IInv is inductive; each of its *)
(* conjuncts has a lemma that every step preserves it, and all of them     *)
(* rest on Stable: what a step may change of the past.  RInv adds what the *)
(* refinement of IdempotentRequest needs; the last part proves the         *)
(* promise's own properties from its specification alone.                  *)
(***************************************************************************)
EXTENDS Idempotency, TLAPS

(* The initial state satisfies the inductive invariant.                    *)
LEMMA InitIInv == Init => IInv
<1> SUFFICES ASSUME Init PROVE IInv
  OBVIOUS
<1>1. TypeOK
  BY DEF Init, TypeOK, Calls, PCs, Answers, HeaderValues
<1>2. Timeline /\ RowsFaithful /\ RowsKept /\ PurgesStale /\ LookupMissed
  BY TimeAssumption DEF Init, Timeline, RowsFaithful, RowsKept, PurgesStale, LookupMissed
<1>3. AnswersJustified /\ NoReprocessing /\ NoDoubleSubmit
  BY DEF Init, AnswersJustified, NoReprocessing, NoDoubleSubmit
<1>4. QED
  BY <1>1, <1>2, <1>3 DEF IInv

(* Every step of the interceptor keeps every variable in its type.         *)
LEMMA StepTypeOK == ASSUME TypeOK, [Next]_vars PROVE TypeOK'
<1> USE TimeAssumption DEF TypeOK, PCs, Goto, Reply
<1>1. CASE Tick
  BY <1>1 DEF Tick
<1>2. ASSUME NEW r \in Requests, Receive(r) PROVE TypeOK'
  BY <1>2 DEF Receive, Calls
<1>3. ASSUME NEW r \in Requests, FindKeyed(r) PROVE TypeOK'
  <2>1. \A rec \in RecordsOfKey(r) : rec.body \in Requests
    BY DEF RecordsOfKey, Records
  <2>2. \A rec \in RecordsOfKey(r) : \A k \in {"mismatch", "replay"} :
           Reply(r, k, rec.body) => answer' \in [Requests -> Answers]
    BY <2>1 DEF Answers
  <2>3. answer' \in [Requests -> Answers]
    BY <1>3, <2>2 DEF FindKeyed
  <2>4. QED
    BY <1>3, <2>3 DEF FindKeyed
<1>4. ASSUME NEW r \in Requests, PurgeExpired(r) PROVE TypeOK'
  BY <1>4 DEF PurgeExpired
<1>5. ASSUME NEW r \in Requests, FindDuplicate(r) PROVE TypeOK'
  BY <1>5 DEF FindDuplicate, Duplicates, Records, Answers
<1>6. ASSUME NEW r \in Requests, Fail(r) PROVE TypeOK'
  BY <1>6 DEF Fail, Answers
<1>7. ASSUME NEW r \in Requests, Handle(r) PROVE TypeOK'
  BY <1>7 DEF Handle, TakeEffect
<1>8. ASSUME NEW r \in Requests, Store(r) PROVE TypeOK'
  <2>1. NewRecord(r) \in Records
    BY DEF NewRecord, Records, Calls, ExpiresAt
  <2>2. QED
    BY <1>8, <2>1 DEF Store, Answers
<1>9. ASSUME NEW r \in Requests, Crash(r) PROVE TypeOK'
  BY <1>9 DEF Crash
<1>10. CASE UNCHANGED vars
  BY <1>10 DEF vars
<1>11. ASSUME NEW r \in Requests, FailLate(r) PROVE TypeOK'
  BY <1>11 DEF FailLate, TakeEffect, Answers
<1>12. QED
  BY <1>1, <1>2, <1>3, <1>4, <1>5, <1>6, <1>7, <1>8, <1>9, <1>10, <1>11 DEF Next

(* What no step may change: the clock never runs back, history only grows, *)
(* and a request that arrived, or ran, keeps what it carries and when.     *)
PastKept ==
    /\ clock \in Nat /\ clock' \in Nat /\ clock <= clock'
    /\ stored \subseteq stored' /\ ran \subseteq ran' /\ purgers \subseteq purgers'
    /\ \A r \in Requests :
         /\ call'[r].key = call[r].key /\ call'[r].hash = call[r].hash
         /\ pc[r] # "idle" =>
              call'[r] = call[r] /\ prior'[r] = prior[r] /\ pc'[r] # "idle"
         /\ r \in ran => ranAt'[r] = ranAt[r]

(* Every step keeps the past: a delete, a retry or a crash rewrites none.  *)
LEMMA Stable == ASSUME TypeOK, Timeline, [Next]_vars PROVE PastKept
<1> USE DEF TypeOK, Calls, PCs, Goto, Reply, PastKept
<1>1. CASE Tick
  BY <1>1, TimeAssumption DEF Tick
<1>2. ASSUME NEW r \in Requests, Receive(r) PROVE PastKept
  BY <1>2 DEF Receive
<1>3. ASSUME NEW r \in Requests, FindKeyed(r) PROVE PastKept
  BY <1>3 DEF FindKeyed
<1>4. ASSUME NEW r \in Requests, PurgeExpired(r) PROVE PastKept
  BY <1>4 DEF PurgeExpired
<1>5. ASSUME NEW r \in Requests, FindDuplicate(r) PROVE PastKept
  BY <1>5 DEF FindDuplicate
<1>6. ASSUME NEW r \in Requests, Fail(r) PROVE PastKept
  BY <1>6 DEF Fail
<1>7. ASSUME NEW r \in Requests, Handle(r) PROVE PastKept
  BY <1>7 DEF Handle, TakeEffect, Timeline
<1>8. ASSUME NEW r \in Requests, Store(r) PROVE PastKept
  BY <1>8 DEF Store
<1>9. ASSUME NEW r \in Requests, Crash(r) PROVE PastKept
  BY <1>9 DEF Crash
<1>10. CASE UNCHANGED vars
  BY <1>10 DEF vars
<1>11. ASSUME NEW r \in Requests, FailLate(r) PROVE PastKept
  BY <1>11 DEF FailLate, TakeEffect, Timeline
<1>12. QED
  BY <1>1, <1>2, <1>3, <1>4, <1>5, <1>6, <1>7, <1>8, <1>9, <1>10, <1>11 DEF Next

(* What a record and its expiry mean never changes once its request ran.   *)
LEMMA ExpiryFixed ==
    ASSUME PastKept, NEW e \in ran, ran \subseteq Requests
    PROVE  ExpiresAt(e)' = ExpiresAt(e) /\ Keyed(e)' = Keyed(e)
BY DEF PastKept, ExpiresAt, Keyed

(* The order of a request's own steps is preserved by every step.          *)
LEMMA StepTimeline == ASSUME TypeOK, Timeline, [Next]_vars PROVE Timeline'
<1> USE DEF TypeOK, Timeline, Calls, PCs, Goto, Reply, Keyed
<1>1. CASE Tick
  BY <1>1, TimeAssumption DEF Tick
<1>2. ASSUME NEW r \in Requests, Receive(r) PROVE Timeline'
  BY <1>2 DEF Receive
<1>3. ASSUME NEW r \in Requests, FindKeyed(r) PROVE Timeline'
  BY <1>3 DEF FindKeyed
<1>4. ASSUME NEW r \in Requests, PurgeExpired(r) PROVE Timeline'
  BY <1>4 DEF PurgeExpired
<1>5. ASSUME NEW r \in Requests, FindDuplicate(r) PROVE Timeline'
  BY <1>5 DEF FindDuplicate
<1>6. ASSUME NEW r \in Requests, Fail(r) PROVE Timeline'
  BY <1>6 DEF Fail
<1>7. ASSUME NEW r \in Requests, Handle(r) PROVE Timeline'
  BY <1>7 DEF Handle, TakeEffect
<1>8. ASSUME NEW r \in Requests, Store(r) PROVE Timeline'
  BY <1>8 DEF Store
<1>9. ASSUME NEW r \in Requests, Crash(r) PROVE Timeline'
  BY <1>9 DEF Crash
<1>10. CASE UNCHANGED vars
  BY <1>10 DEF vars
<1>11. ASSUME NEW r \in Requests, FailLate(r) PROVE Timeline'
  BY <1>11 DEF FailLate, TakeEffect
<1>12. QED
  BY <1>1, <1>2, <1>3, <1>4, <1>5, <1>6, <1>7, <1>8, <1>9, <1>10, <1>11 DEF Next

(* A step adds a row by Store, removes rows by PurgeExpired, and does      *)

(* neither otherwise.                                                      *)
LEMMA RowChanges ==
    ASSUME [Next]_vars
    PROVE  \/ records' = records /\ stored' = stored
           \/ \E r \in Requests :
                \/ Store(r) /\ ~Conflicts(r) /\ records' = records \cup {NewRecord(r)}
                            /\ stored' = stored \cup {r}
                \/ PurgeExpired(r) /\ records' = records \ RecordsOfKey(r)
                                   /\ stored' = stored
BY DEF Next, Tick, Receive, FindKeyed, PurgeExpired, FindDuplicate, Fail, Handle,
       FailLate, TakeEffect, Store, Crash, vars

(* Rows stay faithful to their requests and unique per key.                *)
LEMMA StepRowsFaithful == ASSUME IInv, [Next]_vars PROVE RowsFaithful'
<1> USE DEF IInv
<1>1. PastKept
  BY Stable
<1>2. \A e \in ran : /\ ExpiresAt(e)' = ExpiresAt(e) /\ e \in Requests
                     /\ call'[e].key = call[e].key /\ call'[e].hash = call[e].hash
                     /\ ranAt'[e] = ranAt[e]
  BY <1>1, ExpiryFixed DEF PastKept, TypeOK
<1>3. \A rec \in records : rec.body \in ran
  BY DEF RowsFaithful, Timeline
<1>4. CASE records' \subseteq records /\ stored' = stored
  BY <1>2, <1>3, <1>4 DEF RowsFaithful
<1>5. ASSUME NEW r \in Requests, Store(r), ~Conflicts(r),
             records' = records \cup {NewRecord(r)}, stored' = stored \cup {r}
      PROVE  RowsFaithful'
  <2>1. r \in ran /\ ranAt[r] <= clock
    BY <1>5 DEF Timeline, Store
  <2>2. /\ NewRecord(r).body = r /\ NewRecord(r).key = call[r].key
        /\ NewRecord(r).hash = call[r].hash /\ NewRecord(r).createdAt = clock
        /\ NewRecord(r).expiresAt = ExpiresAt(r)
    BY DEF NewRecord
  <2>3. \A rec \in records : rec.key = call[r].key => rec.key = NoKey
    BY <1>5 DEF Conflicts, RecordsOfKey
  <2>4. QED
    BY <1>2, <1>3, <1>5, <2>1, <2>2, <2>3 DEF RowsFaithful
<1>6. QED
  BY <1>4, <1>5, RowChanges

(* A delete that explains a missing row keeps explaining it.               *)
LEMMA PurgedStable ==
    ASSUME TypeOK, Timeline, PastKept, NEW e \in stored, Purged(e)
    PROVE  Purged(e)'
<1>1. PICK d \in purgers : /\ SameKey(e, d)
                           /\ e \notin prior[d] \/ ExpiresAt(e) < call[d].now
  BY DEF Purged
<1>2. /\ d \in purgers' /\ d \in Requests /\ pc[d] # "idle"
      /\ e \in Requests /\ e \in ran
  BY <1>1 DEF PastKept, TypeOK, Timeline
<1>3. prior'[d] = prior[d] /\ call'[d] = call[d] /\ call'[e].key = call[e].key
  BY <1>2 DEF PastKept
<1>4. ExpiresAt(e)' = ExpiresAt(e) /\ SameKey(e, d)'
  BY <1>1, <1>2, <1>3, ExpiryFixed DEF SameKey, Keyed, TypeOK
<1>5. QED
  BY <1>1, <1>2, <1>3, <1>4 DEF Purged

(* A stored row is in the table, or a purge of its key explains why not.   *)
LEMMA StepRowsKept == ASSUME IInv, [Next]_vars PROVE RowsKept'
<1> USE DEF IInv
<1>1. PastKept
  BY Stable
<1>2. \A e \in stored : Purged(e) => Purged(e)'
  BY <1>1, PurgedStable
<1>3. CASE records' = records /\ stored' = stored
  BY <1>2, <1>3 DEF RowsKept, HasRow
<1>4. ASSUME NEW r \in Requests, Store(r), records' = records \cup {NewRecord(r)},
             stored' = stored \cup {r}
      PROVE  RowsKept'
  <2>1. NewRecord(r).body = r
    BY DEF NewRecord
  <2>2. QED
    BY <1>2, <1>4, <2>1 DEF RowsKept, HasRow
<1>5. ASSUME NEW r \in Requests, PurgeExpired(r), stored' = stored,
             records' = records \ RecordsOfKey(r)
      PROVE  RowsKept'
  <2> SUFFICES ASSUME NEW e \in stored, ~Purged(e) PROVE HasRow(e)' \/ Purged(e)'
    BY <1>2, <1>5 DEF RowsKept
  <2>1. PICK rec \in records : rec.body = e
    BY DEF RowsKept, HasRow
  <2>2. CASE rec \notin RecordsOfKey(r)
    BY <1>5, <2>1, <2>2 DEF HasRow
  <2>3. CASE rec \in RecordsOfKey(r)
    <3>1. /\ SameKey(e, r) /\ pc[r] = "purge" /\ e \in Requests /\ e \in ran
          /\ ExpiresAt(e) = rec.expiresAt
      BY <1>5, <2>1, <2>3
      DEF RecordsOfKey, SameKey, PurgeExpired, Timeline, Keyed, RowsFaithful, TypeOK
    <3>2. e \notin prior[r] \/ ExpiresAt(e) < call[r].now
      BY <2>1, <3>1 DEF PurgesStale, HasRow
    <3>3. /\ r \in purgers' /\ call' = call /\ prior' = prior
      BY <1>5, <2>3 DEF PurgeExpired, RecordsOfKey
    <3>4. ExpiresAt(e)' = ExpiresAt(e)
      BY <1>1, <3>1, ExpiryFixed DEF TypeOK
    <3>5. QED
      BY <3>1, <3>2, <3>3, <3>4 DEF Purged, SameKey, Keyed
  <2>4. QED
    BY <2>2, <2>3
<1>6. QED
  BY <1>3, <1>4, <1>5, RowChanges

(* A stored row that is missing never comes back.                          *)
LEMMA RowsNotRestored ==
    ASSUME TypeOK, Timeline, [Next]_vars, NEW e \in stored, HasRow(e)'
    PROVE  HasRow(e)
<1>1. CASE records' \subseteq records
  BY <1>1 DEF HasRow
<1>2. ASSUME NEW r \in Requests, Store(r), records' = records \cup {NewRecord(r)}
      PROVE  HasRow(e)
  <2>1. NewRecord(r).body # e
    BY <1>2 DEF NewRecord, Store, Timeline
  <2>2. QED
    BY <1>2, <2>1 DEF HasRow
<1>3. QED
  BY <1>1, <1>2, RowChanges

(* Only FindKeyed makes a request a purger, on a row it saw expired.       *)
LEMMA StepPurgesStale == ASSUME IInv, [Next]_vars PROVE PurgesStale'
<1> USE DEF IInv
<1>1. PastKept
  BY Stable
<1> SUFFICES ASSUME NEW d \in Requests, pc'[d] = "purge", NEW e \in prior'[d],
                    SameKey(e, d)', HasRow(e)'
             PROVE  ExpiresAt(e)' < call'[d].now
  BY DEF PurgesStale
<1>2. pc[d] = "purge" \/ FindKeyed(d)
  BY DEF Next, Tick, Receive, FindKeyed, PurgeExpired, FindDuplicate, Fail, Handle,
         FailLate, TakeEffect, Store, Crash, vars, Goto, Reply, TypeOK
<1>3. /\ pc[d] # "idle" /\ e \in prior[d] /\ e \in stored /\ e \in ran /\ e \in Requests
      /\ call'[d] = call[d]
  BY <1>1, <1>2 DEF PastKept, FindKeyed, Timeline, TypeOK
<1>4. SameKey(e, d) /\ HasRow(e) /\ ExpiresAt(e)' = ExpiresAt(e)
  BY <1>1, <1>3, ExpiryFixed, RowsNotRestored DEF SameKey, Keyed, PastKept, TypeOK
<1>5. CASE pc[d] = "purge"
  BY <1>3, <1>4, <1>5 DEF PurgesStale
<1>6. CASE FindKeyed(d)
  <2>1. PICK rec \in RecordsOfKey(d) : Expired(d, rec)
    BY <1>3, <1>6 DEF FindKeyed, Goto, Reply, TypeOK
  <2>2. PICK row \in records : row.body = e
    BY <1>4 DEF HasRow
  <2>3. row.key = call[e].key /\ row.key = call[d].key /\ row.key # NoKey
    BY <1>4, <2>2, KeysAssumption DEF RowsFaithful, SameKey, Keyed
  <2>4. row = rec
    BY <2>1, <2>3 DEF RecordsOfKey, RowsFaithful
  <2>5. QED
    BY <1>3, <1>4, <2>1, <2>2, <2>4 DEF Expired, RowsFaithful
<1>7. QED
  BY <1>2, <1>5, <1>6

(* A request enters its handler by a lookup that found nothing, or after   *)

(* deleting what it found expired.                                         *)
LEMMA StepLookupMissed == ASSUME IInv, [Next]_vars PROVE LookupMissed'
<1> USE DEF IInv
<1>1. PastKept
  BY Stable
<1> SUFFICES ASSUME NEW r \in Requests, pc'[r] = "handle", NEW e \in prior'[r]
             PROVE  /\ SameKey(e, r)' => Purged(e)' \/ ExpiresAt(e)' < call'[r].now
                    /\ SameHash(e, r)' /\ call'[e].key = NoKey /\ ~Keyed(r)'
                         => ExpiresAt(e)' <= call'[r].now
  BY DEF LookupMissed
<1>2. pc[r] = "handle" \/ FindKeyed(r) \/ PurgeExpired(r) \/ FindDuplicate(r)
  BY DEF Next, Tick, Receive, FindKeyed, PurgeExpired, FindDuplicate, Fail, Handle,
         FailLate, TakeEffect, Store, Crash, vars, Goto, Reply, TypeOK
<1>3. /\ pc[r] # "idle" /\ e \in prior[r] /\ e \in stored /\ e \in ran /\ e \in Requests
      /\ call'[r] = call[r] /\ call'[e].key = call[e].key /\ call'[e].hash = call[e].hash
  BY <1>1, <1>2
  DEF PastKept, FindKeyed, PurgeExpired, FindDuplicate, Timeline, TypeOK
<1>4. /\ ExpiresAt(e)' = ExpiresAt(e) /\ SameKey(e, r)' = SameKey(e, r)
      /\ SameHash(e, r)' = SameHash(e, r) /\ Keyed(r)' = Keyed(r)
      /\ Purged(e) => Purged(e)'
  BY <1>1, <1>3, ExpiryFixed, PurgedStable DEF SameKey, SameHash, Keyed, TypeOK
<1>5. CASE pc[r] = "handle"
  BY <1>3, <1>4, <1>5 DEF LookupMissed
<1>6. CASE FindKeyed(r)
  <2>1. RecordsOfKey(r) = {} /\ Keyed(r)
    BY <1>3, <1>6 DEF FindKeyed, Goto, Reply, TypeOK
  <2>2. SameKey(e, r) => ~HasRow(e)
    BY <1>3, <2>1 DEF HasRow, RecordsOfKey, RowsFaithful, SameKey
  <2>3. QED
    BY <1>3, <1>4, <2>1, <2>2 DEF RowsKept
<1>7. CASE PurgeExpired(r)
  <2>1. Keyed(r)
    BY <1>7 DEF PurgeExpired, Timeline
  <2>2. SameKey(e, r) => Purged(e) \/ ExpiresAt(e) < call[r].now
    BY <1>3, <1>7 DEF PurgeExpired, PurgesStale, RowsKept
  <2>3. QED
    BY <1>3, <1>4, <2>1, <2>2
<1>8. CASE FindDuplicate(r)
  <2>1. Duplicates(r) = {} /\ ~Keyed(r)
    BY <1>3, <1>8 DEF FindDuplicate, Goto, Reply, TypeOK
  <2>2. ~SameKey(e, r)
    BY <2>1 DEF SameKey, Keyed
  <2> SUFFICES ASSUME SameHash(e, r), call[e].key = NoKey
               PROVE  ExpiresAt(e) <= call[r].now
    BY <1>3, <1>4, <2>2
  <2>3. HasRow(e)
    BY <1>3, KeysAssumption DEF RowsKept, Purged, SameKey, Keyed
  <2>4. PICK row \in records : row.body = e
    BY <2>3 DEF HasRow
  <2>5. /\ row.key = NoKey /\ row.hash = call[r].hash /\ row.expiresAt = ExpiresAt(e)
        /\ ExpiresAt(e) = ranAt[e] + HashTtl /\ ranAt[e] <= row.createdAt
    BY <2>4, KeysAssumption DEF RowsFaithful, SameHash, ExpiresAt, Keyed
  <2>6. /\ ranAt[e] \in Nat /\ row.createdAt \in Nat /\ call[r].now \in Nat
        /\ row.expiresAt \in Nat /\ HashTtl \in Nat
    BY <1>3, TimeAssumption DEF TypeOK, Records, Calls
  <2>7. ~(row.createdAt + HashTtl >= call[r].now /\ row.expiresAt > call[r].now)
    BY <2>1, <2>5 DEF Duplicates
  <2>8. QED
    BY <2>5, <2>6, <2>7
<1>9. QED
  BY <1>2, <1>5, <1>6, <1>7, <1>8

(* An answer taken from a record is justified when it is given, and later. *)
LEMMA StepAnswersJustified == ASSUME IInv, [Next]_vars PROVE AnswersJustified'
<1> USE DEF IInv
<1>1. PastKept
  BY Stable
<1> SUFFICES ASSUME NEW r \in Requests, NEW e \in Requests, e = answer'[r].of,
                    answer'[r].kind \in {"replay", "mismatch", "duplicate"}
             PROVE  /\ answer'[r].kind \in {"replay", "mismatch"} =>
                         /\ e \in stored' /\ e # r /\ SameKey(e, r)'
                         /\ call'[r].now <= ExpiresAt(e)'
                         /\ SameHash(e, r)' <=> answer'[r].kind = "replay"
                    /\ answer'[r].kind = "duplicate" =>
                         /\ e \in stored' /\ e # r /\ SameHash(e, r)'
                         /\ call'[e].key = NoKey /\ ~Keyed(r)'
                         /\ call'[r].now < ExpiresAt(e)'
  BY StepTypeOK DEF AnswersJustified, TypeOK, Answers
<1>2. answer'[r] = answer[r] \/ FindKeyed(r) \/ FindDuplicate(r)
  BY DEF Next, Tick, Receive, FindKeyed, PurgeExpired, FindDuplicate, Fail, Handle,
         FailLate, TakeEffect, Store, Crash, vars, Goto, Reply, TypeOK, Answers
<1>3. pc[r] # "idle" /\ e \in stored
  <2>1. CASE answer'[r] = answer[r]
    BY <2>1 DEF Timeline, AnswersJustified, TypeOK, Answers
  <2>2. CASE FindKeyed(r) /\ answer'[r] # answer[r]
    <3>1. \E rec \in records : e = rec.body
      BY <2>2 DEF FindKeyed, Reply, RecordsOfKey, TypeOK
    <3>2. QED
      BY <2>2, <3>1 DEF FindKeyed, RowsFaithful
  <2>3. CASE FindDuplicate(r) /\ answer'[r] # answer[r]
    <3>1. \E rec \in records : e = rec.body
      BY <2>3 DEF FindDuplicate, Reply, Duplicates, TypeOK
    <3>2. QED
      BY <2>3, <3>1 DEF FindDuplicate, RowsFaithful
  <2>4. QED
    BY <1>2, <2>1, <2>2, <2>3
<1>4. /\ e \in stored' /\ e \in ran /\ pc[e] = "done" /\ call'[r] = call[r]
      /\ call'[e].key = call[e].key /\ call'[e].hash = call[e].hash
      /\ ExpiresAt(e)' = ExpiresAt(e)
  BY <1>1, <1>3, ExpiryFixed DEF PastKept, Timeline, TypeOK
<1>5. /\ SameKey(e, r)' = SameKey(e, r) /\ SameHash(e, r)' = SameHash(e, r)
      /\ Keyed(r)' = Keyed(r)
  BY <1>4 DEF SameKey, SameHash, Keyed
<1>6. CASE answer'[r] = answer[r]
  BY <1>4, <1>5, <1>6 DEF AnswersJustified
<1>7. CASE FindKeyed(r) /\ answer'[r] # answer[r]
  <2>1. PICK rec \in RecordsOfKey(r) :
           /\ ~Expired(r, rec) /\ rec.body = e
           /\ answer'[r].kind = IF rec.hash = call[r].hash THEN "replay" ELSE "mismatch"
    BY <1>7 DEF FindKeyed, Goto, Reply, TypeOK
  <2>2. /\ rec.key = call[e].key /\ rec.key = call[r].key /\ rec.hash = call[e].hash
        /\ rec.expiresAt = ExpiresAt(e) /\ rec.expiresAt \in Nat /\ call[r].now \in Nat
    BY <2>1 DEF RecordsOfKey, RowsFaithful, TypeOK, Records, Calls
  <2>3. Keyed(r) /\ pc[r] = "lookup"
    BY <1>7 DEF FindKeyed
  <2>4. QED
    BY <1>4, <1>5, <2>1, <2>2, <2>3 DEF Expired, SameKey, SameHash, Keyed
<1>8. CASE FindDuplicate(r) /\ answer'[r] # answer[r]
  <2>1. PICK rec \in Duplicates(r) : rec.body = e /\ answer'[r].kind = "duplicate"
    BY <1>8 DEF FindDuplicate, Goto, Reply, TypeOK
  <2>2. /\ rec.key = NoKey /\ rec.key = call[e].key /\ rec.hash = call[r].hash
        /\ rec.hash = call[e].hash /\ rec.expiresAt = ExpiresAt(e)
        /\ rec.expiresAt > call[r].now
    BY <2>1 DEF Duplicates, RowsFaithful
  <2>3. ~Keyed(r) /\ pc[r] = "lookup" /\ rec.expiresAt \in Nat /\ call[r].now \in Nat
    BY <1>8, <2>1 DEF FindDuplicate, TypeOK, Calls, Records, Duplicates
  <2>4. QED
    BY <1>4, <1>5, <2>1, <2>2, <2>3 DEF SameHash
<1>9. QED
  BY <1>2, <1>6, <1>7, <1>8

(* Handlers run past the lookup only, so what it missed settles both       *)

(* properties about running twice at that step, and nothing undoes it.     *)
LEMMA StepRunOnce ==
    ASSUME IInv, [Next]_vars PROVE NoReprocessing' /\ NoDoubleSubmit'
<1> USE DEF IInv
<1>1. PastKept
  BY Stable
<1> SUFFICES ASSUME NEW r \in Requests, r \in ran', NEW e \in Requests, e \in prior'[r]
             PROVE  /\ SameKey(e, r)' /\ ranAt'[r] <= ExpiresAt(e)' =>
                         \E d \in purgers' : SameKey(e, d)' /\ e \notin prior'[d]
                    /\ ~(/\ SameHash(e, r)' /\ call'[e].key = NoKey /\ ~Keyed(r)'
                         /\ call'[r].now < ExpiresAt(e)')
  BY DEF NoReprocessing, NoDoubleSubmit
<1>2. r \in ran \/ (TakeEffect(r) /\ ranAt'[r] = clock /\ UNCHANGED <<call, prior>>)
  BY DEF Next, Tick, Receive, FindKeyed, PurgeExpired, FindDuplicate, Fail, Handle,
         FailLate, TakeEffect, Store, Crash, vars, TypeOK
<1>3. /\ pc[r] # "idle" /\ e \in prior[r] /\ e \in stored /\ e \in ran
      /\ call'[r] = call[r] /\ call'[e].key = call[e].key /\ call'[e].hash = call[e].hash
  BY <1>1, <1>2 DEF PastKept, TakeEffect, Timeline, TypeOK
<1>4. /\ ExpiresAt(e)' = ExpiresAt(e) /\ SameKey(e, r)' = SameKey(e, r)
      /\ SameHash(e, r)' = SameHash(e, r) /\ Keyed(r)' = Keyed(r)
  BY <1>1, <1>3, ExpiryFixed DEF SameKey, SameHash, Keyed, TypeOK
<1>5. \A d \in purgers : /\ d \in purgers' /\ prior'[d] = prior[d]
                         /\ SameKey(e, d) => SameKey(e, d)'
  BY <1>1, <1>3 DEF PastKept, Timeline, SameKey, Keyed, TypeOK
<1>6. ExpiresAt(e) \in Nat /\ clock \in Nat /\ call[r].now \in Nat /\ call[r].now <= clock
  BY TimeAssumption DEF ExpiresAt, TypeOK, Calls, Timeline
<1>7. CASE r \in ran
  <2>1. ranAt'[r] = ranAt[r]
    BY <1>1, <1>7 DEF PastKept
  <2>2. SameKey(e, r) /\ ranAt[r] <= ExpiresAt(e) =>
           \E d \in purgers : SameKey(e, d) /\ e \notin prior[d]
    BY <1>3, <1>7 DEF NoReprocessing
  <2>3. ~(/\ SameHash(e, r) /\ call[e].key = NoKey /\ ~Keyed(r)
          /\ call[r].now < ExpiresAt(e))
    BY <1>3, <1>7 DEF NoDoubleSubmit
  <2>4. QED
    BY <1>3, <1>4, <1>5, <2>1, <2>2, <2>3
<1>8. CASE TakeEffect(r) /\ ranAt'[r] = clock
  <2>1. pc[r] = "handle"
    BY <1>8 DEF TakeEffect
  <2>2. ASSUME SameKey(e, r), clock <= ExpiresAt(e)
        PROVE  \E d \in purgers : SameKey(e, d) /\ e \notin prior[d]
    <3>1. Purged(e)
      BY <1>3, <1>6, <2>1, <2>2 DEF LookupMissed
    <3>2. \A d \in purgers : call[d].now <= clock /\ call[d].now \in Nat
      BY DEF Timeline, TypeOK, Calls
    <3>3. QED
      BY <1>6, <2>2, <3>1, <3>2 DEF Purged
  <2>3. ~(/\ SameHash(e, r) /\ call[e].key = NoKey /\ ~Keyed(r)
          /\ call[r].now < ExpiresAt(e))
    BY <1>3, <1>6, <2>1 DEF LookupMissed
  <2>4. QED
    BY <1>3, <1>4, <1>5, <1>8, <2>2, <2>3
<1>9. QED
  BY <1>2, <1>7, <1>8
----------------------------------------------------------------------------
(* The inductive invariant holds in every reachable state.                 *)
THEOREM Invariance == Spec => []IInv
<1>1. Init => IInv
  BY InitIInv
<1>2. IInv /\ [Next]_vars => IInv'
  <2> SUFFICES ASSUME IInv, [Next]_vars PROVE IInv'
    OBVIOUS
  <2>1. TypeOK' /\ Timeline'
    BY StepTypeOK, StepTimeline DEF IInv
  <2>2. RowsFaithful' /\ RowsKept' /\ PurgesStale' /\ LookupMissed'
    BY StepRowsFaithful, StepRowsKept, StepPurgesStale, StepLookupMissed
  <2>3. AnswersJustified' /\ NoReprocessing' /\ NoDoubleSubmit'
    BY StepAnswersJustified, StepRunOnce
  <2>4. QED
    BY <2>1, <2>2, <2>3 DEF IInv
<1>3. QED
  BY <1>1, <1>2, PTL DEF Spec

(* The variables keep their types, whatever the constants.                 *)
THEOREM TypeCorrect == Spec => []TypeOK
BY Invariance, PTL DEF IInv

(* Replays, 422s and 409s are always owed to a valid earlier record: the   *)

(* lookups of the interceptor never answer with, or because of, anything   *)
(* else.                                                                   *)
THEOREM AnswersAlwaysJustified == Spec => []AnswersJustified
BY Invariance, PTL DEF IInv

(* A retry inside the TTL is not processed again, except through the race  *)

(* of two requests that both found the key expired.                        *)
THEOREM RetryNotReprocessed == Spec => []NoReprocessing
BY Invariance, PTL DEF IInv

(* A submit without a key is never processed again inside its window.      *)
THEOREM DoubleSubmitRejected == Spec => []NoDoubleSubmit
BY Invariance, PTL DEF IInv
----------------------------------------------------------------------------
(* What the refinement needs beyond IInv.                                  *)

(* What a request past its lookup still finds on record is what it, or the *)
(* lookup before its delete, saw expired: rows never come back.            *)
LEMMA StepStandsStale == ASSUME IInv, StandsStale, [Next]_vars PROVE StandsStale'
<1> USE DEF IInv
<1>1. PastKept
  BY Stable
<1> SUFFICES ASSUME NEW r \in Requests, pc'[r] = "handle", NEW e \in prior'[r],
                    SameKey(e, r)', HasRow(e)'
             PROVE  ExpiresAt(e)' < call'[r].now
  BY DEF StandsStale
<1>2. pc[r] = "handle" \/ FindKeyed(r) \/ PurgeExpired(r) \/ FindDuplicate(r)
  BY DEF Next, Tick, Receive, FindKeyed, PurgeExpired, FindDuplicate, Fail, Handle,
         FailLate, TakeEffect, Store, Crash, vars, Goto, Reply, TypeOK
<1>3. /\ pc[r] # "idle" /\ e \in prior[r] /\ e \in stored /\ e \in ran /\ e \in Requests
      /\ call'[r] = call[r]
  BY <1>1, <1>2
  DEF PastKept, FindKeyed, PurgeExpired, FindDuplicate, Timeline, TypeOK
<1>4. SameKey(e, r) /\ HasRow(e) /\ ExpiresAt(e)' = ExpiresAt(e)
  BY <1>1, <1>3, ExpiryFixed, RowsNotRestored DEF SameKey, Keyed, PastKept, TypeOK
<1>5. CASE pc[r] = "handle"
  BY <1>3, <1>4, <1>5 DEF StandsStale
<1>6. CASE FindKeyed(r)
  <2>1. RecordsOfKey(r) = {}
    BY <1>3, <1>6 DEF FindKeyed, Goto, Reply, TypeOK
  <2>2. QED
    BY <1>4, <2>1 DEF HasRow, RecordsOfKey, RowsFaithful, SameKey
<1>7. CASE PurgeExpired(r)
  BY <1>3, <1>4, <1>7 DEF PurgeExpired, PurgesStale
<1>8. CASE FindDuplicate(r)
  BY <1>4, <1>8 DEF FindDuplicate, SameKey, Keyed
<1>9. QED
  BY <1>2, <1>5, <1>6, <1>7, <1>8

(* A request that is about to delete owes it to a record it saw expired.   *)
LEMMA StepPurgesOwed == ASSUME IInv, PurgesOwed, [Next]_vars PROVE PurgesOwed'
<1> USE DEF IInv
<1>1. PastKept
  BY Stable
<1> SUFFICES ASSUME NEW r \in Requests, pc'[r] = "purge"
             PROVE  \E e \in stored' : SameKey(e, r)' /\ ExpiresAt(e)' < call'[r].now
  BY DEF PurgesOwed
<1>2. pc[r] = "purge" \/ FindKeyed(r)
  BY DEF Next, Tick, Receive, FindKeyed, PurgeExpired, FindDuplicate, Fail, Handle,
         FailLate, TakeEffect, Store, Crash, vars, Goto, Reply, TypeOK
<1>3. \E e \in stored : SameKey(e, r) /\ ExpiresAt(e) < call[r].now
  <2>1. CASE pc[r] = "purge"
    BY <2>1 DEF PurgesOwed
  <2>2. CASE FindKeyed(r) /\ pc[r] # "purge"
    <3>1. PICK rec \in RecordsOfKey(r) : Expired(r, rec)
      BY <2>2 DEF FindKeyed, Goto, Reply, TypeOK
    <3>2. QED
      BY <2>2, <3>1 DEF Expired, RecordsOfKey, RowsFaithful, SameKey, Keyed, FindKeyed
  <2>3. QED
    BY <1>2, <2>1, <2>2
<1>4. PICK e \in stored : SameKey(e, r) /\ ExpiresAt(e) < call[r].now
  BY <1>3
<1>5. e \in stored' /\ e \in ran /\ e \in Requests /\ pc[r] # "idle"
  BY <1>1, <1>2 DEF PastKept, Timeline, TypeOK, FindKeyed
<1>6. /\ ExpiresAt(e)' = ExpiresAt(e) /\ call'[r] = call[r]
      /\ call'[e].key = call[e].key
  BY <1>1, <1>5, ExpiryFixed DEF PastKept, TypeOK
<1>7. QED
  BY <1>4, <1>5, <1>6 DEF SameKey, Keyed

(* The invariant the refinement needs holds in every reachable state.      *)
THEOREM RefinementInvariance == Spec => []RInv
<1>1. Init => StandsStale /\ PurgesOwed
  BY DEF Init, StandsStale, PurgesOwed
<1>2. IInv /\ StandsStale /\ PurgesOwed /\ [Next]_vars => StandsStale' /\ PurgesOwed'
  BY StepStandsStale, StepPurgesOwed
<1>3. QED
  BY <1>1, <1>2, Invariance, PTL DEF Spec, RInv
----------------------------------------------------------------------------
(* The interceptor seen through Promise: one lemma per action.             *)
\* What a request's label and answer say of its outcome.
OutcomeTable ==
    \A r \in Requests :
        /\ pc[r] = "idle" => Outcomes[r] = [is |-> "none", of |-> r]
        /\ pc[r] \in {"lookup", "purge", "handle", "store"} =>
              Outcomes[r] = [is |-> "pending", of |-> r]
        /\ pc[r] = "lost" => Outcomes[r] = [is |-> "lost", of |-> r]
        /\ pc[r] = "done" =>
              Outcomes[r] = [is |-> Verdict[answer[r].kind], of |-> answer[r].of]

(* The table holds of every state, whatever leads to it.                   *)
LEMMA OutcomeValues == OutcomeTable
BY DEF OutcomeTable, Outcomes, Progress

(* The bonds and the keyed requests stand, and what lapsed stays lapsed.   *)
ViewKept ==
    /\ Bond' = Bond /\ KeyedRequests' = KeyedRequests
    /\ Lapsed \subseteq Lapsed' /\ Lapsed' \subseteq stored'
    /\ clock' = clock => Lapsed' \cap stored = Lapsed
    /\ \A r \in Requests : pc[r] # "idle" => Spent'[r] = Spent[r]

(* Every step keeps the view of what earlier requests left.                *)
LEMMA StepViewKept == ASSUME IInv, [Next]_vars PROVE ViewKept
<1>1. PastKept
  BY Stable DEF IInv
<1>2. \A r \in Requests : call'[r].key = call[r].key /\ call'[r].hash = call[r].hash
  BY <1>1 DEF PastKept
<1>3. Bond' = Bond /\ KeyedRequests' = KeyedRequests
  <2>1. \A p \in Requests \X Requests : p[1] \in Requests /\ p[2] \in Requests
    OBVIOUS
  <2>2. QED
    BY <1>2, <2>1 DEF Bond, KeyedRequests, SameKey, SameHash, Keyed
<1>4. \A e \in stored : /\ e \in ran /\ e \in Requests /\ ExpiresAt(e) \in Nat
                        /\ ExpiresAt(e)' = ExpiresAt(e) /\ Keyed(e)' = Keyed(e)
  BY <1>1, ExpiryFixed, TimeAssumption DEF IInv, Timeline, TypeOK, ExpiresAt
<1>5. clock \in Nat /\ clock' \in Nat /\ clock <= clock' /\ stored \subseteq stored'
  BY <1>1 DEF PastKept
<1>6. \A e \in stored : /\ LapsedAt(e, clock) => LapsedAt(e, clock)'
                        /\ clock' = clock => LapsedAt(e, clock)' = LapsedAt(e, clock)
  BY <1>4, <1>5 DEF LapsedAt
<1>7. /\ Lapsed \subseteq Lapsed' /\ Lapsed' \subseteq stored'
      /\ clock' = clock => Lapsed' \cap stored = Lapsed
  BY <1>5, <1>6 DEF Lapsed
<1>8. ASSUME NEW r \in Requests, pc[r] # "idle" PROVE Spent'[r] = Spent[r]
  <2>1. prior'[r] = prior[r] /\ call'[r] = call[r] /\ prior[r] \subseteq stored
    BY <1>1, <1>8 DEF PastKept, IInv, Timeline
  <2>2. QED
    BY <1>4, <2>1 DEF Spent, LapsedAt
<1>9. QED
  BY <1>3, <1>7, <1>8 DEF ViewKept

(* A step of one request leaves the outcomes and the view of the others.   *)
LEMMA OneMoves ==
    ASSUME TypeOK, NEW r \in Requests, NEW l, pc' = [pc EXCEPT ![r] = l],
           \A q \in Requests \ {r} : answer'[q] = answer[q]
    PROVE  Outcomes' = [Outcomes EXCEPT ![r] = Outcomes'[r]]
<1>1. \A q \in Requests \ {r} : pc'[q] = pc[q]
  BY DEF TypeOK
<1>2. \A q \in Requests \ {r} : Outcomes'[q] = Outcomes[q]
  BY <1>1 DEF Outcomes
<1>3. Outcomes = [q \in Requests |-> Outcomes[q]] /\ Outcomes' = [q \in Requests |-> Outcomes'[q]]
  BY DEF Outcomes
<1>4. QED
  BY <1>2, <1>3

(* What a step that is not an arrival and lets no time pass leaves alone.  *)
LEMMA SpentKept ==
    ASSUME IInv, [Next]_vars, UNCHANGED <<call, prior>> PROVE UNCHANGED Spent
<1>1. \A e \in stored : ExpiresAt(e)' = ExpiresAt(e) /\ Keyed(e)' = Keyed(e)
  BY Stable, ExpiryFixed DEF IInv, Timeline, TypeOK
<1>2. \A r \in Requests : prior[r] \subseteq stored
  BY DEF IInv, Timeline
<1>3. QED
  BY <1>1, <1>2 DEF Spent, LapsedAt

(* Nor does it make anything lapse if it files nothing.                    *)
LEMMA ViewUnchanged ==
    ASSUME IInv, [Next]_vars, UNCHANGED <<clock, call, prior, stored>>
    PROVE  UNCHANGED <<Bond, KeyedRequests, Lapsed, Spent>>
<1>1. ViewKept /\ Spent' = Spent
  BY StepViewKept, SpentKept
<1>2. Lapsed' = Lapsed
  BY <1>1 DEF ViewKept, Lapsed
<1>3. QED
  BY <1>1, <1>2 DEF ViewKept

(* Time passing is a lapse.                                                *)
LEMMA TickRefines == ASSUME RInv, [Next]_vars, Tick PROVE Promise!Lapse
<1>1. ViewKept
  BY StepViewKept DEF RInv
<1>2. /\ UNCHANGED <<records, pc, call, answer, ran, stored, prior>>
  BY DEF Tick
<1>3. UNCHANGED <<OnRecord, Outcomes>>
  BY <1>2 DEF OnRecord, Outcomes
<1>4. Spent' = Spent
  BY SpentKept DEF Tick, RInv
<1>5. QED
  BY <1>1, <1>2, <1>3, <1>4 DEF ViewKept, Promise!Lapse

(* An arrival takes the promise's snapshots: `now` is all it needs for them. *)
LEMMA ReceiveRefines ==
    ASSUME RInv, [Next]_vars, NEW r \in Requests, Receive(r) PROVE Promise!Arrive(r)
<1> USE DEF RInv, IInv
<1>1. ViewKept /\ OutcomeTable /\ OutcomeTable'
  BY StepViewKept, OutcomeValues, PTL
<1>2. /\ pc[r] = "idle" /\ pc' = [pc EXCEPT ![r] = "lookup"]
      /\ prior' = [prior EXCEPT ![r] = stored]
      /\ call' = [call EXCEPT ![r].now = clock]
      /\ UNCHANGED <<clock, records, answer, ran, stored, ranAt>>
  BY DEF Receive, Goto
<1>3. Outcomes' = [Outcomes EXCEPT ![r] = [is |-> "pending", of |-> r]]
  <2>1. pc'[r] = "lookup"
    BY <1>2 DEF TypeOK
  <2>2. Outcomes'[r] = [is |-> "pending", of |-> r]
    BY <1>1, <2>1 DEF OutcomeTable
  <2>3. Outcomes' = [Outcomes EXCEPT ![r] = Outcomes'[r]]
    BY <1>2, OneMoves
  <2>4. QED
    BY <2>2, <2>3
<1>4. Outcomes[r].is = "none"
  <2>1. Outcomes[r] = [is |-> "none", of |-> r]
    BY <1>1, <1>2 DEF OutcomeTable
  <2>2. QED
    BY <2>1
<1>5. OnRecord' = OnRecord
  BY <1>2 DEF OnRecord
<1>6. Lapsed' = Lapsed
  BY <1>1, <1>2 DEF ViewKept
<1>7. Spent' = [Spent EXCEPT ![r] = Lapsed]
  <2>1. \A q \in Requests \ {r} : prior'[q] = prior[q] /\ call'[q].now = call[q].now
    BY <1>2 DEF TypeOK, Calls
  <2>2. prior'[r] = stored /\ call'[r].now = clock
    BY <1>2 DEF TypeOK, Calls
  <2>3. \A e, n : LapsedAt(e, n)' = LapsedAt(e, n)'
    OBVIOUS
  <2>4. \A e \in stored : ExpiresAt(e)' = ExpiresAt(e) /\ Keyed(e)' = Keyed(e)
    BY <1>2 DEF ExpiresAt, Keyed, TypeOK, Calls, Timeline
  <2>5. \A q \in Requests : prior[q] \subseteq stored
    BY DEF Timeline
  <2>6. \A q \in Requests \ {r} : Spent'[q] = Spent[q]
    BY <2>1, <2>4, <2>5 DEF Spent, LapsedAt
  <2>7. Spent'[r] = Lapsed
    BY <2>2, <2>4 DEF Spent, Lapsed, LapsedAt
  <2>8. /\ Spent = [q \in Requests |-> Spent[q]]
        /\ Spent' = [q \in Requests |-> Spent'[q]]
    BY DEF Spent
  <2>9. QED
    BY <2>6, <2>7, <2>8
<1>8. QED
  BY <1>1, <1>2, <1>3, <1>4, <1>5, <1>6, <1>7 DEF ViewKept, Promise!Arrive, Promise!End

UnderWay == {"lookup", "purge", "handle", "store"}

(* A request that stands between its arrival and its answer is pending.    *)
LEMMA PendingOf ==
    ASSUME NEW r \in Requests, pc[r] \in UnderWay PROVE Promise!Pending(r)
<1>1. Outcomes[r] = [is |-> "pending", of |-> r]
  BY OutcomeValues DEF OutcomeTable, UnderWay
<1>2. QED
  BY <1>1 DEF Promise!Pending

(* Moving on without an answer is not seen.                                *)
LEMMA MovesUnseen ==
    ASSUME TypeOK, NEW r \in Requests, pc[r] \in UnderWay, NEW l \in UnderWay,
           Goto(r, l), answer' = answer
    PROVE  Outcomes' = Outcomes
<1>1. OutcomeTable /\ OutcomeTable'
  BY OutcomeValues, PTL
<1>2. Outcomes[r] = [is |-> "pending", of |-> r]
  BY <1>1 DEF OutcomeTable, UnderWay
<1>3. pc' = [pc EXCEPT ![r] = l] /\ pc'[r] = l
  BY DEF Goto, TypeOK
<1>4. Outcomes'[r] = [is |-> "pending", of |-> r]
  BY <1>1, <1>3 DEF OutcomeTable, UnderWay
<1>5. Outcomes' = [Outcomes EXCEPT ![r] = Outcomes'[r]]
  BY <1>3, OneMoves
<1>6. Outcomes = [q \in Requests |-> Outcomes[q]]
  BY DEF Outcomes
<1>7. QED
  BY <1>2, <1>4, <1>5, <1>6

(* The answer given is the outcome the promise gives.                      *)
LEMMA ReplyEnds ==
    ASSUME TypeOK, NEW r \in Requests, NEW e, NEW kind, Reply(r, kind, e)
    PROVE  Promise!End(r, Verdict[kind], e)
<1>1. OutcomeTable'
  BY OutcomeValues, PTL
<1>2. /\ pc' = [pc EXCEPT ![r] = "done"] /\ pc'[r] = "done"
      /\ answer'[r] = [kind |-> kind, of |-> e]
      /\ \A q \in Requests \ {r} : answer'[q] = answer[q]
  BY DEF Reply, Goto, TypeOK
<1>3. Outcomes'[r] = [is |-> Verdict[answer'[r].kind], of |-> answer'[r].of]
  BY <1>1, <1>2 DEF OutcomeTable
<1>4. answer'[r].kind = kind /\ answer'[r].of = e
  BY <1>2
<1>5. Outcomes' = [Outcomes EXCEPT ![r] = Outcomes'[r]]
  BY <1>2, OneMoves
<1>6. QED
  BY <1>3, <1>4, <1>5 DEF Promise!End

(* A lookup that finds nothing, or something expired, is not seen.         *)
LEMMA LookupUnseen ==
    ASSUME RInv, [Next]_vars, NEW r \in Requests, pc[r] \in UnderWay, NEW l \in UnderWay,
           Goto(r, l), UNCHANGED <<clock, records, call, ranAt, answer, ran, stored, prior>>
    PROVE  UNCHANGED Promise!vars
<1>1. Outcomes' = Outcomes
  BY MovesUnseen DEF RInv, IInv
<1>2. OnRecord' = OnRecord
  BY DEF OnRecord
<1>3. UNCHANGED <<Bond, KeyedRequests, Lapsed, Spent>>
  BY ViewUnchanged DEF RInv
<1>4. QED
  BY <1>1, <1>2, <1>3 DEF Promise!vars

(* An answer taken from a valid record of a bonded request is the promise's. *)
LEMMA AnswerRefines ==
    ASSUME RInv, [Next]_vars, NEW r \in Requests, pc[r] = "lookup",
           NEW rec \in records, NEW kind \in {"replay", "mismatch", "duplicate"},
           Bond[<<rec.body, r>>] = Verdict[kind],
           ~LapsedAt(rec.body, call[r].now),
           Reply(r, kind, rec.body),
           UNCHANGED <<clock, records, call, ranAt, ran, stored, prior>>
    PROVE  Promise!AnswerFrom(r, rec.body)
<1>1. Promise!Pending(r) /\ r \notin ran
  BY PendingOf DEF UnderWay, RInv, IInv, Timeline
<1>2. rec.body \in OnRecord \ Spent[r]
  BY DEF OnRecord, Spent
<1>3. Promise!Answers(rec.body, r)
  BY DEF Promise!Answers, Verdict
<1>4. Promise!End(r, Bond[<<rec.body, r>>], rec.body)
  BY ReplyEnds DEF RInv, IInv
<1>5. OnRecord' = OnRecord
  BY DEF OnRecord
<1>6. UNCHANGED <<Bond, KeyedRequests, Lapsed, Spent>>
  BY ViewUnchanged DEF RInv
<1>7. QED
  BY <1>1, <1>2, <1>3, <1>4, <1>5, <1>6 DEF Promise!AnswerFrom

(* A hit is an answer from the record; a miss or an expired row is not seen. *)
LEMMA FindKeyedRefines ==
    ASSUME RInv, [Next]_vars, NEW r \in Requests, FindKeyed(r)
    PROVE  [Promise!Next]_(Promise!vars)
<1> USE DEF RInv, IInv
<1>1. /\ pc[r] = "lookup" /\ Keyed(r)
      /\ UNCHANGED <<clock, records, call, ranAt, ran, stored, prior>>
  BY DEF FindKeyed
<1>2. CASE RecordsOfKey(r) = {} /\ Goto(r, "handle") /\ UNCHANGED answer
  BY <1>1, <1>2, LookupUnseen DEF UnderWay
<1>3. ASSUME NEW rec \in RecordsOfKey(r), Goto(r, "purge"), UNCHANGED answer
      PROVE  UNCHANGED Promise!vars
  BY <1>1, <1>3, LookupUnseen DEF UnderWay
<1>4. ASSUME NEW rec \in RecordsOfKey(r), ~Expired(r, rec),
             NEW kind \in {"replay", "mismatch"},
             rec.hash = call[r].hash <=> kind = "replay", Reply(r, kind, rec.body)
      PROVE  Promise!Next
  <2>1. /\ rec \in records /\ rec.key = call[r].key /\ rec.body \in Requests
        /\ rec.key = call[rec.body].key /\ rec.hash = call[rec.body].hash
        /\ rec.expiresAt = ExpiresAt(rec.body)
    BY DEF RecordsOfKey, RowsFaithful, TypeOK, Records
  <2>2. SameKey(rec.body, r) /\ Keyed(rec.body)
    BY <1>1, <2>1 DEF SameKey, Keyed
  <2>3. Bond[<<rec.body, r>>] = Verdict[kind]
    <3>1. Bond[<<rec.body, r>>] = IF SameHash(rec.body, r) THEN "replay" ELSE "refuse"
      BY <2>1, <2>2 DEF Bond
    <3>2. SameHash(rec.body, r) <=> kind = "replay"
      BY <1>4, <2>1 DEF SameHash
    <3>3. Verdict["replay"] = "replay" /\ Verdict["mismatch"] = "refuse"
      BY DEF Verdict
    <3>4. QED
      BY <1>4, <3>1, <3>2, <3>3
  <2>4. ~LapsedAt(rec.body, call[r].now)
    BY <1>4, <2>1, <2>2 DEF LapsedAt, Expired
  <2>5. Promise!AnswerFrom(r, rec.body)
    BY <1>1, <1>4, <2>1, <2>3, <2>4, AnswerRefines
  <2>6. QED
    BY <2>1, <2>5 DEF Promise!Next
<1>5. \/ RecordsOfKey(r) = {} /\ Goto(r, "handle") /\ UNCHANGED answer
      \/ \E rec \in RecordsOfKey(r) :
           \/ Goto(r, "purge") /\ UNCHANGED answer
           \/ ~Expired(r, rec) /\ rec.hash # call[r].hash /\ Reply(r, "mismatch", rec.body)
           \/ ~Expired(r, rec) /\ rec.hash = call[r].hash /\ Reply(r, "replay", rec.body)
  BY DEF FindKeyed
<1>6. QED
  BY <1>2, <1>3, <1>4, <1>5

(* So is a 409 of the hash-only lookup.                                    *)
LEMMA FindDuplicateRefines ==
    ASSUME RInv, [Next]_vars, NEW r \in Requests, FindDuplicate(r)
    PROVE  [Promise!Next]_(Promise!vars)
<1> USE DEF RInv, IInv
<1>1. /\ pc[r] = "lookup" /\ ~Keyed(r)
      /\ UNCHANGED <<clock, records, call, ranAt, ran, stored, prior>>
  BY DEF FindDuplicate
<1>2. CASE Duplicates(r) = {} /\ Goto(r, "handle") /\ UNCHANGED answer
  BY <1>1, <1>2, LookupUnseen DEF UnderWay
<1>3. ASSUME NEW rec \in Duplicates(r), Reply(r, "duplicate", rec.body)
      PROVE  Promise!Next
  <2>1. /\ rec \in records /\ rec.key = NoKey /\ rec.body \in Requests
        /\ rec.key = call[rec.body].key /\ rec.hash = call[rec.body].hash
        /\ rec.expiresAt = ExpiresAt(rec.body) /\ rec.hash = call[r].hash
        /\ rec.expiresAt > call[r].now /\ rec.expiresAt \in Nat /\ call[r].now \in Nat
    BY DEF Duplicates, RowsFaithful, TypeOK, Records, Calls
  <2>2. ~Keyed(rec.body) /\ ~SameKey(rec.body, r)
    BY <2>1, KeysAssumption DEF SameKey, Keyed
  <2>3. Bond[<<rec.body, r>>] = "refuse"
    BY <1>1, <2>1, <2>2 DEF Bond, SameHash
  <2>4. Verdict["duplicate"] = "refuse"
    BY DEF Verdict
  <2>5. ~LapsedAt(rec.body, call[r].now)
    BY <2>1, <2>2 DEF LapsedAt
  <2>6. Promise!AnswerFrom(r, rec.body)
    BY <1>1, <1>3, <2>1, <2>3, <2>4, <2>5, AnswerRefines
  <2>7. QED
    BY <2>1, <2>6 DEF Promise!Next
<1>4. QED
  BY <1>2, <1>3 DEF FindDuplicate

(* The delete is a withdrawal, or nothing.                                 *)
LEMMA PurgeRefines ==
    ASSUME RInv, [Next]_vars, NEW r \in Requests, PurgeExpired(r)
    PROVE  [Promise!Next]_(Promise!vars)
<1> USE DEF RInv, IInv
<1>1. /\ pc[r] = "purge" /\ Goto(r, "handle") /\ Keyed(r)
      /\ UNCHANGED <<clock, call, ranAt, answer, ran, stored, prior>>
  BY DEF PurgeExpired, Timeline
<1>2. UNCHANGED <<Outcomes, Bond, KeyedRequests, Lapsed, Spent>>
  BY <1>1, MovesUnseen, ViewUnchanged DEF UnderWay
<1>3. CASE records' = records
  <2>1. OnRecord' = OnRecord
    BY <1>3 DEF OnRecord
  <2>2. QED
    BY <1>1, <1>2, <2>1 DEF Promise!vars
<1>4. CASE records' = records \ RecordsOfKey(r)
  <2>1. \A rec \in records : rec \in RecordsOfKey(r) <=> Promise!Answers(rec.body, r)
    <3> SUFFICES ASSUME NEW rec \in records
                 PROVE  rec \in RecordsOfKey(r) <=> Promise!Answers(rec.body, r)
      OBVIOUS
    <3>1. rec.body \in Requests /\ rec.key = call[rec.body].key
      BY DEF RowsFaithful, TypeOK, Records
    <3>2. rec \in RecordsOfKey(r) <=> SameKey(rec.body, r)
      BY <1>1, <3>1 DEF RecordsOfKey, SameKey, Keyed
    <3>3. Bond[<<rec.body, r>>] # "none" <=> SameKey(rec.body, r)
      BY <1>1, <3>1 DEF Bond
    <3>4. QED
      BY <3>2, <3>3 DEF Promise!Answers
  <2>2. OnRecord' = {e \in OnRecord : ~Promise!Answers(e, r)}
    BY <1>4, <2>1 DEF OnRecord
  <2>3. \E f \in Lapsed : Promise!Answers(f, r)
    <3>1. PICK f \in stored : SameKey(f, r) /\ ExpiresAt(f) < call[r].now
      BY <1>1 DEF PurgesOwed
    <3>2. /\ f \in Requests /\ ExpiresAt(f) \in Nat /\ call[r].now \in Nat
          /\ clock \in Nat /\ call[r].now <= clock
      BY <3>1, TimeAssumption DEF TypeOK, Calls, Timeline, ExpiresAt
    <3>3. LapsedAt(f, clock)
      BY <3>1, <3>2 DEF LapsedAt, SameKey
    <3>4. Bond[<<f, r>>] # "none"
      BY <3>1, <3>2 DEF Bond
    <3>5. QED
      BY <3>1, <3>3, <3>4 DEF Lapsed, Promise!Answers
  <2>4. Promise!Pending(r) /\ r \notin ran /\ r \in KeyedRequests
    BY <1>1, PendingOf DEF UnderWay, Timeline, KeyedRequests
  <2>5. Promise!Withdraw(r)
    BY <1>1, <1>2, <2>2, <2>3, <2>4 DEF Promise!Withdraw
  <2>6. QED
    BY <2>5 DEF Promise!Next
<1>5. QED
  BY <1>3, <1>4 DEF PurgeExpired

(* The promise lets a handler take effect where the code runs it.          *)
LEMMA MayRun ==
    ASSUME RInv, NEW r \in Requests, pc[r] = "handle" PROVE Promise!MayTakeEffect(r)
<1> USE DEF RInv, IInv
<1>1. Promise!Pending(r) /\ r \notin ran
  BY PendingOf DEF UnderWay, Timeline
<1>2. ASSUME NEW e \in (OnRecord \cap prior[r]) \ Spent[r], Promise!Answers(e, r)
      PROVE  FALSE
  <2>1. e \in stored /\ e \in Requests /\ ~LapsedAt(e, call[r].now) /\ HasRow(e)
    BY <1>2 DEF Timeline, TypeOK, Spent, OnRecord, HasRow
  <2>2. CASE SameKey(e, r)
    BY <2>1, <2>2 DEF StandsStale, LapsedAt, SameKey
  <2>3. CASE ~SameKey(e, r)
    <3>1. call[e].key = NoKey /\ ~Keyed(r) /\ SameHash(e, r)
      BY <1>2, <2>1, <2>3 DEF Bond, Promise!Answers
    <3>2. ~Keyed(e)
      BY <3>1, KeysAssumption DEF Keyed
    <3>3. QED
      BY <1>2, <2>1, <3>1, <3>2 DEF LookupMissed, LapsedAt
  <2>4. QED
    BY <2>2, <2>3
<1>3. QED
  BY <1>1, <1>2 DEF Promise!MayTakeEffect

(* A handler that returns takes effect first.                              *)
LEMMA HandleRefines ==
    ASSUME RInv, [Next]_vars, NEW r \in Requests, Handle(r) PROVE Promise!TakeEffect(r)
<1> USE DEF RInv, IInv
<1>1. /\ pc[r] = "handle" /\ Goto(r, "store") /\ ran' = ran \cup {r}
      /\ UNCHANGED <<clock, records, call, answer, stored, prior>>
  BY DEF Handle, TakeEffect
<1>2. UNCHANGED <<Outcomes, Bond, KeyedRequests, Lapsed, Spent>>
  BY <1>1, MovesUnseen, ViewUnchanged DEF UnderWay
<1>3. OnRecord' = OnRecord
  BY <1>1 DEF OnRecord
<1>4. QED
  BY <1>1, <1>2, <1>3, MayRun DEF Promise!TakeEffect

(* The response goes out, on record unless create() fails.                 *)
LEMMA StoreRefines ==
    ASSUME RInv, [Next]_vars, NEW r \in Requests, Store(r) PROVE Promise!Finish(r)
<1> USE DEF RInv, IInv
<1>1. /\ pc[r] = "store" /\ Reply(r, "fresh", r)
      /\ UNCHANGED <<clock, call, ranAt, ran, prior>>
  BY DEF Store
<1>2. ViewKept /\ Spent' = Spent
  BY <1>1, StepViewKept, SpentKept
<1>3. Promise!Pending(r) /\ r \in ran /\ r \notin stored
  BY <1>1, PendingOf DEF UnderWay, Timeline
<1>4. Promise!End(r, "fresh", r)
  <2>1. Verdict["fresh"] = "fresh"
    BY DEF Verdict
  <2>2. QED
    BY <1>1, <2>1, ReplyEnds
<1>5. CASE records' = records /\ stored' = stored
  <2>1. OnRecord' = OnRecord
    BY <1>5 DEF OnRecord
  <2>2. Lapsed' = Lapsed
    BY <1>1, <1>2, <1>5 DEF ViewKept, Lapsed
  <2>3. QED
    BY <1>1, <1>2, <1>3, <1>4, <1>5, <2>1, <2>2 DEF ViewKept, Promise!Finish
<1>6. CASE ~Conflicts(r) /\ records' = records \cup {NewRecord(r)}
                         /\ stored' = stored \cup {r}
  <2>1. NewRecord(r).body = r
    BY DEF NewRecord
  <2>2. OnRecord' = OnRecord \cup {r}
    BY <1>6, <2>1 DEF OnRecord
  <2>3. Lapsed' \in {Lapsed, Lapsed \cup {r}}
    <3>1. /\ Lapsed' \subseteq stored \cup {r} /\ Lapsed' \cap stored = Lapsed
          /\ Lapsed \subseteq stored
      BY <1>1, <1>2, <1>6 DEF ViewKept, Lapsed
    <3>2. QED
      BY <3>1
  <2>4. ASSUME r \in KeyedRequests, NEW e \in OnRecord, Promise!Answers(e, r) PROVE FALSE
    <3>1. PICK rec \in records : rec.body = e
      BY DEF OnRecord
    <3>2. Keyed(r) /\ e \in Requests /\ rec.key = call[e].key
      BY <2>4, <3>1 DEF KeyedRequests, RowsFaithful, TypeOK, Records
    <3>3. SameKey(e, r)
      BY <2>4, <3>2 DEF Bond, Promise!Answers
    <3>4. rec \in RecordsOfKey(r) /\ call[r].key # NoKey
      BY <3>2, <3>3, KeysAssumption DEF SameKey, Keyed, RecordsOfKey
    <3>5. QED
      BY <1>6, <3>4 DEF Conflicts
  <2>5. QED
    BY <1>1, <1>2, <1>3, <1>4, <1>6, <2>2, <2>3, <2>4 DEF ViewKept, Promise!Finish
<1>7. QED
  BY <1>5, <1>6 DEF Store

(* A request that fails has taken effect where the promise let it, or not. *)
LEMMA FailRefines ==
    ASSUME RInv, [Next]_vars, NEW r \in Requests, Fail(r) \/ FailLate(r)
    PROVE  Promise!Fail(r)
<1> USE DEF RInv, IInv
<1>1. /\ pc[r] \in {"lookup", "handle"} /\ Reply(r, "error", r)
      /\ ran' = ran \/ (pc[r] = "handle" /\ ran' = ran \cup {r})
      /\ UNCHANGED <<clock, records, call, stored, prior>>
  BY DEF Fail, FailLate, TakeEffect
<1>2. Verdict["error"] = "error"
  BY DEF Verdict
<1>3. Promise!End(r, "error", r)
  BY <1>1, <1>2, ReplyEnds
<1>4. Promise!Pending(r) /\ r \notin ran
  BY <1>1, PendingOf DEF UnderWay, Timeline
<1>5. OnRecord' = OnRecord
  BY <1>1 DEF OnRecord
<1>6. ran' = ran \/ (Promise!MayTakeEffect(r) /\ ran' = ran \cup {r})
  BY <1>1, MayRun
<1>7. QED
  BY <1>1, <1>3, <1>4, <1>5, <1>6, ViewUnchanged DEF Promise!Fail

(* A lost request may have.                                                *)
LEMMA CrashRefines ==
    ASSUME RInv, [Next]_vars, NEW r \in Requests, Crash(r) PROVE Promise!Lose(r)
<1> USE DEF RInv, IInv
<1>1. /\ pc[r] \in UnderWay /\ pc' = [pc EXCEPT ![r] = "lost"]
      /\ UNCHANGED <<clock, records, call, answer, ran, stored, prior>>
  BY DEF Crash, Goto, UnderWay
<1>2. OutcomeTable'
  BY OutcomeValues, PTL
<1>3. pc'[r] = "lost"
  BY <1>1 DEF TypeOK
<1>4. Outcomes'[r] = [is |-> "lost", of |-> r]
  BY <1>2, <1>3 DEF OutcomeTable
<1>5. Promise!End(r, "lost", r)
  BY <1>1, <1>4, OneMoves DEF Promise!End
<1>6. OnRecord' = OnRecord
  BY <1>1 DEF OnRecord
<1>7. QED
  BY <1>1, <1>5, <1>6, PendingOf, ViewUnchanged DEF Promise!Lose

(* The promise holds of the initial state: nothing is known of anyone.     *)
LEMMA InitRefines == Init => Promise!Init
<1> SUFFICES ASSUME Init PROVE Promise!Init
  OBVIOUS
<1>1. Bond \in [Requests \X Requests -> Promise!Bonds]
  BY DEF Bond, Promise!Bonds
<1>2. KeyedRequests \in SUBSET Requests
  BY DEF KeyedRequests
<1>3. OnRecord = {} /\ Lapsed = {} /\ Spent = [r \in Requests |-> {}]
  BY DEF Init, OnRecord, Lapsed, Spent
<1>4. \A r \in Requests : Outcomes[r] = [is |-> "none", of |-> r]
  BY OutcomeValues DEF Init, OutcomeTable
<1>5. Outcomes = [r \in Requests |-> Outcomes[r]]
  BY DEF Outcomes
<1>6. Outcomes = [r \in Requests |-> [is |-> "none", of |-> r]]
  BY <1>4, <1>5
<1>7. QED
  BY <1>1, <1>2, <1>3, <1>6 DEF Init, Promise!Init

(* Every step of the interceptor is one of the promise, or a stutter.      *)
LEMMA StepRefines == ASSUME RInv, [Next]_vars PROVE [Promise!Next]_(Promise!vars)
<1>1. CASE Tick
  BY <1>1, TickRefines DEF Promise!Next
<1>2. ASSUME NEW r \in Requests, Receive(r) PROVE Promise!Next
  BY <1>2, ReceiveRefines DEF Promise!Next
<1>3. ASSUME NEW r \in Requests, Handle(r) PROVE Promise!Next
  BY <1>3, HandleRefines DEF Promise!Next
<1>4. ASSUME NEW r \in Requests, Store(r) PROVE Promise!Next
  BY <1>4, StoreRefines DEF Promise!Next
<1>5. ASSUME NEW r \in Requests, Fail(r) \/ FailLate(r) PROVE Promise!Next
  BY <1>5, FailRefines DEF Promise!Next
<1>6. ASSUME NEW r \in Requests, Crash(r) PROVE Promise!Next
  BY <1>6, CrashRefines DEF Promise!Next
<1>7. CASE UNCHANGED vars
  <2>1. UNCHANGED <<Bond, KeyedRequests, Lapsed, Spent>>
    BY <1>7, ViewUnchanged DEF vars, RInv
  <2>2. UNCHANGED <<OnRecord, Outcomes>>
    BY <1>7 DEF vars, OnRecord, Outcomes
  <2>3. QED
    BY <1>7, <2>1, <2>2 DEF vars, Promise!vars
<1>8. ASSUME NEW r \in Requests, FindKeyed(r) \/ FindDuplicate(r) \/ PurgeExpired(r)
      PROVE  [Promise!Next]_(Promise!vars)
  BY <1>8, FindKeyedRefines, FindDuplicateRefines, PurgeRefines
<1>9. QED
  BY <1>1, <1>2, <1>3, <1>4, <1>5, <1>6, <1>7, <1>8 DEF Next

(* The interceptor implements the promise, for every set of requests.      *)
THEOREM Implementation == Spec => Refines
BY InitRefines, StepRefines, RefinementInvariance, PTL DEF Spec, Refines, Promise!Spec
----------------------------------------------------------------------------
(* The promise in itself: its invariant is inductive, whatever refines it. *)
LEMMA PromiseInit == Promise!Init => Promise!Inv
<1> SUFFICES ASSUME Promise!Init PROVE Promise!Inv
  OBVIOUS
<1> USE DEF Promise!Init
<1>1. \A r \in Requests : Outcomes[r] = [is |-> "none", of |-> r]
  OBVIOUS
<1>2. \A r \in Requests : Outcomes[r].is = "none"
  BY <1>1
<1>3. Outcomes \in [Requests -> Promise!Outcome]
  BY DEF Promise!Outcome
<1>4. Promise!Shape
  BY <1>3 DEF Promise!Shape
<1>5. Promise!Order /\ Promise!Gone
  BY DEF Promise!Order, Promise!Gone
<1>6. Promise!OneOrTheOther /\ Promise!RepeatsExcused
  BY <1>2 DEF Promise!OneOrTheOther, Promise!RepeatsExcused
<1>7. QED
  BY <1>4, <1>5, <1>6 DEF Promise!Inv

(* Ending a request leaves the outcomes of the others.                     *)
LEMMA PromiseEnds ==
    ASSUME Promise!Shape, NEW r \in Requests, NEW e \in Requests,
           NEW is \in {"pending", "lost", "error", "fresh", "replay", "refuse"},
           Promise!End(r, is, e)
    PROVE  /\ Outcomes' \in [Requests -> Promise!Outcome]
           /\ Outcomes'[r].is = is /\ Outcomes'[r].of = e
           /\ \A q \in Requests \ {r} : Outcomes'[q] = Outcomes[q]
<1>1. Outcomes \in [Requests -> Promise!Outcome]
  BY DEF Promise!Shape
<1>2. Outcomes' = [Outcomes EXCEPT ![r] = [is |-> is, of |-> e]]
  BY DEF Promise!End
<1>3. [is |-> is, of |-> e] \in Promise!Outcome
  BY DEF Promise!Outcome
<1>4. QED
  BY <1>1, <1>2, <1>3

(* Every step of the promise keeps its invariant.                          *)
LEMMA PromiseStep ==
    ASSUME Promise!Inv, [Promise!Next]_(Promise!vars) PROVE Promise!Inv'
<1> USE DEF Promise!Inv
<1>1. CASE Promise!Lapse
  <2>1. /\ Lapsed \subseteq Lapsed' /\ Lapsed' \subseteq stored
        /\ UNCHANGED <<Bond, KeyedRequests, ran, stored, OnRecord, prior, Spent, Outcomes>>
    BY <1>1 DEF Promise!Lapse
  <2>2. Promise!Shape' /\ Promise!Order' /\ Promise!OneOrTheOther'
    BY <2>1 DEF Promise!Shape, Promise!Order, Promise!OneOrTheOther
  <2>3. Promise!Gone' /\ Promise!RepeatsExcused'
    BY <2>1 DEF Promise!Gone, Promise!RepeatsExcused, Promise!Answers
  <2>4. QED
    BY <2>2, <2>3
<1>2. ASSUME NEW r \in Requests, Promise!Arrive(r) PROVE Promise!Inv'
  <2>1. /\ Outcomes[r].is = "none" /\ Promise!End(r, "pending", r)
        /\ prior' = [prior EXCEPT ![r] = stored] /\ Spent' = [Spent EXCEPT ![r] = Lapsed]
        /\ UNCHANGED <<Bond, KeyedRequests, ran, stored, OnRecord, Lapsed>>
    BY <1>2 DEF Promise!Arrive
  <2>2. /\ Outcomes' \in [Requests -> Promise!Outcome] /\ Outcomes'[r].is = "pending"
        /\ \A q \in Requests \ {r} : Outcomes'[q] = Outcomes[q]
    BY <2>1, PromiseEnds
  <2>3. r \notin ran
    BY <2>1 DEF Promise!Order
  <2>4. /\ prior'[r] = stored
        /\ \A q \in Requests \ {r} : prior'[q] = prior[q] /\ Spent'[q] = Spent[q]
    BY <2>1 DEF Promise!Shape
  <2>5. Promise!Shape'
    <3>1. Spent' \in [Requests -> SUBSET Requests]
      BY <2>1 DEF Promise!Shape
    <3>2. QED
      BY <2>1, <2>2, <3>1 DEF Promise!Shape
  <2>6. Promise!Order' /\ Promise!Gone'
    BY <2>1, <2>2, <2>4 DEF Promise!Order, Promise!Gone, Promise!Answers
  <2>7. Promise!OneOrTheOther'
    BY <2>1, <2>2 DEF Promise!OneOrTheOther
  <2>8. Promise!RepeatsExcused'
    BY <2>1, <2>3, <2>4 DEF Promise!RepeatsExcused, Promise!Answers
  <2>9. QED
    BY <2>5, <2>6, <2>7, <2>8
<1>3. ASSUME NEW r \in Requests, Promise!TakeEffect(r) PROVE Promise!Inv'
  <2>1. /\ Outcomes[r].is = "pending" /\ ran' = ran \cup {r}
        /\ \A e \in (OnRecord \cap prior[r]) \ Spent[r] : ~Promise!Answers(e, r)
        /\ UNCHANGED <<Bond, KeyedRequests, stored, OnRecord, Lapsed, prior, Spent, Outcomes>>
    BY <1>3 DEF Promise!TakeEffect, Promise!MayTakeEffect, Promise!Pending
  <2>2. Promise!Shape' /\ Promise!Order' /\ Promise!Gone'
    BY <2>1 DEF Promise!Shape, Promise!Order, Promise!Gone, Promise!Answers
  <2>3. Promise!OneOrTheOther'
    BY <2>1 DEF Promise!OneOrTheOther
  <2>4. ASSUME NEW e \in prior[r], Promise!Answers(e, r), e \notin Spent[r]
        PROVE  \E f \in Lapsed, d \in KeyedRequests :
                  Promise!Answers(f, d) /\ Promise!Answers(e, d)
    BY <2>1, <2>4 DEF Promise!Order, Promise!Gone
  <2>5. Promise!RepeatsExcused'
    BY <2>1, <2>4 DEF Promise!RepeatsExcused, Promise!Answers
  <2>6. QED
    BY <2>2, <2>3, <2>5
<1>4. ASSUME NEW r \in Requests, Promise!Finish(r) PROVE Promise!Inv'
  <2>1. /\ Outcomes[r].is = "pending" /\ r \in ran /\ Promise!End(r, "fresh", r)
        /\ \/ /\ stored' = stored \cup {r} /\ OnRecord' = OnRecord \cup {r}
              /\ Lapsed \subseteq Lapsed' /\ Lapsed' \subseteq Lapsed \cup {r}
           \/ UNCHANGED <<stored, OnRecord, Lapsed>>
        /\ UNCHANGED <<Bond, KeyedRequests, ran, prior, Spent>>
    BY <1>4 DEF Promise!Finish, Promise!Pending
  <2>2. /\ Outcomes' \in [Requests -> Promise!Outcome] /\ Outcomes'[r].is = "fresh"
        /\ \A q \in Requests \ {r} : Outcomes'[q] = Outcomes[q]
    BY <2>1, PromiseEnds
  <2>3. Promise!Shape' /\ Promise!Order'
    BY <2>1, <2>2 DEF Promise!Shape, Promise!Order
  <2>4. Promise!Gone'
    BY <2>1 DEF Promise!Gone, Promise!Answers
  <2>5. Promise!OneOrTheOther'
    BY <2>1, <2>2 DEF Promise!OneOrTheOther
  <2>6. Promise!RepeatsExcused'
    BY <2>1 DEF Promise!RepeatsExcused, Promise!Answers
  <2>7. QED
    BY <2>3, <2>4, <2>5, <2>6
<1>5. ASSUME NEW r \in Requests, NEW e \in Requests, Promise!AnswerFrom(r, e)
      PROVE  Promise!Inv'
  <2>1. /\ r \notin ran /\ e \in OnRecord /\ Bond[<<e, r>>] # "none"
        /\ Promise!End(r, Bond[<<e, r>>], e)
        /\ UNCHANGED <<Bond, KeyedRequests, ran, stored, OnRecord, Lapsed, prior, Spent>>
    BY <1>5 DEF Promise!AnswerFrom, Promise!Answers
  <2>2. Bond[<<e, r>>] \in {"replay", "refuse"}
    BY <2>1 DEF Promise!Shape, Promise!Bonds
  <2>3. /\ Outcomes' \in [Requests -> Promise!Outcome]
        /\ Outcomes'[r].is = Bond[<<e, r>>] /\ Outcomes'[r].of = e
        /\ \A q \in Requests \ {r} : Outcomes'[q] = Outcomes[q]
    BY <2>1, <2>2, PromiseEnds
  <2>4. Promise!Shape' /\ Promise!Order'
    BY <2>1, <2>2, <2>3 DEF Promise!Shape, Promise!Order
  <2>5. Promise!OneOrTheOther'
    BY <2>1, <2>2, <2>3 DEF Promise!OneOrTheOther, Promise!Shape
  <2>6. Promise!Gone' /\ Promise!RepeatsExcused'
    BY <2>1 DEF Promise!Gone, Promise!RepeatsExcused, Promise!Answers
  <2>7. QED
    BY <2>4, <2>5, <2>6
<1>6. ASSUME NEW r \in Requests, Promise!Withdraw(r) PROVE Promise!Inv'
  <2>1. /\ r \in KeyedRequests /\ \E f \in Lapsed : Promise!Answers(f, r)
        /\ OnRecord' = {e \in OnRecord : ~Promise!Answers(e, r)}
        /\ UNCHANGED <<Bond, KeyedRequests, ran, stored, Lapsed, prior, Spent, Outcomes>>
    BY <1>6 DEF Promise!Withdraw
  <2>2. Promise!Shape' /\ Promise!Order' /\ Promise!OneOrTheOther'
    BY <2>1 DEF Promise!Shape, Promise!Order, Promise!OneOrTheOther
  <2>3. PICK f \in Lapsed : Promise!Answers(f, r)
    BY <2>1
  <2>4. Promise!Gone'
    <3> SUFFICES ASSUME NEW e \in stored \ OnRecord'
                 PROVE  \E l \in Lapsed, d \in KeyedRequests :
                          Promise!Answers(l, d) /\ Promise!Answers(e, d)
      BY <2>1 DEF Promise!Gone, Promise!Answers
    <3>1. CASE e \in OnRecord
      <4>1. Promise!Answers(e, r)
        BY <2>1, <3>1
      <4>2. QED
        BY <2>1, <2>3, <4>1
    <3>2. CASE e \notin OnRecord
      BY <3>2 DEF Promise!Gone
    <3>3. QED
      BY <3>1, <3>2
  <2>5. Promise!RepeatsExcused'
    BY <2>1 DEF Promise!RepeatsExcused, Promise!Answers
  <2>6. QED
    BY <2>2, <2>4, <2>5
<1>7. ASSUME NEW r \in Requests, Promise!Fail(r) \/ Promise!Lose(r) PROVE Promise!Inv'
  <2>1. /\ Promise!End(r, "lost", r) \/ Promise!End(r, "error", r)
        /\ Outcomes[r].is = "pending"
        /\ UNCHANGED <<Bond, KeyedRequests, stored, OnRecord, Lapsed, prior, Spent>>
    BY <1>7 DEF Promise!Fail, Promise!Lose, Promise!Pending
  <2>2. \/ ran' = ran
        \/ /\ ran' = ran \cup {r}
           /\ \A e \in (OnRecord \cap prior[r]) \ Spent[r] : ~Promise!Answers(e, r)
    BY <1>7 DEF Promise!Fail, Promise!Lose, Promise!MayTakeEffect
  <2>3. /\ Outcomes' \in [Requests -> Promise!Outcome]
        /\ Outcomes'[r].is \in {"lost", "error"}
        /\ \A q \in Requests \ {r} : Outcomes'[q] = Outcomes[q]
    BY <2>1, PromiseEnds
  <2>4. Promise!Shape' /\ Promise!Order' /\ Promise!Gone'
    BY <2>1, <2>2, <2>3 DEF Promise!Shape, Promise!Order, Promise!Gone, Promise!Answers
  <2>5. Promise!OneOrTheOther'
    <3>1. r \notin stored /\ ran \subseteq ran' /\ ran' \subseteq ran \cup {r}
      BY <2>1, <2>2 DEF Promise!OneOrTheOther
    <3>2. QED
      BY <2>1, <2>3, <3>1 DEF Promise!OneOrTheOther
  <2>6. ASSUME ran' # ran, NEW e \in prior[r], Promise!Answers(e, r), e \notin Spent[r]
        PROVE  \E f \in Lapsed, d \in KeyedRequests :
                  Promise!Answers(f, d) /\ Promise!Answers(e, d)
    BY <2>2, <2>6 DEF Promise!Order, Promise!Gone
  <2>7. Promise!RepeatsExcused'
    BY <2>1, <2>2, <2>6 DEF Promise!RepeatsExcused, Promise!Answers
  <2>8. QED
    BY <2>4, <2>5, <2>7
<1>8. CASE UNCHANGED Promise!vars
  <2>1. UNCHANGED <<Bond, KeyedRequests, ran, stored, OnRecord, Lapsed, prior, Spent, Outcomes>>
    BY <1>8 DEF Promise!vars
  <2>2. QED
    <3>1. Promise!Shape' /\ Promise!Order'
      BY <2>1 DEF Promise!Shape, Promise!Order
    <3>2. Promise!OneOrTheOther'
      BY <2>1 DEF Promise!OneOrTheOther
    <3>3. Promise!Gone' /\ Promise!RepeatsExcused'
      BY <2>1 DEF Promise!Gone, Promise!RepeatsExcused, Promise!Answers
    <3>4. QED
      BY <3>1, <3>2, <3>3
<1>9. QED
  BY <1>1, <1>2, <1>3, <1>4, <1>5, <1>6, <1>7, <1>8 DEF Promise!Next

(* The promise keeps an answer apart from an effect, and lets a request    *)
(* repeat one only past a record that lapsed or was withdrawn.             *)
THEOREM PromiseKept == Promise!Spec => [](Promise!OneOrTheOther /\ Promise!RepeatsExcused)
<1>1. Promise!Inv => Promise!OneOrTheOther /\ Promise!RepeatsExcused
  BY DEF Promise!Inv
<1>2. QED
  BY <1>1, PromiseInit, PromiseStep, PTL DEF Promise!Spec

(* So does the interceptor.                                                *)
COROLLARY InterceptorKeepsPromise ==
    Spec => [](Promise!OneOrTheOther /\ Promise!RepeatsExcused)
BY Implementation, PromiseKept DEF Refines
=============================================================================
