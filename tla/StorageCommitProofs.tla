------------------------ MODULE StorageCommitProofs ------------------------
(***************************************************************************)
(* Proofs about StorageCommit for every set of calls, types, keys and      *)
(* setups and any number of PUTs: IInv is inductive, and every step of the *)
(* providers is a step of StagedFile or leaves it alone.                   *)
(***************************************************************************)
EXTENDS StorageCommit, TLAPS

(* What a call can be about.                                               *)
LEMMA JobTyped ==
    ASSUME TypeOK, NEW c \in Calls
    PROVE  /\ job[c].op \in {"commit", "remove", "clean"}
           /\ job[c].key \in Places \cup {Nowhere} /\ job[c].type \in Types
           /\ job[c].op = "remove" => job[c].key \in Places
           /\ job[c].op = "clean" => job[c].key = Temp
  BY PlacesAssumption DEF TypeOK, Jobs, Places

(* The jobs depend on the setup only.                                      *)
LEMMA JobsKept == ASSUME setup' = setup PROVE Jobs' = Jobs
  BY DEF Jobs, FlatName

(* The initial state satisfies the inductive invariant.                    *)
LEMMA InitIInv == Init => IInv
<1> SUFFICES ASSUME Init PROVE IInv
  OBVIOUS
<1>1. TypeOK
  <2>1. /\ files \in [Places -> 0 .. 0] /\ copied \in [Calls -> 0 .. 0]
        /\ buffer \in [Calls -> 0 .. 0]
    BY DEF Init
  <2>2. /\ pc \in [Calls -> PCs] /\ prior \in [Calls -> SUBSET Calls]
        /\ answer \in [Calls -> {"none", "ok", "notFound", "error"}]
    BY DEF Init, PCs
  <2>3. /\ setup \in Setups /\ puts = 0 /\ aged = FALSE /\ upload = "idle"
        /\ job \in [Calls -> Jobs]
        /\ removed = {} /\ swept = {} /\ kept = {}
    BY DEF Init
  <2>4. /\ files \in [Places -> 0 .. puts] /\ copied \in [Calls -> 0 .. puts]
        /\ buffer \in [Calls -> 0 .. puts]
    BY <2>1, <2>3
  <2>5. puts \in Nat
    BY <2>3
  <2>6. aged \in BOOLEAN
    BY <2>3
  <2>7. QED
    BY <2>2, <2>3, <2>4, <2>5, <2>6 DEF TypeOK
<1>2. Labels /\ Deeds /\ Origins /\ Taken
  BY DEF Init, Labels, Deeds, Origins, Taken, Places
<1>3. Staging
  BY SetupsAssumption DEF Init, Staging, Clash, On, Places
<1>4. PublishedStays /\ NeverOlder /\ CommitOnce /\ MissExplained /\ RemoveSticks
  <2>1. \A c \in Calls : copied[c] = 0 /\ answer[c] = "none"
    BY DEF Init
  <2>2. removed = {} /\ \A p \in Places : files[p] = 0
    BY DEF Init
  <2>3. NeverOlder
    <3>1. \A c \in Calls : job[c].type \in Places
      BY <1>1, JobTyped DEF Places
    <3>2. QED
      BY <2>2, <3>1 DEF NeverOlder
  <2>4. QED
    BY <2>1, <2>2, <2>3 DEF PublishedStays, CommitOnce, MissExplained, RemoveSticks
<1>5. QED
  BY <1>1, <1>2, <1>3, <1>4 DEF IInv

(* What a commit publishes, moves or erases leaves every place typed.      *)
LEMMA PublishTyped ==
    ASSUME TypeOK, NEW c \in Calls, NEW v \in 0 .. puts, Publish(c, v)
    PROVE  files' \in [Places -> 0 .. puts] /\ copied' \in [Calls -> 0 .. puts]
<1>1. job[c].type \in Places
  BY JobTyped DEF Places
<1>2. QED
  BY <1>1 DEF TypeOK, Publish

(* So does what a commit moves.                                            *)
LEMMA MoveTyped ==
    ASSUME TypeOK, NEW c \in Calls, Found(c), Move(c)
    PROVE  /\ job[c].key \in Places /\ files[job[c].key] \in 1 .. puts
           /\ files' \in [Places -> 0 .. puts] /\ copied' \in [Calls -> 0 .. puts]
<1>1. job[c].type \in Places /\ job[c].key \in Places
  BY JobTyped DEF Places, Found
<1>2. files[job[c].key] \in 1 .. puts
  BY <1>1 DEF TypeOK, Found
<1>3. files' \in [Places -> 0 .. puts]
  BY <1>1, <1>2 DEF TypeOK, Move
<1>4. copied' \in [Calls -> 0 .. puts]
  BY <1>1, <1>2 DEF TypeOK, Move
<1>5. QED
  BY <1>1, <1>2, <1>3, <1>4

(* Every step keeps every variable in its type.                            *)
LEMMA StepTypeOK == ASSUME TypeOK, Labels, Staging, [Next]_vars PROVE TypeOK'
<1> DEFINE T == /\ setup' = setup /\ job' = job /\ puts' \in Nat
                /\ files' \in [Places -> 0 .. puts'] /\ aged' \in BOOLEAN
                /\ upload' \in {"idle", "raw", "done", "lost"}
                /\ pc' \in [Calls -> PCs] /\ buffer' \in [Calls -> 0 .. puts']
                /\ answer' \in [Calls -> {"none", "ok", "notFound", "error"}]
                /\ copied' \in [Calls -> 0 .. puts']
                /\ removed' \subseteq Calls /\ swept' \subseteq Calls /\ kept' \subseteq Calls
                /\ prior' \in [Calls -> SUBSET Calls]
<1> SUFFICES T
  BY JobsKept DEF TypeOK
<1> USE DEF TypeOK, PCs, Goto, Reply, At, fixed
<1>1. CASE SaveTemp
  BY <1>1 DEF SaveTemp, Staging, Places
<1>2. CASE RemoveRaw
  BY <1>2 DEF RemoveRaw, Erase
<1>3. CASE CrashUpload
  BY <1>3 DEF CrashUpload
<1>4. CASE Put
  BY <1>4 DEF Put, Places
<1>5. CASE Age
  BY <1>5 DEF Age
<1>6. ASSUME NEW c \in Calls, Arrive(c) PROVE T
  BY <1>6 DEF Arrive
<1>7. ASSUME NEW c \in Calls, FindSource(c) PROVE T
  BY <1>7 DEF FindSource
<1>8. ASSUME NEW c \in Calls, CopyS3(c) PROVE T
  <2>1. files' \in [Places -> 0 .. puts] /\ copied' \in [Calls -> 0 .. puts]
    BY <1>8, PublishTyped, JobTyped DEF CopyS3, Found
  <2>2. pc' \in [Calls -> PCs] /\ answer' \in [Calls -> {"none", "ok", "notFound", "error"}]
    BY <1>8 DEF CopyS3, Publish, Move, Delete
  <2>3. /\ puts' = puts /\ removed' \subseteq Calls /\ kept' \subseteq Calls
        /\ UNCHANGED <<setup, aged, upload, job, buffer, swept, prior>>
    BY <1>8 DEF CopyS3, Publish, Move, Delete
  <2>4. QED
    BY <2>1, <2>2, <2>3
<1>9. ASSUME NEW c \in Calls, DeleteS3(c) PROVE T
  BY <1>9, JobTyped DEF DeleteS3, Erase
<1>10. ASSUME NEW c \in Calls, FetchImageKit(c) PROVE T
  <2>1. buffer' \in [Calls -> 0 .. puts]
    BY <1>10, JobTyped DEF FetchImageKit, Found
  <2>2. pc' \in [Calls -> PCs] /\ answer' \in [Calls -> {"none", "ok", "notFound", "error"}]
    BY <1>10 DEF FetchImageKit
  <2>3. QED
    BY <1>10, <2>1, <2>2 DEF FetchImageKit
<1>11. ASSUME NEW c \in Calls, ReuploadImageKit(c) PROVE T
  <2>1. files' \in [Places -> 0 .. puts] /\ copied' \in [Calls -> 0 .. puts]
    BY <1>11, PublishTyped DEF ReuploadImageKit
  <2>2. pc' \in [Calls -> PCs] /\ answer' \in [Calls -> {"none", "ok", "notFound", "error"}]
    BY <1>11 DEF ReuploadImageKit, Publish, Move, Delete
  <2>3. /\ puts' = puts /\ removed' \subseteq Calls /\ kept' \subseteq Calls
        /\ UNCHANGED <<setup, aged, upload, job, buffer, swept, prior>>
    BY <1>11 DEF ReuploadImageKit, Publish, Move, Delete
  <2>4. QED
    BY <2>1, <2>2, <2>3
<1>12. ASSUME NEW c \in Calls, DiscardImageKit(c) PROVE T
  BY <1>12, JobTyped DEF DiscardImageKit, Erase
<1>13. ASSUME NEW c \in Calls, RenameLocal(c) PROVE T
  <2>1. files' \in [Places -> 0 .. puts] /\ copied' \in [Calls -> 0 .. puts]
    BY <1>13, MoveTyped DEF RenameLocal
  <2>2. pc' \in [Calls -> PCs] /\ answer' \in [Calls -> {"none", "ok", "notFound", "error"}]
    BY <1>13 DEF RenameLocal, Publish, Move, Delete
  <2>3. /\ puts' = puts /\ removed' \subseteq Calls /\ kept' \subseteq Calls
        /\ UNCHANGED <<setup, aged, upload, job, buffer, swept, prior>>
    BY <1>13 DEF RenameLocal, Publish, Move, Delete
  <2>4. QED
    BY <2>1, <2>2, <2>3
<1>14. ASSUME NEW c \in Calls, RenameCloudinary(c) PROVE T
  <2>1. files' \in [Places -> 0 .. puts] /\ copied' \in [Calls -> 0 .. puts]
    BY <1>14, MoveTyped DEF RenameCloudinary
  <2>2. pc' \in [Calls -> PCs] /\ answer' \in [Calls -> {"none", "ok", "notFound", "error"}]
    BY <1>14 DEF RenameCloudinary, Publish, Move, Delete
  <2>3. /\ puts' = puts /\ removed' \subseteq Calls /\ kept' \subseteq Calls
        /\ UNCHANGED <<setup, aged, upload, job, buffer, swept, prior>>
    BY <1>14 DEF RenameCloudinary, Publish, Move, Delete
  <2>4. QED
    BY <2>1, <2>2, <2>3
<1>15. ASSUME NEW c \in Calls, FindTarget(c) PROVE T
  BY <1>15 DEF FindTarget
<1>16. ASSUME NEW c \in Calls, Unlink(c) PROVE T
  <2>1. files' \in [Places -> 0 .. puts] /\ copied' \in [Calls -> 0 .. puts]
    BY <1>16, JobTyped DEF Unlink, Delete, Erase
  <2>2. pc' \in [Calls -> PCs] /\ answer' \in [Calls -> {"none", "ok", "notFound", "error"}]
    BY <1>16 DEF Unlink, Publish, Move, Delete
  <2>3. /\ puts' = puts /\ removed' \subseteq Calls /\ kept' \subseteq Calls
        /\ UNCHANGED <<setup, aged, upload, job, buffer, swept, prior>>
    BY <1>16 DEF Unlink, Publish, Move, Delete
  <2>4. QED
    BY <2>1, <2>2, <2>3
<1>17. ASSUME NEW c \in Calls, DestroyCloudinary(c) PROVE T
  <2>1. files' \in [Places -> 0 .. puts] /\ copied' \in [Calls -> 0 .. puts]
    BY <1>17, JobTyped DEF DestroyCloudinary, Delete, Erase
  <2>2. pc' \in [Calls -> PCs] /\ answer' \in [Calls -> {"none", "ok", "notFound", "error"}]
    BY <1>17 DEF DestroyCloudinary, Publish, Move, Delete
  <2>3. /\ puts' = puts /\ removed' \subseteq Calls /\ kept' \subseteq Calls
        /\ UNCHANGED <<setup, aged, upload, job, buffer, swept, prior>>
    BY <1>17 DEF DestroyCloudinary, Publish, Move, Delete
  <2>4. QED
    BY <2>1, <2>2, <2>3
<1>18. ASSUME NEW c \in Calls, ListStale(c) PROVE T
  BY <1>18 DEF ListStale
<1>19. ASSUME NEW c \in Calls, Sweep(c) PROVE T
  BY <1>19 DEF Sweep, Erase, Places
<1>20. ASSUME NEW c \in Calls, Answer(c) PROVE T
  BY <1>20 DEF Answer
<1>21. ASSUME NEW c \in Calls, Crash(c) PROVE T
  BY <1>21 DEF Crash
<1>22. CASE UNCHANGED vars
  BY <1>22 DEF vars
<1>23. QED
  BY <1>1, <1>2, <1>3, <1>4, <1>5, <1>6, <1>7, <1>8, <1>9, <1>10, <1>11, <1>12,
     <1>13, <1>14, <1>15, <1>16, <1>17, <1>18, <1>19, <1>20, <1>21, <1>22 DEF Next

(* What no step may change.                                                *)
PastKept ==
    /\ setup' = setup /\ job' = job /\ puts <= puts' /\ (aged => aged')
    /\ removed \subseteq removed' /\ swept \subseteq swept' /\ kept \subseteq kept'
    /\ \A c \in Calls :
         /\ pc[c] # "idle" => pc'[c] # "idle" /\ prior'[c] = prior[c]
         /\ pc[c] = "done" => pc'[c] = "done" /\ answer'[c] = answer[c]
         /\ copied[c] # 0 => copied'[c] = copied[c]

(* Every step keeps the past.                                              *)
LEMMA Stable == ASSUME IInv, [Next]_vars PROVE PastKept
<1> USE DEF IInv, TypeOK, PCs, Goto, Reply, At, fixed, PastKept, Deeds
<1>1. CASE SaveTemp
  BY <1>1 DEF SaveTemp, Staging
<1>2. CASE RemoveRaw
  BY <1>2 DEF RemoveRaw, Erase
<1>3. CASE CrashUpload
  BY <1>3 DEF CrashUpload
<1>4. CASE Put
  BY <1>4 DEF Put
<1>5. CASE Age
  BY <1>5 DEF Age
<1>6. ASSUME NEW c \in Calls, Arrive(c) PROVE PastKept
  BY <1>6 DEF Arrive
<1>7. ASSUME NEW c \in Calls, FindSource(c) PROVE PastKept
  BY <1>7 DEF FindSource
<1>8. ASSUME NEW c \in Calls, CopyS3(c) PROVE PastKept
  BY <1>8 DEF CopyS3, Publish
<1>9. ASSUME NEW c \in Calls, DeleteS3(c) PROVE PastKept
  BY <1>9 DEF DeleteS3, Erase
<1>10. ASSUME NEW c \in Calls, FetchImageKit(c) PROVE PastKept
  BY <1>10 DEF FetchImageKit
<1>11. ASSUME NEW c \in Calls, ReuploadImageKit(c) PROVE PastKept
  BY <1>11 DEF ReuploadImageKit, Publish
<1>12. ASSUME NEW c \in Calls, DiscardImageKit(c) PROVE PastKept
  BY <1>12 DEF DiscardImageKit, Erase
<1>13. ASSUME NEW c \in Calls, RenameLocal(c) PROVE PastKept
  BY <1>13 DEF RenameLocal, Move
<1>14. ASSUME NEW c \in Calls, RenameCloudinary(c) PROVE PastKept
  BY <1>14 DEF RenameCloudinary, Move
<1>15. ASSUME NEW c \in Calls, FindTarget(c) PROVE PastKept
  BY <1>15 DEF FindTarget
<1>16. ASSUME NEW c \in Calls, Unlink(c) PROVE PastKept
  BY <1>16 DEF Unlink, Delete, Erase
<1>17. ASSUME NEW c \in Calls, DestroyCloudinary(c) PROVE PastKept
  BY <1>17 DEF DestroyCloudinary, Delete, Erase
<1>18. ASSUME NEW c \in Calls, ListStale(c) PROVE PastKept
  BY <1>18 DEF ListStale
<1>19. ASSUME NEW c \in Calls, Sweep(c) PROVE PastKept
  BY <1>19 DEF Sweep, Erase
<1>20. ASSUME NEW c \in Calls, Answer(c) PROVE PastKept
  BY <1>20 DEF Answer
<1>21. ASSUME NEW c \in Calls, Crash(c) PROVE PastKept
  BY <1>21 DEF Crash
<1>22. CASE UNCHANGED vars
  BY <1>22 DEF vars
<1>23. QED
  BY <1>1, <1>2, <1>3, <1>4, <1>5, <1>6, <1>7, <1>8, <1>9, <1>10, <1>11, <1>12,
     <1>13, <1>14, <1>15, <1>16, <1>17, <1>18, <1>19, <1>20, <1>21, <1>22 DEF Next

(* Who can stand where, after every step.                                  *)
LEMMA StepLabels == ASSUME IInv, [Next]_vars PROVE Labels'
<1> USE DEF IInv, TypeOK, Labels, PCs, Goto, Reply, At, On, fixed
<1>1. CASE SaveTemp
  BY <1>1 DEF SaveTemp, Staging
<1>2. CASE RemoveRaw
  BY <1>2 DEF RemoveRaw, Erase
<1>3. CASE CrashUpload
  BY <1>3 DEF CrashUpload
<1>4. CASE Put
  BY <1>4 DEF Put
<1>5. CASE Age
  BY <1>5 DEF Age
<1>6. ASSUME NEW c \in Calls, Arrive(c) PROVE Labels'
  BY <1>6 DEF Arrive
<1>7. ASSUME NEW c \in Calls, FindSource(c) PROVE Labels'
  BY <1>7 DEF FindSource
<1>8. ASSUME NEW c \in Calls, CopyS3(c) PROVE Labels'
  BY <1>8 DEF CopyS3, Publish
<1>9. ASSUME NEW c \in Calls, DeleteS3(c) PROVE Labels'
  BY <1>9 DEF DeleteS3, Erase
<1>10. ASSUME NEW c \in Calls, FetchImageKit(c) PROVE Labels'
  BY <1>10 DEF FetchImageKit
<1>11. ASSUME NEW c \in Calls, ReuploadImageKit(c) PROVE Labels'
  BY <1>11 DEF ReuploadImageKit, Publish
<1>12. ASSUME NEW c \in Calls, DiscardImageKit(c) PROVE Labels'
  BY <1>12 DEF DiscardImageKit, Erase
<1>13. ASSUME NEW c \in Calls, RenameLocal(c) PROVE Labels'
  BY <1>13 DEF RenameLocal, Move
<1>14. ASSUME NEW c \in Calls, RenameCloudinary(c) PROVE Labels'
  BY <1>14 DEF RenameCloudinary, Move
<1>15. ASSUME NEW c \in Calls, FindTarget(c) PROVE Labels'
  BY <1>15 DEF FindTarget
<1>16. ASSUME NEW c \in Calls, Unlink(c) PROVE Labels'
  BY <1>16 DEF Unlink, Delete, Erase
<1>17. ASSUME NEW c \in Calls, DestroyCloudinary(c) PROVE Labels'
  BY <1>17 DEF DestroyCloudinary, Delete, Erase
<1>18. ASSUME NEW c \in Calls, ListStale(c) PROVE Labels'
  BY <1>18 DEF ListStale
<1>19. ASSUME NEW c \in Calls, Sweep(c) PROVE Labels'
  BY <1>19 DEF Sweep, Erase
<1>20. ASSUME NEW c \in Calls, Answer(c) PROVE Labels'
  BY <1>20 DEF Answer
<1>21. ASSUME NEW c \in Calls, Crash(c) PROVE Labels'
  BY <1>21 DEF Crash
<1>22. CASE UNCHANGED vars
  BY <1>22 DEF vars
<1>23. QED
  BY <1>1, <1>2, <1>3, <1>4, <1>5, <1>6, <1>7, <1>8, <1>9, <1>10, <1>11, <1>12,
     <1>13, <1>14, <1>15, <1>16, <1>17, <1>18, <1>19, <1>20, <1>21, <1>22 DEF Next

(* Where the raw file clashes with the staged one nothing is committed.    *)
LEMMA ClashEmpty ==
    ASSUME IInv, Clash, upload # "raw", puts > 0 => upload # "lost"
    PROVE  \A p \in Places : files[p] = 0
<1>1. files[Temp] = 0
  <2>1. CASE upload = "idle"
    BY <2>1 DEF IInv, Staging, Clash, TypeOK
  <2>2. CASE upload = "lost"
    BY <2>2 DEF IInv, Staging, Clash, TypeOK
  <2>3. QED
    BY <2>1, <2>2 DEF IInv, Staging, TypeOK
<1>2. \A t \in Types : files[t] = 0
  BY DEF IInv, Origins, Deeds
<1>3. QED
  BY <1>1, <1>2 DEF Places

(* What has been done by then, after every step.                           *)
LEMMA StepDeeds == ASSUME IInv, [Next]_vars PROVE Deeds'
<1> USE DEF IInv, TypeOK, Labels, Deeds, PCs, Goto, Reply, At, On, Clash, fixed
<1>1. CASE SaveTemp
  BY <1>1 DEF SaveTemp
<1>2. CASE RemoveRaw
  BY <1>2 DEF RemoveRaw, Erase
<1>3. CASE CrashUpload
  BY <1>3 DEF CrashUpload
<1>4. CASE Put
  BY <1>4 DEF Put
<1>5. CASE Age
  BY <1>5 DEF Age
<1>6. ASSUME NEW c \in Calls, Arrive(c) PROVE Deeds'
  BY <1>6 DEF Arrive
<1>7. ASSUME NEW c \in Calls, FindSource(c) PROVE Deeds'
  BY <1>7 DEF FindSource
<1>8. ASSUME NEW c \in Calls, CopyS3(c) PROVE Deeds'
  BY <1>8 DEF CopyS3, Publish, Found
<1>9. ASSUME NEW c \in Calls, DeleteS3(c) PROVE Deeds'
  BY <1>9 DEF DeleteS3, Erase
<1>10. ASSUME NEW c \in Calls, FetchImageKit(c) PROVE Deeds'
  BY <1>10 DEF FetchImageKit, Found
<1>11. ASSUME NEW c \in Calls, ReuploadImageKit(c) PROVE Deeds'
  BY <1>11 DEF ReuploadImageKit, Publish
<1>12. ASSUME NEW c \in Calls, DiscardImageKit(c) PROVE Deeds'
  BY <1>12 DEF DiscardImageKit, Erase
<1>13. ASSUME NEW c \in Calls, RenameLocal(c) PROVE Deeds'
  <2>1. Found(c) => ~Clash /\ job[c].key # Nowhere
    BY <1>13, ClashEmpty, JobTyped DEF RenameLocal, Found
  <2>2. QED
    BY <1>13, <2>1 DEF RenameLocal, Move, Found
<1>14. ASSUME NEW c \in Calls, RenameCloudinary(c) PROVE Deeds'
  <2>1. Found(c) => ~Clash /\ job[c].key # Nowhere
    BY <1>14, ClashEmpty, JobTyped DEF RenameCloudinary, Found
  <2>2. QED
    BY <1>14, <2>1 DEF RenameCloudinary, Move, Found
<1>15. ASSUME NEW c \in Calls, FindTarget(c) PROVE Deeds'
  BY <1>15 DEF FindTarget
<1>16. ASSUME NEW c \in Calls, Unlink(c) PROVE Deeds'
  BY <1>16 DEF Unlink, Delete, Erase
<1>17. ASSUME NEW c \in Calls, DestroyCloudinary(c) PROVE Deeds'
  BY <1>17 DEF DestroyCloudinary, Delete, Erase
<1>18. ASSUME NEW c \in Calls, ListStale(c) PROVE Deeds'
  BY <1>18 DEF ListStale
<1>19. ASSUME NEW c \in Calls, Sweep(c) PROVE Deeds'
  BY <1>19 DEF Sweep, Erase
<1>20. ASSUME NEW c \in Calls, Answer(c) PROVE Deeds'
  BY <1>20 DEF Answer
<1>21. ASSUME NEW c \in Calls, Crash(c) PROVE Deeds'
  BY <1>21 DEF Crash
<1>22. CASE UNCHANGED vars
  BY <1>22 DEF vars
<1>23. QED
  BY <1>1, <1>2, <1>3, <1>4, <1>5, <1>6, <1>7, <1>8, <1>9, <1>10, <1>11, <1>12,
     <1>13, <1>14, <1>15, <1>16, <1>17, <1>18, <1>19, <1>20, <1>21, <1>22 DEF Next

(***************************************************************************)
(* How a step changes what lies where.  The rest of the proof looks at     *)
(* these five kinds of steps, no longer at the actions.                    *)
(***************************************************************************)
Rests == UNCHANGED <<files, puts, copied, removed>>

Stages ==
    /\ files' = [files EXCEPT ![Temp] = puts + 1] /\ puts' = puts + 1
    /\ setup.mode = "server" => upload = "idle"
    /\ UNCHANGED <<copied, removed>>

Clears ==
    /\ files' = [files EXCEPT ![Temp] = 0]
    /\ swept' # {} \/ Clash
    /\ UNCHANGED <<puts, copied, removed>>

\* A remove, or a commit that deletes what it has published.
Empties(c) ==
    /\ job[c].key \in Places /\ files' = [files EXCEPT ![job[c].key] = 0]
    /\ \/ /\ removed' = removed \cup {c} /\ job[c].op = "remove"
          /\ pc[c] \in {"load", "unlink"}
       \/ removed' = removed /\ copied[c] # 0 /\ pc[c] \in {"delete", "discard"}
    /\ UNCHANGED <<puts, copied, prior>>

\* A commit that has not published yet publishes what it was asked for, or
\* what it has fetched.
Publishes(c, v) ==
    /\ job[c].op = "commit" /\ job[c].key \in Places /\ copied[c] = 0
    /\ pc[c] \in {"load", "copy", "reupload", "rename"}
    /\ copied' = [copied EXCEPT ![c] = v]
    /\ \/ /\ ~Renames /\ pc'[c] \in {"delete", "discard"}
          /\ files' = [files EXCEPT ![job[c].type] = v]
       \/ /\ Renames /\ pc'[c] = "reply" /\ v = files[job[c].key]
          /\ files' = [files EXCEPT ![job[c].key] = 0, ![job[c].type] = v]
    /\ answer'[c] = "none"
    /\ v = files[job[c].key] \/ (pc[c] = "reupload" /\ v = buffer[c] /\ On("imagekit"))
    /\ UNCHANGED <<removed, puts, prior, kept>>

(* There is no other kind of step.                                         *)
LEMMA Moves ==
    ASSUME IInv, [Next]_vars
    PROVE  \/ Rests \/ Stages \/ Clears
           \/ \E c \in Calls : Empties(c)
           \/ \E c \in Calls : \E v \in 1 .. puts : Publishes(c, v)
<1> DEFINE M == \/ Rests \/ Stages \/ Clears
                \/ \E c \in Calls : Empties(c)
                \/ \E c \in Calls : \E v \in 1 .. puts : Publishes(c, v)
<1> USE DEF IInv, TypeOK, Labels, Deeds, PCs, Goto, Reply, At, On, fixed
<1>1. CASE SaveTemp
  BY <1>1 DEF SaveTemp, Stages, Staging, Rests
<1>2. CASE RemoveRaw
  BY <1>2 DEF RemoveRaw, Erase, Clears, Rests
<1>3. CASE CrashUpload
  BY <1>3 DEF CrashUpload, Rests
<1>4. CASE Put
  BY <1>4, SetupsAssumption DEF Put, Stages, Rests
<1>5. CASE Age
  BY <1>5 DEF Age, Rests
<1>6. ASSUME NEW c \in Calls, Arrive(c) PROVE M
  BY <1>6 DEF Arrive, Rests
<1>7. ASSUME NEW c \in Calls, FindSource(c) PROVE M
  BY <1>7 DEF FindSource, Rests
<1>8. ASSUME NEW c \in Calls, CopyS3(c) PROVE M
  <2>1. CASE UNCHANGED <<files, copied>>
    BY <1>8, <2>1 DEF CopyS3, Rests
  <2>2. CASE /\ Publish(c, files[job[c].key]) /\ Found(c)
             /\ pc' = [pc EXCEPT ![c] = "delete"] /\ answer' = answer
    <3>1. /\ job[c].key \in Places /\ files[job[c].key] \in 1 .. puts
          /\ copied[c] = 0 /\ answer[c] = "none"
      BY <1>8, <2>2, JobTyped DEF CopyS3, Found
    <3>2. Publishes(c, files[job[c].key])
      BY <1>8, <2>2, <3>1 DEF CopyS3, Publishes, Publish, Renames
    <3>3. QED
      BY <3>1, <3>2
  <2>3. QED
    BY <1>8, <2>1, <2>2 DEF CopyS3
<1>9. ASSUME NEW c \in Calls, DeleteS3(c) PROVE M
  <2>1. CASE Rests
    BY <2>1
  <2>2. CASE Erase(job[c].key) /\ ~Rests
    <3>1. job[c].key \in Places
      BY <1>9, JobTyped DEF DeleteS3
    <3>2. Empties(c)
      BY <1>9, <2>2, <3>1 DEF DeleteS3, Delete, Erase, Empties, Rests
    <3>3. QED
      BY <3>2
  <2>3. QED
    BY <1>9, <2>1, <2>2 DEF DeleteS3, Delete, Rests
<1>10. ASSUME NEW c \in Calls, FetchImageKit(c) PROVE M
  BY <1>10 DEF FetchImageKit, Rests
<1>11. ASSUME NEW c \in Calls, ReuploadImageKit(c) PROVE M
  <2>1. CASE UNCHANGED <<files, copied>>
    BY <1>11, <2>1 DEF ReuploadImageKit, Rests
  <2>2. CASE /\ Publish(c, buffer[c]) /\ pc' = [pc EXCEPT ![c] = "discard"] /\ answer' = answer
    <3>1. job[c].key \in Places /\ buffer[c] \in 1 .. puts /\ copied[c] = 0 /\ answer[c] = "none"
      BY <1>11, <2>2, JobTyped DEF ReuploadImageKit, Found
    <3>2. Publishes(c, buffer[c])
      BY <1>11, <2>2, <3>1 DEF ReuploadImageKit, Publishes, Publish, Renames
    <3>3. QED
      BY <3>1, <3>2
  <2>3. QED
    BY <1>11, <2>1, <2>2 DEF ReuploadImageKit
<1>12. ASSUME NEW c \in Calls, DiscardImageKit(c) PROVE M
  <2>1. CASE Rests
    BY <2>1
  <2>2. CASE Erase(job[c].key) /\ ~Rests
    <3>1. job[c].key \in Places
      BY <1>12, JobTyped DEF DiscardImageKit
    <3>2. Empties(c)
      BY <1>12, <2>2, <3>1 DEF DiscardImageKit, Delete, Erase, Empties, Rests
    <3>3. QED
      BY <3>2
  <2>3. QED
    BY <1>12, <2>1, <2>2 DEF DiscardImageKit, Delete, Rests
<1>13. ASSUME NEW c \in Calls, RenameLocal(c) PROVE M
  <2>1. CASE UNCHANGED <<files, copied>>
    BY <1>13, <2>1 DEF RenameLocal, Rests
  <2>2. CASE /\ Found(c) /\ Move(c) /\ pc' = [pc EXCEPT ![c] = "reply"] /\ answer' = answer
    <3>1. /\ job[c].key \in Places /\ files[job[c].key] \in 1 .. puts
          /\ copied[c] = 0 /\ answer[c] = "none"
      BY <1>13, <2>2, MoveTyped DEF RenameLocal
    <3>2. Publishes(c, files[job[c].key])
      BY <1>13, <2>2, <3>1 DEF RenameLocal, Publishes, Move, Renames
    <3>3. QED
      BY <3>1, <3>2
  <2>3. QED
    BY <1>13, <2>1, <2>2 DEF RenameLocal
<1>14. ASSUME NEW c \in Calls, RenameCloudinary(c) PROVE M
  <2>1. CASE UNCHANGED <<files, copied>>
    BY <1>14, <2>1 DEF RenameCloudinary, Rests
  <2>2. CASE /\ Found(c) /\ Move(c) /\ pc' = [pc EXCEPT ![c] = "reply"] /\ answer' = answer
    <3>1. /\ job[c].key \in Places /\ files[job[c].key] \in 1 .. puts
          /\ copied[c] = 0 /\ answer[c] = "none"
      BY <1>14, <2>2, MoveTyped DEF RenameCloudinary
    <3>2. Publishes(c, files[job[c].key])
      BY <1>14, <2>2, <3>1 DEF RenameCloudinary, Publishes, Move, Renames
    <3>3. QED
      BY <3>1, <3>2
  <2>3. QED
    BY <1>14, <2>1, <2>2 DEF RenameCloudinary
<1>15. ASSUME NEW c \in Calls, FindTarget(c) PROVE M
  BY <1>15 DEF FindTarget, Rests
<1>16. ASSUME NEW c \in Calls, Unlink(c) PROVE M
  <2>1. CASE Rests
    BY <2>1
  <2>2. CASE Erase(job[c].key) /\ ~Rests
    <3>1. job[c].key \in Places
      BY <1>16, JobTyped DEF Unlink
    <3>2. Empties(c)
      BY <1>16, <2>2, <3>1 DEF Unlink, Delete, Erase, Empties, Rests
    <3>3. QED
      BY <3>2
  <2>3. QED
    BY <1>16, <2>1, <2>2 DEF Unlink, Delete, Rests
<1>17. ASSUME NEW c \in Calls, DestroyCloudinary(c) PROVE M
  <2>1. CASE Rests
    BY <2>1
  <2>2. CASE Erase(job[c].key) /\ ~Rests
    <3>1. job[c].key \in Places
      BY <1>17, JobTyped DEF DestroyCloudinary
    <3>2. Empties(c)
      BY <1>17, <2>2, <3>1 DEF DestroyCloudinary, Delete, Erase, Empties, Rests
    <3>3. QED
      BY <3>2
  <2>3. QED
    BY <1>17, <2>1, <2>2 DEF DestroyCloudinary, Delete, Rests
<1>18. ASSUME NEW c \in Calls, ListStale(c) PROVE M
  BY <1>18 DEF ListStale, Rests
<1>19. ASSUME NEW c \in Calls, Sweep(c) PROVE M
  BY <1>19 DEF Sweep, Erase, Clears, Rests
<1>20. ASSUME NEW c \in Calls, Answer(c) PROVE M
  BY <1>20 DEF Answer, Rests
<1>21. ASSUME NEW c \in Calls, Crash(c) PROVE M
  BY <1>21 DEF Crash, Rests
<1>22. CASE UNCHANGED vars
  BY <1>22 DEF vars, Rests
<1>23. QED
  BY <1>1, <1>2, <1>3, <1>4, <1>5, <1>6, <1>7, <1>8, <1>9, <1>10, <1>11, <1>12,
     <1>13, <1>14, <1>15, <1>16, <1>17, <1>18, <1>19, <1>20, <1>21, <1>22 DEF Next

(* Who took a file has taken it.                                           *)
LEMMA TakesKept ==
    ASSUME IInv, [Next]_vars, NEW d \in Calls, NEW p \in Places, Takes(d, p)
    PROVE  Takes(d, p)'
  BY Stable DEF PastKept, Takes

(* What is staged, after every step.                                       *)
LEMMA StepStaging == ASSUME IInv, [Next]_vars PROVE Staging'
<1>0. /\ swept \subseteq swept' /\ Temp \in Places /\ \A t \in Types : t # Temp
      /\ (\E d \in Calls : Takes(d, Temp)) => \E d \in Calls : Takes(d, Temp)'
  BY Stable, TakesKept, PlacesAssumption DEF PastKept, Places
<1> USE DEF IInv, TypeOK, Labels, Staging, Goto, Reply, At, On, Clash, fixed
<1>1. CASE SaveTemp
  BY <1>0, <1>1 DEF SaveTemp
<1>2. CASE RemoveRaw
  BY <1>0, <1>2 DEF RemoveRaw, Erase
<1>3. CASE CrashUpload
  BY <1>0, <1>3 DEF CrashUpload
<1>4. CASE Put
  BY <1>0, <1>4 DEF Put
<1>5. CASE Age
  BY <1>0, <1>5 DEF Age
<1>6. ASSUME NEW c \in Calls, Arrive(c) PROVE Staging'
  BY <1>0, <1>6 DEF Arrive
<1>7. ASSUME NEW c \in Calls, FindSource(c) PROVE Staging'
  BY <1>0, <1>7 DEF FindSource
<1>8. ASSUME NEW c \in Calls, CopyS3(c) PROVE Staging'
  <2>1. job[c].type \in Types /\ job[c].key \in Places \cup {Nowhere}
    BY JobTyped
  <2>2. files'[Temp] # files[Temp] => files'[Temp] = 0 /\ Takes(c, Temp)'
    BY <1>8, <1>0, <2>1 DEF CopyS3, Deeds, Takes, Erase, Delete, Move, Publish, Found
  <2>3. /\ UNCHANGED <<setup, puts, aged, upload, swept>>
    BY <1>8 DEF CopyS3, Delete, Move, Publish
  <2>4. QED
    BY <1>0, <2>2, <2>3
<1>9. ASSUME NEW c \in Calls, DeleteS3(c) PROVE Staging'
  <2>1. job[c].type \in Types /\ job[c].key \in Places \cup {Nowhere}
    BY JobTyped
  <2>2. files'[Temp] # files[Temp] => files'[Temp] = 0 /\ Takes(c, Temp)'
    BY <1>9, <1>0, <2>1 DEF DeleteS3, Deeds, Takes, Erase, Delete, Move, Publish, Found
  <2>3. /\ UNCHANGED <<setup, puts, aged, upload, swept>>
    BY <1>9 DEF DeleteS3, Delete, Move, Publish
  <2>4. QED
    BY <1>0, <2>2, <2>3
<1>10. ASSUME NEW c \in Calls, FetchImageKit(c) PROVE Staging'
  BY <1>0, <1>10 DEF FetchImageKit
<1>11. ASSUME NEW c \in Calls, ReuploadImageKit(c) PROVE Staging'
  <2>1. job[c].type \in Types /\ job[c].key \in Places \cup {Nowhere}
    BY JobTyped
  <2>2. files'[Temp] # files[Temp] => files'[Temp] = 0 /\ Takes(c, Temp)'
    BY <1>11, <1>0, <2>1 DEF ReuploadImageKit, Deeds, Takes, Erase, Delete, Move, Publish, Found
  <2>3. /\ UNCHANGED <<setup, puts, aged, upload, swept>>
    BY <1>11 DEF ReuploadImageKit, Delete, Move, Publish
  <2>4. QED
    BY <1>0, <2>2, <2>3
<1>12. ASSUME NEW c \in Calls, DiscardImageKit(c) PROVE Staging'
  <2>1. job[c].type \in Types /\ job[c].key \in Places \cup {Nowhere}
    BY JobTyped
  <2>2. files'[Temp] # files[Temp] => files'[Temp] = 0 /\ Takes(c, Temp)'
    BY <1>12, <1>0, <2>1 DEF DiscardImageKit, Deeds, Takes, Erase, Delete, Move, Publish, Found
  <2>3. /\ UNCHANGED <<setup, puts, aged, upload, swept>>
    BY <1>12 DEF DiscardImageKit, Delete, Move, Publish
  <2>4. QED
    BY <1>0, <2>2, <2>3
<1>13. ASSUME NEW c \in Calls, RenameLocal(c) PROVE Staging'
  <2>1. job[c].type \in Types /\ job[c].key \in Places \cup {Nowhere}
    BY JobTyped
  <2>2. files'[Temp] # files[Temp] => files'[Temp] = 0 /\ Takes(c, Temp)'
    BY <1>13, <1>0, <2>1 DEF RenameLocal, Deeds, Takes, Erase, Delete, Move, Publish, Found
  <2>3. /\ UNCHANGED <<setup, puts, aged, upload, swept>>
    BY <1>13 DEF RenameLocal, Delete, Move, Publish
  <2>4. QED
    BY <1>0, <2>2, <2>3
<1>14. ASSUME NEW c \in Calls, RenameCloudinary(c) PROVE Staging'
  <2>1. job[c].type \in Types /\ job[c].key \in Places \cup {Nowhere}
    BY JobTyped
  <2>2. files'[Temp] # files[Temp] => files'[Temp] = 0 /\ Takes(c, Temp)'
    BY <1>14, <1>0, <2>1 DEF RenameCloudinary, Deeds, Takes, Erase, Delete, Move, Publish, Found
  <2>3. /\ UNCHANGED <<setup, puts, aged, upload, swept>>
    BY <1>14 DEF RenameCloudinary, Delete, Move, Publish
  <2>4. QED
    BY <1>0, <2>2, <2>3
<1>15. ASSUME NEW c \in Calls, FindTarget(c) PROVE Staging'
  BY <1>0, <1>15 DEF FindTarget
<1>16. ASSUME NEW c \in Calls, Unlink(c) PROVE Staging'
  <2>1. job[c].type \in Types /\ job[c].key \in Places \cup {Nowhere}
    BY JobTyped
  <2>2. files'[Temp] # files[Temp] => files'[Temp] = 0 /\ Takes(c, Temp)'
    BY <1>16, <1>0, <2>1 DEF Unlink, Deeds, Takes, Erase, Delete, Move, Publish, Found
  <2>3. /\ UNCHANGED <<setup, puts, aged, upload, swept>>
    BY <1>16 DEF Unlink, Delete, Move, Publish
  <2>4. QED
    BY <1>0, <2>2, <2>3
<1>17. ASSUME NEW c \in Calls, DestroyCloudinary(c) PROVE Staging'
  <2>1. job[c].type \in Types /\ job[c].key \in Places \cup {Nowhere}
    BY JobTyped
  <2>2. files'[Temp] # files[Temp] => files'[Temp] = 0 /\ Takes(c, Temp)'
    BY <1>17, <1>0, <2>1 DEF DestroyCloudinary, Deeds, Takes, Erase, Delete, Move, Publish, Found
  <2>3. /\ UNCHANGED <<setup, puts, aged, upload, swept>>
    BY <1>17 DEF DestroyCloudinary, Delete, Move, Publish
  <2>4. QED
    BY <1>0, <2>2, <2>3
<1>18. ASSUME NEW c \in Calls, ListStale(c) PROVE Staging'
  BY <1>0, <1>18 DEF ListStale
<1>19. ASSUME NEW c \in Calls, Sweep(c) PROVE Staging'
  BY <1>0, <1>19 DEF Sweep, Erase
<1>20. ASSUME NEW c \in Calls, Answer(c) PROVE Staging'
  BY <1>0, <1>20 DEF Answer
<1>21. ASSUME NEW c \in Calls, Crash(c) PROVE Staging'
  BY <1>0, <1>21 DEF Crash
<1>22. CASE UNCHANGED vars
  BY <1>0, <1>22 DEF vars
<1>23. QED
  BY <1>1, <1>2, <1>3, <1>4, <1>5, <1>6, <1>7, <1>8, <1>9, <1>10, <1>11, <1>12,
     <1>13, <1>14, <1>15, <1>16, <1>17, <1>18, <1>19, <1>20, <1>21, <1>22 DEF Next

(* What is in a permanent folder was published there.                      *)
LEMMA StepOrigins == ASSUME IInv, [Next]_vars PROVE Origins'
<1> USE DEF IInv
<1>1. PastKept /\ \A t \in Types : t # Temp /\ t \in Places
  BY Stable, PlacesAssumption DEF Places
<1> SUFFICES ASSUME NEW t \in Types, files'[t] # 0
             PROVE  \E d \in Calls : job'[d].type = t /\ copied'[d] = files'[t]
  BY DEF Origins
<1>2. CASE files'[t] = files[t]
  BY <1>1, <1>2 DEF Origins, PastKept
<1>3. ASSUME NEW c \in Calls, NEW v \in 1 .. puts, Publishes(c, v), files'[t] # files[t]
      PROVE  \E d \in Calls : job'[d].type = t /\ copied'[d] = files'[t]
  <2>1. copied'[c] = v /\ job' = job
    BY <1>1, <1>3 DEF Publishes, PastKept, TypeOK
  <2>2. job[c].type = t /\ files'[t] = v
    BY <1>1, <1>3, JobTyped DEF Publishes, TypeOK
  <2>3. QED
    BY <2>1, <2>2
<1>4. ASSUME NEW c \in Calls, Empties(c), files'[t] # files[t]
      PROVE  FALSE
  BY <1>1, <1>4 DEF Empties, TypeOK
<1>5. Rests \/ Stages \/ Clears => files'[t] = files[t]
  BY <1>1 DEF Rests, Stages, Clears, TypeOK
<1>6. QED
  BY <1>2, <1>3, <1>4, <1>5, Moves

(* A version that was published stays, but for calls still to be answered. *)
LEMMA StepPublishedStays == ASSUME IInv, [Next]_vars PROVE PublishedStays'
<1> USE DEF IInv
<1>1. PastKept /\ \A t \in Types : t # Temp /\ t \in Places
  BY Stable, PlacesAssumption DEF Places
<1> SUFFICES ASSUME NEW c \in Calls, copied'[c] # 0
             PROVE  \/ files'[job'[c].type] # 0
                    \/ \E d \in Calls : Takes(d, job[c].type)' /\ d \notin prior'[c]
  BY <1>1 DEF PublishedStays, PastKept, Takes
<1> DEFINE t == job[c].type
<1>2. t \in Types /\ t \in Places /\ t # Temp /\ job' = job
  BY <1>1, JobTyped DEF PastKept
<1>3. CASE copied[c] # 0
  <2>1. pc[c] # "idle" /\ prior'[c] = prior[c]
    BY <1>1, <1>3 DEF PastKept, Deeds
  <2>2. CASE \E d \in Calls : Takes(d, t) /\ d \notin prior[c]
    BY <1>2, <2>1, <2>2, TakesKept
  <2>3. CASE files[t] # 0
    <3>1. CASE files'[t] # 0
      BY <1>2, <3>1
    <3>2. ASSUME NEW b \in Calls, NEW v \in 1 .. puts, Publishes(b, v), files'[t] = 0
          PROVE  Takes(b, t)' /\ b \notin prior[c]
      <4>1. job[b].key = t /\ copied'[b] = v /\ v # 0
        BY <1>2, <2>3, <3>2, JobTyped DEF Publishes, TypeOK
      <4>2. b \notin prior[c]
        BY <3>2 DEF Publishes, Deeds
      <4>3. QED
        BY <1>2, <4>1, <4>2 DEF Takes
    <3>3. ASSUME NEW b \in Calls, Empties(b), files'[t] = 0
          PROVE  Takes(b, t)' /\ b \notin prior[c]
      <4>1. job[b].key = t
        BY <1>2, <2>3, <3>3 DEF Empties, TypeOK
      <4>2. b \in removed' \/ copied'[b] # 0
        BY <3>3 DEF Empties
      <4>3. b \notin prior[c]
        BY <3>3 DEF Empties, Deeds
      <4>4. QED
        BY <1>2, <4>1, <4>2, <4>3 DEF Takes
    <3>4. Rests \/ Stages \/ Clears => files'[t] = files[t]
      BY <1>2 DEF Rests, Stages, Clears, TypeOK
    <3>5. QED
      BY <2>1, <2>3, <3>1, <3>2, <3>3, <3>4, Moves
  <2>4. QED
    BY <1>3, <2>2, <2>3 DEF PublishedStays
<1>4. CASE copied[c] = 0
  <2>1. PICK v \in 1 .. puts : Publishes(c, v)
    <3>1. Rests \/ Stages \/ Clears \/ (\E b \in Calls : Empties(b)) => copied' = copied
      BY DEF Rests, Stages, Clears, Empties
    <3>2. ASSUME NEW b \in Calls, NEW v \in 1 .. puts, Publishes(b, v) PROVE b = c
      BY <1>4, <3>2 DEF Publishes, TypeOK
    <3>3. QED
      BY <1>4, <3>1, <3>2, Moves
  <2>2. files'[t] = v /\ v # 0
    BY <1>2, <2>1 DEF Publishes, TypeOK
  <2>3. QED
    BY <1>2, <2>2
<1>5. QED
  BY <1>3, <1>4

(* The staged version stays, goes or is replaced by a new one.             *)
LEMMA TempMoves ==
    ASSUME IInv, [Next]_vars
    PROVE  /\ files'[Temp] \in {files[Temp], 0, puts + 1}
           /\ files'[Temp] = puts + 1 => puts' = puts + 1
<1>1. /\ Temp \in Places /\ (\A c \in Calls : job[c].type # Temp)
      /\ files \in [Places -> 0 .. puts] /\ puts \in Nat
  BY JobTyped, PlacesAssumption DEF Places, IInv, TypeOK
<1>2. CASE Rests \/ Stages \/ Clears
  BY <1>1, <1>2 DEF Rests, Stages, Clears
<1>3. ASSUME NEW c \in Calls, Empties(c)
      PROVE  files'[Temp] \in {files[Temp], 0} /\ files'[Temp] # puts + 1
  BY <1>1, <1>3 DEF Empties
<1>4. ASSUME NEW c \in Calls, NEW v \in 1 .. puts, Publishes(c, v)
      PROVE  files'[Temp] \in {files[Temp], 0} /\ files'[Temp] # puts + 1
  BY <1>1, <1>4 DEF Publishes
<1>5. QED
  BY <1>2, <1>3, <1>4, Moves

(* Who has published a version only now is the call that publishes.        *)
LEMMA NewCopy ==
    ASSUME IInv, [Next]_vars, NEW c \in Calls, copied[c] = 0, copied'[c] # 0
    PROVE  /\ copied'[c] \in 1 .. puts /\ Publishes(c, copied'[c])
           /\ \A b \in Calls \ {c} : copied'[b] = copied[b]
<1>1. Rests \/ Stages \/ Clears \/ (\E b \in Calls : Empties(b)) => copied' = copied
  BY DEF Rests, Stages, Clears, Empties
<1>2. PICK b \in Calls : \E v \in 1 .. puts : Publishes(b, v)
  BY <1>1, Moves
<1>3. PICK v \in 1 .. puts : Publishes(b, v)
  BY <1>2
<1>4. b = c /\ copied'[c] = v /\ \A a \in Calls \ {c} : copied'[a] = copied[a]
  BY <1>3 DEF Publishes, IInv, TypeOK
<1>5. QED
  BY <1>3, <1>4

(* A call that publishes is in nobody's past.                              *)
LEMMA PublisherFresh ==
    ASSUME IInv, NEW c \in Calls, NEW v \in Nat, Publishes(c, v)
    PROVE  \A d \in Calls : c \notin prior[d] /\ c \notin prior'[d]
  BY DEF Publishes, IInv, Deeds

(* A removed file comes back only by a commit that was not answered.       *)
LEMMA StepRemoveSticks == ASSUME IInv, [Next]_vars PROVE RemoveSticks'
<1> USE DEF IInv
<1>1. PastKept /\ \A t \in Types : t # Temp /\ t \in Places
  BY Stable, PlacesAssumption DEF Places
<1> SUFFICES ASSUME NEW d \in removed'
             PROVE  \/ files'[job[d].key] = 0
                    \/ job[d].key = Temp /\ setup.mode = "presigned"
                    \/ \E c \in Calls : /\ job[c].type = job[d].key /\ copied'[c] # 0
                                        /\ c \notin prior'[d]
  BY <1>1 DEF RemoveSticks, PastKept
<1>2. CASE d \notin removed
  <2>1. PICK b \in Calls : Empties(b) /\ removed' # removed
    BY <1>2, Moves DEF Rests, Stages, Clears, Publishes
  <2>2. b = d /\ files'[job[d].key] = 0
    BY <1>2, <2>1 DEF Empties, TypeOK
  <2>3. QED
    BY <2>2
<1>3. CASE d \in removed
  <2>1. /\ d \in Calls /\ pc[d] # "idle" /\ job[d].op = "remove" /\ job[d].key \in Places
        /\ prior'[d] = prior[d]
    BY <1>1, <1>3, JobTyped DEF TypeOK, Deeds, PastKept
  <2>2. CASE \E c \in Calls : /\ job[c].type = job[d].key /\ copied[c] # 0 /\ c \notin prior[d]
    BY <1>1, <2>1, <2>2 DEF PastKept
  <2>3. CASE files[job[d].key] = 0
    <3>1. ASSUME NEW b \in Calls, NEW v \in 1 .. puts, Publishes(b, v), files'[job[d].key] # 0
          PROVE  job[b].type = job[d].key /\ copied'[b] # 0 /\ b \notin prior'[d]
      <4>1. job[b].type = job[d].key
        BY <2>1, <2>3, <3>1, JobTyped DEF Publishes, TypeOK
      <4>2. copied'[b] = v /\ v # 0
        BY <3>1 DEF Publishes, TypeOK
      <4>3. QED
        BY <2>1, <3>1, <4>1, <4>2, PublisherFresh
    <3>2. Rests \/ Clears \/ (\E b \in Calls : Empties(b)) => files'[job[d].key] = 0
      BY <2>1, <2>3 DEF Rests, Clears, Empties, TypeOK
    <3>3. ASSUME Stages, files'[job[d].key] # 0
          PROVE  job[d].key = Temp /\ setup.mode = "presigned"
      <4>1. job[d].key = Temp
        BY <2>1, <2>3, <3>3 DEF Stages, TypeOK
      <4>2. setup.mode # "server"
        BY <2>1, <3>3 DEF Stages, Labels, Staging
      <4>3. QED
        BY <4>1, <4>2, SetupsAssumption DEF TypeOK
    <3>4. QED
      BY <3>1, <3>2, <3>3, Moves
  <2>4. QED
    BY <1>3, <2>2, <2>3 DEF RemoveSticks
<1>4. QED
  BY <1>2, <1>3

(* A commit gets to its answer by deleting what it published.              *)
LEMMA ToAnswer ==
    ASSUME IInv, [Next]_vars, NEW c \in Calls, copied[c] # 0,
           pc'[c] = "reply" \/ answer'[c] = "ok", pc[c] # "reply", answer[c] # "ok"
    PROVE  files' = [files EXCEPT ![job[c].key] = 0] \/ c \in kept'
  BY DEF IInv, Labels, Deeds, TypeOK, Next, vars, fixed, SaveTemp, RemoveRaw,
       CrashUpload, Put, Age, Arrive, FindSource, CopyS3, DeleteS3, FetchImageKit,
       ReuploadImageKit, DiscardImageKit, RenameLocal, RenameCloudinary, FindTarget, Unlink,
       DestroyCloudinary, ListStale, Sweep, Answer, Crash, Publish, Move, Erase, Delete,
       Goto, Reply, At, On

(* A fetch takes what is there.                                            *)
LEMMA ToReupload ==
    ASSUME IInv, [Next]_vars, NEW d \in Calls, pc'[d] = "reupload"
    PROVE  \/ pc[d] = "reupload" /\ buffer'[d] = buffer[d]
           \/ /\ files[job[d].key] # 0 /\ buffer'[d] = files[job[d].key]
              /\ kept' = kept /\ answer' = answer /\ prior' = prior /\ pc[d] # "idle"
<1>1. \/ \E c \in Calls : FetchImageKit(c)
      \/ buffer' = buffer /\ (pc'[d] = "reupload" => pc[d] = "reupload")
  BY DEF IInv, TypeOK, Next, vars, fixed, SaveTemp, RemoveRaw,
       CrashUpload, Put, Age, Arrive, FindSource, CopyS3, DeleteS3,
       ReuploadImageKit, DiscardImageKit, RenameLocal, RenameCloudinary, FindTarget, Unlink,
       DestroyCloudinary, ListStale, Sweep, Answer, Crash, Publish, Move, Erase, Delete,
       Goto, Reply, At, On
<1>2. ASSUME NEW c \in Calls, FetchImageKit(c), c # d
      PROVE  pc[d] = "reupload" /\ buffer'[d] = buffer[d]
  BY <1>2 DEF IInv, TypeOK, FetchImageKit, Goto, Reply, At
<1>3. ASSUME FetchImageKit(d)
      PROVE  /\ files[job[d].key] # 0 /\ buffer'[d] = files[job[d].key]
             /\ kept' = kept /\ answer' = answer /\ prior' = prior /\ pc[d] # "idle"
  BY <1>3 DEF IInv, TypeOK, FetchImageKit, Found, Goto, Reply, At, fixed
<1>4. QED
  BY <1>1, <1>2, <1>3

(* A version that was committed and dropped is gone, after every step.     *)
LEMMA StepTaken == ASSUME IInv, [Next]_vars PROVE Taken'
<1> USE DEF IInv
<1>1. /\ PastKept /\ TypeOK' /\ Deeds' /\ Labels' /\ Temp \in Places
      /\ \A c \in Calls : job[c].type # Temp
  BY Stable, StepTypeOK, StepDeeds, StepLabels, PlacesAssumption, JobTyped DEF Places
<1>2. \A c \in Calls : copied[c] \in 0 .. puts /\ puts \in Nat
  BY DEF TypeOK
<1> SUFFICES ASSUME NEW c \in Calls, copied'[c] # 0
             PROVE  /\ job[c].key = Temp =>
                         /\ Renames => files'[Temp] # copied'[c]
                         /\ pc'[c] = "reply" \/ answer'[c] = "ok" =>
                              c \in kept' \/ files'[Temp] # copied'[c]
                    /\ \A d \in Calls :
                         pc'[d] = "reupload" /\ job[d].key = Temp /\ c \in prior'[d] =>
                           /\ copied'[c] <= buffer'[d]
                           /\ job[c].key = Temp /\ answer'[c] = "ok" /\ copied'[c] = buffer'[d]
                              => c \in kept'
  BY <1>1 DEF Taken, PastKept, Renames
<1>3. CASE copied[c] = 0
  <2>1. Publishes(c, copied'[c]) /\ copied'[c] \in 1 .. puts
    BY <1>3, NewCopy
  <2>2. job[c].key = Temp /\ Renames => files'[Temp] = 0
    BY <1>1, <2>1 DEF Publishes, TypeOK
  <2>3. pc'[c] = "reply" => Renames
    BY <2>1 DEF Publishes
  <2>4. ASSUME NEW d \in Calls, c \in prior'[d] PROVE FALSE
    BY <2>1, <2>4, PublisherFresh
  <2>5. answer'[c] # "ok"
    BY <2>1 DEF Publishes
  <2>6. QED
    BY <2>1, <2>2, <2>3, <2>4, <2>5
<1>4. CASE copied[c] # 0
  <2>1. copied'[c] = copied[c] /\ pc[c] # "idle"
    BY <1>1, <1>4 DEF PastKept, Deeds
  <2>2. files'[Temp] = files[Temp] \/ files'[Temp] # copied'[c]
    BY <1>2, <1>4, <2>1, TempMoves
  <2>3. ASSUME job[c].key = Temp, Renames PROVE files'[Temp] # copied'[c]
    BY <1>4, <2>1, <2>2, <2>3 DEF Taken
  <2>4. ASSUME job[c].key = Temp, pc'[c] = "reply" \/ answer'[c] = "ok"
        PROVE  c \in kept' \/ files'[Temp] # copied'[c]
    <3>1. CASE pc[c] = "reply" \/ answer[c] = "ok"
      BY <1>1, <1>4, <2>1, <2>2, <2>4, <3>1 DEF Taken, PastKept
    <3>2. CASE ~(pc[c] = "reply" \/ answer[c] = "ok")
      <4>1. files'[Temp] = 0 \/ c \in kept'
        BY <1>1, <1>4, <2>4, <3>2, ToAnswer DEF TypeOK
      <4>2. QED
        BY <1>4, <2>1, <4>1
    <3>3. QED
      BY <3>1, <3>2
  <2>5. ASSUME NEW d \in Calls, pc'[d] = "reupload", job[d].key = Temp, c \in prior'[d]
        PROVE  /\ copied'[c] <= buffer'[d]
               /\ job[c].key = Temp /\ answer'[c] = "ok" /\ copied'[c] = buffer'[d] => c \in kept'
    <3>1. \/ pc[d] = "reupload" /\ buffer'[d] = buffer[d]
          \/ /\ files[Temp] # 0 /\ buffer'[d] = files[Temp]
             /\ kept' = kept /\ answer' = answer /\ prior' = prior /\ pc[d] # "idle"
      BY <2>5, ToReupload
    <3>2. prior'[d] = prior[d] /\ pc[c] = "done" /\ answer'[c] = answer[c] /\ kept \subseteq kept'
      BY <1>1, <2>5, <3>1 DEF PastKept, Deeds
    <3>3. CASE pc[d] = "reupload" /\ buffer'[d] = buffer[d]
      BY <1>4, <2>1, <2>5, <3>2, <3>3 DEF Taken
    <3>4. CASE files[Temp] # 0 /\ buffer'[d] = files[Temp] /\ kept' = kept
      <4>1. files[Temp] = puts
        BY <3>4 DEF Staging
      <4>2. QED
        BY <1>2, <1>4, <2>1, <3>2, <3>4, <4>1 DEF Taken
    <3>5. QED
      BY <3>1, <3>3, <3>4
  <2>6. QED
    BY <2>3, <2>4, <2>5
<1>5. QED
  BY <1>3, <1>4

(* The version in a permanent folder goes back only by a late ImageKit     *)
(* commit, or by one of a published file.                                  *)
LEMMA StepNeverOlder == ASSUME IInv, [Next]_vars PROVE NeverOlder'
<1> USE DEF IInv
<1>1. PastKept /\ \A t \in Types : t # Temp /\ t \in Places
  BY Stable, PlacesAssumption DEF Places
<1> SUFFICES ASSUME NEW c \in Calls, files'[job[c].type] # 0,
                    files'[job[c].type] < copied'[c]
             PROVE  \E d \in Calls :
                      /\ job[d].type = job[c].type /\ copied'[d] = files'[job[c].type]
                      /\ job[d].key = Temp => On("imagekit") /\ c \notin prior'[d]
  BY <1>1 DEF NeverOlder, PastKept, On
<1> DEFINE t == job[c].type
<1>2. /\ t \in Types /\ t \in Places /\ t # Temp /\ files[t] \in Nat /\ puts \in Nat
      /\ copied[c] \in 0 .. puts
  BY <1>1, JobTyped DEF TypeOK
<1>3. CASE files'[t] = files[t] /\ copied'[c] = copied[c]
  <2>1. \E d \in Calls : /\ job[d].type = t /\ copied[d] = files[t]
                         /\ (job[d].key = Temp => (On("imagekit") /\ c \notin prior[d]))
    <3>1. files[t] # 0 /\ files[t] < copied[c]
      BY <1>3
    <3>2. QED
      BY <3>1, Zenon DEF NeverOlder
  <2>2. PICK d \in Calls : /\ job[d].type = t /\ copied[d] = files[t]
                          /\ (job[d].key = Temp => (On("imagekit") /\ c \notin prior[d]))
    BY <2>1, Zenon
  <2>3. copied[d] # 0
    BY <1>3, <2>2
  <2>4. copied'[d] = copied[d] /\ prior'[d] = prior[d]
    BY <1>1, <2>3, Zenon DEF PastKept, Deeds
  <2>5. copied'[d] = files'[t]
    BY <1>3, <2>2, <2>4
  <2>6. QED
    BY <2>2, <2>4, <2>5, Zenon
<1>4. ASSUME NEW b \in Calls, NEW v \in 1 .. puts, Publishes(b, v),
             ~(files'[t] = files[t] /\ copied'[c] = copied[c])
      PROVE  /\ job[b].type = t /\ copied'[b] = files'[t]
             /\ job[b].key = Temp => On("imagekit") /\ c \notin prior'[b]
  <2>1. job[b].type \in Types /\ job[b].key \in Places /\ copied'[b] = v
    BY <1>4, JobTyped DEF Publishes, TypeOK
  <2>2. job[b].type = t
    <3>1. CASE b = c
      BY <3>1
    <3>2. CASE b # c /\ job[b].type # t
      <4>1. copied'[c] = copied[c] /\ files'[t] = 0
        BY <1>2, <1>4, <2>1, <3>2 DEF Publishes, TypeOK
      <4>2. QED
        BY <4>1
    <3>3. QED
      BY <3>1, <3>2
  <2>3. files'[t] = v
    BY <1>2, <1>4, <2>1, <2>2 DEF Publishes, TypeOK
  <2>4. ASSUME job[b].key = Temp PROVE On("imagekit") /\ c \notin prior'[b]
    <3>1. b # c /\ copied'[c] = copied[c] /\ v < copied[c]
      BY <1>2, <1>4, <2>1, <2>3 DEF Publishes, TypeOK
    <3>2. v # files[Temp]
      BY <1>2, <3>1 DEF Staging
    <3>3. pc[b] = "reupload" /\ v = buffer[b] /\ On("imagekit") /\ prior' = prior
      BY <1>4, <2>4, <3>2 DEF Publishes
    <3>4. c \notin prior[b]
      BY <1>2, <2>4, <3>1, <3>3 DEF Taken, TypeOK
    <3>5. QED
      BY <3>3, <3>4
  <2>5. QED
    BY <2>1, <2>2, <2>3, <2>4
<1>5. ASSUME NEW b \in Calls, Empties(b)
      PROVE  files'[t] = files[t] /\ copied'[c] = copied[c]
  BY <1>2, <1>5 DEF Empties, TypeOK
<1>6. Rests \/ Stages \/ Clears => files'[t] = files[t] /\ copied'[c] = copied[c]
  BY <1>2 DEF Rests, Stages, Clears, TypeOK
<1>7. QED
  BY <1>3, <1>4, <1>5, <1>6, Moves

(* Where commits rename, no version gets into a second place.              *)
LEMMA StepOnePlace ==
    ASSUME IInv, [Next]_vars, Renames, NEW p \in Places, NEW q \in Places, p # q, files'[p] # 0
    PROVE  files'[p] # files'[q]
<1> USE DEF IInv
<1>1. /\ Temp \in Places /\ files \in [Places -> 0 .. puts] /\ puts \in Nat
      /\ \A a, b \in Places : a # b /\ files[a] # 0 => files[a] # files[b]
  BY DEF Places, TypeOK, CommitOnce
<1>2. CASE Rests \/ Stages \/ Clears
  BY <1>1, <1>2 DEF Rests, Stages, Clears
<1>3. ASSUME NEW c \in Calls, Empties(c) PROVE files'[p] # files'[q]
  BY <1>1, <1>3 DEF Empties
<1>4. ASSUME NEW c \in Calls, NEW v \in 1 .. puts, Publishes(c, v)
      PROVE  files'[p] # files'[q]
  <2>1. job[c].type \in Places /\ job[c].key \in Places /\ v = files[job[c].key] /\ v # 0
    BY <1>4, JobTyped DEF Publishes, Places
  <2>2. files' = [files EXCEPT ![job[c].key] = 0, ![job[c].type] = v]
    BY <1>4 DEF Publishes
  <2>3. QED
    BY <1>1, <2>1, <2>2
<1>5. QED
  BY <1>2, <1>3, <1>4, Moves

(* A version is published again only while or after a copying commit left  *)
(* it in the staging area.                                                 *)
LEMMA StepCommitOnce == ASSUME IInv, [Next]_vars PROVE CommitOnce'
<1> USE DEF IInv
<1>1. PastKept /\ Deeds' /\ Renames' = Renames
  BY Stable, StepDeeds DEF PastKept, Renames
<1>2. Renames' => \A p, q \in Places : p # q /\ files'[p] # 0 => files'[p] # files'[q]
  BY <1>1, StepOnePlace
<1>3. ASSUME NEW c \in Calls, NEW d \in Calls, c # d, copied'[c] # 0,
             copied'[c] = copied'[d], job[c].key = Temp, job[d].key = Temp
      PROVE  /\ ~Renames
             /\ c \in prior'[d] /\ answer'[c] = "ok" => c \in kept'
  <2>1. CASE copied[c] # 0 /\ copied[d] # 0
    <3>1. copied'[c] = copied[c] /\ copied'[d] = copied[d] /\ prior'[d] = prior[d]
      BY <1>1, <2>1 DEF PastKept, Deeds
    <3>2. c \in prior[d] => answer'[c] = answer[c]
      BY <1>1 DEF PastKept, Deeds
    <3>3. QED
      BY <1>1, <1>3, <2>1, <3>1, <3>2 DEF CommitOnce, PastKept
  <2>2. CASE copied[c] = 0
    <3>1. Publishes(c, copied'[c]) /\ copied'[c] \in 1 .. puts /\ copied'[d] = copied[d]
      BY <1>3, <2>2, NewCopy
    <3>2. c \notin prior'[d]
      BY <3>1, PublisherFresh
    <3>3. ~Renames
      BY <1>3, <3>1 DEF Taken, Publishes
    <3>4. QED
      BY <3>2, <3>3
  <2>3. CASE copied[d] = 0
    <3>1. Publishes(d, copied'[d]) /\ copied'[d] \in 1 .. puts /\ copied'[c] = copied[c]
      BY <1>3, <2>3, NewCopy
    <3>2. ~Renames
      BY <1>3, <3>1 DEF Taken, Publishes
    <3>3. ASSUME c \in prior'[d], answer'[c] = "ok" PROVE c \in kept
      <4>1. c \in prior[d] /\ pc[c] = "done" /\ answer[c] = "ok"
        BY <1>1, <3>1, <3>3 DEF Publishes, PastKept, Deeds
      <4>2. CASE pc[d] = "reupload" /\ copied'[d] = buffer[d]
        BY <1>3, <3>1, <4>1, <4>2 DEF Taken
      <4>3. CASE copied'[d] = files[Temp]
        BY <1>3, <3>1, <4>1, <4>3 DEF Taken
      <4>4. QED
        BY <1>3, <3>1, <4>2, <4>3 DEF Publishes
    <3>4. QED
      BY <1>1, <3>2, <3>3 DEF PastKept
  <2>4. QED
    BY <2>1, <2>2, <2>3
<1>4. job' = job
  BY <1>1 DEF PastKept
<1>5. QED
  BY <1>1, <1>2, <1>3, <1>4 DEF CommitOnce

(* A commit misses the file only if it was taken, or never was there.      *)
LEMMA StepMissExplained == ASSUME IInv, [Next]_vars PROVE MissExplained'
<1> USE DEF IInv
<1>1. PastKept /\ Clash' = Clash
  BY Stable DEF PastKept, Clash, On
<1> SUFFICES ASSUME NEW c \in Calls, job[c].op = "commit", answer'[c] = "notFound",
                    NEW p \in Places \cup {Nowhere}, p = job[c].key
             PROVE  \/ p = Nowhere
                    \/ p = Temp /\ (Clash \/ swept' # {} \/ \E d \in Calls : Takes(d, p)')
                    \/ /\ p \in Types
                       /\ \A b \in prior'[c] : job[b].type = p /\ copied'[b] # 0 =>
                            \E d \in Calls : Takes(d, p)' /\ d \notin prior'[b]
  BY <1>1, JobTyped DEF MissExplained, PastKept
<1>2. (\E d \in Calls : p \in Places /\ Takes(d, p)) => \E d \in Calls : Takes(d, p)'
  <2>1. ASSUME NEW d \in Calls, p \in Places, Takes(d, p) PROVE Takes(d, p)'
    BY <2>1, TakesKept
  <2>2. QED
    BY <2>1
<1>3. p \in {Nowhere, Temp} \cup Types /\ (p \in Types => p \in Places)
  BY JobTyped DEF Places
<1>4. pc[c] # "idle" => prior'[c] = prior[c]
  BY <1>1 DEF PastKept
<1>5. ASSUME pc[c] # "idle", p \in Types, NEW b \in prior[c], job[b].type = p, copied'[b] # 0,
             \E d \in Calls : Takes(d, p) /\ d \notin prior[b]
      PROVE  \E d \in Calls : Takes(d, p)' /\ d \notin prior'[b]
  <2>1. b \in Calls /\ prior'[b] = prior[b]
    BY <1>1, <1>5 DEF PastKept, Deeds, TypeOK
  <2>2. PICK d \in Calls : Takes(d, p) /\ d \notin prior[b]
    BY <1>5
  <2>3. Takes(d, p)'
    BY <1>3, <1>5, <2>2, TakesKept
  <2>4. QED
    BY <2>1, <2>2, <2>3
<1>6. \A b \in prior[c] : copied'[b] = copied[b]
  <2>1. ASSUME NEW b \in prior[c], copied'[b] # copied[b] PROVE FALSE
    <3>1. b \in Calls
      BY DEF TypeOK
    <3>2. copied[b] = 0 /\ copied'[b] # 0
      BY <1>1, <2>1, <3>1 DEF PastKept
    <3>3. Publishes(b, copied'[b]) /\ copied'[b] \in Nat
      BY <3>1, <3>2, NewCopy
    <3>4. QED
      BY <3>1, <3>3, PublisherFresh
  <2>2. QED
    BY <2>1
<1>7. CASE answer[c] = "notFound"
  <2>1. pc[c] # "idle"
    BY <1>7 DEF Labels
  <2>2. \/ p = Nowhere
        \/ p = Temp /\ (Clash \/ swept # {} \/ \E d \in Calls : Takes(d, p))
        \/ /\ p \in Types
           /\ \A b \in prior[c] : job[b].type = p /\ copied[b] # 0 =>
                \E d \in Calls : Takes(d, p) /\ d \notin prior[b]
    BY <1>7 DEF MissExplained
  <2>3. CASE p = Temp /\ (Clash \/ swept # {} \/ \E d \in Calls : Takes(d, p))
    BY <1>1, <1>2, <2>3 DEF PastKept, Places
  <2>4. CASE /\ p \in Types
             /\ \A b \in prior[c] : job[b].type = p /\ copied[b] # 0 =>
                  \E d \in Calls : Takes(d, p) /\ d \notin prior[b]
    BY <1>4, <1>5, <1>6, <2>1, <2>4
  <2>5. QED
    BY <2>2, <2>3, <2>4
<1>8. CASE answer[c] # "notFound"
  <2>1. pc[c] = "load" /\ ~Found(c) /\ swept' = swept
    BY <1>8 DEF Labels, TypeOK, Next, vars, fixed, SaveTemp, RemoveRaw,
       CrashUpload, Put, Age, Arrive, FindSource, CopyS3, DeleteS3, FetchImageKit,
       ReuploadImageKit, DiscardImageKit, RenameLocal, RenameCloudinary, FindTarget, Unlink,
       DestroyCloudinary, ListStale, Sweep, Answer, Crash, Publish, Move, Erase, Delete,
       Goto, Reply, At, On
  <2>2. CASE p = Temp
    <3>1. files[Temp] = 0
      BY <2>1, <2>2, PlacesAssumption DEF Found, Places
    <3>2. Clash \/ swept # {} \/ \E d \in Calls : Takes(d, Temp)
      BY <2>1, <3>1 DEF Labels, Staging, TypeOK
    <3>3. QED
      BY <1>2, <2>1, <2>2, <3>2 DEF Places
  <2>3. CASE p \in Types
    <3>1. files[p] = 0
      BY <1>3, <2>1, <2>3, PlacesAssumption DEF Found
    <3>2. ASSUME NEW b \in prior[c], job[b].type = p, copied[b] # 0
          PROVE  \E d \in Calls : Takes(d, p) /\ d \notin prior[b]
      <4>1. b \in Calls
        BY DEF TypeOK
      <4>2. QED
        BY <3>1, <3>2, <4>1 DEF PublishedStays
    <3>3. QED
      BY <1>4, <1>5, <1>6, <2>1, <2>3, <3>2
  <2>4. QED
    BY <1>3, <2>2, <2>3
<1>9. QED
  BY <1>7, <1>8

(* Every step preserves the inductive invariant.                           *)
LEMMA StepIInv == ASSUME IInv, [Next]_vars PROVE IInv'
<1>1. TypeOK' /\ Labels' /\ Deeds' /\ Staging' /\ Origins' /\ Taken'
  BY StepTypeOK, StepLabels, StepDeeds, StepStaging, StepOrigins, StepTaken DEF IInv
<1>2. PublishedStays' /\ NeverOlder' /\ CommitOnce' /\ MissExplained' /\ RemoveSticks'
  BY StepPublishedStays, StepNeverOlder, StepCommitOnce, StepMissExplained, StepRemoveSticks
<1>3. QED
  BY <1>1, <1>2 DEF IInv

(* The invariant holds of every provider, mode and number of calls.        *)
THEOREM Invariance == Spec => []IInv
  BY InitIInv, StepIInv, PTL DEF Spec

(* No step of any provider leaves the types.                               *)
THEOREM TypeCorrect == Spec => []TypeOK
<1>1. IInv => TypeOK
  BY DEF IInv
<1>2. QED
  BY <1>1, Invariance, PTL

(* A published file stays until a client asks for that published file.     *)
THEOREM PublishedFilesStay == Spec => []PublishedStays
<1>1. IInv => PublishedStays
  BY DEF IInv
<1>2. QED
  BY <1>1, Invariance, PTL

(* Only ImageKit lets an older staged version replace a newer one; a       *)
(* commit of a published file puts it back on every provider.              *)
THEOREM VersionsNeverGoBack == Spec => []NeverOlder
<1>1. IInv => NeverOlder
  BY DEF IInv
<1>2. QED
  BY <1>1, Invariance, PTL

(* Where commits rename, no version gets into two places; elsewhere it is  *)
(* published twice only by the races the property names.                   *)
THEOREM CommittedOnce == Spec => []CommitOnce
<1>1. IInv => CommitOnce
  BY DEF IInv
<1>2. QED
  BY <1>1, Invariance, PTL

(* A 404 of a commit has one of the causes the property names: a name that *)
(* leads nowhere, a staged file or a published one that was taken.         *)
THEOREM MissesExplained == Spec => []MissExplained
<1>1. IInv => MissExplained
  BY DEF IInv
<1>2. QED
  BY <1>1, Invariance, PTL

(* A removed file comes back only by a commit the remove did not follow.   *)
THEOREM RemovesStick == Spec => []RemoveSticks
<1>1. IInv => RemoveSticks
  BY DEF IInv
<1>2. QED
  BY <1>1, Invariance, PTL

----------------------------------------------------------------------------
(* The abstract view of a state: what StagedFile sees.                     *)
AtHere == IF Shown THEN files ELSE [p \in Places |-> 0]
NewestHere == IF Shown THEN puts ELSE 0
Landed == {copied[c] : c \in Calls} \ {0}
Exact == Renames \/ (On("s3") /\ setup.mode = "server")

(* The abstract view of a step that changes nothing StagedFile sees.       *)
Unseen ==
    /\ AtHere' = AtHere /\ NewestHere' = NewestHere
    /\ Landed' = Landed /\ Asked' = Asked /\ aged' = aged /\ Exact' = Exact

(* Such a step is a stutter of StagedFile.                                 *)
LEMMA Stutter == ASSUME Unseen PROVE UNCHANGED Staged!vars
  BY DEF Unseen, Staged!vars, AtHere, NewestHere, Landed, Exact

(* A setup is never changed, nor is what depends on it.                    *)
LEMMA SetupKept ==
    ASSUME IInv, [Next]_vars
    PROVE  Clash' = Clash /\ Exact' = Exact
  BY Stable DEF PastKept, Clash, Exact, Renames, On

(* Only an arriving call asks for a place.                                 *)
LEMMA AskedKept ==
    ASSUME IInv, [Next]_vars, \A c \in Calls : pc[c] = "idle" => pc'[c] = "idle"
    PROVE  Asked' = Asked
<1>1. job' = job /\ \A c \in Calls : pc[c] # "idle" <=> pc'[c] # "idle"
  BY Stable DEF PastKept
<1>2. QED
  BY <1>1 DEF Asked

(* What a step of a call that has arrived leaves alone.                    *)
CallStep == UNCHANGED <<puts, upload, aged>> /\ Asked' = Asked

(* A step is one of the upload, of the client, of time or of such a call.  *)
LEMMA Steps ==
    ASSUME IInv, [Next]_vars
    PROVE  \/ SaveTemp \/ RemoveRaw \/ CrashUpload \/ Put \/ Age
           \/ \E c \in Calls : Arrive(c)
           \/ CallStep
<1>1. CASE UNCHANGED vars
  BY <1>1, AskedKept DEF vars, CallStep
<1>2. ASSUME NEW c \in Calls, pc[c] # "idle", UNCHANGED fixed,
             (pc' = pc) \/ \E l \in PCs : pc' = [pc EXCEPT ![c] = l]
      PROVE  CallStep
  <2>1. \A d \in Calls : pc[d] = "idle" => pc'[d] = "idle"
    BY <1>2 DEF IInv, TypeOK
  <2>2. QED
    BY <1>2, <2>1, AskedKept DEF CallStep, fixed
<1> USE DEF At, Goto, Reply, PCs
<1>3. ASSUME NEW c \in Calls, FindSource(c) PROVE CallStep
  BY <1>2, <1>3 DEF FindSource
<1>4. ASSUME NEW c \in Calls, CopyS3(c) PROVE CallStep
  BY <1>2, <1>4 DEF CopyS3
<1>5. ASSUME NEW c \in Calls, DeleteS3(c) PROVE CallStep
  BY <1>2, <1>5 DEF DeleteS3
<1>6. ASSUME NEW c \in Calls, FetchImageKit(c) PROVE CallStep
  BY <1>2, <1>6 DEF FetchImageKit
<1>7. ASSUME NEW c \in Calls, ReuploadImageKit(c) PROVE CallStep
  BY <1>2, <1>7 DEF ReuploadImageKit
<1>8. ASSUME NEW c \in Calls, DiscardImageKit(c) PROVE CallStep
  BY <1>2, <1>8 DEF DiscardImageKit
<1>9. ASSUME NEW c \in Calls, RenameLocal(c) PROVE CallStep
  BY <1>2, <1>9 DEF RenameLocal
<1>10. ASSUME NEW c \in Calls, RenameCloudinary(c) PROVE CallStep
  BY <1>2, <1>10 DEF RenameCloudinary
<1>11. ASSUME NEW c \in Calls, FindTarget(c) PROVE CallStep
  BY <1>2, <1>11 DEF FindTarget
<1>12. ASSUME NEW c \in Calls, Unlink(c) PROVE CallStep
  BY <1>2, <1>12 DEF Unlink, Delete
<1>13. ASSUME NEW c \in Calls, DestroyCloudinary(c) PROVE CallStep
  BY <1>2, <1>13 DEF DestroyCloudinary, Delete
<1>14. ASSUME NEW c \in Calls, ListStale(c) PROVE CallStep
  BY <1>2, <1>14 DEF ListStale
<1>15. ASSUME NEW c \in Calls, Sweep(c) PROVE CallStep
  BY <1>2, <1>15 DEF Sweep
<1>16. ASSUME NEW c \in Calls, Answer(c) PROVE CallStep
  BY <1>2, <1>16 DEF Answer
<1>17. ASSUME NEW c \in Calls, Crash(c) PROVE CallStep
  BY <1>2, <1>17 DEF Crash
<1>18. QED
  BY <1>1, <1>3, <1>4, <1>5, <1>6, <1>7, <1>8, <1>9, <1>10, <1>11, <1>12, <1>13,
     <1>14, <1>15, <1>16, <1>17 DEF Next

(* Where a commit publishes the file is shown.                             *)
LEMMA ShownAtWork ==
    ASSUME IInv, NEW c \in Calls, NEW v \in 1 .. puts, Publishes(c, v)
    PROVE  Shown
<1>1. upload \in {"idle", "done"} /\ pc[c] # "idle" /\ job[c].op = "commit"
  BY DEF Publishes, IInv, Labels
<1>2. ASSUME Clash PROVE FALSE
  <2>1. files[job[c].key] = 0
    BY <1>1, <1>2, ClashEmpty DEF Publishes
  <2>2. v # files[job[c].key] /\ ~On("imagekit")
    BY <1>2, <2>1 DEF Clash, On
  <2>3. QED
    BY <2>2 DEF Publishes
<1>3. QED
  BY <1>1, <1>2 DEF Shown

(* A commit publishes, and moves the file or not.                          *)
LEMMA CommitPublishes ==
    ASSUME IInv, [Next]_vars, CallStep, NEW c \in Calls, NEW v \in 1 .. puts, Publishes(c, v)
    PROVE  [Staged!Next]_(Staged!vars)
<1>1. Clash' = Clash /\ Exact' = Exact /\ Shown
  BY SetupKept, ShownAtWork
<1>2. Shown'
  BY <1>1 DEF Shown, CallStep
<1>3. Landed' = Landed \cup {v}
  <2>1. copied'[c] = v /\ copied[c] = 0 /\ \A d \in Calls \ {c} : copied'[d] = copied[d]
    BY DEF Publishes, IInv, TypeOK
  <2>2. v # 0
    OBVIOUS
  <2>3. QED
    BY <2>1, <2>2 DEF Landed
<1>4. PICK p \in Places, t \in Types : p = job[c].key /\ t = job[c].type
  BY JobTyped DEF Publishes, IInv
<1>5. p # Temp => p \in Asked
  BY <1>4 DEF Publishes, Asked
<1>6. Exact => v = files[p]
  BY <1>4 DEF Publishes, Exact, Renames, On
<1>7. \/ files' = [files EXCEPT ![t] = v]
      \/ v = files[p] /\ files' = [files EXCEPT ![p] = 0, ![t] = v]
  BY <1>4 DEF Publishes
<1>8. Staged!Publish(p, t)
  BY <1>1, <1>2, <1>3, <1>5, <1>6, <1>7 DEF Staged!Publish, Landed, Exact, CallStep
<1>9. QED
  BY <1>8 DEF Staged!Next, Staged!Places, Places

(* The staged version goes, with a reason.                                 *)
LEMMA FileGoes ==
    ASSUME IInv, [Next]_vars, CallStep, files' = [files EXCEPT ![Temp] = 0], copied' = copied,
           \/ aged \/ Temp \in Asked \/ files[Temp] \in Landed
           \/ (~Exact /\ Landed # {})
    PROVE  [Staged!Next]_(Staged!vars)
<1>1. Clash' = Clash /\ Exact' = Exact /\ Landed' = Landed
  BY SetupKept DEF Landed
<1>2. Shown' = Shown
  BY <1>1 DEF Shown, CallStep
<1>3. CASE Shown /\ files[Temp] # 0
  <2>1. Staged!Discard
    BY <1>1, <1>2, <1>3 DEF Staged!Discard, Landed, Exact, CallStep
  <2>2. QED
    BY <2>1 DEF Staged!Next
<1>4. CASE ~Shown
  BY <1>1, <1>2, <1>4, Stutter DEF Unseen, AtHere, NewestHere, CallStep
<1>5. CASE files[Temp] = 0
  <2>1. files' = files
    BY <1>5 DEF IInv, TypeOK
  <2>2. QED
    BY <1>1, <1>2, <2>1, Stutter DEF Unseen, AtHere, NewestHere, CallStep
<1>6. QED
  BY <1>3, <1>4, <1>5

(* A folder is emptied because a client asked for its file.                *)
LEMMA FolderEmptied ==
    ASSUME IInv, [Next]_vars, CallStep, NEW t \in Types, t \in Asked,
           files' = [files EXCEPT ![t] = 0], copied' = copied
    PROVE  [Staged!Next]_(Staged!vars)
<1>1. Clash' = Clash /\ Exact' = Exact /\ Landed' = Landed
  BY SetupKept DEF Landed
<1>2. Shown' = Shown
  BY <1>1 DEF Shown, CallStep
<1>3. CASE Shown /\ files[t] # 0
  <2>1. Staged!Unpublish(t)
    BY <1>1, <1>2, <1>3 DEF Staged!Unpublish, Landed, Exact, CallStep
  <2>2. QED
    BY <2>1 DEF Staged!Next
<1>4. CASE ~Shown
  BY <1>1, <1>2, <1>4, Stutter DEF Unseen, AtHere, NewestHere, CallStep
<1>5. CASE files[t] = 0
  <2>1. files' = files
    BY <1>5 DEF IInv, TypeOK
  <2>2. QED
    BY <1>1, <1>2, <2>1, Stutter DEF Unseen, AtHere, NewestHere, CallStep
<1>6. QED
  BY <1>3, <1>4, <1>5

(* A commit of the staged file that is past its publish has landed a       *)
(* version, the staged one where the whole promise is kept.                *)
LEMMA LandedAtWork ==
    ASSUME IInv, NEW c \in Calls, pc[c] \in {"delete", "discard"}
    PROVE  files[Temp] = 0 \/ files[Temp] \in Landed \/ (~Exact /\ Landed # {})
<1>1. copied[c] # 0 /\ copied[c] \in 0 .. puts /\ copied[c] \in Landed
  BY DEF IInv, Deeds, TypeOK, Landed
<1>2. On("s3") \/ On("imagekit")
  BY DEF IInv, Labels
<1>3. CASE Exact
  <2>1. setup.mode = "server"
    BY <1>2, <1>3 DEF Exact, Renames, On
  <2>2. puts \in {0, 1} /\ files[Temp] \in {0, puts}
    BY <2>1 DEF IInv, Staging
  <2>3. copied[c] = 1 /\ files[Temp] \in {0, 1}
    BY <1>1, <2>2
  <2>4. QED
    BY <1>1, <2>3
<1>4. QED
  BY <1>1, <1>3

(* A remove, or a commit that deletes what it has published, empties a     *)
(* place.                                                                  *)
LEMMA PlaceEmptied ==
    ASSUME IInv, [Next]_vars, CallStep, NEW c \in Calls, Empties(c)
    PROVE  [Staged!Next]_(Staged!vars)
<1>1. job[c].key \in Asked \/ (job[c].key = Temp /\ pc[c] \in {"delete", "discard"})
  <2>1. CASE job[c].op = "remove" /\ pc[c] \in {"load", "unlink"}
    BY <2>1 DEF Empties, Asked
  <2>2. CASE copied[c] # 0 /\ pc[c] \in {"delete", "discard"}
    <3>1. job[c].op = "commit"
      BY <2>2 DEF IInv, Deeds
    <3>2. QED
      BY <2>2, <3>1 DEF Empties, Asked
  <2>3. QED
    BY <2>1, <2>2 DEF Empties
<1>2. CASE job[c].key = Temp
  <2>1. \/ files[Temp] = 0 \/ Temp \in Asked \/ files[Temp] \in Landed
        \/ (~Exact /\ Landed # {})
    BY <1>1, <1>2, LandedAtWork
  <2>2. files' = [files EXCEPT ![Temp] = 0] /\ copied' = copied
    BY <1>2 DEF Empties
  <2>3. CASE files[Temp] = 0
    <3>1. files' = files
      BY <2>2, <2>3 DEF IInv, TypeOK
    <3>2. Clash' = Clash /\ Exact' = Exact /\ Landed' = Landed
      BY <2>2, SetupKept DEF Landed
    <3>3. Unseen
      BY <3>1, <3>2 DEF Unseen, AtHere, NewestHere, Shown, CallStep
    <3>4. QED
      BY <3>3, Stutter
  <2>4. QED
    BY <2>1, <2>2, <2>3, FileGoes
<1>3. CASE job[c].key # Temp
  <2>1. job[c].key \in Types /\ job[c].key \in Asked
    BY <1>1, <1>3 DEF Empties, Places
  <2>2. QED
    BY <2>1, FolderEmptied DEF Empties
<1>4. QED
  BY <1>2, <1>3

(* A staged version appears when the upload is answered, or lost.          *)
LEMMA FileAppears ==
    ASSUME IInv, [Next]_vars, RemoveRaw \/ CrashUpload
    PROVE  [Staged!Next]_(Staged!vars)
<1>1. Clash' = Clash /\ Exact' = Exact /\ Asked' = Asked /\ Landed' = Landed
  BY SetupKept, AskedKept DEF RemoveRaw, CrashUpload, Landed
<1>2. /\ upload = "raw" /\ upload' # "raw" /\ UNCHANGED <<puts, copied, aged>>
      /\ ~Clash => files' = files
  BY DEF RemoveRaw, CrashUpload
<1>3. CASE Clash
  BY <1>1, <1>2, <1>3, Stutter DEF Unseen, AtHere, NewestHere, Shown
<1>4. CASE ~Clash
  <2>1. ~aged /\ swept = {}
    BY <1>2 DEF IInv, Staging
  <2>2. \A d \in Calls : copied[d] = 0 /\ d \notin removed
    BY <1>2 DEF IInv, Labels, Deeds, PCs, TypeOK
  <2>3. setup.mode = "server"
    BY <1>2, SetupsAssumption DEF IInv, TypeOK, Staging
  <2>4. puts = 1 /\ files[Temp] = 1
    BY <1>2, <1>4, <2>1, <2>2, <2>3 DEF IInv, TypeOK, Staging, Takes
  <2>5. files = [[p \in Places |-> 0] EXCEPT ![Temp] = 1]
    <3>1. \A t \in Types : files[t] = 0
      BY <2>2 DEF IInv, Origins
    <3>2. QED
      BY <2>4, <3>1 DEF IInv, TypeOK, Places
  <2>6. ~Shown /\ Shown'
    BY <1>1, <1>2, <1>4 DEF Shown
  <2>7. Staged!Stage
    BY <1>1, <1>2, <1>4, <2>1, <2>4, <2>5, <2>6 DEF Staged!Stage, Landed, Exact
  <2>8. QED
    BY <2>7 DEF Staged!Next
<1>5. QED
  BY <1>3, <1>4

(* A call that arrives asks for the place it names, or for nothing.        *)
LEMMA CallArrives ==
    ASSUME IInv, [Next]_vars, NEW c \in Calls, Arrive(c)
    PROVE  [Staged!Next]_(Staged!vars)
<1>1. /\ Clash' = Clash /\ Exact' = Exact /\ Landed' = Landed /\ job' = job
      /\ UNCHANGED <<files, puts, aged, upload>>
  BY SetupKept DEF Arrive, Landed
<1>2. Shown' = Shown
  BY <1>1 DEF Shown
<1>3. /\ pc[c] = "idle" /\ pc'[c] # "idle"
      /\ \A d \in Calls \ {c} : pc'[d] = pc[d]
  BY DEF Arrive, Goto, IInv, TypeOK
<1>4. Asked' = Asked \/ (job[c].key \in Places /\ Asked' = Asked \cup {job[c].key})
  BY <1>1, <1>3 DEF Asked
<1>5. CASE Asked' = Asked
  BY <1>1, <1>2, <1>5, Stutter DEF Unseen, AtHere, NewestHere
<1>6. CASE job[c].key \in Places /\ Asked' = Asked \cup {job[c].key}
  <2>1. Staged!Ask(job[c].key)
    BY <1>1, <1>2, <1>6 DEF Staged!Ask, Landed, Exact
  <2>2. QED
    BY <1>6, <2>1 DEF Staged!Next, Staged!Places, Places
<1>7. QED
  BY <1>4, <1>5, <1>6

(* A step of any provider is a step of StagedFile, or is not seen there.   *)
LEMMA StepRefines == ASSUME IInv, [Next]_vars PROVE [Staged!Next]_(Staged!vars)
<1> DEFINE R == [Staged!Next]_(Staged!vars)
<1>1. CASE SaveTemp
  <2>1. puts = 0 /\ (\A p \in Places : files[p] = 0) /\ ~Shown'
    <3>1. puts = 0
      BY <1>1 DEF SaveTemp, IInv, Staging
    <3>2. QED
      BY <1>1, <3>1 DEF SaveTemp, IInv, TypeOK, Shown
  <2>2. Exact' = Exact /\ Asked' = Asked /\ Landed' = Landed
    BY <1>1, SetupKept, AskedKept DEF SaveTemp, Landed
  <2>3. files = [p \in Places |-> 0]
    BY <2>1 DEF IInv, TypeOK
  <2>4. Unseen
    BY <1>1, <2>1, <2>2, <2>3 DEF SaveTemp, Unseen, AtHere, NewestHere
  <2>5. QED
    BY <2>4, Stutter
<1>2. CASE RemoveRaw \/ CrashUpload
  BY <1>2, FileAppears
<1>3. CASE Put
  <2>1. Shown /\ Shown' /\ Exact' = Exact /\ Asked' = Asked /\ Landed' = Landed
    BY <1>3, SetupKept, AskedKept DEF Put, Shown, Clash, On, IInv, Staging, Landed
  <2>2. Staged!Stage
    BY <1>3, <2>1 DEF Put, Staged!Stage, Exact, Landed
  <2>3. QED
    BY <2>2 DEF Staged!Next
<1>4. CASE Age
  <2>1. Shown' = Shown /\ Exact' = Exact /\ Asked' = Asked /\ Landed' = Landed
    BY <1>4, SetupKept, AskedKept DEF Age, Shown, Landed
  <2>2. Staged!Expire
    BY <1>4, <2>1 DEF Age, Staged!Expire, Exact, Landed
  <2>3. QED
    BY <2>2 DEF Staged!Next
<1>5. ASSUME NEW c \in Calls, Arrive(c) PROVE R
  BY <1>5, CallArrives
<1>6. CASE CallStep
  <2>1. Clash' = Clash /\ Exact' = Exact /\ Shown' = Shown
    BY <1>6, SetupKept DEF CallStep, Shown
  <2>2. CASE Rests
    <3>1. Unseen
      BY <1>6, <2>1, <2>2 DEF Rests, Unseen, AtHere, NewestHere, Landed, CallStep
    <3>2. QED
      BY <3>1, Stutter
  <2>3. CASE Stages
    BY <1>6, <2>3 DEF Stages, CallStep, IInv, TypeOK
  <2>4. CASE Clears /\ Clash
    <3>1. Unseen
      BY <1>6, <2>1, <2>4 DEF Clears, Unseen, AtHere, NewestHere, Landed, Shown, CallStep
    <3>2. QED
      BY <3>1, Stutter
  <2>5. CASE Clears /\ ~Clash
    <3>1. swept' # {} /\ aged' = aged
      BY <1>6, <2>5 DEF Clears, CallStep
    <3>2. aged
      BY <3>1, StepStaging DEF Staging
    <3>3. QED
      BY <1>6, <2>5, <3>2, FileGoes DEF Clears
  <2>6. ASSUME NEW c \in Calls, Empties(c) PROVE R
    BY <1>6, <2>6, PlaceEmptied
  <2>7. ASSUME NEW c \in Calls, NEW v \in 1 .. puts, Publishes(c, v) PROVE R
    BY <1>6, <2>7, CommitPublishes
  <2>8. QED
    BY <2>2, <2>3, <2>4, <2>5, <2>6, <2>7, Moves
<1>7. QED
  BY <1>1, <1>2, <1>3, <1>4, <1>5, <1>6, Steps

(* The initial states are those of StagedFile.                             *)
LEMMA InitRefines == Init => Staged!Init
<1> SUFFICES ASSUME Init PROVE Staged!Init
  OBVIOUS
<1>1. Landed = {} /\ Asked = {}
  BY DEF Init, Landed, Asked
<1>2. Exact \in BOOLEAN
  BY DEF Exact, Renames, On
<1>3. QED
  BY <1>1, <1>2 DEF Init, Staged!Init, Landed, Exact, Staged!Places, Places

(* Each provider implements StagedFile: a staged or published file goes    *)
(* only when asked for by its place, or, if staged, once it was published  *)
(* or has expired; and on the renaming providers, and on S3 for files that *)
(* are not overwritten, nothing is published that is not at its place.     *)
THEOREM Implementation == Spec => Refines
<1>1. Init => Staged!Init
  BY InitRefines
<1>2. IInv /\ [Next]_vars => [Staged!Next]_(Staged!vars)
  BY StepRefines
<1>3. QED
  BY <1>1, <1>2, Invariance, PTL DEF Spec, Refines, Staged!Spec
=============================================================================
