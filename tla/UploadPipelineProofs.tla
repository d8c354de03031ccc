------------------------ MODULE UploadPipelineProofs ------------------------
(***************************************************************************)
(* Proofs about UploadPipeline, for any files and any configurations.      *)
(* UpProgress says how far the file has been judged at each await; the     *)
(* three properties then follow step by step.                              *)
(***************************************************************************)
EXTENDS UploadPipeline, TLAPS

(* Before anything is received the invariant holds.                        *)
LEMMA UpInitInv == UpInit => UpInv
<1> SUFFICES ASSUME UpInit PROVE UpInv
  OBVIOUS
<1>1. UpTypeOK
  <2>1. upRaw \in BOOLEAN /\ upUnread \in BOOLEAN /\ upKept \in BOOLEAN
    BY Zenon DEF UpInit
  <2>2. NewEntry \in [operation : {"start", "complete", "failed"},
                     status : {"pending", "success", "failure"}]
    BY DEF NewEntry
  <2>3. NoSetup \in [local : BOOLEAN, encryption : BOOLEAN, audit : BOOLEAN, cap : Nat]
    BY DEF NoSetup
  <2>4. NoBytes \in [format : {"none", "webp", "original"}, encrypted : BOOLEAN]
    BY DEF NoBytes
  <2>5. QED
    BY <2>1, <2>2, <2>3, <2>4 DEF UpInit, UpTypeOK
<1>2. UpProgress
  BY DEF UpInit, UpProgress
<1>3. RawCollected /\ AuditAgrees /\ StagedAsRuled
  BY DEF UpInit, RawCollected, AuditAgrees, StagedAsRuled
<1>4. QED
  BY <1>1, <1>2, <1>3 DEF UpInv

(* Bytes that leave the processor, enciphered or not, are bytes.           *)
LEMMA ProcessedType == \A bytes \in {Processed, Encrypted(Processed)} :
    bytes \in [format : {"none", "webp", "original"}, encrypted : BOOLEAN] /\ bytes # NoBytes
<1>1. Processed \in [format : {"none", "webp", "original"}, encrypted : BOOLEAN]
  BY DEF Processed
<1>2. Encrypted(Processed) \in [format : {"none", "webp", "original"}, encrypted : BOOLEAN]
  BY <1>1 DEF Encrypted
<1>3. Processed.format # "none" /\ Encrypted(Processed).format = Processed.format
  BY DEF Processed, Encrypted
<1>4. Processed # NoBytes /\ Encrypted(Processed) # NoBytes
  BY <1>3 DEF NoBytes
<1>5. QED
  BY <1>1, <1>2, <1>4

(* An unlink, whether it works or not, leaves both flags Boolean.          *)
LEMMA RemoveRawType ==
    ASSUME upRaw \in BOOLEAN, upKept \in BOOLEAN, RemoveRaw
    PROVE  upRaw' \in BOOLEAN /\ upKept' \in BOOLEAN
<1>1. CASE upRaw' = FALSE /\ UNCHANGED upKept
  BY <1>1
<1>2. CASE upKept' = TRUE /\ UNCHANGED <<upRaw, upStaged>>
  <2>1. upRaw' = upRaw
    BY <1>2
  <2>2. QED
    BY <1>2, <2>1
<1>3. QED
  BY <1>1, <1>2 DEF RemoveRaw

(* Every step keeps every variable in its type.                            *)
LEMMA UpStepTypeOK == ASSUME UpInv, [UpNext]_upVars PROVE UpTypeOK'
<1> USE DEF UpInv, UpTypeOK, UpProgress
<1>1. CASE UNCHANGED upVars
  BY <1>1 DEF upVars
<1>2. CASE UpReceive
  BY <1>2, UpAssumption DEF UpReceive
<1>3. CASE RefuseByMulter
  BY <1>3 DEF RefuseByMulter
<1>4. CASE StoreRaw
  BY <1>4 DEF StoreRaw
<1>5. CASE Validate
  BY <1>5 DEF Validate, Log
<1>6. CASE Process
  BY <1>6, ProcessedType DEF Process
<1>7. CASE Save
  <2>1. upStaged' = upStaged \/ upStaged' = upBytes
    BY <1>7 DEF Save
  <2>2. QED
    BY <1>7, <2>1 DEF Save
<1>8. CASE Finish
  <2>1. upRaw' \in BOOLEAN /\ upKept' \in BOOLEAN
    BY <1>8, RemoveRawType DEF Finish
  <2>2. upStaged' = NoBytes \/ upStaged' = upStaged
    BY <1>8 DEF Finish, RemoveRaw
  <2>3. upEntry' = Succeeded /\ upLogged' \in 0..1
    BY <1>8 DEF Finish, Log
  <2>4. Succeeded \in [operation : {"start", "complete", "failed"},
                     status : {"pending", "success", "failure"}]
    BY DEF Succeeded
  <2>5. NoBytes \in [format : {"none", "webp", "original"}, encrypted : BOOLEAN]
    BY DEF NoBytes
  <2>6. /\ upSetup' = upSetup /\ upFile' = upFile /\ upBytes' = upBytes /\ upUnread' = upUnread
        /\ upPc' = "answered" /\ (upAnswer' = 201 \/ upAnswer' = upAnswer)
    BY <1>8 DEF Finish
  <2>7. QED
    BY <2>1, <2>2, <2>3, <2>4, <2>5, <2>6
<1>9. CASE FailUpload
  <2>1. upRaw' \in BOOLEAN /\ upKept' \in BOOLEAN
    BY <1>9, RemoveRawType DEF FailUpload, RemoveRawOfFailed
  <2>2. upStaged' = NoBytes \/ upStaged' = upStaged
    BY <1>9 DEF FailUpload, RemoveRawOfFailed, RemoveRaw
  <2>3. upEntry' = Failed /\ upLogged' \in 0..2
    BY <1>9 DEF FailUpload, Log
  <2>4. Failed \in [operation : {"start", "complete", "failed"},
                     status : {"pending", "success", "failure"}]
    BY DEF Failed
  <2>5. NoBytes \in [format : {"none", "webp", "original"}, encrypted : BOOLEAN]
    BY DEF NoBytes
  <2>6. /\ upSetup' = upSetup /\ upFile' = upFile /\ upBytes' = upBytes /\ upUnread' = upUnread
        /\ upPc' = "answered" /\ (upAnswer' = 201 \/ upAnswer' = upAnswer)
    BY <1>9 DEF FailUpload
  <2>7. QED
    BY <2>1, <2>2, <2>3, <2>4, <2>5, <2>6
<1>10. CASE UpCrash
  BY <1>10 DEF UpCrash
<1>11. QED
  BY <1>1, <1>2, <1>3, <1>4, <1>5, <1>6, <1>7, <1>8, <1>9, <1>10 DEF UpNext

(* What the file has passed does not change while it is under way.         *)
LEMMA RulesKept ==
    ASSUME upFile' = upFile, upSetup' = upSetup
    PROVE  /\ AllowedMime' = AllowedMime /\ AllowedSize' = AllowedSize
           /\ ContentMatches' = ContentMatches /\ ShouldEncrypt' = ShouldEncrypt
           /\ Processed' = Processed
BY DEF AllowedMime, AllowedSize, ContentMatches, ShouldEncrypt, Processed

(* Every step of an upload leaves it where its await says it stands.       *)
LEMMA UpStepProgress == ASSUME UpInv, [UpNext]_upVars PROVE UpProgress'
<1> USE DEF UpInv, UpTypeOK, UpProgress
<1>1. CASE UNCHANGED upVars
  BY <1>1, RulesKept DEF upVars
<1>2. CASE UpReceive
  BY <1>2 DEF UpReceive
<1>3. CASE RefuseByMulter
  BY <1>3 DEF RefuseByMulter
<1>4. CASE StoreRaw
  BY <1>4 DEF StoreRaw
<1>5. CASE Validate
  <2>1. upFile' = upFile /\ upSetup' = upSetup /\ upRaw' = upRaw /\ upStaged' = upStaged
    BY <1>5 DEF Validate
  <2>2. \/ upPc' = "process" /\ upLogged' = 0 /\ upAnswer' = 0
        \/ upPc' = "fail" /\ upLogged' \in 0..1 /\ upAnswer' = 415 /\ (upLogged' > 0 => upSetup.audit)
    BY <1>5 DEF Validate, Log
  <2>3. upPc' = "process" => AllowedMime /\ AllowedSize /\ (ContentMatches \/ upUnread')
    <3>1. PICK read \in BOOLEAN :
             upUnread' = ~read /\ (Valid(read) \/ upPc' = "fail")
      BY <1>5 DEF Validate
    <3>2. Valid(read) => AllowedMime /\ AllowedSize /\ (ContentMatches \/ ~read)
      BY DEF Valid
    <3>3. CASE Valid(read)
      <4>1. AllowedMime /\ AllowedSize /\ (ContentMatches \/ ~read)
        BY <3>2, <3>3, Zenon
      <4>2. upUnread' = ~read
        BY <3>1, Zenon
      <4>3. QED
        BY <4>1, <4>2, Zenon
    <3>4. CASE upPc' = "fail"
      BY <3>4
    <3>5. QED
      BY <3>1, <3>3, <3>4, Zenon
  <2>4. QED
    BY <1>5, <2>1, <2>2, <2>3, RulesKept DEF Validate
<1>6. CASE Process
  BY <1>6, RulesKept DEF Process
<1>7. CASE Save
  BY <1>7, RulesKept DEF Save
<1>8. CASE Finish
  BY <1>8 DEF Finish, RemoveRaw, Log
<1>9. CASE FailUpload
  BY <1>9 DEF FailUpload, RemoveRawOfFailed, RemoveRaw, Log
<1>10. CASE UpCrash
  BY <1>10 DEF UpCrash
<1>11. QED
  BY <1>1, <1>2, <1>3, <1>4, <1>5, <1>6, <1>7, <1>8, <1>9, <1>10 DEF UpNext

(* Whoever answers has tried to remove the raw file, or was Multer.        *)
LEMMA UpStepRaw == ASSUME UpInv, [UpNext]_upVars PROVE RawCollected'
<1> USE DEF UpInv, UpTypeOK, UpProgress, RawCollected
<1>1. CASE UpReceive \/ RefuseByMulter
  <2>1. upPc \in {"idle", "multer"} /\ upRaw' = upRaw
    BY <1>1 DEF UpReceive, RefuseByMulter
  <2>2. QED
    BY <2>1
<1>2. CASE StoreRaw
  BY <1>2 DEF StoreRaw
<1>3. CASE Validate \/ Process \/ Save \/ UpCrash
  BY <1>3 DEF Validate, Process, Save, UpCrash
<1>4. CASE Finish \/ FailUpload
  <2>1. RemoveRaw
    BY <1>4 DEF Finish, FailUpload, RemoveRawOfFailed
  <2>2. ~upRaw' \/ upKept'
    BY <2>1 DEF RemoveRaw
  <2>3. QED
    BY <2>2
<1>5. QED
  BY <1>1, <1>2, <1>3, <1>4 DEF UpNext, upVars

(* Whoever answers has written the entry to say so.                        *)
LEMMA UpStepAudit == ASSUME UpInv, [UpNext]_upVars PROVE AuditAgrees'
<1> USE DEF UpInv, UpTypeOK, UpProgress, AuditAgrees
<1>1. CASE UpReceive \/ RefuseByMulter \/ StoreRaw
  BY <1>1 DEF UpReceive, RefuseByMulter, StoreRaw
<1>2. CASE Validate \/ Process \/ Save \/ UpCrash
  BY <1>2 DEF Validate, Process, Save, UpCrash
<1>3. CASE Finish
  BY <1>3 DEF Finish, Log, Succeeded
<1>4. CASE FailUpload
  BY <1>4 DEF FailUpload, Log, Failed
<1>5. QED
  BY <1>1, <1>2, <1>3, <1>4 DEF UpNext, upVars

(* Only bytes of a file that passed every check are staged.                *)
LEMMA UpStepStaged == ASSUME UpInv, [UpNext]_upVars PROVE StagedAsRuled'
<1> USE DEF UpInv, UpTypeOK, UpProgress
<1>1. CASE UpReceive \/ RefuseByMulter \/ StoreRaw
  BY <1>1 DEF UpReceive, RefuseByMulter, StoreRaw, StagedAsRuled
<1>2. CASE Validate \/ Process \/ UpCrash
  BY <1>2 DEF Validate, Process, UpCrash, StagedAsRuled
<1>3. CASE Save
  <2>1. upStaged' = NoBytes \/ upStaged' = upBytes
    BY <1>3 DEF Save
  <2>2. upBytes.encrypted <=> ShouldEncrypt
    BY <1>3 DEF Save, Encrypted, Processed
  <2>3. Registry[upFile.type].transform => upBytes.format = "webp"
    BY <1>3 DEF Save, Encrypted, Processed
  <2>4. upFile.mime[2] \in {"none", upFile.magic} \/ upUnread
    BY <1>3 DEF Save, ContentMatches
  <2>5. QED
    BY <1>3, <2>1, <2>2, <2>3, <2>4 DEF Save, StagedAsRuled, AllowedMime, AllowedSize, ShouldEncrypt
<1>4. CASE Finish \/ FailUpload
  BY <1>4 DEF Finish, FailUpload, RemoveRawOfFailed, RemoveRaw, StagedAsRuled
<1>5. CASE UNCHANGED upVars
  BY <1>5 DEF upVars, StagedAsRuled
<1>6. QED
  BY <1>1, <1>2, <1>3, <1>4, <1>5 DEF UpNext
----------------------------------------------------------------------------
(* The strengthened invariant of an upload holds in every reachable state. *)
THEOREM UploadInvariance == UpSpec => []UpInv
<1>1. UpInit => UpInv
  BY UpInitInv
<1>2. UpInv /\ [UpNext]_upVars => UpInv'
  BY UpStepTypeOK, UpStepProgress, UpStepRaw, UpStepAudit, UpStepStaged DEF UpInv
<1>3. QED
  BY <1>1, <1>2, PTL DEF UpSpec

(* No answered upload leaves Multer's file, but for an unlink that failed  *)
(* and for a reserved segment.                                             *)
THEOREM RawFilesGo == UpSpec => []RawCollected
BY UploadInvariance, PTL DEF UpInv

(* The audit entry says what the client was told.                          *)
THEOREM AuditIsTrue == UpSpec => []AuditAgrees
BY UploadInvariance, PTL DEF UpInv

(* Nothing is staged against the rules of its type.                        *)
THEOREM OnlyRuledIsStaged == UpSpec => []StagedAsRuled
BY UploadInvariance, PTL DEF UpInv
=============================================================================
