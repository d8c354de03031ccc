--------------------------- MODULE UploadPipeline ---------------------------
(***************************************************************************)
(* One server-mediated upload, POST /upload/:type: Multer's raw file, the  *)
(* validator, the processor, encryption, saveTemp() of the storage         *)
(* provider, the unlink of the raw file and the audit log.                 *)
(*                                                                         *)
(* A MIME type is a pair: the catalogue that lists it and the signature    *)
(* the validator expects at the head of such a file ("none" when it checks *)
(* nothing).  Sizes are in MB.                                             *)
(***************************************************************************)
EXTENDS Naturals

CONSTANTS
    UpSetups,   \* configurations of the process
    UpFiles     \* files clients send

ASSUME UpAssumption ==
    UpSetups \subseteq [local : BOOLEAN, encryption : BOOLEAN, audit : BOOLEAN, cap : Nat]

VARIABLES
    upSetup,    \* provider, encryption and audit switches, Multer's cap
    upFile,     \* the file part of the request, and the :type of its URL
    upPc,       \* the await at which the request stands
    upRaw,      \* Multer's file is on disk
    upBytes,    \* what the processor and the cipher made of it
    upStaged,   \* what lies at the temp key
    upEntry,    \* the audit entry: one object, changed in place
    upLogged,   \* how often that object was pushed to the audit buffer
    upAnswer,   \* HTTP status of the answer; 0 before
    upUnread,   \* history: the validator could not read the file
    upKept      \* history: an unlink failed

upVars == <<upSetup, upFile, upPc, upRaw, upBytes, upStaged, upEntry, upLogged,
            upAnswer, upUnread, upKept>>
----------------------------------------------------------------------------
ImageMimes == {"image"} \X {"jpeg", "png", "webp", "gif", "ftyp", "none"}
VideoMimes == {"video"} \X {"ftyp", "ebml", "ogg", "none"}
AudioMimes == {"audio"} \X {"mp3", "wav", "ogg", "ebml", "flac", "none"}
DocumentMimes == {"document"} \X {"pdf", "zip", "none"}
SpreadsheetMimes == {"spreadsheet"} \X {"zip", "none"}
PresentationMimes == {"presentation"} \X {"zip", "none"}
ArchiveMimes == {"archive"} \X {"zip", "rar", "7z", "gzip", "bzip2", "none"}

\* UPLOAD_FORMATS.all, which Multer's fileFilter lets through.
AllMimes == UNION {ImageMimes, VideoMimes, AudioMimes, DocumentMimes,
                   SpreadsheetMimes, PresentationMimes, ArchiveMimes}

Rule(mimes, cap, transform, encrypted) ==
    [mimes |-> mimes, cap |-> cap, transform |-> transform, encrypted |-> encrypted]

Kyc == Rule({"image"} \X {"jpeg", "png"}, 5, TRUE, TRUE)

Registry ==
    [avatar |-> Rule({"image"} \X {"jpeg", "png", "webp"}, 5, TRUE, FALSE),
     image |-> Rule(ImageMimes, 25, TRUE, FALSE),
     video |-> Rule(VideoMimes, 500, FALSE, FALSE),
     audio |-> Rule(AudioMimes, 50, FALSE, FALSE),
     document |-> Rule(DocumentMimes, 25, FALSE, TRUE),
     spreadsheet |-> Rule(SpreadsheetMimes, 25, FALSE, TRUE),
     presentation |-> Rule(PresentationMimes, 50, FALSE, TRUE),
     archive |-> Rule(ArchiveMimes, 100, FALSE, TRUE),
     aadhar |-> Kyc, identity |-> Kyc, passport |-> Kyc]

UploadTypes == DOMAIN Registry

\* No literal POST route claims "remove"; the others never get to :type.
ReservedSegments == {"remove"}

NoBytes == [format |-> "none", encrypted |-> FALSE]
NoSetup == [local |-> FALSE, encryption |-> FALSE, audit |-> FALSE, cap |-> 0]
NoFile == [type |-> "none", mime |-> <<"none", "none">>, magic |-> "none",
           ext |-> "none", size |-> 0]
NewEntry == [operation |-> "start", status |-> "pending"]

UpTypeOK ==
    /\ upSetup \in [local : BOOLEAN, encryption : BOOLEAN, audit : BOOLEAN, cap : Nat]
    /\ upFile = NoFile \/ upFile \in UpFiles
    /\ upPc \in {"idle", "multer", "validate", "process", "save", "unlink", "fail",
                 "answered", "lost"}
    /\ upRaw \in BOOLEAN
    /\ upBytes \in [format : {"none", "webp", "original"}, encrypted : BOOLEAN]
    /\ upStaged \in [format : {"none", "webp", "original"}, encrypted : BOOLEAN]
    /\ upEntry \in [operation : {"start", "complete", "failed"},
                    status : {"pending", "success", "failure"}]
    /\ upLogged \in 0..2
    /\ upAnswer \in {0, 201, 400, 413, 415, 500}
    /\ upUnread \in BOOLEAN
    /\ upKept \in BOOLEAN

UpInit ==
    /\ upSetup = NoSetup
    /\ upFile = NoFile
    /\ upPc = "idle"
    /\ upRaw = FALSE
    /\ upBytes = NoBytes
    /\ upStaged = NoBytes
    /\ upEntry = NewEntry
    /\ upLogged = 0
    /\ upAnswer = 0
    /\ upUnread = FALSE
    /\ upKept = FALSE
----------------------------------------------------------------------------
AllowedMime == upFile.type \in UploadTypes /\ upFile.mime \in Registry[upFile.type].mimes

\* Mutant: only the global cap is enforced.
AnySize == TRUE

\* getMaxFileSize(); of an unknown type the MIME type is refused already.
AllowedSize == upFile.type \in UploadTypes => upFile.size <= Registry[upFile.type].cap

\* validateContent(): at least four bytes, and the signature of the MIME type.
ContentMatches ==
    /\ upFile.magic # "short"
    /\ upFile.mime[2] # "none" => upFile.magic = upFile.mime[2]

\* validate(), where the content is checked if it could be read.
Valid(read) == AllowedMime /\ AllowedSize /\ (read => ContentMatches)

ShouldEncrypt == Registry[upFile.type].encrypted /\ upSetup.encryption

\* encryptBuffer().
Encrypted(bytes) == [bytes EXCEPT !.encrypted = TRUE]

\* process(): every type that is transformed becomes WebP.
Processed ==
    [format |-> IF Registry[upFile.type].transform THEN "webp" ELSE "original",
     encrypted |-> FALSE]

\* The format that process() reports: the extension of the original name stays,
\* and where there is none one is found for the MIME type.
StagedExtension ==
    IF Registry[upFile.type].transform THEN "webp"
    ELSE IF upFile.ext # "none" THEN upFile.ext ELSE "by MIME type"

\* Multer and LocalStorageProvider write to one directory, both under Multer's
\* UUID, Multer with the extension of the original name.
SameFile == upSetup.local /\ upFile.type \in UploadTypes /\ StagedExtension = upFile.ext

\* Mutant: the entry is pushed for the memory buffer and again for the database.
LogTwice(entry) ==
    /\ upEntry' = entry
    /\ upLogged' = IF upSetup.audit THEN upLogged + 2 ELSE upLogged

\* auditLogger.log(): pushes the entry itself, not a copy.
Log(entry) ==
    /\ upEntry' = entry
    /\ upLogged' = IF upSetup.audit THEN upLogged + 1 ELSE upLogged

Succeeded == [operation |-> "complete", status |-> "success"]

\* Mutant: the catch block renames the operation and leaves the status.
FailedNoStatus == [operation |-> "failed", status |-> upEntry.status]

Failed == [operation |-> "failed", status |-> "failure"]

\* safeRemoveRawFile(): an error is only logged.
RemoveRaw ==
    \/ /\ upRaw' = FALSE
       /\ upStaged' = IF SameFile THEN NoBytes ELSE upStaged
       /\ UNCHANGED upKept
    \/ /\ upKept' = TRUE
       /\ UNCHANGED <<upRaw, upStaged>>

\* Mutant: the unlink stands at the end of the try block only.
KeepRaw == UNCHANGED <<upRaw, upStaged, upKept>>

RemoveRawOfFailed == RemoveRaw
----------------------------------------------------------------------------
UpReceive ==
    /\ upPc = "idle"
    /\ upSetup' \in UpSetups
    /\ upFile' \in UpFiles
    /\ upPc' = "multer"
    /\ UNCHANGED <<upRaw, upBytes, upStaged, upEntry, upLogged, upAnswer, upUnread, upKept>>

\* Multer refuses a MIME type it does not know before it writes anything, and
\* removes what it wrote of a file over its cap.
RefuseByMulter ==
    /\ upPc = "multer"
    /\ \/ upFile.mime \notin AllMimes /\ upAnswer' = 415
       \/ upFile.mime \in AllMimes /\ upFile.size > upSetup.cap /\ upAnswer' = 413
    /\ upPc' = "answered"
    /\ UNCHANGED <<upSetup, upFile, upRaw, upBytes, upStaged, upEntry, upLogged, upUnread, upKept>>

\* The handler refuses a reserved segment after Multer has stored the file.
StoreRaw ==
    /\ upPc = "multer"
    /\ upFile.mime \in AllMimes /\ upFile.size <= upSetup.cap
    /\ upRaw' = TRUE
    /\ IF upFile.type \in ReservedSegments
         THEN upPc' = "answered" /\ upAnswer' = 400
         ELSE upPc' = "validate" /\ UNCHANGED upAnswer
    /\ UNCHANGED <<upSetup, upFile, upBytes, upStaged, upEntry, upLogged, upUnread, upKept>>

\* A refusal is logged here, and again by the catch block it is thrown to.
Validate ==
    /\ upPc = "validate"
    /\ \E read \in BOOLEAN :
         /\ upUnread' = ~read
         /\ IF Valid(read)
              THEN upPc' = "process" /\ UNCHANGED <<upEntry, upLogged, upAnswer>>
              ELSE /\ upPc' = "fail"
                   /\ upAnswer' = 415
                   /\ Log([upEntry EXCEPT !.status = "failure"])
    /\ UNCHANGED <<upSetup, upFile, upRaw, upBytes, upStaged, upKept>>

\* readFile(), process() and encryptBuffer(), any of which may throw.
Process ==
    /\ upPc = "process"
    /\ \/ /\ upPc' = "save"
          /\ upBytes' = IF ShouldEncrypt THEN Encrypted(Processed) ELSE Processed
          /\ UNCHANGED upAnswer
       \/ upPc' = "fail" /\ upAnswer' = 500 /\ UNCHANGED upBytes
    /\ UNCHANGED <<upSetup, upFile, upRaw, upStaged, upEntry, upLogged, upUnread, upKept>>

\* A saveTemp() that throws may have stored the file.
Save ==
    /\ upPc = "save"
    /\ \/ upPc' = "unlink" /\ upStaged' = upBytes /\ UNCHANGED upAnswer
       \/ upPc' = "fail" /\ upStaged' \in {upStaged, upBytes} /\ upAnswer' = 500
    /\ UNCHANGED <<upSetup, upFile, upRaw, upBytes, upEntry, upLogged, upUnread, upKept>>

Finish ==
    /\ upPc = "unlink"
    /\ RemoveRaw
    /\ Log(Succeeded)
    /\ upPc' = "answered"
    /\ upAnswer' = 201
    /\ UNCHANGED <<upSetup, upFile, upBytes, upUnread>>

\* The catch block; the error it rethrows was decided where it was thrown.
FailUpload ==
    /\ upPc = "fail"
    /\ RemoveRawOfFailed
    /\ Log(Failed)
    /\ upPc' = "answered"
    /\ UNCHANGED <<upSetup, upFile, upBytes, upAnswer, upUnread>>

UpCrash ==
    /\ upPc \notin {"idle", "answered", "lost"}
    /\ upPc' = "lost"
    /\ UNCHANGED <<upSetup, upFile, upRaw, upBytes, upStaged, upEntry, upLogged,
                   upAnswer, upUnread, upKept>>

UpNext ==
    \/ UpReceive \/ RefuseByMulter \/ StoreRaw \/ Validate \/ Process
    \/ Save \/ Finish \/ FailUpload \/ UpCrash

UpSpec == UpInit /\ [][UpNext]_upVars
----------------------------------------------------------------------------
\* The raw file of an answered upload is gone, whatever refused or failed it:
\* but for an unlink that failed, and for a reserved segment, which is refused
\* outside the try block.
RawCollected ==
    upPc = "answered" /\ upRaw => upKept \/ upFile.type \in ReservedSegments

\* The audit entry of an answered upload that got past Multer and the handler,
\* written in up to four places, ends up saying what the client was told.
AuditAgrees ==
    upPc = "answered" /\ upAnswer # 413 /\ upFile.mime \in AllMimes
      /\ upFile.type \notin ReservedSegments =>
        /\ upEntry.operation = IF upAnswer = 201 THEN "complete" ELSE "failed"
        /\ upEntry.status = IF upAnswer = 201 THEN "success" ELSE "failure"
        /\ upLogged > 0 <=> upSetup.audit

\* Whatever lies at a temp key, also after a failure or a crash, obeys the rules
\* of its type and both size caps and is encrypted as the type and the switch
\* demand; its signature was checked, unless the validator could not read it.
StagedAsRuled ==
    upStaged # NoBytes =>
        /\ upFile.type \in UploadTypes
        /\ LET rule == Registry[upFile.type]
           IN  /\ upFile.mime \in rule.mimes
               /\ upFile.size <= rule.cap /\ upFile.size <= upSetup.cap
               /\ upFile.mime[2] \in {"none", upFile.magic} \/ upUnread
               /\ upStaged.encrypted <=> rule.encrypted /\ upSetup.encryption
               /\ rule.transform => upStaged.format = "webp"

\* Inductive: what has happened by each await, and what the file has passed.
UpProgress ==
    /\ upPc \in {"idle", "multer"} => ~upRaw
    /\ upPc \in {"idle", "multer", "validate", "process", "save"} => upStaged = NoBytes
    /\ upPc \in {"idle", "multer", "validate", "process", "save", "unlink"} =>
         upLogged = 0 /\ upAnswer = 0
    /\ upPc = "fail" => upLogged <= 1 /\ upAnswer \in {415, 500}
    /\ upLogged > 0 => upSetup.audit
    /\ upPc \in {"validate", "process", "save", "unlink", "fail"} =>
         upFile.type \notin ReservedSegments /\ upFile.mime \in AllMimes /\ upFile.size <= upSetup.cap
    /\ upPc \in {"process", "save", "unlink"} =>
         AllowedMime /\ AllowedSize /\ (ContentMatches \/ upUnread)
    /\ upPc \in {"save", "unlink"} =>
         upBytes = IF ShouldEncrypt THEN Encrypted(Processed) ELSE Processed

UpInv == UpTypeOK /\ UpProgress /\ RawCollected /\ AuditAgrees /\ StagedAsRuled
============================================================================
