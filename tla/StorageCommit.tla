--------------------------- MODULE StorageCommit ---------------------------
(***************************************************************************)
(* Upload, commit, remove and temp cleanup of one file on the configured   *)
(* storage provider.  Every call to the storage service is an action of    *)
(* its own, local disk calls are interleaved as those of two processes of  *)
(* the PM2 cluster are.                                                    *)
(*                                                                         *)
(* server mode: one multipart upload stages the file.  presigned mode: the *)
(* client PUTs to a temp key while its URL is valid; each PUT is a new     *)
(* version.  The name holds a UUID, so that the file is only ever in temp  *)
(* and in the folders of the types it was committed to.                    *)
(*                                                                         *)
(* An identifier with a slash is used as it is, and nothing asks whether   *)
(* it lies in temp: a commit may take a published file to the folder of    *)
(* another type, a remove may drop the staged one.  R2 is S3 with another  *)
(* endpoint.                                                               *)
(***************************************************************************)
EXTENDS Naturals

CONSTANTS
    Calls,       \* the commit, remove and cleanup calls of a run
    Types,       \* registered upload types: their permanent folders
    UploadType,  \* the one the file was uploaded under
    Temp,        \* the file's temp key
    Nowhere,     \* where a name leads that denotes no place of the file
    Keys,        \* the places that clients name by a full key or URL
    Setups,      \* provider, mode and whether processing keeps the extension
    MaxPuts      \* bound on the PUTs of a presigned URL

Providers == {"s3", "imagekit", "cloudinary", "local"}

Places == {Temp} \cup Types

ASSUME PlacesAssumption ==
    /\ UploadType \in Types
    /\ Temp \notin Types
    /\ Nowhere \notin Places
    /\ Keys \subseteq Places
ASSUME SetupsAssumption ==
    Setups \subseteq [provider : Providers, mode : {"server", "presigned"},
                      sameExt : BOOLEAN]
ASSUME PutsAssumption == MaxPuts \in Nat

VARIABLES
    setup,      \* chosen at the start
    files,      \* the version at each place, 0 when there is none
    puts,       \* how many versions were staged
    aged,       \* UPLOAD_TEMP_RETENTION_HOURS (24) passed; the URL had 3600 s
    upload,     \* where the multipart upload stands
    pc,         \* where each call stands
    job,        \* what each call does
    buffer,     \* the version an ImageKit commit has fetched
    answer,     \* what its client was answered
    copied,     \* history: the version each commit published
    removed,    \* history: the removes that deleted a file
    swept,      \* history: the cleanups that deleted the temp file
    kept,       \* history: the ImageKit commits that left their source behind
    prior       \* history: the calls answered before it arrived

vars == <<setup, files, puts, aged, upload, pc, job, buffer, answer, copied,
          removed, swept, kept, prior>>
\* What a step of one call leaves alone but for what it writes.
fixed == <<setup, puts, aged, upload, job, prior>>

PCs == {"idle", "load", "copy", "delete", "fetch", "reupload", "discard", "rename",
        "unlink", "sweep", "reply", "done", "lost"}

\* Where a flat filename leads that a commit for type t gives: local looks in
\* temp itself, the others in the temp folder of t.  A presigned key of S3 and
\* of the local disk lies deeper, below the user's id.
FlatName(t) ==
    IF /\ setup.provider \in {"s3", "local"} => setup.mode = "server"
       /\ setup.provider = "local" \/ t = UploadType
    THEN Temp ELSE Nowhere

\* What a call can be about.  A commit is for a registered type.
Jobs ==
    {j \in [op : {"commit", "remove", "clean"}, key : Places \cup {Nowhere}, type : Types] :
        \/ j.op = "commit" /\ j.key \in Keys \cup {FlatName(j.type)}
        \/ j.op = "remove" /\ j.key \in Keys /\ j.type = UploadType
        \/ j.op = "clean" /\ j.key = Temp /\ j.type = UploadType}

TypeOK ==
    /\ setup \in Setups
    /\ puts \in Nat
    /\ files \in [Places -> 0 .. puts]
    /\ aged \in BOOLEAN
    /\ upload \in {"idle", "raw", "done", "lost"}
    /\ pc \in [Calls -> PCs]
    /\ job \in [Calls -> Jobs]
    /\ buffer \in [Calls -> 0 .. puts]
    /\ answer \in [Calls -> {"none", "ok", "notFound", "error"}]
    /\ copied \in [Calls -> 0 .. puts]
    /\ removed \subseteq Calls /\ swept \subseteq Calls /\ kept \subseteq Calls
    /\ prior \in [Calls -> SUBSET Calls]

Init ==
    /\ setup \in Setups
    /\ files = [p \in Places |-> 0]
    /\ puts = 0
    /\ aged = FALSE
    /\ upload = "idle"
    /\ pc = [c \in Calls |-> "idle"]
    /\ job \in [Calls -> Jobs]
    /\ buffer = [c \in Calls |-> 0]
    /\ answer = [c \in Calls |-> "none"]
    /\ copied = [c \in Calls |-> 0]
    /\ removed = {} /\ swept = {} /\ kept = {}
    /\ prior = [c \in Calls |-> {}]
----------------------------------------------------------------------------
Goto(c, label) == pc' = [pc EXCEPT ![c] = label]
Reply(c, a) == Goto(c, "done") /\ answer' = [answer EXCEPT ![c] = a]
On(provider) == setup.provider = provider
At(c, op, label) == job[c].op = op /\ pc[c] = label

\* The raw file Multer wrote to temp/ and the processed file have one name.
Clash == On("local") /\ setup.mode = "server" /\ setup.sameExt

\* Mutant: a temp key is looked for in the folder of the commit's type.
FoundInFolder(c) ==
    /\ job[c].key # Nowhere /\ files[job[c].key] # 0
    /\ job[c].key = Temp => job[c].type = UploadType \/ On("local")

Found(c) == job[c].key # Nowhere /\ files[job[c].key] # 0

Erase(p) == files' = [files EXCEPT ![p] = 0]

\* Mutant: a version that is not staged yet is published.
PublishNext(c, v) ==
    /\ files' = [files EXCEPT ![job[c].type] = v + 1]
    /\ copied' = [copied EXCEPT ![c] = v]

Publish(c, v) ==
    /\ files' = [files EXCEPT ![job[c].type] = v]
    /\ copied' = [copied EXCEPT ![c] = v]

\* A file renamed onto itself stays.
Move(c) ==
    /\ files' = [files EXCEPT ![job[c].key] = 0, ![job[c].type] = files[job[c].key]]
    /\ copied' = [copied EXCEPT ![c] = files[job[c].key]]
----------------------------------------------------------------------------
\* processFile: the raw file is on the local disk already; saveTemp stages the
\* processed one.
SaveTemp ==
    /\ setup.mode = "server" /\ upload = "idle" /\ ~aged
    /\ upload' = "raw"
    /\ puts' = 1
    /\ files' = [files EXCEPT ![Temp] = 1]
    /\ UNCHANGED <<setup, aged, pc, job, buffer, answer, copied, removed, swept,
                   kept, prior>>

\* safeRemoveRawFile, audit and the 201 answer.
RemoveRaw ==
    /\ upload = "raw"
    /\ upload' = "done"
    /\ IF Clash THEN Erase(Temp) ELSE UNCHANGED files
    /\ UNCHANGED <<setup, puts, aged, pc, job, buffer, answer, copied, removed, swept,
                   kept, prior>>

CrashUpload ==
    /\ upload = "raw"
    /\ upload' = "lost"
    /\ UNCHANGED <<setup, files, puts, aged, pc, job, buffer, answer, copied, removed,
                   swept, kept, prior>>

\* The client PUTs, again if it likes, to the presigned URL.
Put ==
    /\ setup.mode = "presigned" /\ puts < MaxPuts /\ ~aged
    /\ puts' = puts + 1
    /\ files' = [files EXCEPT ![Temp] = puts + 1]
    /\ UNCHANGED <<setup, aged, upload, pc, job, buffer, answer, copied, removed, swept,
                   kept, prior>>

Age ==
    /\ ~aged /\ puts > 0 /\ upload # "raw"
    /\ aged' = TRUE
    /\ UNCHANGED <<setup, files, puts, upload, pc, job, buffer, answer, copied, removed,
                   swept, kept, prior>>

\* The name is known to the client after the upload's answer, or from the
\* presigned URL; a commit before any PUT would be a plain 404.
Arrive(c) ==
    /\ pc[c] = "idle"
    /\ job[c].op # "clean" => puts > 0 /\ upload \in {"idle", "done"}
    /\ Goto(c, "load")
    /\ prior' = [prior EXCEPT ![c] = {d \in Calls : pc[d] = "done"}]
    /\ UNCHANGED <<setup, files, puts, aged, upload, job, buffer, answer, copied,
                   removed, swept, kept>>
----------------------------------------------------------------------------
\* commitToPermanent: HeadObject, listFiles or existsSync.
FindSource(c) ==
    /\ At(c, "commit", "load") /\ ~On("cloudinary")
    /\ \/ /\ Found(c)
          /\ \/ On("s3") /\ Goto(c, "copy")
             \/ On("imagekit") /\ Goto(c, "fetch")
             \/ On("local") /\ Goto(c, "rename")
          /\ UNCHANGED answer
       \/ ~Found(c) /\ Reply(c, "notFound")
       \/ Reply(c, "error")
    /\ UNCHANGED <<fixed, files, buffer, copied, removed, swept, kept>>

\* CopyObject copies what is at the key now; NoSuchKey, and with S3 a copy of
\* an object onto itself, ends in a 500.
CopyS3(c) ==
    /\ At(c, "commit", "copy")
    /\ \/ Found(c) /\ Publish(c, files[job[c].key]) /\ Goto(c, "delete") /\ UNCHANGED answer
       \/ Reply(c, "error") /\ UNCHANGED <<files, copied>>
    /\ UNCHANGED <<fixed, buffer, removed, swept, kept>>

\* DeleteObject of the key, whatever is there, the copy itself where the store
\* took a copy onto itself; a failure ends in a 500 with both copies in place.
DeleteS3(c) ==
    /\ At(c, "commit", "delete")
    /\ \/ Erase(job[c].key) /\ Goto(c, "reply") /\ UNCHANGED answer
       \/ Reply(c, "error") /\ UNCHANGED files
    /\ UNCHANGED <<fixed, buffer, copied, removed, swept, kept>>

FetchImageKit(c) ==
    /\ At(c, "commit", "fetch")
    /\ \/ /\ Found(c)
          /\ buffer' = [buffer EXCEPT ![c] = files[job[c].key]]
          /\ Goto(c, "reupload")
          /\ UNCHANGED answer
       \/ Reply(c, "error") /\ UNCHANGED buffer
    /\ UNCHANGED <<fixed, files, copied, removed, swept, kept>>

ReuploadImageKit(c) ==
    /\ At(c, "commit", "reupload")
    /\ \/ Publish(c, buffer[c]) /\ Goto(c, "discard") /\ UNCHANGED answer
       \/ Reply(c, "error") /\ UNCHANGED <<files, copied>>
    /\ UNCHANGED <<fixed, buffer, removed, swept, kept>>

\* deleteFile by the id of the source file, which an overwrite keeps: a file
\* committed onto itself is deleted.  A failure is logged only.
DiscardImageKit(c) ==
    /\ At(c, "commit", "discard")
    /\ \/ Erase(job[c].key) /\ UNCHANGED kept
       \/ kept' = kept \cup {c} /\ UNCHANGED files
    /\ Goto(c, "reply")
    /\ UNCHANGED <<fixed, buffer, answer, copied, removed, swept>>

\* Mutants: the file is copied and stays in temp/; an existing one is kept.
CopyLocal(c) ==
    /\ At(c, "commit", "rename")
    /\ Found(c) /\ Publish(c, files[job[c].key]) /\ Goto(c, "reply")
    /\ UNCHANGED <<fixed, buffer, answer, removed, swept, kept>>
RenameUnlessThere(c) ==
    /\ At(c, "commit", "load") /\ On("cloudinary") /\ Found(c)
    /\ files' = [files EXCEPT ![job[c].key] = 0,
                              ![job[c].type] = IF @ = 0 THEN files[job[c].key] ELSE @]
    /\ copied' = [copied EXCEPT ![c] = files[job[c].key]]
    /\ Goto(c, "reply")
    /\ UNCHANGED <<fixed, buffer, answer, removed, swept, kept>>

\* renameSync; ENOENT when another process was faster ends in a 500.
RenameLocal(c) ==
    /\ At(c, "commit", "rename")
    /\ \/ Found(c) /\ Move(c) /\ Goto(c, "reply") /\ UNCHANGED answer
       \/ Reply(c, "error") /\ UNCHANGED <<files, copied>>
    /\ UNCHANGED <<fixed, buffer, removed, swept, kept>>

\* One call to Cloudinary, with overwrite.
RenameCloudinary(c) ==
    /\ At(c, "commit", "load") /\ On("cloudinary")
    /\ \/ Found(c) /\ Move(c) /\ Goto(c, "reply") /\ UNCHANGED answer
       \/ ~Found(c) /\ Reply(c, "notFound") /\ UNCHANGED <<files, copied>>
       \/ Reply(c, "error") /\ UNCHANGED <<files, copied>>
    /\ UNCHANGED <<fixed, buffer, removed, swept, kept>>
----------------------------------------------------------------------------
\* delete(): the existence check.  Any failure makes it answer a 404.
FindTarget(c) ==
    /\ At(c, "remove", "load") /\ ~On("cloudinary")
    /\ \/ Found(c) /\ Goto(c, "unlink") /\ UNCHANGED answer
       \/ Reply(c, "notFound")
    /\ UNCHANGED <<fixed, files, buffer, copied, removed, swept, kept>>

Delete(c) ==
    /\ Erase(job[c].key)
    /\ removed' = removed \cup {c}
    /\ Goto(c, "reply")

\* Mutant: another key is deleted.
UnlinkOther(c) ==
    /\ At(c, "remove", "unlink")
    /\ removed' = removed \cup {c}
    /\ Goto(c, "reply")
    /\ UNCHANGED <<fixed, files, buffer, answer, copied, swept, kept>>

\* S3 deletes what is not there as well; unlink and deleteFile fail then.
Unlink(c) ==
    /\ At(c, "remove", "unlink")
    /\ \/ (On("s3") \/ Found(c)) /\ Delete(c) /\ UNCHANGED answer
       \/ Reply(c, "notFound") /\ UNCHANGED <<files, removed>>
    /\ UNCHANGED <<fixed, buffer, copied, swept, kept>>

DestroyCloudinary(c) ==
    /\ At(c, "remove", "load") /\ On("cloudinary")
    /\ \/ Found(c) /\ Delete(c) /\ UNCHANGED answer
       \/ Reply(c, "notFound") /\ UNCHANGED <<files, removed>>
    /\ UNCHANGED <<fixed, buffer, copied, swept, kept>>
----------------------------------------------------------------------------
\* Mutant: no comparison with the cutoff.
ListAll(c) ==
    /\ At(c, "clean", "load")
    /\ \/ Found(c) /\ Goto(c, "sweep") /\ UNCHANGED answer
       \/ Reply(c, "ok")
    /\ UNCHANGED <<fixed, files, buffer, copied, removed, swept, kept>>

\* cleanupTemp: the listing.  A failure is logged, the call returns a count.
ListStale(c) ==
    /\ At(c, "clean", "load")
    /\ \/ Found(c) /\ aged /\ Goto(c, "sweep") /\ UNCHANGED answer
       \/ Reply(c, "ok")
    /\ UNCHANGED <<fixed, files, buffer, copied, removed, swept, kept>>

\* Mutant: the listing is not limited to temp/.
SweepAll(c) ==
    /\ At(c, "clean", "sweep")
    /\ files' = [p \in Places |-> 0]
    /\ swept' = swept \cup {c}
    /\ Reply(c, "ok")
    /\ UNCHANGED <<fixed, buffer, copied, removed, kept>>

Sweep(c) ==
    /\ At(c, "clean", "sweep")
    /\ \/ Erase(Temp) /\ swept' = swept \cup {c}
       \/ UNCHANGED <<files, swept>>
    /\ Reply(c, "ok")
    /\ UNCHANGED <<fixed, buffer, copied, removed, kept>>

Answer(c) ==
    /\ pc[c] = "reply"
    /\ Reply(c, "ok")
    /\ UNCHANGED <<fixed, files, buffer, copied, removed, swept, kept>>

\* The instance serving a commit dies between the copy and the deletion.  One
\* that dies at any other await is a call that never goes on: nothing is fair.
Crash(c) ==
    /\ pc[c] \in {"delete", "discard"}
    /\ Goto(c, "lost")
    /\ UNCHANGED <<fixed, files, buffer, answer, copied, removed, swept, kept>>

Next ==
    \/ SaveTemp \/ RemoveRaw \/ CrashUpload \/ Put \/ Age
    \/ \E c \in Calls :
         \/ Arrive(c) \/ FindSource(c) \/ CopyS3(c) \/ DeleteS3(c) \/ FetchImageKit(c)
         \/ ReuploadImageKit(c) \/ DiscardImageKit(c) \/ RenameLocal(c)
         \/ RenameCloudinary(c) \/ FindTarget(c) \/ Unlink(c) \/ DestroyCloudinary(c)
         \/ ListStale(c) \/ Sweep(c) \/ Answer(c) \/ Crash(c)

Spec == Init /\ [][Next]_vars
----------------------------------------------------------------------------
Renames == setup.provider \in {"local", "cloudinary"}

\* A call that took the file from p, or may still: a remove, or a commit that
\* named p as what to commit.
Takes(d, p) == job[d].key = p /\ (d \in removed \/ copied[d] # 0)

(***************************************************************************)
(* A file that a commit published, even one that failed or died after it,  *)
(* stays until a remove, or a commit that named the published file itself  *)
(* as what to commit; and that was not answered before the first arrived.  *)
(***************************************************************************)
PublishedStays ==
    \A c \in Calls : copied[c] # 0 =>
        \/ files[job[c].type] # 0
        \/ \E d \in Calls : Takes(d, job[c].type) /\ d \notin prior[c]

(***************************************************************************)
(* A commit of the staged file never replaces a published version by an    *)
(* older one, but for an ImageKit commit that fetched the older one before *)
(* the newer was published: it had arrived before the newer commit was     *)
(* answered.  Only a commit of a published file can put back an older one. *)
(***************************************************************************)
NeverOlder ==
    \A c \in Calls :
        LET v == files[job[c].type] IN
        v # 0 /\ v < copied[c] =>
            \E d \in Calls :
                /\ job[d].type = job[c].type /\ copied[d] = v
                /\ job[d].key = Temp => On("imagekit") /\ c \notin prior[d]

(***************************************************************************)
(* Where a commit renames, no version is ever in two places.  A staged     *)
(* version is published twice only on providers that copy, and then only   *)
(* by commits that overlapped, or after one that failed or that could not  *)
(* delete the temp file.                                                   *)
(***************************************************************************)
CommitOnce ==
    /\ Renames => \A p, q \in Places : p # q /\ files[p] # 0 => files[p] # files[q]
    /\ \A c, d \in Calls :
        /\ c # d /\ copied[c] # 0 /\ copied[c] = copied[d]
        /\ job[c].key = Temp /\ job[d].key = Temp
        => /\ ~Renames
           /\ c \in prior[d] /\ answer[c] = "ok" => c \in kept

(***************************************************************************)
(* What a 404 means to the client that committed: it gave a flat name that *)
(* leads nowhere; or the staged file was taken, by another commit, by a    *)
(* remove or by a cleanup; or it named a folder that the file was not yet  *)
(* committed to, or has been taken from since.                             *)
(***************************************************************************)
MissExplained ==
    \A c \in Calls :
        job[c].op = "commit" /\ answer[c] = "notFound" =>
            LET p == job[c].key IN
            \/ p = Nowhere
            \/ p = Temp /\ (Clash \/ swept # {} \/ \E d \in Calls : Takes(d, p))
            \/ /\ p \in Types
               /\ \A b \in prior[c] : job[b].type = p /\ copied[b] # 0 =>
                    \E d \in Calls : Takes(d, p) /\ d \notin prior[b]

(***************************************************************************)
(* After a remove deleted a published file it comes back only by a commit  *)
(* that was not answered when the remove arrived; the staged file of a     *)
(* multipart upload does not come back.                                    *)
(***************************************************************************)
RemoveSticks ==
    \A d \in removed :
        \/ files[job[d].key] = 0
        \/ job[d].key = Temp /\ setup.mode = "presigned"
        \/ \E c \in Calls : /\ job[c].type = job[d].key /\ copied[c] # 0
                            /\ c \notin prior[d]

(***************************************************************************)
(* The providers implement StagedFile.  A file counts as staged from the   *)
(* upload's answer on.  The whole promise is kept where commits rename,    *)
(* and on S3 for files that cannot be overwritten while they are committed.*)
(***************************************************************************)
Shown == upload # "raw" /\ ~Clash

\* The places that removes have named, and commits of published files.
Asked == {job[c].key : c \in {d \in Calls :
             /\ pc[d] # "idle" /\ job[d].key \in Places
             /\ job[d].op = "remove" \/ (job[d].op = "commit" /\ job[d].key # Temp)}}

Staged == INSTANCE StagedFile WITH
    at <- IF Shown THEN files ELSE [p \in Places |-> 0],
    newest <- IF Shown THEN puts ELSE 0,
    landed <- {copied[c] : c \in Calls} \ {0},
    asked <- Asked,
    expired <- aged,
    exact <- Renames \/ (On("s3") /\ setup.mode = "server")

Refines == Staged!Spec

(***************************************************************************)
(* modules/upload/docs/API.md:43: after a successful upload the file can   *)
(* be committed: it is staged until a commit, a remove or a cleanup takes  *)
(* it.                                                                     *)
(***************************************************************************)
UploadStays ==
    upload = "done" =>
        files[Temp] # 0 \/ swept # {} \/ \E c \in Calls : Takes(c, Temp)
----------------------------------------------------------------------------
(* The strengthening that makes these properties inductive.                *)

\* How far a call with a given label has come, and who can be there.
Labels ==
    \A c \in Calls :
        /\ answer[c] # "none" => pc[c] = "done"
        /\ pc[c] \in {"copy", "delete"} => job[c].op = "commit" /\ On("s3")
        /\ pc[c] \in {"fetch", "reupload", "discard"} =>
             job[c].op = "commit" /\ On("imagekit")
        /\ pc[c] = "rename" => job[c].op = "commit" /\ On("local")
        /\ pc[c] = "unlink" => job[c].op = "remove"
        /\ pc[c] = "sweep" => job[c].op = "clean" /\ aged
        /\ pc[c] = "reply" => job[c].op # "clean"
        /\ pc[c] # "idle" /\ job[c].op # "clean" => puts > 0 /\ upload \in {"idle", "done"}

\* What has been done by then.
Deeds ==
    \A c \in Calls :
        /\ pc[c] = "reupload" => buffer[c] # 0 /\ job[c].key # Nowhere
        /\ copied[c] # 0 => /\ job[c].op = "commit" /\ job[c].key # Nowhere /\ ~Clash
                            /\ pc[c] \in {"delete", "discard", "reply", "done", "lost"}
                            /\ answer[c] # "notFound"
        /\ pc[c] \in {"delete", "discard"} => copied[c] # 0
        /\ pc[c] = "reply" /\ job[c].op = "commit" => copied[c] # 0
        /\ c \in removed => job[c].op = "remove" /\ pc[c] \in {"reply", "done"}
        /\ pc[c] = "idle" => prior[c] = {}
        /\ \A d \in prior[c] : pc[d] = "done"

\* What is staged is the last version; how it got there and where it went.
Staging ==
    /\ files[Temp] \in {0, puts}
    /\ setup.mode = "server" => puts = (IF upload = "idle" THEN 0 ELSE 1)
    /\ setup.mode = "presigned" => upload = "idle"
    /\ upload = "raw" => ~aged
    /\ aged => puts > 0
    /\ swept # {} => aged
    /\ Clash /\ upload = "done" => files[Temp] = 0
    /\ puts > 0 =>
         files[Temp] # 0 \/ Clash \/ swept # {} \/ \E d \in Calls : Takes(d, Temp)

\* Who published what is in a permanent folder.
Origins ==
    \A t \in Types : files[t] # 0 =>
        \E d \in Calls : job[d].type = t /\ copied[d] = files[t]

\* A staged version that was committed and dropped is not staged, nor fetched
\* later; the staged version is as new as any that a commit had published.
Taken ==
    \A c \in Calls : copied[c] # 0 =>
        /\ job[c].key = Temp =>
             /\ Renames => files[Temp] # copied[c]
             /\ pc[c] = "reply" \/ answer[c] = "ok" => c \in kept \/ files[Temp] # copied[c]
        /\ \A d \in Calls : pc[d] = "reupload" /\ job[d].key = Temp /\ c \in prior[d] =>
             /\ copied[c] <= buffer[d]
             /\ job[c].key = Temp /\ answer[c] = "ok" /\ copied[c] = buffer[d] => c \in kept

IInv ==
    /\ TypeOK /\ Labels /\ Deeds /\ Staging /\ Origins /\ Taken
    /\ PublishedStays /\ NeverOlder /\ CommitOnce /\ MissExplained /\ RemoveSticks
=============================================================================
