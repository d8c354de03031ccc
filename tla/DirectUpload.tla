---------------------------- MODULE DirectUpload ----------------------------
(***************************************************************************)
(* The presigned flow of one object key: a descriptor is issued, the       *)
(* client sends the bytes to the URL, the server confirms them by a        *)
(* head(), and a download URL is issued for the same key.  On the local    *)
(* provider the URL leads back to this server, though not to the path that *)
(* its router serves; there an HMAC is verified and the body drained.  S3  *)
(* (and R2), Cloudinary and ImageKit are external.                         *)
(*                                                                         *)
(* A signature is modelled by the fields it covers.  Time is in seconds,   *)
(* sizes are in KB; 0 stands for a size that is not given.                 *)
(***************************************************************************)
EXTENDS Naturals

CONSTANTS
    DirSetups,  \* configurations of the process
    DirAsks,    \* bodies of POST /upload/presigned-url
    DirSizes,   \* sizes of bodies, and sizes clients claim
    DirTypes,   \* Content-Type values
    Expiry,     \* presignedUrlExpiry
    MaxClock,   \* bound on the clock
    MaxPuts     \* bound on the uploads of one run

VARIABLES
    dirSetup,   \* provider, the presigned switch, unique names of ImageKit
    dirAsk,     \* what the client asked a URL for
    dirUrl,     \* the upload descriptor, with what its signature covers
    dirGet,     \* the download descriptor
    dirClock,   \* Date.now() / 1000
    dirPut,     \* the upload under way
    dirPuts,    \* how many have begun
    dirObject,  \* the object at the key of the descriptor
    dirTold,    \* the last answer, and what it answered
    dirMissed   \* history: a body was all there before the handler ran

dirVars == <<dirSetup, dirAsk, dirUrl, dirGet, dirClock, dirPut, dirPuts,
             dirObject, dirTold, dirMissed>>

Methods == {"PUT", "POST"}
NoContent == "none"
KnownTypes == {"image", "other"}    \* upload types in the registry, by Cloudinary resource type

\* Where a local URL leads, and where the router has its controller: that is not
\* VERSION_NEUTRAL and names no version, so it has the default one.  The HMAC does
\* not cover the path.
IssuedPath == "/upload/local/direct"
RoutedPath == "/v1/upload/local/direct"
StorePath == "external"

ASSUME DirAssumption ==
    /\ Expiry \in Nat /\ MaxClock \in Nat /\ MaxPuts \in Nat /\ DirSizes \subseteq Nat
    /\ DirSetups \subseteq [provider : {"s3", "local", "cloudinary", "imagekit"},
                            enabled : BOOLEAN, unique : BOOLEAN]
    /\ DirAsks \subseteq [method : Methods, type : STRING, ct : DirTypes \cup {NoContent}, size : Nat]

NoUrl == [method |-> "none", signed |-> "none", expire |-> 0, ct |-> NoContent, max |-> 0,
          length |-> 0]
NoPut == [pc |-> "none", size |-> 0, ct |-> NoContent, at |-> 0, obeys |-> FALSE]
NoObject == [there |-> FALSE, size |-> 0, ct |-> NoContent, at |-> 0]
NothingTold == [what |-> "none", status |-> 0, due |-> FALSE, path |-> "none", size |-> 0]

DirTypeOK ==
    /\ dirSetup \in DirSetups \cup {[provider |-> "none", enabled |-> FALSE, unique |-> FALSE]}
    /\ dirAsk \in DirAsks \cup {[method |-> "PUT", type |-> "none", ct |-> NoContent, size |-> 0]}
    /\ dirUrl \in [method : Methods \cup {"none"}, signed : Methods \cup {"none"}, expire : Nat,
                   ct : DirTypes \cup {NoContent}, max : Nat, length : Nat]
    /\ dirGet \in {0} \cup 1..(MaxClock + Expiry + 1)
    /\ dirClock \in 0..MaxClock
    /\ dirPut \in [pc : {"none", "body"}, size : Nat, ct : DirTypes \cup {NoContent},
                   at : Nat, obeys : BOOLEAN]
    /\ dirPuts \in 0..MaxPuts
    /\ dirObject \in [there : BOOLEAN, size : Nat, ct : DirTypes \cup {NoContent}, at : Nat]
    /\ dirTold \in [what : {"none", "url", "put", "complete", "get"},
                    status : {0, 200, 400, 401, 403, 404, 410, 413, 500},
                    due : BOOLEAN,
                    path : {"none", IssuedPath, RoutedPath, StorePath}, size : Nat]
    /\ dirMissed \in BOOLEAN

DirInit ==
    /\ dirSetup = [provider |-> "none", enabled |-> FALSE, unique |-> FALSE]
    /\ dirAsk = [method |-> "PUT", type |-> "none", ct |-> NoContent, size |-> 0]
    /\ dirUrl = NoUrl
    /\ dirGet = 0
    /\ dirClock = 0
    /\ dirPut = NoPut
    /\ dirPuts = 0
    /\ dirObject = NoObject
    /\ dirTold = NothingTold
    /\ dirMissed = FALSE
----------------------------------------------------------------------------
Local == dirSetup.provider = "local"
Issued == dirUrl # NoUrl
Paths == IF Local THEN {IssuedPath, RoutedPath} ELSE {StorePath}

Tell(what, status, due) ==
    dirTold' = [what |-> what, status |-> status, due |-> due, path |-> "none", size |-> 0]
TellPut(status, due, path, size) ==
    dirTold' = [what |-> "put", status |-> status, due |-> due, path |-> path, size |-> size]

Url(method, signed, ask, length) ==
    [method |-> method, signed |-> signed, expire |-> dirClock + Expiry,
     ct |-> ask.ct, max |-> ask.size, length |-> length]

\* A PutObject is signed, whatever method the descriptor names, with the size that
\* was meant as a limit for its ContentLength.
DescriptorS3(ask) == Url(ask.method, "PUT", ask, ask.size)

\* The HMAC covers the method as it was asked for, the key, the expiry, the type
\* and the largest size.
DescriptorLocal(ask) == Url(ask.method, ask.method, ask, 0)

\* A form to be posted, of which the place and the time are signed.
DescriptorCloudinary(ask) == Url("POST", "POST", ask, 0)
DescriptorImageKit(ask) == Url("POST", "POST", ask, 0)

Descriptor(ask) ==
    CASE dirSetup'.provider = "s3" -> DescriptorS3(ask)
      [] dirSetup'.provider = "local" -> DescriptorLocal(ask)
      [] dirSetup'.provider = "cloudinary" -> DescriptorCloudinary(ask)
      [] dirSetup'.provider = "imagekit" -> DescriptorImageKit(ask)

\* Mutant: a URL is dead already in the second it expires.
ExpiredInItsSecond(expire) == expire <= dirClock

Expired(expire) == expire < dirClock

\* computeSignature() of the method; nothing else of a URL is tampered with here.
SignatureMatches(method) == dirUrl.signed = method

\* The one route for uploads is PUT; verify() runs behind it, so that a signature
\* for POST never matches.
Refusal(path, method) ==
    IF path # RoutedPath \/ method # "PUT" THEN 404
    ELSE IF Expired(dirUrl.expire) THEN 410
    ELSE IF ~SignatureMatches("PUT") THEN 401 ELSE 200

\* External: a store refuses what is late or not as signed, the length included.
StoreStatus(method, size) ==
    IF /\ SignatureMatches(method) /\ dirClock <= dirUrl.expire
       /\ dirUrl.length \in {0, size}
    THEN 200 ELSE 403

SoftHeadroom == 64
HardCap == 10 * 1024 * 2    \* MAX_FILE_SIZE_MB, 10 by default, times two

\* drainBody() and the check after it, which refuses what is within the headroom.
\* A body that a parser has buffered is not capped.
TooLargeToDrain(size, buffered) ==
    ~buffered /\ (size > HardCap \/ (dirUrl.max # 0 /\ size > dirUrl.max + SoftHeadroom))

\* Mutant: the caller's check is dropped as redundant.
OverDrained(size, buffered) == TooLargeToDrain(size, buffered)

Over(size, buffered) ==
    TooLargeToDrain(size, buffered) \/ (dirUrl.max # 0 /\ size > dirUrl.max)

\* Compared only if the URL was signed with a type and the request names one.
WrongType(ct) == ct # NoContent /\ dirUrl.ct # NoContent /\ ct # dirUrl.ct

BodyStatus(size, ct, buffered) ==
    IF size = 0 THEN 400 ELSE IF Over(size, buffered) THEN 413
    ELSE IF WrongType(ct) THEN 400 ELSE 200

\* head() of S3 and of the disk looks for the very key.
HeadS3 == dirObject.there
HeadLocal == dirObject.there

\* The Admin API is asked for an image, whatever the file was filed under.
HeadCloudinary == dirObject.there /\ dirAsk.type = "image"

\* A search by the name that was asked for, which unique names do not keep.
HeadImageKit == dirObject.there /\ ~dirSetup.unique

Visible ==
    CASE dirSetup.provider = "s3" -> HeadS3
      [] dirSetup.provider = "local" -> HeadLocal
      [] dirSetup.provider = "cloudinary" -> HeadCloudinary
      [] dirSetup.provider = "imagekit" -> HeadImageKit

\* 1 KB, or 4 KB where the store may re-encode what it takes.
Tolerance == IF dirSetup.provider \in {"cloudinary", "imagekit"} THEN 4 ELSE 1

Far(a, b) == a > b + Tolerance \/ b > a + Tolerance

CompleteStatus(claim) ==
    IF ~Visible THEN 404
    ELSE IF claim # 0 /\ Far(dirObject.size, claim) THEN 400 ELSE 200
----------------------------------------------------------------------------
\* POST /upload/presigned-url; a disabled feature or unknown type is a plain Error.
Issue ==
    /\ dirTold = NothingTold
    /\ dirSetup' \in DirSetups
    /\ \E ask \in DirAsks :
         /\ dirAsk' = ask
         /\ IF dirSetup'.enabled /\ ask.type \in KnownTypes
              THEN dirUrl' = Descriptor(ask) /\ Tell("url", 200, TRUE)
              ELSE Tell("url", 500, FALSE) /\ UNCHANGED dirUrl
    /\ UNCHANGED <<dirGet, dirClock, dirPut, dirPuts, dirObject, dirMissed>>

\* The client sends a body of its choice; `obeys` if it does as the descriptor
\* says, be it at the path in its URL or at the one that is served.  The signature
\* is verified as the headers arrive.
BeginPut ==
    /\ Issued /\ dirPut.pc = "none" /\ dirPuts < MaxPuts
    /\ dirPuts' = dirPuts + 1
    /\ \E path \in Paths, method \in Methods, size \in DirSizes, ct \in DirTypes \cup {NoContent} :
         LET obeys == /\ method = dirUrl.method /\ size > 0 /\ ct = dirUrl.ct
                      /\ size <= (IF dirUrl.max = 0 THEN HardCap ELSE dirUrl.max)
                      /\ dirClock <= dirUrl.expire
             status == IF Local THEN Refusal(path, method) ELSE StoreStatus(method, size)
         IN  IF status = 200
               THEN /\ dirPut' = [pc |-> "body", size |-> size, ct |-> ct,
                                  at |-> dirClock, obeys |-> obeys]
                    /\ UNCHANGED dirTold
               ELSE TellPut(status, obeys, path, size) /\ UNCHANGED dirPut
    /\ UNCHANGED <<dirSetup, dirAsk, dirUrl, dirGet, dirClock, dirObject, dirMissed>>

\* Where the body under way is being sent, and the answer to it.
BodyPath == IF Local THEN RoutedPath ELSE StorePath
TellBody(status, due) == TellPut(status, due, BodyPath, dirPut.size)

Land ==
    /\ dirObject' = [there |-> TRUE, size |-> dirPut.size, at |-> dirPut.at,
                     ct |-> IF dirPut.ct = NoContent THEN dirUrl.ct ELSE dirPut.ct]
    /\ TellBody(200, dirPut.obeys)

\* The body ends, perhaps after the expiry.  A body that had arrived whole before
\* the handler ran, and that no parser buffered, is taken for empty.
EndPutLocal ==
    /\ dirPut.pc = "body" /\ Local
    /\ \/ /\ dirMissed' = TRUE
          /\ TellBody(400, dirPut.obeys)
          /\ UNCHANGED dirObject
       \/ /\ UNCHANGED dirMissed
          /\ \E buffered \in BOOLEAN :
               LET status == BodyStatus(dirPut.size, dirPut.ct, buffered)
               IN  IF status = 200 THEN Land
                   ELSE TellBody(status, dirPut.obeys) /\ UNCHANGED dirObject
    /\ dirPut' = NoPut
    /\ UNCHANGED <<dirSetup, dirAsk, dirUrl, dirGet, dirClock, dirPuts>>

\* External: a store takes what it has let begin, or fails.
EndPutRemote ==
    /\ dirPut.pc = "body" /\ ~Local
    /\ \/ Land
       \/ TellBody(500, FALSE) /\ UNCHANGED dirObject
    /\ dirPut' = NoPut
    /\ UNCHANGED <<dirSetup, dirAsk, dirUrl, dirGet, dirClock, dirPuts, dirMissed>>

\* POST /upload/presigned-url/complete, due when the client claims what is there.
Complete ==
    /\ Issued
    /\ \E claim \in DirSizes :
         Tell("complete", CompleteStatus(claim),
              dirObject.there /\ claim \in {0, dirObject.size})
    /\ UNCHANGED <<dirSetup, dirAsk, dirUrl, dirGet, dirClock, dirPut, dirPuts, dirObject, dirMissed>>

\* POST /upload/download-url asks neither for the switch nor for the object.
IssueDownload ==
    /\ Issued /\ dirGet = 0
    /\ dirGet' = dirClock + Expiry + 1      \* 0 is no URL
    /\ UNCHANGED <<dirSetup, dirAsk, dirUrl, dirClock, dirPut, dirPuts, dirObject, dirTold, dirMissed>>

\* GET of the local URL, at its path or at the one that is served; the other
\* stores are not this server's.
Download ==
    /\ dirGet # 0 /\ Local
    /\ \E path \in Paths :
         LET status == IF path # RoutedPath THEN 404
                       ELSE IF Expired(dirGet - 1) THEN 410
                       ELSE IF dirObject.there THEN 200 ELSE 404
         IN  dirTold' = [what |-> "get", status |-> status, path |-> path, size |-> 0,
                         due |-> dirObject.there /\ dirClock <= dirGet - 1]
    /\ UNCHANGED <<dirSetup, dirAsk, dirUrl, dirGet, dirClock, dirPut, dirPuts, dirObject, dirMissed>>

DirTick ==
    /\ Issued /\ dirClock < MaxClock
    /\ dirClock' = dirClock + 1
    /\ UNCHANGED <<dirSetup, dirAsk, dirUrl, dirGet, dirPut, dirPuts, dirObject, dirTold, dirMissed>>

DirNext ==
    \/ Issue \/ BeginPut \/ EndPutLocal \/ EndPutRemote \/ Complete
    \/ IssueDownload \/ Download \/ DirTick

DirSpec == DirInit /\ [][DirNext]_dirVars
----------------------------------------------------------------------------
\* What lies at a local key was sent while its URL was valid, in the signed type,
\* and is no larger than was signed for, though it may have landed later.
WithinSigned ==
    Local /\ dirObject.there =>
        /\ dirObject.at <= dirUrl.expire
        /\ dirUrl.signed = "PUT"
        /\ dirUrl.max # 0 => dirObject.size <= dirUrl.max
        /\ dirUrl.ct # NoContent => dirObject.ct = dirUrl.ct

\* A client that does what its descriptor says, in time, is not refused: neither
\* the bytes, nor their completion with their true size, nor their download.  The
\* code breaks this on the local disk for every use of a URL at the path it names;
\* at the path that is served, for POST, for a body that arrives in one piece with
\* its headers, and for one within the signed size but over the hard cap.  It
\* breaks it on S3 for POST and for a body smaller than the size asked for, for
\* ImageKit's unique names, and for what Cloudinary does not file under images.
DescriptorUsable ==
    dirTold.due /\ dirTold.status # 200 =>
        \/ dirTold.path = IssuedPath /\ dirTold.status = 404
        \/ dirTold.what = "put" /\ dirUrl.method = "POST" /\ dirSetup.provider \in {"s3", "local"}
        \/ dirTold.what = "put" /\ dirTold.status = 403 /\ dirSetup.provider = "s3"
           /\ dirTold.size < dirUrl.max
        \/ dirTold.what = "put" /\ dirTold.status = 400 /\ Local /\ dirMissed
        \/ dirTold.what = "put" /\ dirTold.status = 413 /\ Local /\ dirTold.size > HardCap
        \/ dirTold.what = "complete" /\ dirTold.status = 404 /\ dirSetup.provider = "imagekit"
           /\ dirSetup.unique
        \/ dirTold.what = "complete" /\ dirTold.status = 404 /\ dirSetup.provider = "cloudinary"
           /\ dirAsk.type # "image"

\* Local URLs point at a stable path without a version, says the controller: a
\* request that does as its URL says, for a method that has a route, finds one.
\* The code breaks this.
IssuedUrlServed ==
    dirTold.due /\ dirTold.path = IssuedPath =>
        (dirTold.what = "put" /\ dirUrl.method = "POST") \/ dirTold.status # 404

\* Inductive: what the URL and the body under way owe to the check at its head.
DirProgress ==
    /\ Issued => dirTold # NothingTold /\ dirSetup \in DirSetups /\ dirUrl.method \in Methods
    /\ Issued => dirUrl.signed = (IF dirSetup.provider = "s3" THEN "PUT" ELSE dirUrl.method)
    /\ Issued => dirUrl.length = (IF dirSetup.provider = "s3" THEN dirUrl.max ELSE 0)
    /\ Issued /\ dirSetup.provider \in {"cloudinary", "imagekit"} => dirUrl.method = "POST"
    /\ dirPut.pc = "body" \/ dirObject.there \/ dirGet # 0 => Issued
    /\ dirPut.pc = "body" /\ Local => dirPut.at <= dirUrl.expire /\ dirUrl.signed = "PUT"
    /\ dirPut.pc = "body" /\ dirPut.obeys =>
         /\ dirPut.size > 0 /\ dirPut.ct = dirUrl.ct
         /\ dirPut.size <= (IF dirUrl.max = 0 THEN HardCap ELSE dirUrl.max)

DirInv == DirTypeOK /\ DirProgress /\ WithinSigned /\ DescriptorUsable
============================================================================
