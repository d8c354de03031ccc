------------------------- MODULE DirectUploadProofs -------------------------
(***************************************************************************)
(* Proofs about DirectUpload, for any sizes and types, any expiry and any  *)
(* bound on the clock and the uploads.  DirProgress says what a URL was    *)
(* signed for and what the body under way has passed; the two properties   *)
(* follow where the body lands and where an answer is given.               *)
(***************************************************************************)
EXTENDS DirectUpload, TLAPS

(* Before a URL is asked for the invariant holds.                          *)
LEMMA DirInitInv == DirInit => DirInv
<1> SUFFICES ASSUME DirInit PROVE DirInv
  OBVIOUS
<1>1. DirTypeOK
  <2>0. dirMissed \in BOOLEAN
    BY Zenon DEF DirInit
  <2>1. dirGet = 0 /\ dirClock \in 0..MaxClock /\ dirPuts \in 0..MaxPuts
    BY DirAssumption DEF DirInit
  <2>2. /\ NoUrl \in [method : Methods \cup {"none"}, signed : Methods \cup {"none"}, expire : Nat,
                      ct : DirTypes \cup {NoContent}, max : Nat, length : Nat]
        /\ NoPut \in [pc : {"none", "body"}, size : Nat, ct : DirTypes \cup {NoContent},
                      at : Nat, obeys : BOOLEAN]
        /\ NoObject \in [there : BOOLEAN, size : Nat, ct : DirTypes \cup {NoContent}, at : Nat]
    BY DEF NoUrl, NoPut, NoObject
  <2>3. NothingTold \in [what : {"none", "url", "put", "complete", "get"},
                         status : {0, 200, 400, 401, 403, 404, 410, 413, 500}, due : BOOLEAN,
                         path : {"none", IssuedPath, RoutedPath, StorePath}, size : Nat]
    BY DEF NothingTold
  <2>4. QED
    BY <2>0, <2>1, <2>2, <2>3 DEF DirInit, DirTypeOK
<1>2. DirProgress
  BY DEF DirInit, DirProgress, Issued, NoPut, NoObject
<1>3. WithinSigned /\ DescriptorUsable
  BY DEF DirInit, WithinSigned, DescriptorUsable, NoObject, NothingTold
<1>4. QED
  BY <1>1, <1>2, <1>3 DEF DirInv

(* The descriptor of each provider, and what it is signed for.             *)
LEMMA DescriptorSigned ==
    ASSUME NEW ask \in DirAsks, dirSetup' \in DirSetups, dirClock \in Nat
    PROVE  LET url == Descriptor(ask)
           IN  /\ url \in [method : Methods, signed : Methods, expire : Nat,
                           ct : DirTypes \cup {NoContent}, max : Nat, length : Nat]
               /\ url.length = IF dirSetup'.provider = "s3" THEN url.max ELSE 0
               /\ url.signed = IF dirSetup'.provider = "s3" THEN "PUT" ELSE url.method
               /\ dirSetup'.provider \in {"cloudinary", "imagekit"} => url.method = "POST"
<1> USE DirAssumption DEF Methods, Url, DescriptorS3, DescriptorLocal, DescriptorCloudinary,
        DescriptorImageKit
<1>1. dirSetup'.provider \in {"s3", "local", "cloudinary", "imagekit"}
  OBVIOUS
<1>2. ask.method \in Methods /\ ask.ct \in DirTypes \cup {NoContent} /\ ask.size \in Nat
  OBVIOUS
<1>3. CASE dirSetup'.provider = "s3"
  BY <1>2, <1>3 DEF Descriptor
<1>4. CASE dirSetup'.provider = "local"
  BY <1>2, <1>4 DEF Descriptor
<1>5. CASE dirSetup'.provider = "cloudinary"
  BY <1>2, <1>5 DEF Descriptor
<1>6. CASE dirSetup'.provider = "imagekit"
  BY <1>2, <1>6 DEF Descriptor
<1>7. QED
  BY <1>1, <1>3, <1>4, <1>5, <1>6

(* Issue sets a URL up, and nothing has been put or told before.           *)
LEMMA IssueInv == ASSUME DirInv, Issue PROVE DirInv'
<1> USE DEF DirInv
<1>1. PICK ask \in DirAsks :
        /\ dirAsk' = ask
        /\ \/ dirUrl' = Descriptor(ask) /\ Tell("url", 200, TRUE)
           \/ Tell("url", 500, FALSE) /\ UNCHANGED dirUrl
  BY DEF Issue
<1>2. ~Issued /\ dirPut.pc # "body" /\ ~dirObject.there /\ dirGet = 0
  BY DEF Issue, DirProgress
<1>3. dirSetup' \in DirSetups /\ dirClock \in Nat
  BY DEF Issue, DirTypeOK
<1>4. /\ dirGet' = dirGet /\ dirClock' = dirClock /\ dirPut' = dirPut /\ dirPuts' = dirPuts
      /\ dirObject' = dirObject /\ dirMissed' = dirMissed
  BY DEF Issue
<1>5. /\ dirTold' \in [what : {"none", "url", "put", "complete", "get"},
                       status : {0, 200, 400, 401, 403, 404, 410, 413, 500}, due : BOOLEAN,
                       path : {"none", IssuedPath, RoutedPath, StorePath}, size : Nat]
      /\ dirTold'.what = "url" /\ (dirTold'.due => dirTold'.status = 200)
  <2>1. CASE Tell("url", 200, TRUE)
    BY <2>1 DEF Tell
  <2>2. CASE Tell("url", 500, FALSE)
    BY <2>2 DEF Tell
  <2>3. QED
    BY <1>1, <2>1, <2>2
<1>6. DirTypeOK'
  <2>1. dirUrl' \in [method : Methods \cup {"none"}, signed : Methods \cup {"none"}, expire : Nat,
                     ct : DirTypes \cup {NoContent}, max : Nat, length : Nat]
    <3>1. CASE dirUrl' = dirUrl
      BY <3>1 DEF DirTypeOK
    <3>2. CASE dirUrl' = Descriptor(ask)
      BY <1>3, <3>2, DescriptorSigned
    <3>3. QED
      BY <1>1, <3>1, <3>2
  <2>2. dirSetup' \in DirSetups /\ dirAsk' \in DirAsks
    BY <1>1, <1>3
  <2>3. QED
    BY <1>4, <1>5, <2>1, <2>2 DEF DirTypeOK
<1>7. DirProgress'
  <2>1. dirTold' # NothingTold
    BY <1>5 DEF NothingTold
  <2>2. CASE dirUrl' = dirUrl
    BY <1>2, <1>4, <2>1, <2>2 DEF DirProgress, Issued
  <2>3. CASE dirUrl' = Descriptor(ask)
    BY <1>2, <1>3, <1>4, <2>1, <2>3, DescriptorSigned DEF DirProgress, Issued
  <2>4. QED
    BY <1>1, <2>2, <2>3
<1>8. WithinSigned' /\ DescriptorUsable'
  BY <1>2, <1>4, <1>5 DEF WithinSigned, DescriptorUsable, DirTypeOK
<1>9. QED
  BY <1>6, <1>7, <1>8

(* A body that begins was let in by the signature, or refused for a cause. *)
LEMMA BeginPutInv == ASSUME DirInv, BeginPut PROVE DirInv'
<1> USE DEF DirInv
<1> DEFINE Obeys(method, size, ct) ==
      /\ method = dirUrl.method /\ size > 0 /\ ct = dirUrl.ct
      /\ size <= (IF dirUrl.max = 0 THEN HardCap ELSE dirUrl.max)
      /\ dirClock <= dirUrl.expire
<1> DEFINE Status(path, method, size) ==
      IF Local THEN Refusal(path, method) ELSE StoreStatus(method, size)
<1>1. PICK path \in Paths, method \in Methods, size \in DirSizes, ct \in DirTypes \cup {NoContent} :
        IF Status(path, method, size) = 200
        THEN /\ dirPut' = [pc |-> "body", size |-> size, ct |-> ct,
                           at |-> dirClock, obeys |-> Obeys(method, size, ct)]
             /\ UNCHANGED dirTold
        ELSE /\ TellPut(Status(path, method, size), Obeys(method, size, ct), path, size)
             /\ UNCHANGED dirPut
  BY DEF BeginPut
<1>2. /\ Issued /\ dirPuts' \in 0..MaxPuts
      /\ dirSetup' = dirSetup /\ dirAsk' = dirAsk /\ dirUrl' = dirUrl /\ dirGet' = dirGet
      /\ dirClock' = dirClock /\ dirObject' = dirObject /\ dirMissed' = dirMissed
  BY DirAssumption DEF BeginPut, DirTypeOK
<1>3. Status(path, method, size) \in {200, 401, 403, 404, 410}
  BY DEF Refusal, StoreStatus
<1>4. size \in Nat /\ dirClock \in Nat /\ dirUrl.expire \in Nat
  BY DirAssumption DEF DirTypeOK
<1>5. Obeys(method, size, ct) \in BOOLEAN
  OBVIOUS
<1> HIDE DEF Obeys
<1>6. CASE Status(path, method, size) = 200
  <2>1. /\ dirPut' = [pc |-> "body", size |-> size, ct |-> ct,
                      at |-> dirClock, obeys |-> Obeys(method, size, ct)]
        /\ dirTold' = dirTold
    BY <1>1, <1>6
  <2>2. Local => dirClock <= dirUrl.expire /\ dirUrl.signed = "PUT"
    BY <1>4, <1>6 DEF Refusal, Expired, SignatureMatches
  <2>3. DirTypeOK'
    BY <1>2, <1>4, <1>5, <2>1 DEF DirTypeOK
  <2>4. DirProgress'
    BY <1>2, <2>1, <2>2 DEF DirProgress, Issued, Local, Obeys
  <2>5. WithinSigned' /\ DescriptorUsable'
    BY <1>2, <2>1 DEF WithinSigned, DescriptorUsable, Local
  <2>6. QED
    BY <2>3, <2>4, <2>5
<1>7. CASE Status(path, method, size) # 200
  <2>0. path \in {IssuedPath, RoutedPath, StorePath}
    BY DEF Paths
  <2>1. /\ dirTold' = [what |-> "put", status |-> Status(path, method, size),
                       due |-> Obeys(method, size, ct), path |-> path, size |-> size]
        /\ dirPut' = dirPut
    BY <1>1, <1>7 DEF TellPut
  <2>2. DirTypeOK'
    BY <1>2, <1>3, <1>4, <1>5, <2>0, <2>1 DEF DirTypeOK
  <2>3. DirProgress'
    BY <1>2, <2>1 DEF DirProgress, Issued, Local, NothingTold
  <2>4. WithinSigned'
    BY <1>2 DEF WithinSigned, Local
  <2>5. Obeys(method, size, ct) =>
          \/ path = IssuedPath /\ Status(path, method, size) = 404
          \/ dirUrl.method = "POST" /\ dirSetup.provider \in {"s3", "local"}
          \/ Status(path, method, size) = 403 /\ dirSetup.provider = "s3" /\ size < dirUrl.max
    <3>1. dirSetup.provider \in {"s3", "local", "cloudinary", "imagekit"} /\ dirUrl.method \in Methods
      BY <1>2, DirAssumption DEF DirProgress, DirTypeOK, Issued
    <3>2. dirUrl.max \in Nat /\ dirUrl.method \in {"PUT", "POST"}
      BY <3>1 DEF DirTypeOK, Methods
    <3>3. SUFFICES ASSUME Obeys(method, size, ct)
                   PROVE  \/ path = IssuedPath /\ Status(path, method, size) = 404
                          \/ dirUrl.method = "POST" /\ dirSetup.provider \in {"s3", "local"}
                          \/ /\ Status(path, method, size) = 403
                             /\ dirSetup.provider = "s3" /\ size < dirUrl.max
      OBVIOUS
    <3>4. /\ method = dirUrl.method /\ size > 0 /\ dirClock <= dirUrl.expire
          /\ dirUrl.max # 0 => size <= dirUrl.max
      BY <3>3 DEF Obeys
    <3>5. CASE Local
      <4>1. dirUrl.signed = dirUrl.method /\ path \in {IssuedPath, RoutedPath}
        BY <1>2, <3>5 DEF DirProgress, Local, Paths
      <4>2. QED
        BY <1>4, <1>7, <3>2, <3>4, <3>5, <4>1
           DEF Refusal, Expired, SignatureMatches, Local, IssuedPath, RoutedPath
    <3>6. CASE ~Local
      <4>1. Status(path, method, size) = 403
        BY <1>7, <3>6 DEF StoreStatus
      <4>2. CASE ~SignatureMatches(method)
        BY <1>2, <3>1, <3>2, <3>4, <3>6, <4>2 DEF SignatureMatches, DirProgress, Local
      <4>3. CASE dirUrl.length \notin {0, size}
        BY <1>2, <1>4, <3>1, <3>2, <3>4, <4>1, <4>3 DEF DirProgress
      <4>4. QED
        BY <1>7, <3>4, <3>6, <4>2, <4>3 DEF StoreStatus
    <3>7. QED
      BY <3>5, <3>6
  <2>6. DescriptorUsable'
    BY <1>2, <2>1, <2>5 DEF DescriptorUsable, Local
  <2>7. QED
    BY <2>2, <2>3, <2>4, <2>6
<1>8. QED
  BY <1>6, <1>7

(* What lands on the disk has passed the drain and the checks after it.    *)
LEMMA LandsWithinSigned ==
    ASSUME DirInv, dirPut.pc = "body", Local, NEW buffered \in BOOLEAN,
           BodyStatus(dirPut.size, dirPut.ct, buffered) = 200
    PROVE  /\ dirUrl.max # 0 => dirPut.size <= dirUrl.max
           /\ dirPut.ct = NoContent \/ dirUrl.ct = NoContent \/ dirPut.ct = dirUrl.ct
<1>1. ~Over(dirPut.size, buffered) /\ ~WrongType(dirPut.ct)
  BY DEF BodyStatus
<1>2. dirPut.size \in Nat /\ dirUrl.max \in Nat
  BY DEF DirInv, DirTypeOK
<1>3. QED
  BY <1>1, <1>2 DEF Over, WrongType

(* A body that obeys its descriptor is refused for its size only if it is  *)
(* over the hard cap.                                                      *)
LEMMA ObeyedIsTaken ==
    ASSUME DirInv, dirPut.pc = "body", dirPut.obeys, NEW buffered \in BOOLEAN
    PROVE  LET status == BodyStatus(dirPut.size, dirPut.ct, buffered)
           IN  status = 200 \/ (status = 413 /\ dirPut.size > HardCap)
<1>1. dirPut.size \in Nat /\ dirUrl.max \in Nat
  BY DEF DirInv, DirTypeOK
<1>2. /\ dirPut.size > 0 /\ dirPut.ct = dirUrl.ct
      /\ dirPut.size <= (IF dirUrl.max = 0 THEN HardCap ELSE dirUrl.max)
  BY DEF DirInv, DirProgress
<1>3. QED
  BY <1>1, <1>2 DEF BodyStatus, Over, TooLargeToDrain, WrongType, HardCap, SoftHeadroom

(* The end of a body: it lands, or its refusal is told.                    *)
LEMMA EndPutInv == ASSUME DirInv, EndPutLocal \/ EndPutRemote PROVE DirInv'
<1> USE DEF DirInv
<1>1. /\ dirPut.pc = "body" /\ dirPut' = NoPut /\ Issued
      /\ dirSetup' = dirSetup /\ dirAsk' = dirAsk /\ dirUrl' = dirUrl /\ dirGet' = dirGet
      /\ dirClock' = dirClock /\ dirPuts' = dirPuts
  BY DEF EndPutLocal, EndPutRemote, DirProgress
<1>2. NoPut \in [pc : {"none", "body"}, size : Nat, ct : DirTypes \cup {NoContent},
                 at : Nat, obeys : BOOLEAN] /\ NoPut.pc # "body"
  BY DEF NoPut
<1>3. dirPut.obeys \in BOOLEAN /\ dirPut.size \in Nat /\ dirPut.at \in Nat
      /\ dirPut.ct \in DirTypes \cup {NoContent} /\ dirUrl.ct \in DirTypes \cup {NoContent}
  BY DEF DirTypeOK
<1>4. CASE /\ Land /\ dirMissed' = dirMissed
           /\ Local => \E buffered \in BOOLEAN : BodyStatus(dirPut.size, dirPut.ct, buffered) = 200
  <2>1. dirObject' = [there |-> TRUE, size |-> dirPut.size, at |-> dirPut.at,
                      ct |-> IF dirPut.ct = NoContent THEN dirUrl.ct ELSE dirPut.ct]
        /\ dirTold' = [what |-> "put", status |-> 200, due |-> dirPut.obeys,
                       path |-> BodyPath, size |-> dirPut.size]
        /\ BodyPath \in {"none", IssuedPath, RoutedPath, StorePath}
    BY <1>4 DEF Land, TellBody, TellPut, BodyPath
  <2>2. DirTypeOK'
    BY <1>1, <1>2, <1>3, <1>4, <2>1 DEF DirTypeOK
  <2>3. DirProgress'
    BY <1>1, <1>2, <2>1 DEF DirProgress, Issued, Local, NothingTold
  <2>4. WithinSigned'
    <3>1. SUFFICES ASSUME Local PROVE WithinSigned'
      BY <1>1 DEF WithinSigned, Local
    <3>2. dirPut.at <= dirUrl.expire /\ dirUrl.signed = "PUT"
      BY <1>1, <3>1 DEF DirProgress
    <3>3. QED
      BY <1>1, <1>4, <2>1, <3>1, <3>2, LandsWithinSigned DEF WithinSigned
  <2>5. DescriptorUsable'
    BY <2>1 DEF DescriptorUsable
  <2>6. QED
    BY <2>2, <2>3, <2>4, <2>5
<1>5. CASE /\ UNCHANGED dirObject /\ dirMissed' \in BOOLEAN
           /\ dirTold'.what = "put" /\ dirTold'.status \in {400, 413, 500}
           /\ dirTold' \in [what : {"put"}, status : {400, 413, 500}, due : BOOLEAN,
                            path : {RoutedPath, StorePath}, size : Nat]
           /\ dirTold'.due => Local /\ (\/ dirTold'.status = 400 /\ dirMissed'
                                        \/ dirTold'.status = 413 /\ dirTold'.size > HardCap)
  <2>1. DirTypeOK'
    BY <1>1, <1>2, <1>5 DEF DirTypeOK
  <2>2. DirProgress'
    BY <1>1, <1>2, <1>5 DEF DirProgress, Issued, Local, NothingTold
  <2>3. WithinSigned'
    BY <1>1, <1>5 DEF WithinSigned, Local
  <2>4. DescriptorUsable'
    BY <1>1, <1>5 DEF DescriptorUsable, Local
  <2>5. QED
    BY <2>1, <2>2, <2>3, <2>4
<1>6. CASE EndPutLocal
  <2>1. CASE dirMissed' = TRUE /\ TellBody(400, dirPut.obeys) /\ UNCHANGED dirObject
    BY <1>3, <1>5, <1>6, <2>1 DEF TellBody, TellPut, BodyPath, EndPutLocal
  <2>2. CASE /\ UNCHANGED dirMissed
             /\ \E buffered \in BOOLEAN :
                  LET status == BodyStatus(dirPut.size, dirPut.ct, buffered)
                  IN  IF status = 200 THEN Land
                      ELSE TellBody(status, dirPut.obeys) /\ UNCHANGED dirObject
    <3>1. PICK buffered \in BOOLEAN :
            IF BodyStatus(dirPut.size, dirPut.ct, buffered) = 200 THEN Land
            ELSE /\ TellBody(BodyStatus(dirPut.size, dirPut.ct, buffered), dirPut.obeys)
                 /\ UNCHANGED dirObject
      BY <2>2
    <3>2. CASE BodyStatus(dirPut.size, dirPut.ct, buffered) = 200
      BY <1>4, <2>2, <3>1, <3>2
    <3>3. CASE BodyStatus(dirPut.size, dirPut.ct, buffered) # 200
      <4>1. BodyStatus(dirPut.size, dirPut.ct, buffered) \in {400, 413}
        BY <3>3 DEF BodyStatus
      <4>2. dirMissed' \in BOOLEAN
        BY <2>2 DEF DirTypeOK
      <4>3. QED
        BY <1>1, <1>3, <1>5, <1>6, <3>1, <3>3, <4>1, <4>2, ObeyedIsTaken
           DEF TellBody, TellPut, BodyPath, EndPutLocal
    <3>4. QED
      BY <3>2, <3>3
  <2>3. QED
    BY <1>6, <2>1, <2>2 DEF EndPutLocal
<1>7. CASE EndPutRemote
  <2>1. dirMissed' = dirMissed /\ dirMissed \in BOOLEAN
    BY <1>7 DEF EndPutRemote, DirTypeOK
  <2>2. CASE Land
    BY <1>4, <1>7, <2>1, <2>2 DEF EndPutRemote
  <2>3. CASE TellBody(500, FALSE) /\ UNCHANGED dirObject
    BY <1>3, <1>5, <2>1, <2>3 DEF TellBody, TellPut, BodyPath
  <2>4. QED
    BY <1>7, <2>2, <2>3 DEF EndPutRemote
<1>8. QED
  BY <1>6, <1>7

(* What is there is confirmed, but for what head() does not find.          *)
LEMMA CompleteInv == ASSUME DirInv, Complete PROVE DirInv'
<1> USE DEF DirInv
<1>1. PICK claim \in DirSizes :
        dirTold' = [what |-> "complete", status |-> CompleteStatus(claim),
                    due |-> dirObject.there /\ claim \in {0, dirObject.size},
                    path |-> "none", size |-> 0]
  BY DEF Complete, Tell
<1>2. /\ Issued /\ dirSetup' = dirSetup /\ dirAsk' = dirAsk /\ dirUrl' = dirUrl /\ dirGet' = dirGet
      /\ dirClock' = dirClock /\ dirPut' = dirPut /\ dirPuts' = dirPuts
      /\ dirObject' = dirObject /\ dirMissed' = dirMissed
  BY DEF Complete
<1>3. CompleteStatus(claim) \in {200, 400, 404}
  BY DEF CompleteStatus
<1>4. DirTypeOK'
  BY <1>1, <1>2, <1>3 DEF DirTypeOK
<1>5. DirProgress'
  BY <1>1, <1>2 DEF DirProgress, Issued, Local, NothingTold
<1>6. WithinSigned'
  BY <1>2 DEF WithinSigned, Local
<1>7. ASSUME dirObject.there, claim \in {0, dirObject.size}, CompleteStatus(claim) # 200
      PROVE  /\ CompleteStatus(claim) = 404
             /\ \/ dirSetup.provider = "imagekit" /\ dirSetup.unique
                \/ dirSetup.provider = "cloudinary" /\ dirAsk.type # "image"
  <2>1. dirSetup.provider \in {"s3", "local", "cloudinary", "imagekit"}
    BY <1>2, DirAssumption DEF DirProgress
  <2>2. dirObject.size \in Nat /\ Tolerance \in Nat
    BY DEF DirTypeOK, Tolerance
  <2>3. ~Far(dirObject.size, dirObject.size)
    BY <2>2 DEF Far
  <2>4. CompleteStatus(claim) = 404 /\ ~Visible
    BY <1>7, <2>3 DEF CompleteStatus
  <2>5. QED
    BY <1>7, <2>1, <2>4 DEF Visible, HeadS3, HeadLocal, HeadCloudinary, HeadImageKit
<1>8. DescriptorUsable'
  BY <1>1, <1>2, <1>7 DEF DescriptorUsable, Local
<1>9. QED
  BY <1>4, <1>5, <1>6, <1>8

(* A download while its URL is valid finds what is there.                  *)
LEMMA DownloadInv == ASSUME DirInv, IssueDownload \/ Download \/ DirTick PROVE DirInv'
<1> USE DEF DirInv
<1>1. CASE IssueDownload
  <2>1. dirGet' \in {0} \cup 1..(MaxClock + Expiry + 1) /\ Issued
    BY <1>1, DirAssumption DEF IssueDownload, DirTypeOK
  <2>2. QED
    BY <1>1, <2>1 DEF IssueDownload, DirTypeOK, DirProgress, WithinSigned, DescriptorUsable, Issued, Local
<1>2. CASE Download
  <2>1. PICK status \in {200, 404, 410}, path \in {IssuedPath, RoutedPath} :
          /\ dirTold' = [what |-> "get", status |-> status, path |-> path, size |-> 0,
                         due |-> dirObject.there /\ dirClock <= dirGet - 1]
          /\ path = IssuedPath => status = 404
          /\ path = RoutedPath /\ dirObject.there /\ dirClock <= dirGet - 1 => status = 200
    <3>1. dirGet \in Nat /\ dirClock \in Nat
      BY DirAssumption DEF DirTypeOK
    <3>2. Paths = {IssuedPath, RoutedPath} /\ IssuedPath # RoutedPath
      BY <1>2 DEF Download, Paths, IssuedPath, RoutedPath
    <3>3. QED
      BY <1>2, <3>1, <3>2 DEF Download, Expired
  <2>2. /\ dirSetup' = dirSetup /\ dirAsk' = dirAsk /\ dirUrl' = dirUrl /\ dirGet' = dirGet
        /\ dirClock' = dirClock /\ dirPut' = dirPut /\ dirPuts' = dirPuts
        /\ dirObject' = dirObject /\ dirMissed' = dirMissed
    BY <1>2 DEF Download
  <2>3. DirTypeOK'
    BY <2>1, <2>2 DEF DirTypeOK
  <2>4. DirProgress'
    BY <2>1, <2>2 DEF DirProgress, Issued, Local, NothingTold
  <2>5. WithinSigned' /\ DescriptorUsable'
    BY <2>1, <2>2 DEF WithinSigned, DescriptorUsable, Local
  <2>6. QED
    BY <2>3, <2>4, <2>5
<1>3. CASE DirTick
  <2>1. dirClock' \in 0..MaxClock
    BY <1>3, DirAssumption DEF DirTick, DirTypeOK
  <2>2. QED
    BY <1>3, <2>1 DEF DirTick, DirTypeOK, DirProgress, WithinSigned, DescriptorUsable, Issued, Local
<1>4. QED
  BY <1>1, <1>2, <1>3
----------------------------------------------------------------------------
(* The strengthened invariant of the direct flow is inductive.             *)
THEOREM DirectInvariance == DirSpec => []DirInv
<1>1. DirInit => DirInv
  BY DirInitInv
<1>2. DirInv /\ [DirNext]_dirVars => DirInv'
  <2>1. DirInv /\ UNCHANGED dirVars => DirInv'
    BY DEF dirVars, DirInv, DirTypeOK, DirProgress, WithinSigned, DescriptorUsable, Issued, Local
  <2>2. QED
    BY <2>1, IssueInv, BeginPutInv, EndPutInv, CompleteInv, DownloadInv DEF DirNext
<1>3. QED
  BY <1>1, <1>2, PTL DEF DirSpec

(* What lies at a local key was sent as its URL was signed.                *)
THEOREM LandedAsSigned == DirSpec => []WithinSigned
BY DirectInvariance, PTL DEF DirInv

(* A client that obeys its descriptor is refused for the named causes only. *)
THEOREM ObeyingIsEnough == DirSpec => []DescriptorUsable
BY DirectInvariance, PTL DEF DirInv
=============================================================================
