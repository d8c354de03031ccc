---------------------------- MODULE ServiceProofs ----------------------------
(***************************************************************************)
(* Proofs about MailQueue, for any mails, attempts, stalls and workers,    *)
(* about Bootstrap, for any environments, about TempCleanup and            *)
(* UserListing, for any number of files or users and any page size, and    *)
(* about Service, which runs the components side by side.  MailCounted     *)
(* says what pays for a delivery; BtPhases what each phase of a start has  *)
(* established; ClReach where the files that a cleanup owes still lie;     *)
(* NotYetShown and AlreadyShown where users stand against the places that  *)
(* the pages so far have covered.                                          *)
(***************************************************************************)
EXTENDS Service, UploadPipelineProofs, DirectUploadProofs, RequestPipelineProofs, FiniteSetTheorems, TLAPS

(* No mail is there at first.                                              *)
LEMMA MailInitInv == MailInit => MailInv
BY MailAssumption DEF MailInit, MailInv, MailTypeOK, MailCounted

(* Every step of a mail keeps the variables in their types.                *)
LEMMA MailStepTypeOK == ASSUME MailInv, [MailNext]_mailVars PROVE MailTypeOK'
<1> USE MailAssumption DEF MailInv, MailTypeOK, MoveTo, Sent
<1>1. CASE UNCHANGED mailVars
  BY <1>1 DEF mailVars
<1>2. ASSUME NEW m \in Mails, SendEmail(m) PROVE MailTypeOK'
  BY <1>2 DEF SendEmail
<1>3. ASSUME NEW m \in Mails, Promote(m) PROVE MailTypeOK'
  BY <1>3 DEF Promote
<1>4. ASSUME NEW m \in Mails, Take(m) PROVE MailTypeOK'
  BY <1>4 DEF Take
<1>5. ASSUME NEW m \in Mails, Deliver(m) PROVE MailTypeOK'
  BY <1>5 DEF Deliver
<1>6. ASSUME NEW m \in Mails, Return(m) PROVE MailTypeOK'
  BY <1>6 DEF Return
<1>7. ASSUME NEW m \in Mails, Throw(m) PROVE MailTypeOK'
  BY <1>7 DEF Throw, TriesAgain
<1>8. ASSUME NEW m \in Mails, Stall(m) PROVE MailTypeOK'
  BY <1>8 DEF Stall, GivenBack, Running
<1>9. ASSUME NEW m \in Mails, GhostDelivers(m) PROVE MailTypeOK'
  BY <1>9 DEF GhostDelivers
<1>10. QED
  BY <1>1, <1>2, <1>3, <1>4, <1>5, <1>6, <1>7, <1>8, <1>9 DEF MailNext, Handle

(* Every step of a mail is paid for: a delivery by the handler that makes  *)
(* it or by the stall that left a ghost, the end of a handler by the       *)
(* attempt or the stall it counts.                                         *)
LEMMA MailStepCounted == ASSUME MailInv, [MailNext]_mailVars PROVE MailCounted'
<1> USE MailAssumption DEF MailInv, MailTypeOK, MailCounted, MoveTo
<1>1. CASE UNCHANGED mailVars
  BY <1>1 DEF mailVars
<1>2. ASSUME NEW m \in Mails, SendEmail(m) \/ Promote(m) \/ Take(m) PROVE MailCounted'
  BY <1>2 DEF SendEmail, Promote, Take
<1>3. ASSUME NEW m \in Mails, Deliver(m) PROVE MailCounted'
  <2>1. mailSent[m] < Attempts + MaxStalls
    BY <1>3 DEF Deliver
  <2>2. QED
    BY <1>3, <2>1 DEF Deliver, Sent
<1>4. ASSUME NEW m \in Mails, Return(m) PROVE MailCounted'
  BY <1>4 DEF Return
<1>5. ASSUME NEW m \in Mails, Throw(m) PROVE MailCounted'
  BY <1>5 DEF Throw, TriesAgain, Running
<1>6. ASSUME NEW m \in Mails, Stall(m) PROVE MailCounted'
  BY <1>6 DEF Stall, GivenBack, Running
<1>7. ASSUME NEW m \in Mails, GhostDelivers(m) PROVE MailCounted'
  <2>1. mailSent[m] < Attempts + MaxStalls + 1
    BY <1>7 DEF GhostDelivers
  <2>2. QED
    BY <1>7, <2>1 DEF GhostDelivers, Sent
<1>8. QED
  BY <1>1, <1>2, <1>3, <1>4, <1>5, <1>6, <1>7 DEF MailNext, Handle

(* The accounts of the deliveries are inductive.                           *)
THEOREM MailInvariance == MailSpec => []MailInv
<1>1. MailInit => MailInv
  BY MailInitInv
<1>2. MailInv /\ [MailNext]_mailVars => MailInv'
  BY MailStepTypeOK, MailStepCounted DEF MailInv
<1>3. QED
  BY <1>1, <1>2, PTL DEF MailSpec

(* A mail is delivered at most once per attempt and once more per stall,   *)
(* and is given up only after all its attempts or too many stalls.         *)
THEOREM DeliveriesBounded == MailSpec => []SendsBounded
<1>1. MailInv => SendsBounded
  BY MailAssumption DEF MailInv, MailTypeOK, MailCounted, SendsBounded
<1>2. QED
  BY <1>1, MailInvariance, PTL
----------------------------------------------------------------------------
(* The step of a start that builds configuration and providers.            *)
LEMMA ConstructKeepsPhases == ASSUME BtInv, BtConstruct PROVE BtInv'
<1> USE DEF BtInv, BtTypeOK, BtPhases, BtConstruct, Die
<1>1. BtTypeOK'
  BY DEF ConfiguredCap, ImplicitBoolean
<1>2. BtPhases'
  BY DEF ConfiguredCap, ImplicitBoolean, EnvironmentValid, RequiredThere, NumbersConverted,
         PassportRefuses, ImageKitRefuses, KeysMissing, CompiledCap
<1>3. QED
  BY <1>1, <1>2

(* Every step of a start keeps what its phases have established.           *)
LEMMA BtStepInv == ASSUME BtInv, [BtNext]_btVars PROVE BtInv'
<1> USE DEF BtInv, BtTypeOK, BtPhases, Die, EnvironmentValid, RequiredThere, NumbersConverted,
            PassportRefuses, ImageKitRefuses, KeysMissing, ConfiguredCap, SigningSecret
<1>1. CASE UNCHANGED btVars
  BY <1>1 DEF btVars
<1>2. CASE BtImport
  BY <1>2 DEF BtImport, CompiledCap
<1>3. CASE BtReadEnvironment
  BY <1>3 DEF BtReadEnvironment
<1>4. CASE BtChooseProvider
  BY <1>4 DEF BtChooseProvider
<1>5. CASE BtConstruct
  BY <1>5, ConstructKeepsPhases
<1>6. CASE BtConnect
  <2>1. btEnv' = btEnv /\ btCap' = btCap /\ btSigned' = btSigned /\ btMulter' = btMulter
    BY <1>6 DEF BtConnect
  <2>2. /\ KeysMissing' = KeysMissing /\ EnvironmentValid' = EnvironmentValid
        /\ PassportRefuses' = PassportRefuses /\ ImageKitRefuses' = ImageKitRefuses
        /\ ConfiguredCap' = ConfiguredCap
    BY <2>1
  <2>3. BtTypeOK'
    <3>1. btConnected' \in BOOLEAN
      BY <1>6 DEF BtConnect
    <3>2. btPc' \in {"off", "environment", "modules", "construct", "init", "bind",
                     "listening", "exited"}
      BY <1>6 DEF BtConnect
    <3>3. btMissing' = btMissing
      BY <1>6 DEF BtConnect
    <3>4. QED
      BY <2>1, <3>1, <3>2, <3>3
  <2>4. QED
    BY <1>6, <2>1, <2>2, <2>3 DEF BtConnect
<1>7. CASE BtCheckProvider
  BY <1>7 DEF BtCheckProvider
<1>8. CASE BtBind
  BY <1>8 DEF BtBind
<1>9. CASE BtKill
  BY <1>9 DEF BtKill
<1>10. QED
  BY <1>1, <1>2, <1>3, <1>4, <1>5, <1>6, <1>7, <1>8, <1>9 DEF BtNext, Boot

(* The invariant of a start holds in every reachable state.                *)
THEOREM StartInvariance == BtSpec => []BtInv
<1>1. BtInit => BtInv
  BY DEF BtInit, BtInv, BtTypeOK, BtPhases
<1>2. BtInv /\ [BtNext]_btVars => BtInv'
  BY BtStepInv
<1>3. QED
  BY <1>1, <1>2, PTL DEF BtSpec

(* A process that listens was given the required settings, a JWT_SECRET    *)
(* that is not empty, a registered provider and its keys, and its          *)
(* $connect() has returned.                                                *)
THEOREM ListensReady == BtSpec => []ListeningReady
<1>1. BtInv => ListeningReady
  BY DEF BtInv, BtPhases, ListeningReady, EnvironmentValid, RequiredThere, NumbersConverted,
         PassportRefuses, KeysMissing, Registered, Given
<1>2. QED
  BY <1>1, StartInvariance, PTL

(* The two size caps of a process that listens agree, unless the limit is  *)
(* set in a file only; a switch is off only if it was set to nothing.      *)
THEOREM CapsAgree == BtSpec => []LimitsAgree
<1>1. BtInv => LimitsAgree
  BY BtAssumption DEF BtInv, BtPhases, LimitsAgree, ImplicitBoolean, CompiledCap, ConfiguredCap, Places
<1>2. QED
  BY <1>1, StartInvariance, PTL
----------------------------------------------------------------------------
\* How many members of S are less than x: Rank, for any set.
RankIn(S, x) == Cardinality({y \in S : y < x})

(* The first n naturals are n.                                             *)
LEMMA UpTo ==
    ASSUME NEW n \in Nat
    PROVE  IsFiniteSet(0..(n - 1)) /\ Cardinality(0..(n - 1)) = n
<1>1. 0 \in Int /\ n - 1 \in Int /\ (0 > n - 1 <=> n = 0) /\ (n - 1) - 0 + 1 = n
  OBVIOUS
<1>2. IsFiniteSet(0..(n - 1))
  BY <1>1, FS_Interval
<1>3. Cardinality(0..(n - 1)) = IF 0 > n - 1 THEN 0 ELSE (n - 1) - 0 + 1
  BY <1>1, FS_Interval
<1>4. QED
  BY <1>1, <1>2, <1>3

(* Ranks in a finite set of naturals grow with its members and leave no gap. *)
LEMMA RanksCount ==
    ASSUME NEW S, S \subseteq Nat, IsFiniteSet(S)
    PROVE  /\ \A x \in S : RankIn(S, x) \in 0..(Cardinality(S) - 1)
           /\ \A x, y \in S : x < y => RankIn(S, x) < RankIn(S, y)
           /\ \A i \in 0..(Cardinality(S) - 1) : \E x \in S : RankIn(S, x) = i
<1> DEFINE Below(x) == {y \in S : y < x}
           n == Cardinality(S)
           rank == [x \in S |-> RankIn(S, x)]
<1>1. n \in Nat
  BY FS_CardinalityType
<1>2. ASSUME NEW x PROVE IsFiniteSet(Below(x)) /\ Cardinality(Below(x)) \in Nat
  <2>1. Below(x) \in SUBSET S
    OBVIOUS
  <2>2. QED
    BY <2>1, FS_Subset, FS_CardinalityType
<1>3. ASSUME NEW x \in S PROVE RankIn(S, x) \in 0..(n - 1)
  <2>1. Below(x) \in SUBSET (S \ {x}) /\ IsFiniteSet(S \ {x}) /\ Cardinality(S \ {x}) = n - 1
    BY FS_RemoveElement
  <2>2. Cardinality(Below(x)) <= n - 1
    BY <2>1, FS_Subset
  <2>3. Cardinality(Below(x)) \in Nat
    BY <1>2
  <2>4. \A c \in Nat : c <= n - 1 => c \in 0..(n - 1)
    BY <1>1
  <2>5. RankIn(S, x) = Cardinality(Below(x))
    BY DEF RankIn
  <2>6. QED
    BY <2>2, <2>3, <2>4, <2>5
<1>4. ASSUME NEW x \in S, NEW y \in S, x < y PROVE RankIn(S, x) < RankIn(S, y)
  <2>1. x \notin Below(x) /\ Below(x) \cup {x} \in SUBSET Below(y)
    <3>1. x \in Nat /\ y \in Nat /\ S \subseteq Nat
      OBVIOUS
    <3>2. \A z \in Nat : (z < x \/ z = x) => z < y
      BY <1>4, <3>1
    <3>3. ~(x < x)
      BY <3>1
    <3>4. ASSUME NEW z \in Below(x) PROVE z \in Below(y)
      BY <3>1, <3>2
    <3>5. x \in Below(y)
      BY <1>4
    <3>6. QED
      BY <3>3, <3>4, <3>5
  <2>2. Cardinality(Below(x) \cup {x}) = Cardinality(Below(x)) + 1
    BY <1>2, <2>1, FS_AddElement
  <2>3. Cardinality(Below(x) \cup {x}) <= Cardinality(Below(y))
    BY <1>2, <2>1, FS_Subset
  <2>4. QED
    BY <1>2, <2>2, <2>3 DEF RankIn
<1>5. rank \in Injection(S, 0..(n - 1))
  <2>1. rank \in [S -> 0..(n - 1)]
    BY <1>3
  <2>2. ASSUME NEW x \in S, NEW y \in S, rank[x] = rank[y] PROVE x = y
    <3>1. x \in Nat /\ y \in Nat /\ ~(x < y) /\ ~(y < x)
      BY <1>3, <1>4, <2>2
    <3>2. QED
      BY <3>1
  <2>3. QED
    BY <2>1, <2>2 DEF Injection, IsInjective
<1>6. IsFiniteSet(0..(n - 1)) /\ Cardinality(0..(n - 1)) = n
  BY <1>1, UpTo
<1>7. rank \in Surjection(S, 0..(n - 1))
  BY <1>5, <1>6, FS_Injection
<1>8. ASSUME NEW i \in 0..(n - 1) PROVE \E x \in S : RankIn(S, x) = i
  BY <1>7 DEF Surjection
<1>9. QED
  BY <1>3, <1>4, <1>8

(* A finite set of naturals that is not empty has a least and a greatest member. *)
LEMMA HasMinMax ==
    ASSUME NEW S, S \subseteq Nat, IsFiniteSet(S), S # {}
    PROVE  /\ Min(S) \in S
           /\ Max(S) \in S /\ \A y \in S : y <= Max(S)
<1> DEFINE n == Cardinality(S)
<1>1. n \in Nat \ {0}
  BY FS_CardinalityType, FS_EmptySet
<1>2. 0 \in 0..(n - 1) /\ n - 1 \in 0..(n - 1)
  BY <1>1
<1>3. \A x \in S : RankIn(S, x) \in 0..(n - 1)
  BY RanksCount
<1>4. \A x, y \in S : x < y => RankIn(S, x) < RankIn(S, y)
  BY RanksCount
<1>5. \A i \in 0..(n - 1) : \E x \in S : RankIn(S, x) = i
  BY RanksCount
<1>6. PICK a \in S, b \in S : RankIn(S, a) = 0 /\ RankIn(S, b) = n - 1
  BY <1>2, <1>5
<1> HIDE DEF n
<1>7. ASSUME NEW y \in S PROVE a <= y /\ y <= b
  <2>1. ~(y < a)
    BY <1>3, <1>4, <1>6, <1>7
  <2>2. ~(b < y)
    BY <1>1, <1>3, <1>4, <1>6, <1>7
  <2>3. a \in Nat /\ b \in Nat /\ y \in Nat
    OBVIOUS
  <2>4. QED
    BY <2>1, <2>2, <2>3
<1>8. Min(S) \in S
  BY <1>7 DEF Min
<1>9. Max(S) \in S /\ \A y \in S : Max(S) >= y
  BY <1>7 DEF Max
<1>10. QED
  BY <1>8, <1>9

(* Of a listing that goes on past it, a page of p entries is full.         *)
LEMMA FullPage ==
    ASSUME NEW A, A \subseteq Nat, IsFiniteSet(A), NEW p \in Nat \ {0},
           NEW f \in A, RankIn(A, f) >= p
    PROVE  Cardinality({x \in A : RankIn(A, x) < p}) = p
<1> DEFINE P == {x \in A : RankIn(A, x) < p}
           n == Cardinality(A)
           rank == [x \in P |-> RankIn(A, x)]
<1>1. n \in Nat
  BY FS_CardinalityType
<1>2. \A x \in A : RankIn(A, x) \in 0..(n - 1)
  BY RanksCount
<1>3. \A x, y \in A : x < y => RankIn(A, x) < RankIn(A, y)
  BY RanksCount
<1>4. \A i \in 0..(n - 1) : \E x \in A : RankIn(A, x) = i
  BY RanksCount
<1> HIDE DEF n
<1>11. \A x \in P : RankIn(A, x) \in 0..(p - 1)
  BY <1>1, <1>2
<1>5. rank \in Injection(P, 0..(p - 1))
  <2>1. rank \in [P -> 0..(p - 1)]
    BY <1>11
  <2>2. ASSUME NEW x \in P, NEW y \in P, rank[x] = rank[y] PROVE x = y
    <3>1. x \in Nat /\ y \in Nat /\ ~(x < y) /\ ~(y < x)
      BY <1>1, <1>2, <1>3, <2>2
    <3>2. QED
      BY <3>1
  <2>3. QED
    BY <2>1, <2>2 DEF Injection, IsInjective
<1>6. rank \in Surjection(P, 0..(p - 1))
  <2>1. ASSUME NEW i \in 0..(p - 1) PROVE \E x \in P : rank[x] = i
    <3>1. i \in 0..(n - 1)
      BY <1>1, <1>2
    <3>2. PICK x \in A : RankIn(A, x) = i
      BY <1>4, <3>1
    <3>3. QED
      BY <3>2
  <2>2. rank \in [P -> 0..(p - 1)]
    BY <1>11
  <2>3. QED
    BY <2>1, <2>2 DEF Surjection
<1>7. IsFiniteSet(0..(p - 1)) /\ Cardinality(0..(p - 1)) = p
  BY UpTo
<1>8. QED
  BY <1>5, <1>6, <1>7, FS_Injection

(* Past k entries, and p more, an entry stands at k + p or later.          *)
LEMMA PastPage ==
    ASSUME NEW L, L \subseteq Nat, IsFiniteSet(L), NEW k \in Nat, NEW p \in Nat,
           NEW f \in L, RankIn(L, f) >= k,
           Cardinality({g \in L : RankIn(L, g) >= k /\ g < f}) >= p
    PROVE  RankIn(L, f) >= k + p
<1> DEFINE B == {g \in L : RankIn(L, g) >= k /\ g < f}
           m == RankIn(L, f)
           rank == [g \in B |-> RankIn(L, g)]
<1>1. \A x \in L : RankIn(L, x) \in Nat
  <2>1. \A x \in L : RankIn(L, x) \in 0..(Cardinality(L) - 1)
    BY RanksCount
  <2>2. Cardinality(L) \in Nat
    BY FS_CardinalityType
  <2>3. QED
    BY <2>1, <2>2
<1>2. \A x, y \in L : x < y => RankIn(L, x) < RankIn(L, y)
  BY RanksCount
<1>3. rank \in Injection(B, k..(m - 1))
  <2>1. \A g \in B : RankIn(L, g) \in k..(m - 1)
    BY <1>1, <1>2
  <2>4. rank \in [B -> k..(m - 1)]
    BY <2>1
  <2>2. ASSUME NEW x \in B, NEW y \in B, rank[x] = rank[y] PROVE x = y
    <3>1. x \in Nat /\ y \in Nat /\ ~(x < y) /\ ~(y < x)
      BY <1>1, <1>2, <2>2
    <3>2. QED
      BY <3>1
  <2>3. QED
    BY <2>2, <2>4 DEF Injection, IsInjective
<1>4. m \in Nat /\ m >= k
  BY <1>1
<1>5. IsFiniteSet(k..(m - 1)) /\ Cardinality(k..(m - 1)) = m - k
  <2>1. k \in Int /\ m - 1 \in Int /\ (k > m - 1 <=> m = k) /\ (m - 1) - k + 1 = m - k
    BY <1>4
  <2>2. IsFiniteSet(k..(m - 1))
    BY <2>1, FS_Interval
  <2>3. Cardinality(k..(m - 1)) = IF k > m - 1 THEN 0 ELSE (m - 1) - k + 1
    BY <2>1, FS_Interval
  <2>4. QED
    BY <1>4, <2>1, <2>2, <2>3
<1>6. IsFiniteSet(B) /\ Cardinality(B) <= m - k
  BY <1>3, <1>5, FS_Injection
<1>8. Cardinality(B) \in Nat
  BY <1>6, FS_CardinalityType
<1>7. QED
  BY <1>4, <1>6, <1>8

(* Sets of files are finite sets of numbers.                               *)
LEMMA FilesFinite ==
    ASSUME NEW S, S \subseteq Files
    PROVE  S \subseteq Nat /\ S \subseteq Nat \ {0} /\ IsFiniteSet(S)
<1>1. FileCount \in Nat
  BY ClAssumption
<1>2. Files \subseteq Nat \ {0} /\ Files \in SUBSET Files
  BY <1>1 DEF Files
<1>3. 1 \in Int /\ FileCount \in Int
  BY <1>1
<1>4. IsFiniteSet(Files)
  BY <1>3, FS_Interval DEF Files
<1>5. IsFiniteSet(S)
  BY <1>4, FS_Subset
<1>6. QED
  BY <1>2, <1>5

(* What is listed, what lies ahead and what a page holds are files.        *)
LEMMA ListedFiles == Listed \subseteq Files /\ Ahead \subseteq Listed /\ Page \subseteq Ahead
BY DEF Listed, Ahead, AheadOfOffset, AheadOfToken, Page

(* A file past the page: the listing goes on, and its next start is before *)
(* it.                                                                     *)
LEMMA PastThePage ==
    ASSUME clAfter \in Nat, NEW x \in Ahead, x \notin Page
    PROVE  /\ Continues
           /\ clSetup.provider = "imagekit" => Rank(x) >= NextAfter
           /\ clSetup.provider # "imagekit" => x > NextAfter
<1>1. /\ Ahead \subseteq Nat /\ IsFiniteSet(Ahead)
      /\ Listed \subseteq Nat /\ IsFiniteSet(Listed)
      /\ Page \subseteq Nat /\ IsFiniteSet(Page)
  BY ListedFiles, FilesFinite
<1>2. PageSize \in Nat \ {0}
  BY ClAssumption
<1>3. Page = {g \in Ahead : RankIn(Ahead, g) < PageSize}
  BY DEF Page, RankIn
<1>4. RankIn(Ahead, x) \in Nat
  <2>1. {y \in Ahead : y < x} \in SUBSET Ahead
    OBVIOUS
  <2>2. QED
    BY <1>1, <2>1, FS_Subset, FS_CardinalityType DEF RankIn
<1>5. RankIn(Ahead, x) >= PageSize
  BY <1>2, <1>3, <1>4
<1>6. CASE clSetup.provider = "imagekit"
  <2>1. Cardinality(Page) = PageSize
    BY <1>1, <1>2, <1>3, <1>5, FullPage
  <2>2. Continues
    BY <1>6, <2>1 DEF Continues
  <2>3. Ahead = {g \in Listed : RankIn(Listed, g) >= clAfter}
    BY <1>6 DEF Ahead, AheadOfOffset, Rank, RankIn
  <2>4. x \in Listed /\ RankIn(Listed, x) >= clAfter
    BY <2>3
  <2>5. {g \in Ahead : g < x} = {g \in Listed : RankIn(Listed, g) >= clAfter /\ g < x}
    BY <2>3
  <2>6. Cardinality({g \in Listed : RankIn(Listed, g) >= clAfter /\ g < x}) >= PageSize
    BY <1>5, <2>5 DEF RankIn
  <2>7. RankIn(Listed, x) >= clAfter + PageSize
    BY <1>1, <1>2, <2>4, <2>6, PastPage
  <2>8. QED
    BY <1>6, <2>2, <2>7 DEF NextAfter, Rank, RankIn
<1>7. CASE clSetup.provider # "imagekit"
  <2>1. Continues
    BY <1>7 DEF Continues
  <2>2. x > clAfter
    BY <1>7 DEF Ahead, AheadOfToken
  <2>3. ASSUME NEW y \in Page PROVE y < x
    <3>1. RankIn(Ahead, y) < PageSize /\ y \in Ahead
      BY <1>3
    <3>2. \A a, b \in Ahead : a < b => RankIn(Ahead, a) < RankIn(Ahead, b)
      BY <1>1, RanksCount
    <3>3. RankIn(Ahead, y) \in Nat
      <4>1. {z \in Ahead : z < y} \in SUBSET Ahead
        OBVIOUS
      <4>2. QED
        BY <1>1, <4>1, FS_Subset, FS_CardinalityType DEF RankIn
    <3>4. ~(x < y)
      BY <1>2, <1>4, <1>5, <3>1, <3>2, <3>3
    <3>5. QED
      BY <1>1, <3>1, <3>4
  <2>4. CASE Page = {}
    BY <1>7, <2>1, <2>2, <2>4 DEF NextAfter
  <2>5. CASE Page # {}
    <3>1. Max(Page) \in Page
      BY <1>1, <2>5, HasMinMax
    <3>2. x > Max(Page)
      BY <1>1, <2>3, <3>1
    <3>3. NextAfter = Max(Page)
      BY <1>7, <2>5 DEF NextAfter
    <3>4. QED
      BY <1>7, <2>1, <3>2, <3>3
  <2>6. QED
    BY <2>4, <2>5
<1>8. QED
  BY <1>6, <1>7

(* The next start of a listing is a number.                                *)
LEMMA NextAfterType == ASSUME clAfter \in Nat PROVE NextAfter \in Nat
<1>1. Page \subseteq Nat /\ IsFiniteSet(Page)
  BY ListedFiles, FilesFinite
<1>2. Page # {} => Max(Page) \in Nat
  BY <1>1, HasMinMax
<1>3. PageSize \in Nat
  BY ClAssumption
<1>4. QED
  BY <1>2, <1>3 DEF NextAfter

(* The file of a page that is deleted next is one of it.                   *)
LEMMA NextOfPage == ASSUME clPage \subseteq Files, clPage # {} PROVE Min(clPage) \in clPage
BY FilesFinite, HasMinMax

(* SweepComplete, in terms of what is owed.                                *)
LEMMA NothingOwed == ASSUME ClTypeOK PROVE SweepComplete <=> (clOutcome = "complete" => Owed = {})
BY DEF SweepComplete, Owed

(* Whatever leaves, a file still owed was owed before, and lies ahead if   *)
(* it did: on ImageKit no file before it has left.                         *)
LEMMA LeaveAhead ==
    ASSUME ClTypeOK, NEW fs \in SUBSET Files, Leave(fs),
           UNCHANGED <<clSetup, clCut, clAfter>>, clKept \subseteq clKept',
           NEW x \in Owed'
    PROVE  x \in Owed /\ x \notin fs /\ (x \in Ahead => x \in Ahead')
<1>1. x \in clCut /\ x \in Files /\ x \notin clSetup.hidden /\ x \notin clKept
  BY DEF Owed, ClTypeOK
<1>2. clFiles'[x] = "stale"
  BY DEF Owed
<1>3. x \notin fs /\ clFiles[x] = "stale"
  BY <1>1, <1>2 DEF Leave
<1>4. clSetup.provider = "imagekit" => \A g \in clLeft \cup fs : ~(g < x)
  BY DEF Owed, Leave
<1>5. x \in Owed
  BY <1>1, <1>3, <1>4 DEF Owed
<1>6. ASSUME x \in Ahead PROVE x \in Ahead'
  <2>1. x \in Listed'
    BY <1>1, <1>2 DEF Listed
  <2>2. CASE clSetup.provider = "imagekit"
    <3>1. ASSUME NEW g \in Files, g < x PROVE g \in Listed' <=> g \in Listed
      <4>1. g \notin fs
        BY <1>4, <2>2, <3>1
      <4>2. clFiles'[g] = clFiles[g]
        BY <4>1 DEF Leave
      <4>3. QED
        BY <4>2 DEF Listed
    <3>2. {g \in Listed' : g < x} = {g \in Listed : g < x}
      BY <3>1 DEF Listed
    <3>3. Cardinality({g \in Listed : g < x}) >= clAfter
      BY <1>6, <2>2 DEF Ahead, AheadOfOffset, Rank
    <3>4. QED
      BY <2>1, <2>2, <3>2, <3>3 DEF Ahead, AheadOfOffset, Rank
  <2>3. CASE clSetup.provider # "imagekit"
    BY <1>6, <2>1, <2>3 DEF Ahead, AheadOfToken
  <2>4. QED
    BY <2>2, <2>3
<1>7. QED
  BY <1>3, <1>5, <1>6

(* No cleanup is under way at first.                                       *)
LEMMA ClInitInv == ClInit => ClInv
<1>1. ASSUME ClInit PROVE ClTypeOK
  <2>1. clMore \in BOOLEAN
    BY <1>1, Zenon DEF ClInit
  <2>2. clSetup \in ClSetups \cup {NoSetupYet}
    BY <1>1, Zenon DEF ClInit
  <2>3. clFaults \in 0..MaxFaults
    BY <1>1, ClAssumption DEF ClInit
  <2>4. QED
    BY <1>1, <2>1, <2>2, <2>3 DEF ClInit, ClTypeOK
<1>2. ASSUME ClInit PROVE ClReach /\ SweepComplete
  BY <1>2 DEF ClInit, ClReach, SweepComplete
<1>3. QED
  BY <1>1, <1>2 DEF ClInv

(* A call that fails is counted up to the bound.                           *)
LEMMA FaultType == ASSUME clFaults \in 0..MaxFaults, Fault PROVE clFaults' \in 0..MaxFaults
BY ClAssumption DEF Fault

(* Files that leave keep the types.                                        *)
LEMMA LeaveType ==
    ASSUME ClTypeOK, NEW fs \in SUBSET Files, Leave(fs)
    PROVE  /\ clFiles' \in [Files -> {"absent", "fresh", "stale", "gone"}]
           /\ clLeft' \subseteq Files
           /\ \A f \in Files : clFiles[f] \in {"stale", "gone"} => clFiles'[f] \in {"stale", "gone"}
BY DEF ClTypeOK, Leave

(* A step of somebody else, in whatever state the cleanup is.              *)
LEMMA OtherStep == ASSUME ClInv, Arrive \/ GrowStale \/ TakeAway PROVE ClInv'
<1> USE DEF ClInv
<1>1. CASE Arrive \/ GrowStale
  <2>1. PICK f \in Files, s \in {"fresh", "stale"} :
           /\ clFiles[f] \in {"absent", "fresh"} /\ clFiles' = [clFiles EXCEPT ![f] = s]
    BY <1>1 DEF Arrive, GrowStale
  <2>2. UNCHANGED <<clSetup, clPc, clCut, clAfter, clPage, clMore, clFaults, clOutcome, clLeft, clKept>>
    BY <1>1 DEF Arrive, GrowStale
  <2>3. ClTypeOK'
    BY <2>1, <2>2 DEF ClTypeOK
  <2>4. \A x \in clCut : x # f /\ clFiles'[x] = clFiles[x]
    BY <2>1 DEF ClReach, ClTypeOK
  <2>5. Owed' = Owed
    BY <2>2, <2>4 DEF Owed
  <2>6. Listed \subseteq Listed' /\ IsFiniteSet(Listed')
    <3>1. Listed \subseteq Listed' /\ Listed' \subseteq Files
      BY <2>1, <2>2 DEF Listed, ClTypeOK
    <3>2. QED
      BY <3>1, FilesFinite
  <2>7. Ahead \subseteq Ahead'
    <3>1. CASE clSetup.provider = "imagekit"
      <4>1. ASSUME NEW x \in Ahead PROVE x \in Ahead'
        <5>1. x \in Listed /\ Cardinality({g \in Listed : g < x}) >= clAfter
          BY <3>1 DEF Ahead, AheadOfOffset, Rank
        <5>2. {g \in Listed : g < x} \in SUBSET {g \in Listed' : g < x}
          BY <2>6
        <5>3. {g \in Listed' : g < x} \in SUBSET Listed'
          OBVIOUS
        <5>4. IsFiniteSet({g \in Listed' : g < x})
          BY <2>6, <5>3, FS_Subset
        <5>5. Cardinality({g \in Listed : g < x}) <= Cardinality({g \in Listed' : g < x})
          BY <5>2, <5>4, FS_Subset
        <5>6. Cardinality({g \in Listed : g < x}) \in Nat /\ Cardinality({g \in Listed' : g < x}) \in Nat
          BY <5>2, <5>4, FS_Subset, FS_CardinalityType
        <5>7. clAfter \in Nat
          BY DEF ClTypeOK
        <5>8. Cardinality({g \in Listed' : g < x}) >= clAfter
          BY <5>1, <5>5, <5>6, <5>7
        <5>9. QED
          BY <2>2, <2>6, <3>1, <5>1, <5>8 DEF Ahead, AheadOfOffset, Rank
      <4>2. QED
        BY <4>1
    <3>2. CASE clSetup.provider # "imagekit"
      BY <2>2, <2>6, <3>2 DEF Ahead, AheadOfToken
    <3>3. QED
      BY <3>1, <3>2
  <2>8. ClReach'
    <3>1. clPc = "list" => Owed' \subseteq Ahead'
      BY <2>5, <2>7 DEF ClReach
    <3>2. clPc = "delete" => Owed' \subseteq clPage \cup (IF clMore THEN Ahead' ELSE {})
      BY <2>5, <2>7 DEF ClReach
    <3>3. QED
      BY <2>2, <2>4, <3>1, <3>2 DEF ClReach
  <2>9. SweepComplete'
    BY <2>2, <2>4 DEF SweepComplete
  <2>10. QED
    BY <2>3, <2>8, <2>9
<1>2. CASE TakeAway
  <2>1. PICK f \in Files : Leave({f})
    BY <1>2 DEF TakeAway
  <2>2. UNCHANGED <<clSetup, clPc, clCut, clAfter, clPage, clMore, clFaults, clOutcome, clKept>>
    BY <1>2 DEF TakeAway
  <2>3. {f} \in SUBSET Files
    OBVIOUS
  <2>4. ClTypeOK'
    BY <2>1, <2>2, <2>3, LeaveType DEF ClTypeOK
  <2>5. \A x \in Owed' : x \in Owed /\ (x \in Ahead => x \in Ahead')
    BY <2>1, <2>2, <2>3, LeaveAhead
  <2>6. \A x \in clCut : clFiles'[x] \in {"stale", "gone"}
    BY <2>1, <2>3, LeaveType DEF ClReach, ClTypeOK
  <2>7. ClReach'
    <3>1. clPc = "list" => Owed' \subseteq Ahead'
      BY <2>5 DEF ClReach
    <3>2. clPc = "delete" => Owed' \subseteq clPage \cup (IF clMore THEN Ahead' ELSE {})
      BY <2>5 DEF ClReach
    <3>3. QED
      BY <2>2, <2>6, <3>1, <3>2 DEF ClReach
  <2>8. SweepComplete'
    <3>1. clOutcome' = "complete" => Owed' = {}
      BY <2>2, <2>5, NothingOwed
    <3>2. (ClTypeOK => (SweepComplete <=> (clOutcome = "complete" => Owed = {})))'
      BY NothingOwed, PTL
    <3>3. QED
      BY <2>4, <3>1, <3>2
  <2>9. QED
    BY <2>4, <2>7, <2>8
<1>3. QED
  BY <1>1, <1>2

(* A cleanup that begins owes the stale files of the listing.              *)
LEMMA BeginStep == ASSUME ClInv, ClStart \/ BeginSweep PROVE ClInv'
<1> USE DEF ClInv
<1>1. CASE ClStart
  <2>1. clPc = "off" /\ clPc' = "idle" /\ clOutcome # "complete"
    BY <1>1 DEF ClStart, ClReach
  <2>2. UNCHANGED <<clFiles, clCut, clAfter, clPage, clMore, clFaults, clOutcome, clLeft, clKept>>
    BY <1>1 DEF ClStart
  <2>3. ClTypeOK'
    BY <1>1, <2>2 DEF ClStart, ClTypeOK
  <2>4. ClReach' /\ SweepComplete'
    BY <2>1, <2>2 DEF ClReach, SweepComplete
  <2>5. QED
    BY <2>3, <2>4
<1>2. CASE BeginSweep
  <2>1. /\ clPc' = "list" /\ clCut' = {f \in Files : clFiles[f] = "stale"} /\ clAfter' = 0
        /\ clOutcome' = "none" /\ clLeft' = {} /\ clKept' = {}
        /\ UNCHANGED <<clSetup, clFiles, clPage, clMore, clFaults>>
    BY <1>2 DEF BeginSweep
  <2>2. ClTypeOK'
    BY <2>1 DEF ClTypeOK
  <2>3. ASSUME NEW x \in Owed' PROVE x \in Ahead'
    <3>1. x \in Files /\ clFiles'[x] = "stale" /\ x \notin clSetup'.hidden
      BY <2>1 DEF Owed
    <3>2. x \in Listed'
      BY <3>1 DEF Listed
    <3>3. CASE clSetup.provider = "imagekit"
      <4>1. IsFiniteSet(Listed')
        <5>1. Listed' \subseteq Files
          BY DEF Listed
        <5>2. QED
          BY <5>1, FilesFinite
      <4>2. {g \in Listed' : g < x} \in SUBSET Listed'
        OBVIOUS
      <4>3. Cardinality({g \in Listed' : g < x}) \in Nat
        BY <4>1, <4>2, FS_Subset, FS_CardinalityType
      <4>4. Cardinality({g \in Listed' : g < x}) >= 0
        BY <4>3
      <4>5. QED
        BY <2>1, <3>2, <3>3, <4>4 DEF Ahead, AheadOfOffset, Rank
    <3>4. CASE clSetup.provider # "imagekit"
      <4>1. x > 0
        BY <3>1, FilesFinite
      <4>2. QED
        BY <2>1, <3>2, <3>4, <4>1 DEF Ahead, AheadOfToken
    <3>5. QED
      BY <3>3, <3>4
  <2>4. ClReach'
    BY <2>1, <2>3 DEF ClReach
  <2>5. SweepComplete'
    BY <2>1 DEF SweepComplete
  <2>6. QED
    BY <2>2, <2>4, <2>5
<1>3. QED
  BY <1>1, <1>2

(* A cleanup of which nothing is owed may say that it is complete.         *)
LEMMA EndsWell ==
    ASSUME ClTypeOK', Owed' = {}, \A x \in clCut' : clFiles'[x] \in {"stale", "gone"},
           clPc' = "idle"
    PROVE  ClInv'
<1>1. (ClTypeOK => (SweepComplete <=> (clOutcome = "complete" => Owed = {})))'
  BY NothingOwed, PTL
<1>2. SweepComplete'
  BY <1>1
<1>3. ClReach'
  BY DEF ClReach
<1>4. QED
  BY <1>2, <1>3 DEF ClInv

(* A cleanup that fails promises nothing.                                  *)
LEMMA EndsFailed ==
    ASSUME ClTypeOK', \A x \in clCut' : clFiles'[x] \in {"stale", "gone"},
           clPc' = "idle", clOutcome' = "failed"
    PROVE  ClInv'
BY DEF ClInv, ClReach, SweepComplete

(* A page listed holds what is owed, or the rest still lies ahead.         *)
LEMMA ListStep == ASSUME ClInv, ListPage PROVE ClInv'
<1> USE DEF ClInv
<1>1. UNCHANGED <<clSetup, clFiles, clCut, clLeft, clKept>> /\ clPc = "list"
  BY DEF ListPage
<1>2. \A x \in clCut' : clFiles'[x] \in {"stale", "gone"}
  BY <1>1 DEF ClReach
<1>3. CASE Fault /\ End("failed") /\ UNCHANGED <<clAfter, clPage, clMore>>
  <2>1. ClTypeOK'
    BY <1>1, <1>3, FaultType DEF ClTypeOK, End
  <2>2. QED
    BY <1>2, <1>3, <2>1, EndsFailed DEF End
<1>4. CASE /\ clPage' = Page \cap clCut /\ clMore' = Continues /\ clAfter' = NextAfter
           /\ IF Page \cap clCut # {} THEN clPc' = "delete" /\ UNCHANGED clOutcome
              ELSE IF Continues THEN UNCHANGED <<clPc, clOutcome>> ELSE End("complete")
           /\ UNCHANGED clFaults
  <2>1. clMore' \in BOOLEAN
    BY <1>4, Zenon DEF Continues
  <2>2. clAfter' \in Nat
    BY <1>4, NextAfterType DEF ClTypeOK
  <2>3. clPage' \subseteq Files
    BY <1>4 DEF ClTypeOK
  <2>4. clPc' \in {"idle", "list", "delete"} /\ clOutcome' \in {"none", "complete", "failed"}
    BY <1>1, <1>4 DEF ClTypeOK, End
  <2>5. ClTypeOK'
    BY <1>1, <1>4, <2>1, <2>2, <2>3, <2>4 DEF ClTypeOK
  <2>6. Owed' = Owed /\ Owed \subseteq clCut
    BY <1>1 DEF Owed
  <2>7. ASSUME NEW x \in Owed, x \notin Page PROVE Continues /\ x \in Ahead'
    <3>1. clAfter \in Nat /\ x \in Ahead
      BY <1>1 DEF ClReach, ClTypeOK
    <3>2. /\ Continues
          /\ clSetup.provider = "imagekit" => Rank(x) >= NextAfter
          /\ clSetup.provider # "imagekit" => x > NextAfter
      BY <2>7, <3>1, PastThePage
    <3>3. Listed' = Listed /\ x \in Listed
      BY <1>1, <3>1, ListedFiles DEF Listed
    <3>4. CASE clSetup.provider = "imagekit"
      BY <1>1, <1>4, <3>2, <3>3, <3>4 DEF Ahead, AheadOfOffset, Rank
    <3>5. CASE clSetup.provider # "imagekit"
      BY <1>1, <1>4, <3>2, <3>3, <3>5 DEF Ahead, AheadOfToken
    <3>6. QED
      BY <3>2, <3>4, <3>5
  <2>8. CASE Page \cap clCut # {}
    <3>1. clPc' = "delete" /\ clOutcome' = clOutcome /\ clOutcome # "complete" /\ clPage' # {}
      BY <1>1, <1>4, <2>8 DEF ClReach
    <3>2. Owed' \subseteq clPage' \cup (IF clMore' THEN Ahead' ELSE {})
      BY <1>4, <2>6, <2>7
    <3>3. ClReach' /\ SweepComplete'
      BY <1>2, <3>1, <3>2 DEF ClReach, SweepComplete
    <3>4. QED
      BY <2>5, <3>3
  <2>9. CASE Page \cap clCut = {} /\ Continues
    <3>1. clPc' = "list" /\ clOutcome' = clOutcome /\ clOutcome # "complete"
      BY <1>1, <1>4, <2>9 DEF ClReach
    <3>2. Owed' \subseteq Ahead'
      BY <2>6, <2>7, <2>9
    <3>3. ClReach' /\ SweepComplete'
      BY <1>2, <3>1, <3>2 DEF ClReach, SweepComplete
    <3>4. QED
      BY <2>5, <3>3
  <2>10. CASE Page \cap clCut = {} /\ ~Continues
    <3>1. clPc' = "idle"
      BY <1>4, <2>10 DEF End
    <3>2. Owed' = {}
      BY <2>6, <2>7, <2>10
    <3>3. QED
      BY <1>2, <2>5, <3>1, <3>2, EndsWell
  <2>11. QED
    BY <2>8, <2>9, <2>10
<1>5. QED
  BY <1>3, <1>4 DEF ListPage

(* Files that leave while a page is deleted: what is owed but on the page   *)
(* that is left lies ahead, and the cleanup ends only when nothing does.   *)
LEMMA DeleteStep ==
    ASSUME ClInv, clPc = "delete", NEW fs \in SUBSET Files, Leave(fs),
           UNCHANGED <<clSetup, clCut, clAfter, clMore>>,
           clKept \subseteq clKept', clKept' \subseteq Files, clFaults' \in 0..MaxFaults,
           clPage' \subseteq clPage, clPage \subseteq clPage' \cup fs \cup clKept',
           IF clPage' = {} THEN AfterPage ELSE UNCHANGED <<clPc, clOutcome>>
    PROVE  ClInv'
<1> USE DEF ClInv
<1>1. clPc' \in {"idle", "list", "delete"} /\ clOutcome' \in {"none", "complete", "failed"}
  BY DEF ClTypeOK, AfterPage, End
<1>2. ClTypeOK'
  BY <1>1, LeaveType DEF ClTypeOK
<1>3. \A x \in clCut' : clFiles'[x] \in {"stale", "gone"}
  BY LeaveType DEF ClReach, ClTypeOK
<1>4. clOutcome # "complete"
  BY DEF ClReach
<1>5. ASSUME NEW x \in Owed' PROVE x \in clPage' \/ (clMore /\ x \in Ahead')
  <2>1. x \in Owed /\ x \notin fs /\ (x \in Ahead => x \in Ahead')
    BY LeaveAhead
  <2>2. x \notin clKept'
    BY DEF Owed
  <2>3. x \in clPage \/ (clMore /\ x \in Ahead)
    BY <2>1 DEF ClReach
  <2>4. QED
    BY <2>1, <2>2, <2>3
<1>6. CASE clPage' # {}
  <2>1. clPc' = "delete" /\ clOutcome' = clOutcome
    BY <1>6
  <2>2. Owed' \subseteq clPage' \cup (IF clMore' THEN Ahead' ELSE {})
    BY <1>5
  <2>3. QED
    BY <1>2, <1>3, <1>4, <1>6, <2>1, <2>2 DEF ClReach, SweepComplete
<1>7. CASE clPage' = {} /\ clMore
  <2>1. clPc' = "list" /\ clOutcome' = clOutcome
    BY <1>7 DEF AfterPage
  <2>2. Owed' \subseteq Ahead'
    BY <1>5, <1>7
  <2>3. QED
    BY <1>2, <1>3, <1>4, <2>1, <2>2 DEF ClReach, SweepComplete
<1>8. CASE clPage' = {} /\ ~clMore
  <2>1. clPc' = "idle"
    BY <1>8 DEF AfterPage, End
  <2>2. Owed' = {}
    BY <1>5, <1>8
  <2>3. QED
    BY <1>2, <1>3, <2>1, <2>2, EndsWell
<1>9. QED
  BY <1>6, <1>7, <1>8

(* The deletes of each provider, and the walk of the local disk.           *)
LEMMA SweepStep == ASSUME ClInv, DeletePage \/ DestroyNext \/ DeleteFileNext \/ SweepLocal PROVE ClInv'
<1> USE DEF ClInv
<1>1. clPage \subseteq Files /\ clKept \subseteq Files /\ clLeft \subseteq Files
  BY DEF ClTypeOK
<1>2. CASE DeletePage
  <2>1. clPc = "delete" /\ clPage' = {} /\ UNCHANGED <<clSetup, clCut, clAfter, clMore>>
    BY <1>2 DEF DeletePage
  <2>2. CASE Leave(clPage) /\ AfterPage /\ UNCHANGED <<clFaults, clKept>>
    BY <1>1, <2>1, <2>2, DeleteStep DEF ClTypeOK
  <2>3. ASSUME NEW f \in clPage, Leave(clPage \ {f}), AfterPage, Fault, clKept' = clKept \cup {f}
        PROVE  ClInv'
    <3>1. clFaults' \in 0..MaxFaults
      BY <2>3, FaultType DEF ClTypeOK
    <3>2. clPage \subseteq {} \cup (clPage \ {f}) \cup clKept'
      BY <2>3
    <3>3. QED
      BY <1>1, <2>1, <2>3, <3>1, <3>2, DeleteStep
  <2>4. CASE Fault /\ End("failed") /\ UNCHANGED <<clFiles, clLeft, clKept>>
    <3>1. ClTypeOK'
      BY <2>1, <2>4, FaultType DEF ClTypeOK, End
    <3>2. QED
      BY <2>1, <2>4, <3>1, EndsFailed DEF End, ClReach
  <2>5. QED
    BY <1>2, <2>2, <2>3, <2>4 DEF DeletePage
<1>3. CASE DestroyNext \/ DeleteFileNext
  <2>1. clPc = "delete" /\ UNCHANGED <<clSetup, clCut, clAfter, clMore, clKept>>
    BY <1>3 DEF DestroyNext, DeleteFileNext
  <2>2. Min(clPage) \in clPage
    BY <1>1, <2>1, NextOfPage DEF ClReach
  <2>3. CASE DeleteNext
    <3>1. Leave({Min(clPage)}) /\ clPage' = clPage \ {Min(clPage)} /\ UNCHANGED clFaults
      BY <2>3 DEF DeleteNext
    <3>2. IF clPage' = {} THEN AfterPage ELSE UNCHANGED <<clPc, clOutcome>>
      BY <2>3 DEF DeleteNext
    <3>3. {Min(clPage)} \in SUBSET Files /\ clFaults' \in 0..MaxFaults
      BY <1>1, <2>2, <3>1 DEF ClTypeOK
    <3>4. clPage' \subseteq clPage /\ clPage \subseteq clPage' \cup {Min(clPage)} \cup clKept'
      BY <3>1
    <3>5. QED
      BY <1>1, <2>1, <3>1, <3>2, <3>3, <3>4, DeleteStep
  <2>4. CASE FailSweep /\ clFaults' \in 0..MaxFaults
    <3>1. ClTypeOK'
      BY <2>1, <2>4 DEF ClTypeOK, FailSweep, End
    <3>2. QED
      BY <2>1, <2>4, <3>1, EndsFailed DEF FailSweep, End, ClReach
  <2>5. DeleteNext \/ (FailSweep /\ clFaults' \in 0..MaxFaults)
    BY <1>3, FaultType DEF DestroyNext, DeleteFileNext, ClTypeOK
  <2>6. QED
    BY <2>3, <2>4, <2>5
<1>4. CASE SweepLocal
  <2> DEFINE stale == {f \in clCut : clFiles[f] = "stale"}
  <2>1. UNCHANGED <<clSetup, clCut, clAfter, clPage, clMore>> /\ clPc' = "idle" /\ clOutcome' = "complete"
    BY <1>4 DEF SweepLocal, End
  <2>2. PICK fs \in SUBSET stale :
           /\ Leave(fs) /\ stale \ fs \subseteq clKept'
           /\ clFaults' \in 0..MaxFaults /\ clKept' \subseteq Files
    <3>1. stale \subseteq Files
      BY DEF ClTypeOK
    <3>2. CASE Leave(stale) /\ UNCHANGED <<clFaults, clKept>>
      BY <1>1, <3>2 DEF ClTypeOK
    <3>3. ASSUME NEW f \in stale, Leave(stale \ {f}), Fault, clKept' = {f}
          PROVE  /\ Leave(stale \ {f}) /\ stale \ (stale \ {f}) \subseteq clKept'
                 /\ clFaults' \in 0..MaxFaults /\ clKept' \subseteq Files
      BY <3>1, <3>3, FaultType DEF ClTypeOK
    <3>4. QED
      BY <1>4, <3>2, <3>3 DEF SweepLocal
  <2>3. fs \in SUBSET Files
    BY <2>2 DEF ClTypeOK
  <2>4. ClTypeOK'
    BY <2>1, <2>2, <2>3, LeaveType DEF ClTypeOK
  <2>5. ASSUME NEW x \in Owed' PROVE FALSE
    <3>1. x \in clCut /\ x \in Files /\ clFiles'[x] = "stale" /\ x \notin clKept'
      BY <2>1, <2>4 DEF Owed, ClTypeOK
    <3>2. x \notin fs /\ clFiles[x] = "stale"
      BY <2>2, <3>1 DEF Leave
    <3>3. QED
      BY <2>2, <3>1, <3>2
  <2>6. Owed' = {}
    BY <2>5
  <2>7. \A x \in clCut' : clFiles'[x] \in {"stale", "gone"}
    BY <2>1, <2>2, <2>3, LeaveType DEF ClReach, ClTypeOK
  <2>8. QED
    BY <2>1, <2>4, <2>6, <2>7, EndsWell
<1>5. QED
  BY <1>2, <1>3, <1>4

(* A step that changes nothing of the cleanup.                             *)
LEMMA ClStutter == ASSUME ClInv, UNCHANGED clVars PROVE ClInv'
<1>1. UNCHANGED <<clSetup, clFiles, clPc, clCut, clAfter, clPage, clMore, clFaults, clOutcome, clLeft, clKept>>
  BY DEF clVars
<1>2. ClTypeOK'
  BY <1>1 DEF ClInv, ClTypeOK
<1>3. Listed' = Listed
  BY <1>1 DEF Listed
<1>4. Ahead' = Ahead
  BY <1>1, <1>3 DEF Ahead, AheadOfOffset, AheadOfToken, Rank
<1>5. Owed' = Owed
  BY <1>1 DEF Owed
<1>6. ClReach'
  BY <1>1, <1>4, <1>5 DEF ClInv, ClReach
<1>7. SweepComplete'
  BY <1>1 DEF ClInv, SweepComplete
<1>8. QED
  BY <1>2, <1>6, <1>7 DEF ClInv

(* Where the owed files of a cleanup lie is inductive.                     *)
THEOREM CleanupInvariance == ClSpec => []ClInv
<1>1. ASSUME ClInv, [ClNext]_clVars PROVE ClInv'
  BY <1>1, OtherStep, BeginStep, ListStep, SweepStep, ClStutter DEF ClNext, Sweep
<1>2. QED
  BY <1>1, ClInitInv, PTL DEF ClSpec

(* A cleanup that completes leaves no listed file that was stale when it   *)
(* began, but for unnoticed failures and, on ImageKit, files that moved up *)
(* a page: for any number of files, any page size and any number of faults *)
(* (the loops of the cleanupTemp methods).                                 *)
THEOREM SweepLeavesNothing == ClSpec => []SweepComplete
BY CleanupInvariance, PTL DEF ClInv
----------------------------------------------------------------------------
(* Sets of users are finite, and no larger than all of them.               *)
LEMMA UsersFinite ==
    ASSUME NEW S, S \subseteq ListedUsers
    PROVE  IsFiniteSet(S) /\ Cardinality(S) \in 0..UserCount
<1>1. UserCount \in Nat
  BY ListAssumption
<1>2. 1 \in Int /\ UserCount \in Int /\ (1 > UserCount <=> UserCount = 0) /\ UserCount - 1 + 1 = UserCount
  BY <1>1
<1>3. IsFiniteSet(ListedUsers)
  BY <1>2, FS_Interval DEF ListedUsers
<1>4. Cardinality(ListedUsers) = IF 1 > UserCount THEN 0 ELSE UserCount - 1 + 1
  BY <1>2, FS_Interval DEF ListedUsers
<1>5. Cardinality(ListedUsers) = UserCount
  BY <1>2, <1>4
<1>6. S \in SUBSET ListedUsers
  OBVIOUS
<1>7. IsFiniteSet(S) /\ Cardinality(S) <= Cardinality(ListedUsers)
  BY <1>3, <1>6, FS_Subset
<1>8. Cardinality(S) \in Nat
  BY <1>7, FS_CardinalityType
<1>9. QED
  BY <1>1, <1>5, <1>7, <1>8

(* Showing a user counts up to two.                                        *)
LEMMA OnceMore ==
    ASSUME NEW s \in 0..2
    PROVE  Min({s + 1, 2}) = IF s = 0 THEN 1 ELSE 2
<1>1. CASE s = 0
  <2>1. 1 \in {s + 1, 2} /\ \A y \in {s + 1, 2} : 1 <= y
    BY <1>1
  <2>2. \A x \in {s + 1, 2} : (\A y \in {s + 1, 2} : x <= y) => x = 1
    BY <1>1
  <2>3. QED
    BY <1>1, <2>1, <2>2 DEF Min
<1>2. CASE s # 0
  <2>1. 2 \in {s + 1, 2} /\ \A y \in {s + 1, 2} : 2 <= y
    BY <1>2
  <2>2. \A x \in {s + 1, 2} : (\A y \in {s + 1, 2} : x <= y) => x = 2
    BY <1>2
  <2>3. QED
    BY <1>2, <2>1, <2>2 DEF Min
<1>3. QED
  BY <1>1, <1>2

(* A place is a number below that of the rows, and counts the rows before. *)
LEMMA PlaceBelow ==
    ASSUME ListTypeOK, NEW u \in PresentIn(ulKey)
    PROVE  Place(u) \in Nat /\ Place(u) < Cardinality(PresentIn(ulKey))
<1> DEFINE before == {v \in PresentIn(ulKey) : Before(v, u)}
<1>1. PresentIn(ulKey) \subseteq ListedUsers /\ before \subseteq ListedUsers
  BY DEF PresentIn
<1>2. ulKey[u] \in Nat /\ u \notin before
  <2>1. ulKey[u] \in 0..KeyCount /\ KeyCount \in Nat
    BY ListAssumption DEF ListTypeOK, PresentIn
  <2>2. QED
    BY <2>1 DEF Before
<1>3. IsFiniteSet(before) /\ Cardinality(before) \in Nat
  BY <1>1, UsersFinite, ListAssumption
<1>4. Cardinality(before \cup {u}) = Cardinality(before) + 1
  BY <1>2, <1>3, FS_AddElement
<1>5. before \cup {u} \in SUBSET PresentIn(ulKey) /\ IsFiniteSet(PresentIn(ulKey))
  BY <1>1, UsersFinite
<1>6. Cardinality(before \cup {u}) <= Cardinality(PresentIn(ulKey))
  BY <1>5, FS_Subset
<1>7. Cardinality(PresentIn(ulKey)) \in Nat
  BY <1>5, FS_CardinalityType
<1>8. Place(u) = Cardinality(before)
  BY DEF Place
<1>9. QED
  BY <1>3, <1>4, <1>6, <1>7, <1>8

(* The page size is a positive number.                                     *)
LEMMA LimitType == ASSUME ListTypeOK PROVE ulSort.limit \in Nat \ {0}
<1>1. ulSort.limit \in Limits \cup {1}
  BY Zenon DEF ListTypeOK
<1>2. \A l \in Limits \cup {1} : l \in Nat \ {0}
  BY ListAssumption
<1>3. QED
  BY <1>1, <1>2

(* Without equal keys a page shows who stands at its places.               *)
LEMMA PageShows ==
    ASSUME ListTypeOK, ulPage >= 1, ~Ties(ulKey), NEW items \in SUBSET PresentIn(ulKey),
           IsPage(items), NEW u \in PresentIn(ulKey)
    PROVE  u \in items <=> Place(u) >= Skip /\ Place(u) < Skip + ulSort.limit
<1> DEFINE group == {v \in PresentIn(ulKey) : ulKey[v] = ulKey[u]}
           places == (Place(u) + 1)..(Place(u) + Cardinality(group))
           window == (Skip + 1)..(Skip + ulSort.limit)
           at == Place(u) + 1
<1>1. Cardinality(items \cap group) = Cardinality(places \cap window)
  BY DEF IsPage, Place
<1>2. group = {u}
  BY DEF Ties
<1>3. Cardinality(group) = 1
  BY <1>2, FS_Singleton
<1>4. Place(u) \in Nat
  BY PlaceBelow
<1>5. places = {at}
  BY <1>3, <1>4
<1>6. Cardinality(items \cap group) = Cardinality({at} \cap window)
  BY <1>1, <1>5
<1>7. Skip \in Nat /\ ulSort.limit \in Nat
  <2>1. ulPage \in 0..(UserCount + 1) /\ UserCount \in Nat
    BY ListAssumption DEF ListTypeOK
  <2>2. ulPage - 1 \in Nat
    BY <2>1
  <2>3. ulSort.limit \in Nat
    BY LimitType
  <2>4. QED
    BY <2>2, <2>3 DEF Skip
<1>8. u \in items <=> at \in window
  <2> HIDE DEF at, window, group
  <2>1. ASSUME u \in items, at \notin window PROVE FALSE
    <3>1. items \cap group = {u} /\ {at} \cap window = {}
      BY <1>2, <2>1
    <3>2. Cardinality({u}) = Cardinality({})
      BY <1>6, <3>1
    <3>3. QED
      BY <3>2, FS_Singleton, FS_EmptySet
  <2>2. ASSUME u \notin items, at \in window PROVE FALSE
    <3>1. items \cap group = {} /\ {at} \cap window = {at}
      BY <1>2, <2>2
    <3>2. Cardinality({}) = Cardinality({at})
      BY <1>6, <3>1
    <3>3. QED
      BY <3>2, FS_Singleton, FS_EmptySet
  <2>3. QED
    BY <2>1, <2>2
<1>9. QED
  BY <1>4, <1>7, <1>8

(* A count above the places covered means that there is a next page.       *)
LEMMA CountGoesOn ==
    ASSUME NEW t \in Nat, NEW l \in Nat \ {0}, NEW p \in Nat, t > p * l
    PROVE  p < (t + l - 1) \div l
<1> DEFINE d == (t + l - 1) \div l
<1>1. t + l - 1 \in Nat
  OBVIOUS
<1>2. d \in Nat /\ t + l - 1 < (d + 1) * l
  BY <1>1
<1>3. SUFFICES ASSUME d <= p PROVE FALSE
  BY <1>2
<1> HIDE DEF d
<1>4. (d + 1) * l <= (p + 1) * l
  BY <1>2, <1>3
<1>5. (p + 1) * l = p * l + l
  OBVIOUS
<1>6. p * l \in Nat /\ (d + 1) * l \in Nat
  BY <1>2
<1>7. QED
  BY <1>2, <1>4, <1>5, <1>6

(* Nobody walks at first.                                                  *)
LEMMA ListInitInv == ListInit => ListInv
<1>1. ASSUME ListInit PROVE ListTypeOK
  <2>1. ulSort \in [by : {"createdAt", "name"}, desc : BOOLEAN, limit : Limits \cup {1}]
    <3>1. TRUE \in BOOLEAN /\ 1 \in Limits \cup {1} /\ "createdAt" \in {"createdAt", "name"}
      BY Zenon
    <3>2. QED
      BY <1>1, <3>1, Zenon DEF ListInit
  <2>2. QED
    <3>1. UserCount \in Nat /\ KeyCount \in Nat /\ MaxChanges \in Nat
      BY ListAssumption
    <3>2. /\ ulKey \in [ListedUsers -> 0..KeyCount] /\ ulSeen \in [ListedUsers -> 0..2]
          /\ ulPage \in 0..(UserCount + 1) /\ ulTotal \in 0..NotRead /\ ulChanges \in 0..MaxChanges
      BY <1>1, <3>1 DEF ListInit, NotRead
    <3>3. ulItems \in (SUBSET ListedUsers) \cup {NoItems}
      BY <1>1, Zenon DEF ListInit
    <3>4. QED
      BY <1>1, <2>1, <3>2, <3>3 DEF ListInit, ListTypeOK
<1>2. ASSUME ListInit PROVE WalkShape /\ NotYetShown /\ AlreadyShown
  BY <1>2 DEF ListInit, WalkShape, NotYetShown, AlreadyShown
<1>3. QED
  BY <1>1, <1>2 DEF ListInv

(* What happened stays on record, and so do equal keys.                    *)
LEMMA NoteKeeps ==
    ASSUME NEW events, Note(events)
    PROVE  ulEvents \subseteq ulEvents' /\ events \subseteq ulEvents' /\ (Ties(ulKey') => "tied" \in ulEvents')
           /\ ulEvents' \subseteq ulEvents \cup events \cup {"tied"}
BY DEF Note

(* The steps of a walk, and the changes meanwhile, keep the types.         *)
LEMMA ListStepTypeOK == ASSUME ListInv, ListNext PROVE ListTypeOK'
<1> USE DEF ListInv
<1>1. UserCount \in Nat /\ KeyCount \in Nat /\ MaxChanges \in Nat
  BY ListAssumption
<1>2. CASE ListStart
  <2>1. ulSort' \in [by : {"createdAt", "name"}, desc : BOOLEAN, limit : Limits \cup {1}]
    <3>1. ulSort' \in [by : {"createdAt", "name"}, desc : BOOLEAN, limit : Limits]
      BY <1>2, Zenon DEF ListStart
    <3>2. QED
      BY <3>1, Zenon
  <2>2. ulEvents' \subseteq {"created", "removed", "moved", "tied", "between"}
    BY <1>2 DEF ListStart, Note, ListTypeOK
  <2>3. QED
    BY <1>1, <1>2, <2>1, <2>2 DEF ListStart, ListTypeOK, PresentIn
<1>3. CASE FindMany
  <2>1. ulItems' \in SUBSET ListedUsers
    BY <1>3 DEF FindMany, PresentIn
  <2>2. \A u \in ListedUsers : ulSeen[u] \in 0..2 /\ Min({ulSeen[u] + 1, 2}) \in 0..2
    <3>1. \A u \in ListedUsers : ulSeen[u] \in 0..2
      BY DEF ListTypeOK
    <3>2. \A s \in 0..2 : Min({s + 1, 2}) \in 0..2
      BY OnceMore
    <3>3. QED
      BY <3>1, <3>2
  <2>3. ulSeen' \in [ListedUsers -> 0..2]
    BY <1>3, <2>2 DEF FindMany
  <2>4. QED
    BY <1>3, <2>1, <2>3 DEF FindMany, ListTypeOK
<1>4. CASE CountUsers
  <2>1. Cardinality(PresentIn(ulKey)) \in 0..UserCount
    BY UsersFinite DEF PresentIn
  <2>2. ulTotal' \in 0..NotRead
    BY <1>1, <1>4, <2>1 DEF CountUsers, NotRead
  <2>3. QED
    BY <1>4, <2>2 DEF CountUsers, ListTypeOK
<1>5. CASE AnswerPage
  <2>1. ulPc' \in {"read", "done"}
    BY <1>5 DEF AnswerPage
  <2>2. ulTotal' \in 0..NotRead
    BY <1>1, <1>5 DEF AnswerPage, NotRead
  <2>3. ulItems' \in (SUBSET ListedUsers) \cup {NoItems}
    BY <1>5, Zenon DEF AnswerPage
  <2>4. QED
    BY <1>5, <2>1, <2>2, <2>3 DEF AnswerPage, ListTypeOK
<1>6. CASE NextPage
  BY <1>1, <1>6 DEF NextPage, ListTypeOK, WalkShape
<1>7. CASE CreateUser \/ RemoveUser \/ RenameUser
  <2>1. ulChanges' \in 0..MaxChanges /\ UnchangedByChange
    BY <1>1, <1>7 DEF CreateUser, RemoveUser, RenameUser, Change, ListTypeOK
  <2>2. ulKey' \in [ListedUsers -> 0..KeyCount] /\ ulStayed' \subseteq ListedUsers
    BY <1>1, <1>7 DEF CreateUser, RemoveUser, RenameUser, ListTypeOK, PresentIn, Keys
  <2>3. ulEvents' \subseteq {"created", "removed", "moved", "tied", "between"}
    <3>1. PICK events \in SUBSET {"created", "between", "removed", "moved"} : Note(events)
      BY <1>7 DEF CreateUser, RemoveUser, RenameUser
    <3>2. QED
      BY <3>1 DEF Note, ListTypeOK
  <2>4. QED
    BY <2>1, <2>2, <2>3 DEF ListTypeOK, UnchangedByChange
<1>8. QED
  BY <1>2, <1>3, <1>4, <1>5, <1>6, <1>7 DEF ListNext

(* Places depend on the rows and the order only.                           *)
LEMMA SamePlaces ==
    ASSUME UNCHANGED <<ulSort, ulKey>>
    PROVE  (\A u \in ListedUsers : Place(u)' = Place(u)) /\ (Ties(ulKey') <=> Ties(ulKey))
<1>1. ASSUME NEW u \in ListedUsers PROVE Place(u)' = Place(u)
  BY DEF Place, Before, PresentIn
<1>2. QED
  BY <1>1

(* The pages up to one that is answered cover that many places.            *)
LEMMA CoveredType ==
    ASSUME ListTypeOK, ulPage >= 1
    PROVE  /\ Skip \in Nat /\ ulSort.limit \in Nat \ {0} /\ Covered \in Nat
           /\ Skip + ulSort.limit = ulPage * ulSort.limit
<1>1. UserCount \in Nat /\ ulPage \in 0..(UserCount + 1) /\ ulSort.limit \in Nat \ {0}
  BY ListAssumption, LimitType DEF ListTypeOK
<1>2. ulPage \in Nat /\ ulPage - 1 \in Nat
  BY <1>1
<1> DEFINE l == ulSort.limit
<1> HIDE DEF l
<1>3. l \in Nat \ {0} /\ Skip = (ulPage - 1) * l
  BY <1>1 DEF Skip, l
<1>4. Skip \in Nat /\ Skip + l = ulPage * l
  BY <1>2, <1>3
<1>5. Covered = Skip \/ Covered = Skip + l
  BY DEF Covered, l
<1>6. QED
  BY <1>3, <1>4, <1>5 DEF l

(* A walk that starts has covered nothing.                                 *)
LEMMA StartOfWalk == ASSUME ListInv, ListStart PROVE ListInv'
<1> USE DEF ListInv
<1>1. ListTypeOK'
  BY ListStepTypeOK DEF ListNext
<1>2. /\ ulPc = "off" /\ ulPc' = "query" /\ ulPage' = 1 /\ ulItems' = NoItems /\ ulTotal' = NotRead
      /\ ulEvents = {} /\ ulSeen' = ulSeen /\ (\A u \in ListedUsers : ulSeen[u] = 0)
      /\ ulStayed' = PresentIn(ulKey')
  BY DEF ListStart, WalkShape
<1>3. Ties(ulKey') => "tied" \in ulEvents'
  BY NoteKeeps DEF ListStart
<1>4. WalkShape'
  BY <1>2, <1>3 DEF WalkShape
<1>5. Covered' = 0
  <2>1. (ListTypeOK => ulSort.limit \in Nat \ {0})'
    BY LimitType, PTL
  <2>2. Skip' = 0
    BY <1>1, <1>2, <2>1 DEF Skip
  <2>3. QED
    BY <1>2, <2>2 DEF Covered
<1>6. NotYetShown'
  <2>1. ASSUME NEW u \in ulStayed' PROVE Place(u)' >= 0
    <3> DEFINE before == {v \in PresentIn(ulKey)' : Before(v, u)'}
    <3>1. Place(u)' = Cardinality(before)
      BY DEF Place
    <3>2. before \subseteq ListedUsers
      BY DEF PresentIn
    <3>3. Cardinality(before) \in 0..UserCount
      BY <3>2, UsersFinite
    <3>4. QED
      BY <3>1, <3>3, ListAssumption
  <2>2. QED
    BY <1>2, <1>5, <2>1 DEF NotYetShown
<1>7. AlreadyShown'
  BY <1>2 DEF AlreadyShown
<1>8. QED
  BY <1>1, <1>4, <1>6, <1>7

(* The query of a page shows who stands at its places, and covers them.    *)
LEMMA FindManyStep == ASSUME ListInv, FindMany PROVE ListInv'
<1> USE DEF ListInv
<1>1. ListTypeOK'
  BY ListStepTypeOK DEF ListNext
<1>2. /\ ulPc = "query" /\ ulItems = NoItems
      /\ UNCHANGED <<ulSort, ulKey, ulPage, ulTotal, ulPc, ulChanges, ulStayed, ulEvents>>
      /\ ulItems' \in SUBSET PresentIn(ulKey) /\ IsPage(ulItems')
  BY DEF FindMany
<1>3. ulItems' # NoItems
  <2>1. 0 \notin ulItems'
    BY <1>2, ListAssumption DEF PresentIn, ListedUsers
  <2>2. QED
    BY <2>1 DEF NoItems
<1>4. (\A u \in ListedUsers : Place(u)' = Place(u)) /\ (Ties(ulKey') <=> Ties(ulKey))
  BY <1>2, SamePlaces
<1>5. ulPage >= 1 /\ Skip \in Nat /\ ulSort.limit \in Nat \ {0} /\ Covered = Skip
  BY <1>2, CoveredType DEF WalkShape, Covered
<1>6. Covered' = Skip + ulSort.limit
  BY <1>2, <1>3 DEF Covered, Skip
<1>7. WalkShape'
  BY <1>2, <1>4 DEF WalkShape
<1>8. ASSUME NEW u \in ListedUsers
      PROVE  /\ ulSeen[u] \in 0..2
             /\ u \in ulItems' => ulSeen'[u] = IF ulSeen[u] = 0 THEN 1 ELSE 2
             /\ u \notin ulItems' => ulSeen'[u] = ulSeen[u]
  <2>1. ulSeen[u] \in 0..2
    BY DEF ListTypeOK
  <2>2. ulSeen'[u] = IF u \in ulItems' THEN Min({ulSeen[u] + 1, 2}) ELSE ulSeen[u]
    BY DEF FindMany
  <2>3. QED
    BY <2>1, <2>2, OnceMore
<1>9. ASSUME ~Ties(ulKey), NEW u \in PresentIn(ulKey)
      PROVE  u \in ulItems' <=> Place(u) >= Skip /\ Place(u) < Skip + ulSort.limit
  BY <1>2, <1>5, <1>9, PageShows
<1>10. NotYetShown'
  <2>1. SUFFICES ASSUME ulEvents \cap {"removed", "moved", "tied", "between"} = {}
                 PROVE  /\ ulStayed \subseteq PresentIn(ulKey)
                        /\ \A u \in ulStayed :
                             ulSeen'[u] = 0 =>
                                 Place(u)' >= Covered' /\ (ulTotal # NotRead => ulTotal > Covered')
    BY <1>2, <1>3 DEF NotYetShown
  <2>2. ~Ties(ulKey) /\ ulStayed \subseteq PresentIn(ulKey)
    BY <1>2, <2>1 DEF WalkShape, NotYetShown
  <2>3. ASSUME NEW u \in ulStayed, ulSeen'[u] = 0
        PROVE  Place(u)' >= Covered' /\ (ulTotal # NotRead => ulTotal > Covered')
    <3>1. u \in PresentIn(ulKey) /\ u \in ListedUsers
      BY <2>2 DEF PresentIn
    <3>2. u \notin ulItems' /\ ulSeen[u] = 0
      BY <1>8, <2>3, <3>1
    <3>3. Place(u) >= Skip
      BY <1>2, <1>5, <2>1, <3>2 DEF NotYetShown
    <3>4. Place(u) \in Nat /\ Place(u) < Cardinality(PresentIn(ulKey))
      BY <3>1, PlaceBelow
    <3>5. Place(u) >= Skip + ulSort.limit
      BY <1>5, <1>9, <2>2, <3>1, <3>2, <3>3, <3>4
    <3>6. ulTotal # NotRead => ulTotal = Cardinality(PresentIn(ulKey))
      BY <1>2, <2>1 DEF NotYetShown
    <3>7. Cardinality(PresentIn(ulKey)) \in Nat
      BY UsersFinite, ListAssumption DEF PresentIn
    <3>8. QED
      BY <1>4, <1>5, <1>6, <3>1, <3>4, <3>5, <3>6, <3>7
  <2>4. QED
    BY <2>2, <2>3
<1>11. AlreadyShown'
  <2>1. SUFFICES ASSUME ulEvents \cap {"moved", "tied"} = {},
                        "created" \in ulEvents => ulSort.by = "createdAt" /\ ~ulSort.desc,
                        NEW u \in ListedUsers
                 PROVE  ulSeen'[u] < 2 /\ (ulSeen'[u] = 1 /\ ulKey[u] # 0 => Place(u)' < Covered')
    BY <1>2 DEF AlreadyShown
  <2>2. ~Ties(ulKey)
    BY <1>2, <2>1 DEF WalkShape
  <2>3. ulSeen[u] < 2 /\ (ulSeen[u] = 1 /\ ulKey[u] # 0 => Place(u) < Skip)
    BY <1>2, <1>5, <2>1 DEF AlreadyShown
  <2>4. u \in PresentIn(ulKey) => Place(u) \in Nat
    BY PlaceBelow
  <2>5. u \in PresentIn(ulKey) <=> ulKey[u] # 0
    BY DEF PresentIn
  <2>6. CASE u \in ulItems'
    <3>1. u \in PresentIn(ulKey)
      BY <1>2, <2>6
    <3>2. Place(u) >= Skip /\ Place(u) < Skip + ulSort.limit
      BY <1>9, <2>2, <2>6, <3>1
    <3>3. ulSeen[u] = 0
      BY <1>5, <1>8, <2>3, <2>4, <2>5, <3>1, <3>2
    <3>4. QED
      BY <1>4, <1>6, <1>8, <2>6, <3>2, <3>3
  <2>7. CASE u \notin ulItems'
    BY <1>4, <1>5, <1>6, <1>8, <2>3, <2>4, <2>5, <2>7
  <2>8. QED
    BY <2>6, <2>7
<1>12. QED
  BY <1>1, <1>7, <1>10, <1>11

(* The count is the rows that are there, all of them.                      *)
LEMMA CountStep == ASSUME ListInv, CountUsers PROVE ListInv'
<1> USE DEF ListInv
<1>1. ListTypeOK'
  BY ListStepTypeOK DEF ListNext
<1>2. /\ ulPc = "query" /\ ulTotal' = Cardinality(PresentIn(ulKey))
      /\ UNCHANGED <<ulSort, ulKey, ulPage, ulItems, ulPc, ulSeen, ulChanges, ulStayed, ulEvents>>
  BY DEF CountUsers
<1>3. (\A u \in ListedUsers : Place(u)' = Place(u)) /\ (Ties(ulKey') <=> Ties(ulKey))
  BY <1>2, SamePlaces
<1>4. Covered' = Covered /\ Covered \in Nat
  BY <1>2, CoveredType DEF Covered, Skip, WalkShape
<1>5. WalkShape'
  BY <1>2, <1>3 DEF WalkShape
<1>6. NotYetShown'
  <2>1. SUFFICES ASSUME ulEvents \cap {"removed", "moved", "tied", "between"} = {}
                 PROVE  /\ ulStayed \subseteq PresentIn(ulKey)
                        /\ \A u \in ulStayed :
                             ulSeen[u] = 0 => Place(u)' >= Covered /\ ulTotal' > Covered
    BY <1>2, <1>4 DEF NotYetShown
  <2>2. ulStayed \subseteq PresentIn(ulKey)
    BY <1>2, <2>1 DEF NotYetShown
  <2>3. ASSUME NEW u \in ulStayed, ulSeen[u] = 0 PROVE Place(u)' >= Covered /\ ulTotal' > Covered
    <3>1. u \in PresentIn(ulKey) /\ u \in ListedUsers
      BY <2>2 DEF PresentIn
    <3>2. Place(u) \in Nat /\ Place(u) < Cardinality(PresentIn(ulKey))
      BY <3>1, PlaceBelow
    <3>3. Place(u) >= Covered
      BY <1>2, <2>1, <2>3 DEF NotYetShown
    <3>4. Cardinality(PresentIn(ulKey)) \in Nat
      BY UsersFinite, ListAssumption DEF PresentIn
    <3>5. QED
      BY <1>2, <1>3, <1>4, <3>1, <3>2, <3>3, <3>4
  <2>4. QED
    BY <2>2, <2>3
<1>7. AlreadyShown'
  BY <1>2, <1>3, <1>4 DEF AlreadyShown
<1>8. QED
  BY <1>1, <1>5, <1>6, <1>7

(* The last page is answered only when nobody is left to be shown.         *)
LEMMA AnswerStep == ASSUME ListInv, AnswerPage PROVE ListInv'
<1> USE DEF ListInv
<1>1. ListTypeOK'
  BY ListStepTypeOK DEF ListNext
<1>2. /\ ulPc = "query" /\ ulItems # NoItems /\ ulTotal # NotRead
      /\ ulItems' = NoItems /\ ulTotal' = NotRead /\ ulPc' \in {"read", "done"}
      /\ UNCHANGED <<ulSort, ulKey, ulPage, ulSeen, ulChanges, ulStayed, ulEvents>>
  BY DEF AnswerPage
<1>3. (ulPc' = "read" => ulPage <= UserCount) /\ (HasNextPage /\ ulPage <= UserCount => ulPc' = "read")
  BY DEF AnswerPage
<1>4. (\A u \in ListedUsers : Place(u)' = Place(u)) /\ (Ties(ulKey') <=> Ties(ulKey))
  BY <1>2, SamePlaces
<1>5. /\ Skip \in Nat /\ ulSort.limit \in Nat \ {0}
      /\ Skip + ulSort.limit = ulPage * ulSort.limit
  BY <1>2, CoveredType DEF WalkShape
<1>6. Covered = Skip + ulSort.limit /\ Covered' = Covered
  BY <1>2 DEF Covered, Skip
<1>7. WalkShape'
  BY <1>2, <1>3, <1>4 DEF WalkShape
<1>8. NotYetShown'
  <2>1. SUFFICES ASSUME ulEvents \cap {"removed", "moved", "tied", "between"} = {}
                 PROVE  /\ ulStayed \subseteq PresentIn(ulKey)
                        /\ \A u \in ulStayed :
                             ulSeen[u] = 0 => ulPc' = "read" /\ Place(u)' >= Covered
    BY <1>2, <1>6 DEF NotYetShown
  <2>2. ulStayed \subseteq PresentIn(ulKey)
    BY <1>2, <2>1 DEF NotYetShown
  <2>3. ASSUME NEW u \in ulStayed, ulSeen[u] = 0 PROVE ulPc' = "read" /\ Place(u)' >= Covered
    <3>1. u \in PresentIn(ulKey) /\ u \in ListedUsers
      BY <2>2 DEF PresentIn
    <3>2. Place(u) >= Covered /\ ulTotal > Covered
      BY <1>2, <2>1, <2>3 DEF NotYetShown
    <3>3. ulTotal \in Nat /\ ulPage \in Nat /\ ulPage >= 1 /\ UserCount \in Nat
      BY <1>2, ListAssumption DEF ListTypeOK, NotRead, WalkShape
    <3>4. HasNextPage
      BY <1>5, <1>6, <3>2, <3>3, CountGoesOn DEF HasNextPage, TotalPages
    <3>5. Place(u) \in Nat /\ Place(u) < UserCount
      <4>1. Place(u) \in Nat /\ Place(u) < Cardinality(PresentIn(ulKey))
        BY <3>1, PlaceBelow
      <4>2. Cardinality(PresentIn(ulKey)) \in 0..UserCount
        BY UsersFinite DEF PresentIn
      <4>3. QED
        BY <3>3, <4>1, <4>2
    <3>6. ulPage <= ulPage * ulSort.limit
      BY <1>5, <3>3
    <3>7. ulPage * ulSort.limit <= Place(u)
      BY <1>5, <1>6, <3>2
    <3>8. ulPage * ulSort.limit \in Nat
      BY <1>5, <3>3
    <3>9. ulPage <= UserCount
      BY <3>3, <3>5, <3>6, <3>7, <3>8
    <3>10. QED
      BY <1>3, <1>4, <3>1, <3>2, <3>4, <3>9
  <2>4. QED
    BY <2>2, <2>3
<1>9. AlreadyShown'
  BY <1>2, <1>4, <1>6 DEF AlreadyShown
<1>10. QED
  BY <1>1, <1>7, <1>8, <1>9

(* The next page starts where the places covered end.                      *)
LEMMA NextPageStep == ASSUME ListInv, NextPage PROVE ListInv'
<1> USE DEF ListInv
<1>1. ListTypeOK'
  BY ListStepTypeOK DEF ListNext
<1>2. /\ ulPc = "read" /\ ulPc' = "query" /\ ulPage' = ulPage + 1 /\ ulItems = NoItems /\ ulTotal = NotRead
      /\ UNCHANGED <<ulSort, ulKey, ulItems, ulTotal, ulSeen, ulChanges, ulStayed, ulEvents>>
  BY DEF NextPage, WalkShape
<1>3. (\A u \in ListedUsers : Place(u)' = Place(u)) /\ (Ties(ulKey') <=> Ties(ulKey))
  BY <1>2, SamePlaces
<1>4. ulPage \in Nat /\ ulPage >= 1
  BY <1>2, ListAssumption DEF WalkShape, ListTypeOK
<1>5. Covered' = Covered
  <2>1. Covered = ulPage * ulSort.limit
    BY <1>2, <1>4, CoveredType DEF Covered
  <2>2. Covered' = Skip'
    BY <1>2 DEF Covered
  <2>3. ulPage' - 1 = ulPage /\ ulSort' = ulSort
    BY <1>2, <1>4
  <2>4. Skip' = ulPage * ulSort.limit
    BY <2>3 DEF Skip
  <2>5. QED
    BY <2>1, <2>2, <2>4
<1>6. WalkShape'
  BY <1>2, <1>3, <1>4 DEF WalkShape
<1>7. NotYetShown'
  <2>1. SUFFICES ASSUME ulEvents \cap {"removed", "moved", "tied", "between"} = {}
                 PROVE  /\ ulStayed \subseteq PresentIn(ulKey)
                        /\ \A u \in ulStayed : ulSeen[u] = 0 => Place(u)' >= Covered
    BY <1>2, <1>5 DEF NotYetShown
  <2>2. ulStayed \subseteq PresentIn(ulKey) /\ \A u \in ulStayed : ulSeen[u] = 0 => Place(u) >= Covered
    BY <1>2, <2>1 DEF NotYetShown
  <2>3. QED
    BY <1>3, <2>2 DEF PresentIn
<1>8. AlreadyShown'
  BY <1>2, <1>3, <1>5 DEF AlreadyShown
<1>9. QED
  BY <1>1, <1>6, <1>7, <1>8

(* A change of the table leaves the walk where it is.                      *)
LEMMA ChangeCovers ==
    ASSUME ListInv, Change, UnchangedByChange
    PROVE  Covered' = Covered /\ Covered \in Nat /\ ulPc \in {"query", "read"} /\ ulPage >= 1
<1>1. ulPc \in {"query", "read"} /\ ulPage >= 1
  BY DEF Change, ListInv, WalkShape
<1>2. Covered' = Covered
  BY DEF UnchangedByChange, Covered, Skip
<1>3. QED
  BY <1>1, <1>2, CoveredType DEF ListInv

(* A row that comes moves others to later places, or to none if it is the  *)
(* last of the listing.                                                    *)
LEMMA CreateStep == ASSUME ListInv, CreateUser PROVE ListInv'
<1> USE DEF ListInv
<1>1. ListTypeOK'
  BY ListStepTypeOK DEF ListNext
<1>2. PICK n \in ListedUsers, k \in Keys :
        /\ ulKey[n] = 0 /\ ulSeen[n] = 0
        /\ ulSort.by = "createdAt" => \A v \in ListedUsers : ulKey[v] <= k
        /\ ulKey' = [ulKey EXCEPT ![n] = k]
  BY DEF CreateUser
<1>3. UNCHANGED <<ulSort, ulPage, ulItems, ulTotal, ulPc, ulSeen, ulStayed>>
  BY DEF CreateUser, UnchangedByChange
<1>4. /\ Covered' = Covered /\ Covered \in Nat
      /\ ulPc \in {"query", "read"} /\ ulPage >= 1
  BY ChangeCovers DEF CreateUser
<1>5. /\ ulEvents \subseteq ulEvents' /\ "created" \in ulEvents' /\ (Ties(ulKey') => "tied" \in ulEvents')
      /\ ulTotal # NotRead /\ ulItems = NoItems => "between" \in ulEvents'
  <2> DEFINE events == {"created"} \cup (IF ulTotal # NotRead /\ ulItems = NoItems THEN {"between"} ELSE {})
  <2>1. Note(events)
    BY DEF CreateUser
  <2>2. "created" \in events /\ (ulTotal # NotRead /\ ulItems = NoItems => "between" \in events)
    OBVIOUS
  <2> HIDE DEF events
  <2>3. QED
    BY <2>1, <2>2, NoteKeeps
<1>6. /\ PresentIn(ulKey') = PresentIn(ulKey) \cup {n} /\ n \notin PresentIn(ulKey)
      /\ ulKey'[n] = k /\ k # 0 /\ \A v \in PresentIn(ulKey) : ulKey'[v] = ulKey[v]
  BY <1>2 DEF PresentIn, ListTypeOK, Keys
<1>7. WalkShape'
  BY <1>3, <1>4, <1>5 DEF WalkShape
<1>8. ASSUME NEW u \in PresentIn(ulKey) PROVE Place(u)' >= Place(u) /\ Place(u) \in Nat /\ Place(u)' \in Nat
  <2> DEFINE before == {v \in PresentIn(ulKey) : Before(v, u)}
             beforeNow == {v \in PresentIn(ulKey') : Before(v, u)'}
  <2>1. Place(u) = Cardinality(before) /\ Place(u)' = Cardinality(beforeNow)
    BY DEF Place, PresentIn
  <2>2. before \in SUBSET beforeNow
    BY <1>3, <1>6 DEF Before
  <2>3. IsFiniteSet(beforeNow) /\ Cardinality(beforeNow) \in Nat
    BY UsersFinite, ListAssumption DEF PresentIn
  <2>4. Cardinality(before) <= Cardinality(beforeNow)
    BY <2>2, <2>3, FS_Subset
  <2>5. Cardinality(before) \in Nat
    BY UsersFinite, ListAssumption DEF PresentIn
  <2>6. QED
    BY <2>1, <2>3, <2>4, <2>5
<1>9. NotYetShown'
  <2>1. SUFFICES ASSUME ulEvents' \cap {"removed", "moved", "tied", "between"} = {}
                 PROVE  /\ ulStayed \subseteq PresentIn(ulKey')
                        /\ ~(ulTotal # NotRead /\ ulItems = NoItems)
                        /\ \A u \in ulStayed :
                             ulSeen[u] = 0 =>
                                 /\ Place(u)' >= Covered
                                 /\ ulTotal # NotRead /\ ulItems # NoItems => ulTotal > Covered
    BY <1>3, <1>4 DEF NotYetShown
  <2>2. ulEvents \cap {"removed", "moved", "tied", "between"} = {} /\ "between" \notin ulEvents'
    BY <1>5, <2>1
  <2>3. ulStayed \subseteq PresentIn(ulKey) /\ \A u \in ulStayed :
          ulSeen[u] = 0 =>
              /\ Place(u) >= Covered
              /\ ulTotal # NotRead /\ ulItems # NoItems => ulTotal > Covered
    BY <1>4, <2>2 DEF NotYetShown
  <2>4. ASSUME NEW u \in ulStayed, ulSeen[u] = 0 PROVE Place(u)' >= Covered
    BY <1>4, <1>8, <2>3, <2>4
  <2>5. QED
    BY <1>5, <1>6, <2>2, <2>3, <2>4
<1>10. AlreadyShown'
  <2>1. SUFFICES ASSUME ulEvents' \cap {"moved", "tied"} = {},
                        ulSort.by = "createdAt" /\ ~ulSort.desc,
                        NEW u \in ListedUsers
                 PROVE  ulSeen[u] < 2 /\ (ulSeen[u] = 1 /\ ulKey'[u] # 0 => Place(u)' < Covered)
    BY <1>3, <1>4, <1>5 DEF AlreadyShown
  <2>2. ulEvents \cap {"moved", "tied"} = {} /\ ~Ties(ulKey')
    BY <1>5, <2>1
  <2>3. ulSeen[u] < 2 /\ (ulSeen[u] = 1 /\ ulKey[u] # 0 => Place(u) < Covered)
    BY <1>4, <2>1, <2>2 DEF AlreadyShown
  <2>4. ASSUME ulSeen[u] = 1, ulKey'[u] # 0 PROVE Place(u)' < Covered
    <3>1. u # n /\ u \in PresentIn(ulKey) /\ ulKey'[u] = ulKey[u]
      BY <1>2, <1>6, <2>4 DEF PresentIn, ListTypeOK
    <3>2. ulKey[u] # k
      BY <1>6, <2>2, <3>1 DEF Ties
    <3>3. ulKey[u] <= k /\ ulKey[u] \in 0..KeyCount /\ k \in 1..KeyCount /\ KeyCount \in Nat
      BY <1>2, <2>1, ListAssumption DEF ListTypeOK, Keys
    <3>4. ~Before(n, u)'
      BY <1>3, <1>6, <2>1, <3>1, <3>2, <3>3 DEF Before
    <3>5. {v \in PresentIn(ulKey') : Before(v, u)'} = {v \in PresentIn(ulKey) : Before(v, u)}
      BY <1>3, <1>6, <3>1, <3>4 DEF Before
    <3>6. Place(u)' = Place(u)
      BY <3>5 DEF Place, PresentIn
    <3>7. QED
      BY <2>3, <2>4, <3>1, <3>6 DEF PresentIn
  <2>5. QED
    BY <2>3, <2>4
<1>11. QED
  BY <1>1, <1>7, <1>9, <1>10

(* A row that goes moves others to earlier places.                         *)
LEMMA RemoveStep == ASSUME ListInv, RemoveUser PROVE ListInv'
<1> USE DEF ListInv
<1>1. ListTypeOK'
  BY ListStepTypeOK DEF ListNext
<1>2. PICK n \in PresentIn(ulKey) : ulKey' = [ulKey EXCEPT ![n] = 0]
  BY DEF RemoveUser
<1>3. UNCHANGED <<ulSort, ulPage, ulItems, ulTotal, ulPc, ulSeen>>
  BY DEF RemoveUser, UnchangedByChange
<1>4. /\ Covered' = Covered /\ Covered \in Nat
      /\ ulPc \in {"query", "read"} /\ ulPage >= 1
  BY ChangeCovers DEF RemoveUser
<1>5. ulEvents \subseteq ulEvents' /\ "removed" \in ulEvents' /\ (Ties(ulKey') => "tied" \in ulEvents')
  BY NoteKeeps DEF RemoveUser
<1>6. WalkShape'
  BY <1>3, <1>4, <1>5 DEF WalkShape
<1>7. NotYetShown'
  BY <1>5 DEF NotYetShown
<1>8. PresentIn(ulKey') = PresentIn(ulKey) \ {n} /\ \A v \in PresentIn(ulKey') : ulKey'[v] = ulKey[v]
  BY <1>2 DEF PresentIn, ListTypeOK
<1>9. AlreadyShown'
  <2>1. SUFFICES ASSUME ulEvents' \cap {"moved", "tied"} = {},
                        "created" \in ulEvents' => ulSort.by = "createdAt" /\ ~ulSort.desc,
                        NEW u \in ListedUsers
                 PROVE  ulSeen[u] < 2 /\ (ulSeen[u] = 1 /\ ulKey'[u] # 0 => Place(u)' < Covered)
    BY <1>3, <1>4 DEF AlreadyShown
  <2>2. ulSeen[u] < 2 /\ (ulSeen[u] = 1 /\ ulKey[u] # 0 => Place(u) < Covered)
    BY <1>4, <1>5, <2>1 DEF AlreadyShown
  <2>3. ASSUME ulSeen[u] = 1, ulKey'[u] # 0 PROVE Place(u)' < Covered
    <3> DEFINE before == {v \in PresentIn(ulKey) : Before(v, u)}
               beforeNow == {v \in PresentIn(ulKey') : Before(v, u)'}
    <3>1. u \in PresentIn(ulKey') /\ ulKey'[u] = ulKey[u]
      BY <1>8, <2>3 DEF PresentIn
    <3>2. beforeNow \in SUBSET before
      BY <1>3, <1>8, <3>1 DEF Before
    <3>3. IsFiniteSet(before) /\ Cardinality(before) \in Nat /\ Cardinality(beforeNow) \in Nat
      BY UsersFinite, ListAssumption DEF PresentIn
    <3>4. Cardinality(beforeNow) <= Cardinality(before)
      BY <3>2, <3>3, FS_Subset
    <3>5. Place(u) = Cardinality(before) /\ Place(u)' = Cardinality(beforeNow)
      BY DEF Place, PresentIn
    <3>6. Place(u) < Covered
      BY <2>2, <2>3, <3>1
    <3>7. QED
      BY <1>4, <3>3, <3>4, <3>5, <3>6
  <2>4. QED
    BY <2>2, <2>3
<1>10. QED
  BY <1>1, <1>6, <1>7, <1>9

(* A renaming excuses whatever follows.                                    *)
LEMMA RenameStep == ASSUME ListInv, RenameUser PROVE ListInv'
<1> USE DEF ListInv
<1>1. ListTypeOK'
  BY ListStepTypeOK DEF ListNext
<1>2. UNCHANGED <<ulSort, ulPage, ulItems, ulTotal, ulPc, ulSeen>>
  BY DEF RenameUser, UnchangedByChange
<1>3. ulPc \in {"query", "read"} /\ ulPage >= 1
  BY ChangeCovers DEF RenameUser
<1>4. "moved" \in ulEvents' /\ (Ties(ulKey') => "tied" \in ulEvents')
  BY NoteKeeps DEF RenameUser
<1>5. WalkShape'
  BY <1>2, <1>3, <1>4 DEF WalkShape
<1>6. NotYetShown' /\ AlreadyShown'
  BY <1>4 DEF NotYetShown, AlreadyShown
<1>7. QED
  BY <1>1, <1>5, <1>6

(* A step that changes nothing of the walk.                                *)
LEMMA ListStutter == ASSUME ListInv, UNCHANGED ulVars PROVE ListInv'
<1>1. UNCHANGED <<ulSort, ulKey, ulPage, ulItems, ulTotal, ulPc, ulSeen, ulChanges, ulStayed, ulEvents>>
  BY DEF ulVars
<1>2. (\A u \in ListedUsers : Place(u)' = Place(u)) /\ (Ties(ulKey') <=> Ties(ulKey))
  BY <1>1, SamePlaces
<1>3. Covered' = Covered /\ PresentIn(ulKey') = PresentIn(ulKey)
  BY <1>1 DEF Covered, Skip
<1>4. ListTypeOK'
  BY <1>1 DEF ListInv, ListTypeOK
<1>5. WalkShape'
  BY <1>1, <1>2 DEF ListInv, WalkShape
<1>6. NotYetShown'
  BY <1>1, <1>2, <1>3 DEF ListInv, NotYetShown, PresentIn
<1>7. AlreadyShown'
  BY <1>1, <1>2, <1>3 DEF ListInv, AlreadyShown
<1>8. QED
  BY <1>4, <1>5, <1>6, <1>7 DEF ListInv

(* The invariant of a walk is inductive, for any number of users, sort     *)
(* keys, page sizes and changes.                                           *)
THEOREM WalkInvariance == ListSpec => []ListInv
<1>1. ASSUME ListInv, [ListNext]_ulVars PROVE ListInv'
  BY <1>1, StartOfWalk, FindManyStep, CountStep, AnswerStep, NextPageStep, CreateStep,
     RemoveStep, RenameStep, ListStutter DEF ListNext
<1>2. QED
  BY <1>1, ListInitInv, PTL DEF ListSpec

(* A walk through GET /users to its last page misses nobody who was there  *)
(* all the time, but for removals, renamings, equal keys and a creation    *)
(* between the two queries of a page (BaseRepository.findManyPaginated).   *)
THEOREM MissesExplained == ListSpec => []SkipsExplained
<1>1. ListInv => SkipsExplained
  BY DEF ListInv, NotYetShown, SkipsExplained
<1>2. QED
  BY <1>1, WalkInvariance, PTL

(* Nobody is shown twice, but for renamings, equal keys and, unless rows   *)
(* come in at the end of the listing, creations.                           *)
THEOREM DuplicatesExplained == ListSpec => []RepeatsExplained
<1>1. ASSUME ListInv PROVE RepeatsExplained
  <2>1. SUFFICES ASSUME NEW u \in ListedUsers, ulSeen[u] = 2,
                        ulEvents \cap {"moved", "tied"} = {},
                        "created" \in ulEvents => ulSort.by = "createdAt" /\ ~ulSort.desc
                 PROVE  FALSE
    BY DEF RepeatsExplained
  <2>2. ulPc # "off"
    BY <1>1, <2>1 DEF ListInv, WalkShape
  <2>3. QED
    BY <1>1, <2>1, <2>2 DEF ListInv, AlreadyShown
<1>2. QED
  BY <1>1, WalkInvariance, PTL
----------------------------------------------------------------------------
(* A page that is not empty moves the token or the offset on, up to a bound. *)
LEMMA PageLeads ==
    ASSUME ClTypeOK, Page # {}
    PROVE  clAfter < NextAfter /\ NextAfter < FileCount + PageSize
<1>1. /\ Page \subseteq Nat /\ IsFiniteSet(Page) /\ Page \subseteq Ahead
      /\ Listed \subseteq Nat /\ IsFiniteSet(Listed) /\ Listed \in SUBSET Files
  BY ListedFiles, FilesFinite
<1>2. clAfter \in Nat /\ PageSize \in Nat \ {0} /\ FileCount \in Nat
  BY ClAssumption DEF ClTypeOK
<1>3. CASE clSetup.provider = "imagekit"
  <2>1. PICK f \in Page : TRUE
    OBVIOUS
  <2>2. f \in Listed /\ RankIn(Listed, f) >= clAfter
    BY <1>1, <1>3, <2>1 DEF Ahead, AheadOfOffset, Rank, RankIn
  <2>3. RankIn(Listed, f) \in 0..(Cardinality(Listed) - 1)
    BY <1>1, <2>2, RanksCount
  <2>4. Cardinality(Listed) <= FileCount
    <3>1. 1 \in Int /\ FileCount \in Int /\ (1 > FileCount <=> FileCount = 0)
      BY <1>2
    <3>2. IsFiniteSet(Files)
      BY <3>1, FS_Interval DEF Files
    <3>3. Cardinality(Files) = IF 1 > FileCount THEN 0 ELSE FileCount - 1 + 1
      BY <3>1, FS_Interval DEF Files
    <3>4. Cardinality(Files) = FileCount
      BY <1>2, <3>1, <3>3
    <3>5. Cardinality(Listed) <= Cardinality(Files)
      BY <1>1, <3>2, FS_Subset
    <3>6. QED
      BY <3>4, <3>5
  <2>5. Cardinality(Listed) \in Nat
    BY <1>1, FS_CardinalityType
  <2>6. clAfter < FileCount
    BY <1>2, <2>2, <2>3, <2>4, <2>5
  <2>7. NextAfter = clAfter + PageSize
    BY <1>3 DEF NextAfter
  <2>8. QED
    BY <1>2, <2>6, <2>7
<1>4. CASE clSetup.provider # "imagekit"
  <2>1. Max(Page) \in Page
    BY <1>1, HasMinMax
  <2>2. Max(Page) \in Files /\ Max(Page) > clAfter
    BY <1>1, <1>4, <2>1, ListedFiles DEF Ahead, AheadOfToken
  <2>3. NextAfter = Max(Page)
    BY <1>4 DEF NextAfter
  <2>4. QED
    BY <1>2, <2>2, <2>3 DEF Files
<1>5. QED
  BY <1>3, <1>4

(* A listing that goes on has a page that is not empty.                    *)
LEMMA GoesOn == ASSUME Continues PROVE Page # {}
<1>1. /\ Page \subseteq Ahead /\ Ahead \subseteq Nat /\ IsFiniteSet(Ahead)
  BY ListedFiles, FilesFinite
<1>2. PageSize \in Nat \ {0}
  BY ClAssumption
<1>3. CASE clSetup.provider = "imagekit"
  <2>1. Cardinality(Page) # 0
    BY <1>2, <1>3 DEF Continues
  <2>2. QED
    BY <2>1, FS_EmptySet
<1>4. CASE clSetup.provider # "imagekit"
  <2>1. Ahead # {}
    BY <1>1, <1>4 DEF Continues
  <2>2. Cardinality(Ahead) \in Nat \ {0}
    BY <1>1, <2>1, FS_CardinalityType, FS_EmptySet
  <2>3. 0 \in 0..(Cardinality(Ahead) - 1)
    BY <2>2
  <2>4. PICK f \in Ahead : RankIn(Ahead, f) = 0
    BY <1>1, <2>3, RanksCount
  <2>5. f \in Page
    BY <1>2, <2>4 DEF Page, RankIn
  <2>6. QED
    BY <2>5
<1>5. QED
  BY <1>3, <1>4

(* Every step of a cleanup brings its end nearer, and no other step of the *)
(* files moves it: the loops of the cleanupTemp methods are bounded by the *)
(* pages there can be and by the files of each.                            *)
THEOREM SweepsAdvance == ClSpec => SweepAdvances
<1> DEFINE Nearer == \/ clPc' = "idle"
                     \/ clAfter < clAfter' /\ clAfter' < FileCount + PageSize
                     \/ clAfter' = clAfter /\ clPage' \subseteq clPage /\ clPage' # clPage
           A == /\ Sweep => Nearer
                /\ clPc \in {"list", "delete"} => Sweep \/ UNCHANGED <<clPc, clAfter, clPage>>
<1>1. ASSUME ClInv, ListPage PROVE Nearer
  <2>1. CASE Fault /\ End("failed") /\ UNCHANGED <<clAfter, clPage, clMore>>
    BY <2>1 DEF End
  <2>2. CASE /\ clAfter' = NextAfter
             /\ IF Page \cap clCut # {} THEN clPc' = "delete" /\ UNCHANGED clOutcome
                ELSE IF Continues THEN UNCHANGED <<clPc, clOutcome>> ELSE End("complete")
    <3>1. CASE Page # {}
      BY <1>1, <2>2, <3>1, PageLeads DEF ClInv
    <3>2. CASE Page = {}
      BY <2>2, <3>2, GoesOn DEF End
    <3>3. QED
      BY <3>1, <3>2
  <2>3. QED
    BY <1>1, <2>1, <2>2 DEF ListPage
<1>2. ASSUME ClInv, DeletePage \/ DestroyNext \/ DeleteFileNext PROVE Nearer
  <2>1. clPage \subseteq Files /\ clPage # {} /\ clAfter' = clAfter
    BY <1>2 DEF ClInv, ClTypeOK, ClReach, DeletePage, DestroyNext, DeleteFileNext
  <2>2. Min(clPage) \in clPage
    BY <2>1, NextOfPage
  <2>3. CASE DeletePage
    BY <2>1, <2>3 DEF DeletePage
  <2>4. CASE DeleteNext
    BY <2>1, <2>2, <2>4 DEF DeleteNext
  <2>5. CASE FailSweep
    BY <2>5 DEF FailSweep, End
  <2>6. QED
    BY <1>2, <2>3, <2>4, <2>5 DEF DestroyNext, DeleteFileNext
<1>3. ASSUME SweepLocal PROVE Nearer
  BY <1>3 DEF SweepLocal, End
<1>4. ASSUME [ClNext]_clVars, clPc \in {"list", "delete"}
      PROVE  Sweep \/ UNCHANGED <<clPc, clAfter, clPage>>
  BY <1>4 DEF ClNext, ClStart, Arrive, GrowStale, TakeAway, BeginSweep, clVars
<1>5. ClInv /\ [ClNext]_clVars => [A]_clVars
  BY <1>1, <1>2, <1>3, <1>4 DEF Sweep
<1>6. QED
  BY <1>5, CleanupInvariance, PTL DEF ClSpec, SweepAdvances

(* A mail goes back only at the price of an attempt or a stall, of which   *)
(* there are so many, and is settled once and for all: so Bull's retries   *)
(* cannot keep one going for ever.                                         *)
THEOREM MailsAdvance == MailSpec => MailAdvances
<1> DEFINE A(m) == /\ Price(m) <= Price(m)' /\ Price(m)' <= Attempts + MaxStalls
                   /\ mailAt'[m] # mailAt[m] =>
                        Price(m) < Price(m)' \/ Stage[mailAt[m]] < Stage[mailAt'[m]]
                   /\ mailAt[m] \in {"completed", "failed"} => UNCHANGED <<mailAt[m], Price(m)>>
<1>1. ASSUME MailInv, NEW m \in Mails PROVE Price(m) \in Nat /\ Price(m) <= Attempts + MaxStalls
  BY <1>1, MailAssumption DEF MailInv, MailTypeOK, MailCounted, Price
<1>2. ASSUME MailInv, NEW m \in Mails,
             mailTries'[m] = mailTries[m], mailStalls'[m] = mailStalls[m],
             mailAt'[m] = mailAt[m]
                \/ (mailAt[m] \notin {"completed", "failed"} /\ Stage[mailAt[m]] < Stage[mailAt'[m]])
      PROVE  A(m)
  <2>1. Price(m)' = Price(m)
    BY <1>2 DEF Price
  <2>2. QED
    BY <1>1, <1>2, <2>1
<1>3. ASSUME MailInv, MailInv', [MailNext]_mailVars, NEW m \in Mails PROVE A(m)
  <2> USE DEF MailInv, MailTypeOK, MoveTo
  <2>1. CASE UNCHANGED mailVars
    BY <1>2, <1>3, <2>1 DEF mailVars
  <2>2. ASSUME NEW n \in Mails,
               SendEmail(n) \/ Promote(n) \/ Take(n) \/ Deliver(n) \/ Return(n) \/ GhostDelivers(n)
        PROVE  A(m)
    <3>1. UNCHANGED <<mailTries, mailStalls>>
      BY <2>2 DEF SendEmail, Promote, Take, Deliver, Return, GhostDelivers
    <3>2. \/ mailAt'[m] = mailAt[m]
          \/ mailAt[m] = "none" /\ mailAt'[m] \in {"delayed", "waiting"}
          \/ mailAt[m] = "delayed" /\ mailAt'[m] = "waiting"
          \/ mailAt[m] = "waiting" /\ mailAt'[m] = "active"
          \/ mailAt[m] = "active" /\ mailAt'[m] = "sent"
          \/ mailAt[m] = "sent" /\ mailAt'[m] = "completed"
      BY <1>3, <2>2 DEF SendEmail, Promote, Take, Deliver, Return, GhostDelivers
    <3>3. \/ mailAt'[m] = mailAt[m]
          \/ mailAt[m] \notin {"completed", "failed"} /\ Stage[mailAt[m]] < Stage[mailAt'[m]]
      BY <3>2 DEF Stage
    <3>4. QED
      BY <1>2, <1>3, <3>1, <3>3
  <2>3. ASSUME NEW n \in Mails, Throw(n) \/ Stall(n) PROVE A(m)
    <3>1. CASE m # n
      <4>1. /\ mailTries'[m] = mailTries[m] /\ mailStalls'[m] = mailStalls[m]
            /\ mailAt'[m] = mailAt[m]
        BY <1>3, <2>3, <3>1 DEF Throw, Stall
      <4>2. QED
        BY <1>2, <1>3, <4>1
    <3>2. CASE m = n
      <4>1. mailAt[m] \in {"active", "sent"}
        BY <2>3, <3>2 DEF Throw, Stall, Running
      <4>2. mailTries[m] < Attempts /\ mailStalls[m] <= MaxStalls
        BY <1>3, <4>1 DEF MailCounted
      <4>3. \/ mailTries'[m] = mailTries[m] + 1 /\ mailStalls'[m] = mailStalls[m]
            \/ mailTries'[m] = mailTries[m] /\ mailStalls'[m] = mailStalls[m] + 1
        BY <1>3, <2>3, <3>2, <4>2, MailAssumption DEF Throw, Stall
      <4>4. Price(m)' = Price(m) + 1
        BY <1>3, <4>3 DEF Price
      <4>5. Price(m)' <= Attempts + MaxStalls /\ Price(m) \in Nat
        <5>1. Price(m)' \in Nat /\ Price(m)' <= Attempts + MaxStalls
          BY <1>3, MailAssumption DEF MailCounted, Price
        <5>2. QED
          BY <1>1, <1>3, <5>1
      <4>6. QED
        BY <4>1, <4>4, <4>5
    <3>3. QED
      BY <3>1, <3>2
  <2>4. QED
    BY <1>3, <2>1, <2>2, <2>3 DEF MailNext, Handle
<1>4. MailInv /\ MailInv' /\ [MailNext]_mailVars => [\A m \in Mails : A(m)]_mailVars
  BY <1>3
<1>5. QED
  BY <1>4, MailInvariance, PTL DEF MailSpec, MailAdvances

(* A start never goes back to an earlier phase and runs each hook once.    *)
THEOREM BootsAdvance == BtSpec => BootAdvances
<1> DEFINE A == /\ Phase[btPc] <= Phase[btPc'] /\ HooksRun <= HooksRun'
                /\ Phase[btPc] < Phase[btPc'] \/ HooksRun < HooksRun'
<1>1. ASSUME BtInv, BtNext PROVE A
  <2> USE DEF Phase, HooksRun
  <2>1. CASE BtImport
    BY <2>1 DEF BtImport
  <2>2. CASE BtReadEnvironment \/ BtChooseProvider \/ BtConstruct \/ BtBind
    BY <2>2 DEF BtReadEnvironment, BtChooseProvider, BtConstruct, BtBind, Die
  <2>3. CASE BtConnect
    BY <2>3 DEF BtConnect, Die
  <2>4. CASE BtCheckProvider
    BY <2>4 DEF BtCheckProvider, Die
  <2>5. CASE BtKill
    BY <1>1, <2>5 DEF BtKill, BtInv, BtTypeOK
  <2>6. QED
    BY <1>1, <2>1, <2>2, <2>3, <2>4, <2>5 DEF BtNext, Boot
<1>2. BtInv /\ [BtNext]_btVars => [A]_btVars
  BY <1>1
<1>3. QED
  BY <1>2, StartInvariance, PTL DEF BtSpec, BootAdvances

(* While the hooks of a start run, one of them is outstanding.             *)
HooksDue == btPc = "init" => btMissing = "unchecked" \/ (btMissing = "none" /\ ~btConnected)

BtUnderWay == BtInv /\ HooksDue

(* What is known of a start under way holds at first.                      *)
LEMMA UnderWayInit == BtInit => BtUnderWay
<1>1. BtInit => BtInv
  BY DEF BtInit, BtInv, BtTypeOK, BtPhases
<1>2. BtInit => HooksDue
  BY DEF BtInit, HooksDue
<1>3. QED
  BY <1>1, <1>2 DEF BtUnderWay

(* Every step keeps what is known of a start under way.                   *)
LEMMA UnderWayKept == BtUnderWay /\ [BtNext]_btVars => BtUnderWay'
<1> SUFFICES ASSUME BtInv, HooksDue, [BtNext]_btVars PROVE BtUnderWay'
  BY DEF BtUnderWay
<1>1. BtInv'
  BY BtStepInv
<1>2. HooksDue'
  <2>1. CASE BtConstruct
    BY <2>1 DEF HooksDue, BtConstruct, BtInv, BtPhases, Die
  <2>2. CASE BtConnect
    BY <2>2 DEF HooksDue, BtConnect, Die
  <2>3. CASE BtCheckProvider
    BY <2>3 DEF HooksDue, BtCheckProvider, Die
  <2>4. CASE BtImport \/ BtReadEnvironment \/ BtChooseProvider \/ BtBind \/ BtKill
    BY <2>4 DEF HooksDue, BtImport, BtReadEnvironment, BtChooseProvider, BtBind, BtKill, Die
  <2>5. CASE UNCHANGED btVars
    BY <2>5 DEF HooksDue, btVars
  <2>6. QED
    BY <2>1, <2>2, <2>3, <2>4, <2>5 DEF BtNext, Boot
<1>3. QED
  BY <1>1, <1>2 DEF BtUnderWay

(* Where a start is; while its hooks run, by how many are outstanding.      *)
Reading == btPc = "environment"
Choosing == btPc = "modules"
Building == btPc = "construct"
BothDue == btPc = "init" /\ btMissing = "unchecked" /\ ~btConnected
OneDue == btPc = "init" /\ (btMissing = "unchecked" <=> btConnected)
Binding == btPc = "bind"
Settled == btPc \in {"listening", "exited"}

(* A step leaves a start where it is, takes it further or settles it, and  *)
(* a step of its own does not leave it where it is.                        *)
LEMMA GoesForth ==
    ASSUME BtUnderWay, BtNext
    PROVE  /\ Reading => Choosing' \/ Settled'
           /\ Choosing => Building' \/ Settled'
           /\ Building => BothDue' \/ OneDue' \/ Settled'
           /\ BothDue => OneDue' \/ Settled'
           /\ OneDue => Binding' \/ Settled'
           /\ Binding => Settled'
           /\ Settled => Settled'
<1> USE DEF BtUnderWay, BtInv, BtTypeOK, BtPhases, HooksDue, Reading, Choosing, Building, BothDue,
            OneDue, Binding, Settled, Die
<1>1. CASE BtReadEnvironment \/ BtChooseProvider \/ BtBind \/ BtImport
  BY <1>1 DEF BtReadEnvironment, BtChooseProvider, BtBind, BtImport
<1>2. CASE BtConstruct
  BY <1>2 DEF BtConstruct
<1>3. CASE BtConnect
  BY <1>3 DEF BtConnect
<1>4. CASE BtCheckProvider
  BY <1>4 DEF BtCheckProvider
<1>5. CASE BtKill
  BY <1>5 DEF BtKill
<1>6. QED
  BY <1>1, <1>2, <1>3, <1>4, <1>5 DEF BtNext, Boot

(* A start that has not settled can go on, wherever it is.                 *)
LEMMA CanGoUnlessSettled ==
    ASSUME BtUnderWay
    PROVE  /\ Reading \/ Choosing \/ Building \/ BothDue \/ OneDue \/ Binding => BtCanGo
           /\ btPc # "off" => \/ Reading \/ Choosing \/ Building \/ BothDue \/ OneDue
                              \/ Binding \/ Settled
BY DEF BtUnderWay, BtInv, BtTypeOK, HooksDue, Reading, Choosing, Building, BothDue, OneDue,
       Binding, Settled, BtCanGo

(* The same with the steps that change nothing.                            *)
LEMMA StaysOrGoes ==
    ASSUME BtUnderWay, [BtNext]_btVars
    PROVE  /\ Reading => Reading' \/ Choosing' \/ Settled'
           /\ Choosing => Choosing' \/ Building' \/ Settled'
           /\ Building => Building' \/ BothDue' \/ OneDue' \/ Settled'
           /\ BothDue => BothDue' \/ OneDue' \/ Settled'
           /\ OneDue => OneDue' \/ Binding' \/ Settled'
           /\ Binding => Binding' \/ Settled'
<1>1. CASE BtNext
  BY <1>1, GoesForth
<1>2. CASE UNCHANGED btVars
  BY <1>2 DEF btVars, Reading, Choosing, Building, BothDue, OneDue, Binding
<1>3. QED
  BY <1>1, <1>2

(* A start that goes on whenever it can ends in a process that listens or  *)
(* in one that is gone.                                                    *)
THEOREM StartSettles == BtInit /\ [][BtNext]_btVars /\ BtGoesOn => BootSettles
<1> DEFINE Started == btPc # "off"
<1>1. BtUnderWay /\ [BtNext]_btVars =>
        /\ Reading => Reading' \/ Choosing' \/ Settled'
        /\ Choosing => Choosing' \/ Building' \/ Settled'
        /\ Building => Building' \/ BothDue' \/ OneDue' \/ Settled'
        /\ BothDue => BothDue' \/ OneDue' \/ Settled'
        /\ OneDue => OneDue' \/ Binding' \/ Settled'
        /\ Binding => Binding' \/ Settled'
  BY StaysOrGoes
<1>2. BtUnderWay /\ [BtNext]_btVars /\ <<Boot>>_btVars =>
        /\ Reading => Choosing' \/ Settled'
        /\ Choosing => Building' \/ Settled'
        /\ Building => BothDue' \/ OneDue' \/ Settled'
        /\ BothDue => OneDue' \/ Settled'
        /\ OneDue => Binding' \/ Settled'
        /\ Binding => Settled'
  BY GoesForth DEF BtNext
<1>3. BtUnderWay =>
        /\ Reading \/ Choosing \/ Building \/ BothDue \/ OneDue \/ Binding => BtCanGo
        /\ Started => \/ Reading \/ Choosing \/ Building \/ BothDue \/ OneDue
                      \/ Binding \/ Settled
  BY CanGoUnlessSettled
<1> DEFINE Goes == BtInit /\ [][BtNext]_btVars /\ BtGoesOn
<1>4. Goes => []BtUnderWay
  BY UnderWayInit, UnderWayKept, PTL
<1>5. Goes => (Binding ~> Settled)
  BY <1>1, <1>2, <1>3, <1>4, PTL DEF BtGoesOn
<1>6. Goes => (OneDue ~> Binding \/ Settled)
  BY <1>1, <1>2, <1>3, <1>4, PTL DEF BtGoesOn
<1>7. Goes => (BothDue ~> OneDue \/ Settled)
  BY <1>1, <1>2, <1>3, <1>4, PTL DEF BtGoesOn
<1>8. Goes => (Building ~> BothDue \/ OneDue \/ Settled)
  BY <1>1, <1>2, <1>3, <1>4, PTL DEF BtGoesOn
<1>9. Goes => (Choosing ~> Building \/ Settled)
  BY <1>1, <1>2, <1>3, <1>4, PTL DEF BtGoesOn
<1>10. Goes => (Reading ~> Choosing \/ Settled)
  BY <1>1, <1>2, <1>3, <1>4, PTL DEF BtGoesOn
<1>11. Goes => (Started ~> Settled)
  BY <1>3, <1>4, <1>5, <1>6, <1>7, <1>8, <1>9, <1>10, PTL
<1>12. QED
  BY <1>11, PTL DEF BootSettles, Settled
----------------------------------------------------------------------------
(* A step of the service is, for each part, one of its own or none.        *)
LEMMA PartSteps ==
    ASSUME [Next]_vars
    PROVE  /\ [UpNext]_upVars /\ [DirNext]_dirVars /\ [ClNext]_clVars /\ [MailNext]_mailVars
           /\ [ListNext]_ulVars /\ [RpNext]_rpVars /\ [BtNext]_btVars
BY DEF Next, vars

PartOK == part \in Parts \cup {"none"}

(* The part that runs is one of the parts.                                 *)
LEMMA PartKnown == Spec => []PartOK
<1>1. Init => PartOK
  BY DEF Init, PartOK
<1>2. PartOK /\ [Next]_vars => PartOK'
  BY DEF Next, vars, Only, Parts, PartOK
<1>3. QED
  BY <1>1, <1>2, PTL DEF Spec

(* The service implements each of its parts, fairness included: what is    *)
(* proved of a part by itself holds of it in the service.                  *)
THEOREM ServiceImplementsParts ==
    Spec => UpSpec /\ DirSpec /\ ClSpec /\ MailSpec /\ ListSpec /\ RpSpec /\ BtSpec
<1>1. Init => UpInit /\ DirInit /\ ClInit /\ MailInit /\ ListInit /\ RpInit /\ BtInit
  BY DEF Init
<1>2. [Next]_vars => [UpNext]_upVars /\ [DirNext]_dirVars
  BY PartSteps
<1>3. [Next]_vars => [ClNext]_clVars /\ [MailNext]_mailVars
  BY PartSteps
<1>4. [Next]_vars => [ListNext]_ulVars /\ [RpNext]_rpVars /\ [BtNext]_btVars
  BY PartSteps
<1>5. Spec => UpSpec /\ DirSpec
  BY <1>1, <1>2, PTL DEF Spec, UpSpec, DirSpec
<1>6. Spec => ClSpec /\ MailSpec
  BY <1>1, <1>3, PTL DEF Spec, Fairness, ClSpec, MailSpec
<1>7. Spec => ListSpec /\ RpSpec /\ BtSpec
  BY <1>1, <1>4, PTL DEF Spec, Fairness, ListSpec, RpSpec, BtSpec
<1>8. QED
  BY <1>5, <1>6, <1>7

(* Every variable of the service keeps its type, whatever the constants.   *)
THEOREM ServiceTypes == Spec => []ServiceTypeOK
<1>1. UpInv /\ DirInv => UpTypeOK /\ DirTypeOK
  BY DEF UpInv, DirInv
<1>2. ClInv /\ MailInv => ClTypeOK /\ MailTypeOK
  BY DEF ClInv, MailInv
<1>3. ListInv /\ RpInv /\ BtInv => ListTypeOK /\ RpTypeOK /\ BtTypeOK
  BY DEF ListInv, RpInv, BtInv
<1>4. ASSUME PartOK, UpTypeOK, DirTypeOK, ClTypeOK, MailTypeOK, ListTypeOK,
             RpTypeOK, BtTypeOK
      PROVE  ServiceTypeOK
  BY <1>4 DEF ServiceTypeOK, PartOK
<1>5. QED
  BY <1>1, <1>2, <1>3, <1>4, PartKnown, ServiceImplementsParts, UploadInvariance,
     DirectInvariance, CleanupInvariance, MailInvariance, WalkInvariance, PipelineInvariance,
     StartInvariance, PTL

(* So the service has, at once, every safety property proved of its parts. *)
THEOREM ServiceSafe ==
    Spec => [](/\ RawCollected /\ AuditAgrees /\ StagedAsRuled
               /\ WithinSigned /\ DescriptorUsable
               /\ SweepComplete /\ SendsBounded
               /\ SkipsExplained /\ RepeatsExplained
               /\ OwnDiagnostics /\ CurrentRole
               /\ ListeningReady /\ LimitsAgree)
BY ServiceImplementsParts, RawFilesGo, AuditIsTrue, OnlyRuledIsStaged, LandedAsSigned,
   ObeyingIsEnough, SweepLeavesNothing, DeliveriesBounded, MissesExplained,
   DuplicatesExplained, AnswersAreOwn, RoleIsCurrent, ListensReady, CapsAgree, PTL

(* And so its sweeps, mails and starts advance in it.                      *)
COROLLARY ServiceAdvances == Spec => SweepAdvances /\ MailAdvances /\ BootAdvances
BY ServiceImplementsParts, SweepsAdvance, MailsAdvance, BootsAdvance
=============================================================================
