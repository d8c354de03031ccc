----------------------------- MODULE TempCleanup -----------------------------
(***************************************************************************)
(* cleanupTemp() of each provider against a temp area in which files are   *)
(* staged, age past the retention and are committed meanwhile.  S3 (and    *)
(* R2) and Cloudinary follow a continuation token, ImageKit an offset; the *)
(* local disk is walked without an await.                                  *)
(*                                                                         *)
(* Files are numbered in the order in which the provider lists them.       *)
(***************************************************************************)
EXTENDS Naturals, FiniteSets, FiniteSetsExt

CONSTANTS
    FileCount,  \* how many files there may be
    PageSize,   \* how many a listing returns
    ClSetups,   \* provider, and the files its listing does not show
    MaxFaults   \* bound on the calls that fail

ASSUME ClAssumption == FileCount \in Nat /\ PageSize \in Nat \ {0} /\ MaxFaults \in Nat

VARIABLES
    clSetup,
    clFiles,    \* where each file stands
    clPc,       \* the await at which the cleanup stands
    clCut,      \* the files older than its cutoff
    clAfter,    \* its continuation token, or its offset
    clPage,     \* the page listed last, less what was dealt with
    clMore,     \* whether the listing goes on after it
    clFaults,   \* how many calls have failed
    clOutcome,  \* of the last cleanup
    clLeft,     \* history: files that left the temp area since it began
    clKept      \* history: files whose delete failed unnoticed in it

clVars == <<clSetup, clFiles, clPc, clCut, clAfter, clPage, clMore, clFaults,
            clOutcome, clLeft, clKept>>

Files == 1..FileCount
NoSetupYet == [provider |-> "none", hidden |-> {}]
Paged == {"s3", "cloudinary", "imagekit"}

ClTypeOK ==
    /\ clSetup \in ClSetups \cup {NoSetupYet}
    /\ clFiles \in [Files -> {"absent", "fresh", "stale", "gone"}]
    /\ clPc \in {"off", "idle", "list", "delete"}
    /\ clCut \subseteq Files
    /\ clAfter \in Nat
    /\ clPage \subseteq Files
    /\ clMore \in BOOLEAN
    /\ clFaults \in 0..MaxFaults
    /\ clOutcome \in {"none", "complete", "failed"}
    /\ clLeft \subseteq Files
    /\ clKept \subseteq Files

ClInit ==
    /\ clSetup = NoSetupYet
    /\ clFiles = [f \in Files |-> "absent"]
    /\ clPc = "off"
    /\ clCut = {}
    /\ clAfter = 0
    /\ clPage = {}
    /\ clMore = FALSE
    /\ clFaults = 0
    /\ clOutcome = "none"
    /\ clLeft = {}
    /\ clKept = {}
----------------------------------------------------------------------------
\* Files, kinds and folders the listing does not reach: presigned keys when the
\* temp prefix is configured, videos and raw files on Cloudinary, subfolders on
\* ImageKit.
Listed == {f \in Files : clFiles[f] \in {"fresh", "stale"}} \ clSetup.hidden

Rank(f) == Cardinality({g \in Listed : g < f})

\* `skip`: a number of entries of the listing as it is now.
AheadOfOffset == {f \in Listed : Rank(f) >= clAfter}

\* ContinuationToken, next_cursor: after a key, wherever it stands now.
AheadOfToken == {f \in Listed : f > clAfter}

Ahead == IF clSetup.provider = "imagekit" THEN AheadOfOffset ELSE AheadOfToken

Page == {f \in Ahead : Cardinality({g \in Ahead : g < f}) < PageSize}

\* Mutant: the offset stays where it was.
SameOffset == clAfter

\* `skip += pageSize`, though the files deleted meanwhile moved the rest up; a
\* token names the last key listed.
NextAfter ==
    IF clSetup.provider = "imagekit" THEN clAfter + PageSize
    ELSE IF Page = {} THEN clAfter ELSE Max(Page)

\* Mutant: only the first page is swept.
FirstPageOnly == FALSE

\* IsTruncated or next_cursor; ImageKit goes on after every full page.
Continues ==
    IF clSetup.provider = "imagekit" THEN Cardinality(Page) = PageSize ELSE Ahead # Page

Leave(fs) ==
    /\ clFiles' = [f \in Files |-> IF f \in fs THEN "gone" ELSE clFiles[f]]
    /\ clLeft' = clLeft \cup fs

End(outcome) == clPc' = "idle" /\ clOutcome' = outcome

Fault == clFaults < MaxFaults /\ clFaults' = clFaults + 1
----------------------------------------------------------------------------
ClStart ==
    /\ clPc = "off"
    /\ clSetup' \in ClSetups
    /\ clPc' = "idle"
    /\ UNCHANGED <<clFiles, clCut, clAfter, clPage, clMore, clFaults, clOutcome, clLeft, clKept>>

Arrive ==
    /\ clPc # "off"
    /\ \E f \in Files : clFiles[f] = "absent" /\ clFiles' = [clFiles EXCEPT ![f] = "fresh"]
    /\ UNCHANGED <<clSetup, clPc, clCut, clAfter, clPage, clMore, clFaults, clOutcome, clLeft, clKept>>

GrowStale ==
    /\ \E f \in Files : clFiles[f] = "fresh" /\ clFiles' = [clFiles EXCEPT ![f] = "stale"]
    /\ UNCHANGED <<clSetup, clPc, clCut, clAfter, clPage, clMore, clFaults, clOutcome, clLeft, clKept>>

\* A commit, or a remove, by somebody else.
TakeAway ==
    /\ \E f \in Files : clFiles[f] \in {"fresh", "stale"} /\ Leave({f})
    /\ UNCHANGED <<clSetup, clPc, clCut, clAfter, clPage, clMore, clFaults, clOutcome, clKept>>

\* cleanupTemp(): the cutoff is taken once.
BeginSweep ==
    /\ clPc = "idle"
    /\ clPc' = "list"
    /\ clCut' = {f \in Files : clFiles[f] = "stale"}
    /\ clAfter' = 0
    /\ clOutcome' = "none"
    /\ clLeft' = {}
    /\ clKept' = {}
    /\ UNCHANGED <<clSetup, clFiles, clPage, clMore, clFaults>>

\* One page; a call that fails ends the cleanup, which reports what it did.
ListPage ==
    /\ clPc = "list" /\ clSetup.provider \in Paged
    /\ \/ /\ clPage' = Page \cap clCut
          /\ clMore' = Continues
          /\ clAfter' = NextAfter
          /\ IF Page \cap clCut # {} THEN clPc' = "delete" /\ UNCHANGED clOutcome
             ELSE IF Continues THEN UNCHANGED <<clPc, clOutcome>> ELSE End("complete")
          /\ UNCHANGED clFaults
       \/ Fault /\ End("failed") /\ UNCHANGED <<clAfter, clPage, clMore>>
    /\ UNCHANGED <<clSetup, clFiles, clCut, clLeft, clKept>>

AfterPage == IF clMore THEN clPc' = "list" /\ UNCHANGED clOutcome ELSE End("complete")

\* DeleteObjects names the whole page, and its per-key errors are not looked at.
DeletePage ==
    /\ clPc = "delete" /\ clSetup.provider = "s3"
    /\ \/ Leave(clPage) /\ AfterPage /\ UNCHANGED <<clFaults, clKept>>
       \/ \E f \in clPage :
            /\ Leave(clPage \ {f}) /\ AfterPage /\ Fault
            /\ clKept' = clKept \cup {f}
       \/ Fault /\ End("failed") /\ UNCHANGED <<clFiles, clLeft, clKept>>
    /\ clPage' = {}
    /\ UNCHANGED <<clSetup, clCut, clAfter, clMore>>

\* The next file of the page is gone from the listing.
DeleteNext ==
    /\ Leave({Min(clPage)})
    /\ clPage' = clPage \ {Min(clPage)}
    /\ IF clPage' = {} THEN AfterPage ELSE UNCHANGED <<clPc, clOutcome>>
    /\ UNCHANGED clFaults

FailSweep == End("failed") /\ UNCHANGED <<clFiles, clPage, clLeft>>

\* destroy(), one by one; a file that is gone is no error.
DestroyNext ==
    /\ clPc = "delete" /\ clSetup.provider = "cloudinary"
    /\ DeleteNext \/ (Fault /\ FailSweep)
    /\ UNCHANGED <<clSetup, clCut, clAfter, clMore, clKept>>

\* deleteFile(), one by one, which fails on a file that is gone.
DeleteFileNext ==
    /\ clPc = "delete" /\ clSetup.provider = "imagekit"
    /\ \/ clFiles[Min(clPage)] # "gone" /\ DeleteNext
       \/ clFiles[Min(clPage)] = "gone" /\ FailSweep /\ UNCHANGED clFaults
       \/ Fault /\ FailSweep
    /\ UNCHANGED <<clSetup, clCut, clAfter, clMore, clKept>>

\* The recursive walk: an entry that fails is skipped.
SweepLocal ==
    /\ clPc = "list" /\ clSetup.provider = "local"
    /\ LET stale == {f \in clCut : clFiles[f] = "stale"}
       IN  \/ Leave(stale) /\ UNCHANGED <<clFaults, clKept>>
           \/ \E f \in stale : Leave(stale \ {f}) /\ Fault /\ clKept' = {f}
    /\ End("complete")
    /\ UNCHANGED <<clSetup, clCut, clAfter, clPage, clMore>>

Sweep == ListPage \/ DeletePage \/ DestroyNext \/ DeleteFileNext \/ SweepLocal

ClNext == ClStart \/ Arrive \/ GrowStale \/ TakeAway \/ BeginSweep \/ Sweep

\* A cleanup that has begun goes on: each await is resolved or rejected.
ClFairness == WF_clVars(Sweep)

ClSpec == ClInit /\ [][ClNext]_clVars /\ ClFairness
----------------------------------------------------------------------------
\* A cleanup that completes leaves no listed file that was stale when it began,
\* but for those whose delete failed unnoticed, and on ImageKit those that moved
\* up a page when files before them were deleted or committed meanwhile.
SweepComplete ==
    clOutcome = "complete" =>
        \A f \in clCut \ clSetup.hidden :
            clFiles[f] = "stale" =>
                \/ f \in clKept
                \/ clSetup.provider = "imagekit" /\ \E g \in clLeft : g < f

\* A cleanup comes to an end, whatever arrives and leaves meanwhile.
SweepEnds == clPc \in {"list", "delete"} ~> clPc = "idle"

\* Why it does: every step of a cleanup ends it, moves its token or offset on, up
\* to a bound, or leaves less of the page; nobody else moves either.
SweepAdvances ==
    [][/\ Sweep =>
            \/ clPc' = "idle"
            \/ clAfter < clAfter' /\ clAfter' < FileCount + PageSize
            \/ clAfter' = clAfter /\ clPage' \subseteq clPage /\ clPage' # clPage
       /\ clPc \in {"list", "delete"} =>
            Sweep \/ UNCHANGED <<clPc, clAfter, clPage>>]_clVars

\* If somebody keeps calling cleanupTemp(), which nothing in the code does, every
\* stale file that is listed goes in the end, also on ImageKit, a page a time.
EventuallySwept ==
    []<><<BeginSweep>>_clVars =>
        \A f \in Files : clFiles[f] = "stale" /\ f \notin clSetup.hidden ~> clFiles[f] = "gone"

\* What a cleanup under way owes: the files SweepComplete asks it to remove.
Owed ==
    {f \in clCut \ (clSetup.hidden \cup clKept) :
        clFiles[f] = "stale" /\ (clSetup.provider = "imagekit" => \A g \in clLeft : ~(g < f))}

\* Inductive: what is owed still lies ahead in the listing, or on the page listed.
ClReach ==
    /\ \A f \in clCut : clFiles[f] \in {"stale", "gone"}
    /\ clOutcome = "complete" => clPc = "idle"
    /\ clPc = "list" => Owed \subseteq Ahead
    /\ clPc = "delete" =>
         clPage # {} /\ Owed \subseteq clPage \cup (IF clMore THEN Ahead ELSE {})

ClInv == ClTypeOK /\ ClReach /\ SweepComplete
============================================================================
