------------------------------ MODULE MailQueue ------------------------------
(***************************************************************************)
(* E-mails queued by EmailQueue.sendEmail() and sent by EmailProcessor.    *)
(* Bull and Redis are external: Bull promotes delayed jobs, hands a job to *)
(* a worker, counts the attempts a handler threw in, and gives a job whose *)
(* worker lost its lock to another worker, at most MaxStalls times.        *)
(***************************************************************************)
EXTENDS Naturals, FiniteSets

CONSTANTS
    Mails,      \* jobs that may be queued
    Attempts,   \* `attempts` of sendEmail()
    MaxStalls,  \* Bull's maxStalledCount
    Workers     \* how many handlers run at a time

ASSUME MailAssumption ==
    Attempts \in Nat \ {0} /\ MaxStalls \in Nat /\ Workers \in Nat \ {0}

VARIABLES
    mailAt,     \* where each job stands
    mailTries,  \* attemptsMade
    mailStalls, \* stalledCounter
    mailSent,   \* history: how often the provider took the mail, up to one too often
    mailGhosts  \* jobs whose handler still runs, though Bull gave them away

mailVars == <<mailAt, mailTries, mailStalls, mailSent, mailGhosts>>

MailTypeOK ==
    /\ mailAt \in [Mails -> {"none", "delayed", "waiting", "active", "sent", "completed", "failed"}]
    /\ mailTries \in [Mails -> 0..Attempts]
    /\ mailStalls \in [Mails -> 0..(MaxStalls + 1)]
    /\ mailSent \in [Mails -> 0..(Attempts + MaxStalls + 1)]
    /\ mailGhosts \subseteq Mails

MailInit ==
    /\ mailAt = [m \in Mails |-> "none"]
    /\ mailTries = [m \in Mails |-> 0]
    /\ mailStalls = [m \in Mails |-> 0]
    /\ mailSent = [m \in Mails |-> 0]
    /\ mailGhosts = {}
----------------------------------------------------------------------------
Running == {m \in Mails : mailAt[m] \in {"active", "sent"}}

MoveTo(m, place) == mailAt' = [mailAt EXCEPT ![m] = place]

Sent(m) ==
    mailSent' = [mailSent EXCEPT ![m] = IF @ > Attempts + MaxStalls THEN @ ELSE @ + 1]

\* Mutant: no number of attempts is given, and Bull's handler retries for ever.
AlwaysAgain(tries) == TRUE

TriesAgain(tries) == tries < Attempts

\* Mutant: a job that stalls is given back as often as it does.
AlwaysGivenBack(stalls) == TRUE

GivenBack(stalls) == stalls <= MaxStalls

\* sendEmail(data, delay).
SendEmail(m) ==
    /\ mailAt[m] = "none"
    /\ \E place \in {"delayed", "waiting"} : MoveTo(m, place)
    /\ UNCHANGED <<mailTries, mailStalls, mailSent, mailGhosts>>

Promote(m) ==
    /\ mailAt[m] = "delayed"
    /\ MoveTo(m, "waiting")
    /\ UNCHANGED <<mailTries, mailStalls, mailSent, mailGhosts>>

Take(m) ==
    /\ mailAt[m] = "waiting" /\ Cardinality(Running) < Workers
    /\ MoveTo(m, "active")
    /\ UNCHANGED <<mailTries, mailStalls, mailSent, mailGhosts>>

\* The provider takes the mail; the handler has yet to return.
Deliver(m) ==
    /\ mailAt[m] = "active"
    /\ MoveTo(m, "sent")
    /\ Sent(m)
    /\ UNCHANGED <<mailTries, mailStalls, mailGhosts>>

Return(m) ==
    /\ mailAt[m] = "sent"
    /\ MoveTo(m, "completed")
    /\ UNCHANGED <<mailTries, mailStalls, mailSent, mailGhosts>>

\* The handler logs and rethrows, perhaps after the provider took the mail.
Throw(m) ==
    /\ m \in Running
    /\ LET tries == mailTries[m] + 1
       IN  /\ mailTries' = [mailTries EXCEPT ![m] = IF tries < Attempts THEN tries ELSE Attempts]
           /\ MoveTo(m, IF TriesAgain(tries) THEN "delayed" ELSE "failed")
    /\ UNCHANGED <<mailStalls, mailSent, mailGhosts>>

\* The process dies, or its event loop blocks past the lock and then goes on.
Stall(m) ==
    /\ m \in Running
    /\ LET stalls == mailStalls[m] + 1
       IN  /\ mailStalls' = [mailStalls EXCEPT ![m] = IF stalls <= MaxStalls THEN stalls ELSE MaxStalls + 1]
           /\ MoveTo(m, IF GivenBack(stalls) THEN "waiting" ELSE "failed")
    /\ \/ mailAt[m] = "active" /\ mailGhosts' = mailGhosts \cup {m}
       \/ UNCHANGED mailGhosts
    /\ UNCHANGED <<mailTries, mailSent>>

\* Bull refuses the result of a handler without the lock.
GhostDelivers(m) ==
    /\ m \in mailGhosts
    /\ mailGhosts' = mailGhosts \ {m}
    /\ Sent(m)
    /\ UNCHANGED <<mailAt, mailTries, mailStalls>>

Handle(m) == Deliver(m) \/ Return(m) \/ Throw(m)

MailNext ==
    \E m \in Mails :
        SendEmail(m) \/ Promote(m) \/ Take(m) \/ Handle(m) \/ Stall(m) \/ GhostDelivers(m)

\* Bull's timer and its workers go on, and so does a handler: 100 ms of a timer
\* today, whose promise always settles.
MailFairness ==
    \A m \in Mails : WF_mailVars(Promote(m)) /\ WF_mailVars(Take(m)) /\ WF_mailVars(Handle(m))

MailSpec == MailInit /\ [][MailNext]_mailVars /\ MailFairness
----------------------------------------------------------------------------
\* A mail is delivered at most once per attempt and once more per stall, also
\* when a blocked worker goes on with a job that was given away; a mail reported
\* completed was delivered; one given up had all its attempts, or stalled too often.
SendsBounded ==
    \A m \in Mails :
        /\ mailSent[m] <= Attempts + MaxStalls
        /\ mailAt[m] = "completed" => mailSent[m] > 0
        /\ mailAt[m] = "failed" => mailTries[m] = Attempts \/ mailStalls[m] > MaxStalls

\* Inductive: what has been sent, and what a ghost may yet send, is paid for by an
\* attempt, by a stall, or by the handler that runs.
MailCounted ==
    \A m \in Mails :
        /\ mailSent[m] + (IF m \in mailGhosts THEN 1 ELSE 0)
             <= mailTries[m] + mailStalls[m] + (IF mailAt[m] \in {"sent", "completed"} THEN 1 ELSE 0)
        /\ mailAt[m] \in {"sent", "completed"} => mailSent[m] > 0
        /\ mailAt[m] # "failed" => mailTries[m] < Attempts /\ mailStalls[m] <= MaxStalls
        /\ mailAt[m] = "failed" =>
             \/ mailTries[m] = Attempts /\ mailStalls[m] <= MaxStalls
             \/ mailTries[m] < Attempts /\ mailStalls[m] = MaxStalls + 1

MailInv == MailTypeOK /\ MailCounted

\* Every mail that is queued is completed or given up in the end.
MailSettles ==
    \A m \in Mails : mailAt[m] # "none" ~> mailAt[m] \in {"completed", "failed"}

\* Why it does: a mail goes back only at the price of an attempt or of a stall, of
\* which there are so many, and a mail that is settled stays as it is.
Stage == [none |-> 0, delayed |-> 1, waiting |-> 2, active |-> 3, sent |-> 4,
          completed |-> 5, failed |-> 5]

Price(m) == mailTries[m] + mailStalls[m]

MailAdvances ==
    [][\A m \in Mails :
         /\ Price(m) <= Price(m)' /\ Price(m)' <= Attempts + MaxStalls
         /\ mailAt'[m] # mailAt[m] =>
              Price(m) < Price(m)' \/ Stage[mailAt[m]] < Stage[mailAt'[m]]
         /\ mailAt[m] \in {"completed", "failed"} => UNCHANGED <<mailAt[m], Price(m)>>]_mailVars
=============================================================================
