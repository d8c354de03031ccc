---------------------------- MODULE AuthSession ----------------------------
(***************************************************************************)
(* AuthService and the bearer check over the account of one email address: *)
(* register, login, refresh and logout, racing each other, the soft delete *)
(* of UserService.remove, and changes of users.status.  Each database call *)
(* is an action, so what a request read may be stale when it writes.       *)
(*                                                                         *)
(* A refresh token is named by the request that generated it; Old is one   *)
(* that a client holds from before.  The email column is unique, so that   *)
(* there is never more than one row.  Access tokens do not expire here.    *)
(***************************************************************************)
EXTENDS Naturals

CONSTANTS
    Requests,   \* the requests of a run
    Old,        \* a refresh token handed out before the run
    NoToken,    \* users.refresh_token is NULL
    MaxChanges  \* bound on the changes of users.status

ASSUME TokensAssumption == Old \notin Requests /\ NoToken \notin Requests \cup {Old}
ASSUME ChangesAssumption == MaxChanges \in Nat

VARIABLES
    user,       \* the users row: its existence, deletedAt, status, refresh_token
    changes,    \* how often the status changed
    pc,         \* where each request stands
    op,         \* what each request does
    token,      \* the refresh token a refresh request carries
    answer,     \* what its client was answered
    saved,      \* history: the requests that stored the hash of their token
    cleared,    \* history: the logouts that set refresh_token to NULL
    prior,      \* history: the requests answered before it arrived
    seen        \* history: the statuses since it arrived

vars == <<user, changes, pc, op, token, answer, saved, cleared, prior, seen>>

Ops == {"register", "login", "refresh", "logout", "remove"}

\* ACTIVE stands for PENDING_VERIFICATION too: no code tells them apart.
Statuses == {"ACTIVE", "INACTIVE", "SUSPENDED"}
Tokens == Requests \cup {Old}
PCs == {"idle", "load", "create", "save", "stamp", "clear", "delete", "reply",
        "done", "lost"}
Answers == {"none", "ok", "rejected", "conflict", "error"}

TypeOK ==
    /\ user \in [exists : BOOLEAN, deleted : BOOLEAN, status : Statuses,
                 refreshToken : Tokens \cup {NoToken}]
    /\ changes \in Nat
    /\ pc \in [Requests -> PCs]
    /\ op \in [Requests -> Ops]
    /\ token \in [Requests -> Tokens \cup {NoToken}]
    /\ answer \in [Requests -> Answers]
    /\ saved \subseteq Requests
    /\ cleared \subseteq Requests
    /\ prior \in [Requests -> SUBSET Requests]
    /\ seen \in [Requests -> SUBSET Statuses]

\* No account yet, or one with or without a session of its own.
Init ==
    /\ user \in [exists : BOOLEAN, deleted : {FALSE}, status : Statuses,
                 refreshToken : {Old, NoToken}]
    /\ ~user.exists => user.refreshToken = NoToken /\ user.status = "ACTIVE"
    /\ changes = 0
    /\ pc = [r \in Requests |-> "idle"]
    /\ op \in [Requests -> Ops]
    /\ token = [r \in Requests |-> NoToken]
    /\ answer = [r \in Requests |-> "none"]
    /\ saved = {}
    /\ cleared = {}
    /\ prior = [r \in Requests |-> {}]
    /\ seen = [r \in Requests |-> {}]
----------------------------------------------------------------------------
Goto(r, label) == pc' = [pc EXCEPT ![r] = label]
Reply(r, a) == Goto(r, "done") /\ answer' = [answer EXCEPT ![r] = a]

\* Mutant: findByEmail without `deletedAt: null`.
FoundDeletedToo == user.exists

\* findByEmail, which leaves soft-deleted users out.
FoundByEmail == user.exists /\ ~user.deleted

\* Mutant: login refuses INACTIVE users only.
MayLoginSuspended == FoundByEmail /\ user.status # "INACTIVE"

\* login: the statuses that get tokens.
MayLogin == FoundByEmail /\ user.status = "ACTIVE"

\* JwtStrategy.validate: INACTIVE users keep their access tokens.
BearerAccepted == user.exists /\ ~user.deleted /\ user.status # "SUSPENDED"

\* bcryptjs compares 72 bytes; those of a refresh token are the JWT header and
\* the first half of the user's id, the same in every token of the user.
Matches(t, hash) == t \in Tokens /\ hash # NoToken

\* Mutant: no check that a hash is stored.
RefreshAlways(t) == user.exists

\* refreshTokens looks at the stored hash only, not at deletedAt or status.
MayRefresh(t) ==
    user.exists /\ user.refreshToken # NoToken /\ Matches(t, user.refreshToken)

\* What the client may hold: Old, and every refresh token it was answered.
Handed == {Old} \cup {g \in saved : answer[g] = "ok"}
----------------------------------------------------------------------------
Arrive(r) ==
    /\ pc[r] = "idle"
    /\ op[r] = "logout" => user.exists   \* its access token names an account
    /\ Goto(r, "load")
    /\ \/ op[r] = "refresh" /\ \E t \in Handed : token' = [token EXCEPT ![r] = t]
       \/ op[r] # "refresh" /\ UNCHANGED token
    /\ prior' = [prior EXCEPT ![r] = {q \in Requests : pc[q] = "done"}]
    /\ seen' = [seen EXCEPT ![r] = {user.status}]
    /\ UNCHANGED <<user, changes, op, answer, saved, cleared>>

\* A check answers or lets the request go on to its next call.
Check(r, passes, next, refusal) ==
    /\ pc[r] = "load"
    /\ \/ passes /\ Goto(r, next) /\ UNCHANGED answer
       \/ ~passes /\ Reply(r, refusal)
       \/ Reply(r, "error")
    /\ UNCHANGED <<user, changes, op, token, saved, cleared, prior, seen>>

CheckRegister(r) ==
    op[r] = "register" /\ Check(r, ~FoundByEmail, "create", "conflict")

\* The right password: a wrong one is refused and changes nothing.
CheckLogin(r) == op[r] = "login" /\ Check(r, MayLogin, "save", "rejected")

CheckRefresh(r) ==
    op[r] = "refresh" /\ Check(r, MayRefresh(token[r]), "save", "rejected")

CheckBearer(r) == op[r] = "logout" /\ Check(r, BearerAccepted, "clear", "rejected")

CheckRemove(r) == op[r] = "remove" /\ Check(r, FoundByEmail, "delete", "rejected")

\* Mutant: the email column is not unique, a second row hides the first.
CreateAnyway(r) ==
    /\ pc[r] = "create"
    /\ user' = [exists |-> TRUE, deleted |-> FALSE, status |-> "ACTIVE",
                refreshToken |-> NoToken]
    /\ Goto(r, "save")
    /\ UNCHANGED <<changes, op, token, answer, saved, cleared, prior, seen>>

\* The unique index refuses the second of two registers, and any register for
\* the address of a removed user.
Create(r) ==
    /\ pc[r] = "create"
    /\ \/ /\ ~user.exists
          /\ user' = [user EXCEPT !.exists = TRUE]
          /\ Goto(r, "save")
          /\ UNCHANGED answer
       \/ /\ user.exists
          /\ Reply(r, "conflict")
          /\ UNCHANGED user
       \/ /\ Reply(r, "error")
          /\ UNCHANGED user
    /\ UNCHANGED <<changes, op, token, saved, cleared, prior, seen>>

\* Mutant: the new hash is never stored.
SaveNothing(r) ==
    /\ pc[r] = "save"
    /\ saved' = saved \cup {r}
    /\ Goto(r, IF op[r] = "refresh" THEN "reply" ELSE "stamp")
    /\ UNCHANGED <<user, changes, op, token, answer, cleared, prior, seen>>

\* generateTokens and saveRefreshToken: writes by id, whatever the row is now.
SaveRefreshToken(r) ==
    /\ pc[r] = "save"
    /\ \/ /\ user' = [user EXCEPT !.refreshToken = r]
          /\ saved' = saved \cup {r}
          /\ Goto(r, IF op[r] = "refresh" THEN "reply" ELSE "stamp")
          /\ UNCHANGED answer
       \/ /\ Reply(r, "error")
          /\ UNCHANGED <<user, saved>>
    /\ UNCHANGED <<changes, op, token, cleared, prior, seen>>

\* updateLastLogin: when it fails the session stays, though the client never
\* gets its tokens.
StampLogin(r) ==
    /\ pc[r] = "stamp"
    /\ Reply(r, "ok") \/ Reply(r, "error")
    /\ UNCHANGED <<user, changes, op, token, saved, cleared, prior, seen>>

ClearSession(r) ==
    /\ pc[r] = "clear"
    /\ \/ /\ user' = [user EXCEPT !.refreshToken = NoToken]
          /\ cleared' = cleared \cup {r}
          /\ Goto(r, "reply")
          /\ UNCHANGED answer
       \/ /\ Reply(r, "error")
          /\ UNCHANGED <<user, cleared>>
    /\ UNCHANGED <<changes, op, token, saved, prior, seen>>

\* The soft delete leaves refresh_token as it is.
SoftDelete(r) ==
    /\ pc[r] = "delete"
    /\ \/ /\ user' = [user EXCEPT !.deleted = TRUE]
          /\ Goto(r, "reply")
          /\ UNCHANGED answer
       \/ /\ Reply(r, "error")
          /\ UNCHANGED user
    /\ UNCHANGED <<changes, op, token, saved, cleared, prior, seen>>

Answer(r) ==
    /\ pc[r] = "reply"
    /\ Reply(r, "ok")
    /\ UNCHANGED <<user, changes, op, token, saved, cleared, prior, seen>>

\* The instance serving the request dies at any await.
Crash(r) ==
    /\ pc[r] \notin {"idle", "done", "lost"}
    /\ Goto(r, "lost")
    /\ UNCHANGED <<user, changes, op, token, answer, saved, cleared, prior, seen>>

\* No code writes users.status: an operator does, in the database.
SetStatus(s) ==
    /\ user.exists /\ user.status # s /\ changes < MaxChanges
    /\ changes' = changes + 1
    /\ user' = [user EXCEPT !.status = s]
    /\ seen' = [r \in Requests |->
                  IF pc[r] \in {"idle", "done", "lost"} THEN seen[r] ELSE seen[r] \cup {s}]
    /\ UNCHANGED <<pc, op, token, answer, saved, cleared, prior>>

Next ==
    \/ \E s \in Statuses : SetStatus(s)
    \/ \E r \in Requests :
         \/ Arrive(r) \/ CheckRegister(r) \/ CheckLogin(r) \/ CheckRefresh(r)
         \/ CheckBearer(r) \/ CheckRemove(r) \/ Create(r) \/ SaveRefreshToken(r)
         \/ StampLogin(r) \/ ClearSession(r) \/ SoftDelete(r) \/ Answer(r) \/ Crash(r)

Spec == Init /\ [][Next]_vars
----------------------------------------------------------------------------
(***************************************************************************)
(* A refresh that arrives after a logout was answered succeeds only if a   *)
(* session was stored by some other request that was not answered yet when *)
(* the logout arrived: a new login, or one the logout overtook.            *)
(***************************************************************************)
LogoutEndsSession ==
    \A x, r \in Requests :
        /\ op[x] = "logout" /\ answer[x] = "ok" /\ x \in prior[r]
        /\ op[r] = "refresh" /\ answer[r] = "ok"
        => \E g \in saved \ {r} : g \notin prior[x]

(***************************************************************************)
(* A refresh token that was handed out is refused only because a logout    *)
(* that was not answered when the token was asked for cleared the session: *)
(* no other login, refresh, remove or change of status takes it away.      *)
(***************************************************************************)
TokenWorks ==
    \A r, g \in Requests :
        op[r] = "refresh" /\ token[r] = g /\ answer[r] = "rejected"
        => \E x \in cleared : x \notin prior[g]

(***************************************************************************)
(* Once a remove was answered the account cannot log in, use its access    *)
(* tokens, be registered again or be removed again; refreshes go on.       *)
(***************************************************************************)
RemovedIsOut ==
    \A d, r \in Requests :
        op[d] = "remove" /\ answer[d] = "ok" /\ d \in prior[r] /\ answer[r] = "ok"
        => op[r] = "refresh"

(***************************************************************************)
(* A request whose account was suspended all the while is refused by login *)
(* and by the bearer check, one whose account was inactive by login.       *)
(***************************************************************************)
StatusEnforced ==
    \A r \in Requests : answer[r] = "ok" =>
        /\ op[r] = "login" => "ACTIVE" \in seen[r]
        /\ op[r] = "logout" => \E s \in seen[r] : s # "SUSPENDED"

(***************************************************************************)
(* Two registers of one address never both succeed, and none succeeds on   *)
(* top of an account that a request saw there before it arrived.           *)
(***************************************************************************)
OneAccount ==
    \A r, q \in Requests :
        op[r] = "register" /\ answer[r] = "ok" =>
            /\ op[q] = "register" /\ answer[q] = "ok" => q = r
            /\ q \in prior[r] => answer[q] # "ok"

(***************************************************************************)
(* modules/auth/docs/API.md:141: the old refresh token is invalidated      *)
(* after rotation, so a later refresh with it fails.                       *)
(***************************************************************************)
RotationInvalidates ==
    \A q, r \in Requests :
        /\ op[q] = "refresh" /\ answer[q] = "ok" /\ q \in prior[r]
        /\ op[r] = "refresh" /\ token[r] = token[q]
        => answer[r] # "ok"
----------------------------------------------------------------------------
(***************************************************************************)
(* AuthService implements AccountSession: of the stored hash only whether  *)
(* it is there counts, and of the token a client presents nothing at all.  *)
(***************************************************************************)
Stage ==
    [idle |-> "none", load |-> "pending", create |-> "pending", save |-> "admitted",
     clear |-> "admitted", delete |-> "admitted", stamp |-> "acted", reply |-> "acted",
     lost |-> "lost"]
Verdict ==
    [none |-> "none", ok |-> "done", rejected |-> "refused", conflict |-> "refused",
     error |-> "failed"]

Opened == user.refreshToken # NoToken
Course == [r \in Requests |-> IF pc[r] = "done" THEN Verdict[answer[r]] ELSE Stage[pc[r]]]

OneSession == INSTANCE AccountSession WITH
    taken <- user.exists, removed <- user.deleted, status <- user.status,
    open <- Opened, asks <- op, course <- Course

Refines == OneSession!Spec
----------------------------------------------------------------------------
(* The strengthening that makes TokenWorks inductive, and from which the   *)
(* other four properties follow.                                           *)

Issues(r) == op[r] \in {"register", "login", "refresh"}

\* Where a request can stand, and what it has done by then.
Timeline ==
    \A r \in Requests :
        /\ answer[r] # "none" => pc[r] = "done"
        /\ pc[r] = "create" => op[r] = "register"
        /\ pc[r] = "save" => Issues(r)
        /\ pc[r] = "stamp" => op[r] \in {"register", "login"}
        /\ pc[r] = "clear" => op[r] = "logout"
        /\ pc[r] = "delete" => op[r] = "remove"
        /\ pc[r] = "reply" => op[r] \in {"refresh", "logout", "remove"}
        /\ r \in saved => Issues(r) /\ pc[r] \in {"stamp", "reply", "done", "lost"}
        /\ r \in cleared => op[r] = "logout"
        /\ pc[r] = "idle" => prior[r] = {}
        /\ \A q \in prior[r] : pc[q] = "done"
        /\ op[r] = "refresh" /\ pc[r] # "idle" => token[r] \in Handed
        /\ pc[r] \notin {"idle", "done", "lost"} => user.status \in seen[r]

\* r is past the check of its kind.
Admitted(r) == pc[r] \in {"save", "stamp", "clear", "delete", "reply"} \/ answer[r] = "ok"

Existence ==
    /\ user.refreshToken # NoToken => user.exists
    /\ \A r \in Requests : Admitted(r) \/ r \in saved => user.exists

\* A stored hash stays until a logout clears it; a cleared one comes back only
\* with a token that was not handed out before the logout.
SessionKept ==
    /\ \A g \in saved : user.refreshToken # NoToken \/ \E x \in cleared : x \notin prior[g]
    /\ \A x \in Requests :
         op[x] = "logout" /\ (pc[x] = "reply" \/ answer[x] = "ok") =>
             user.refreshToken = NoToken \/ \E g \in saved : g \notin prior[x]

\* LogoutEndsSession for refreshes that are still under way.
RefreshExplained ==
    \A x, r \in Requests :
        /\ op[x] = "logout" /\ answer[x] = "ok" /\ x \in prior[r]
        /\ op[r] = "refresh" /\ Admitted(r)
        => \E g \in saved \ {r} : g \notin prior[x]

\* RemovedIsOut, StatusEnforced and OneAccount for requests under way.
RemovedEarly ==
    \A d \in Requests : op[d] = "remove" /\ (pc[d] = "reply" \/ answer[d] = "ok") =>
        /\ user.deleted /\ user.exists
        /\ \A r \in Requests :
             d \in prior[r] /\ answer[d] = "ok" /\ op[r] # "refresh" => ~Admitted(r)

StatusEarly ==
    \A r \in Requests : Admitted(r) =>
        /\ op[r] = "login" => "ACTIVE" \in seen[r]
        /\ op[r] = "logout" => \E s \in seen[r] : s # "SUSPENDED"

OneAccountEarly ==
    \A r, q \in Requests :
        op[r] = "register" /\ Admitted(r) =>
            /\ op[q] = "register" /\ Admitted(q) => q = r
            /\ q \in prior[r] => answer[q] # "ok"

IInv ==
    /\ TypeOK /\ Timeline /\ Existence /\ SessionKept /\ RefreshExplained
    /\ RemovedEarly /\ StatusEarly /\ OneAccountEarly /\ TokenWorks
=============================================================================
