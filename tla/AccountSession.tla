-------------------------- MODULE AccountSession --------------------------
(***************************************************************************)
(* What AuthService comes to for the clients of one account.  There is one *)
(* session, open or closed, however many tokens are out: a refresh asks    *)
(* whether it is open and not which token it was given, and neither the    *)
(* removal of the account nor its status closes it.                        *)
(*                                                                         *)
(* A request is admitted or refused by what stands when it is looked at;   *)
(* what it then does it does whatever has become of the account meanwhile. *)
(***************************************************************************)
CONSTANT Requests

VARIABLES
    taken,      \* somebody has registered the address
    removed,    \* the account was removed
    status,     \* and its status
    open,       \* the session
    asks,       \* what each request wants
    course      \* how far it has come, or how it ended

vars == <<taken, removed, status, open, asks, course>>

Wants == {"register", "login", "refresh", "logout", "remove"}
Statuses == {"ACTIVE", "INACTIVE", "SUSPENDED"}
Stages == {"none", "pending", "admitted", "acted", "done", "refused", "failed", "lost"}

Init ==
    /\ taken \in BOOLEAN /\ removed = FALSE /\ status \in Statuses /\ open \in BOOLEAN
    /\ ~taken => ~open /\ status = "ACTIVE"
    /\ asks \in [Requests -> Wants]
    /\ course = [r \in Requests |-> "none"]

Present == taken /\ ~removed

Welcome(r) ==
    CASE asks[r] = "register" -> ~taken
      [] asks[r] = "login" -> Present /\ status = "ACTIVE"
      [] asks[r] = "refresh" -> open
      [] asks[r] = "logout" -> Present /\ status # "SUSPENDED"
      [] asks[r] = "remove" -> Present

Move(r, from, to) ==
    /\ course[r] \in from
    /\ course' = [course EXCEPT ![r] = to]

Arrive(r) ==
    /\ asks[r] = "logout" => taken
    /\ Move(r, {"none"}, "pending")
    /\ UNCHANGED <<taken, removed, status, open, asks>>

\* To be admitted as the owner of an address is to take it.
Admit(r) ==
    /\ Welcome(r)
    /\ Move(r, {"pending"}, "admitted")
    /\ taken' = (taken \/ asks[r] = "register")
    /\ UNCHANGED <<removed, status, open, asks>>

Refuse(r) ==
    /\ ~Welcome(r)
    /\ Move(r, {"pending"}, "refused")
    /\ UNCHANGED <<taken, removed, status, open, asks>>

Open(r) ==
    /\ asks[r] \in {"register", "login", "refresh"}
    /\ Move(r, {"admitted"}, "acted")
    /\ open' = TRUE
    /\ UNCHANGED <<taken, removed, status, asks>>

Close(r) ==
    /\ asks[r] = "logout"
    /\ Move(r, {"admitted"}, "acted")
    /\ open' = FALSE
    /\ UNCHANGED <<taken, removed, status, asks>>

Remove(r) ==
    /\ asks[r] = "remove"
    /\ Move(r, {"admitted"}, "acted")
    /\ removed' = TRUE
    /\ UNCHANGED <<taken, status, open, asks>>

Finish(r) ==
    /\ Move(r, {"acted"}, "done")
    /\ UNCHANGED <<taken, removed, status, open, asks>>

\* Only a request that opened a session by a password can fail after it acted.
Fail(r) ==
    /\ Move(r, {"pending", "admitted", "acted"}, "failed")
    /\ course[r] = "acted" => asks[r] \in {"register", "login"}
    /\ UNCHANGED <<taken, removed, status, open, asks>>

Lose(r) ==
    /\ Move(r, {"pending", "admitted", "acted"}, "lost")
    /\ UNCHANGED <<taken, removed, status, open, asks>>

SetStatus(s) ==
    /\ taken
    /\ status' = s
    /\ UNCHANGED <<taken, removed, open, asks, course>>

Next ==
    \/ \E s \in Statuses : SetStatus(s)
    \/ \E r \in Requests :
         \/ Arrive(r) \/ Admit(r) \/ Refuse(r) \/ Open(r) \/ Close(r) \/ Remove(r)
         \/ Finish(r) \/ Fail(r) \/ Lose(r)

Spec == Init /\ [][Next]_vars
=============================================================================
