---------------------------- MODULE StagedFile ----------------------------
(***************************************************************************)
(* What the two-stage upload promises of one file: it is staged, it expires *)
(* some day, commits publish it under an upload type.  A published version *)
(* disappears, or moves to another type, only when a client has asked for  *)
(* it by its place; a staged one only when a client has, or once it was    *)
(* published or has expired.                                               *)
(*                                                                         *)
(* Not every storage backend keeps all of it.  Where ~exact, a version may *)
(* be published again after it left the place it was in, and a staged      *)
(* version may be discarded because an earlier one was published.          *)
(***************************************************************************)
EXTENDS Naturals

CONSTANTS
    Types,      \* upload types, each a place to publish in
    Temp        \* the staging area

VARIABLES
    at,         \* the version at each place, or 0
    newest,     \* versions are numbered in the order they are staged
    landed,     \* the versions that were ever published
    asked,      \* the places whose file a client asked to remove or to move
    expired,    \* the retention of the staging area has passed
    exact       \* the backend keeps the whole promise

vars == <<at, newest, landed, asked, expired, exact>>

Places == {Temp} \cup Types

Init ==
    /\ at = [p \in Places |-> 0]
    /\ newest = 0
    /\ landed = {}
    /\ asked = {}
    /\ expired = FALSE
    /\ exact \in BOOLEAN

Stage ==
    /\ ~expired
    /\ newest' = newest + 1
    /\ at' = [at EXCEPT ![Temp] = newest']
    /\ UNCHANGED <<landed, asked, expired, exact>>

Ask(p) ==
    /\ asked' = asked \cup {p}
    /\ UNCHANGED <<at, newest, landed, expired, exact>>

\* The file at p moves, or is copied and disappears later.
Publish(p, t) ==
    \E v \in 1 .. newest :
        /\ exact => v = at[p]
        /\ p # Temp => p \in asked
        /\ \/ at' = [at EXCEPT ![t] = v]
           \/ v = at[p] /\ at' = [at EXCEPT ![p] = 0, ![t] = v]
        /\ landed' = landed \cup {v}
        /\ UNCHANGED <<newest, asked, expired, exact>>

Discard ==
    /\ at[Temp] # 0
    /\ expired \/ Temp \in asked \/ at[Temp] \in landed \/ (~exact /\ landed # {})
    /\ at' = [at EXCEPT ![Temp] = 0]
    /\ UNCHANGED <<newest, landed, asked, expired, exact>>

Unpublish(t) ==
    /\ at[t] # 0 /\ t \in asked
    /\ at' = [at EXCEPT ![t] = 0]
    /\ UNCHANGED <<newest, landed, asked, expired, exact>>

Expire ==
    /\ ~expired
    /\ expired' = TRUE
    /\ UNCHANGED <<at, newest, landed, asked, exact>>

Next ==
    \/ Stage \/ Discard \/ Expire
    \/ \E p \in Places : Ask(p) \/ \E t \in Types : Publish(p, t)
    \/ \E t \in Types : Unpublish(t)

Spec == Init /\ [][Next]_vars
=============================================================================
