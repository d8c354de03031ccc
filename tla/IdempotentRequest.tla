------------------------- MODULE IdempotentRequest -------------------------
(***************************************************************************)
(* What the interceptor promises its clients, with no table, clock or      *)
(* database call in sight.  A request takes effect and its response goes   *)
(* on record, or it is answered from a record, or it fails; a record       *)
(* lapses some day, and is withdrawn only by a request that has a lapsed   *)
(* one to replace.                                                         *)
(*                                                                         *)
(* Whether the record of one request answers another, by a replay or by a  *)
(* refusal, depends on the two requests alone: their bond.                 *)
(***************************************************************************)
CONSTANT Requests

Bonds == {"none", "replay", "refuse"}

VARIABLES
    bond,       \* how the record of one request answers another
    keyed,      \* the requests that carry a usable key
    effects,    \* the requests that took effect
    filed,      \* those whose response was ever on record
    recorded,   \* those whose response is on record
    lapsed,     \* those whose record is no longer in force
    known,      \* per request: what was filed when it arrived,
    old,        \* and what of that had lapsed
    outcome     \* how far a request has come, and whose response answers it

vars == <<bond, keyed, effects, filed, recorded, lapsed, known, old, outcome>>

Init ==
    /\ bond \in [Requests \X Requests -> Bonds]
    /\ keyed \in SUBSET Requests
    /\ effects = {} /\ filed = {} /\ recorded = {} /\ lapsed = {}
    /\ known = [r \in Requests |-> {}] /\ old = [r \in Requests |-> {}]
    /\ outcome = [r \in Requests |-> [is |-> "none", of |-> r]]

Answers(e, r) == bond[<<e, r>>] # "none"

Pending(r) == outcome[r].is = "pending"

End(r, is, e) == outcome' = [outcome EXCEPT ![r] = [is |-> is, of |-> e]]

Arrive(r) ==
    /\ outcome[r].is = "none"
    /\ End(r, "pending", r)
    /\ known' = [known EXCEPT ![r] = filed]
    /\ old' = [old EXCEPT ![r] = lapsed]
    /\ UNCHANGED <<bond, keyed, effects, filed, recorded, lapsed>>

\* Never while a record that answers r, and that r could have found in force, stands.
MayTakeEffect(r) ==
    /\ Pending(r) /\ r \notin effects
    /\ \A e \in (recorded \cap known[r]) \ old[r] : ~Answers(e, r)

TakeEffect(r) ==
    /\ MayTakeEffect(r)
    /\ effects' = effects \cup {r}
    /\ UNCHANGED <<bond, keyed, filed, recorded, lapsed, known, old, outcome>>

\* Going on record is an attempt; under a key one record excludes another.
Finish(r) ==
    /\ Pending(r) /\ r \in effects
    /\ End(r, "fresh", r)
    /\ \/ /\ r \in keyed => \A e \in recorded : ~Answers(e, r)
          /\ filed' = filed \cup {r}
          /\ recorded' = recorded \cup {r}
          /\ lapsed' \in {lapsed, lapsed \cup {r}}
       \/ UNCHANGED <<filed, recorded, lapsed>>
    /\ UNCHANGED <<bond, keyed, effects, known, old>>

AnswerFrom(r, e) ==
    /\ Pending(r) /\ r \notin effects
    /\ e \in recorded \ old[r]
    /\ Answers(e, r)
    /\ End(r, bond[<<e, r>>], e)
    /\ UNCHANGED <<bond, keyed, effects, filed, recorded, lapsed, known, old>>

\* What stands in r's way goes, lapsed or not, once r has found one lapsed.
Withdraw(r) ==
    /\ Pending(r) /\ r \notin effects /\ r \in keyed
    /\ \E f \in lapsed : Answers(f, r)
    /\ recorded' = {e \in recorded : ~Answers(e, r)}
    /\ UNCHANGED <<bond, keyed, effects, filed, lapsed, known, old, outcome>>

\* An error says nothing about the effect, which goes on no record.
Fail(r) ==
    /\ Pending(r) /\ r \notin effects
    /\ End(r, "error", r)
    /\ \/ UNCHANGED effects
       \/ MayTakeEffect(r) /\ effects' = effects \cup {r}
    /\ UNCHANGED <<bond, keyed, filed, recorded, lapsed, known, old>>

\* The client hears nothing, whether the request took effect or not.
Lose(r) ==
    /\ Pending(r)
    /\ End(r, "lost", r)
    /\ UNCHANGED <<bond, keyed, effects, filed, recorded, lapsed, known, old>>

Lapse ==
    /\ lapsed' \in SUBSET filed
    /\ lapsed \subseteq lapsed'
    /\ UNCHANGED <<bond, keyed, effects, filed, recorded, known, old, outcome>>

Next ==
    \/ Lapse
    \/ \E r \in Requests :
         \/ Arrive(r) \/ TakeEffect(r) \/ Finish(r) \/ Withdraw(r) \/ Fail(r) \/ Lose(r)
         \/ \E e \in Requests : AnswerFrom(r, e)

Spec == Init /\ [][Next]_vars
----------------------------------------------------------------------------
(***************************************************************************)
(* An answer is told apart from an effect: what is replayed or refused     *)
(* never took effect itself, and is owed to a response that was filed and  *)
(* that the two requests' bond makes the answer.  Only what its own client *)
(* was answered is on record: a request that failed, which may have taken  *)
(* effect all the same, answers nobody.                                    *)
(***************************************************************************)
OneOrTheOther ==
    \A r \in Requests :
        /\ outcome[r].is \in {"replay", "refuse"} =>
              /\ r \notin effects /\ outcome[r].of \in filed
              /\ bond[<<outcome[r].of, r>>] = outcome[r].is
        /\ outcome[r].is = "fresh" => r \in effects
        /\ r \in filed => outcome[r].is = "fresh"

(***************************************************************************)
(* A request takes effect although an earlier one answers it only if that  *)
(* answer had lapsed when it arrived, or if a keyed request that one       *)
(* lapsed record entitled to withdraw could withdraw this one too.         *)
(***************************************************************************)
RepeatsExcused ==
    \A e, r \in Requests :
        e \in known[r] /\ Answers(e, r) /\ r \in effects =>
            \/ e \in old[r]
            \/ \E f \in lapsed, d \in keyed : Answers(f, d) /\ Answers(e, d)
----------------------------------------------------------------------------
(* The strengthening that makes both inductive.                            *)
Outcome == [is : {"none", "pending", "lost", "error", "fresh", "replay", "refuse"},
            of : Requests]

Shape ==
    /\ bond \in [Requests \X Requests -> Bonds] /\ keyed \subseteq Requests
    /\ outcome \in [Requests -> Outcome]
    /\ known \in [Requests -> SUBSET Requests] /\ old \in [Requests -> SUBSET Requests]
    /\ recorded \subseteq filed /\ lapsed \subseteq filed
    /\ filed \subseteq effects /\ effects \subseteq Requests

Order ==
    \A r \in Requests :
        /\ known[r] \subseteq filed
        /\ outcome[r].is = "none" => r \notin effects

\* A response leaves the record only by a withdrawal that a lapsed one excuses.
Gone ==
    \A e \in filed \ recorded :
        \E f \in lapsed, d \in keyed : Answers(f, d) /\ Answers(e, d)

Inv == Shape /\ Order /\ Gone /\ OneOrTheOther /\ RepeatsExcused
=============================================================================
