------------------------------ MODULE Service -------------------------------
(***************************************************************************)
(* The components of the service that share no state, side by side.        *)
(* Interleaving them would only multiply their states: here the first step *)
(* of one leaves the others idle, so that the states add up.               *)
(***************************************************************************)
EXTENDS UploadPipeline, DirectUpload, TempCleanup, MailQueue, UserListing,
        RequestPipeline, Bootstrap

VARIABLE part   \* the component that runs

vars == <<part, upVars, dirVars, clVars, mailVars, ulVars, rpVars, btVars>>

Parts == {"upload", "direct", "cleanup", "mail", "listing", "request", "boot"}

Runs(p) == part \in {"none", p}

ServiceTypeOK ==
    /\ part \in Parts \cup {"none"}
    /\ Runs("upload") => UpTypeOK
    /\ Runs("direct") => DirTypeOK
    /\ Runs("cleanup") => ClTypeOK
    /\ Runs("mail") => MailTypeOK
    /\ Runs("listing") => ListTypeOK
    /\ Runs("request") => RpTypeOK
    /\ Runs("boot") => BtTypeOK

Init ==
    /\ part = "none"
    /\ UpInit /\ DirInit /\ ClInit /\ MailInit /\ ListInit /\ RpInit /\ BtInit

Only(p) == Runs(p) /\ part' = p

Next ==
    \/ /\ Only("upload") /\ UpNext
       /\ UNCHANGED <<dirVars, clVars, mailVars, ulVars, rpVars, btVars>>
    \/ /\ Only("direct") /\ DirNext
       /\ UNCHANGED <<upVars, clVars, mailVars, ulVars, rpVars, btVars>>
    \/ /\ Only("cleanup") /\ ClNext
       /\ UNCHANGED <<upVars, dirVars, mailVars, ulVars, rpVars, btVars>>
    \/ /\ Only("mail") /\ MailNext
       /\ UNCHANGED <<upVars, dirVars, clVars, ulVars, rpVars, btVars>>
    \/ /\ Only("listing") /\ ListNext
       /\ UNCHANGED <<upVars, dirVars, clVars, mailVars, rpVars, btVars>>
    \/ /\ Only("request") /\ RpNext
       /\ UNCHANGED <<upVars, dirVars, clVars, mailVars, ulVars, btVars>>
    \/ /\ Only("boot") /\ BtNext
       /\ UNCHANGED <<upVars, dirVars, clVars, mailVars, ulVars, rpVars>>

Fairness == ClFairness /\ MailFairness /\ BtFairness

Spec == Init /\ [][Next]_vars /\ Fairness
=============================================================================
