-------------------------- MODULE AuthSessionProofs --------------------------
(***************************************************************************)
(* Proofs about AuthSession for every set of requests and any number of    *)
(* status changes.  IInv is inductive: SessionKept ties the stored hash to *)
(* the logouts and the saves, and what a request was admitted with is      *)
(* carried to its answer.  Under it every step is a step of AccountSession. *)
(***************************************************************************)
EXTENDS AuthSession, TLAPS

(* The initial state satisfies the inductive invariant.                    *)
LEMMA InitIInv == Init => IInv
<1> SUFFICES ASSUME Init PROVE IInv
  OBVIOUS
<1>1. TypeOK
  BY DEF Init, TypeOK, PCs, Answers, Tokens, Ops, Statuses
<1>2. Timeline /\ Existence /\ SessionKept /\ RefreshExplained
  BY DEF Init, Timeline, Existence, SessionKept, RefreshExplained, Admitted
<1>3. RemovedEarly /\ StatusEarly /\ OneAccountEarly /\ TokenWorks
  BY DEF Init, RemovedEarly, StatusEarly, OneAccountEarly, TokenWorks, Admitted
<1>4. QED
  BY <1>1, <1>2, <1>3 DEF IInv

(* Every step keeps every variable in its type.                            *)
LEMMA StepTypeOK == ASSUME TypeOK, [Next]_vars PROVE TypeOK'
<1> USE ChangesAssumption DEF TypeOK, PCs, Answers, Goto, Reply
<1>1. ASSUME NEW s \in Statuses, SetStatus(s) PROVE TypeOK'
  BY <1>1 DEF SetStatus
<1>2. ASSUME NEW r \in Requests, Arrive(r) PROVE TypeOK'
  <2>1. Handed \subseteq Tokens
    BY DEF Handed, Tokens
  <2>2. token' \in [Requests -> Tokens \cup {NoToken}]
    BY <1>2, <2>1 DEF Arrive
  <2>3. seen' \in [Requests -> SUBSET Statuses]
    BY <1>2 DEF Arrive
  <2>4. prior' \in [Requests -> SUBSET Requests]
    BY <1>2 DEF Arrive
  <2>5. QED
    BY <1>2, <2>2, <2>3, <2>4 DEF Arrive
<1>3. ASSUME NEW r \in Requests, CheckRegister(r) PROVE TypeOK'
  BY <1>3 DEF CheckRegister, Check
<1>4. ASSUME NEW r \in Requests, CheckLogin(r) PROVE TypeOK'
  BY <1>4 DEF CheckLogin, Check
<1>5. ASSUME NEW r \in Requests, CheckRefresh(r) PROVE TypeOK'
  BY <1>5 DEF CheckRefresh, Check
<1>6. ASSUME NEW r \in Requests, CheckBearer(r) PROVE TypeOK'
  BY <1>6 DEF CheckBearer, Check
<1>7. ASSUME NEW r \in Requests, CheckRemove(r) PROVE TypeOK'
  BY <1>7 DEF CheckRemove, Check
<1>8. ASSUME NEW r \in Requests, Create(r) PROVE TypeOK'
  BY <1>8 DEF Create
<1>9. ASSUME NEW r \in Requests, SaveRefreshToken(r) PROVE TypeOK'
  BY <1>9 DEF SaveRefreshToken, Tokens
<1>10. ASSUME NEW r \in Requests, StampLogin(r) PROVE TypeOK'
  BY <1>10 DEF StampLogin
<1>11. ASSUME NEW r \in Requests, ClearSession(r) PROVE TypeOK'
  BY <1>11 DEF ClearSession
<1>12. ASSUME NEW r \in Requests, SoftDelete(r) PROVE TypeOK'
  BY <1>12 DEF SoftDelete
<1>13. ASSUME NEW r \in Requests, Answer(r) PROVE TypeOK'
  BY <1>13 DEF Answer
<1>14. ASSUME NEW r \in Requests, Crash(r) PROVE TypeOK'
  BY <1>14 DEF Crash
<1>15. CASE UNCHANGED vars
  BY <1>15 DEF vars
<1>16. QED
  BY <1>1, <1>2, <1>3, <1>4, <1>5, <1>6, <1>7, <1>8, <1>9, <1>10, <1>11, <1>12, <1>13, <1>14, <1>15 DEF Next

(* What no step may change: a row stays, a removed row stays removed, and  *)
(* a request that was answered keeps its answer.                           *)
PastKept ==
    /\ op' = op
    /\ user.exists => user'.exists
    /\ user.deleted => user'.deleted
    /\ saved \subseteq saved' /\ cleared \subseteq cleared'
    /\ \A r \in Requests :
         /\ pc[r] # "idle" => /\ pc'[r] # "idle" /\ prior'[r] = prior[r]
                              /\ token'[r] = token[r] /\ seen[r] \subseteq seen'[r]
         /\ pc[r] = "done" => /\ pc'[r] = "done" /\ answer'[r] = answer[r]
                              /\ seen'[r] = seen[r]

(* Every step keeps the past.                                              *)
LEMMA Stable == ASSUME TypeOK, [Next]_vars PROVE PastKept
<1> USE DEF TypeOK, PCs, Goto, Reply, PastKept
<1>1. ASSUME NEW s \in Statuses, SetStatus(s) PROVE PastKept
  BY <1>1 DEF SetStatus
<1>2. ASSUME NEW r \in Requests, Arrive(r) PROVE PastKept
  BY <1>2 DEF Arrive
<1>3. ASSUME NEW r \in Requests, CheckRegister(r) PROVE PastKept
  BY <1>3 DEF CheckRegister, Check
<1>4. ASSUME NEW r \in Requests, CheckLogin(r) PROVE PastKept
  BY <1>4 DEF CheckLogin, Check
<1>5. ASSUME NEW r \in Requests, CheckRefresh(r) PROVE PastKept
  BY <1>5 DEF CheckRefresh, Check
<1>6. ASSUME NEW r \in Requests, CheckBearer(r) PROVE PastKept
  BY <1>6 DEF CheckBearer, Check
<1>7. ASSUME NEW r \in Requests, CheckRemove(r) PROVE PastKept
  BY <1>7 DEF CheckRemove, Check
<1>8. ASSUME NEW r \in Requests, Create(r) PROVE PastKept
  BY <1>8 DEF Create
<1>9. ASSUME NEW r \in Requests, SaveRefreshToken(r) PROVE PastKept
  BY <1>9 DEF SaveRefreshToken
<1>10. ASSUME NEW r \in Requests, StampLogin(r) PROVE PastKept
  BY <1>10 DEF StampLogin
<1>11. ASSUME NEW r \in Requests, ClearSession(r) PROVE PastKept
  BY <1>11 DEF ClearSession
<1>12. ASSUME NEW r \in Requests, SoftDelete(r) PROVE PastKept
  BY <1>12 DEF SoftDelete
<1>13. ASSUME NEW r \in Requests, Answer(r) PROVE PastKept
  BY <1>13 DEF Answer
<1>14. ASSUME NEW r \in Requests, Crash(r) PROVE PastKept
  BY <1>14 DEF Crash
<1>15. CASE UNCHANGED vars
  BY <1>15 DEF vars
<1>16. QED
  BY <1>1, <1>2, <1>3, <1>4, <1>5, <1>6, <1>7, <1>8, <1>9, <1>10, <1>11, <1>12, <1>13, <1>14, <1>15 DEF Next

(* Handed tokens stay handed.                                              *)
LEMMA HandedGrows == ASSUME TypeOK, Timeline, [Next]_vars PROVE Handed \subseteq Handed'
<1>1. PastKept
  BY Stable
<1>2. QED
  BY <1>1 DEF Handed, PastKept, TypeOK, Timeline

(* The order of a request's own steps is preserved by every step.          *)
LEMMA StepTimeline == ASSUME TypeOK, Timeline, [Next]_vars PROVE Timeline'
<1> USE DEF TypeOK, Timeline, PCs, Goto, Reply, Issues
<1>0. Handed \subseteq Handed'
  BY HandedGrows
<1>1. ASSUME NEW s \in Statuses, SetStatus(s) PROVE Timeline'
  BY <1>0, <1>1 DEF SetStatus
<1>2. ASSUME NEW r \in Requests, Arrive(r) PROVE Timeline'
  BY <1>0, <1>2 DEF Arrive
<1>3. ASSUME NEW r \in Requests, CheckRegister(r) PROVE Timeline'
  BY <1>0, <1>3 DEF CheckRegister, Check
<1>4. ASSUME NEW r \in Requests, CheckLogin(r) PROVE Timeline'
  BY <1>0, <1>4 DEF CheckLogin, Check
<1>5. ASSUME NEW r \in Requests, CheckRefresh(r) PROVE Timeline'
  BY <1>0, <1>5 DEF CheckRefresh, Check
<1>6. ASSUME NEW r \in Requests, CheckBearer(r) PROVE Timeline'
  BY <1>0, <1>6 DEF CheckBearer, Check
<1>7. ASSUME NEW r \in Requests, CheckRemove(r) PROVE Timeline'
  BY <1>0, <1>7 DEF CheckRemove, Check
<1>8. ASSUME NEW r \in Requests, Create(r) PROVE Timeline'
  BY <1>0, <1>8 DEF Create
<1>9. ASSUME NEW r \in Requests, SaveRefreshToken(r) PROVE Timeline'
  BY <1>0, <1>9 DEF SaveRefreshToken
<1>10. ASSUME NEW r \in Requests, StampLogin(r) PROVE Timeline'
  BY <1>0, <1>10 DEF StampLogin
<1>11. ASSUME NEW r \in Requests, ClearSession(r) PROVE Timeline'
  BY <1>0, <1>11 DEF ClearSession
<1>12. ASSUME NEW r \in Requests, SoftDelete(r) PROVE Timeline'
  BY <1>0, <1>12 DEF SoftDelete
<1>13. ASSUME NEW r \in Requests, Answer(r) PROVE Timeline'
  BY <1>0, <1>13 DEF Answer
<1>14. ASSUME NEW r \in Requests, Crash(r) PROVE Timeline'
  BY <1>0, <1>14 DEF Crash
<1>15. CASE UNCHANGED vars
  BY <1>0, <1>15 DEF vars
<1>16. QED
  BY <1>0, <1>1, <1>2, <1>3, <1>4, <1>5, <1>6, <1>7, <1>8, <1>9, <1>10, <1>11, <1>12, <1>13, <1>14, <1>15 DEF Next

(* How a request passes its check.                                         *)
LEMMA Admissions ==
    ASSUME TypeOK, Timeline, [Next]_vars, NEW r \in Requests, Admitted(r)'
    PROVE  \/ Admitted(r)
           \/ /\ pc[r] = "load" /\ user' = user /\ saved' = saved
              /\ seen' = seen /\ op' = op /\ prior' = prior /\ answer' = answer
              /\ \/ op[r] = "login" /\ MayLogin
                 \/ op[r] = "refresh" /\ MayRefresh(token[r])
                 \/ op[r] = "logout" /\ BearerAccepted
                 \/ op[r] = "remove" /\ FoundByEmail
           \/ /\ pc[r] = "create" /\ op[r] = "register" /\ ~user.exists /\ user'.exists
              /\ op' = op /\ prior' = prior /\ answer' = answer /\ saved' = saved
<1> USE DEF TypeOK, Timeline, PCs, Answers
<1>1. CASE Admitted(r)
  BY <1>1
<1>2. CASE ~Admitted(r)
  BY <1>2 DEF Admitted, Next, vars, SetStatus, Arrive, CheckRegister, CheckLogin, CheckRefresh,
             CheckBearer, CheckRemove, Check, Create, SaveRefreshToken, StampLogin, ClearSession,
             SoftDelete, Answer, Crash, Goto, Reply
<1>3. QED
  BY <1>1, <1>2

(* How the stored hash changes.                                            *)
LEMMA TokenMoves ==
    ASSUME TypeOK, Timeline, [Next]_vars
    PROVE  \/ user'.refreshToken = user.refreshToken /\ saved' = saved /\ cleared' = cleared
           \/ \E g \in Requests :
                /\ user'.refreshToken = g /\ saved' = saved \cup {g} /\ cleared' = cleared
                /\ pc[g] = "save" /\ user' = [user EXCEPT !.refreshToken = g]
           \/ \E x \in Requests :
                /\ user'.refreshToken = NoToken /\ saved' = saved
                /\ cleared' = cleared \cup {x} /\ pc[x] = "clear"
BY DEF TypeOK, Timeline, Next, vars, SetStatus, Arrive, CheckRegister, CheckLogin, CheckRefresh,
       CheckBearer, CheckRemove, Check, Create, SaveRefreshToken, StampLogin, ClearSession,
       SoftDelete, Answer, Crash, Goto, Reply

(* Whoever has passed a check, or stored a token, has an account.          *)
LEMMA StepExistence == ASSUME IInv, [Next]_vars PROVE Existence'
<1> USE DEF IInv
<1>1. PastKept
  BY Stable
<1>2. ASSUME NEW r \in Requests, Admitted(r)' PROVE user'.exists
  BY <1>1, <1>2, Admissions
  DEF Existence, PastKept, MayLogin, MayRefresh, BearerAccepted, FoundByEmail
<1>3. ASSUME NEW r \in saved' PROVE user'.exists
  BY <1>1, <1>3, TokenMoves DEF Existence, PastKept, Admitted, TypeOK
<1>4. user'.refreshToken # NoToken => user'.exists
  BY <1>1, TokenMoves DEF Existence, PastKept, Admitted
<1>5. QED
  BY <1>2, <1>3, <1>4 DEF Existence

(* A save makes up for every logout before it, a logout for every token.   *)
LEMMA StepSessionKept == ASSUME IInv, [Next]_vars PROVE SessionKept'
<1> USE DEF IInv
<1>1. PastKept /\ TypeOK'
  BY Stable, StepTypeOK
<1>2. \A q \in Requests : \A p \in prior[q] : pc[p] = "done"
  BY DEF Timeline
<1>3. ASSUME NEW g \in saved'
      PROVE  user'.refreshToken # NoToken \/ \E x \in cleared' : x \notin prior'[g]
  <2>1. CASE user'.refreshToken = user.refreshToken /\ saved' = saved /\ cleared' = cleared
    <3>1. prior'[g] = prior[g]
      BY <1>1, <2>1 DEF PastKept, Timeline, TypeOK
    <3>2. QED
      BY <2>1, <3>1 DEF SessionKept
  <2>2. CASE \E q \in Requests : user'.refreshToken = q
    BY <2>2, TokensAssumption
  <2>3. ASSUME NEW x \in Requests, saved' = saved, cleared' = cleared \cup {x},
               pc[x] = "clear"
        PROVE  \E y \in cleared' : y \notin prior'[g]
    <3>1. prior'[g] = prior[g] /\ x \notin prior[g]
      BY <1>1, <1>2, <2>3 DEF PastKept, Timeline, TypeOK
    <3>2. QED
      BY <2>3, <3>1
  <2>4. QED
    BY <2>1, <2>2, <2>3, TokenMoves
<1>4. ASSUME NEW x \in Requests, op'[x] = "logout", pc'[x] = "reply" \/ answer'[x] = "ok"
      PROVE  user'.refreshToken = NoToken \/ \E g \in saved' : g \notin prior'[x]
  <2>1. \/ pc[x] = "reply" \/ answer[x] = "ok"
        \/ user'.refreshToken = NoToken
    BY <1>4 DEF TypeOK, Timeline, PCs, Next, vars, SetStatus, Arrive, CheckRegister, CheckLogin, CheckRefresh,
                CheckBearer, CheckRemove, Check, Create, SaveRefreshToken, StampLogin, ClearSession,
                SoftDelete, Answer, Crash, Goto, Reply
  <2>2. CASE pc[x] = "reply" \/ answer[x] = "ok"
    <3>1. prior'[x] = prior[x] /\ op[x] = "logout"
      BY <1>1, <1>4, <2>2 DEF PastKept, Timeline
    <3>2. CASE user'.refreshToken = user.refreshToken /\ saved' = saved
      BY <2>2, <3>1, <3>2 DEF SessionKept
    <3>3. ASSUME NEW g \in Requests, saved' = saved \cup {g}, pc[g] = "save"
          PROVE  \E h \in saved' : h \notin prior'[x]
      BY <1>2, <3>1, <3>3
    <3>4. QED
      BY <3>2, <3>3, TokenMoves
  <2>3. QED
    BY <2>1, <2>2
<1>5. QED
  BY <1>3, <1>4 DEF SessionKept

(* A refresh that is admitted after a logout found a session stored since. *)
LEMMA StepRefreshExplained == ASSUME IInv, [Next]_vars PROVE RefreshExplained'
<1> USE DEF IInv
<1>1. PastKept
  BY Stable
<1> SUFFICES ASSUME NEW x \in Requests, NEW r \in Requests, op'[x] = "logout",
                    answer'[x] = "ok", x \in prior'[r], op'[r] = "refresh", Admitted(r)'
             PROVE  \E g \in saved' \ {r} : g \notin prior'[x]
  BY DEF RefreshExplained
<1>2. \/ Admitted(r)
      \/ pc[r] = "load" /\ saved' = saved /\ MayRefresh(token[r])
  BY <1>1, Admissions DEF PastKept
<1>3. pc[r] # "idle" /\ x \in prior[r] /\ op' = op
  BY <1>1, <1>2 DEF PastKept, Admitted, Timeline
<1>4. pc[x] = "done" /\ answer[x] = "ok" /\ prior'[x] = prior[x]
  BY <1>1, <1>3 DEF PastKept, Timeline
<1>5. CASE Admitted(r)
  <2>1. \E g \in saved \ {r} : g \notin prior[x]
    BY <1>3, <1>4, <1>5 DEF RefreshExplained
  <2>2. QED
    BY <1>1, <1>4, <2>1 DEF PastKept
<1>6. CASE pc[r] = "load" /\ saved' = saved /\ MayRefresh(token[r])
  <2>1. \E g \in saved : g \notin prior[x]
    BY <1>3, <1>4, <1>6 DEF SessionKept, MayRefresh
  <2>2. r \notin saved
    BY <1>6 DEF Timeline
  <2>3. QED
    BY <1>4, <1>6, <2>1, <2>2
<1>7. QED
  BY <1>2, <1>5, <1>6

(* A refresh is refused only when no hash is stored.                       *)
LEMMA StepTokenWorks == ASSUME IInv, [Next]_vars PROVE TokenWorks'
<1> USE DEF IInv
<1>1. PastKept
  BY Stable
<1> SUFFICES ASSUME NEW r \in Requests, NEW g \in Requests, op'[r] = "refresh",
                    token'[r] = g, answer'[r] = "rejected"
             PROVE  \E x \in cleared' : x \notin prior'[g]
  BY DEF TokenWorks
<1>2. \/ answer[r] = "rejected" /\ pc[r] = "done"
      \/ pc[r] = "load" /\ ~MayRefresh(token[r]) /\ cleared' = cleared /\ prior' = prior
  BY <1>1 DEF PastKept, TypeOK, Timeline, Answers, Next, vars, SetStatus, Arrive, CheckRegister, CheckLogin, CheckRefresh,
              CheckBearer, CheckRemove, Check, Create, SaveRefreshToken, StampLogin, ClearSession,
              SoftDelete, Answer, Crash, Goto, Reply
<1>3. op[r] = "refresh" /\ token[r] = g /\ g \in saved
  BY <1>1, <1>2, TokensAssumption DEF PastKept, Timeline, Handed
<1>4. prior'[g] = prior[g] /\ cleared \subseteq cleared'
  BY <1>1, <1>3 DEF PastKept, Timeline
<1>5. \E x \in cleared : x \notin prior[g]
  <2>1. CASE answer[r] = "rejected"
    BY <1>3, <2>1 DEF TokenWorks
  <2>2. CASE ~MayRefresh(token[r])
    BY <1>3, <2>2 DEF SessionKept, MayRefresh, Matches, Tokens, Existence
  <2>3. QED
    BY <1>2, <2>1, <2>2
<1>6. QED
  BY <1>4, <1>5

(* Every check but that of refresh refuses a removed account, and the      *)
(* unique index keeps its address taken.                                   *)
LEMMA StepRemovedEarly == ASSUME IInv, [Next]_vars PROVE RemovedEarly'
<1> USE DEF IInv
<1>1. PastKept
  BY Stable
<1> SUFFICES ASSUME NEW d \in Requests, op'[d] = "remove", pc'[d] = "reply" \/ answer'[d] = "ok"
             PROVE  /\ user'.deleted /\ user'.exists
                    /\ \A r \in Requests :
                         d \in prior'[r] /\ answer'[d] = "ok" /\ op'[r] # "refresh"
                         => ~Admitted(r)'
  BY DEF RemovedEarly
<1>2. \/ pc[d] = "reply" \/ answer[d] = "ok"
      \/ pc[d] = "delete" /\ user'.deleted /\ answer'[d] # "ok"
  BY DEF TypeOK, Timeline, PCs, Answers, Next, vars, SetStatus, Arrive, CheckRegister, CheckLogin, CheckRefresh,
         CheckBearer, CheckRemove, Check, Create, SaveRefreshToken, StampLogin, ClearSession,
         SoftDelete, Answer, Crash, Goto, Reply
<1>3. user'.deleted /\ user'.exists
  BY <1>1, <1>2 DEF PastKept, RemovedEarly, Existence, Admitted
<1>4. ASSUME NEW r \in Requests, d \in prior'[r], answer'[d] = "ok", op'[r] # "refresh",
             Admitted(r)'
      PROVE  FALSE
  <2>1. op[d] = "remove" /\ op[r] # "refresh" /\ user.deleted /\ user.exists
    BY <1>1, <1>2, <1>4 DEF PastKept, RemovedEarly
  <2>2. Admitted(r)
    BY <1>4, <2>1, Admissions DEF MayLogin, BearerAccepted, FoundByEmail
  <2>3. d \in prior[r] /\ pc[d] = "done"
    BY <1>1, <1>4, <2>2 DEF PastKept, Admitted, Timeline
  <2>4. answer[d] = "ok"
    BY <1>1, <1>4, <2>3 DEF PastKept
  <2>5. QED
    BY <2>1, <2>2, <2>3, <2>4 DEF RemovedEarly
<1>5. QED
  BY <1>3, <1>4

(* The status a request is admitted with is one it saw.                    *)
LEMMA StepStatusEarly == ASSUME IInv, [Next]_vars PROVE StatusEarly'
<1> USE DEF IInv
<1>1. PastKept
  BY Stable
<1> SUFFICES ASSUME NEW r \in Requests, Admitted(r)'
             PROVE  /\ op'[r] = "login" => "ACTIVE" \in seen'[r]
                    /\ op'[r] = "logout" => \E s \in seen'[r] : s # "SUSPENDED"
  BY DEF StatusEarly
<1>2. CASE Admitted(r)
  <2>1. pc[r] # "idle" /\ seen[r] \subseteq seen'[r] /\ op' = op
    BY <1>1, <1>2 DEF PastKept, Admitted, Timeline
  <2>2. QED
    BY <1>2, <2>1 DEF StatusEarly
<1>3. CASE ~Admitted(r)
  BY <1>3, Admissions DEF Timeline, MayLogin, BearerAccepted
<1>4. QED
  BY <1>2, <1>3

(* A register is admitted by creating the row, which nobody had seen.      *)
LEMMA StepOneAccountEarly == ASSUME IInv, [Next]_vars PROVE OneAccountEarly'
<1> USE DEF IInv
<1>1. PastKept
  BY Stable
<1> SUFFICES ASSUME NEW r \in Requests, NEW q \in Requests, op'[r] = "register", Admitted(r)'
             PROVE  /\ op'[q] = "register" /\ Admitted(q)' => q = r
                    /\ q \in prior'[r] => answer'[q] # "ok"
  BY DEF OneAccountEarly
<1>2. CASE Admitted(r)
  <2>1. op[r] = "register" /\ prior'[r] = prior[r] /\ user.exists /\ op' = op
    BY <1>1, <1>2 DEF PastKept, Admitted, Timeline, Existence
  <2>2. op[q] = "register" /\ Admitted(q)' => Admitted(q)
    BY <2>1, Admissions
  <2>3. q \in prior[r] => answer'[q] = answer[q]
    BY <1>1 DEF PastKept, Timeline
  <2>4. QED
    BY <1>2, <2>1, <2>2, <2>3 DEF OneAccountEarly
<1>3. CASE ~Admitted(r)
  <2>1. /\ pc[r] = "create" /\ ~user.exists /\ op' = op /\ prior' = prior
        /\ answer' = answer
    BY <1>1, <1>3, Admissions DEF PastKept
  <2>2. ~Admitted(q)
    BY <2>1 DEF Existence
  <2>3. q \in prior'[r] => answer'[q] # "ok"
    BY <2>1, <2>2 DEF Admitted
  <2>4. op'[q] = "register" /\ Admitted(q)' => q = r
    BY <1>3, <2>1, <2>2 DEF Admitted, TypeOK, Timeline, Next, vars, SetStatus, Arrive, CheckRegister, CheckLogin, CheckRefresh,
            CheckBearer, CheckRemove, Check, Create, SaveRefreshToken, StampLogin, ClearSession,
            SoftDelete, Answer, Crash, Goto, Reply
  <2>5. QED
    BY <2>3, <2>4
<1>4. QED
  BY <1>2, <1>3
----------------------------------------------------------------------------
(* The inductive invariant holds in every reachable state.                 *)
THEOREM Invariance == Spec => []IInv
<1>1. Init => IInv
  BY InitIInv
<1>2. IInv /\ [Next]_vars => IInv'
  <2> SUFFICES ASSUME IInv, [Next]_vars PROVE IInv'
    OBVIOUS
  <2>1. TypeOK' /\ Timeline'
    BY StepTypeOK, StepTimeline DEF IInv
  <2>2. Existence' /\ SessionKept' /\ RefreshExplained' /\ TokenWorks'
    BY StepExistence, StepSessionKept, StepRefreshExplained, StepTokenWorks
  <2>3. RemovedEarly' /\ StatusEarly' /\ OneAccountEarly'
    BY StepRemovedEarly, StepStatusEarly, StepOneAccountEarly
  <2>4. QED
    BY <2>1, <2>2, <2>3 DEF IInv
<1>3. QED
  BY <1>1, <1>2, PTL DEF Spec

(* The variables keep their types, whatever the constants.                 *)
THEOREM TypeCorrect == Spec => []TypeOK
BY Invariance, PTL DEF IInv

(* A logout ends every session but those stored since it arrived.          *)
THEOREM LogoutEnds == Spec => []LogoutEndsSession
<1>1. IInv => LogoutEndsSession
  BY DEF IInv, RefreshExplained, LogoutEndsSession, Admitted
<1>2. QED
  BY <1>1, Invariance, PTL

(* Only a logout takes a handed-out refresh token away.                    *)
THEOREM TokensWork == Spec => []TokenWorks
BY Invariance, PTL DEF IInv

(* A removed account is refused everything but refreshes.                  *)
THEOREM RemovedAccountIsOut == Spec => []RemovedIsOut
<1>1. IInv => RemovedIsOut
  BY DEF IInv, RemovedEarly, RemovedIsOut, Admitted
<1>2. QED
  BY <1>1, Invariance, PTL

(* Suspended and inactive accounts are refused where the code checks.      *)
THEOREM StatusIsEnforced == Spec => []StatusEnforced
<1>1. IInv => StatusEnforced
  BY DEF IInv, StatusEarly, StatusEnforced, Admitted
<1>2. QED
  BY <1>1, Invariance, PTL

(* An address is registered once.                                          *)
THEOREM OneAccountPerEmail == Spec => []OneAccount
<1>1. IInv => OneAccount
  BY DEF IInv, OneAccountEarly, OneAccount, Admitted
<1>2. QED
  BY <1>1, Invariance, PTL
----------------------------------------------------------------------------
(* Where a request stands for the abstract specification.                  *)
LEMMA CourseOf ==
    ASSUME TypeOK, NEW r \in Requests
    PROVE  /\ pc[r] = "idle" => Course[r] = "none"
           /\ pc[r] \in {"load", "create"} => Course[r] = "pending"
           /\ pc[r] \in {"save", "clear", "delete"} => Course[r] = "admitted"
           /\ pc[r] \in {"stamp", "reply"} => Course[r] = "acted"
           /\ pc[r] = "lost" => Course[r] = "lost"
           /\ pc[r] = "done" /\ answer[r] = "ok" => Course[r] = "done"
           /\ pc[r] = "done" /\ answer[r] \in {"rejected", "conflict"} => Course[r] = "refused"
           /\ pc[r] = "done" /\ answer[r] = "error" => Course[r] = "failed"
BY DEF TypeOK, PCs, Answers, Course, Stage, Verdict

(* A step of one request moves no other.                                   *)
LEMMA CourseMoves ==
    ASSUME NEW r \in Requests,
           \A q \in Requests \ {r} : pc'[q] = pc[q] /\ answer'[q] = answer[q]
    PROVE  Course' = [Course EXCEPT ![r] = Course'[r]]
<1>2. \A q \in Requests \ {r} : Course'[q] = Course[q]
  BY DEF Course
<1>3. Course = [q \in Requests |-> Course[q]] /\ Course' = [q \in Requests |-> Course'[q]]
  BY DEF Course
<1>4. [Course EXCEPT ![r] = Course'[r]] = [q \in Requests |-> IF q = r THEN Course'[r] ELSE Course[q]]
  BY <1>3
<1>5. QED
  BY <1>2, <1>3, <1>4

(* The initial states are initial states of the abstract specification.    *)
LEMMA InitRefines == Init => OneSession!Init
<1> SUFFICES ASSUME Init PROVE OneSession!Init
  OBVIOUS
<1> USE DEF Init, Statuses
<1>1. user.exists \in BOOLEAN /\ user.deleted = FALSE /\ user.status \in OneSession!Statuses
  BY DEF OneSession!Statuses
<1>2. Opened \in BOOLEAN
  BY DEF Opened
<1>3. ~user.exists => ~Opened /\ user.status = "ACTIVE"
  BY DEF Opened
<1>4. Course = [r \in Requests |-> "none"]
  BY DEF Course, Stage
<1>5. op \in [Requests -> OneSession!Wants]
  BY DEF Ops, OneSession!Wants
<1>6. QED
  BY <1>1, <1>2, <1>3, <1>4, <1>5 DEF OneSession!Init

(* What a step of one request shows of it: the others stay, and so does    *)
(* what the step does not name.                                            *)
LEMMA StepOf ==
    ASSUME TypeOK, NEW r \in Requests, NEW l \in PCs, Goto(r, l),
           UNCHANGED answer \/ \E a \in Answers : answer' = [answer EXCEPT ![r] = a]
    PROVE  pc'[r] = l /\ Course' = [Course EXCEPT ![r] = Course'[r]]
<1>1. pc'[r] = l /\ \A q \in Requests \ {r} : pc'[q] = pc[q] /\ answer'[q] = answer[q]
  BY DEF Goto, TypeOK
<1>2. QED
  BY <1>1, CourseMoves

(* A request's check is an admission, a refusal or a failure, or, for a    *)
(* register, which the index is yet to admit, no step at all.              *)
LEMMA CheckRefines ==
    ASSUME IInv, TypeOK', NEW r \in Requests, NEW passes \in BOOLEAN,
           NEW next \in {"create", "save", "clear", "delete"},
           NEW refusal \in {"rejected", "conflict"}, Check(r, passes, next, refusal),
           op[r] # "register" => (passes <=> OneSession!Welcome(r)),
           op[r] = "register" => (passes \/ ~OneSession!Welcome(r)),
           op[r] = "register" <=> next = "create"
    PROVE  \/ OneSession!Admit(r) \/ OneSession!Refuse(r) \/ OneSession!Fail(r)
           \/ UNCHANGED OneSession!vars
<1> USE DEF IInv
<1>1. /\ UNCHANGED <<user, op, Opened>> /\ Course[r] = "pending"
      /\ pc[r] = "load"
  BY CourseOf DEF Check, Opened
<1>2. CASE passes /\ Goto(r, next) /\ UNCHANGED answer
  <2>1. pc'[r] = next /\ Course' = [Course EXCEPT ![r] = Course'[r]]
    BY <1>2, StepOf DEF PCs
  <2>2. CASE next = "create"
    <3>1. Course'[r] = "pending"
      BY <2>1, <2>2 DEF TypeOK, Course, Stage
    <3>2. Course' = Course
      BY <1>1, <2>1, <3>1 DEF Course
    <3>3. QED
      BY <1>1, <3>2 DEF OneSession!vars
  <2>3. CASE next # "create"
    <3>1. Course'[r] = "admitted"
      BY <2>1, <2>3 DEF TypeOK, Course, Stage, PCs
    <3>2. OneSession!Welcome(r) /\ op[r] # "register"
      BY <1>2, <2>3
    <3>3. /\ user.exists \in BOOLEAN
          /\ user'.exists = user.exists /\ user'.deleted = user.deleted
          /\ user'.status = user.status /\ Opened' = Opened /\ op' = op
      BY <1>1 DEF TypeOK
    <3>4. user'.exists = (user.exists \/ op[r] = "register")
      BY <3>2, <3>3, Zenon
    <3>5. OneSession!Move(r, {"pending"}, "admitted")
      BY <1>1, <2>1, <3>1 DEF OneSession!Move
    <3>6. QED
      BY <3>2, <3>3, <3>4, <3>5, Zenon DEF OneSession!Admit
  <2>4. QED
    BY <2>2, <2>3
<1>3. CASE ~passes /\ Reply(r, refusal)
  <2>1. pc'[r] = "done" /\ Course' = [Course EXCEPT ![r] = Course'[r]] /\ answer'[r] = refusal
    BY <1>3, StepOf DEF PCs, Answers, Reply, TypeOK
  <2>2. Course'[r] = "refused"
    BY <2>1 DEF Course, Verdict
  <2>3. QED
    BY <1>1, <1>3, <2>1, <2>2 DEF OneSession!Refuse, OneSession!Move
<1>4. CASE Reply(r, "error")
  <2>1. pc'[r] = "done" /\ Course' = [Course EXCEPT ![r] = Course'[r]] /\ answer'[r] = "error"
    BY <1>4, StepOf DEF PCs, Answers, Reply, TypeOK
  <2>2. Course'[r] = "failed"
    BY <2>1 DEF Course, Verdict
  <2>3. QED
    BY <1>1, <2>1, <2>2 DEF OneSession!Fail, OneSession!Move
<1>5. QED
  BY <1>2, <1>3, <1>4 DEF Check

(* Every step of the code's model is a step, or none, of the abstract one. *)
LEMMA StepRefines ==
    ASSUME IInv, IInv', [Next]_vars PROVE [OneSession!Next]_(OneSession!vars)
<1> USE DEF IInv
<1>1. ASSUME NEW s \in Statuses, SetStatus(s) PROVE OneSession!SetStatus(s)
  <2>1. user.exists /\ user' = [user EXCEPT !.status = s] /\ UNCHANGED <<pc, op, answer>>
    BY <1>1 DEF SetStatus
  <2>2. user'.exists = user.exists /\ user'.deleted = user.deleted /\ user'.status = s
    BY <2>1 DEF TypeOK
  <2>3. UNCHANGED <<Opened, op, Course>>
    BY <2>1 DEF Opened, Course, TypeOK
  <2>4. QED
    BY <2>1, <2>2, <2>3 DEF OneSession!SetStatus
<1>2. ASSUME NEW r \in Requests, Arrive(r) PROVE OneSession!Arrive(r)
  <2>1. /\ pc[r] = "idle" /\ (op[r] = "logout" => user.exists) /\ Goto(r, "load")
        /\ UNCHANGED <<user, op, answer>>
    BY <1>2 DEF Arrive
  <2>2. pc'[r] = "load" /\ Course' = [Course EXCEPT ![r] = Course'[r]]
    BY <2>1, StepOf DEF PCs
  <2>3. Course[r] = "none" /\ Course'[r] = "pending"
    BY <2>1, <2>2 DEF Course, Stage
  <2>4. UNCHANGED <<user, Opened>>
    BY <2>1 DEF Opened
  <2>5. QED
    BY <2>1, <2>2, <2>3, <2>4 DEF OneSession!Arrive, OneSession!Move
<1>3. ASSUME NEW r \in Requests, CheckRegister(r)
      PROVE  \/ OneSession!Admit(r) \/ OneSession!Refuse(r) \/ OneSession!Fail(r)
             \/ UNCHANGED OneSession!vars
  <2>1. op[r] = "register" /\ Check(r, ~FoundByEmail, "create", "conflict")
    BY <1>3 DEF CheckRegister
  <2>2. ~FoundByEmail \/ ~OneSession!Welcome(r)
    BY <2>1 DEF OneSession!Welcome, FoundByEmail
  <2>3. (~FoundByEmail) \in BOOLEAN
    BY DEF FoundByEmail
  <2>4. QED
    BY <2>1, <2>2, <2>3, CheckRefines
<1>4. ASSUME NEW r \in Requests, CheckLogin(r)
      PROVE  \/ OneSession!Admit(r) \/ OneSession!Refuse(r) \/ OneSession!Fail(r)
             \/ UNCHANGED OneSession!vars
  <2>1. op[r] = "login" /\ Check(r, MayLogin, "save", "rejected")
    BY <1>4 DEF CheckLogin
  <2>2. MayLogin <=> OneSession!Welcome(r)
    BY <2>1 DEF OneSession!Welcome, OneSession!Present, MayLogin, FoundByEmail
  <2>3. MayLogin \in BOOLEAN
    BY DEF MayLogin, FoundByEmail
  <2>4. QED
    BY <2>1, <2>2, <2>3, CheckRefines
<1>5. ASSUME NEW r \in Requests, CheckRefresh(r)
      PROVE  \/ OneSession!Admit(r) \/ OneSession!Refuse(r) \/ OneSession!Fail(r)
             \/ UNCHANGED OneSession!vars
  <2>1. op[r] = "refresh" /\ pc[r] = "load" /\ Check(r, MayRefresh(token[r]), "save", "rejected")
    BY <1>5 DEF CheckRefresh, Check
  <2>2. token[r] \in Tokens
    BY <2>1 DEF Timeline, Handed, Tokens, TypeOK
  <2>3. MayRefresh(token[r]) <=> OneSession!Welcome(r)
    BY <2>1, <2>2 DEF OneSession!Welcome, MayRefresh, Matches, Opened, Existence
  <2>4. MayRefresh(token[r]) \in BOOLEAN
    BY DEF MayRefresh, Matches
  <2>5. QED
    BY <2>1, <2>3, <2>4, CheckRefines
<1>6. ASSUME NEW r \in Requests, CheckBearer(r)
      PROVE  \/ OneSession!Admit(r) \/ OneSession!Refuse(r) \/ OneSession!Fail(r)
             \/ UNCHANGED OneSession!vars
  <2>1. op[r] = "logout" /\ Check(r, BearerAccepted, "clear", "rejected")
    BY <1>6 DEF CheckBearer
  <2>2. BearerAccepted <=> OneSession!Welcome(r)
    BY <2>1 DEF OneSession!Welcome, OneSession!Present, BearerAccepted
  <2>3. BearerAccepted \in BOOLEAN
    BY DEF BearerAccepted
  <2>4. QED
    BY <2>1, <2>2, <2>3, CheckRefines
<1>7. ASSUME NEW r \in Requests, CheckRemove(r)
      PROVE  \/ OneSession!Admit(r) \/ OneSession!Refuse(r) \/ OneSession!Fail(r)
             \/ UNCHANGED OneSession!vars
  <2>1. op[r] = "remove" /\ Check(r, FoundByEmail, "delete", "rejected")
    BY <1>7 DEF CheckRemove
  <2>2. FoundByEmail <=> OneSession!Welcome(r)
    BY <2>1 DEF OneSession!Welcome, OneSession!Present, FoundByEmail
  <2>3. FoundByEmail \in BOOLEAN
    BY DEF FoundByEmail
  <2>4. QED
    BY <2>1, <2>2, <2>3, CheckRefines
<1>8. ASSUME NEW r \in Requests, Create(r)
      PROVE  OneSession!Admit(r) \/ OneSession!Refuse(r) \/ OneSession!Fail(r)
  <2>1. pc[r] = "create" /\ op[r] = "register" /\ Course[r] = "pending" /\ op' = op
    BY <1>8, CourseOf DEF Create, Timeline
  <2>2. OneSession!Welcome(r) <=> ~user.exists
    BY <2>1 DEF OneSession!Welcome
  <2>3. CASE ~user.exists /\ user' = [user EXCEPT !.exists = TRUE] /\ Goto(r, "save")
             /\ UNCHANGED answer
    <3>1. pc'[r] = "save" /\ Course' = [Course EXCEPT ![r] = Course'[r]]
      BY <2>3, StepOf DEF PCs
    <3>2. Course'[r] = "admitted"
      BY <3>1 DEF Course, Stage
    <3>3. /\ user'.exists = TRUE /\ user'.deleted = user.deleted
          /\ user'.status = user.status /\ Opened' = Opened
      BY <2>3 DEF Opened, TypeOK
    <3>4. QED
      BY <2>1, <2>2, <2>3, <3>1, <3>2, <3>3 DEF OneSession!Admit, OneSession!Move
  <2>4. CASE user.exists /\ Reply(r, "conflict") /\ user' = user
    <3>1. pc'[r] = "done" /\ answer'[r] = "conflict" /\ Course' = [Course EXCEPT ![r] = Course'[r]]
      BY <2>4, StepOf DEF PCs, Answers, Reply, TypeOK
    <3>2. Course'[r] = "refused"
      BY <3>1 DEF Course, Verdict
    <3>3. UNCHANGED <<user, Opened>>
      BY <2>4 DEF Opened
    <3>4. QED
      BY <2>1, <2>2, <2>4, <3>1, <3>2, <3>3 DEF OneSession!Refuse, OneSession!Move
  <2>5. CASE Reply(r, "error") /\ user' = user
    <3>1. pc'[r] = "done" /\ answer'[r] = "error" /\ Course' = [Course EXCEPT ![r] = Course'[r]]
      BY <2>5, StepOf DEF PCs, Answers, Reply, TypeOK
    <3>2. Course'[r] = "failed"
      BY <3>1 DEF Course, Verdict
    <3>3. UNCHANGED <<user, Opened>>
      BY <2>5 DEF Opened
    <3>4. QED
      BY <2>1, <3>1, <3>2, <3>3 DEF OneSession!Fail, OneSession!Move
  <2>6. QED
    BY <1>8, <2>3, <2>4, <2>5, Zenon DEF Create
<1>9. ASSUME NEW r \in Requests, SaveRefreshToken(r)
      PROVE  OneSession!Open(r) \/ OneSession!Fail(r)
  <2>1. /\ pc[r] = "save" /\ op[r] \in {"register", "login", "refresh"} /\ op' = op
        /\ Course[r] = "admitted"
    BY <1>9, CourseOf DEF SaveRefreshToken, Timeline, Issues
  <2>2. CASE /\ user' = [user EXCEPT !.refreshToken = r] /\ UNCHANGED answer
             /\ Goto(r, IF op[r] = "refresh" THEN "reply" ELSE "stamp")
    <3>1. /\ Course' = [Course EXCEPT ![r] = Course'[r]]
          /\ pc'[r] = (IF op[r] = "refresh" THEN "reply" ELSE "stamp")
      BY <2>2, StepOf DEF PCs
    <3>2. Course'[r] = "acted"
      BY <3>1 DEF Course, Stage
    <3>3. /\ user'.exists = user.exists /\ user'.deleted = user.deleted
          /\ user'.status = user.status /\ Opened' = TRUE
      BY <2>2, TokensAssumption DEF Opened, TypeOK
    <3>4. QED
      BY <2>1, <3>1, <3>2, <3>3 DEF OneSession!Open, OneSession!Move
  <2>3. CASE Reply(r, "error") /\ UNCHANGED user
    <3>1. pc'[r] = "done" /\ answer'[r] = "error" /\ Course' = [Course EXCEPT ![r] = Course'[r]]
      BY <2>3, StepOf DEF PCs, Answers, Reply, TypeOK
    <3>2. Course'[r] = "failed" /\ UNCHANGED <<user, Opened>>
      BY <2>3, <3>1 DEF Course, Verdict, Opened
    <3>3. QED
      BY <2>1, <3>1, <3>2 DEF OneSession!Fail, OneSession!Move
  <2>4. QED
    BY <1>9, <2>2, <2>3, Zenon DEF SaveRefreshToken
<1>10. ASSUME NEW r \in Requests, StampLogin(r)
       PROVE  OneSession!Finish(r) \/ OneSession!Fail(r)
  <2>1. /\ op[r] \in {"register", "login"} /\ Course[r] = "acted"
        /\ UNCHANGED <<op, user, Opened>>
    BY <1>10, CourseOf DEF StampLogin, Timeline, Opened
  <2>2. \/ Reply(r, "ok") /\ answer'[r] = "ok"
        \/ Reply(r, "error") /\ answer'[r] = "error"
    BY <1>10 DEF StampLogin, Reply, TypeOK
  <2>3. pc'[r] = "done" /\ Course' = [Course EXCEPT ![r] = Course'[r]]
    BY <2>2, StepOf DEF PCs, Answers, Reply
  <2>4. \/ Course'[r] = "done" \/ Course'[r] = "failed"
    BY <2>2, <2>3 DEF Course, Verdict
  <2>5. QED
    BY <2>1, <2>3, <2>4 DEF OneSession!Finish, OneSession!Fail, OneSession!Move
<1>11. ASSUME NEW r \in Requests, ClearSession(r)
       PROVE  OneSession!Close(r) \/ OneSession!Fail(r)
  <2>1. pc[r] = "clear" /\ op[r] = "logout" /\ op' = op /\ Course[r] = "admitted"
    BY <1>11, CourseOf DEF ClearSession, Timeline
  <2>2. CASE /\ user' = [user EXCEPT !.refreshToken = NoToken] /\ UNCHANGED answer
             /\ Goto(r, "reply")
    <3>1. pc'[r] = "reply" /\ Course' = [Course EXCEPT ![r] = Course'[r]]
      BY <2>2, StepOf DEF PCs
    <3>2. Course'[r] = "acted"
      BY <3>1 DEF Course, Stage
    <3>3. /\ user'.exists = user.exists /\ user'.deleted = user.deleted
          /\ user'.status = user.status /\ Opened' = FALSE
      BY <2>2 DEF Opened, TypeOK
    <3>4. QED
      BY <2>1, <3>1, <3>2, <3>3 DEF OneSession!Close, OneSession!Move
  <2>3. CASE Reply(r, "error") /\ UNCHANGED user
    <3>1. pc'[r] = "done" /\ answer'[r] = "error" /\ Course' = [Course EXCEPT ![r] = Course'[r]]
      BY <2>3, StepOf DEF PCs, Answers, Reply, TypeOK
    <3>2. Course'[r] = "failed" /\ UNCHANGED <<user, Opened>>
      BY <2>3, <3>1 DEF Course, Verdict, Opened
    <3>3. QED
      BY <2>1, <3>1, <3>2 DEF OneSession!Fail, OneSession!Move
  <2>4. QED
    BY <1>11, <2>2, <2>3, Zenon DEF ClearSession
<1>12. ASSUME NEW r \in Requests, SoftDelete(r)
       PROVE  OneSession!Remove(r) \/ OneSession!Fail(r)
  <2>1. pc[r] = "delete" /\ op[r] = "remove" /\ op' = op /\ Course[r] = "admitted"
    BY <1>12, CourseOf DEF SoftDelete, Timeline
  <2>2. CASE user' = [user EXCEPT !.deleted = TRUE] /\ Goto(r, "reply") /\ UNCHANGED answer
    <3>1. pc'[r] = "reply" /\ Course' = [Course EXCEPT ![r] = Course'[r]]
      BY <2>2, StepOf DEF PCs
    <3>2. Course'[r] = "acted"
      BY <3>1 DEF Course, Stage
    <3>3. /\ user'.deleted = TRUE /\ user'.exists = user.exists
          /\ user'.status = user.status /\ Opened' = Opened
      BY <2>2 DEF Opened, TypeOK
    <3>4. QED
      BY <2>1, <3>1, <3>2, <3>3 DEF OneSession!Remove, OneSession!Move
  <2>3. CASE Reply(r, "error") /\ UNCHANGED user
    <3>1. pc'[r] = "done" /\ answer'[r] = "error" /\ Course' = [Course EXCEPT ![r] = Course'[r]]
      BY <2>3, StepOf DEF PCs, Answers, Reply, TypeOK
    <3>2. Course'[r] = "failed" /\ UNCHANGED <<user, Opened>>
      BY <2>3, <3>1 DEF Course, Verdict, Opened
    <3>3. QED
      BY <2>1, <3>1, <3>2 DEF OneSession!Fail, OneSession!Move
  <2>4. QED
    BY <1>12, <2>2, <2>3, Zenon DEF SoftDelete
<1>13. ASSUME NEW r \in Requests, Answer(r) PROVE OneSession!Finish(r)
  <2>1. Course[r] = "acted" /\ UNCHANGED <<op, user, Opened>> /\ Reply(r, "ok")
    BY <1>13, CourseOf DEF Answer, Opened
  <2>2. pc'[r] = "done" /\ answer'[r] = "ok" /\ Course' = [Course EXCEPT ![r] = Course'[r]]
    BY <2>1, StepOf DEF PCs, Answers, Reply, TypeOK
  <2>3. Course'[r] = "done"
    BY <2>2 DEF Course, Verdict
  <2>4. QED
    BY <2>1, <2>2, <2>3 DEF OneSession!Finish, OneSession!Move
<1>14. ASSUME NEW r \in Requests, Crash(r) PROVE OneSession!Lose(r)
  <2>1. Goto(r, "lost") /\ UNCHANGED <<answer, op, user, Opened>>
    BY <1>14 DEF Crash, Opened
  <2>2. Course[r] \in {"pending", "admitted", "acted"}
    BY <1>14, CourseOf DEF Crash, TypeOK, PCs
  <2>3. pc'[r] = "lost" /\ Course' = [Course EXCEPT ![r] = Course'[r]]
    BY <2>1, StepOf DEF PCs
  <2>4. Course'[r] = "lost"
    BY <2>3 DEF Course, Stage
  <2>5. QED
    BY <2>1, <2>2, <2>3, <2>4 DEF OneSession!Lose, OneSession!Move
<1>15. CASE UNCHANGED vars
  <2>1. UNCHANGED <<user, pc, op, answer>>
    BY <1>15 DEF vars
  <2>2. UNCHANGED <<user, Opened, op, Course>>
    BY <2>1 DEF Opened, Course
  <2>3. QED
    BY <2>2 DEF OneSession!vars
<1>16. Statuses = OneSession!Statuses
  BY DEF Statuses, OneSession!Statuses
<1>17. QED
  BY <1>1, <1>2, <1>3, <1>4, <1>5, <1>6, <1>7, <1>8, <1>9, <1>10, <1>11, <1>12, <1>13, <1>14,
     <1>15, <1>16 DEF Next, OneSession!Next

(* AuthService keeps one session for the account and nothing more.         *)
THEOREM Implementation == Spec => Refines
<1>1. IInv /\ IInv' /\ [Next]_vars => [OneSession!Next]_(OneSession!vars)
  BY StepRefines
<1>2. QED
  BY <1>1, InitRefines, Invariance, PTL DEF Spec, Refines, OneSession!Spec
=============================================================================
