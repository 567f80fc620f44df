---------------------------- MODULE LoginProofs ----------------------------
(***************************************************************************)
(* The device login is safe for any number of logins, pages that poll them *)
(* and faults.                                                             *)
(*                                                                         *)
(* OneCredentialPerApproval is not inductive: a state in which two polls   *)
(* are about to register the tokens of one device code satisfies it and    *)
(* leads to two credentials. LoginInv adds what WorkOS gives by redeeming  *)
(* a code once: whoever registers is alone with a redeemed code            *)
(* (RegistersAlone), and whoever removes an entry has its credential       *)
(* (DeletesWithCredential).                                                *)
(***************************************************************************)
EXTENDS Login, TLAPS

\* Between the redemption of a code and the credential there is one poll.
RegistersAlone ==
    \A p \in Pollers : pc[p] = "register" =>
        /\ device[login[p]] = "redeemed"
        /\ given[login[p]] = 0
        /\ \A q \in Pollers : pc[q] = "register" /\ login[q] = login[p] => p = q

\* A poll that is past the registration has a credential for its login.
DeletesWithCredential ==
    \A p \in Pollers : pc[p] \in {"delete", "persist"} => given[login[p]] > 0

LoginInv ==
    /\ TypeOK
    /\ OneCredentialPerApproval
    /\ RegistersAlone
    /\ DeletesWithCredential

-----------------------------------------------------------------------------
LEMMA InitLoginInv == Init => LoginInv
  BY DEF Init, LoginInv, TypeOK, Answers, OneCredentialPerApproval, RegistersAlone,
      DeletesWithCredential

LEMMA TypeStep == TypeOK /\ [Next]_vars => TypeOK'
<1> SUFFICES ASSUME TypeOK, [Next]_vars
             PROVE  TypeOK'
  OBVIOUS
<1> USE DEF TypeOK, Answers, Finish, poll
<1>1. ASSUME NEW l \in Logins, startLogin(l)  PROVE TypeOK'
  BY <1>1 DEF startLogin
<1>2. ASSUME NEW p \in Pollers, NEW l \in Logins, Poll(p, l)  PROVE TypeOK'
  BY <1>2 DEF Poll
<1>3. ASSUME NEW p \in Pollers, Exchange(p)  PROVE TypeOK'
  BY <1>3 DEF Exchange
<1>4. ASSUME NEW p \in Pollers, Register(p)  PROVE TypeOK'
  BY <1>4 DEF Register
<1>5. ASSUME NEW p \in Pollers, DeleteState(p)  PROVE TypeOK'
  BY <1>5 DEF DeleteState
<1>6. ASSUME NEW p \in Pollers, Persist(p)  PROVE TypeOK'
  BY <1>6 DEF Persist
<1>7. CASE Sweep
  BY <1>7 DEF Sweep
<1>8. ASSUME NEW l \in Logins, NEW verdict \in {"approved", "denied"}, Decide(l, verdict)
      PROVE TypeOK'
  BY <1>8 DEF Decide
<1>9. ASSUME NEW l \in Logins, DeviceExpires(l)  PROVE TypeOK'
  BY <1>9 DEF DeviceExpires
<1>10. ASSUME NEW l \in Logins, Expire(l)  PROVE TypeOK'
  BY <1>10 DEF Expire
<1>11. CASE UNCHANGED vars
  BY <1>11 DEF vars
<1> QED
  BY <1>1, <1>2, <1>3, <1>4, <1>5, <1>6, <1>7, <1>8, <1>9, <1>10, <1>11 DEF Next, Step

LEMMA LoginStep == LoginInv /\ [Next]_vars => LoginInv'
<1> SUFFICES ASSUME LoginInv, [Next]_vars
             PROVE  LoginInv'
  OBVIOUS
<1> USE DEF LoginInv
<1>0. TypeOK'
  BY TypeStep
<1> DEFINE Rest == OneCredentialPerApproval /\ RegistersAlone /\ DeletesWithCredential
<1> SUFFICES Rest'
  BY <1>0
<1> USE DEF TypeOK, Finish, poll
<1>1. ASSUME NEW l \in Logins, startLogin(l)  PROVE Rest'
  \* The code was not handed out yet, so it is not a redeemed one.
  BY <1>1 DEF startLogin, OneCredentialPerApproval, RegistersAlone, DeletesWithCredential
<1>2. ASSUME NEW p \in Pollers, NEW l \in Logins, Poll(p, l)  PROVE Rest'
  BY <1>2 DEF Poll, OneCredentialPerApproval, RegistersAlone, DeletesWithCredential
<1>3. ASSUME NEW p \in Pollers, Exchange(p)  PROVE Rest'
  \* Only an approved code is redeemed: nobody registers with it yet, and it has
  \* given nothing.
  <2> USE <1>3 DEF Exchange
  <2>1. OneCredentialPerApproval'
    BY DEF OneCredentialPerApproval
  <2>2. RegistersAlone'
    BY DEF RegistersAlone, OneCredentialPerApproval
  <2>3. DeletesWithCredential'
    BY DEF DeletesWithCredential
  <2> QED  BY <2>1, <2>2, <2>3
<1>4. ASSUME NEW p \in Pollers, Register(p)  PROVE Rest'
  \* The one poll that registers leaves that stage with the login's first credential.
  <2> USE <1>4 DEF Register
  <2>1. OneCredentialPerApproval'
    BY DEF OneCredentialPerApproval, RegistersAlone
  <2>2. RegistersAlone'
    BY DEF RegistersAlone
  <2>3. DeletesWithCredential'
    BY DEF DeletesWithCredential, RegistersAlone
  <2> QED  BY <2>1, <2>2, <2>3
<1>5. ASSUME NEW p \in Pollers, DeleteState(p)  PROVE Rest'
  BY <1>5 DEF DeleteState, OneCredentialPerApproval, RegistersAlone, DeletesWithCredential
<1>6. ASSUME NEW p \in Pollers, Persist(p)  PROVE Rest'
  BY <1>6 DEF Persist, OneCredentialPerApproval, RegistersAlone, DeletesWithCredential
<1>7. CASE Sweep
  BY <1>7 DEF Sweep, OneCredentialPerApproval, RegistersAlone, DeletesWithCredential
<1>8. ASSUME NEW l \in Logins, NEW verdict \in {"approved", "denied"}, Decide(l, verdict)
      PROVE Rest'
  BY <1>8 DEF Decide, OneCredentialPerApproval, RegistersAlone, DeletesWithCredential
<1>9. ASSUME NEW l \in Logins, DeviceExpires(l)  PROVE Rest'
  BY <1>9 DEF DeviceExpires, OneCredentialPerApproval, RegistersAlone, DeletesWithCredential
<1>10. ASSUME NEW l \in Logins, Expire(l)  PROVE Rest'
  BY <1>10 DEF Expire, OneCredentialPerApproval, RegistersAlone, DeletesWithCredential
<1>11. CASE UNCHANGED vars
  BY <1>11 DEF vars, OneCredentialPerApproval, RegistersAlone, DeletesWithCredential
<1> QED
  BY <1>1, <1>2, <1>3, <1>4, <1>5, <1>6, <1>7, <1>8, <1>9, <1>10, <1>11 DEF Next, Step

-----------------------------------------------------------------------------
\* LoginInv holds in every state of the login, however many pages poll it
\* (auth.go:231-272, management.go:166-202).
THEOREM LoginInvariant == Spec => []LoginInv
  BY InitLoginInv, LoginStep, PTL DEF Spec

\* Every variable of the login keeps its type; no poll answers a word it does not know.
THEOREM TypeCorrect == Spec => []TypeOK
<1>1. LoginInv => TypeOK
  BY DEF LoginInv
<1> QED  BY <1>1, LoginInvariant, PTL

\* auth.go:247-267: one approval yields at most one credential.
THEOREM OneCredential == Spec => []OneCredentialPerApproval
<1>1. LoginInv => OneCredentialPerApproval
  BY DEF LoginInv
<1> QED  BY <1>1, LoginInvariant, PTL

\* management.go:166-168: "ok" means saved. It rests on the types alone: a panel's
\* poll has no other way to "ok" than Persist.
THEOREM OkIsTrue == Spec => []OkMeansSaved
<1>1. Init => OkMeansSaved
  BY PanelsAssumption DEF Init, OkMeansSaved
<1>2. TypeOK /\ OkMeansSaved /\ [Next]_vars => OkMeansSaved'
  <2> SUFFICES ASSUME TypeOK, OkMeansSaved, [Next]_vars, NEW q \in Panels,
                      answer'[q] = "ok"
               PROVE  login'[q] \in saved' \/ pc'[q] # "idle"
    BY DEF OkMeansSaved
  <2> USE PanelsAssumption DEF TypeOK, OkMeansSaved, Finish, poll
  <2>1. ASSUME NEW p \in Pollers, Step(p)  PROVE login'[q] \in saved' \/ pc'[q] # "idle"
    BY <2>1 DEF Step, Exchange, Register, DeleteState, Persist
  <2>2. ASSUME NEW p \in Pollers, NEW l \in Logins, Poll(p, l)
        PROVE  login'[q] \in saved' \/ pc'[q] # "idle"
    BY <2>2 DEF Poll
  <2>3. ASSUME UNCHANGED <<poll, answer, saved>>
        PROVE  login'[q] \in saved' \/ pc'[q] # "idle"
    BY <2>3
  <2> QED
    BY <2>1, <2>2, <2>3
    DEF Next, startLogin, Decide, DeviceExpires, Expire, Sweep, vars
<1> QED  BY <1>1, <1>2, TypeCorrect, PTL DEF Spec

\* auth.go:240-267, main.go:101-103: an entry goes only after its login has expired
\* or produced its credential.
THEOREM StaysOpen == Spec => LoginStaysOpen
<1> DEFINE Stays == \A l \in loginStates \ loginStates' : l \in expired \/ given[l] > 0
<1>1. LoginInv /\ [Next]_vars => [Stays]_vars
  <2> SUFFICES ASSUME LoginInv, Next
               PROVE  Stays
    OBVIOUS
  <2> USE DEF LoginInv, TypeOK, Finish, poll
  <2>1. ASSUME NEW p \in Pollers, Step(p)  PROVE Stays
    BY <2>1 DEF Step, Exchange, Register, DeleteState, Persist, DeletesWithCredential
  <2>2. ASSUME NEW p \in Pollers, NEW l \in Logins, Poll(p, l)  PROVE Stays
    BY <2>2 DEF Poll
  <2>3. ASSUME NEW l \in Logins, startLogin(l)  PROVE Stays
    BY <2>3 DEF startLogin
  <2>4. CASE Sweep
    BY <2>4 DEF Sweep
  <2> QED
    BY <2>1, <2>2, <2>3, <2>4 DEF Next, Decide, DeviceExpires, Expire
<1> QED  BY <1>1, LoginInvariant, PTL DEF Spec, LoginStaysOpen
=============================================================================
