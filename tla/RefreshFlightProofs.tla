------------------------ MODULE RefreshFlightProofs ------------------------
(***************************************************************************)
(* The single flight of refreshCredential is safe for any number of        *)
(* goroutines, keys and outcomes.                                          *)
(*                                                                         *)
(* OneGrantPerKey is not inductive: it says nothing of calls, so a second  *)
(* leader could register beside a first one whose entry is missing. FlightInv *)
(* adds the two directions that tie stages to registrations: an open       *)
(* flight that has not yet unregistered is registered (Registered), and a  *)
(* registration stands for such a flight (NoOrphanRegistration).           *)
(***************************************************************************)
EXTENDS RefreshFlight, TLAPS

\* A flight stays registered from Lead to Unregister.
Registered ==
    \A p \in Procs : stage[p] \in {"leading", "answered"} => calls[slot[p]] = p

\* Whoever is past the grant knows its answer.
AnswerKnown ==
    \A p \in Procs :
        stage[p] \in {"answered", "unregistered", "released"} => outcome[p] \in Outcomes

FlightInv ==
    /\ TypeOK
    /\ Registered
    /\ NoOrphanRegistration
    /\ WaitersAreAwaited
    /\ AnswerKnown

-----------------------------------------------------------------------------
\* Two leaders of one key would both be the single process registered for it.
LEMMA FlightInvImpliesOneGrant == FlightInv => OneGrantPerKey
  BY DEF FlightInv, Registered, OneGrantPerKey

LEMMA InitFlightInv == Init => FlightInv
  BY NoneAssumption
  DEF Init, FlightInv, TypeOK, Stages, Registered, NoOrphanRegistration,
      WaitersAreAwaited, AnswerKnown

LEMMA TypeStep == TypeOK /\ [Next]_vars => TypeOK'
<1> SUFFICES ASSUME TypeOK, [Next]_vars
             PROVE  TypeOK'
  OBVIOUS
<1> USE NoneAssumption DEF TypeOK, Stages
<1>1. ASSUME NEW p \in Procs, NEW k \in Keys, Call(p, k)  PROVE TypeOK'
  BY <1>1 DEF Call
<1>2. ASSUME NEW p \in Procs, Lead(p)  PROVE TypeOK'
  BY <1>2 DEF Lead
<1>3. ASSUME NEW p \in Procs, Join(p)  PROVE TypeOK'
  BY <1>3 DEF Join
<1>4. ASSUME NEW p \in Procs, NEW o \in Outcomes, Answer(p, o)  PROVE TypeOK'
  BY <1>4 DEF Answer
<1>5. ASSUME NEW p \in Procs, Unregister(p)  PROVE TypeOK'
  BY <1>5 DEF Unregister
<1>6. ASSUME NEW p \in Procs, Release(p)  PROVE TypeOK'
  BY <1>6 DEF Release
<1>7. ASSUME NEW p \in Procs, Return(p)  PROVE TypeOK'
  BY <1>7 DEF Return
<1>8. CASE UNCHANGED vars
  BY <1>8 DEF vars
<1> QED
  BY <1>1, <1>2, <1>3, <1>4, <1>5, <1>6, <1>7, <1>8 DEF Next, Work

LEMMA FlightStep == FlightInv /\ [Next]_vars => FlightInv'
<1> SUFFICES ASSUME FlightInv, [Next]_vars
             PROVE  FlightInv'
  OBVIOUS
<1> USE NoneAssumption DEF FlightInv
<1>0. TypeOK'
  BY TypeStep
<1>1. ASSUME NEW p \in Procs, NEW k \in Keys, Call(p, k)  PROVE FlightInv'
  \* Nobody registered or awaited is "out", so the new slot disturbs no one.
  <2> USE <1>1 DEF Call, TypeOK, Stages
  <2>1. Registered'
    BY DEF Registered
  <2>2. NoOrphanRegistration'
    BY DEF NoOrphanRegistration
  <2>3. WaitersAreAwaited'
    BY DEF WaitersAreAwaited, OpenStages
  <2>4. AnswerKnown'
    BY DEF AnswerKnown
  <2> QED  BY <1>0, <2>1, <2>2, <2>3, <2>4
<1>2. ASSUME NEW p \in Procs, Lead(p)  PROVE FlightInv'
  <2> USE <1>2 DEF Lead, TypeOK, Stages
  <2>1. Registered'
    BY DEF Registered
  <2>2. NoOrphanRegistration'
    BY DEF NoOrphanRegistration
  <2>3. WaitersAreAwaited'
    BY DEF WaitersAreAwaited, OpenStages
  <2>4. AnswerKnown'
    BY DEF AnswerKnown
  <2> QED  BY <1>0, <2>1, <2>2, <2>3, <2>4
<1>3. ASSUME NEW p \in Procs, Join(p)  PROVE FlightInv'
  \* The flight joined is registered, hence open and of the same key.
  <2> USE <1>3 DEF Join, TypeOK, Stages
  <2>1. Registered'
    BY DEF Registered
  <2>2. NoOrphanRegistration'
    BY DEF NoOrphanRegistration
  <2>3. WaitersAreAwaited'
    BY DEF WaitersAreAwaited, OpenStages, NoOrphanRegistration
  <2>4. AnswerKnown'
    BY DEF AnswerKnown
  <2> QED  BY <1>0, <2>1, <2>2, <2>3, <2>4
<1>4. ASSUME NEW p \in Procs, NEW o \in Outcomes, Answer(p, o)  PROVE FlightInv'
  <2> USE <1>4 DEF Answer, TypeOK, Stages
  <2>1. Registered'
    BY DEF Registered
  <2>2. NoOrphanRegistration'
    BY DEF NoOrphanRegistration
  <2>3. WaitersAreAwaited'
    BY DEF WaitersAreAwaited, OpenStages
  <2>4. AnswerKnown'
    BY DEF AnswerKnown
  <2> QED  BY <1>0, <2>1, <2>2, <2>3, <2>4
<1>5. ASSUME NEW p \in Procs, Unregister(p)  PROVE FlightInv'
  \* The entry removed is the leader's own, so no other flight loses its own.
  <2> USE <1>5 DEF Unregister, TypeOK, Stages
  <2>0. calls' = [calls EXCEPT ![slot[p]] = None]
    BY DEF Registered
  <2>1. Registered'
    BY <2>0 DEF Registered
  <2>2. NoOrphanRegistration'
    BY <2>0 DEF NoOrphanRegistration
  <2>3. WaitersAreAwaited'
    BY DEF WaitersAreAwaited, OpenStages
  <2>4. AnswerKnown'
    BY DEF AnswerKnown
  <2> QED  BY <1>0, <2>1, <2>2, <2>3, <2>4
<1>6. ASSUME NEW p \in Procs, Release(p)  PROVE FlightInv'
  \* The flight released is registered nowhere, so nobody joins it afterwards,
  \* and everyone who waited on it is in its party.
  <2> USE <1>6 DEF Release, Party, TypeOK, Stages
  <2>1. Registered'
    BY DEF Registered
  <2>2. NoOrphanRegistration'
    BY DEF NoOrphanRegistration
  <2>3. WaitersAreAwaited'
    BY DEF WaitersAreAwaited, OpenStages
  <2>4. AnswerKnown'
    BY DEF AnswerKnown
  <2> QED  BY <1>0, <2>1, <2>2, <2>3, <2>4
<1>7. ASSUME NEW p \in Procs, Return(p)  PROVE FlightInv'
  <2> USE <1>7 DEF Return, TypeOK, Stages
  <2>1. Registered'
    BY DEF Registered
  <2>2. NoOrphanRegistration'
    BY DEF NoOrphanRegistration
  <2>3. WaitersAreAwaited'
    BY DEF WaitersAreAwaited, OpenStages
  <2>4. AnswerKnown'
    BY DEF AnswerKnown
  <2> QED  BY <1>0, <2>1, <2>2, <2>3, <2>4
<1>8. CASE UNCHANGED vars
  BY <1>8 DEF vars, TypeOK, Registered, NoOrphanRegistration, WaitersAreAwaited,
      OpenStages, AnswerKnown
<1> QED
  BY <1>1, <1>2, <1>3, <1>4, <1>5, <1>6, <1>7, <1>8 DEF Next, Work

-----------------------------------------------------------------------------
\* FlightInv holds in every state of the single flight, whatever the number of
\* goroutines that meet in refreshCredential (token.go:285-321).
THEOREM FlightInvariant == Spec => []FlightInv
  BY InitFlightInv, FlightStep, PTL DEF Spec

\* Every variable of the single flight keeps its type.
THEOREM TypeCorrect == Spec => []TypeOK
<1>1. FlightInv => TypeOK
  BY DEF FlightInv
<1> QED  BY <1>1, FlightInvariant, PTL

\* token.go:13-15: at most one grant per credential key is upstream at a time.
THEOREM SingleFlight == Spec => []OneGrantPerKey
  BY FlightInvImpliesOneGrant, FlightInvariant, PTL

\* token.go:310-314: no registration outlives its flight.
THEOREM RegistrationsAreLive == Spec => []NoOrphanRegistration
<1>1. FlightInv => NoOrphanRegistration
  BY DEF FlightInv
<1> QED  BY <1>1, FlightInvariant, PTL

\* token.go:294-296: a caller waits only on a flight of its key still to land.
THEOREM WaitersAwaited == Spec => []WaitersAreAwaited
<1>1. FlightInv => WaitersAreAwaited
  BY DEF FlightInv
<1> QED  BY <1>1, FlightInvariant, PTL

\* token.go:296-300: only Release moves a waiter on, and only with the answer of
\* the flight it joined.
THEOREM AnswerShared == Spec => WaitersShareTheAnswer
<1> DEFINE Shares ==
      \A p \in Procs :
          stage[p] = "waiting" /\ stage'[p] # "waiting" =>
              /\ outcome[joined[p]] \in Outcomes
              /\ outcome'[p] = outcome[joined[p]]
<1>1. FlightInv /\ [Next]_vars => [Shares]_vars
  <2> SUFFICES ASSUME FlightInv, Next, NEW q \in Procs,
                      stage[q] = "waiting", stage'[q] # "waiting"
               PROVE  /\ outcome[joined[q]] \in Outcomes
                      /\ outcome'[q] = outcome[joined[q]]
    OBVIOUS
  <2> USE DEF FlightInv, TypeOK
  <2>1. PICK p \in Procs : Release(p)
    BY DEF Next, Work, Call, Lead, Join, Answer, Unregister, Return
  <2>2. q \in Party(p) /\ q # p
    BY <2>1 DEF Release
  <2>3. joined[q] = p
    BY <2>2 DEF Party
  <2> QED
    BY <2>1, <2>2, <2>3 DEF Release, AnswerKnown
<1> QED  BY <1>1, FlightInvariant, PTL DEF Spec, WaitersShareTheAnswer
=============================================================================
