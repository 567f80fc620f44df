-------------------------- MODULE CredentialProofs --------------------------
(***************************************************************************)
(* The life of a credential, for any number of requests, grants, restarts  *)
(* and any faults. What RefreshFlightProofs proves of the single flight is *)
(* used here as it stands: a request moves the flight only by its steps,   *)
(* and a restart begins it anew.                                           *)
(***************************************************************************)
EXTENDS Credential, TLAPS

Single == INSTANCE RefreshFlightProofs

\* A goroutine is in the flight while its request waits for one, and an answer is
\* under way to a leader only.
InFlight(p) ==
    /\ pc[p] = "flight" <=> stage[p] # "out"
    /\ wire[p] # None => stage[p] = "leading"
    /\ pc[p] # "idle" => kind[p] \in Operations

\* A grant takes the time the clock moves by.
Clock == 1 <= issued /\ now + 1 <= MaxNow + issued

CredInv ==
    /\ TypeOK
    /\ Clock
    /\ \A p \in Procs : InFlight(p)
    /\ Single!FlightInv

-----------------------------------------------------------------------------
LEMMA InitFlight == Init => Single!Init
  BY DEF Init, Single!Init, Keys

LEMMA NoPairTyped == NoPair \in Pairs
  BY BoundsAssumption DEF NoPair, Pairs

LEMMA InitCredInv == Init => CredInv
<1> SUFFICES ASSUME Init  PROVE CredInv
  OBVIOUS
<1>1. Single!FlightInv
  BY InitFlight, Single!InitFlightInv, DataAssumption
<1>2. TypeOK
  BY BoundsAssumption, DataAssumption, NoPairTyped DEF Init, NoRequest, TypeOK
<1>3. Clock
  BY BoundsAssumption DEF Init, Clock
<1>4. ASSUME NEW p \in Procs  PROVE InFlight(p)
  BY DEF Init, NoRequest, InFlight
<1> QED  BY <1>1, <1>2, <1>3, <1>4 DEF CredInv

\* Whatever a request does, the flight takes a step of its own or none.
LEMMA FlightMoves ==
  ASSUME TypeOK, [Next]_vars, ~Restart
  PROVE  [Single!Next]_(Single!vars)
<1> USE DEF flight, request, Single!vars
<1>1. CASE UNCHANGED flight
  BY <1>1
<1>2. ASSUME NEW p \in Procs, PrepareRefresh(p)  PROVE Single!Next
  <2>1. Flight!Call(p, credentialKey(snap[p])) /\ credentialKey(snap[p]) \in Keys
    BY <1>2 DEF PrepareRefresh, credentialKey, Keys
  <2> QED  BY <2>1 DEF Flight!Call, Single!Next, Single!Call
<1>3. ASSUME NEW p \in Procs, LeadFlight(p)  PROVE Single!Next
  BY <1>3 DEF LeadFlight, Flight!Lead, Single!Next, Single!Work, Single!Lead
<1>4. ASSUME NEW p \in Procs, JoinFlight(p)  PROVE Single!Next
  BY <1>4 DEF JoinFlight, Flight!Join, Single!Next, Single!Work, Single!Join
<1>5. ASSUME NEW p \in Procs, AnswerFlight(p)  PROVE Single!Next
  <2>1. wire[p] \in Outcomes /\ Flight!Answer(p, wire[p])
    BY <1>5 DEF AnswerFlight, TypeOK
  <2> QED  BY <2>1 DEF Flight!Answer, Single!Next, Single!Work, Single!Answer
<1>6. ASSUME NEW p \in Procs, UnregisterFlight(p)  PROVE Single!Next
  BY <1>6 DEF UnregisterFlight, Flight!Unregister, Single!Next, Single!Work, Single!Unregister
<1>7. ASSUME NEW p \in Procs, ReleaseFlight(p)  PROVE Single!Next
  BY <1>7 DEF ReleaseFlight, Flight!Release, Flight!Party, Single!Next, Single!Work,
              Single!Release, Single!Party
<1>8. ASSUME NEW p \in Procs, Flight!Return(p)  PROVE Single!Next
  BY <1>8 DEF Flight!Return, Single!Next, Single!Work, Single!Return
<1>9. ASSUME NEW p \in Procs, Apply(p) \/ Defer(p) \/ Fail(p)  PROVE Flight!Return(p)
  BY <1>9 DEF Apply, Defer, Fail
<1>10. ASSUME NEW p \in Procs,
              \/ \E k \in Operations : Receive(p, k)
              \/ PrepareFresh(p) \/ GrantAccepted(p) \/ GrantFailed(p) \/ Persist(p)
              \/ Send(p) \/ GiveUp(p) \/ Enrich(p) \/ HandOver(p) \/ Deliver(p)
       PROVE  UNCHANGED flight
  BY <1>10 DEF Receive, PrepareFresh, GrantAccepted, GrantFailed, Persist, Send, GiveUp,
               Enrich, HandOver, Deliver
<1>11. ASSUME HostReload \/ Tick \/ Revoke \/ UNCHANGED vars
       PROVE  UNCHANGED flight
  BY <1>11 DEF HostReload, Tick, Revoke, vars
<1>12. ASSUME NEW p \in Procs, Work(p)  PROVE [Single!Next]_(Single!vars)
  BY <1>1, <1>2, <1>3, <1>4, <1>5, <1>6, <1>7, <1>8, <1>9, <1>10, <1>12 DEF Work, FlightWork
<1> QED  BY <1>1, <1>10, <1>11, <1>12 DEF Next

LEMMA RestartFlight == TypeOK /\ Single!FlightInv /\ Restart => Single!Init'
  BY DEF Restart, Single!Init, Single!FlightInv, Single!TypeOK

LEMMA FlightBegins == Single!Init' => Single!FlightInv'
<1>1. Single!Init => Single!FlightInv
  BY Single!InitFlightInv, DataAssumption
<1> QED  BY <1>1, PTL

LEMMA FlightKept == CredInv /\ [Next]_vars => Single!FlightInv'
<1>1. CASE Restart
  BY <1>1, RestartFlight, FlightBegins DEF CredInv
<1>2. CASE ~Restart
  BY <1>2, FlightMoves, Single!FlightStep, DataAssumption DEF CredInv
<1> QED  BY <1>1, <1>2

-----------------------------------------------------------------------------
(* Types *)

LEMMA FailureReplyTyped ==
  ASSUME NEW k \in {"execute", "refresh", "models"}, NEW why \in Errors
  PROVE  FailureReply(k, why) \in
             {"snapshot", "unauthorized", "unavailable", "interrupted", "failed"}
  BY DEF FailureReply, Errors

LEMMA NewCredentialTyped == TypeOK => newCredential(host) \in Pairs
  BY DEF TypeOK, newCredential, credentialKey, Keys

LEMMA RotatedTyped ==
  ASSUME TypeOK, Clock, issued < MaxGrants, NEW sa \in Pairs, NEW keeps \in BOOLEAN,
         NEW life \in {Life, FallbackLife}, NEW knowsId \in BOOLEAN
  PROVE  /\ Rotated(sa, issued + 1, keeps, life, knowsId) \in Pairs
         /\ now + 1 \in 0..(MaxNow + MaxGrants)
<1>1. /\ {now, issued, life, Life, FallbackLife, MaxNow, MaxGrants} \subseteq Nat
      /\ life <= Life
  BY BoundsAssumption DEF TypeOK
<1>2. now + 1 + life \in 0..(MaxNow + MaxGrants + Life) /\ now + 1 \in 0..(MaxNow + MaxGrants)
  BY <1>1 DEF Clock
<1>3. issued + 1 \in 0..MaxGrants
  BY <1>1
<1>4. (sa.id \/ knowsId) \in BOOLEAN /\ sa.rt \in 0..MaxGrants
  BY DEF Pairs
<1> QED  BY <1>2, <1>3, <1>4 DEF Rotated, Pairs

LEMMA TypeStep == CredInv /\ [Next]_vars => TypeOK'
<1> SUFFICES ASSUME CredInv, [Next]_vars
             PROVE  TypeOK'
  OBVIOUS
<1>0. TypeOK /\ Clock /\ Single!FlightInv /\ \A p \in Procs : InFlight(p)
  BY DEF CredInv
<1> USE BoundsAssumption DEF upstream, stores, request
<1>1. ASSUME NEW p \in Procs, NEW k \in Operations, Receive(p, k)  PROVE TypeOK'
  <2>1. newCredential(host) \in Pairs
    BY <1>0, NewCredentialTyped
  <2> QED  BY <1>0, <1>1, <2>1 DEF Receive, TypeOK
<1>2. ASSUME NEW p \in Procs, PrepareFresh(p)  PROVE TypeOK'
  BY <1>0, <1>2 DEF PrepareFresh, TypeOK
<1>3. ASSUME NEW p \in Procs, PrepareRefresh(p)  PROVE TypeOK'
  BY <1>0, <1>3 DEF PrepareRefresh, TypeOK
<1>4. ASSUME NEW p \in Procs, LeadFlight(p) \/ JoinFlight(p) \/ UnregisterFlight(p)
                              \/ ReleaseFlight(p)
      PROVE  TypeOK'
  BY <1>0, <1>4 DEF LeadFlight, JoinFlight, UnregisterFlight, ReleaseFlight, TypeOK
<1>5. ASSUME NEW p \in Procs, GrantAccepted(p)  PROVE TypeOK'
  <2>1. PICK keeps \in {FALSE} \union {"noRotate" \in Faults},
             life \in {Life} \union (IF "noExpiry" \in Faults THEN {FallbackLife} ELSE {}),
             knowsId \in {FALSE} \union {"learnsId" \in Faults},
             delivered \in {TRUE} \union {"lostReply" \notin Faults} :
               /\ live' = (IF keeps THEN live ELSE issued + 1)
               /\ wire' = [wire EXCEPT ![p] =
                     IF delivered
                     THEN [why |-> "ok", pair |-> Rotated(cred[p], issued + 1, keeps, life, knowsId)]
                     ELSE Error("transport")]
    BY <1>5, Zenon DEF GrantAccepted
  <2>2. /\ issued < MaxGrants /\ issued' = issued + 1 /\ now' = now + 1
        /\ UNCHANGED <<revoked, stores, pc, request, cred, reply>>
    BY <1>5 DEF GrantAccepted
  <2>3. cred[p] \in Pairs /\ life \in {Life, FallbackLife}
    BY <1>0 DEF TypeOK
  <2>4. keeps \in BOOLEAN /\ knowsId \in BOOLEAN
    <3>1. /\ ("noRotate" \in Faults) \in BOOLEAN
          /\ ("learnsId" \in Faults) \in BOOLEAN
      OBVIOUS
    <3>2. keeps = FALSE \/ keeps = ("noRotate" \in Faults)
      OBVIOUS
    <3>3. knowsId = FALSE \/ knowsId = ("learnsId" \in Faults)
      OBVIOUS
    <3> QED  BY <3>1, <3>2, <3>3
  <2>5. /\ Rotated(cred[p], issued + 1, keeps, life, knowsId) \in Pairs
        /\ now + 1 \in 0..(MaxNow + MaxGrants)
    BY <1>0, <2>2, <2>3, <2>4, RotatedTyped
  <2>6. issued + 1 \in 0..MaxGrants /\ live' \in 0..MaxGrants
    BY <1>0, <2>1, <2>2 DEF TypeOK
  <2>7. Error("transport") \in Outcomes
    BY DEF Error, Outcomes, Errors
  <2>8. [why |-> "ok", pair |-> Rotated(cred[p], issued + 1, keeps, life, knowsId)] \in Outcomes
    BY <2>5 DEF Outcomes
  <2>9. wire' \in [Procs -> Outcomes \union {None}]
    BY <1>0, <2>1, <2>7, <2>8 DEF TypeOK
  <2> QED  BY <1>0, <2>2, <2>5, <2>6, <2>9 DEF TypeOK
<1>6. ASSUME NEW p \in Procs, GrantFailed(p)  PROVE TypeOK'
  <2>1. \E why \in Errors : wire' = [wire EXCEPT ![p] = Error(why)]
    BY <1>6 DEF GrantFailed, Errors
  <2>2. \A why \in Errors : Error(why) \in Outcomes
    BY DEF Error, Outcomes
  <2>3. wire' \in [Procs -> Outcomes \union {None}]
    BY <1>0, <2>1, <2>2 DEF TypeOK
  <2> QED  BY <1>0, <1>6, <2>3 DEF GrantFailed, TypeOK
<1>7. ASSUME NEW p \in Procs, AnswerFlight(p)  PROVE TypeOK'
  <2>1. wire[p] \in Outcomes
    BY <1>0, <1>7 DEF AnswerFlight, TypeOK
  <2>2. wire[p].pair \in Pairs
    BY <2>1, NoPairTyped DEF Outcomes
  <2>3. cache' \in [Keys -> Pairs]
    BY <1>0, <1>7, <2>2 DEF AnswerFlight, TypeOK, credentialKey, Keys
  <2>4. wire' \in [Procs -> Outcomes \union {None}]
    BY <1>0, <1>7 DEF AnswerFlight, TypeOK
  <2> QED  BY <1>0, <1>7, <2>3, <2>4 DEF AnswerFlight, TypeOK
<1>8. ASSUME NEW p \in Procs, stage[p] = "released"
      PROVE  outcome[p] \in Outcomes /\ outcome[p].pair \in Pairs
  <2>1. outcome[p] \in Outcomes
    BY <1>0, <1>8 DEF Single!FlightInv, Single!AnswerKnown
  <2> QED  BY <2>1, NoPairTyped DEF Outcomes
<1>9. ASSUME NEW p \in Procs, Apply(p)  PROVE TypeOK'
  <2>1. outcome[p].pair \in Pairs
    BY <1>8, <1>9 DEF Apply
  <2>2. cache' \in [Keys -> Pairs] /\ cred' \in [Procs -> Pairs]
    BY <1>0, <1>9, <2>1 DEF Apply, TypeOK, credentialKey, Keys
  <2>3. pc' \in [Procs -> {"idle", "prepare", "flight", "persist", "ready", "save", "done"}]
    BY <1>0, <1>9 DEF Apply, TypeOK
  <2> QED  BY <1>0, <1>9, <2>2, <2>3 DEF Apply, TypeOK
<1>10. ASSUME NEW p \in Procs, Defer(p)  PROVE TypeOK'
  BY <1>0, <1>10 DEF Defer, TypeOK
<1>11. ASSUME NEW p \in Procs, Fail(p)  PROVE TypeOK'
  <2>1. outcome[p] \in Outcomes /\ outcome[p].why # "ok" /\ pc[p] = "flight"
    BY <1>8, <1>11 DEF Fail
  <2>2. outcome[p].why \in Errors /\ kind[p] \in {"execute", "refresh", "models"}
    BY <1>0, <2>1, DataAssumption DEF Outcomes, InFlight
  <2>3. FailureReply(kind[p], outcome[p].why) \in
             {"snapshot", "unauthorized", "unavailable", "interrupted", "failed"}
    BY <2>2, FailureReplyTyped
  <2>4. /\ pc' = [pc EXCEPT ![p] = "done"]
        /\ reply' = [reply EXCEPT ![p] = FailureReply(kind[p], outcome[p].why)]
        /\ cred' = IF kind[p] = "models" THEN [cred EXCEPT ![p] = snap[p]] ELSE cred
        /\ UNCHANGED <<upstream, wire, stores, request>>
    BY <1>11 DEF Fail
  <2>5. cred' \in [Procs -> Pairs]
    BY <1>0, <2>4 DEF TypeOK
  <2>6. reply' \in [Procs -> {"none", "served", "snapshot", "unauthorized",
                              "unavailable", "interrupted", "failed"}]
    BY <1>0, <2>3, <2>4 DEF TypeOK
  <2> QED  BY <1>0, <2>4, <2>5, <2>6 DEF TypeOK
<1>12. ASSUME NEW p \in Procs, Persist(p)  PROVE TypeOK'
  <2>1. disk' \in Pairs
    BY <1>0, <1>12 DEF Persist, TypeOK
  <2> QED  BY <1>0, <1>12, <2>1 DEF Persist, TypeOK
<1>13. ASSUME NEW p \in Procs, Send(p)  PROVE TypeOK'
  <2>1. sends[p] + 1 \in 0..2 /\ cred[p].at \in 0..MaxGrants
    BY <1>0, <1>13 DEF Send, TypeOK, Pairs
  <2>2. /\ sends' = [sends EXCEPT ![p] = @ + 1] /\ sent' = [sent EXCEPT ![p] = cred[p].at]
        /\ UNCHANGED <<upstream, wire, stores, kind, snap, cred>>
    BY <1>13 DEF Send
  <2>3. /\ pc' \in [Procs -> {"idle", "prepare", "flight", "persist", "ready", "save", "done"}]
        /\ reply' \in [Procs -> {"none", "served", "snapshot", "unauthorized",
                                 "unavailable", "interrupted", "failed"}]
    BY <1>0, <1>13 DEF Send, TypeOK
  <2> QED  BY <1>0, <2>1, <2>2, <2>3 DEF TypeOK
<1>14. ASSUME NEW p \in Procs, GiveUp(p) \/ HandOver(p)  PROVE TypeOK'
  <2>1. CASE GiveUp(p)
    BY <1>0, <2>1 DEF GiveUp, TypeOK
  <2>2. CASE HandOver(p)
    BY <1>0, <2>2 DEF HandOver, TypeOK
  <2> QED  BY <1>14, <2>1, <2>2
<1>15. ASSUME NEW p \in Procs, Enrich(p)  PROVE TypeOK'
  <2>1. PICK id \in BOOLEAN :
            LET sa == [cred[p] EXCEPT !.id = id \/ @]
            IN  /\ cred' = [cred EXCEPT ![p] = sa]
                /\ cache' = [cache EXCEPT ![credentialKey(sa)] = sa]
    BY <1>0, <1>15 DEF Enrich, TypeOK, Pairs
  <2>2. cred[p] \in Pairs
    BY <1>0 DEF TypeOK
  <2>3. [cred[p] EXCEPT !.id = id \/ @] \in Pairs
    BY <2>2 DEF Pairs
  <2>4. cache' \in [Keys -> Pairs] /\ cred' \in [Procs -> Pairs]
    BY <1>0, <2>1, <2>3 DEF TypeOK, credentialKey, Keys
  <2> QED  BY <1>0, <1>15, <2>4 DEF Enrich, TypeOK
<1>16. ASSUME NEW p \in Procs, Deliver(p)  PROVE TypeOK'
  <2>1. host' \in Pairs
    BY <1>0, <1>16 DEF Deliver, TypeOK
  <2> QED  BY <1>0, <1>16, <2>1, NoPairTyped DEF Deliver, TypeOK
<1>17. CASE HostReload
  BY <1>0, <1>17 DEF HostReload, TypeOK
<1>18. CASE Tick
  BY <1>0, <1>18 DEF Tick, TypeOK
<1>19. CASE Revoke
  BY <1>0, <1>19 DEF Revoke, TypeOK, Clock
<1>20. CASE Restart
  BY <1>0, <1>20, NoPairTyped DEF Restart, TypeOK
<1>21. CASE UNCHANGED vars
  BY <1>0, <1>21 DEF vars, TypeOK
<1> QED
  BY <1>1, <1>2, <1>3, <1>4, <1>5, <1>6, <1>7, <1>9, <1>10, <1>11, <1>12, <1>13, <1>14,
     <1>15, <1>16, <1>17, <1>18, <1>19, <1>20, <1>21
  DEF Next, Work, FlightWork

LEMMA ClockStep == CredInv /\ [Next]_vars => Clock'
<1> SUFFICES ASSUME CredInv, [Next]_vars
             PROVE  Clock'
  OBVIOUS
<1>0. TypeOK /\ Clock /\ {now, issued, MaxNow} \subseteq Nat
  BY BoundsAssumption DEF CredInv, TypeOK
<1>1. CASE issued' = issued + 1 /\ now' = now + 1
  BY <1>0, <1>1 DEF Clock
<1>2. CASE issued' = issued /\ now' = now + 1 /\ now < MaxNow
  BY <1>0, <1>2 DEF Clock
<1>3. CASE UNCHANGED <<now, issued>>
  BY <1>0, <1>3 DEF Clock
<1>4. ASSUME NEW p \in Procs, Work(p) \/ \E k \in Operations : Receive(p, k)
      PROVE  \/ issued' = issued + 1 /\ now' = now + 1
             \/ UNCHANGED <<now, issued>>
  BY <1>4 DEF Work, FlightWork, upstream, Receive, PrepareFresh, PrepareRefresh, LeadFlight,
              JoinFlight, GrantAccepted, GrantFailed, AnswerFlight, UnregisterFlight,
              ReleaseFlight, Apply, Defer, Fail, Persist, Send, GiveUp, Enrich, HandOver, Deliver
<1>5. CASE HostReload \/ Tick \/ Revoke \/ Restart \/ UNCHANGED vars
  BY <1>2, <1>3, <1>5 DEF HostReload, Tick, Revoke, Restart, vars, upstream
<1> QED  BY <1>1, <1>3, <1>4, <1>5 DEF Next

LEMMA InFlightStep == CredInv /\ [Next]_vars => \A p \in Procs : InFlight(p)'
<1> SUFFICES ASSUME CredInv, [Next]_vars
             PROVE  \A p \in Procs : InFlight(p)'
  OBVIOUS
<1>0. /\ TypeOK /\ Single!TypeOK /\ \A p \in Procs : InFlight(p)
  BY DEF CredInv, Single!FlightInv
<1> USE DEF InFlight, request, flight
<1>1. ASSUME NEW p \in Procs, NEW k \in Operations, Receive(p, k)
      PROVE  \A q \in Procs : InFlight(q)'
  BY <1>0, <1>1 DEF Receive, TypeOK
<1>2. ASSUME NEW p \in Procs,
             \/ PrepareFresh(p) \/ Persist(p) \/ Send(p) \/ GiveUp(p) \/ Enrich(p) \/ HandOver(p)
      PROVE  \A q \in Procs : InFlight(q)'
  BY <1>0, <1>2 DEF PrepareFresh, Persist, Send, GiveUp, Enrich, HandOver, TypeOK
<1>3. ASSUME NEW p \in Procs, PrepareRefresh(p)  PROVE \A q \in Procs : InFlight(q)'
  BY <1>0, <1>3 DEF PrepareRefresh, Flight!Call, TypeOK, Single!TypeOK
<1>4. ASSUME NEW p \in Procs, LeadFlight(p)  PROVE \A q \in Procs : InFlight(q)'
  BY <1>0, <1>4 DEF LeadFlight, Flight!Lead, TypeOK, Single!TypeOK
<1>5. ASSUME NEW p \in Procs, JoinFlight(p)  PROVE \A q \in Procs : InFlight(q)'
  BY <1>0, <1>5 DEF JoinFlight, Flight!Join, TypeOK, Single!TypeOK
<1>6. ASSUME NEW p \in Procs, GrantAccepted(p) \/ GrantFailed(p)
      PROVE  \A q \in Procs : InFlight(q)'
  <2>1. stage[p] = "leading" /\ UNCHANGED <<pc, stage, kind>>
        /\ \A q \in Procs \ {p} : wire'[q] = wire[q]
    BY <1>0, <1>6 DEF GrantAccepted, GrantFailed, TypeOK
  <2> QED  BY <1>0, <2>1
<1>7. ASSUME NEW p \in Procs, AnswerFlight(p)  PROVE \A q \in Procs : InFlight(q)'
  BY <1>0, <1>7 DEF AnswerFlight, Flight!Answer, TypeOK, Single!TypeOK
<1>8. ASSUME NEW p \in Procs, UnregisterFlight(p)  PROVE \A q \in Procs : InFlight(q)'
  BY <1>0, <1>8 DEF UnregisterFlight, Flight!Unregister, TypeOK, Single!TypeOK
<1>9. ASSUME NEW p \in Procs, ReleaseFlight(p)  PROVE \A q \in Procs : InFlight(q)'
  BY <1>0, <1>9 DEF ReleaseFlight, Flight!Release, Flight!Party, TypeOK, Single!TypeOK
<1>10. ASSUME NEW p \in Procs, Apply(p) \/ Defer(p) \/ Fail(p)
       PROVE  \A q \in Procs : InFlight(q)'
  <2>1. /\ stage[p] = "released" /\ stage' = [stage EXCEPT ![p] = "out"]
        /\ pc[p] = "flight" /\ UNCHANGED <<wire, kind>>
    BY <1>10 DEF Apply, Defer, Fail, Flight!Return
  <2>2. pc'[p] # "flight" /\ \A q \in Procs \ {p} : pc'[q] = pc[q]
    BY <1>0, <1>10 DEF Apply, Defer, Fail, TypeOK
  <2> QED  BY <1>0, <2>1, <2>2 DEF TypeOK, Single!TypeOK
<1>11. ASSUME NEW p \in Procs, Deliver(p)  PROVE \A q \in Procs : InFlight(q)'
  BY <1>0, <1>11 DEF Deliver, TypeOK
<1>12. CASE Restart
  BY <1>0, <1>12 DEF Restart
<1>13. CASE HostReload \/ Tick \/ Revoke \/ UNCHANGED vars
  BY <1>0, <1>13 DEF HostReload, Tick, Revoke, vars
<1> QED
  BY <1>1, <1>2, <1>3, <1>4, <1>5, <1>6, <1>7, <1>8, <1>9, <1>10, <1>11, <1>12, <1>13
  DEF Next, Work, FlightWork

-----------------------------------------------------------------------------
\* In every state, whatever fails, and however often the plugin is restarted.
THEOREM CredInvariant == Spec => []CredInv
<1>1. Init => CredInv
  BY InitCredInv
<1>2. CredInv /\ [Next]_vars => CredInv'
  BY TypeStep, ClockStep, InFlightStep, FlightKept DEF CredInv
<1> QED  BY <1>1, <1>2, PTL DEF Spec

\* Every variable keeps its type, and the clock and the grants stay in their bounds.
THEOREM TypeCorrect == Spec => []TypeOK
<1>1. CredInv => TypeOK
  BY DEF CredInv
<1> QED  BY <1>1, CredInvariant, PTL

\* token.go:13-15: at most one grant per credential key is upstream, also when the
\* plugin is killed in the middle of one and begins anew.
THEOREM OneGrantAtATime == Spec => []Single!OneGrantPerKey
<1>1. CredInv => Single!OneGrantPerKey
  BY Single!FlightInvImpliesOneGrant, DataAssumption DEF CredInv
<1> QED  BY <1>1, CredInvariant, PTL

\* The safety of FlightSpec, the answers themselves included: between two restarts
\* the requests make no step that refreshCredential does not make.
THEOREM FlightImplemented ==
  ASSUME MaxRestarts = 0
  PROVE  Spec => Single!Init /\ [][Single!Next]_(Single!vars)
<1>1. Init => Single!Init
  BY InitFlight
<1>2. CredInv /\ [Next]_vars => [Single!Next]_(Single!vars)
  <2>1. CredInv => ~Restart
    BY BoundsAssumption DEF CredInv, TypeOK, Restart
  <2> QED  BY <2>1, FlightMoves DEF CredInv
<1> QED  BY <1>1, <1>2, CredInvariant, PTL DEF Spec

-----------------------------------------------------------------------------
(* How a pair travels *)

Granted(o) == o # None /\ o.why = "ok"

\* The flight of p brought a pair, and p has it in hand.
Told(p) == stage[p] \in {"answered", "unregistered", "released"} /\ Granted(outcome[p])

\* What the stores hold after a step that is no grant was somewhere before it.
StoresMove ==
    /\ UNCHANGED <<live, issued>>
    /\ disk' # disk => \E p \in Procs : pc[p] # "idle" /\ disk' = cred[p]
    /\ host' # host => host' = disk \/ \E p \in Procs : pc[p] # "idle" /\ host' = cred[p]
    /\ \A k \in Keys : cache'[k] \notin {cache[k], NoPair} =>
          /\ k = credentialKey(cache'[k])
          /\ \E p \in Procs : \/ Granted(wire[p]) /\ cache'[k] = wire[p].pair
                              \/ pc'[p] # "idle" /\ cache'[k] = cred'[p]

\* A request begins, ends, or takes over a pair that was found, granted or enriched;
\* it does so outside the flight.
RequestMoves(p) ==
    /\ snap'[p] # snap[p] \/ cred'[p] # cred[p] => stage'[p] = "out"
    /\ \/ pc'[p] = "idle" /\ snap'[p] = NoPair /\ cred'[p] = NoPair
       \/ pc[p] = "idle" /\ snap'[p] = host /\ cred'[p] = newCredential(host)
       \/ /\ snap'[p] = snap[p]
          /\ pc'[p] # "idle" => pc[p] # "idle"
          /\ \/ cred'[p] = cred[p]
             \/ pc[p] # "idle" /\ cred'[p] = snap[p]
             \/ Told(p) /\ cred'[p] = outcome[p].pair
             \/ /\ cred'[p].at = cred[p].at /\ cred'[p].rt = cred[p].rt
                /\ cred'[p].exp = cred[p].exp
                /\ cred[p].id => cred'[p].id
                /\ "learnsId" \notin Faults => cred'[p].id = cred[p].id

\* An answer goes from the wire to its leader, and from the leader to those who wait.
AnswerMoves(p) ==
    /\ Granted(wire'[p]) => wire'[p] = wire[p] /\ slot'[p] = slot[p]
    /\ stage'[p] # "out" =>
           \/ stage[p] # "out" /\ slot'[p] = slot[p]
           \/ pc[p] # "idle" /\ stage'[p] = "entering" /\ slot'[p] = credentialKey(snap[p])
    /\ stage'[p] = "answered" => \/ stage[p] = "leading" /\ outcome'[p] = wire[p]
                                 \/ stage[p] = "answered" /\ outcome'[p] = outcome[p]
    /\ Told(p)' =>
           /\ slot'[p] = slot[p]
           /\ \/ stage[p] = "leading" /\ outcome'[p] = wire[p]
              \/ \E r \in Procs : Told(r) /\ slot[p] = slot[r] /\ outcome'[p] = outcome[r]

Travel == StoresMove /\ \A p \in Procs : RequestMoves(p) /\ AnswerMoves(p)

LEMMA TravelStep ==
  ASSUME CredInv, [Next]_vars, \A p \in Procs : ~GrantAccepted(p)
  PROVE  Travel
<1>0. /\ TypeOK /\ Single!FlightInv /\ Single!TypeOK /\ \A p \in Procs : InFlight(p)
  BY DEF CredInv, Single!FlightInv
<1> USE DEF upstream, stores, request
<1>1. ASSUME UNCHANGED flight, UNCHANGED wire  PROVE \A q \in Procs : AnswerMoves(q)
  BY <1>0, <1>1 DEF AnswerMoves, Told, flight
<1>2. ASSUME UNCHANGED <<live, issued, disk, host, cache>>  PROVE StoresMove
  BY <1>2 DEF StoresMove
<1>3. ASSUME NEW q \in Procs, cred'[q] = cred[q], snap'[q] = snap[q],
             pc'[q] # "idle" => pc[q] # "idle"
      PROVE  RequestMoves(q)
  BY <1>3 DEF RequestMoves
<1>4. ASSUME NEW p \in Procs, NEW k \in Operations, Receive(p, k)  PROVE Travel
  <2>1. /\ pc[p] = "idle" /\ stage[p] = "out"
        /\ snap' = [snap EXCEPT ![p] = host] /\ cred' = [cred EXCEPT ![p] = newCredential(host)]
        /\ \A q \in Procs \ {p} : pc'[q] = pc[q]
        /\ UNCHANGED <<live, issued, disk, host, cache, wire>> /\ UNCHANGED flight
    BY <1>0, <1>4 DEF Receive, InFlight, TypeOK
  <2>2. RequestMoves(p)
    BY <1>0, <2>1 DEF RequestMoves, TypeOK, flight
  <2>3. ASSUME NEW q \in Procs \ {p}  PROVE RequestMoves(q)
    BY <1>0, <1>3, <2>1 DEF TypeOK
  <2> QED  BY <1>1, <1>2, <2>1, <2>2, <2>3 DEF Travel
<1>5. ASSUME NEW p \in Procs, PrepareFresh(p) \/ Send(p) \/ GiveUp(p) \/ HandOver(p)
      PROVE  Travel
  <2>1. /\ pc[p] # "idle" /\ \A q \in Procs \ {p} : pc'[q] = pc[q]
        /\ UNCHANGED <<live, issued, disk, host, cache, wire, snap, cred>> /\ UNCHANGED flight
    BY <1>0, <1>5 DEF PrepareFresh, Send, GiveUp, HandOver, TypeOK
  <2> QED  BY <1>1, <1>2, <1>3, <2>1 DEF Travel
<1>6. ASSUME NEW p \in Procs, PrepareRefresh(p)  PROVE Travel
  <2>1. /\ pc[p] = "prepare" /\ stage[p] = "out" /\ stage' = [stage EXCEPT ![p] = "entering"]
        /\ slot' = [slot EXCEPT ![p] = credentialKey(snap[p])]
        /\ \A q \in Procs \ {p} : pc'[q] = pc[q]
        /\ UNCHANGED <<live, issued, disk, host, cache, wire, snap, cred, outcome>>
    BY <1>0, <1>6 DEF PrepareRefresh, Flight!Call, TypeOK
  <2>2. wire[p] = None
    BY <1>0, <2>1 DEF InFlight
  <2>3. ASSUME NEW q \in Procs  PROVE AnswerMoves(q)
    BY <1>0, <2>1, <2>2 DEF AnswerMoves, Told, Granted, Single!TypeOK
  <2> QED  BY <1>2, <1>3, <2>1, <2>3 DEF Travel
<1>7. ASSUME NEW p \in Procs, LeadFlight(p) \/ JoinFlight(p) \/ UnregisterFlight(p)
      PROVE  Travel
  <2>1. /\ \/ /\ stage[p] = "entering"
              /\ \E s \in {"leading", "waiting"} : stage' = [stage EXCEPT ![p] = s]
           \/ stage[p] = "answered" /\ stage' = [stage EXCEPT ![p] = "unregistered"]
        /\ UNCHANGED <<pc, live, issued, disk, host, cache, wire, snap, cred, slot, outcome>>
    BY <1>7 DEF LeadFlight, JoinFlight, UnregisterFlight, Flight!Lead, Flight!Join,
                Flight!Unregister
  <2>2. ASSUME NEW q \in Procs  PROVE AnswerMoves(q)
    BY <1>0, <2>1 DEF AnswerMoves, Told, Single!TypeOK
  <2> QED  BY <1>2, <1>3, <2>1, <2>2 DEF Travel
<1>8. ASSUME NEW p \in Procs, GrantFailed(p)  PROVE Travel
  <2>1. /\ UNCHANGED <<pc, live, issued, disk, host, cache, snap, cred>> /\ UNCHANGED flight
        /\ ~Granted(wire'[p]) /\ \A q \in Procs \ {p} : wire'[q] = wire[q]
    BY <1>0, <1>8 DEF GrantFailed, TypeOK, Granted, Error
  <2>2. ASSUME NEW q \in Procs  PROVE AnswerMoves(q)
    BY <1>0, <2>1 DEF AnswerMoves, Told, flight
  <2> QED  BY <1>2, <1>3, <2>1, <2>2 DEF Travel
<1>9. ASSUME NEW p \in Procs, AnswerFlight(p)  PROVE Travel
  <2>1. /\ stage[p] = "leading" /\ stage' = [stage EXCEPT ![p] = "answered"]
        /\ outcome' = [outcome EXCEPT ![p] = wire[p]] /\ wire' = [wire EXCEPT ![p] = None]
        /\ wire[p] # None /\ UNCHANGED slot
        /\ UNCHANGED <<pc, live, issued, disk, host, snap, cred>>
    BY <1>9 DEF AnswerFlight, Flight!Answer
  <2>2. \A k \in Keys : cache'[k] # cache[k] =>
            Granted(wire[p]) /\ cache'[k] = wire[p].pair /\ k = credentialKey(cache'[k])
    BY <1>0, <1>9 DEF AnswerFlight, Granted, TypeOK
  <2>3. ASSUME NEW q \in Procs  PROVE AnswerMoves(q)
    BY <1>0, <2>1 DEF AnswerMoves, Told, Single!TypeOK, TypeOK, Granted
  <2>4. StoresMove
    BY <2>1, <2>2 DEF StoresMove
  <2> QED  BY <1>3, <2>1, <2>3, <2>4 DEF Travel
<1>10. ASSUME NEW p \in Procs, ReleaseFlight(p)  PROVE Travel
  <2>1. /\ stage[p] = "unregistered"
        /\ UNCHANGED <<pc, live, issued, disk, host, cache, snap, cred, wire, slot>>
        /\ \A q \in Procs :
              \/ /\ q = p \/ (stage[q] = "waiting" /\ joined[q] = p)
                 /\ stage'[q] = "released" /\ outcome'[q] = outcome[p]
              \/ stage'[q] = stage[q] /\ outcome'[q] = outcome[q]
    BY <1>10 DEF ReleaseFlight, Flight!Release, Flight!Party
  <2>2. ASSUME NEW q \in Procs  PROVE AnswerMoves(q)
    <3>1. stage[q] = "waiting" /\ joined[q] = p => slot[q] = slot[p]
      BY <1>0 DEF Single!FlightInv, Single!WaitersAreAwaited
    <3> QED  BY <1>0, <2>1, <3>1 DEF AnswerMoves, Told, Single!TypeOK
  <2> QED  BY <1>2, <1>3, <2>1, <2>2 DEF Travel
<1>11. ASSUME NEW p \in Procs, stage[p] = "released", Flight!Return(p), UNCHANGED wire
       PROVE  /\ stage'[p] = "out" /\ \A q \in Procs : AnswerMoves(q)
  BY <1>0, <1>11 DEF Flight!Return, AnswerMoves, Told, Granted, Single!TypeOK
<1>12. ASSUME NEW p \in Procs, Apply(p)  PROVE Travel
  <2>1. /\ pc[p] = "flight" /\ stage[p] = "released" /\ Flight!Return(p)
        /\ cred' = [cred EXCEPT ![p] = outcome[p].pair]
        /\ outcome[p].why = "ok" /\ pc'[p] # "idle"
        /\ UNCHANGED <<live, issued, disk, host, snap, wire>>
        /\ \A q \in Procs \ {p} : pc'[q] = pc[q]
        /\ \A k \in Keys : cache'[k] # cache[k] =>
              cache'[k] = outcome[p].pair /\ k = credentialKey(cache'[k])
    BY <1>0, <1>12 DEF Apply, TypeOK
  <2>2. Granted(outcome[p])
    BY <1>0, <2>1, DataAssumption DEF Single!FlightInv, Single!AnswerKnown, Granted
  <2>3. cred'[p] = outcome[p].pair
    BY <1>0, <2>1 DEF TypeOK
  <2>4. StoresMove
    BY <2>1, <2>3 DEF StoresMove
  <2>5. RequestMoves(p)
    BY <1>11, <2>1, <2>2, <2>3 DEF RequestMoves, Told
  <2>6. ASSUME NEW q \in Procs \ {p}  PROVE RequestMoves(q)
    BY <1>0, <1>3, <2>1 DEF TypeOK
  <2> QED  BY <1>11, <2>1, <2>4, <2>5, <2>6 DEF Travel
<1>13. ASSUME NEW p \in Procs, Defer(p) \/ Fail(p)  PROVE Travel
  <2>1. /\ pc[p] = "flight" /\ stage[p] = "released" /\ Flight!Return(p)
        /\ UNCHANGED <<live, issued, disk, host, cache, snap, wire>>
        /\ \A q \in Procs \ {p} : pc'[q] = pc[q] /\ cred'[q] = cred[q]
        /\ cred'[p] \in {cred[p], snap[p]}
    BY <1>0, <1>13 DEF Defer, Fail, TypeOK
  <2>2. RequestMoves(p)
    BY <1>11, <2>1 DEF RequestMoves
  <2> QED  BY <1>2, <1>3, <1>11, <2>1, <2>2 DEF Travel
<1>14. ASSUME NEW p \in Procs, Persist(p)  PROVE Travel
  <2>1. /\ pc[p] # "idle" /\ disk' \in {cred[p], disk}
        /\ \A q \in Procs : pc'[q] # "idle" => pc[q] # "idle"
        /\ UNCHANGED <<live, issued, host, cache, snap, cred, wire>> /\ UNCHANGED flight
    BY <1>0, <1>14 DEF Persist, TypeOK
  <2>2. StoresMove
    BY <2>1 DEF StoresMove
  <2> QED  BY <1>1, <1>3, <2>1, <2>2 DEF Travel
<1>15. ASSUME NEW p \in Procs, Enrich(p)  PROVE Travel
  <2>1. PICK id \in {cred[p].id} \union {"learnsId" \in Faults /\ Valid(cred[p])} :
            LET sa == [cred[p] EXCEPT !.id = id \/ @]
            IN  /\ cred' = [cred EXCEPT ![p] = sa]
                /\ cache' = [cache EXCEPT ![credentialKey(sa)] = sa]
    BY <1>15 DEF Enrich
  <2>2. /\ pc[p] = "ready" /\ pc' = [pc EXCEPT ![p] = "save"] /\ stage[p] = "out"
        /\ UNCHANGED <<live, issued, disk, host, snap, wire>> /\ UNCHANGED flight
    BY <1>0, <1>15 DEF Enrich, InFlight
  <2>3. cred[p] \in Pairs
    BY <1>0 DEF TypeOK
  <2>4. /\ cred'[p] = [cred[p] EXCEPT !.id = id \/ @]
        /\ \A q \in Procs \ {p} : cred'[q] = cred[q]
        /\ \A k \in Keys : cache'[k] # cache[k] =>
              cache'[k] = cred'[p] /\ k = credentialKey(cache'[k])
    BY <1>0, <2>1 DEF TypeOK
  <2>5. /\ cred'[p].at = cred[p].at /\ cred'[p].rt = cred[p].rt
        /\ cred'[p].exp = cred[p].exp
        /\ cred[p].id => cred'[p].id
        /\ "learnsId" \notin Faults => cred'[p].id = cred[p].id
    BY <2>3, <2>4 DEF Pairs
  <2>6. StoresMove
    BY <1>0, <2>2, <2>4 DEF StoresMove, TypeOK
  <2>7. RequestMoves(p)
    BY <2>2, <2>5 DEF RequestMoves, flight
  <2>8. ASSUME NEW q \in Procs \ {p}  PROVE RequestMoves(q)
    BY <1>0, <1>3, <2>2, <2>4 DEF TypeOK
  <2> QED  BY <1>1, <2>2, <2>6, <2>7, <2>8 DEF Travel
<1>16. ASSUME NEW p \in Procs, Deliver(p)  PROVE Travel
  <2>1. /\ pc[p] = "done" /\ pc' = [pc EXCEPT ![p] = "idle"] /\ host' \in {cred[p], host}
        /\ snap' = [snap EXCEPT ![p] = NoPair] /\ cred' = [cred EXCEPT ![p] = NoPair]
        /\ UNCHANGED <<live, issued, disk, cache, wire>> /\ UNCHANGED flight
    BY <1>16 DEF Deliver
  <2>2. stage[p] = "out"
    BY <1>0, <2>1 DEF InFlight
  <2>3. StoresMove
    BY <2>1 DEF StoresMove
  <2>4. RequestMoves(p)
    BY <1>0, <2>1, <2>2 DEF RequestMoves, TypeOK, flight
  <2>5. ASSUME NEW q \in Procs \ {p}  PROVE RequestMoves(q)
    BY <1>0, <1>3, <2>1 DEF TypeOK
  <2> QED  BY <1>1, <2>1, <2>3, <2>4, <2>5 DEF Travel
<1>17. CASE HostReload \/ Tick \/ Revoke \/ UNCHANGED vars
  <2>1. /\ UNCHANGED <<pc, live, issued, disk, cache, snap, cred, wire>> /\ UNCHANGED flight
        /\ host' \in {host, disk}
    BY <1>17 DEF HostReload, Tick, Revoke, vars
  <2>2. StoresMove
    BY <2>1 DEF StoresMove
  <2> QED  BY <1>1, <1>3, <2>1, <2>2 DEF Travel
<1>18. CASE Restart
  <2>1. StoresMove
    BY <1>18 DEF Restart, StoresMove
  <2>2. ASSUME NEW q \in Procs  PROVE RequestMoves(q) /\ AnswerMoves(q)
    BY <1>0, <1>18 DEF Restart, RequestMoves, AnswerMoves, Told, Granted
  <2> QED  BY <2>1, <2>2 DEF Travel
<1> QED
  BY <1>4, <1>5, <1>6, <1>7, <1>8, <1>9, <1>10, <1>12, <1>13, <1>14, <1>15, <1>16, <1>17, <1>18
  DEF Next, Work, FlightWork

-----------------------------------------------------------------------------
(* Who waits, waits for something no older than what it has *)

Onward(p) ==
    /\ Told(p) /\ stage[p] # "answered" => cred[p].at <= outcome[p].pair.at
    /\ stage[p] = "waiting" /\ stage[joined[p]] = "unregistered" /\ Told(joined[p]) =>
           cred[p].at <= outcome[joined[p]].pair.at

\* A leader that unregisters brings nothing older than what its party has.
Brings(p) ==
    stage[p] = "answered" /\ Told(p) =>
        \A q \in Procs : q = p \/ (stage[q] = "waiting" /\ joined[q] = p) =>
            cred[q].at <= outcome[p].pair.at

LEMMA InitOnward == Init => \A p \in Procs : Onward(p)
  BY DEF Init, Onward, Told

\* Once a flight has unregistered, nobody joins it, and whoever is in it keeps its pair.
LEMMA OnwardStep ==
  ASSUME CredInv, [Next]_vars, \A p \in Procs : Onward(p) /\ Brings(p) /\ RequestMoves(p),
         NEW q \in Procs
  PROVE  Onward(q)'
<1>0. /\ TypeOK /\ Single!FlightInv /\ Single!TypeOK
      /\ Onward(q) /\ \A p \in Procs : Onward(p) /\ Brings(p)
  BY DEF CredInv, Single!FlightInv
<1> SUFFICES ASSUME stage'[q] # "out"  PROVE Onward(q)'
  BY DEF Onward, Told
<1>1. cred'[q] = cred[q]
  BY DEF RequestMoves
<1>2. stage[q] = "waiting" =>
          /\ joined[q] \in Procs /\ slot[joined[q]] = slot[q]
          /\ stage[joined[q]] \in {"leading", "answered", "unregistered"}
  BY <1>0 DEF Single!FlightInv, Single!WaitersAreAwaited, Single!OpenStages
<1>3. CASE Restart
  BY <1>3 DEF Restart
<1>4. CASE UNCHANGED flight
  BY <1>0, <1>1, <1>4 DEF Onward, Told, flight
<1>5. ASSUME NEW p \in Procs, NEW k \in Keys, Single!Call(p, k)  PROVE Onward(q)'
  <2>1. stage[p] = "out" /\ stage' = [stage EXCEPT ![p] = "entering"]
        /\ UNCHANGED <<joined, outcome>>
    BY <1>5 DEF Single!Call
  <2>2. CASE q = p
    BY <1>0, <2>1, <2>2 DEF Onward, Told, Single!TypeOK
  <2>3. CASE q # p
    BY <1>0, <1>1, <1>2, <2>1, <2>3 DEF Onward, Told, Single!TypeOK
  <2> QED  BY <2>2, <2>3
<1>6. ASSUME NEW p \in Procs, Single!Lead(p) \/ Single!Join(p)  PROVE Onward(q)'
  <2>1. /\ stage[p] = "entering" /\ UNCHANGED outcome
        /\ \/ stage' = [stage EXCEPT ![p] = "leading"]
           \/ /\ stage' = [stage EXCEPT ![p] = "waiting"]
              /\ joined'[p] = calls[slot[p]] /\ calls[slot[p]] # None
        /\ \A r \in Procs \ {p} : joined'[r] = joined[r]
    BY <1>0, <1>6 DEF Single!Lead, Single!Join, Single!TypeOK
  <2>2. CASE q # p
    BY <1>0, <1>1, <1>2, <2>1, <2>2 DEF Onward, Told, Single!TypeOK
  <2>3. CASE q = p /\ stage'[p] = "leading"
    BY <2>3 DEF Onward, Told
  <2>4. CASE q = p /\ stage'[p] = "waiting"
    <3>1. /\ joined'[p] = calls[slot[p]] /\ calls[slot[p]] \in Procs \ {p}
          /\ stage[calls[slot[p]]] \in {"leading", "answered"}
      BY <1>0, <2>1, <2>4 DEF Single!TypeOK, Single!FlightInv, Single!NoOrphanRegistration
    <3>2. stage'[joined'[p]] # "unregistered"
      BY <1>0, <2>1, <2>4, <3>1 DEF Single!TypeOK
    <3> QED  BY <2>4, <3>2 DEF Onward, Told
  <2> QED  BY <1>0, <2>1, <2>2, <2>3, <2>4 DEF Single!TypeOK
<1>7. ASSUME NEW p \in Procs, NEW o \in Outcomes, Single!Answer(p, o)  PROVE Onward(q)'
  <2>1. /\ stage[p] = "leading" /\ stage' = [stage EXCEPT ![p] = "answered"]
        /\ outcome' = [outcome EXCEPT ![p] = o] /\ UNCHANGED joined
    BY <1>7 DEF Single!Answer
  <2> QED  BY <1>0, <1>1, <1>2, <2>1 DEF Onward, Told, Single!TypeOK
<1>8. ASSUME NEW p \in Procs, Single!Unregister(p)  PROVE Onward(q)'
  <2>1. /\ stage[p] = "answered" /\ stage' = [stage EXCEPT ![p] = "unregistered"]
        /\ UNCHANGED <<joined, outcome>>
    BY <1>8 DEF Single!Unregister
  <2>2. CASE q = p
    BY <1>0, <1>1, <2>1, <2>2 DEF Onward, Brings, Told, Single!TypeOK
  <2>3. CASE q # p
    <3>1. stage'[q] = stage[q]
      BY <1>0, <2>1, <2>3 DEF Single!TypeOK
    <3>2. stage[q] = "waiting" /\ joined[q] # p => stage'[joined[q]] = stage[joined[q]]
      BY <1>0, <1>2, <2>1 DEF Single!TypeOK
    <3> QED  BY <1>0, <1>1, <2>1, <2>3, <3>1, <3>2 DEF Onward, Brings, Told
  <2> QED  BY <2>2, <2>3
<1>9. ASSUME NEW p \in Procs, Single!Release(p)  PROVE Onward(q)'
  <2>1. /\ stage[p] = "unregistered" /\ UNCHANGED joined
        /\ \A r \in Procs :
              \/ /\ r = p \/ (stage[r] = "waiting" /\ joined[r] = p)
                 /\ stage'[r] = "released" /\ outcome'[r] = outcome[p]
              \/ /\ r # p /\ ~(stage[r] = "waiting" /\ joined[r] = p)
                 /\ stage'[r] = stage[r] /\ outcome'[r] = outcome[r]
    BY <1>9 DEF Single!Release, Single!Party
  <2>2. Told(q)' /\ stage'[q] # "answered" => cred'[q].at <= outcome'[q].pair.at
    BY <1>0, <1>1, <2>1 DEF Onward, Told
  <2>3. ASSUME stage'[q] = "waiting", stage'[joined'[q]] = "unregistered", Told(joined[q])'
        PROVE  cred'[q].at <= outcome'[joined'[q]].pair.at
    <3>1. stage[q] = "waiting" /\ joined'[q] = joined[q]
      BY <2>1, <2>3
    <3>2. stage[joined[q]] = "unregistered" /\ outcome'[joined[q]] = outcome[joined[q]]
      BY <1>2, <2>1, <2>3, <3>1
    <3> QED  BY <1>0, <1>1, <2>3, <3>1, <3>2 DEF Onward, Told
  <2> QED  BY <2>2, <2>3 DEF Onward
<1>10. ASSUME NEW p \in Procs, Single!Return(p)  PROVE Onward(q)'
  <2>1. /\ stage[p] = "released" /\ stage' = [stage EXCEPT ![p] = "out"]
        /\ \A r \in Procs \ {p} : joined'[r] = joined[r] /\ outcome'[r] = outcome[r]
    BY <1>0, <1>10 DEF Single!Return, Single!TypeOK
  <2>2. q # p
    BY <1>0, <2>1 DEF Single!TypeOK
  <2> QED  BY <1>0, <1>1, <1>2, <2>1, <2>2 DEF Onward, Told, Single!TypeOK
<1>11. CASE ~Restart /\ ~UNCHANGED flight
  <2>1. Single!Next
    BY <1>0, <1>11, FlightMoves DEF Single!vars, flight
  <2> QED  BY <1>5, <1>6, <1>7, <1>8, <1>9, <1>10, <2>1 DEF Single!Next, Single!Work
<1> QED  BY <1>3, <1>4, <1>11

-----------------------------------------------------------------------------
(* An account that goes by one name *)

\* As long as no answer teaches the plugin an account id, all there is of the account
\* goes by one name, so one key stands for it.
Names(p) ==
    /\ pc[p] # "idle" => snap[p].id = disk.id /\ cred[p].id = disk.id
    /\ stage[p] # "out" => slot[p] = credentialKey(disk)
    /\ Granted(wire[p]) => wire[p].pair.id = disk.id
    /\ Told(p) => outcome[p].pair.id = disk.id

\* Nothing is newer than what was issued, and what the one leader brings is that.
Seen(p) ==
    /\ cred[p].at <= issued /\ snap[p].at <= issued
    /\ Granted(wire[p]) => wire[p].pair.at = issued
    /\ Told(p) => outcome[p].pair.at <= issued
    /\ Told(p) /\ stage[p] = "answered" => outcome[p].pair.at = issued

Stored ==
    /\ host.id = disk.id /\ disk.at <= issued /\ host.at <= issued
    /\ \A k \in Keys : cache[k].at <= issued /\ (cache[k] = NoPair \/ cache[k].id = disk.id)

OneName == Stored /\ \A p \in Procs : Names(p) /\ Seen(p)

LEMMA InitOneName == Init => OneName
<1> SUFFICES ASSUME Init  PROVE OneName
  OBVIOUS
<1>1. Stored
  BY DataAssumption DEF Init, Stored, NoPair
<1>2. ASSUME NEW p \in Procs  PROVE Names(p) /\ Seen(p)
  BY <1>2 DEF Init, NoRequest, Names, Seen, Told, Granted, NoPair
<1> QED  BY <1>1, <1>2 DEF OneName

LEMMA NewCredentialKnown ==
  ASSUME TypeOK, Stored
  PROVE  newCredential(host).id = disk.id /\ newCredential(host).at <= issued
<1>1. credentialKey(host) \in Keys
  BY DEF credentialKey, Keys
<1>2. host.exp \in Nat
  BY BoundsAssumption DEF TypeOK, Pairs
<1>3. cache[credentialKey(host)].exp > host.exp => cache[credentialKey(host)] # NoPair
  BY <1>2 DEF NoPair
<1> QED  BY <1>1, <1>3 DEF newCredential, Stored

LEMMA OneNameTravels ==
  ASSUME CredInv, OneName, Travel, "learnsId" \notin Faults
  PROVE  OneName'
<1>0. /\ TypeOK /\ \A p \in Procs : InFlight(p)
      /\ Stored /\ \A p \in Procs : Names(p) /\ Seen(p) /\ RequestMoves(p) /\ AnswerMoves(p)
      /\ StoresMove
  BY DEF CredInv, OneName, Travel
<1>1. issued' = issued /\ issued \in Nat /\ 0 <= issued /\ NoPair.at = 0
  BY <1>0, BoundsAssumption DEF StoresMove, TypeOK, NoPair
<1>2. disk'.id = disk.id /\ host'.id = disk.id /\ disk'.at <= issued /\ host'.at <= issued
  BY <1>0 DEF StoresMove, Stored, Names, Seen
<1>3. credentialKey(disk)' = credentialKey(disk)
  BY <1>2 DEF credentialKey
<1>4. newCredential(host).id = disk.id /\ newCredential(host).at <= issued
  BY <1>0, NewCredentialKnown
<1>5. ASSUME NEW p \in Procs
      PROVE  /\ pc'[p] # "idle" => snap'[p].id = disk.id /\ cred'[p].id = disk.id
             /\ cred'[p].at <= issued /\ snap'[p].at <= issued
  <2>1. pc[p] = "idle" => stage[p] = "out"
    BY <1>0 DEF InFlight
  <2> QED  BY <1>0, <1>1, <1>4, <2>1 DEF RequestMoves, Stored, Names, Seen, Told
<1>6. ASSUME NEW p \in Procs  PROVE Names(p)' /\ Seen(p)'
  <2>1. Granted(wire'[p]) => wire'[p].pair.id = disk.id /\ wire'[p].pair.at = issued
    BY <1>0 DEF AnswerMoves, Names, Seen
  <2>2. stage'[p] # "out" => slot'[p] = credentialKey(disk)
    BY <1>0 DEF AnswerMoves, Names, credentialKey
  <2>3. Told(p)' => outcome'[p].pair.id = disk.id /\ outcome'[p].pair.at <= issued
    BY <1>0, <1>1 DEF AnswerMoves, Names, Seen, Told
  <2>4. Told(p)' /\ stage'[p] = "answered" => outcome'[p].pair.at = issued
    BY <1>0 DEF AnswerMoves, Seen, Told
  <2> QED  BY <1>1, <1>2, <1>3, <1>5, <2>1, <2>2, <2>3, <2>4 DEF Names, Seen
<1>7. ASSUME NEW k \in Keys
      PROVE  cache'[k].at <= issued /\ (cache'[k] = NoPair \/ cache'[k].id = disk.id)
  BY <1>0, <1>1, <1>5 DEF StoresMove, Stored, Names, Seen
<1> QED  BY <1>1, <1>2, <1>6, <1>7 DEF OneName, Stored

\* At most one process has an answer under way or in hand and is still registered.
LEMMA OneLeader ==
  ASSUME CredInv, NEW p \in Procs, stage[p] \in {"leading", "answered"},
         NEW q \in Procs, stage[q] \in {"leading", "answered"}, slot[p] = slot[q]
  PROVE  p = q
  BY DEF CredInv, Single!FlightInv, Single!Registered

\* What a grant Cline accepts makes of the leader's credential.
LEMMA GrantStep ==
  ASSUME CredInv, NEW p \in Procs, GrantAccepted(p)
  PROVE  /\ stage[p] = "leading" /\ wire[p] = None /\ cred[p].rt = live
         /\ issued \in Nat /\ issued' = issued + 1 /\ now' = now + 1
         /\ UNCHANGED <<pc, disk, host, cache, snap, cred, flight>>
         /\ \A q \in Procs \ {p} : wire'[q] = wire[q]
         /\ "noRotate" \notin Faults => live' = issued + 1
         /\ Granted(wire'[p]) =>
               /\ wire'[p].pair.at = issued + 1
               /\ "noRotate" \notin Faults => wire'[p].pair.rt = issued + 1
               /\ wire'[p].pair.exp \in {now' + Life, now' + FallbackLife}
               /\ cred[p].id => wire'[p].pair.id
               /\ "learnsId" \notin Faults => wire'[p].pair.id = cred[p].id
<1>0. TypeOK /\ issued \in Nat /\ cred[p] \in Pairs /\ cred[p].id \in BOOLEAN
  BY BoundsAssumption DEF CredInv, TypeOK, Pairs
<1>1. PICK keeps \in {FALSE} \union {"noRotate" \in Faults},
           life \in {Life} \union (IF "noExpiry" \in Faults THEN {FallbackLife} ELSE {}),
           knowsId \in {FALSE} \union {"learnsId" \in Faults},
           delivered \in {TRUE} \union {"lostReply" \notin Faults} :
             /\ live' = (IF keeps THEN live ELSE issued + 1)
             /\ wire' = [wire EXCEPT ![p] =
                   IF delivered
                   THEN [why |-> "ok", pair |-> Rotated(cred[p], issued + 1, keeps, life, knowsId)]
                   ELSE Error("transport")]
  BY Zenon DEF GrantAccepted
<1>2. knowsId \in BOOLEAN /\ ("learnsId" \notin Faults => knowsId = FALSE)
  <2>1. knowsId = FALSE \/ knowsId = ("learnsId" \in Faults)
    OBVIOUS
  <2>2. ("learnsId" \in Faults) \in BOOLEAN
    OBVIOUS
  <2> QED  BY <2>1, <2>2
<1>3. "noRotate" \notin Faults => keeps = FALSE
  <2>1. keeps = FALSE \/ keeps = ("noRotate" \in Faults)
    OBVIOUS
  <2>2. ("noRotate" \in Faults) \in BOOLEAN
    OBVIOUS
  <2> QED  BY <2>1, <2>2
<1>4. /\ stage[p] = "leading" /\ wire[p] = None /\ cred[p].rt = live /\ issued' = issued + 1
      /\ now' = now + 1
      /\ UNCHANGED <<pc, disk, host, cache, snap, cred, flight>>
  BY DEF GrantAccepted, stores, request
<1>5. \A q \in Procs \ {p} : wire'[q] = wire[q]
  BY <1>0, <1>1 DEF TypeOK
<1> DEFINE pair == Rotated(cred[p], issued + 1, keeps, life, knowsId)
<1>6. /\ pair.at = issued + 1
      /\ "noRotate" \notin Faults => pair.rt = issued + 1
      /\ pair.exp \in {now' + Life, now' + FallbackLife}
  BY <1>3, <1>4 DEF Rotated
<1>7. /\ cred[p].id => pair.id
      /\ "learnsId" \notin Faults => pair.id = cred[p].id
  BY <1>0, <1>2 DEF Rotated
<1>8. ASSUME Granted(wire'[p])  PROVE wire'[p].pair = pair
  <2>1. wire'[p] = IF delivered THEN [why |-> "ok", pair |-> pair] ELSE Error("transport")
    BY <1>0, <1>1 DEF TypeOK
  <2>2. Error("transport").why # "ok"
    BY DEF Error
  <2>3. delivered
    BY <1>8, <2>1, <2>2 DEF Granted
  <2> QED  BY <2>1, <2>3
<1> QED  BY <1>0, <1>1, <1>3, <1>4, <1>5, <1>6, <1>7, <1>8

LEMMA OneNameStep ==
  ASSUME "learnsId" \notin Faults
  PROVE  CredInv /\ OneName /\ [Next]_vars => OneName'
<1> SUFFICES ASSUME CredInv, OneName, [Next]_vars
             PROVE  OneName'
  OBVIOUS
<1>1. CASE \A p \in Procs : ~GrantAccepted(p)
  BY <1>1, TravelStep, OneNameTravels
<1>2. ASSUME NEW p \in Procs, GrantAccepted(p)  PROVE OneName'
  <2>0. /\ TypeOK /\ Single!TypeOK /\ \A q \in Procs : InFlight(q)
        /\ Stored /\ \A q \in Procs : Names(q) /\ Seen(q)
    BY DEF CredInv, OneName, Single!FlightInv
  <2>1. /\ stage[p] = "leading" /\ wire[p] = None
        /\ issued \in Nat /\ issued' = issued + 1
        /\ UNCHANGED <<pc, disk, host, cache, snap, cred, flight>>
        /\ \A q \in Procs \ {p} : wire'[q] = wire[q]
        /\ Granted(wire'[p]) => /\ wire'[p].pair.at = issued + 1
                                /\ wire'[p].pair.id = cred[p].id
    BY <1>2, GrantStep
  <2>2. Granted(wire'[p]) => wire'[p].pair.id = disk.id
    BY <2>0, <2>1 DEF InFlight, Names
  <2>3. ASSUME NEW q \in Procs \ {p}
        PROVE  ~Granted(wire[q]) /\ stage[q] # "answered"
    BY <2>0, <2>1, OneLeader DEF InFlight, Names, Granted
  <2>4. /\ \A q \in Procs : cred[q].at <= issued + 1 /\ snap[q].at <= issued + 1
        /\ \A q \in Procs : Told(q) => outcome[q].pair.at <= issued + 1
        /\ disk.at <= issued + 1 /\ host.at <= issued + 1
        /\ \A k \in Keys : cache[k].at <= issued + 1
    <3>1. ASSUME NEW n \in 0..MaxGrants, n <= issued  PROVE n <= issued + 1
      BY <2>1, <3>1, BoundsAssumption
    <3>2. ASSUME NEW q \in Procs, Told(q)  PROVE outcome[q].pair \in Pairs
      BY <2>0, <3>2, NoPairTyped DEF Single!TypeOK, Outcomes, Granted, Told
    <3> QED  BY <2>0, <3>1, <3>2 DEF Seen, Stored, TypeOK, Pairs
  <2>5. ASSUME NEW q \in Procs  PROVE Names(q)' /\ Seen(q)'
    <3>1. UNCHANGED <<pc, disk, snap, cred, stage, slot, outcome>> /\ issued' = issued + 1
      BY <2>1 DEF flight
    <3>2. Names(q)'
      BY <2>0, <2>1, <2>2, <3>1 DEF Names, Granted, Told, credentialKey
    <3>3. Granted(wire'[q]) => wire'[q].pair.at = issued'
      BY <2>1, <2>3
    <3>4. stage[q] # "answered"
      BY <2>1, <2>3
    <3> QED  BY <2>4, <3>1, <3>2, <3>3, <3>4 DEF Seen, Granted, Told
  <2> QED  BY <2>0, <2>1, <2>4, <2>5 DEF OneName, Stored
<1> QED  BY <1>1, <1>2

LEMMA OneNameBrings ==
  ASSUME OneName, NEW p \in Procs
  PROVE  Brings(p)
  BY DEF OneName, Seen, Brings

-----------------------------------------------------------------------------
(* An account that learns its id, with refresh tokens that rotate *)

\* Both tokens of a pair come from one grant; only a file found at start may lack one.
Known(sa) == (sa.rt = sa.at \/ (sa.rt <= 1 /\ sa.at <= 1)) /\ sa.at <= issued

Kept == live = issued /\ Known(disk) /\ Known(host) /\ \A k \in Keys : Known(cache[k])

Borne(p) ==
    /\ Known(snap[p]) /\ Known(cred[p])
    /\ Granted(wire[p]) => Known(wire[p].pair) /\ wire[p].pair.at >= 2
    /\ Told(p) => Known(outcome[p].pair) /\ outcome[p].pair.at >= 2

\* A name once known is not forgotten: what comes from a snapshot or a flight that has
\* the id has it too, so under "email" there are only nameless snapshots.
KeysFit ==
    /\ ~cache["email"].id
    /\ cache["id"] # NoPair => cache["id"].id

Fits(p) ==
    /\ snap[p].id => cred[p].id
    /\ stage[p] # "out" => slot[p] = credentialKey(snap[p])
    /\ slot[p] = "id" /\ Granted(wire[p]) => wire[p].pair.id
    /\ slot[p] = "id" /\ Told(p) => outcome[p].pair.id

\* Whatever the account is known by the email for is no newer than n.
Nameless(n) ==
    /\ ~disk.id => disk.at <= n
    /\ ~host.id => host.at <= n
    /\ cache["email"].at <= n
    /\ \A q \in Procs :
          /\ ~snap[q].id => snap[q].at <= n /\ cred[q].at <= n
          /\ slot[q] = "email" /\ Granted(wire[q]) => wire[q].pair.at <= n
          /\ slot[q] = "email" /\ Told(q) => outcome[q].pair.at <= n

\* A pair a leader brings is newer than anything of the other name, if it is known by
\* the id, and no older than anything of its own.
Leads(p, n) ==
    IF slot[p] = "id" THEN n = issued /\ Nameless(n - 1) ELSE Nameless(n)

Ahead(p) ==
    /\ Granted(wire[p]) => Leads(p, wire[p].pair.at)
    /\ stage[p] = "answered" /\ Told(p) => Leads(p, outcome[p].pair.at)

TwoNames == Kept /\ KeysFit /\ \A p \in Procs : Borne(p) /\ Fits(p) /\ Ahead(p)

LEMMA InitTwoNames == Init => TwoNames
<1> SUFFICES ASSUME Init  PROVE TwoNames
  OBVIOUS
<1>1. Kept /\ KeysFit
  BY DataAssumption DEF Init, Kept, KeysFit, Known, NoPair, Keys
<1>2. ASSUME NEW p \in Procs  PROVE Borne(p) /\ Fits(p) /\ Ahead(p)
  BY DEF Init, NoRequest, Borne, Fits, Ahead, Known, Told, Granted, NoPair
<1> QED  BY <1>1, <1>2 DEF TwoNames

LEMMA FoundInStores ==
  ASSUME TypeOK, KeysFit
  PROVE  /\ \/ newCredential(host) = host
            \/ /\ newCredential(host) = cache[credentialKey(host)]
               /\ cache[credentialKey(host)] # NoPair
         /\ host.id => newCredential(host).id
         /\ ~host.id => newCredential(host) \in {host, cache["email"]}
<1>1. host.exp \in Nat
  BY BoundsAssumption DEF TypeOK, Pairs
<1>2. cache[credentialKey(host)].exp > host.exp => cache[credentialKey(host)] # NoPair
  BY <1>1 DEF NoPair
<1> QED  BY <1>2 DEF newCredential, credentialKey, KeysFit

LEMMA KnownTravels ==
  ASSUME CredInv, TwoNames, Travel
  PROVE  Kept' /\ \A p \in Procs : Borne(p)'
<1>0. /\ TypeOK /\ Kept /\ \A p \in Procs : Borne(p) /\ RequestMoves(p) /\ AnswerMoves(p)
      /\ StoresMove
  BY DEF CredInv, TwoNames, Travel
<1>1. issued' = issued /\ live' = live /\ \A sa : Known(sa)' <=> Known(sa)
  BY <1>0 DEF StoresMove, Known
<1>2. Known(NoPair) /\ Known(newCredential(host))
  <2>1. Known(NoPair)
    BY <1>0, BoundsAssumption DEF TypeOK, Known, NoPair
  <2>2. credentialKey(host) \in Keys
    BY DEF credentialKey, Keys
  <2> QED  BY <1>0, <2>1, <2>2 DEF newCredential, Kept
<1>3. ASSUME NEW p \in Procs  PROVE Known(snap'[p]) /\ Known(cred'[p])
  <2>1. cred'[p].at = cred[p].at /\ cred'[p].rt = cred[p].rt => Known(cred'[p])
    BY <1>0 DEF Borne, Known
  <2> QED  BY <1>0, <1>2, <2>1 DEF RequestMoves, Borne, Kept
<1>4. ASSUME NEW p \in Procs  PROVE Borne(p)'
  <2>1. Granted(wire'[p]) => Known(wire'[p].pair) /\ wire'[p].pair.at >= 2
    BY <1>0 DEF AnswerMoves, Borne
  <2>2. Told(p)' => Known(outcome'[p].pair) /\ outcome'[p].pair.at >= 2
    BY <1>0 DEF AnswerMoves, Borne, Told
  <2> QED  BY <1>1, <1>3, <2>1, <2>2 DEF Borne
<1>5. Known(disk') /\ Known(host')
  BY <1>0 DEF StoresMove, Kept, Borne
<1>6. ASSUME NEW k \in Keys  PROVE Known(cache'[k])
  BY <1>0, <1>2, <1>3 DEF StoresMove, Kept, Borne
<1> QED  BY <1>0, <1>1, <1>4, <1>5, <1>6 DEF Kept

LEMMA FitsTravel ==
  ASSUME CredInv, TwoNames, Travel
  PROVE  KeysFit' /\ \A p \in Procs : Fits(p)'
<1>0. /\ TypeOK /\ KeysFit /\ \A p \in Procs : Fits(p) /\ RequestMoves(p) /\ AnswerMoves(p)
      /\ StoresMove /\ \A p \in Procs : InFlight(p)
  BY DEF CredInv, TwoNames, Travel
<1>1. ASSUME NEW p \in Procs  PROVE Fits(p)'
  <2>1. stage[p] # "out" => pc[p] = "flight"
    BY <1>0 DEF InFlight
  <2>2. Told(p) /\ snap[p].id => outcome[p].pair.id
    BY <1>0 DEF Fits, Told, credentialKey
  <2>3. snap'[p].id => cred'[p].id
    BY <1>0, <2>2, FoundInStores DEF RequestMoves, Fits, NoPair
  <2>4. stage'[p] # "out" => slot'[p] = credentialKey(snap[p])
    BY <1>0 DEF AnswerMoves, Fits
  <2>5. stage'[p] # "out" => snap'[p] = snap[p]
    BY <1>0 DEF RequestMoves
  <2>6. slot'[p] = "id" /\ Granted(wire'[p]) => wire'[p].pair.id
    BY <1>0 DEF AnswerMoves, Fits
  <2>7. slot'[p] = "id" /\ Told(p)' => outcome'[p].pair.id
    BY <1>0 DEF AnswerMoves, Fits, Told
  <2> QED  BY <2>3, <2>4, <2>5, <2>6, <2>7 DEF Fits, credentialKey
<1>2. ASSUME NEW k \in Keys, cache'[k] \notin {cache[k], NoPair}
      PROVE  k = credentialKey(cache'[k])
  BY <1>0, <1>2 DEF StoresMove
<1>3. ~cache'["email"].id
  BY <1>0, <1>2 DEF KeysFit, Keys, credentialKey, NoPair
<1>4. cache'["id"] # NoPair => cache'["id"].id
  BY <1>0, <1>2 DEF KeysFit, Keys, credentialKey
<1> QED  BY <1>1, <1>3, <1>4 DEF KeysFit

\* In a step that is no grant, what is known by the email gets no newer.
LEMMA NamelessTravels ==
  ASSUME CredInv, TwoNames, Travel, NEW n \in Nat, Nameless(n)
  PROVE  Nameless(n)'
<1>0. /\ TypeOK /\ Single!TypeOK /\ KeysFit /\ StoresMove
      /\ \A p \in Procs : Fits(p) /\ RequestMoves(p) /\ AnswerMoves(p)
  BY DEF CredInv, TwoNames, Travel, Single!FlightInv
<1>1. KeysFit' /\ \A p \in Procs : Fits(p)'
  BY FitsTravel
<1>2. NoPair.at = 0 /\ 0 <= n
  BY DEF NoPair
<1>3. \A p \in Procs : slot[p] \in {"id", "email"}
  BY <1>0 DEF Single!TypeOK, Keys
<1>4. ~host.id => newCredential(host).at <= n
  BY <1>0, FoundInStores DEF Nameless
<1>5. ASSUME NEW p \in Procs, ~snap'[p].id  PROVE snap'[p].at <= n /\ cred'[p].at <= n
  <2>1. ~snap[p].id /\ Told(p) => outcome[p].pair.at <= n
    BY <1>0 DEF Fits, Told, credentialKey, Nameless
  <2> QED  BY <1>0, <1>2, <1>4, <1>5, <2>1 DEF RequestMoves, Nameless
<1>6. ASSUME NEW p \in Procs
      PROVE  /\ slot'[p] = "email" /\ Granted(wire'[p]) => wire'[p].pair.at <= n
             /\ slot'[p] = "email" /\ Told(p)' => outcome'[p].pair.at <= n
  <2>1. slot'[p] = "email" /\ Granted(wire'[p]) => wire'[p].pair.at <= n
    BY <1>0 DEF AnswerMoves, Nameless
  <2>2. slot'[p] = "email" /\ Told(p)' => outcome'[p].pair.at <= n
    BY <1>0 DEF AnswerMoves, Nameless, Told
  <2> QED  BY <2>1, <2>2
<1>7. /\ ~disk'.id => disk'.at <= n
      /\ ~host'.id => host'.at <= n
  BY <1>0 DEF StoresMove, Nameless, Fits
<1>8. cache'["email"].at <= n
  <2>1. CASE cache'["email"] \in {cache["email"], NoPair}
    BY <1>2, <2>1 DEF Nameless
  <2>2. CASE cache'["email"] \notin {cache["email"], NoPair}
    <3>1. PICK p \in Procs : \/ Granted(wire[p]) /\ cache'["email"] = wire[p].pair
                             \/ pc'[p] # "idle" /\ cache'["email"] = cred'[p]
      BY <1>0, <2>2 DEF StoresMove, Keys
    <3>2. ~cache'["email"].id
      BY <1>1 DEF KeysFit
    <3>3. CASE Granted(wire[p]) /\ cache'["email"] = wire[p].pair
      BY <1>0, <1>3, <3>2, <3>3 DEF Fits, Nameless
    <3>4. CASE cache'["email"] = cred'[p]
      <4>1. ~snap'[p].id
        BY <1>1, <3>2, <3>4 DEF Fits
      <4> QED  BY <1>5, <3>4, <4>1
    <3> QED  BY <3>1, <3>3, <3>4
  <2> QED  BY <2>1, <2>2
<1> QED  BY <1>5, <1>6, <1>7, <1>8 DEF Nameless

LEMMA AheadTravels ==
  ASSUME CredInv, TwoNames, Travel, NEW p \in Procs
  PROVE  Ahead(p)'
<1>0. /\ TypeOK /\ Ahead(p) /\ Borne(p) /\ AnswerMoves(p) /\ StoresMove /\ InFlight(p)
      /\ issued' = issued /\ issued \in Nat
  BY BoundsAssumption DEF CredInv, TwoNames, Travel, StoresMove, TypeOK
<1>1. ASSUME NEW n \in Nat, n >= 2, Leads(p, n), slot'[p] = slot[p]  PROVE Leads(p, n)'
  <2>1. CASE slot[p] = "id"
    <3>1. n - 1 \in Nat /\ n = issued /\ Nameless(n - 1)
      BY <1>1, <2>1 DEF Leads
    <3>2. Nameless(n - 1)'
      BY <3>1, NamelessTravels
    <3> QED  BY <1>0, <1>1, <2>1, <3>1, <3>2 DEF Leads
  <2>2. CASE slot[p] # "id"
    BY <1>1, <2>2, NamelessTravels DEF Leads
  <2> QED  BY <2>1, <2>2
<1>2. Granted(wire[p]) => wire[p].pair.at \in Nat /\ wire[p].pair.at >= 2
  BY <1>0, NoPairTyped, BoundsAssumption DEF Borne, TypeOK, Outcomes, Granted, Pairs
<1>3. Told(p) => outcome[p].pair.at \in Nat /\ outcome[p].pair.at >= 2
  <2>1. Told(p) => outcome[p] \in Outcomes
    BY DEF CredInv, Single!FlightInv, Single!TypeOK, Told, Granted
  <2> QED  BY <1>0, <2>1, NoPairTyped, BoundsAssumption DEF Borne, Outcomes, Pairs
<1>4. Granted(wire'[p]) => Leads(p, wire[p].pair.at)'
  BY <1>0, <1>1, <1>2 DEF AnswerMoves, Ahead
<1>5. stage'[p] = "answered" /\ Told(p)' => Leads(p, outcome[p].pair.at)'
  BY <1>0, <1>1, <1>2, <1>3 DEF AnswerMoves, Ahead, Told
<1> QED  BY <1>4, <1>5 DEF Ahead

LEMMA TwoNamesGrant ==
  ASSUME "noRotate" \notin Faults, CredInv, TwoNames, NEW p \in Procs, GrantAccepted(p)
  PROVE  TwoNames'
<1>0. /\ TypeOK /\ Single!TypeOK /\ \A q \in Procs : InFlight(q)
      /\ Kept /\ KeysFit /\ \A q \in Procs : Borne(q) /\ Fits(q) /\ Ahead(q)
  BY DEF CredInv, TwoNames, Single!FlightInv
<1>1. /\ stage[p] = "leading" /\ wire[p] = None /\ cred[p].rt = live
      /\ issued \in Nat /\ issued' = issued + 1 /\ live' = issued + 1
      /\ UNCHANGED <<pc, disk, host, cache, snap, cred, stage, slot, calls, joined, outcome>>
      /\ \A q \in Procs \ {p} : wire'[q] = wire[q]
      /\ Granted(wire'[p]) => /\ wire'[p].pair.at = issued + 1
                              /\ wire'[p].pair.rt = issued + 1
                              /\ cred[p].id => wire'[p].pair.id
  BY GrantStep DEF flight
<1>2. \A q \in Procs : slot[q] \in {"id", "email"}
  BY <1>0 DEF Single!TypeOK, Keys
\* Every pair that was known is known, and all of them are older.
<1>3. \A sa \in Pairs : Known(sa) => Known(sa)' /\ sa.at <= issued + 1
  BY <1>1, BoundsAssumption DEF Known, Pairs
<1>4. ASSUME NEW q \in Procs
      PROVE  /\ snap[q] \in Pairs /\ cred[q] \in Pairs
             /\ Granted(wire[q]) => wire[q].pair \in Pairs
             /\ Told(q) => outcome[q].pair \in Pairs
  BY <1>0, NoPairTyped DEF TypeOK, Single!TypeOK, Outcomes, Granted, Told
<1>5. disk \in Pairs /\ host \in Pairs /\ \A k \in Keys : cache[k] \in Pairs
  BY <1>0 DEF TypeOK
<1>6. Kept'
  BY <1>0, <1>1, <1>3, <1>5 DEF Kept
<1>7. KeysFit'
  BY <1>0, <1>1 DEF KeysFit
<1>8. issued >= 1
  BY DEF CredInv, Clock
<1>9. ASSUME NEW q \in Procs  PROVE Borne(q)'
  <2>1. Told(q)' <=> Told(q)
    BY <1>1 DEF Told
  <2>2. Granted(wire'[q]) => Known(wire[q].pair)' /\ wire'[q].pair.at >= 2
    <3>1. CASE q = p
      BY <1>1, <1>8, <3>1 DEF Known
    <3>2. CASE q # p
      BY <1>0, <1>1, <1>3, <1>4, <3>2 DEF Borne
    <3> QED  BY <3>1, <3>2
  <2> QED  BY <1>0, <1>1, <1>3, <1>4, <2>1, <2>2 DEF Borne
<1>10. ASSUME NEW q \in Procs  PROVE Fits(q)'
  <2>1. slot[p] = "id" /\ Granted(wire'[p]) => wire'[p].pair.id
    BY <1>0, <1>1 DEF Fits, credentialKey
  <2> QED  BY <1>0, <1>1, <2>1 DEF Fits, Told, credentialKey
\* The leader's own pair is the newest of all.
<1>11. Granted(wire'[p]) => Leads(p, wire[p].pair.at)'
  <2>1. ASSUME NEW n \in {issued, issued + 1}, slot[p] = "email" => n = issued + 1
        PROVE  Nameless(n)'
    <3>1. \A sa \in Pairs : Known(sa) => sa.at <= n
      BY <1>1, <1>3 DEF Known
    <3>2. ASSUME NEW q \in Procs
          PROVE  /\ slot[q] = "email" /\ Granted(wire'[q]) => wire'[q].pair.at <= n
                 /\ Told(q) => outcome[q].pair.at <= n
                 /\ snap[q].at <= n /\ cred[q].at <= n
      <4>1. q = p /\ slot[q] = "email" /\ Granted(wire'[q]) => wire'[q].pair.at <= n
        BY <1>1, <2>1
      <4> QED  BY <1>0, <1>1, <1>4, <3>1, <4>1 DEF Borne
    <3>3. disk.at <= n /\ host.at <= n /\ cache["email"].at <= n
      BY <1>0, <1>5, <3>1 DEF Kept, Keys
    <3> QED  BY <1>1, <3>2, <3>3 DEF Nameless, Told
  <2>2. issued' - 1 = issued
    BY <1>1
  <2> QED  BY <1>1, <1>2, <2>1, <2>2 DEF Leads
\* Whoever else still has a pair to bring does so for the other name, and it is no leader
\* by the id: then this grant would have been asked for with a spent token.
<1>12. ASSUME NEW q \in Procs \ {p}, stage[q] \in {"leading", "answered"}, NEW n \in Nat,
              n >= 2, Leads(q, n)
       PROVE  Leads(q, n)'
  <2>1. slot[q] # slot[p]
    BY <1>1, <1>12, OneLeader
  <2>2. CASE slot[q] = "id"
    <3>1. n = issued /\ Nameless(n - 1) /\ ~snap[p].id
      BY <1>0, <1>1, <1>2, <1>12, <2>1, <2>2 DEF Leads, Fits, credentialKey
    <3>2. cred[p].at <= n - 1 /\ cred[p].rt = n
      BY <1>0, <1>1, <3>1 DEF Nameless, Kept
    <3>3. cred[p].at \in Nat /\ Known(cred[p])
      BY <1>0, <1>4, BoundsAssumption DEF Borne, Pairs
    <3> QED  BY <1>12, <3>2, <3>3 DEF Known
  <2>3. CASE slot[q] = "email"
    <3>1. Nameless(n) /\ slot[p] = "id"
      BY <1>2, <1>12, <2>1, <2>3 DEF Leads
    <3>2. Nameless(n)'
      BY <1>1, <3>1 DEF Nameless, Told
    <3> QED  BY <1>1, <2>3, <3>2 DEF Leads
  <2> QED  BY <1>2, <2>2, <2>3
<1>13. ASSUME NEW q \in Procs  PROVE Ahead(q)'
  <2>1. CASE q = p
    BY <1>1, <1>11, <2>1 DEF Ahead
  <2>2. CASE q # p
    <3>1. Granted(wire[q]) => wire[q].pair.at \in Nat /\ stage[q] = "leading"
      BY <1>0, <1>4, BoundsAssumption DEF Pairs, InFlight, Granted
    <3>2. Told(q) => outcome[q].pair.at \in Nat
      BY <1>4, BoundsAssumption DEF Pairs
    <3>3. Granted(wire'[q]) => Leads(q, wire[q].pair.at)'
      BY <1>0, <1>1, <1>12, <2>2, <3>1 DEF Ahead, Borne
    <3>4. stage'[q] = "answered" /\ Told(q)' => Leads(q, outcome[q].pair.at)'
      BY <1>0, <1>1, <1>12, <2>2, <3>2 DEF Ahead, Borne, Told
    <3> QED  BY <3>3, <3>4 DEF Ahead
  <2> QED  BY <2>1, <2>2
<1> QED  BY <1>6, <1>7, <1>9, <1>10, <1>13 DEF TwoNames

LEMMA TwoNamesStep ==
  ASSUME "noRotate" \notin Faults
  PROVE  CredInv /\ TwoNames /\ [Next]_vars => TwoNames'
<1> SUFFICES ASSUME CredInv, TwoNames, [Next]_vars
             PROVE  TwoNames'
  OBVIOUS
<1>1. CASE \A p \in Procs : ~GrantAccepted(p)
  <2>1. Travel
    BY <1>1, TravelStep
  <2> QED  BY <2>1, KnownTravels, FitsTravel, AheadTravels DEF TwoNames
<1>2. CASE \E p \in Procs : GrantAccepted(p)
  BY <1>2, TwoNamesGrant
<1> QED  BY <1>1, <1>2

LEMMA TwoNamesBrings ==
  ASSUME CredInv, TwoNames, NEW p \in Procs
  PROVE  Brings(p)
<1> SUFFICES ASSUME stage[p] = "answered", Told(p),
                    NEW q \in Procs, q = p \/ (stage[q] = "waiting" /\ joined[q] = p)
             PROVE  cred[q].at <= outcome[p].pair.at
  BY DEF Brings
<1>1. slot[q] = slot[p] /\ slot[q] = credentialKey(snap[q]) /\ stage[q] # "out"
  BY DEF CredInv, Single!FlightInv, Single!WaitersAreAwaited, TwoNames, Fits
<1>2. Leads(p, outcome[p].pair.at) /\ Known(cred[q])
  BY DEF TwoNames, Ahead, Borne
<1> QED  BY <1>1, <1>2 DEF Leads, Nameless, Known, credentialKey

-----------------------------------------------------------------------------
(* Only a model discovery whose refresh failed goes back to an older pair *)

\* What freshStoredAuth answers when its refresh failed: the snapshot it was given.
FallsBack(p) ==
    /\ kind[p] = "models" /\ pc'[p] = "done" /\ cred'[p] = snap[p]
    /\ outcome[p].why # "ok" /\ needsRefresh(cred[p])

LEMMA ForwardStep ==
  ASSUME CredInv, [Next]_vars, NEW p \in Procs, Onward(p),
         pc[p] # "idle", pc'[p] # "idle", ~FallsBack(p)
  PROVE  cred'[p].at >= cred[p].at
<1>0. TypeOK /\ Single!FlightInv /\ cred[p].at \in Nat
  BY BoundsAssumption DEF CredInv, TypeOK, Pairs
<1> SUFFICES ASSUME cred'[p] # cred[p]  PROVE cred'[p].at >= cred[p].at
  BY <1>0
<1> USE DEF request
<1>1. ASSUME NEW q \in Procs, NEW k \in Operations, Receive(q, k)  PROVE FALSE
  BY <1>0, <1>1 DEF Receive, TypeOK
<1>2. ASSUME NEW q \in Procs, Apply(q)  PROVE cred'[p].at >= cred[p].at
  <2>1. /\ stage[q] = "released" /\ outcome[q].why = "ok"
        /\ cred' = [cred EXCEPT ![q] = outcome[q].pair]
    BY <1>2 DEF Apply
  <2>2. q = p /\ cred'[p] = outcome[p].pair
    BY <1>0, <2>1 DEF TypeOK
  <2>3. Told(p)
    BY <1>0, <2>1, <2>2, DataAssumption DEF Single!FlightInv, Single!AnswerKnown, Granted, Told
  <2>4. cred[p].at <= outcome[p].pair.at
    BY <2>1, <2>2, <2>3 DEF Onward
  <2>5. outcome[p].pair.at \in Nat
    BY <1>0, <2>3, NoPairTyped, BoundsAssumption
    DEF Single!FlightInv, Single!TypeOK, Outcomes, Granted, Told, Pairs
  <2> QED  BY <1>0, <2>2, <2>4, <2>5
<1>3. ASSUME NEW q \in Procs, Fail(q)  PROVE FALSE
  <2>1. q = p /\ kind[p] = "models"
    BY <1>0, <1>3 DEF Fail, TypeOK
  <2>2. pc'[p] = "done" /\ cred'[p] = snap[p]
    BY <1>0, <1>3, <2>1 DEF Fail, TypeOK
  <2> QED  BY <1>3, <2>1, <2>2 DEF Fail, FallsBack
<1>4. ASSUME NEW q \in Procs, Enrich(q)  PROVE cred'[p].at >= cred[p].at
  <2>1. PICK sa : cred' = [cred EXCEPT ![q] = sa] /\ sa.at = cred[q].at
    <3>1. PICK id : cred' = [cred EXCEPT ![q] = [cred[q] EXCEPT !.id = id \/ @]]
      BY <1>4 DEF Enrich
    <3>2. cred[q] \in Pairs
      BY <1>0 DEF TypeOK
    <3>3. [cred[q] EXCEPT !.id = id \/ @].at = cred[q].at
      BY <3>2 DEF Pairs
    <3> QED  BY <3>1, <3>3
  <2> QED  BY <1>0, <2>1 DEF TypeOK
<1>5. ASSUME NEW q \in Procs, Deliver(q)  PROVE FALSE
  BY <1>0, <1>5 DEF Deliver, TypeOK
<1>6. ASSUME NEW q \in Procs,
             \/ PrepareFresh(q) \/ PrepareRefresh(q) \/ FlightWork(q) \/ Defer(q)
             \/ Persist(q) \/ Send(q) \/ GiveUp(q) \/ HandOver(q)
      PROVE  FALSE
  BY <1>6 DEF FlightWork, PrepareFresh, PrepareRefresh, LeadFlight, JoinFlight, GrantAccepted,
              GrantFailed, AnswerFlight, UnregisterFlight, ReleaseFlight, Defer, Persist,
              Send, GiveUp, HandOver
<1>7. CASE HostReload \/ Tick \/ Revoke \/ Restart \/ UNCHANGED vars
  BY <1>7 DEF HostReload, Tick, Revoke, Restart, vars
<1> QED  BY <1>1, <1>2, <1>3, <1>4, <1>5, <1>6, <1>7 DEF Next, Work

LEMMA OnwardHolds ==
  ASSUME CredInv, [Next]_vars, \A p \in Procs : Onward(p) /\ Brings(p)
  PROVE  \A p \in Procs : Onward(p)'
<1>1. \A p \in Procs : RequestMoves(p)
  <2>1. CASE \A p \in Procs : ~GrantAccepted(p)
    BY <2>1, TravelStep DEF Travel
  <2>2. ASSUME NEW r \in Procs, GrantAccepted(r)  PROVE \A p \in Procs : RequestMoves(p)
    BY <2>2, GrantStep DEF RequestMoves
  <2> QED  BY <2>1, <2>2
<1> QED  BY <1>1, OnwardStep

\* Two accounts of why nobody waits for an older pair. If no answer teaches the plugin an
\* account id, one key stands for all there is of the account, so the one leader brings
\* the newest pair of all. If every grant rotates the refresh token, an account may go by
\* two names at a time, but what its id was learnt with is never asked for by its email.
THEOREM NobodyWaitsForLess ==
  ASSUME "learnsId" \notin Faults \/ "noRotate" \notin Faults
  PROVE  Spec => []\A p \in Procs : Onward(p)
<1> DEFINE All == \A p \in Procs : Onward(p)
<1>1. CASE "learnsId" \notin Faults
  <2>1. CredInv /\ OneName /\ [Next]_vars => OneName'
    BY <1>1, OneNameStep
  <2>2. CredInv /\ OneName /\ All /\ [Next]_vars => All'
    BY OneNameBrings, OnwardHolds
  <2> QED  BY <2>1, <2>2, InitOneName, InitOnward, CredInvariant, PTL DEF Spec
<1>2. CASE "noRotate" \notin Faults
  <2>1. CredInv /\ TwoNames /\ [Next]_vars => TwoNames'
    BY <1>2, TwoNamesStep
  <2>2. CredInv /\ TwoNames /\ All /\ [Next]_vars => All'
    BY TwoNamesBrings, OnwardHolds
  <2> QED  BY <2>1, <2>2, InitTwoNames, InitOnward, CredInvariant, PTL DEF Spec
<1> QED  BY <1>1, <1>2

\* token.go:154-222: a request moves on to pairs that are no older, except where a
\* model discovery whose refresh failed hands out the snapshot it came with; whatever
\* else fails, as long as Cline does not both leave the refresh token of a grant as it
\* is and teach the account its id along the way.
THEOREM OlderOnlyByDiscovery ==
  ASSUME "learnsId" \notin Faults \/ "noRotate" \notin Faults
  PROVE  Spec => OnlyDiscoveryGoesBack
<1> DEFINE All == \A p \in Procs : Onward(p)
           Forward ==
      \A p \in Procs :
          pc[p] # "idle" /\ pc'[p] # "idle" /\ cred'[p].at < cred[p].at =>
              /\ kind[p] = "models" /\ pc'[p] = "done" /\ cred'[p] = snap[p]
              /\ outcome[p].why # "ok" /\ needsRefresh(cred[p])
<1>1. CredInv /\ All /\ [Next]_vars => [Forward]_vars
  <2> SUFFICES ASSUME CredInv, All, [Next]_vars, NEW p \in Procs,
                      pc[p] # "idle", pc'[p] # "idle", cred'[p].at < cred[p].at
               PROVE  FallsBack(p)
    BY DEF FallsBack
  <2>1. cred[p].at \in Nat /\ cred'[p].at \in Nat
    <3>1. TypeOK'
      BY TypeStep
    <3> QED  BY <3>1, BoundsAssumption DEF CredInv, TypeOK, Pairs
  <2> QED  BY <2>1, ForwardStep
<1>2. Spec => []All
  BY NobodyWaitsForLess
<1> QED
  BY <1>1, <1>2, CredInvariant, PTL DEF Spec, OnlyDiscoveryGoesBack
=============================================================================
