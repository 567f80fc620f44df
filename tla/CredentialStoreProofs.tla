----------------------- MODULE CredentialStoreProofs -----------------------
(***************************************************************************)
(* Where the pair that Cline accepts is kept, for any number of requests,  *)
(* grants, restarts and crashes.                                           *)
(*                                                                         *)
(* Nothing in the code orders two flights of one account: that what is     *)
(* cached and saved last is the newest pair is a matter of time. A pair    *)
(* that was just granted is not due, and until whoever has it is done with *)
(* it the clock stands still (Punctual); so nobody asks for another        *)
(* (Young). That needs each request in a flight to have had a due pair     *)
(* (Due), which a host that asks in time (OnTime) and access tokens that   *)
(* live until they expire provide, and it needs a pair to be known by its  *)
(* refresh token (Distinct). What is written is then the live pair each    *)
(* time, so where it is can be followed: from the leader to the cache      *)
(* (Cached) and from whoever applies it to the file (OnDisk).              *)
(***************************************************************************)
EXTENDS CredentialProofs

\* token.go:13-15, 33: each grant rotates the refresh token, and the fallback expiry
\* lies beyond the lead; a login wrote both tokens. The host asks when its copy is
\* due, no call takes an hour, and no access token is revoked or teaches an id.
Timely ==
    /\ Punctual /\ OnTime /\ RefreshLead < FallbackLife
    /\ {"revoke", "noRotate", "learnsId"} \intersect Faults = {}
    /\ \A doc \in InitialDocs : doc.at = 1 /\ doc.rt = 1

-----------------------------------------------------------------------------
(* Every pair there is *)

Held ==
    {disk, host} \union {cache[k] : k \in Keys}
    \union {snap[p] : p \in Procs} \union {cred[p] : p \in Procs}
    \union {wire[p].pair : p \in {q \in Procs : Granted(wire[q])}}
    \union {outcome[p].pair : p \in {q \in Procs : Told(q)}}

\* The pairs are numbered by the refresh tokens they have, the live one last.
Whole ==
    /\ live = issued /\ revoked = {}
    /\ NoPair \notin {disk, host}
    /\ \A p \in Procs : pc[p] # "idle" => snap[p] # NoPair /\ cred[p] # NoPair
    /\ \A X \in Held : X = NoPair \/ (X.at = X.rt /\ 1 <= X.rt /\ X.rt <= issued)

\* A refresh token stands for one pair, and a later one expires later.
Distinct ==
    \A X, Y \in Held :
        /\ X.rt = Y.rt => X = Y
        /\ X # NoPair /\ X.rt < Y.rt => X.exp < Y.exp

\* Whoever is to refresh its pair, or does so, has one that is due.
Due(p) ==
    /\ pc[p] = "idle" => sends[p] = 0
    /\ (pc[p] = "prepare" /\ Forced(p)) \/ pc[p] = "flight" => needsRefresh(cred[p])

\* Whoever brings or stores a pair has the live one, and it is not due.
Fresh(X) == X.rt = live /\ ~needsRefresh(X)
Stores(p) == pc[p] \in {"persist", "save"} \/ (pc[p] = "ready" /\ kind[p] = "refresh")
Young(p) ==
    /\ Granted(wire[p]) => Fresh(wire[p].pair)
    /\ Told(p) => Fresh(outcome[p].pair)
    /\ Stores(p) => Fresh(cred[p])

Timed == Whole /\ Distinct /\ \A p \in Procs : Due(p) /\ Young(p)

LEMMA InitTimed == Timely /\ Init => Timed
<1> SUFFICES ASSUME Timely, Init  PROVE Timed
  OBVIOUS
<1>1. \A X \in Held : X = NoPair \/ X = disk
  BY DEF Init, NoRequest, Held, Granted, Told
<1>2. disk.at = 1 /\ disk.rt = 1 /\ host = disk /\ NoPair.rt = 0
  BY DEF Init, Timely, NoPair
<1>3. Whole
  BY <1>1, <1>2 DEF Init, NoRequest, Whole
<1>4. Distinct
  BY <1>1, <1>2 DEF Distinct
<1>5. ASSUME NEW p \in Procs  PROVE Due(p) /\ Young(p)
  BY DEF Init, NoRequest, Due, Young, Stores, Told, Granted
<1> QED  BY <1>3, <1>4, <1>5 DEF Timed

\* Without a grant there is no other pair than before.
LEMMA HeldTravels ==
  ASSUME CredInv, TypeOK', Travel, "learnsId" \notin Faults, NEW X \in Held'
  PROVE  X = NoPair \/ X \in Held
<1>0. /\ TypeOK /\ StoresMove
      /\ \A p \in Procs : RequestMoves(p) /\ AnswerMoves(p)
  BY DEF CredInv, Travel
<1>1. newCredential(host) \in Held
  BY DEF newCredential, credentialKey, Keys, Held
<1>2. ASSUME NEW p \in Procs  PROVE snap'[p] = NoPair \/ snap'[p] \in Held
  BY <1>0 DEF RequestMoves, Held
<1>3. ASSUME NEW p \in Procs  PROVE cred'[p] = NoPair \/ cred'[p] \in Held
  <2>1. ASSUME cred'[p].at = cred[p].at, cred'[p].rt = cred[p].rt,
               cred'[p].exp = cred[p].exp, cred'[p].id = cred[p].id
        PROVE  cred'[p] = cred[p]
    <3>1. cred[p] \in Pairs /\ cred'[p] \in Pairs
      BY <1>0 DEF TypeOK
    <3> QED  BY <2>1, <3>1 DEF Pairs
  <2>2. cred[p] \in Held /\ snap[p] \in Held /\ (Told(p) => outcome[p].pair \in Held)
    BY DEF Held
  <2> QED  BY <1>0, <1>1, <2>1, <2>2 DEF RequestMoves
<1>4. ASSUME NEW p \in Procs, Granted(wire'[p])  PROVE wire'[p].pair \in Held
  BY <1>0, <1>4 DEF AnswerMoves, Held
<1>5. ASSUME NEW p \in Procs, Told(p)'  PROVE outcome'[p].pair \in Held
  <2>1. CASE outcome'[p] = wire[p]
    BY <1>5, <2>1 DEF Told, Held
  <2>2. ASSUME NEW r \in Procs, Told(r), outcome'[p] = outcome[r]
        PROVE  outcome'[p].pair \in Held
    BY <2>2 DEF Held
  <2> QED  BY <1>0, <1>5, <2>1, <2>2 DEF AnswerMoves
<1>6. disk' \in Held /\ host' \in Held
  BY <1>0 DEF StoresMove, Held
<1>7. ASSUME NEW k \in Keys  PROVE cache'[k] = NoPair \/ cache'[k] \in Held
  <2>1. cache[k] \in Held /\ \A p \in Procs : Granted(wire[p]) => wire[p].pair \in Held
    BY DEF Held
  <2> QED  BY <1>0, <1>3, <2>1 DEF StoresMove
<1> QED
  BY <1>2, <1>3, <1>4, <1>5, <1>6, <1>7 DEF Held

\* A grant adds the pair it brings.
LEMMA HeldGrant ==
  ASSUME CredInv, NEW p \in Procs, GrantAccepted(p), NEW X \in Held'
  PROVE  X \in Held \/ (Granted(wire'[p]) /\ X = wire'[p].pair)
<1>1. /\ UNCHANGED <<pc, disk, host, cache, snap, cred, flight>>
      /\ \A q \in Procs \ {p} : wire'[q] = wire[q]
  BY GrantStep
<1> QED  BY <1>1 DEF Held, Told, Granted, flight

LEMMA Numbered ==
  ASSUME CredInv
  PROVE  /\ now \in Nat /\ issued \in Nat /\ 1 <= issued
         /\ RefreshLead \in Nat /\ Life \in Nat /\ FallbackLife \in Nat
         /\ FallbackLife <= Life
         /\ Held \subseteq Pairs
         /\ \A X \in Pairs : X.exp \in Nat /\ X.at \in Nat /\ X.rt \in Nat
<1>1. Held \subseteq Pairs
  <2>1. \A p \in Procs : Granted(wire[p]) => wire[p].pair \in Pairs
    BY NoPairTyped DEF CredInv, TypeOK, Outcomes, Granted
  <2>2. \A p \in Procs : Told(p) => outcome[p].pair \in Pairs
    BY NoPairTyped DEF CredInv, Single!FlightInv, Single!TypeOK, Outcomes, Granted, Told
  <2> QED  BY <2>1, <2>2 DEF CredInv, TypeOK, Held
<1>2. \A X \in Pairs : X.exp \in Nat /\ X.at \in Nat /\ X.rt \in Nat
  <2>1. \A n \in 0..MaxGrants : n \in Nat
    BY BoundsAssumption
  <2>2. \A n \in 0..(MaxNow + MaxGrants + Life) : n \in Nat
    BY BoundsAssumption
  <2> QED  BY <2>1, <2>2 DEF Pairs
<1>3. now \in Nat /\ issued \in Nat /\ 1 <= issued
  BY BoundsAssumption DEF CredInv, TypeOK, Clock
<1> QED  BY <1>1, <1>2, <1>3, BoundsAssumption

\* What is due stays due.
LEMMA DueLater ==
  ASSUME CredInv, CredInv', NEW X \in Pairs, now <= now', needsRefresh(X)
  PROVE  needsRefresh(X)'
<1>1. X.exp \in Nat /\ now \in Nat /\ RefreshLead \in Nat
  BY Numbered
<1>2. now' \in Nat
  BY BoundsAssumption DEF CredInv, TypeOK
<1> QED  BY <1>1, <1>2 DEF needsRefresh

-----------------------------------------------------------------------------
(* Pairs are told apart by their refresh tokens *)

LEMMA NotNoPair == ASSUME NEW X, X.rt \in Nat, 1 <= X.rt  PROVE X # NoPair
  BY DEF NoPair

LEMMA NewCredentialHeld ==
  /\ newCredential(host) \in Held
  /\ TypeOK /\ host # NoPair => newCredential(host) # NoPair
<1>1. credentialKey(host) \in Keys
  BY DEF credentialKey, Keys
<1>2. TypeOK => host.exp \in Nat
  BY BoundsAssumption DEF TypeOK, Pairs
<1>3. cache[credentialKey(host)].exp > host.exp /\ host.exp \in Nat =>
          cache[credentialKey(host)] # NoPair
  BY DEF NoPair
<1> QED  BY <1>1, <1>2, <1>3 DEF newCredential, Held

LEMMA Unrevoked ==
  ASSUME [Next]_vars, "revoke" \notin Faults  PROVE revoked' = revoked
<1>1. ASSUME NEW p \in Procs, Work(p) \/ \E k \in Operations : Receive(p, k)
      PROVE  revoked' = revoked
  BY <1>1 DEF Work, FlightWork, upstream, Receive, PrepareFresh, PrepareRefresh, LeadFlight,
              JoinFlight, GrantAccepted, GrantFailed, AnswerFlight, UnregisterFlight,
              ReleaseFlight, Apply, Defer, Fail, Persist, Send, GiveUp, Enrich, HandOver, Deliver
<1> QED  BY <1>1 DEF Next, HostReload, Tick, Revoke, Restart, vars, upstream

LEMMA WholeTravels ==
  ASSUME CredInv, TypeOK', Timed, Travel, "learnsId" \notin Faults, revoked' = revoked
  PROVE  Whole' /\ Distinct'
<1>0. /\ StoresMove /\ UNCHANGED <<live, issued>>
      /\ Whole /\ Distinct /\ \A p \in Procs : Young(p) /\ RequestMoves(p)
      /\ TypeOK /\ issued \in Nat /\ 1 <= issued
  BY Numbered DEF Travel, Timed, StoresMove, CredInv
<1>1. \A X \in Held' : X = NoPair \/ X \in Held
  BY HeldTravels
<1>2. Distinct'
  <2> SUFFICES ASSUME NEW X \in Held', NEW Y \in Held'
               PROVE  /\ X.rt = Y.rt => X = Y
                      /\ X # NoPair /\ X.rt < Y.rt => X.exp < Y.exp
    BY DEF Distinct
  <2>1. CASE X \in Held /\ Y \in Held
    BY <1>0, <2>1 DEF Distinct
  <2>2. \A Z \in Held : Z = NoPair \/ (Z.rt \in Nat /\ 1 <= Z.rt)
    BY <1>0, Numbered DEF Whole
  <2>3. NoPair.rt = 0
    BY DEF NoPair
  <2> QED  BY <1>1, <2>1, <2>2, <2>3
<1>3. NoPair \notin {disk', host'}
  BY <1>0 DEF Whole, StoresMove
<1>4. ASSUME NEW p \in Procs, pc'[p] # "idle"  PROVE snap'[p] # NoPair /\ cred'[p] # NoPair
  <2>1. Told(p) => outcome[p].pair # NoPair
    BY <1>0, NotNoPair DEF Young, Fresh, Whole
  <2>2. newCredential(host) # NoPair /\ host # NoPair
    BY <1>0, NewCredentialHeld DEF Whole
  <2>3. ASSUME cred'[p].rt = cred[p].rt, pc[p] # "idle"  PROVE cred'[p] # NoPair
    <3>1. cred[p] \in Held
      BY DEF Held
    <3>2. cred[p].rt \in Nat /\ 1 <= cred[p].rt
      BY <1>0, <2>3, <3>1, Numbered DEF Whole
    <3> QED  BY <2>3, <3>2, NotNoPair
  <2> QED  BY <1>0, <1>4, <2>1, <2>2, <2>3 DEF RequestMoves, Whole
<1>5. ASSUME NEW X \in Held', X # NoPair
      PROVE  X.at = X.rt /\ 1 <= X.rt /\ X.rt <= issued'
  BY <1>0, <1>1, <1>5 DEF Whole
<1> QED  BY <1>0, <1>2, <1>3, <1>4, <1>5 DEF Whole

\* Only the live refresh token is granted anything, and it stands for a due pair.
LEMMA WholeGrant ==
  ASSUME Timely, CredInv, Timed, NEW p \in Procs, GrantAccepted(p), revoked' = revoked
  PROVE  Whole' /\ Distinct'
<1>0. /\ Whole /\ Distinct /\ Due(p) /\ InFlight(p)
      /\ "noRotate" \notin Faults /\ RefreshLead < FallbackLife
  BY DEF Timed, Timely, CredInv
<1>1. /\ stage[p] = "leading" /\ cred[p].rt = live
      /\ issued' = issued + 1 /\ now' = now + 1 /\ live' = issued + 1
      /\ UNCHANGED <<pc, disk, host, snap, cred>>
      /\ Granted(wire'[p]) =>
            /\ wire'[p].pair.at = issued + 1 /\ wire'[p].pair.rt = issued + 1
            /\ wire'[p].pair.exp \in {now' + Life, now' + FallbackLife}
  BY <1>0, GrantStep
<1>2. /\ {now, issued, RefreshLead, Life, FallbackLife} \subseteq Nat /\ FallbackLife <= Life
      /\ 1 <= issued
      /\ \A X \in Held : X.exp \in Nat /\ X.rt \in Nat
  BY Numbered
<1>3. ASSUME NEW X \in Held
      PROVE  X.rt <= issued /\ X.exp <= now + RefreshLead
  <2>1. cred[p] \in Held /\ cred[p].rt = issued /\ needsRefresh(cred[p])
    BY <1>0, <1>1 DEF Held, Whole, Due, InFlight
  <2>2. cred[p] # NoPair
    BY <1>2, <2>1, NotNoPair
  <2>3. cred[p].exp <= now + RefreshLead
    <3>1. cred[p].at = cred[p].rt
      BY <1>0, <2>1, <2>2 DEF Whole
    <3> QED  BY <1>2, <2>1, <3>1 DEF needsRefresh
  <2>4. CASE X = NoPair
    BY <1>2, <2>4 DEF NoPair
  <2>5. CASE X # NoPair
    <3>1. X.rt <= issued /\ X.rt \in Nat /\ X.exp \in Nat
      BY <1>0, <1>2, <2>5 DEF Whole
    <3>2. X.rt = issued => X = cred[p]
      BY <1>0, <2>1 DEF Distinct
    <3>3. X.rt < issued => X.exp < cred[p].exp
      BY <1>0, <2>1, <2>5 DEF Distinct
    <3>4. cred[p].exp \in Nat
      BY <1>2, <2>1
    <3> QED  BY <1>2, <2>3, <3>1, <3>2, <3>3, <3>4
  <2> QED  BY <2>4, <2>5
<1>4. \A X \in Held' : X \in Held \/ (Granted(wire'[p]) /\ X = wire'[p].pair)
  BY HeldGrant
<1>5. ASSUME Granted(wire'[p])
      PROVE  /\ wire'[p].pair.rt = issued + 1 /\ wire'[p].pair.at = issued + 1
             /\ wire'[p].pair.exp \in Nat /\ wire'[p].pair.exp > now + RefreshLead
  BY <1>0, <1>1, <1>2, <1>5
<1>6. Distinct'
  <2> SUFFICES ASSUME NEW X \in Held', NEW Y \in Held'
               PROVE  /\ X.rt = Y.rt => X = Y
                      /\ X # NoPair /\ X.rt < Y.rt => X.exp < Y.exp
    BY DEF Distinct
  <2>1. CASE X \in Held /\ Y \in Held
    BY <1>0, <2>1 DEF Distinct
  <2>2. CASE X \in Held /\ Y \notin Held
    BY <1>2, <1>3, <1>4, <1>5, <2>2
  <2>3. CASE X \notin Held /\ Y \in Held
    BY <1>2, <1>3, <1>4, <1>5, <2>3
  <2>4. CASE X \notin Held /\ Y \notin Held
    BY <1>2, <1>4, <1>5, <2>4
  <2> QED  BY <2>1, <2>2, <2>3, <2>4
<1>7. \A X \in Held' : X = NoPair \/ (X.at = X.rt /\ 1 <= X.rt /\ X.rt <= issued')
  BY <1>0, <1>1, <1>2, <1>3, <1>4, <1>5 DEF Whole
<1> QED  BY <1>0, <1>1, <1>6, <1>7 DEF Whole

-----------------------------------------------------------------------------
(* Whoever asks for a pair has one that is due *)

LEMMA ClockMoves ==
  ASSUME [Next]_vars
  PROVE  \/ now' = now
         \/ Tick /\ now' = now + 1
         \/ \E p \in Procs : GrantAccepted(p) /\ now' = now + 1
<1>1. ASSUME NEW p \in Procs, Work(p) \/ \E k \in Operations : Receive(p, k)
      PROVE  now' = now \/ (GrantAccepted(p) /\ now' = now + 1)
  BY <1>1 DEF Work, FlightWork, upstream, Receive, PrepareFresh, PrepareRefresh, LeadFlight,
              JoinFlight, GrantAccepted, GrantFailed, AnswerFlight, UnregisterFlight,
              ReleaseFlight, Apply, Defer, Fail, Persist, Send, GiveUp, Enrich, HandOver, Deliver
<1> QED  BY <1>1 DEF Next, HostReload, Tick, Revoke, Restart, vars, upstream

\* What a request does, it does to itself.
LEMMA OthersKeep ==
  ASSUME TypeOK, NEW p \in Procs, Work(p) \/ \E k \in Operations : Receive(p, k),
         NEW q \in Procs \ {p}
  PROVE  /\ pc'[q] = pc[q] /\ kind'[q] = kind[q] /\ sends'[q] = sends[q]
         /\ cred'[q] = cred[q] /\ reply'[q] = reply[q]
<1> USE DEF TypeOK, request
<1>1. ASSUME NEW k \in Operations, Receive(p, k)
      PROVE  /\ pc'[q] = pc[q] /\ kind'[q] = kind[q] /\ sends'[q] = sends[q]
             /\ cred'[q] = cred[q] /\ reply'[q] = reply[q]
  BY <1>1 DEF Receive
<1>2. CASE FlightWork(p)
  <2>1. UNCHANGED <<pc, kind, sends, cred, reply>>
    BY <1>2 DEF FlightWork, LeadFlight, JoinFlight, GrantAccepted, GrantFailed,
                AnswerFlight, UnregisterFlight, ReleaseFlight
  <2> QED  BY <2>1
<1>3. CASE PrepareFresh(p) \/ PrepareRefresh(p) \/ Defer(p) \/ GiveUp(p) \/ HandOver(p)
  BY <1>3 DEF PrepareFresh, PrepareRefresh, Defer, GiveUp, HandOver
<1>4. CASE Apply(p) \/ Fail(p)
  BY <1>4 DEF Apply, Fail
<1>5. CASE Persist(p)
  BY <1>5 DEF Persist
<1>6. CASE Send(p)
  BY <1>6 DEF Send
<1>7. CASE Enrich(p)
  <2>1. PICK sa : cred' = [cred EXCEPT ![p] = sa]
    BY <1>7 DEF Enrich
  <2> QED  BY <1>7, <2>1 DEF Enrich
<1>8. CASE Deliver(p)
  BY <1>8 DEF Deliver
<1> QED  BY <1>1, <1>2, <1>3, <1>4, <1>5, <1>6, <1>7, <1>8 DEF Work

LEMMA DueFrame ==
  ASSUME CredInv, CredInv', now <= now', NEW q \in Procs, Due(q),
         pc'[q] = pc[q], kind'[q] = kind[q], sends'[q] = sends[q], cred'[q] = cred[q]
  PROVE  Due(q)'
<1>1. cred[q] \in Pairs
  BY DEF CredInv, TypeOK
<1>2. needsRefresh(cred[q]) => needsRefresh(cred[q])'
  BY <1>1, DueLater
<1> QED  BY <1>2 DEF Due, Forced, needsRefresh

LEMMA DueStep ==
  ASSUME Timely, CredInv, CredInv', Timed, [Next]_vars
  PROVE  \A q \in Procs : Due(q)'
<1>0. /\ TypeOK /\ TypeOK' /\ Whole /\ \A q \in Procs : Due(q)
      /\ now \in Nat /\ RefreshLead \in Nat
  BY Numbered DEF CredInv, Timed
<1>1. now <= now'
  BY <1>0, ClockMoves
<1> USE DEF upstream, stores, request
<1>2. ASSUME NEW p \in Procs, NEW k \in Operations, Receive(p, k)
      PROVE  \A q \in Procs : Due(q)'
  <2>1. /\ pc[p] = "idle" /\ kind' = [kind EXCEPT ![p] = k]
        /\ k = "refresh" => HostIsDue
        /\ cred' = [cred EXCEPT ![p] = newCredential(host)]
        /\ pc' = [pc EXCEPT ![p] = IF k = "refresh" /\ newCredential(host) # host
                                   THEN "done" ELSE "prepare"]
        /\ UNCHANGED <<sends, now>>
    BY <1>2 DEF Receive, Timely
  <2>2. Due(p)'
    <3>1. HostIsDue => needsRefresh(host)
      BY DEF HostIsDue, needsRefresh
    <3>2. sends'[p] = 0
      BY <1>0, <2>1 DEF Due
    <3> QED  BY <1>0, <2>1, <3>1, <3>2 DEF Due, Forced, TypeOK, needsRefresh
  <2>3. ASSUME NEW q \in Procs \ {p}  PROVE Due(q)'
    <3>1. pc'[q] = pc[q] /\ kind'[q] = kind[q] /\ sends'[q] = sends[q] /\ cred'[q] = cred[q]
      BY <1>0, <2>1 DEF TypeOK
    <3> QED  BY <1>0, <1>1, <3>1, DueFrame
  <2> QED  BY <2>2, <2>3
<1>3. ASSUME NEW p \in Procs, Work(p)  PROVE \A q \in Procs : Due(q)'
  <2> SUFFICES Due(p)'
    BY <1>0, <1>1, <1>3, OthersKeep, DueFrame
  <2>2. CASE FlightWork(p)
    <3>1. UNCHANGED <<pc, kind, sends, cred>>
      BY <2>2 DEF FlightWork, LeadFlight, JoinFlight, GrantAccepted, GrantFailed,
                  AnswerFlight, UnregisterFlight, ReleaseFlight
    <3> QED  BY <1>0, <1>1, <3>1, DueFrame
  <2>3. CASE PrepareRefresh(p)
    <3>1. /\ pc[p] = "prepare" /\ (Forced(p) \/ needsRefresh(cred[p]))
          /\ pc' = [pc EXCEPT ![p] = "flight"] /\ UNCHANGED <<now, cred>>
      BY <2>3 DEF PrepareRefresh
    <3> QED  BY <1>0, <3>1 DEF Due, needsRefresh, TypeOK
  <2>4. CASE Send(p)
    <3>1. /\ pc'[p] = "done" \/ (pc'[p] = "prepare" /\ ~Valid(cred[p]))
          /\ UNCHANGED <<now, cred>>
      BY <1>0, <2>4 DEF Send, TypeOK
    <3>2. cred[p].exp \in Nat
      BY <1>0, BoundsAssumption DEF TypeOK, Pairs
    <3>3. ~Valid(cred[p]) => needsRefresh(cred[p])
      BY <1>0, <3>2 DEF Valid, needsRefresh, Whole
    <3> QED  BY <3>1, <3>3 DEF Due, needsRefresh
  <2>5. CASE Deliver(p)
    <3>1. pc'[p] = "idle" /\ sends'[p] = 0
      BY <1>0, <2>5 DEF Deliver, TypeOK
    <3> QED  BY <3>1 DEF Due
  <2>6. CASE \/ PrepareFresh(p) \/ Apply(p) \/ Defer(p) \/ Fail(p) \/ Persist(p)
             \/ GiveUp(p) \/ Enrich(p) \/ HandOver(p)
    <3>1. pc'[p] \in {"persist", "ready", "save", "done"}
      BY <1>0, <2>6 DEF TypeOK, PrepareFresh, Apply, Defer, Fail, Persist, GiveUp, Enrich,
                        HandOver
    <3> QED  BY <3>1 DEF Due
  <2> QED  BY <1>3, <2>2, <2>3, <2>4, <2>5, <2>6 DEF Work
<1>4. CASE Restart
  <2>1. \A q \in Procs : pc'[q] = "idle" /\ sends'[q] = 0
    BY <1>4 DEF Restart
  <2> QED  BY <2>1 DEF Due
<1>5. CASE HostReload \/ Tick \/ Revoke \/ UNCHANGED vars
  <2>1. UNCHANGED <<pc, kind, sends, cred>>
    BY <1>5 DEF HostReload, Tick, Revoke, vars
  <2> QED  BY <1>0, <1>1, <2>1, DueFrame
<1> QED  BY <1>2, <1>3, <1>4, <1>5 DEF Next

-----------------------------------------------------------------------------
(* Whoever has a new pair in hand has the live one, and it is not due *)

\* While a new pair is on its way to the stores, the clock stands still.
LEMMA ClockStands ==
  ASSUME Timely, CredInv, Tick, NEW q \in Procs
  PROVE  ~Granted(wire[q]) /\ ~Told(q) /\ ~Stores(q)
<1>1. ~Busy(q) /\ ~(pc[q] = "ready" /\ kind[q] = "refresh")
  BY DEF Timely, Tick
<1>2. InFlight(q)
  BY DEF CredInv
<1> QED  BY <1>1, <1>2 DEF Busy, InFlight, Granted, Told, Stores

LEMMA YoungGrant ==
  ASSUME Timely, CredInv, Timed, NEW p \in Procs, GrantAccepted(p), NEW q \in Procs
  PROVE  Young(q)'
<1>0. /\ Whole /\ Distinct /\ Due(p) /\ Young(q) /\ InFlight(p)
      /\ "noRotate" \notin Faults /\ RefreshLead < FallbackLife
  BY DEF Timed, Timely, CredInv
<1>1. /\ stage[p] = "leading" /\ wire[p] = None /\ cred[p].rt = live
      /\ issued' = issued + 1 /\ now' = now + 1 /\ live' = issued + 1
      /\ UNCHANGED <<pc, cred, flight>> /\ \A r \in Procs \ {p} : wire'[r] = wire[r]
      /\ Granted(wire'[p]) =>
            /\ wire'[p].pair.at = issued + 1 /\ wire'[p].pair.rt = issued + 1
            /\ wire'[p].pair.exp \in {now' + Life, now' + FallbackLife}
  BY <1>0, GrantStep
<1>2. kind' = kind
  BY DEF GrantAccepted, request
<1>3. ASSUME NEW X \in Held  PROVE ~Fresh(X)
  <2>1. cred[p] \in Held /\ needsRefresh(cred[p])
    BY <1>0, <1>1 DEF Held, Due, InFlight
  <2>2. X.rt = live => X = cred[p]
    BY <1>0, <1>1, <2>1 DEF Distinct
  <2> QED  BY <2>1, <2>2 DEF Fresh
<1>4. ~Granted(wire[q]) /\ ~Told(q) /\ ~Stores(q)
  <2>1. Granted(wire[q]) => wire[q].pair \in Held
    BY DEF Held
  <2>2. Told(q) => outcome[q].pair \in Held
    BY DEF Held
  <2>3. cred[q] \in Held
    BY DEF Held
  <2> QED  BY <1>0, <1>3, <2>1, <2>2, <2>3 DEF Young
<1>5. ~Told(q)' /\ ~Stores(q)'
  BY <1>1, <1>2, <1>4 DEF Told, Stores, Granted, flight
<1>6. Granted(wire'[q]) => Fresh(wire[q].pair)'
  <2>1. Granted(wire'[q]) => q = p
    BY <1>1, <1>4
  <2>2. {now, issued, RefreshLead, Life, FallbackLife} \subseteq Nat /\ FallbackLife <= Life
    BY Numbered
  <2> QED  BY <1>0, <1>1, <2>1, <2>2 DEF Fresh, needsRefresh
<1> QED  BY <1>5, <1>6 DEF Young, Told, Stores

LEMMA YoungTravels ==
  ASSUME Timely, CredInv, TypeOK', Timed, [Next]_vars, Travel,
         \A p \in Procs : ~GrantAccepted(p), NEW q \in Procs
  PROVE  Young(q)'
<1>0. /\ TypeOK /\ \A p \in Procs : Due(p) /\ Young(p) /\ InFlight(p)
      /\ StoresMove /\ AnswerMoves(q)
  BY DEF CredInv, Timed, Travel
<1>1. CASE Tick
  <2>1. ~Granted(wire[q]) /\ ~Told(q) /\ ~Stores(q)
    BY <1>1, ClockStands
  <2>2. UNCHANGED <<wire, stage, outcome, pc, kind>>
    BY <1>1 DEF Tick, request, flight
  <2> QED  BY <2>1, <2>2 DEF Young, Granted, Told, Stores
<1>2. CASE ~Tick
  <2>1. now' = now /\ live' = live
    BY <1>0, <1>2, ClockMoves DEF StoresMove
  <2>2. \A X : Fresh(X) => Fresh(X)'
    BY <2>1 DEF Fresh, needsRefresh
  <2>3. Granted(wire'[q]) => Fresh(wire[q].pair)'
    BY <1>0, <2>2 DEF AnswerMoves, Young, Fresh, needsRefresh
  <2>4. Told(q)' => Fresh(outcome[q].pair)'
    <3>1. Told(q)' => Granted(outcome'[q])
      BY DEF Told
    <3>2. Told(q)' => \/ Granted(wire[q]) /\ outcome'[q] = wire[q]
                      \/ \E r \in Procs : Told(r) /\ outcome'[q] = outcome[r]
      BY <1>0, <3>1 DEF AnswerMoves
    <3> QED  BY <1>0, <2>1, <3>2 DEF Young, Fresh, needsRefresh
  <2>5. Stores(q)' => Fresh(cred[q])'
    <3> SUFFICES ASSUME Stores(q)'
                 PROVE  \/ Fresh(cred[q]) /\ cred'[q] = cred[q]
                        \/ Fresh(cred[q])'
      BY <2>1 DEF Fresh, needsRefresh
    <3> USE DEF upstream, stores, request
    <3>1. CASE pc'[q] = pc[q] /\ kind'[q] = kind[q] /\ cred'[q] = cred[q]
      BY <1>0, <3>1 DEF Stores, Young
    <3>2. ASSUME NEW k \in Operations, Receive(q, k)  PROVE FALSE
      BY <1>0, <3>2 DEF Receive, Stores, TypeOK
    <3>3. CASE Apply(q)
      <4>1. /\ stage[q] = "released" /\ outcome[q].why = "ok"
            /\ cred'[q] = outcome[q].pair
        BY <1>0, <3>3 DEF Apply, TypeOK
      <4>2. Told(q)
        BY <4>1, DataAssumption DEF CredInv, Single!FlightInv, Single!AnswerKnown, Granted, Told
      <4> QED  BY <1>0, <2>1, <4>1, <4>2 DEF Young, Fresh, needsRefresh
    <3>4. CASE Persist(q)
      <4>1. Stores(q) /\ cred'[q] = cred[q]
        BY <3>4 DEF Persist, Stores
      <4> QED  BY <1>0, <4>1 DEF Young
    <3>5. CASE Enrich(q)
      <4>1. /\ Stores(q) /\ pc[q] # "idle" /\ pc'[q] # "idle"
            /\ snap' = snap /\ cred[q] \in Pairs
        BY <1>0, <3>5 DEF Enrich, Stores, TypeOK
      <4>2. PICK id \in {cred[q].id} \union {"learnsId" \in Faults /\ Valid(cred[q])} :
                cred' = [cred EXCEPT ![q] = [cred[q] EXCEPT !.id = id \/ @]]
        BY <3>5 DEF Enrich
      <4>3. /\ cred'[q].at = cred[q].at /\ cred'[q].rt = cred[q].rt
            /\ cred'[q].exp = cred[q].exp
        BY <1>0, <4>1, <4>2 DEF TypeOK, Pairs
      <4> QED  BY <1>0, <2>1, <4>1, <4>3 DEF Young, Fresh, needsRefresh
    <3>6. CASE Work(q) /\ ~Apply(q) /\ ~Persist(q) /\ ~Enrich(q)
      <4>1. ~Defer(q)
        BY <1>0 DEF Defer, Due
      <4>2. CASE FlightWork(q)
        <5>1. UNCHANGED <<pc, kind, cred>>
          BY <4>2 DEF FlightWork, LeadFlight, JoinFlight, GrantAccepted, GrantFailed,
                      AnswerFlight, UnregisterFlight, ReleaseFlight
        <5> QED  BY <3>1, <5>1
      <4>3. CASE PrepareFresh(q)
        <5>1. pc'[q] = "ready" /\ kind'[q] # "refresh"
          BY <1>0, <4>3 DEF PrepareFresh, Forced, TypeOK
        <5> QED  BY <5>1 DEF Stores
      <4>4. CASE \/ PrepareRefresh(q) \/ Fail(q) \/ Send(q) \/ GiveUp(q) \/ HandOver(q)
                 \/ Deliver(q)
        <5>1. pc'[q] \in {"idle", "prepare", "flight", "done"}
          BY <1>0, <4>4 DEF TypeOK, PrepareRefresh, Fail, Send, GiveUp, HandOver, Deliver
        <5> QED  BY <5>1 DEF Stores
      <4> QED  BY <3>6, <4>1, <4>2, <4>3, <4>4 DEF Work
    <3>7. ASSUME NEW p \in Procs \ {q}, Work(p) \/ \E k \in Operations : Receive(p, k)
          PROVE  pc'[q] = pc[q] /\ kind'[q] = kind[q] /\ cred'[q] = cred[q]
      BY <1>0, <3>7, OthersKeep
    <3>8. CASE Restart
      BY <3>8 DEF Restart, Stores
    <3>9. CASE HostReload \/ Revoke \/ UNCHANGED vars
      <4>1. UNCHANGED <<pc, kind, cred>>
        BY <3>9 DEF HostReload, Revoke, vars
      <4> QED  BY <3>1, <4>1
    <3> QED
      BY <1>2, <3>1, <3>2, <3>3, <3>4, <3>5, <3>6, <3>7, <3>8, <3>9 DEF Next
  <2> QED  BY <2>3, <2>4, <2>5 DEF Young, Told, Stores
<1> QED  BY <1>1, <1>2

LEMMA TimedStep ==
  ASSUME Timely, CredInv, CredInv', Timed, [Next]_vars
  PROVE  Timed'
<1>1. \A q \in Procs : Due(q)'
  BY DueStep
<1>2. TypeOK' /\ revoked' = revoked /\ "learnsId" \notin Faults
  BY Unrevoked DEF CredInv, Timely
<1>3. CASE \A p \in Procs : ~GrantAccepted(p)
  BY <1>1, <1>2, <1>3, TravelStep, WholeTravels, YoungTravels DEF Timed
<1>4. ASSUME NEW p \in Procs, GrantAccepted(p)  PROVE Timed'
  BY <1>1, <1>2, <1>4, WholeGrant, YoungGrant DEF Timed
<1> QED  BY <1>3, <1>4

\* In a run without delays and revocations, pairs are told apart by their refresh tokens,
\* and whoever brings one to the stores has the one that Cline accepts.
THEOREM NewPairIsLive ==
  ASSUME Timely
  PROVE  Spec => []Timed
<1>1. CredInv /\ CredInv' /\ Timed /\ [Next]_vars => Timed'
  BY TimedStep
<1> QED  BY <1>1, InitTimed, CredInvariant, PTL DEF Spec

-----------------------------------------------------------------------------
(* What is written to the cache *)

\* An entry is replaced by the live pair of its name, or lost with the process.
LEMMA CacheWrites ==
  ASSUME Timely, CredInv, TypeOK', Timed, [Next]_vars, NEW k \in Keys, cache'[k] # cache[k]
  PROVE  \/ Restart /\ cache'[k] = NoPair
         \/ /\ live' = live /\ cache'[k].rt = live
            /\ \E p \in Procs : AnswerFlight(p) \/ Apply(p) \/ Enrich(p)
<1>0. /\ TypeOK /\ \A p \in Procs : Young(p) /\ InFlight(p)
  BY DEF CredInv, Timed
<1> USE DEF upstream, stores
<1>1. ASSUME NEW p \in Procs, AnswerFlight(p)  PROVE live' = live /\ cache'[k].rt = live
  <2>1. wire[p] # None /\ wire[p].why = "ok" /\ cache'[k] = wire[p].pair /\ live' = live
    BY <1>0, <1>1 DEF AnswerFlight, TypeOK
  <2> QED  BY <1>0, <2>1 DEF Young, Granted, Fresh
<1>2. ASSUME NEW p \in Procs, Apply(p)  PROVE live' = live /\ cache'[k].rt = live
  <2>1. /\ stage[p] = "released" /\ outcome[p].why = "ok"
        /\ cache'[k] = outcome[p].pair /\ live' = live
    BY <1>0, <1>2 DEF Apply, TypeOK
  <2>2. Told(p)
    BY <2>1, DataAssumption DEF CredInv, Single!FlightInv, Single!AnswerKnown, Granted, Told
  <2> QED  BY <1>0, <2>1, <2>2 DEF Young, Fresh
<1>3. ASSUME NEW p \in Procs, Enrich(p)  PROVE live' = live /\ cache'[k].rt = live
  <2>1. PICK id \in {cred[p].id} \union {"learnsId" \in Faults /\ Valid(cred[p])} :
            cache' = [cache EXCEPT ![credentialKey([cred[p] EXCEPT !.id = id \/ @])] =
                          [cred[p] EXCEPT !.id = id \/ @]]
    BY <1>3 DEF Enrich
  <2>2. Stores(p) /\ live' = live /\ cred[p] \in Pairs
    BY <1>0, <1>3 DEF Enrich, Stores, TypeOK
  <2>3. cache'[k] = [cred[p] EXCEPT !.id = id \/ @]
    BY <1>0, <2>1 DEF TypeOK
  <2>4. cache'[k].rt = cred[p].rt
    BY <2>2, <2>3 DEF Pairs
  <2> QED  BY <1>0, <2>2, <2>4 DEF Young, Fresh
<1>4. CASE Restart
  BY <1>4 DEF Restart
<1>5. ASSUME NEW p \in Procs, Work(p) \/ \E op \in Operations : Receive(p, op),
             ~AnswerFlight(p), ~Apply(p), ~Enrich(p)
      PROVE  cache' = cache
  BY <1>5 DEF Work, FlightWork, Receive, PrepareFresh, PrepareRefresh, LeadFlight, JoinFlight,
              GrantAccepted, GrantFailed, UnregisterFlight, ReleaseFlight, Defer, Fail,
              Persist, Send, GiveUp, HandOver, Deliver
<1>6. CASE HostReload \/ Tick \/ Revoke \/ UNCHANGED vars
  BY <1>6 DEF HostReload, Tick, Revoke, vars
<1> QED  BY <1>1, <1>2, <1>3, <1>4, <1>5, <1>6 DEF Next

\* token.go:66-69: nothing older replaces a cached credential.
THEOREM NewestIsCached ==
  ASSUME Timely
  PROVE  Spec => CacheHoldsNewest
<1> DEFINE Newer == \A k \in Keys : cache'[k].at >= cache[k].at \/ restarts' # restarts
<1>1. CredInv /\ CredInv' /\ Timed /\ Timed' /\ [Next]_vars => [Newer]_vars
  <2> SUFFICES ASSUME CredInv, CredInv', Timed, Timed', [Next]_vars, NEW k \in Keys
               PROVE  cache'[k].at >= cache[k].at \/ restarts' # restarts
    OBVIOUS
  <2>1. cache[k] \in Held /\ cache[k] \in Pairs
    BY DEF Held, CredInv, TypeOK
  <2>2. cache[k].at \in Nat /\ issued \in Nat /\ 1 <= issued /\ restarts \in Nat
    BY <2>1, Numbered, BoundsAssumption DEF CredInv, TypeOK
  <2>3. cache[k].at <= issued
    BY <2>1, <2>2 DEF Timed, Whole, NoPair
  <2>4. CASE Restart
    BY <2>2, <2>4 DEF Restart
  <2>5. CASE cache'[k] # cache[k] /\ live' = live /\ cache'[k].rt = live
    <3>1. cache'[k] \in Held' /\ live = issued /\ issued' = issued
      BY <2>5 DEF Held, Timed, Whole
    <3>2. cache'[k] # NoPair
      BY <2>2, <2>5, <3>1, NotNoPair
    <3>3. cache'[k].at = issued
      BY <2>5, <3>1, <3>2 DEF Timed, Whole
    <3> QED  BY <2>2, <2>3, <3>3
  <2>6. CASE cache'[k] = cache[k]
    BY <2>2, <2>6
  <2> QED  BY <2>4, <2>5, <2>6, CacheWrites DEF CredInv
<1> QED
  BY <1>1, NewPairIsLive, CredInvariant, PTL DEF Spec, CacheHoldsNewest

-----------------------------------------------------------------------------
(* Where the live pair is *)

\* A new pair that is not in the file yet is on its way there.
Landing(q) == Granted(wire[q]) \/ Told(q) \/ pc[q] = "persist"
Lands == disk.rt = live \/ \E q \in Procs : Landing(q)
OnDisk == \A X \in Held : X.rt = live => Lands

\* Unless it is on its way to the leader, it is cached, or it is the file's and nothing is.
Cached ==
    \A X \in Held : X.rt = live =>
        \/ cache[credentialKey(X)] = X
        \/ cache[credentialKey(X)] = NoPair /\ X = disk
        \/ \E q \in Procs : Granted(wire[q])

\* Memory is empty only as long as the file is what the host has.
Filled == \E k \in Keys : cache[k] # NoPair
Filling(p) == Stores(p) \/ (pc[p] = "done" /\ kind[p] = "refresh" /\ reply[p] = "served")
Empty == ~Filled => host = disk

\* A goroutine has no answer before there is one.
Cleared(p) ==
    stage[p] \notin {"answered", "unregistered", "released"} => outcome[p] = None

Placed ==
    Cached /\ Empty /\ \A p \in Procs : Cleared(p) /\ (Filling(p) => Filled)

LEMMA InitPlaced ==
  ASSUME Timely, Init  PROVE Placed /\ OnDisk
<1>1. OnDisk /\ Cached
  <2>1. /\ disk.rt = 1 /\ live = 1 /\ \A k \in Keys : cache[k] = NoPair
        /\ \A X \in Held : X = NoPair \/ X = disk
    BY DEF Init, NoRequest, Timely, Held, Granted, Told
  <2>2. \A X : credentialKey(X) \in Keys
    BY DEF credentialKey, Keys
  <2>3. NoPair.rt = 0
    BY DEF NoPair
  <2> QED  BY <2>1, <2>2, <2>3 DEF OnDisk, Lands, Cached
<1>2. Empty /\ \A p \in Procs : Cleared(p) /\ ~Filling(p)
  BY DEF Init, NoRequest, Empty, Cleared, Filling, Stores
<1> QED  BY <1>1, <1>2 DEF Placed

LEMMA ClearedStep ==
  ASSUME CredInv, [Next]_vars, \A p \in Procs : Cleared(p), NEW q \in Procs
  PROVE  Cleared(q)'
<1>0. TypeOK /\ Single!TypeOK /\ \A p \in Procs : Cleared(p)
  BY DEF CredInv, Single!FlightInv
<1> USE DEF Cleared, Single!TypeOK
<1>1. CASE Restart
  BY <1>1 DEF Restart
<1>2. CASE UNCHANGED flight
  BY <1>0, <1>2 DEF flight
<1>3. ASSUME NEW p \in Procs, NEW k \in Keys, Single!Call(p, k)  PROVE Cleared(q)'
  BY <1>0, <1>3 DEF Single!Call
<1>4. ASSUME NEW p \in Procs, Single!Lead(p) \/ Single!Join(p)  PROVE Cleared(q)'
  BY <1>0, <1>4 DEF Single!Lead, Single!Join
<1>5. ASSUME NEW p \in Procs, NEW o \in Outcomes, Single!Answer(p, o)  PROVE Cleared(q)'
  BY <1>0, <1>5 DEF Single!Answer
<1>6. ASSUME NEW p \in Procs, Single!Unregister(p) \/ Single!Return(p)  PROVE Cleared(q)'
  BY <1>0, <1>6 DEF Single!Unregister, Single!Return
<1>7. ASSUME NEW p \in Procs, Single!Release(p)  PROVE Cleared(q)'
  BY <1>0, <1>7 DEF Single!Release
<1>8. CASE ~Restart /\ ~UNCHANGED flight
  <2>1. Single!Next
    BY <1>0, <1>8, FlightMoves DEF Single!vars, flight
  <2> QED  BY <1>3, <1>4, <1>5, <1>6, <1>7, <2>1 DEF Single!Next, Single!Work
<1> QED  BY <1>1, <1>2, <1>8

\* An answer leaves the wire only for its leader.
LEMMA WireKept ==
  ASSUME CredInv, [Next]_vars, ~Restart, NEW q \in Procs, Granted(wire[q])
  PROVE  \/ Granted(wire'[q]) /\ wire'[q] = wire[q]
         \/ AnswerFlight(q) /\ Told(q)' /\ outcome'[q] = wire[q]
<1>0. TypeOK /\ Single!TypeOK /\ wire[q] # None /\ wire[q].why = "ok"
  BY DEF CredInv, Single!FlightInv, Granted
<1>1. CASE AnswerFlight(q)
  <2>1. stage'[q] = "answered" /\ outcome'[q] = wire[q]
    BY <1>0, <1>1 DEF AnswerFlight, Flight!Answer, Single!TypeOK
  <2> QED  BY <1>0, <1>1, <2>1 DEF Told, Granted
<1>2. ASSUME NEW p \in Procs, AnswerFlight(p), p # q  PROVE wire'[q] = wire[q]
  BY <1>0, <1>2 DEF AnswerFlight, TypeOK
<1>3. ASSUME NEW p \in Procs, GrantAccepted(p)  PROVE wire'[q] = wire[q]
  BY <1>0, <1>3, GrantStep
<1>4. ASSUME NEW p \in Procs, GrantFailed(p)  PROVE wire'[q] = wire[q]
  <2>1. wire[p] = None /\ \E o : wire' = [wire EXCEPT ![p] = o]
    BY <1>4 DEF GrantFailed
  <2> QED  BY <1>0, <2>1 DEF TypeOK
<1>5. ASSUME NEW p \in Procs, Work(p) \/ \E k \in Operations : Receive(p, k),
             ~AnswerFlight(p), ~GrantAccepted(p), ~GrantFailed(p)
      PROVE  wire' = wire
  BY <1>5 DEF Work, FlightWork, Receive, PrepareFresh, PrepareRefresh, LeadFlight, JoinFlight,
              UnregisterFlight, ReleaseFlight, Apply, Defer, Fail, Persist, Send, GiveUp,
              Enrich, HandOver, Deliver
<1>6. CASE HostReload \/ Tick \/ Revoke \/ UNCHANGED vars
  BY <1>6 DEF HostReload, Tick, Revoke, vars
<1>7. CASE wire'[q] = wire[q]
  BY <1>7
<1> QED  BY <1>1, <1>2, <1>3, <1>4, <1>5, <1>6, <1>7 DEF Next

\* Who was told of a pair keeps it until it applies it.
LEMMA ToldKept ==
  ASSUME CredInv, [Next]_vars, ~Restart, NEW q \in Procs, Told(q)
  PROVE  Apply(q) \/ (Told(q)' /\ outcome'[q] = outcome[q])
<1>0. /\ TypeOK /\ Single!TypeOK /\ InFlight(q)
      /\ stage[q] \in {"answered", "unregistered", "released"} /\ Granted(outcome[q])
  BY DEF CredInv, Single!FlightInv, Told
<1>1. ASSUME stage'[q] \in {"answered", "unregistered", "released"}, outcome'[q] = outcome[q]
      PROVE  Told(q)' /\ outcome'[q] = outcome[q]
  BY <1>0, <1>1 DEF Told, Granted
<1> USE DEF Single!TypeOK
<1>2. CASE UNCHANGED flight
  BY <1>0, <1>1, <1>2 DEF flight
<1>3. ASSUME NEW p \in Procs, NEW k \in Keys, Single!Call(p, k)
      PROVE  stage'[q] = stage[q] /\ outcome'[q] = outcome[q]
  BY <1>0, <1>3 DEF Single!Call
<1>4. ASSUME NEW p \in Procs, Single!Lead(p) \/ Single!Join(p)
      PROVE  stage'[q] = stage[q] /\ outcome'[q] = outcome[q]
  BY <1>0, <1>4 DEF Single!Lead, Single!Join
<1>5. ASSUME NEW p \in Procs, NEW o \in Outcomes, Single!Answer(p, o)
      PROVE  stage'[q] = stage[q] /\ outcome'[q] = outcome[q]
  BY <1>0, <1>5 DEF Single!Answer
<1>6. ASSUME NEW p \in Procs, Single!Unregister(p) \/ Single!Release(p)
      PROVE  /\ stage'[q] \in {"answered", "unregistered", "released"}
             /\ outcome'[q] = outcome[q]
  BY <1>0, <1>6 DEF Single!Unregister, Single!Release, Single!Party
<1>7. ASSUME NEW p \in Procs, Single!Return(p), p # q
      PROVE  stage'[q] = stage[q] /\ outcome'[q] = outcome[q]
  BY <1>0, <1>7 DEF Single!Return
<1>8. CASE Single!Return(q)
  <2>1. stage[q] = "released" /\ stage'[q] = "out"
    BY <1>0, <1>8 DEF Single!Return
  <2>2. PICK p \in Procs : Work(p)
    BY <2>1 DEF Next, Receive, HostReload, Tick, Revoke, vars, flight
  <2>3. Apply(p) \/ Defer(p) \/ Fail(p)
    BY <1>0, <2>1, <2>2
    DEF Work, FlightWork, PrepareFresh, PrepareRefresh, Flight!Call, LeadFlight, Flight!Lead,
        JoinFlight, Flight!Join, GrantAccepted, GrantFailed, AnswerFlight, Flight!Answer,
        UnregisterFlight, Flight!Unregister, ReleaseFlight, Flight!Release, Persist, Send,
        GiveUp, Enrich, HandOver, Deliver, flight
  <2>4. Flight!Return(p)
    BY <2>3 DEF Apply, Defer, Fail
  <2>5. p = q
    BY <1>0, <2>1, <2>4 DEF Flight!Return
  <2> QED  BY <1>0, <2>3, <2>5 DEF Defer, Fail, Granted
<1>9. CASE ~UNCHANGED flight
  <2>1. Single!Next
    BY <1>0, <1>9, FlightMoves DEF Single!vars, flight
  <2> QED  BY <1>0, <1>1, <1>3, <1>4, <1>5, <1>6, <1>7, <1>8, <2>1 DEF Single!Next, Single!Work
<1> QED  BY <1>2, <1>9

-----------------------------------------------------------------------------
LEMMA LiveIsAPair ==
  ASSUME CredInv, Whole
  PROVE  /\ live \in Nat /\ 1 <= live
         /\ \A X : X.rt = live => X # NoPair
<1>1. live \in Nat /\ 1 <= live
  BY Numbered DEF Whole
<1> QED  BY <1>1 DEF NoPair

LEMMA FilledKept ==
  ASSUME Timely, CredInv, TypeOK', Timed, [Next]_vars, ~Restart, Filled
  PROVE  Filled'
<1>1. PICK k \in Keys : cache[k] # NoPair
  BY DEF Filled
<1>2. cache'[k] # cache[k] => cache'[k].rt = live
  BY CacheWrites
<1>3. cache'[k] # NoPair
  BY <1>1, <1>2, LiveIsAPair DEF Timed
<1> QED  BY <1>3 DEF Filled

\* What Apply and Enrich write fills the cache.
LEMMA FillingStep ==
  ASSUME Timely, CredInv, TypeOK', Timed, [Next]_vars,
         \A p \in Procs : Filling(p) => Filled, NEW q \in Procs, Filling(q)'
  PROVE  Filled'
<1>0. TypeOK /\ Whole /\ Due(q) /\ InFlight(q) /\ \A p \in Procs : Young(p)
  BY DEF CredInv, Timed
<1>1. ASSUME Filling(q), ~Restart  PROVE Filled'
  BY <1>1, FilledKept
<1>2. CASE pc'[q] = pc[q] /\ kind'[q] = kind[q] /\ reply'[q] = reply[q] /\ ~Restart
  BY <1>1, <1>2 DEF Filling, Stores
<1> USE DEF upstream, stores, request
<1>3. ASSUME NEW k \in Operations, Receive(q, k)  PROVE Filled'
  <2>1. k = "refresh" /\ newCredential(host) # host
    BY <1>0, <1>3 DEF Receive, Filling, Stores, TypeOK
  <2>2. credentialKey(host) \in Keys /\ host.exp \in Nat
    BY <1>0, BoundsAssumption DEF credentialKey, Keys, TypeOK, Pairs
  <2>3. cache[credentialKey(host)] # NoPair
    BY <2>1, <2>2 DEF newCredential, NoPair
  <2>4. cache' = cache
    BY <1>3 DEF Receive
  <2> QED  BY <2>2, <2>3, <2>4 DEF Filled
<1>4. CASE Apply(q)
  <2>1. /\ stage[q] = "released" /\ outcome[q].why = "ok"
        /\ cache' = [cache EXCEPT ![credentialKey(outcome[q].pair)] = outcome[q].pair]
    BY <1>4 DEF Apply
  <2>2. Told(q)
    BY <2>1, DataAssumption DEF CredInv, Single!FlightInv, Single!AnswerKnown, Granted, Told
  <2>3. outcome[q].pair # NoPair /\ credentialKey(outcome[q].pair) \in Keys
    BY <1>0, <2>2, LiveIsAPair DEF Young, Fresh, credentialKey, Keys
  <2>4. cache'[credentialKey(outcome[q].pair)] = outcome[q].pair
    BY <1>0, <2>1, <2>3 DEF TypeOK
  <2> QED  BY <2>3, <2>4 DEF Filled
<1>5. CASE Persist(q) \/ Enrich(q)
  <2>1. Stores(q)
    BY <1>5 DEF Persist, Enrich, Stores
  <2>2. ~Restart
    <3>1. pc'[q] # "idle"
      BY <1>0, <1>5 DEF Persist, Enrich, TypeOK
    <3> QED  BY <3>1 DEF Restart
  <2> QED  BY <1>1, <2>1, <2>2 DEF Filling
<1>6. CASE Work(q) /\ ~Apply(q) /\ ~Persist(q) /\ ~Enrich(q)
  <2>1. ~Defer(q)
    BY <1>0 DEF Defer, Due
  <2>2. CASE PrepareFresh(q) \/ HandOver(q) \/ Send(q) \/ GiveUp(q)
    <3>1. kind[q] # "refresh" /\ kind' = kind /\ pc'[q] \in {"prepare", "ready", "done"}
      BY <1>0, <2>2 DEF PrepareFresh, HandOver, Send, GiveUp, Forced, TypeOK
    <3> QED  BY <3>1 DEF Filling, Stores
  <2>3. CASE PrepareRefresh(q) \/ Deliver(q)
    <3>1. pc'[q] \in {"flight", "idle"}
      BY <1>0, <2>3 DEF PrepareRefresh, Deliver, TypeOK
    <3> QED  BY <3>1 DEF Filling, Stores
  <2>4. CASE Fail(q)
    <3>1. /\ pc'[q] = "done" /\ kind' = kind
          /\ reply'[q] = FailureReply(kind[q], outcome[q].why)
      BY <1>0, <2>4 DEF Fail, TypeOK
    <3>2. kind[q] = "refresh" => FailureReply(kind[q], outcome[q].why) = "failed"
      BY DEF FailureReply
    <3> QED  BY <3>1, <3>2 DEF Filling, Stores
  <2>5. CASE FlightWork(q)
    <3>1. UNCHANGED <<pc, kind, reply>>
      BY <2>5 DEF FlightWork, LeadFlight, JoinFlight, GrantAccepted, GrantFailed,
                  AnswerFlight, UnregisterFlight, ReleaseFlight
    <3>2. Filling(q) /\ ~Restart
      <4>1. pc[q] = "flight"
        BY <1>0, <2>5 DEF FlightWork, LeadFlight, Flight!Lead, JoinFlight, Flight!Join,
                    GrantAccepted, GrantFailed, AnswerFlight, Flight!Answer, UnregisterFlight,
                    Flight!Unregister, ReleaseFlight, Flight!Release, InFlight
      <4> QED  BY <3>1, <4>1 DEF Filling, Stores
    <3> QED  BY <1>1, <3>2
  <2> QED  BY <1>6, <2>1, <2>2, <2>3, <2>4, <2>5 DEF Work
<1>7. ASSUME NEW p \in Procs \ {q}, Work(p) \/ \E k \in Operations : Receive(p, k)
      PROVE  Filled'
  <2>1. pc'[q] = pc[q] /\ kind'[q] = kind[q] /\ reply'[q] = reply[q]
    BY <1>0, <1>7, OthersKeep
  <2>2. pc'[q] # "idle"
    BY DEF Filling, Stores
  <2> QED  BY <1>2, <2>1, <2>2 DEF Restart
<1>8. CASE Restart
  BY <1>8 DEF Restart, Filling, Stores
<1>9. CASE HostReload \/ Tick \/ Revoke \/ UNCHANGED vars
  <2>1. UNCHANGED <<pc, kind, reply>>
    BY <1>9 DEF HostReload, Tick, Revoke, vars
  <2>2. pc'[q] # "idle"
    BY DEF Filling, Stores
  <2> QED  BY <1>2, <2>1, <2>2 DEF Restart
<1> QED  BY <1>3, <1>4, <1>5, <1>6, <1>7, <1>8, <1>9 DEF Next

\* The host and the file part only when a pair that is cached reaches one of them.
LEMMA EmptyStep ==
  ASSUME Timely, CredInv, TypeOK', Timed, [Next]_vars, Empty,
         \A p \in Procs : Filling(p) => Filled
  PROVE  Empty'
<1> SUFFICES ASSUME ~Filled'  PROVE host' = disk'
  BY DEF Empty
<1>1. CASE Restart
  BY <1>1 DEF Restart
<1>2. CASE ~Restart
  <2>1. ~Filled /\ host = disk /\ \A p \in Procs : ~Filling(p)
    BY <1>2, FilledKept DEF Empty
  <2> USE DEF stores
  <2>2. ASSUME NEW p \in Procs, Persist(p)  PROVE FALSE
    BY <2>1, <2>2 DEF Persist, Filling, Stores
  <2>3. ASSUME NEW p \in Procs, Deliver(p)  PROVE host' = disk'
    BY <2>1, <2>3 DEF Deliver, Filling
  <2>4. ASSUME NEW p \in Procs, Work(p) \/ \E k \in Operations : Receive(p, k),
               ~Persist(p), ~Deliver(p)
        PROVE  UNCHANGED <<host, disk>>
    BY <2>4 DEF Work, FlightWork, Receive, PrepareFresh, PrepareRefresh, LeadFlight, JoinFlight,
                GrantAccepted, GrantFailed, AnswerFlight, UnregisterFlight, ReleaseFlight,
                Apply, Defer, Fail, Send, GiveUp, Enrich, HandOver
  <2>5. CASE HostReload \/ Tick \/ Revoke \/ UNCHANGED vars
    BY <2>1, <2>5 DEF HostReload, Tick, Revoke, vars
  <2> QED  BY <1>2, <2>1, <2>2, <2>3, <2>4, <2>5 DEF Next
<1> QED  BY <1>1, <1>2

\* The file is written with what a refresh that was applied has in hand.
LEMMA FileWrites ==
  ASSUME [Next]_vars, disk' # disk
  PROVE  \E p \in Procs : Persist(p) /\ disk' = cred[p] /\ Stores(p)
<1> USE DEF stores
<1>1. ASSUME NEW p \in Procs, Persist(p)  PROVE disk' = cred[p] /\ Stores(p)
  BY <1>1 DEF Persist, Stores
<1>2. ASSUME NEW p \in Procs, Work(p) \/ \E k \in Operations : Receive(p, k), ~Persist(p)
      PROVE  disk' = disk
  BY <1>2 DEF Work, FlightWork, Receive, PrepareFresh, PrepareRefresh, LeadFlight, JoinFlight,
              GrantAccepted, GrantFailed, AnswerFlight, UnregisterFlight, ReleaseFlight,
              Apply, Defer, Fail, Send, GiveUp, Enrich, HandOver, Deliver
<1>3. ASSUME HostReload \/ Tick \/ Revoke \/ Restart \/ UNCHANGED vars  PROVE disk' = disk
  BY <1>3 DEF HostReload, Tick, Revoke, Restart, vars
<1> QED  BY <1>1, <1>2, <1>3 DEF Next

LEMMA CachedStep ==
  ASSUME Timely, CredInv, CredInv', Timed, Timed', [Next]_vars, Cached
  PROVE  Cached'
<1>0. /\ TypeOK /\ TypeOK' /\ Whole /\ Distinct /\ Distinct' /\ "learnsId" \notin Faults
      /\ \A q \in Procs : Young(q)
  BY DEF CredInv, Timed, Timely
<1> SUFFICES ASSUME NEW X \in Held', X.rt = live', \A q \in Procs : ~Granted(wire'[q])
             PROVE  \/ cache'[credentialKey(X)] = X
                    \/ cache'[credentialKey(X)] = NoPair /\ X = disk'
  BY DEF Cached, credentialKey, Granted
<1>1. ASSUME NEW p \in Procs, GrantAccepted(p)  PROVE FALSE
  <2>1. live' = issued + 1 /\ X \in Held
    BY <1>1, GrantStep, HeldGrant DEF Timely
  <2>2. X.rt <= issued /\ issued \in Nat
    BY <1>0, <2>1, Numbered DEF Whole, NoPair
  <2> QED  BY <2>1, <2>2
<1>2. Travel /\ live' = live
  BY <1>1, TravelStep DEF Travel, StoresMove
<1>3. X \in Held
  BY <1>0, <1>2, HeldTravels, LiveIsAPair
<1>4. credentialKey(X) \in Keys
  BY DEF credentialKey, Keys
<1>5. CASE Restart
  <2>1. Held' \subseteq {disk', NoPair}
    BY <1>5 DEF Restart, Held, Granted, Told
  <2>2. X # NoPair
    BY <1>0, <1>2, LiveIsAPair
  <2> QED  BY <1>4, <1>5, <2>1, <2>2 DEF Restart
<1>6. CASE ~Restart /\ cache'[credentialKey(X)] # cache[credentialKey(X)]
  <2>1. cache'[credentialKey(X)].rt = live
    BY <1>0, <1>4, <1>6, CacheWrites
  <2>2. cache'[credentialKey(X)] \in Held'
    BY <1>4 DEF Held
  <2> QED  BY <1>0, <1>2, <2>1, <2>2 DEF Distinct
<1>7. ASSUME ~Restart, NEW q \in Procs, Granted(wire[q])
      PROVE  cache'[credentialKey(X)] = X
  <2>1. AnswerFlight(q)
    BY <1>7, WireKept
  <2>2. wire[q].pair = X
    <3>1. wire[q].pair \in Held /\ wire[q].pair.rt = live
      BY <1>0, <1>7 DEF Held, Young, Fresh
    <3> QED  BY <1>0, <1>2, <1>3, <3>1 DEF Distinct
  <2> QED  BY <1>0, <1>4, <1>7, <2>1, <2>2 DEF AnswerFlight, Granted, TypeOK
<1>8. CASE X = disk /\ disk' # disk
  <2>1. PICK p \in Procs : disk' = cred[p] /\ Stores(p)
    BY <1>5, <1>8, FileWrites
  <2>2. cred[p].rt = live /\ cred[p] \in Held
    BY <1>0, <2>1 DEF Young, Fresh, Held
  <2> QED  BY <1>0, <1>2, <1>3, <1>8, <2>1, <2>2 DEF Distinct
<1> QED  BY <1>2, <1>3, <1>5, <1>6, <1>7, <1>8 DEF Cached

\* A pair on its way to the file gets there, unless the process ends before.
LEMMA LandsOn ==
  ASSUME Timely, "saveFail" \notin Faults, CredInv, TypeOK', Timed, [Next]_vars, ~Restart,
         \A p \in Procs : ~GrantAccepted(p), Lands
  PROVE  Lands'
<1>0. /\ TypeOK /\ Whole /\ Distinct
      /\ \A q \in Procs : Young(q) /\ Due(q) /\ InFlight(q)
  BY DEF CredInv, Timed
<1>1. live' = live
  BY TravelStep DEF Travel, StoresMove
<1> USE DEF upstream, stores, request
<1>2. ASSUME NEW p \in Procs, Persist(p)  PROVE disk'.rt = live
  BY <1>0, <1>2 DEF Persist, Young, Stores, Fresh
<1>3. ASSUME disk.rt = live  PROVE Lands'
  BY <1>1, <1>2, <1>3, FileWrites DEF Lands
<1>4. ASSUME NEW q \in Procs, Granted(wire[q])  PROVE Landing(q)'
  BY <1>4, WireKept DEF Landing, Granted
<1>5. ASSUME NEW q \in Procs, Told(q)  PROVE Landing(q)'
  <2>1. CASE Apply(q)
    <3>1. cred[q] \in Held /\ outcome[q].pair \in Held /\ pc[q] = "flight"
      BY <1>5, <2>1 DEF Held, Apply
    <3>2. needsRefresh(cred[q]) /\ ~needsRefresh(outcome[q].pair)
      BY <1>0, <1>5, <3>1 DEF Due, Young, Fresh
    <3>3. outcome[q].pair.rt # cred[q].rt
      BY <1>0, <3>1, <3>2 DEF Distinct
    <3> QED  BY <1>0, <2>1, <3>3 DEF Apply, Landing, TypeOK
  <2> QED  BY <1>5, <2>1, ToldKept DEF Landing
<1>6. ASSUME NEW q \in Procs, pc[q] = "persist", ~Persist(q)  PROVE Landing(q)'
  <2>1. ~Work(q) /\ \A k \in Operations : ~Receive(q, k)
    <3>1. ~FlightWork(q)
      BY <1>0, <1>6 DEF FlightWork, LeadFlight, Flight!Lead, JoinFlight, Flight!Join,
                  GrantAccepted, GrantFailed, AnswerFlight, Flight!Answer, UnregisterFlight,
                  Flight!Unregister, ReleaseFlight, Flight!Release, InFlight
    <3> QED
      BY <1>6, <3>1 DEF Work, Receive, PrepareFresh, PrepareRefresh, Apply, Defer, Fail, Send,
                        GiveUp, Enrich, HandOver, Deliver
  <2>2. ASSUME NEW p \in Procs, Work(p) \/ \E k \in Operations : Receive(p, k)
        PROVE  pc'[q] = pc[q]
    BY <1>0, <2>1, <2>2, OthersKeep
  <2>3. ASSUME HostReload \/ Tick \/ Revoke \/ UNCHANGED vars  PROVE pc'[q] = pc[q]
    BY <2>3 DEF HostReload, Tick, Revoke, vars
  <2>4. pc'[q] = "persist"
    BY <1>6, <2>2, <2>3 DEF Next
  <2> QED  BY <2>4 DEF Landing
<1> QED  BY <1>1, <1>2, <1>3, <1>4, <1>5, <1>6 DEF Lands, Landing

LEMMA OnDiskStep ==
  ASSUME Timely, "saveFail" \notin Faults, CredInv, CredInv', Timed, Timed', [Next]_vars, OnDisk
  PROVE  OnDisk'
<1>0. TypeOK /\ TypeOK' /\ Whole /\ "learnsId" \notin Faults
  BY DEF CredInv, Timed, Timely
<1> SUFFICES ASSUME NEW X \in Held', X.rt = live'
             PROVE  Lands'
  BY DEF OnDisk
<1>1. CASE Restart
  <2>1. Held' \subseteq {disk', NoPair}
    BY <1>1 DEF Restart, Held, Granted, Told
  <2>2. X # NoPair
    BY <1>0, <1>1, LiveIsAPair DEF Restart, upstream
  <2> QED  BY <2>1, <2>2 DEF Lands
<1>2. ASSUME NEW p \in Procs, GrantAccepted(p)  PROVE Lands'
  <2>1. live' = issued + 1
    BY <1>2, GrantStep DEF Timely
  <2>2. X \notin Held
    BY <1>0, <2>1, Numbered DEF Whole, NoPair
  <2>3. Granted(wire'[p])
    BY <1>2, <2>2, HeldGrant
  <2> QED  BY <2>3 DEF Lands, Landing, Granted
<1>3. CASE ~Restart /\ \A p \in Procs : ~GrantAccepted(p)
  <2>1. Travel /\ live' = live
    BY <1>3, TravelStep DEF Travel, StoresMove
  <2>2. X \in Held
    BY <1>0, <2>1, HeldTravels, LiveIsAPair
  <2> QED  BY <1>0, <1>3, <2>1, <2>2, LandsOn DEF OnDisk
<1> QED  BY <1>1, <1>2, <1>3

\* token.go:66-69: a pair that Cline accepts and that is anywhere at all is cached, or
\* still on its way to the leader that caches it, or in the file when nothing is cached.
THEOREM LivePairIsCached ==
  ASSUME Timely
  PROVE  Spec => []Placed
<1>1. CredInv /\ CredInv' /\ Timed /\ Timed' /\ Placed /\ [Next]_vars => Placed'
  <2> SUFFICES ASSUME CredInv, CredInv', Timed, Timed', Placed, [Next]_vars
               PROVE  Placed'
    OBVIOUS
  <2>1. TypeOK' /\ \A p \in Procs : Cleared(p) /\ (Filling(p) => Filled)
    BY DEF CredInv, Placed
  <2>2. Cached' /\ Empty'
    BY <2>1, CachedStep, EmptyStep DEF Placed
  <2>3. ASSUME NEW q \in Procs  PROVE Cleared(q)' /\ (Filling(q)' => Filled')
    BY <2>1, ClearedStep, FillingStep
  <2> QED  BY <2>2, <2>3 DEF Placed
<1>2. Init => Placed
  BY InitPlaced
<1> QED  BY <1>1, <1>2, NewPairIsLive, CredInvariant, PTL DEF Spec

\* token.go:157-160: as long as no save fails, it is in the file or on its way there.
THEOREM LivePairIsSaved ==
  ASSUME Timely, "saveFail" \notin Faults
  PROVE  Spec => []OnDisk
<1>1. CredInv /\ CredInv' /\ Timed /\ Timed' /\ OnDisk /\ [Next]_vars => OnDisk'
  BY OnDiskStep
<1>2. Init => OnDisk
  BY InitPlaced
<1> QED  BY <1>1, <1>2, NewPairIsLive, CredInvariant, PTL DEF Spec

-----------------------------------------------------------------------------
(* What a request, a reader of the file and a user see of it *)

LEMMA InHandIsHeld ==
  ASSUME CredInv, Whole, \A p \in Procs : Cleared(p), live \in InHand
  PROVE  \E X \in Held : X.rt = live
<1>1. live # 0 /\ NoPair.rt = 0
  BY LiveIsAPair DEF NoPair
<1>2. ASSUME NEW p \in Procs, wire[p] # None, wire[p].pair.rt = live
      PROVE  Granted(wire[p])
  BY <1>1, <1>2 DEF CredInv, TypeOK, Outcomes, Granted
<1>3. ASSUME NEW p \in Procs, outcome[p] # None, outcome[p].pair.rt = live
      PROVE  Told(p)
  <2>1. outcome[p] \in Outcomes /\ stage[p] \in {"answered", "unregistered", "released"}
    BY <1>3 DEF CredInv, Single!FlightInv, Single!TypeOK, Cleared
  <2> QED  BY <1>1, <1>3, <2>1 DEF Outcomes, Granted, Told
<1> QED  BY <1>2, <1>3 DEF InHand, Held

LEMMA LandingIsInHand ==
  ASSUME \A p \in Procs : Young(p), Lands
  PROVE  live \in InHand
<1>1. ASSUME NEW q \in Procs, Landing(q)  PROVE live \in InHand
  BY <1>1 DEF Landing, Young, Stores, Fresh, Granted, Told, InHand
<1> QED  BY <1>1 DEF Lands, InHand

LEMMA LandedIsInHand == Timed' /\ Lands' => (live \in InHand)'
<1>1. Timed /\ Lands => live \in InHand
  BY LandingIsInHand DEF Timed
<1> QED  BY <1>1, PTL

\* While no request is in a refresh, every new pair has landed.
LEMMA AllLanded ==
  ASSUME CredInv, NEW q \in Procs, ~Busy(q)
  PROVE  ~Landing(q) /\ ~Granted(wire[q])
  BY DEF CredInv, InFlight, Busy, Landing, Granted, Told

LEMMA AtRest ==
  ASSUME CredInv, Timed, Placed, OnDisk, live \in InHand, \A q \in Procs : ~Busy(q)
  PROVE  disk.rt = live /\ cache[credentialKey(disk)] \in {disk, NoPair}
<1>1. \A q \in Procs : ~Landing(q) /\ ~Granted(wire[q])
  BY AllLanded
<1>2. \E X \in Held : X.rt = live
  BY InHandIsHeld DEF Timed, Placed
<1>3. disk.rt = live /\ disk \in Held
  BY <1>1, <1>2 DEF OnDisk, Lands, Held
<1> QED  BY <1>1, <1>3 DEF Placed, Cached

\* token.go:8-11: once no request is under way, the file holds the pair Cline accepts,
\* unless nobody does, and the cache agrees with it or is empty.
THEOREM QuietAfterwards ==
  ASSUME Timely, "saveFail" \notin Faults
  PROVE  Spec => []QuietAgreement
<1>1. CredInv /\ Timed /\ Placed /\ OnDisk => QuietAgreement
  BY AtRest DEF QuietAgreement, Idle, Busy
<1> QED
  BY <1>1, LivePairIsSaved, LivePairIsCached, NewPairIsLive, CredInvariant, PTL

LEMMA FreshStartStep ==
  ASSUME CredInv, Timed, Placed, OneName, KeysFit, NEW p \in Procs, NEW k \in Operations,
         Receive(p, k), live \in InHand, \A q \in Procs : ~Busy(q)
  PROVE  cred'[p].rt = live
<1>0. TypeOK /\ Whole /\ Distinct /\ Empty
  BY DEF CredInv, Timed, Placed
<1>1. /\ host \in Held /\ disk \in Held /\ host # NoPair
      /\ credentialKey(host) = credentialKey(disk) /\ cred'[p] = newCredential(host)
  BY <1>0 DEF Held, Whole, OneName, Stored, credentialKey, Receive, TypeOK
<1>2. PICK X \in Held : X.rt = live
  BY InHandIsHeld DEF Timed, Placed
<1>3. NoPair.exp = 0 /\ host.exp \in Nat /\ X.exp \in Nat
  BY <1>1, <1>2, Numbered DEF NoPair
<1>4. CASE cache[credentialKey(X)] = X
  <2>1. credentialKey(X) = credentialKey(disk)
    <3>1. X # NoPair /\ credentialKey(X) \in Keys
      BY <1>0, <1>2, LiveIsAPair DEF credentialKey, Keys
    <3>2. X.id = disk.id
      BY <1>4, <3>1 DEF OneName, Stored
    <3> QED  BY <3>2 DEF credentialKey
  <2>2. host = X \/ host.exp < X.exp
    <3>1. host.rt \in Nat /\ host.rt <= issued /\ X.rt = issued /\ issued \in Nat
      BY <1>0, <1>1, <1>2, Numbered DEF Whole
    <3>2. host.rt = X.rt \/ host.rt < X.rt
      BY <3>1
    <3> QED  BY <1>0, <1>1, <1>2, <3>2 DEF Distinct
  <2> QED  BY <1>1, <1>2, <1>3, <1>4, <2>1, <2>2 DEF newCredential
<1>5. CASE cache[credentialKey(X)] = NoPair /\ X = disk
  <2>1. disk.id \in BOOLEAN
    BY <1>0 DEF TypeOK, Pairs
  <2>2. \A n \in Keys : cache[n] = NoPair
    BY <1>5, <2>1 DEF OneName, Stored, KeysFit, Keys, credentialKey
  <2>3. host = disk
    BY <1>0, <2>2 DEF Empty, Filled
  <2> QED  BY <1>1, <1>2, <1>3, <1>5, <2>3 DEF newCredential
<1>6. \A q \in Procs : ~Granted(wire[q])
  BY AllLanded
<1> QED  BY <1>2, <1>4, <1>5, <1>6 DEF Placed, Cached

\* token.go:8-15, 66-69: whatever snapshot the host hands over, a request starts from the
\* pair Cline accepts, unless a refresh is under way at that moment or the login is lost.
THEOREM StartsFresh ==
  ASSUME Timely
  PROVE  Spec => FreshStart
<1> DEFINE Starts ==
      \A p \in Procs : pc[p] = "idle" /\ pc'[p] # "idle" =>
          cred'[p].rt = live \/ live \notin InHand \/ \E q \in Procs : Busy(q)
<1>0. "learnsId" \notin Faults /\ "noRotate" \notin Faults
  BY DEF Timely
<1>1. CredInv /\ OneName /\ [Next]_vars => OneName'
  BY <1>0, OneNameStep
<1>2. CredInv /\ TwoNames /\ [Next]_vars => TwoNames'
  BY <1>0, TwoNamesStep
<1>3. CredInv /\ Timed /\ Placed /\ OneName /\ TwoNames /\ [Next]_vars => [Starts]_vars
  <2> SUFFICES ASSUME CredInv, Timed, Placed, OneName, TwoNames, Next, NEW p \in Procs,
                      pc[p] = "idle", pc'[p] # "idle", live \in InHand,
                      \A q \in Procs : ~Busy(q)
               PROVE  cred'[p].rt = live
    OBVIOUS
  <2>0. TypeOK /\ InFlight(p)
    BY DEF CredInv
  <2>1. ~Work(p)
    <3>1. ~FlightWork(p)
      BY <2>0 DEF FlightWork, LeadFlight, Flight!Lead, JoinFlight, Flight!Join,
                  GrantAccepted, GrantFailed, AnswerFlight, Flight!Answer, UnregisterFlight,
                  Flight!Unregister, ReleaseFlight, Flight!Release, InFlight
    <3> QED
      BY <3>1 DEF Work, PrepareFresh, PrepareRefresh, Apply, Defer, Fail, Persist, Send,
                  GiveUp, Enrich, HandOver, Deliver
  <2>2. ASSUME NEW q \in Procs \ {p}, Work(q) \/ \E k \in Operations : Receive(q, k)
        PROVE  FALSE
    BY <2>0, <2>2, OthersKeep
  <2>3. ~HostReload /\ ~Tick /\ ~Revoke /\ ~Restart
    BY DEF HostReload, Tick, Revoke, Restart
  <2>4. PICK k \in Operations : Receive(p, k)
    BY <2>1, <2>2, <2>3 DEF Next
  <2> QED  BY <2>4, FreshStartStep DEF TwoNames
<1> QED
  BY <1>1, <1>2, <1>3, InitOneName, InitTwoNames, LivePairIsCached, NewPairIsLive,
     CredInvariant, PTL DEF Spec, FreshStart

\* token.go:8-11: the refresh token Cline accepts is lost with an answer that never
\* arrives, or with the process while a refresh or its save is under way; at any other
\* moment it can be found.
THEOREM LoginIsKept ==
  ASSUME Timely, "saveFail" \notin Faults
  PROVE  Spec => LoginSurvives
<1> DEFINE Survives ==
      (live \in InHand /\ live' \notin InHand') =>
          (live' # live \/ (restarts' # restarts /\ \E p \in Procs : Busy(p)))
<1>1. CredInv /\ CredInv' /\ Timed /\ Timed' /\ Placed /\ OnDisk /\ [Next]_vars => [Survives]_vars
  <2> SUFFICES ASSUME CredInv, CredInv', Timed, Timed', Placed, OnDisk, [Next]_vars,
                      live \in InHand, live' = live,
                      restarts' = restarts \/ \A p \in Procs : ~Busy(p)
               PROVE  live' \in InHand'
    OBVIOUS
  <2>1. CASE Restart
    <3>1. restarts' # restarts
      BY <2>1, BoundsAssumption DEF Restart, CredInv, TypeOK
    <3>2. disk.rt = live
      BY <3>1, AtRest
    <3> QED  BY <2>1, <3>2 DEF Restart, InHand
  <2>2. CASE ~Restart
    <3>1. \A p \in Procs : ~GrantAccepted(p)
      BY GrantStep DEF Timely, Timed, Whole
    <3>2. Lands
      BY InHandIsHeld DEF Timed, Placed, OnDisk
    <3>3. Lands'
      BY <2>2, <3>1, <3>2, LandsOn DEF CredInv
    <3> QED  BY <3>3, LandedIsInHand
  <2> QED  BY <2>1, <2>2
<1> QED
  BY <1>1, LivePairIsSaved, LivePairIsCached, NewPairIsLive, CredInvariant, PTL
  DEF Spec, LoginSurvives
=============================================================================
