----------------------------- MODULE Credential -----------------------------
(***************************************************************************)
(* The life of one account's credential: token.go, and the handlers that   *)
(* run on it: handleExecExecute (executor.go:125-173), handleRefreshAuth   *)
(* (auth.go:353-377) and model discovery through freshStoredAuth           *)
(* (models.go:103-121).                                                    *)
(*                                                                         *)
(* The host hands every request the snapshot it holds of the credential    *)
(* file. The plugin prefers its own cache when that is newer, refreshes    *)
(* the pair through the single flight of RefreshFlight when it is due, and *)
(* writes the rotated pair to the cache and, through the host, to disk.    *)
(*                                                                         *)
(* Tokens are numbered in the order Cline issues them; 0 is a missing one. *)
(* A grant takes time, so each one moves the clock: as with the            *)
(* milliseconds of ExpiresAt, a pair issued later expires later.           *)
(***************************************************************************)
EXTENDS Naturals, FiniteSets

CONSTANTS
    Procs,          \* goroutines the host calls the plugin on
    None,           \* Go's nil
    Operations,     \* what the host asks for: "execute", "refresh", "models"
    Refreshers,     \* the goroutines that may carry a host refresh
    Faults,         \* what goes wrong in this run (see the actions)
    InitialDocs,    \* the pairs a credential file may hold at start
    RefreshLead,    \* credentialRefreshLead
    Life,           \* the lifetime Cline gives an access token
    FallbackLife,   \* parseExpiryMillis's 55 minutes
    OnTime,         \* TRUE: the host asks for a refresh only when its copy is due
    Punctual,       \* TRUE: no refresh under way outlasts a tick of the clock
    MaxNow,         \* bound: the clock ticks up to here
    MaxGrants,      \* bound: upstream answers 503 once so many pairs exist
    MaxRevoked,     \* bound: access tokens revoked server side
    MaxRestarts     \* bound: restarts of the plugin

ASSUME BoundsAssumption ==
    /\ {RefreshLead, Life, FallbackLife} \subseteq Nat
    /\ {MaxNow, MaxGrants, MaxRevoked, MaxRestarts} \subseteq Nat /\ MaxGrants > 0
    /\ FallbackLife <= Life
    /\ {Punctual, OnTime} \subseteq BOOLEAN
    /\ Refreshers \subseteq Procs

VARIABLES
    now,        \* the clock
    live,       \* the refresh token Cline accepts
    issued,     \* how many pairs Cline has issued
    revoked,    \* access tokens revoked before their expiry
    wire,       \* the answer under way to the leader of a flight
    cache,      \* credentialCache
    disk,       \* the credential in the auth file
    host,       \* the host's own copy of it
    restarts,   \* restarts so far
    pc, kind,   \* where each goroutine is, and what it was asked for
    snap,       \* the parsed StorageJSON it was handed
    cred,       \* credential.sa
    sends,      \* chat requests it has sent (the attempts of do)
    sent,       \* credential.sent
    reply,      \* what it answers the host
    stage, slot, calls, joined, outcome     \* the single flight

upstream == <<now, live, issued, revoked>>
stores == <<cache, disk, host, restarts>>
request == <<kind, snap, sends, sent>>
flight == <<stage, slot, calls, joined, outcome>>
vars == <<upstream, wire, stores, pc, request, cred, reply, flight>>

-----------------------------------------------------------------------------
(* Data *)

\* A stored credential: its tokens, its expiry and whether the account id is known.
Pairs == [at: 0..MaxGrants, rt: 0..MaxGrants,
          exp: 0..(MaxNow + MaxGrants + Life), id: BOOLEAN]

NoPair == [at |-> 0, rt |-> 0, exp |-> 0, id |-> FALSE]

Keys == {"id", "email"}

\* The email stands in for an account whose id is not known yet.
credentialKey(sa) == IF sa.id THEN "id" ELSE "email"

Errors == {"terminal", "transient", "transport"}
Outcomes == [why: {"ok"}, pair: Pairs] \union [why: Errors, pair: {NoPair}]
Error(why) == [why |-> why, pair |-> NoPair]

\* nil is no process and no answer; a file that is there at start holds tokens of
\* the first pair, or lacks them.
ASSUME DataAssumption ==
    /\ None \notin Procs \union Outcomes
    /\ Operations \subseteq {"execute", "refresh", "models"}
    /\ \A doc \in InitialDocs : doc \in Pairs /\ doc.at <= 1 /\ doc.rt <= 1

Flight == INSTANCE RefreshFlight

\* Bug: the lead is taken in the wrong unit, so that every pair is due.
needsRefreshWrongUnit(sa) == sa.at = 0 \/ sa.exp = 0 \/ now + RefreshLead * 60 >= sa.exp

\* An unknown expiry counts as stale.
needsRefresh(sa) == sa.at = 0 \/ sa.exp = 0 \/ now + RefreshLead >= sa.exp

\* Cline serves a request that carries this credential's access token.
Valid(sa) == sa.at \notin revoked /\ now < sa.exp

Forced(p) == kind[p] = "refresh" \/ sends[p] > 0

Idle == \A p \in Procs : pc[p] = "idle"

TypeOK ==
    /\ now \in 0..(MaxNow + MaxGrants)
    /\ live \in 0..MaxGrants
    /\ issued \in 0..MaxGrants
    /\ revoked \subseteq 1..MaxGrants
    /\ wire \in [Procs -> Outcomes \union {None}]
    /\ cache \in [Keys -> Pairs]
    /\ {disk, host} \subseteq Pairs
    /\ restarts \in 0..MaxRestarts
    /\ pc \in [Procs -> {"idle", "prepare", "flight", "persist", "ready", "save", "done"}]
    /\ kind \in [Procs -> Operations \union {"none"}]
    /\ {snap, cred} \subseteq [Procs -> Pairs]
    /\ sends \in [Procs -> 0..2]
    /\ sent \in [Procs -> 0..MaxGrants]
    /\ reply \in [Procs -> {"none", "served", "snapshot", "unauthorized",
                            "unavailable", "interrupted", "failed"}]

NoRequest ==
    /\ pc = [p \in Procs |-> "idle"]
    /\ kind = [p \in Procs |-> "none"]
    /\ snap = [p \in Procs |-> NoPair]
    /\ cred = [p \in Procs |-> NoPair]
    /\ sends = [p \in Procs |-> 0]
    /\ sent = [p \in Procs |-> 0]
    /\ reply = [p \in Procs |-> "none"]
    /\ wire = [p \in Procs |-> None]

Init ==
    /\ now = 0
    /\ disk \in InitialDocs
    /\ host = disk
    /\ live = 1
    /\ issued = 1
    /\ revoked = {}
    /\ restarts = 0
    /\ cache = [k \in Keys |-> NoPair]
    /\ NoRequest
    /\ stage = [p \in Procs |-> "out"]
    /\ slot = [p \in Procs |-> "id"]
    /\ calls = [k \in Keys |-> None]
    /\ joined = [p \in Procs |-> None]
    /\ outcome = [p \in Procs |-> None]

-----------------------------------------------------------------------------
(* A request arrives *)

\* Bug: the snapshot is taken as it is, the cache is not consulted.
newCredentialSnapshot(sa) == sa

\* newCredential takes the cached pair over a snapshot that expires earlier.
newCredential(sa) ==
    LET cached == cache[credentialKey(sa)]
    IN  IF cached.exp > sa.exp THEN cached ELSE sa

\* nextCredentialRefreshAt tells the host the plugin's own lead; it asks at once
\* about an unknown expiry.
HostIsDue == host.exp = 0 \/ now + RefreshLead >= host.exp

\* A handler parses the snapshot and looks at the cache. handleRefreshAuth
\* answers with an adopted pair as it is.
Receive(p, k) ==
    /\ pc[p] = "idle"
    /\ k = "refresh" => p \in Refreshers /\ (OnTime => HostIsDue)
    /\ kind' = [kind EXCEPT ![p] = k]
    /\ snap' = [snap EXCEPT ![p] = host]
    /\ cred' = [cred EXCEPT ![p] = newCredential(host)]
    /\ IF k = "refresh" /\ newCredential(host) # host
       THEN /\ pc' = [pc EXCEPT ![p] = "done"]
            /\ reply' = [reply EXCEPT ![p] = "served"]
       ELSE /\ pc' = [pc EXCEPT ![p] = "prepare"]
            /\ UNCHANGED reply
    /\ UNCHANGED <<upstream, wire, stores, sends, sent, flight>>

-----------------------------------------------------------------------------
(* prepare *)

PrepareFresh(p) ==
    /\ pc[p] = "prepare"
    /\ ~Forced(p) /\ ~needsRefresh(cred[p])
    /\ pc' = [pc EXCEPT ![p] = "ready"]
    /\ UNCHANGED <<upstream, wire, stores, request, cred, reply, flight>>

\* The flight is keyed by the snapshot the request came with.
PrepareRefresh(p) ==
    /\ pc[p] = "prepare"
    /\ Forced(p) \/ needsRefresh(cred[p])
    /\ Flight!Call(p, credentialKey(snap[p]))
    /\ pc' = [pc EXCEPT ![p] = "flight"]
    /\ UNCHANGED <<upstream, wire, stores, request, cred, reply>>

\* Bug: two locks instead of one, so the lookup and the registration come apart.
LeadFlightRegardless(p) ==
    /\ stage[p] = "entering"
    /\ calls' = [calls EXCEPT ![slot[p]] = p]
    /\ stage' = [stage EXCEPT ![p] = "leading"]
    /\ joined' = [joined EXCEPT ![p] = p]
    /\ UNCHANGED <<slot, outcome, upstream, wire, stores, pc, request, cred, reply>>

LeadFlight(p) ==
    /\ Flight!Lead(p)
    /\ UNCHANGED <<upstream, wire, stores, pc, request, cred, reply>>

JoinFlight(p) ==
    /\ Flight!Join(p)
    /\ UNCHANGED <<upstream, wire, stores, pc, request, cred, reply>>

\* Bug: the lifetime is taken in the wrong unit.
RotatedWrongUnit(sa, n, keepsRefreshToken, life, knowsId) ==
    [at |-> n, rt |-> IF keepsRefreshToken THEN sa.rt ELSE n,
     exp |-> now + 1 + life * 60, id |-> sa.id \/ knowsId]

\* requestTokenRefresh copies the credential it was given and overwrites what
\* the answer carries: a new access token, a refresh token unless it is left
\* out, an expiry or the fallback, an account id if there is one.
Rotated(sa, n, keepsRefreshToken, life, knowsId) ==
    [at |-> n,
     rt |-> IF keepsRefreshToken THEN sa.rt ELSE n,
     exp |-> now + 1 + life,
     id |-> sa.id \/ knowsId]

\* Cline accepts the refresh token it last handed out and rotates the pair.
GrantAccepted(p) ==
    /\ stage[p] = "leading" /\ wire[p] = None
    /\ cred[p].rt = live
    /\ issued < MaxGrants
    /\ \E keeps \in {FALSE} \union {"noRotate" \in Faults},
          life \in {Life} \union (IF "noExpiry" \in Faults THEN {FallbackLife} ELSE {}),
          knowsId \in {FALSE} \union {"learnsId" \in Faults},
          delivered \in {TRUE} \union {"lostReply" \notin Faults} :
         LET pair == Rotated(cred[p], issued + 1, keeps, life, knowsId)
         IN  /\ live' = IF keeps THEN live ELSE issued + 1
             /\ wire' = [wire EXCEPT ![p] =
                   IF delivered THEN [why |-> "ok", pair |-> pair] ELSE Error("transport")]
    /\ issued' = issued + 1
    /\ now' = now + 1
    /\ UNCHANGED <<revoked, stores, pc, request, cred, reply, flight>>

\* The grant fails: a spent or missing refresh token and an answer without an
\* access token are terminal, any other bad status is transient, and a
\* connection that fails says nothing about the credential.
GrantFailed(p) ==
    /\ stage[p] = "leading" /\ wire[p] = None
    /\ \/ cred[p].rt # live /\ wire' = [wire EXCEPT ![p] = Error("terminal")]
       \/ "noToken" \in Faults /\ wire' = [wire EXCEPT ![p] = Error("terminal")]
       \/ /\ "serverError" \in Faults \/ (cred[p].rt = live /\ issued = MaxGrants)
          /\ cred[p].rt # 0
          /\ wire' = [wire EXCEPT ![p] = Error("transient")]
       \/ /\ "noConnect" \in Faults /\ cred[p].rt # 0
          /\ wire' = [wire EXCEPT ![p] = Error("transport")]
    /\ UNCHANGED <<upstream, stores, pc, request, cred, reply, flight>>

\* The leader reads the answer and caches a new pair before anyone is told.
AnswerFlight(p) ==
    /\ wire[p] # None
    /\ Flight!Answer(p, wire[p])
    /\ wire' = [wire EXCEPT ![p] = None]
    /\ LET sa == wire[p].pair
       IN  cache' = IF wire[p].why = "ok"
                    THEN [cache EXCEPT ![credentialKey(sa)] = sa]
                    ELSE cache
    /\ UNCHANGED <<upstream, disk, host, restarts, pc, request, cred, reply>>

\* Bug: the entry of a flight that failed stays registered.
UnregisterSuccess(p) ==
    /\ stage[p] = "answered"
    /\ stage' = [stage EXCEPT ![p] = "unregistered"]
    /\ calls' = IF outcome[p].why = "ok" THEN [calls EXCEPT ![slot[p]] = None] ELSE calls
    /\ UNCHANGED <<slot, joined, outcome, upstream, wire, stores, pc, request, cred, reply>>

UnregisterFlight(p) ==
    /\ Flight!Unregister(p)
    /\ UNCHANGED <<upstream, wire, stores, pc, request, cred, reply>>

ReleaseFlight(p) ==
    /\ Flight!Release(p)
    /\ UNCHANGED <<upstream, wire, stores, pc, request, cred, reply>>

\* Bug: changed is computed after c.sa was replaced, so nothing is ever saved.
ApplyUnsaved(p) ==
    /\ pc[p] = "flight" /\ stage[p] = "released"
    /\ outcome[p].why = "ok"
    /\ Flight!Return(p)
    /\ LET updated == outcome[p].pair
       IN  /\ cred' = [cred EXCEPT ![p] = updated]
           /\ cache' = [cache EXCEPT ![credentialKey(updated)] = updated]
    /\ pc' = [pc EXCEPT ![p] = "ready"]
    /\ UNCHANGED <<upstream, wire, disk, host, restarts, request, reply>>

\* apply: adopt the pair, cache it once more, persist it if it changed.
Apply(p) ==
    /\ pc[p] = "flight" /\ stage[p] = "released"
    /\ outcome[p].why = "ok"
    /\ Flight!Return(p)
    /\ LET updated == outcome[p].pair
           changed == updated.at # cred[p].at \/ updated.rt # cred[p].rt
       IN  /\ cred' = [cred EXCEPT ![p] = updated]
           /\ cache' = [cache EXCEPT ![credentialKey(updated)] = updated]
           /\ pc' = [pc EXCEPT ![p] = IF changed THEN "persist" ELSE "ready"]
    /\ UNCHANGED <<upstream, wire, disk, host, restarts, request, reply>>

\* The refresh failed, but the pair is not due yet: carry on with it.
Defer(p) ==
    /\ pc[p] = "flight" /\ stage[p] = "released"
    /\ outcome[p].why # "ok" /\ ~needsRefresh(cred[p])
    /\ Flight!Return(p)
    /\ pc' = [pc EXCEPT ![p] = "ready"]
    /\ UNCHANGED <<upstream, wire, stores, request, cred, reply>>

\* credentialFailure for a chat request; handleRefreshAuth reports an error;
\* freshStoredAuth falls back on the host's snapshot.
FailureReply(k, why) ==
    CASE k = "execute" /\ why = "terminal"  -> "unauthorized"
      [] k = "execute" /\ why = "transient" -> "unavailable"
      [] k = "execute" /\ why = "transport" -> "interrupted"
      [] k = "refresh" -> "failed"
      [] k = "models"  -> "snapshot"

\* Bug: every caller falls back on the snapshot when its refresh fails.
FailToSnapshot(p) ==
    /\ pc[p] = "flight" /\ stage[p] = "released"
    /\ outcome[p].why # "ok" /\ needsRefresh(cred[p])
    /\ Flight!Return(p)
    /\ pc' = [pc EXCEPT ![p] = "done"]
    /\ reply' = [reply EXCEPT ![p] = FailureReply(kind[p], outcome[p].why)]
    /\ cred' = [cred EXCEPT ![p] = snap[p]]
    /\ UNCHANGED <<upstream, wire, stores, request>>

Fail(p) ==
    /\ pc[p] = "flight" /\ stage[p] = "released"
    /\ outcome[p].why # "ok" /\ needsRefresh(cred[p])
    /\ Flight!Return(p)
    /\ pc' = [pc EXCEPT ![p] = "done"]
    /\ reply' = [reply EXCEPT ![p] = FailureReply(kind[p], outcome[p].why)]
    /\ cred' = IF kind[p] = "models" THEN [cred EXCEPT ![p] = snap[p]] ELSE cred
    /\ UNCHANGED <<upstream, wire, stores, request>>

\* persist: the tokens and the account in the file become the credential's; a
\* save that fails is logged and forgotten.
Persist(p) ==
    /\ pc[p] \in {"persist", "save"}
    /\ disk' \in {cred[p]} \union (IF "saveFail" \in Faults THEN {disk} ELSE {})
    /\ IF pc[p] = "persist"
       THEN pc' = [pc EXCEPT ![p] = "ready"] /\ UNCHANGED reply
       ELSE /\ pc' = [pc EXCEPT ![p] = "done"]
            /\ reply' = [reply EXCEPT ![p] = "served"]
    /\ UNCHANGED <<upstream, wire, cache, host, restarts, request, cred, flight>>

-----------------------------------------------------------------------------
(* What the prepared credential is for *)

\* The first chat request, or the one retry with a token that did change.
Send(p) ==
    /\ pc[p] = "ready" /\ kind[p] = "execute"
    /\ sends[p] = 0 \/ (sends[p] = 1 /\ cred[p].at # sent[p])
    /\ sends' = [sends EXCEPT ![p] = @ + 1]
    /\ sent' = [sent EXCEPT ![p] = cred[p].at]
    /\ \/ /\ Valid(cred[p])
          /\ pc' = [pc EXCEPT ![p] = "done"]
          /\ reply' = [reply EXCEPT ![p] = "served"]
       \/ /\ ~Valid(cred[p])
          /\ pc' = [pc EXCEPT ![p] = "prepare"]
          /\ UNCHANGED reply
       \/ /\ "noConnect" \in Faults
          /\ pc' = [pc EXCEPT ![p] = "done"]
          /\ reply' = [reply EXCEPT ![p] = "interrupted"]
    /\ UNCHANGED <<upstream, wire, stores, kind, snap, cred, flight>>

\* The 401 stands: the token did not change, or both attempts are spent.
GiveUp(p) ==
    /\ pc[p] = "ready" /\ kind[p] = "execute"
    /\ sends[p] = 2 \/ (sends[p] = 1 /\ cred[p].at = sent[p])
    /\ pc' = [pc EXCEPT ![p] = "done"]
    /\ reply' = [reply EXCEPT ![p] = "unauthorized"]
    /\ UNCHANGED <<upstream, wire, stores, request, cred, flight>>

\* enrichAndPersist: fetchAccountSnapshot may learn the account id with a token
\* Cline accepts; then the credential is cached and saved, changed or not.
Enrich(p) ==
    /\ pc[p] = "ready" /\ kind[p] = "refresh"
    /\ \E id \in {cred[p].id} \union {"learnsId" \in Faults /\ Valid(cred[p])} :
         LET sa == [cred[p] EXCEPT !.id = id \/ @]
         IN  /\ cred' = [cred EXCEPT ![p] = sa]
             /\ cache' = [cache EXCEPT ![credentialKey(sa)] = sa]
    /\ pc' = [pc EXCEPT ![p] = "save"]
    /\ UNCHANGED <<upstream, wire, disk, host, restarts, request, reply, flight>>

\* freshStoredAuth returns the credential it prepared.
HandOver(p) ==
    /\ pc[p] = "ready" /\ kind[p] = "models"
    /\ pc' = [pc EXCEPT ![p] = "done"]
    /\ reply' = [reply EXCEPT ![p] = "served"]
    /\ UNCHANGED <<upstream, wire, stores, request, cred, flight>>

\* The host gets the answer, and keeps the credential a refresh returned.
Deliver(p) ==
    /\ pc[p] = "done"
    /\ host' = IF kind[p] = "refresh" /\ reply[p] = "served" THEN cred[p] ELSE host
    /\ pc' = [pc EXCEPT ![p] = "idle"]
    /\ kind' = [kind EXCEPT ![p] = "none"]
    /\ snap' = [snap EXCEPT ![p] = NoPair]
    /\ cred' = [cred EXCEPT ![p] = NoPair]
    /\ sends' = [sends EXCEPT ![p] = 0]
    /\ sent' = [sent EXCEPT ![p] = 0]
    /\ reply' = [reply EXCEPT ![p] = "none"]
    /\ UNCHANGED <<upstream, wire, cache, disk, restarts, flight>>

-----------------------------------------------------------------------------
(* Around the plugin *)

\* The host notices that the file changed.
HostReload ==
    /\ host # disk
    /\ host' = disk
    /\ UNCHANGED <<upstream, wire, cache, disk, restarts, pc, request, cred, reply, flight>>

\* requestTimeout bounds each call to minutes; a token lives for an hour.
Busy(p) == pc[p] \in {"prepare", "flight", "persist", "save"}

Tick ==
    /\ now < MaxNow
    /\ Punctual => \A p \in Procs : ~Busy(p) /\ ~(pc[p] = "ready" /\ kind[p] = "refresh")
    /\ now' = now + 1
    /\ UNCHANGED <<live, issued, revoked, wire, stores, pc, request, cred, reply, flight>>

\* Cline stops accepting the newest access token before it expires.
Revoke ==
    /\ "revoke" \in Faults
    /\ Cardinality(revoked) < MaxRevoked
    /\ issued \notin revoked
    /\ revoked' = revoked \union {issued}
    /\ UNCHANGED <<now, live, issued, wire, stores, pc, request, cred, reply, flight>>

\* The process ends and comes back: memory is gone, the host reads the file.
\* "restart" is a stop between requests, "crash" one at any moment.
Restart ==
    /\ restarts < MaxRestarts
    /\ "crash" \in Faults \/ ("restart" \in Faults /\ Idle)
    /\ restarts' = restarts + 1
    /\ cache' = [k \in Keys |-> NoPair]
    /\ host' = disk
    /\ pc' = [p \in Procs |-> "idle"]
    /\ kind' = [p \in Procs |-> "none"]
    /\ snap' = [p \in Procs |-> NoPair]
    /\ cred' = [p \in Procs |-> NoPair]
    /\ sends' = [p \in Procs |-> 0]
    /\ sent' = [p \in Procs |-> 0]
    /\ reply' = [p \in Procs |-> "none"]
    /\ wire' = [p \in Procs |-> None]
    /\ stage' = [p \in Procs |-> "out"]
    /\ calls' = [k \in Keys |-> None]
    /\ joined' = [p \in Procs |-> None]
    /\ outcome' = [p \in Procs |-> None]
    /\ UNCHANGED <<upstream, disk, slot>>

-----------------------------------------------------------------------------
FlightWork(p) ==
    \/ LeadFlight(p) \/ JoinFlight(p)
    \/ GrantAccepted(p) \/ GrantFailed(p) \/ AnswerFlight(p)
    \/ UnregisterFlight(p) \/ ReleaseFlight(p)

Work(p) ==
    \/ PrepareFresh(p) \/ PrepareRefresh(p)
    \/ FlightWork(p)
    \/ Apply(p) \/ Defer(p) \/ Fail(p) \/ Persist(p)
    \/ Send(p) \/ GiveUp(p) \/ Enrich(p) \/ HandOver(p)
    \/ Deliver(p)

Next ==
    \/ \E p \in Procs : Work(p) \/ \E k \in Operations : Receive(p, k)
    \/ HostReload \/ Tick \/ Revoke \/ Restart

Spec == Init /\ [][Next]_vars

\* A goroutine that can move does: mutexes are free again after a few
\* instructions and every call out of the plugin times out.
FairSpec == Spec /\ \A p \in Procs : WF_vars(Work(p))

-----------------------------------------------------------------------------
(* Properties *)

\* The refresh tokens the plugin, the host or the file can still produce.
InHand ==
    {disk.rt, host.rt} \union {cache[k].rt : k \in Keys} \union {cred[p].rt : p \in Procs}
    \union {wire[p].pair.rt : p \in {q \in Procs : wire[q] # None}}
    \union {outcome[p].pair.rt : p \in {q \in Procs : outcome[q] # None}}

\* token.go:8-15, 66-69: the host may hand over a snapshot whose refresh token is
\* spent, yet a request starts from the pair Cline accepts; only a refresh that
\* is under way at that moment, or a login that is lost, makes an exception.
FreshStart ==
    [][\A p \in Procs : pc[p] = "idle" /\ pc'[p] # "idle" =>
          cred'[p].rt = live \/ live \notin InHand \/ \E q \in Procs : Busy(q)]_vars

\* token.go:66-69: the cache holds the newest credential seen per account, so
\* nothing older ever replaces an entry; memory is lost with the process.
CacheHoldsNewest ==
    [][\A k \in Keys : cache'[k].at >= cache[k].at \/ restarts' # restarts]_vars

\* token.go:154-222: whichever way a request comes by its credential (snapshot,
\* cache, its own refresh, one it joined), it moves on to pairs that are no older,
\* with one exception: a model discovery whose refresh failed while its pair is due
\* gets back the very snapshot it came with, which freshStoredAuth returns although
\* newCredential may have put a newer cached pair in its place.
OnlyDiscoveryGoesBack ==
    [][\A p \in Procs :
          pc[p] # "idle" /\ pc'[p] # "idle" /\ cred'[p].at < cred[p].at =>
              /\ kind[p] = "models" /\ pc'[p] = "done" /\ cred'[p] = snap[p]
              /\ outcome[p].why # "ok" /\ needsRefresh(cred[p])]_vars

\* token.go:8-11: losing the refresh token Cline accepts means a new login. It
\* takes an answer that never arrives, or a crash while a refresh or its save is
\* under way; at any other moment the token is somewhere it can be found.
LoginSurvives ==
    [][(live \in InHand /\ live' \notin InHand') =>
          (live' # live \/ (restarts' # restarts /\ \E p \in Procs : Busy(p)))]_vars

\* token.go:8-11: once no request is under way, the file holds the pair Cline
\* accepts, unless nobody does, and the cache agrees with it or is empty.
QuietAgreement ==
    Idle /\ live \in InHand =>
        disk.rt = live /\ cache[credentialKey(disk)] \in {NoPair, disk}

\* token.go:165-166: a token that is still valid serves although its refresh
\* failed; only a dead credential stops the request.
UsableTokenServes ==
    \A p \in Procs :
        pc[p] = "done" /\ reply[p] = "unavailable" => ~Valid(cred[p])

\* token.go:394-396: a token revoked server side still completes the request.
RevocationIsSurvived ==
    \A p \in Procs : reply[p] # "unauthorized"

\* Every refresh the requests go through is a call of RefreshFlight, fairness
\* included, when an answer is told by its kind alone.
Kinds == INSTANCE RefreshFlight WITH
    Outcomes <- Errors \union {"ok"},
    outcome <- [p \in Procs |-> IF outcome[p] = None THEN None ELSE outcome[p].why]

FlightSpec == Kinds!Spec

\* Every request the host makes is answered.
EveryRequestAnswered ==
    \A p \in Procs : pc[p] # "idle" ~> pc[p] = "idle"
=============================================================================
