--------------------------- MODULE RefreshFlight ---------------------------
(***************************************************************************)
(* The single flight of token.go: refreshCredential (285-321) lets one     *)
(* caller per credential key take the refresh grant upstream while the     *)
(* callers that arrive meanwhile wait for its answer.                      *)
(*                                                                         *)
(* A refreshCall lives as long as the call of the goroutine that made it,  *)
(* so a process stands for its refreshCall too: calls[k] = p says that     *)
(* credentialCalls maps k to the call p registered.                        *)
(***************************************************************************)
CONSTANTS
    Procs,      \* goroutines the host calls the plugin on
    Keys,       \* credential keys (credentialKey, token.go:95-106)
    Outcomes,   \* what a grant can answer: a new credential or an error
    None        \* no process, no outcome: Go's nil

ASSUME NoneAssumption == None \notin Procs \union Outcomes

VARIABLES
    stage,      \* where each process stands inside refreshCredential
    slot,       \* the key each process asked for
    calls,      \* credentialCalls: the registered flight of each key
    joined,     \* the process whose refreshCall each process holds
    outcome     \* call.sa and call.err, once known to a process

vars == <<stage, slot, calls, joined, outcome>>

Stages == {"out", "entering", "leading", "answered", "unregistered",
           "waiting", "released"}

\* A flight is open from its registration until it wakes those who wait.
OpenStages == {"leading", "answered", "unregistered"}

TypeOK ==
    /\ stage \in [Procs -> Stages]
    /\ slot \in [Procs -> Keys]
    /\ calls \in [Keys -> Procs \union {None}]
    /\ joined \in [Procs -> Procs \union {None}]
    /\ outcome \in [Procs -> Outcomes \union {None}]

Init ==
    /\ stage = [p \in Procs |-> "out"]
    /\ slot \in [Procs -> Keys]
    /\ calls = [k \in Keys |-> None]
    /\ joined = [p \in Procs |-> None]
    /\ outcome = [p \in Procs |-> None]

-----------------------------------------------------------------------------
\* Bug: the empty-key fallback of refreshCredential (288-290) is missing.
CallWithoutKey(p, k) ==
    /\ stage[p] = "out"
    /\ stage' = [stage EXCEPT ![p] = "entering"]
    /\ slot' = [slot EXCEPT ![p] = None]
    /\ UNCHANGED <<calls, joined, outcome>>

\* prepare calls refreshCredential: a refreshCall is made, nothing is locked yet.
Call(p, k) ==
    /\ stage[p] = "out"
    /\ stage' = [stage EXCEPT ![p] = "entering"]
    /\ slot' = [slot EXCEPT ![p] = k]
    /\ UNCHANGED <<calls, joined, outcome>>

\* Bug: the caller registers without looking for a flight already there.
LeadRegardless(p) ==
    /\ stage[p] = "entering"
    /\ calls' = [calls EXCEPT ![slot[p]] = p]
    /\ stage' = [stage EXCEPT ![p] = "leading"]
    /\ joined' = [joined EXCEPT ![p] = p]
    /\ UNCHANGED <<slot, outcome>>

\* Under credentialCallMu: no flight is registered for the key, so this call is.
Lead(p) ==
    /\ stage[p] = "entering"
    /\ calls[slot[p]] = None
    /\ calls' = [calls EXCEPT ![slot[p]] = p]
    /\ stage' = [stage EXCEPT ![p] = "leading"]
    /\ joined' = [joined EXCEPT ![p] = p]
    /\ UNCHANGED <<slot, outcome>>

\* Under credentialCallMu: a flight is registered, wait on its WaitGroup.
Join(p) ==
    /\ stage[p] = "entering"
    /\ calls[slot[p]] # None
    /\ stage' = [stage EXCEPT ![p] = "waiting"]
    /\ joined' = [joined EXCEPT ![p] = calls[slot[p]]]
    /\ UNCHANGED <<slot, calls, outcome>>

\* requestTokenRefresh returns o to the leader.
Answer(p, o) ==
    /\ stage[p] = "leading"
    /\ stage' = [stage EXCEPT ![p] = "answered"]
    /\ outcome' = [outcome EXCEPT ![p] = o]
    /\ UNCHANGED <<slot, calls, joined>>

\* Bug: a failed grant returns early, before its registration is removed.
UnregisterNothing(p) ==
    /\ stage[p] = "answered"
    /\ stage' = [stage EXCEPT ![p] = "unregistered"]
    /\ UNCHANGED <<slot, calls, joined, outcome>>

\* Under credentialCallMu: the leader removes the entry if it is still its own.
Unregister(p) ==
    /\ stage[p] = "answered"
    /\ stage' = [stage EXCEPT ![p] = "unregistered"]
    /\ calls' = IF calls[slot[p]] = p
                THEN [calls EXCEPT ![slot[p]] = None]
                ELSE calls
    /\ UNCHANGED <<slot, joined, outcome>>

Party(p) == {p} \union {q \in Procs : stage[q] = "waiting" /\ joined[q] = p}

\* Bug: done.Done runs before the registration is removed.
ReleaseEarly(p) ==
    /\ stage[p] \in {"answered", "unregistered"}
    /\ stage' = [q \in Procs |-> IF q \in Party(p) THEN "released" ELSE stage[q]]
    /\ outcome' = [q \in Procs |-> IF q \in Party(p) THEN outcome[p] ELSE outcome[q]]
    /\ UNCHANGED <<slot, calls, joined>>

\* Bug: done.Done runs without waiting for the grant's answer.
ReleaseUnanswered(p) ==
    /\ stage[p] \in OpenStages
    /\ stage' = [q \in Procs |-> IF q \in Party(p) THEN "released" ELSE stage[q]]
    /\ outcome' = [q \in Procs |-> IF q \in Party(p) THEN outcome[p] ELSE outcome[q]]
    /\ UNCHANGED <<slot, calls, joined>>

\* done.Done: everyone who holds this refreshCall reads its answer.
Release(p) ==
    /\ stage[p] = "unregistered"
    /\ stage' = [q \in Procs |-> IF q \in Party(p) THEN "released" ELSE stage[q]]
    /\ outcome' = [q \in Procs |-> IF q \in Party(p) THEN outcome[p] ELSE outcome[q]]
    /\ UNCHANGED <<slot, calls, joined>>

\* refreshCredential returns; the process drops the refreshCall.
Return(p) ==
    /\ stage[p] = "released"
    /\ stage' = [stage EXCEPT ![p] = "out"]
    /\ joined' = [joined EXCEPT ![p] = None]
    /\ outcome' = [outcome EXCEPT ![p] = None]
    /\ UNCHANGED <<slot, calls>>

Work(p) ==
    \/ Lead(p)
    \/ Join(p)
    \/ \E o \in Outcomes : Answer(p, o)
    \/ Unregister(p)
    \/ Release(p)
    \/ Return(p)

Next == \E p \in Procs : Work(p) \/ \E k \in Keys : Call(p, k)

\* Goroutines are scheduled, mutexes are released, and sharedHTTPClient gives
\* up on an upstream that stays silent (requestTimeout, main.go:78, 298-310); nothing
\* obliges the host to call.
Spec == Init /\ [][Next]_vars /\ \A p \in Procs : WF_vars(Work(p))

-----------------------------------------------------------------------------
(* Properties                                                              *)

\* token.go:13-15: at most one refresh grant is upstream per credential key, so
\* no two calls of one key ever present the same refresh token side by side.
OneGrantPerKey ==
    \A p, q \in Procs :
        stage[p] = "leading" /\ stage[q] = "leading" /\ slot[p] = slot[q] => p = q

\* token.go:310-314: a registration never outlives the flight it stands for; a
\* leftover entry would make every later caller of the key wait for ever.
NoOrphanRegistration ==
    \A k \in Keys : calls[k] # None =>
        /\ stage[calls[k]] \in {"leading", "answered"}
        /\ slot[calls[k]] = k

\* token.go:294-296: whoever waits, waits on a flight of its own key that has
\* yet to wake its party, so no done.Done is missed.
WaitersAreAwaited ==
    \A p \in Procs : stage[p] = "waiting" =>
        /\ joined[p] \in Procs
        /\ stage[joined[p]] \in OpenStages
        /\ slot[joined[p]] = slot[p]

\* token.go:296-300: a waiter leaves only with the answer of the flight it joined.
WaitersShareTheAnswer ==
    [][\A p \in Procs :
          stage[p] = "waiting" /\ stage'[p] # "waiting" =>
              /\ outcome[joined[p]] \in Outcomes
              /\ outcome'[p] = outcome[joined[p]]]_vars

\* Every call of refreshCredential comes back to its caller.
EveryCallReturns ==
    \A p \in Procs : (stage[p] # "out") ~> (stage[p] = "out")
=============================================================================
