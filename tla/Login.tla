------------------------------- MODULE Login -------------------------------
(***************************************************************************)
(* The device login of auth.go (startLogin, pollLogin) with the panel's    *)
(* poll route (management.go:166-202) and the sweeper of main.go:95-109.   *)
(*                                                                         *)
(* A login is a device code at WorkOS and an entry of loginStates. Anyone  *)
(* who holds the state token may poll: the panel, several panels at once,  *)
(* the host's own login page. A poll loads the entry, then talks to WorkOS *)
(* and Cline without holding it.                                           *)
(***************************************************************************)
EXTENDS Naturals

CONSTANTS
    Logins,     \* state tokens
    Pollers,    \* callers of a poll route
    Panels,     \* those that come through the panel's route
    Faults      \* "lostReply", "registerFails", "saveFails"

ASSUME PanelsAssumption == Panels \subseteq Pollers

VARIABLES
    loginStates,    \* logins with an entry in loginStates
    expired,        \* logins whose Expires has passed
    device,         \* what WorkOS knows of each login's device code
    pc, login,      \* where each poll is, and for which login
    answer,         \* what the poll's caller was last told
    given,          \* how many credentials each login produced
    saved           \* logins whose credential the plugin's route saved

vars == <<loginStates, expired, device, pc, login, answer, given, saved>>
poll == <<pc, login>>

Answers == {"none", "pending", "error", "ok"}

TypeOK ==
    /\ loginStates \subseteq Logins
    /\ expired \subseteq Logins
    /\ device \in [Logins -> {"none", "waiting", "approved", "denied", "redeemed", "expired"}]
    /\ pc \in [Pollers -> {"idle", "exchange", "register", "delete", "persist"}]
    /\ login \in [Pollers -> Logins]
    /\ answer \in [Pollers -> Answers]
    /\ given \in [Logins -> Nat]
    /\ saved \subseteq Logins

Init ==
    /\ loginStates = {}
    /\ expired = {}
    /\ device = [l \in Logins |-> "none"]
    /\ pc = [p \in Pollers |-> "idle"]
    /\ login \in [Pollers -> Logins]
    /\ answer = [p \in Pollers |-> "none"]
    /\ given = [l \in Logins |-> 0]
    /\ saved = {}

-----------------------------------------------------------------------------
(* The plugin *)

\* WorkOS hands out a device code; only then is a state registered.
startLogin(l) ==
    /\ device[l] = "none"
    /\ device' = [device EXCEPT ![l] = "waiting"]
    /\ loginStates' = loginStates \union {l}
    /\ UNCHANGED <<expired, poll, answer, given, saved>>

Finish(p, what) ==
    /\ pc' = [pc EXCEPT ![p] = "idle"]
    /\ answer' = [answer EXCEPT ![p] = what]

\* pollLogin loads the entry; one that has expired is removed on the spot.
Poll(p, l) ==
    /\ pc[p] = "idle"
    /\ login' = [login EXCEPT ![p] = l]
    /\ IF l \in loginStates /\ l \notin expired
       THEN /\ pc' = [pc EXCEPT ![p] = "exchange"]
            /\ UNCHANGED <<loginStates, answer>>
       ELSE /\ loginStates' = IF l \in expired THEN loginStates \ {l} ELSE loginStates
            /\ Finish(p, "error")
    /\ UNCHANGED <<expired, device, given, saved>>

\* Bug: whatever WorkOS answers besides pending counts as a grant.
ExchangeUnchecked(p) ==
    /\ pc[p] = "exchange"
    /\ IF device[login[p]] = "waiting"
       THEN Finish(p, "pending")
       ELSE pc' = [pc EXCEPT ![p] = "register"] /\ UNCHANGED answer
    /\ UNCHANGED <<loginStates, expired, device, login, given, saved>>

\* Bug: every error of WorkOS counts as "authorization pending".
ExchangePending(p) ==
    /\ pc[p] = "exchange"
    /\ LET l == login[p]
       IN  \/ /\ device[l] # "approved"
              /\ Finish(p, "pending")
              /\ UNCHANGED device
           \/ /\ device[l] = "approved"
              /\ device' = [device EXCEPT ![l] = "redeemed"]
              /\ \/ pc' = [pc EXCEPT ![p] = "register"] /\ UNCHANGED answer
                 \/ "lostReply" \in Faults /\ Finish(p, "pending")
    /\ UNCHANGED <<loginStates, expired, login, given, saved>>

\* pollWorkOSToken: WorkOS redeems an approved device code once. No error, not
\* even a lost answer, removes the entry.
Exchange(p) ==
    /\ pc[p] = "exchange"
    /\ LET l == login[p]
       IN  \/ /\ device[l] = "waiting"
              /\ Finish(p, "pending")
              /\ UNCHANGED device
           \/ /\ device[l] = "approved"
              /\ device' = [device EXCEPT ![l] = "redeemed"]
              /\ \/ pc' = [pc EXCEPT ![p] = "register"] /\ UNCHANGED answer
                 \/ "lostReply" \in Faults /\ Finish(p, "error")
           \/ /\ device[l] \in {"denied", "redeemed", "expired"} \/ "lostReply" \in Faults
              /\ Finish(p, "error")
              /\ UNCHANGED device
    /\ UNCHANGED <<loginStates, expired, login, given, saved>>

\* registerWorkOSTokens trades the WorkOS tokens for Cline's.
Register(p) ==
    /\ pc[p] = "register"
    /\ \/ /\ pc' = [pc EXCEPT ![p] = "delete"]
          /\ given' = [given EXCEPT ![login[p]] = @ + 1]
          /\ UNCHANGED answer
       \/ /\ "registerFails" \in Faults
          /\ Finish(p, "error")
          /\ UNCHANGED given
    /\ UNCHANGED <<loginStates, expired, device, login, saved>>

\* The entry goes; the host's route answers with the credential, the panel's
\* has it to save first.
DeleteState(p) ==
    /\ pc[p] = "delete"
    /\ loginStates' = loginStates \ {login[p]}
    /\ IF p \in Panels
       THEN pc' = [pc EXCEPT ![p] = "persist"] /\ UNCHANGED answer
       ELSE Finish(p, "ok")
    /\ UNCHANGED <<expired, device, login, given, saved>>

\* Bug: the panel is told ok before the save is known to have worked.
PersistUnchecked(p) ==
    /\ pc[p] = "persist"
    /\ saved' \in {saved, saved \union {login[p]}}
    /\ Finish(p, "ok")
    /\ UNCHANGED <<loginStates, expired, device, login, given>>

\* Bug: the panel hears the host's word for success, which it does not know.
PersistHostWord(p) ==
    /\ pc[p] = "persist"
    /\ saved' = saved \union {login[p]}
    /\ Finish(p, "success")
    /\ UNCHANGED <<loginStates, expired, device, login, given>>

\* persistAuthData through host.auth.save.
Persist(p) ==
    /\ pc[p] = "persist"
    /\ \/ saved' = saved \union {login[p]} /\ Finish(p, "ok")
       \/ "saveFails" \in Faults /\ Finish(p, "error") /\ UNCHANGED saved
    /\ UNCHANGED <<loginStates, expired, device, login, given>>

\* Bug: the comparison with Expires is the wrong way round.
SweepLive ==
    /\ loginStates \ expired # {}
    /\ loginStates' = loginStates \intersect expired
    /\ UNCHANGED <<expired, device, poll, answer, given, saved>>

\* Each minute the sweeper removes what has expired.
Sweep ==
    /\ loginStates \intersect expired # {}
    /\ loginStates' = loginStates \ expired
    /\ UNCHANGED <<expired, device, poll, answer, given, saved>>

-----------------------------------------------------------------------------
(* Around the plugin *)

\* The user decides in the browser, while WorkOS still knows the code.
Decide(l, verdict) ==
    /\ device[l] = "waiting"
    /\ device' = [device EXCEPT ![l] = verdict]
    /\ UNCHANGED <<loginStates, expired, poll, answer, given, saved>>

\* WorkOS forgets the code; its clock and the plugin's need not agree.
DeviceExpires(l) ==
    /\ device[l] \in {"waiting", "approved", "denied"}
    /\ device' = [device EXCEPT ![l] = "expired"]
    /\ UNCHANGED <<loginStates, expired, poll, answer, given, saved>>

Expire(l) ==
    /\ device[l] # "none" /\ l \notin expired
    /\ expired' = expired \union {l}
    /\ UNCHANGED <<loginStates, device, poll, answer, given, saved>>

-----------------------------------------------------------------------------
Step(p) == Exchange(p) \/ Register(p) \/ DeleteState(p) \/ Persist(p)

Next ==
    \/ \E p \in Pollers : Step(p) \/ \E l \in Logins : device[l] # "none" /\ Poll(p, l)
    \/ \E l \in Logins :
         \/ startLogin(l) \/ Decide(l, "approved") \/ Decide(l, "denied")
         \/ DeviceExpires(l) \/ Expire(l)
    \/ Sweep

Spec == Init /\ [][Next]_vars

\* Polls return, since each call out of the plugin times out; the ticker ticks;
\* and a panel keeps polling until it is told anything but "pending" (panel.html).
FairSpec ==
    /\ Spec
    /\ WF_vars(Sweep)
    /\ \A p \in Pollers : WF_vars(Step(p))
    /\ \A p \in Panels, l \in Logins :
         SF_vars(answer[p] \in {"none", "pending"} /\ l \in loginStates /\ Poll(p, l))

-----------------------------------------------------------------------------
(* Properties *)

\* auth.go:247-267: however many polls of one login overlap, one approval in the
\* browser yields at most one credential, and none comes without it.
OneCredentialPerApproval ==
    \A l \in Logins :
        /\ given[l] <= 1
        /\ given[l] = 1 => device[l] = "redeemed"

\* auth.go:240-267, main.go:101-103: a login stays open until it expires or its
\* credential exists; an error or a pending poll never closes it.
LoginStaysOpen ==
    [][\A l \in loginStates \ loginStates' : l \in expired \/ given[l] > 0]_vars

\* management.go:166-168: the panel hears "ok" only of a login whose credential
\* is in the auth directory.
OkMeansSaved ==
    \A p \in Panels : answer[p] = "ok" => login[p] \in saved \/ pc[p] # "idle"

\* main.go:95-109: an entry that has expired goes, polled or not.
EveryStateGoes ==
    \A l \in Logins : l \in expired ~> l \notin loginStates

\* auth.go:231-272: a user who approved in time gets a credential, or the panel
\* says that something failed; nobody is left waiting.
ApprovalIsAnswered ==
    \A l \in Logins : device[l] = "approved" ~>
        \/ given[l] > 0 \/ l \in expired \/ device[l] = "expired"
        \/ \E p \in Panels : answer[p] = "error"
=============================================================================
