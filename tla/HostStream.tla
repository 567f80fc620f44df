----------------------------- MODULE HostStream -----------------------------
(***************************************************************************)
(* What the host is promised about a stream it opens for a request         *)
(* (stream.go, pumpUpstreamStream): frames in the order in which the       *)
(* model said them, at most one error and nothing after it, and an end,    *)
(* which never comes without a word.                                       *)
(***************************************************************************)
EXTENDS Naturals, Sequences

CONSTANT Ids    \* stream ids

VARIABLES
    stream,     \* per id: "none", "open", "closed" by the plugin, or "gone"
    inbox,      \* the numbers of the frames that arrived
    failed      \* an error arrived

vars == <<stream, inbox, failed>>

Init ==
    /\ stream = [i \in Ids |-> "none"]
    /\ inbox = [i \in Ids |-> <<>>]
    /\ failed = [i \in Ids |-> FALSE]

Open(i) ==
    /\ stream[i] # "open"
    /\ stream' = [stream EXCEPT ![i] = "open"]
    /\ inbox' = [inbox EXCEPT ![i] = <<>>]
    /\ failed' = [failed EXCEPT ![i] = FALSE]

Frame(i) ==
    /\ stream[i] = "open" /\ ~failed[i]
    /\ inbox' = [inbox EXCEPT ![i] = Append(@, Len(@) + 1)]
    /\ UNCHANGED <<stream, failed>>

Failure(i) ==
    /\ stream[i] = "open" /\ ~failed[i]
    /\ failed' = [failed EXCEPT ![i] = TRUE]
    /\ UNCHANGED <<stream, inbox>>

\* The plugin ends a stream in which something arrived, were it an error.
Close(i) ==
    /\ stream[i] = "open" /\ (failed[i] \/ inbox[i] # <<>>)
    /\ stream' = [stream EXCEPT ![i] = "closed"]
    /\ UNCHANGED <<inbox, failed>>

\* The host gives the stream up: its client left, or the request was rejected.
Leave(i) ==
    /\ stream[i] = "open"
    /\ stream' = [stream EXCEPT ![i] = "gone"]
    /\ UNCHANGED <<inbox, failed>>

Next == \E i \in Ids : Open(i) \/ Frame(i) \/ Failure(i) \/ Close(i) \/ Leave(i)

\* Frames cannot go on for ever: an open stream fails or is closed.
Spec == Init /\ [][Next]_vars /\ \A i \in Ids : WF_vars(Failure(i) \/ Close(i))
=============================================================================
