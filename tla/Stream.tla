------------------------------- MODULE Stream -------------------------------
(***************************************************************************)
(* A chat request after it was given to the plugin (executor.go,           *)
(* stream.go). It is executed as a whole, collected into chunks, or pumped *)
(* into a stream of the host by a goroutine of its own, which outlives the *)
(* handler that started it.                                                *)
(*                                                                         *)
(* credential.do is here what a request sees of it: attempts, and a retry  *)
(* after a 401 with a token that did change. Credential has the rest.      *)
(* What upstream says with a 200 is a sequence of lines, each of which is  *)
(* the next frame of the answer or one the code skips: a blank line, a     *)
(* comment, an event name, JSON that is not valid. Where among the frames  *)
(* such a line stands makes no difference, so noise stands for it.         *)
(***************************************************************************)
EXTENDS Naturals, Sequences

CONSTANTS
    Requests,   \* chat requests
    Ways,       \* how each of them may be served
    Ids,        \* stream ids of the host
    FreshIds,   \* TRUE: the host never uses an id twice
    MaxLines    \* bound: frames of one answer

ASSUME StreamAssumption ==
    /\ Ids # {}
    /\ Ways \in [Requests -> SUBSET {"execute", "collect", "stream"}]
    /\ FreshIds \in BOOLEAN /\ MaxLines \in Nat

VARIABLES
    pc, way, id,    \* where a request is, how it is served, its stream
    sends,          \* attempts made while do runs
    said,           \* frames upstream has said in the answer being read
    over,           \* how that answer ended
    body,           \* frames of it that are yet to be read
    noise,          \* a line that is none is yet to be read
    got,            \* frames of it collected or emitted
    why,            \* the error a pump has to tell
    answer,         \* what the handler answered
    stream, inbox, told,    \* the host's streams: state, frames, error
    streamCloseOnce         \* ids whose sync.Once is used up

upstream == <<said, over, body, noise>>
request == <<way, id, sends>>
hosted == <<stream, inbox, told, streamCloseOnce>>
vars == <<pc, request, upstream, got, why, answer, hosted>>

-----------------------------------------------------------------------------
Errors == {"credential", "status", "transport", "read", "empty"}

TypeOK ==
    /\ pc \in [Requests -> {"idle", "asked", "prepare", "send", "renew", "read",
                            "tell", "close", "done"}]
    /\ way \in [Requests -> {"execute", "collect", "stream"}]
    /\ \A r \in Requests : way[r] \in Ways[r] \union {"execute"}
    /\ id \in [Requests -> Ids]
    /\ sends \in [Requests -> 0..2]
    /\ said \in [Requests -> 0..MaxLines]
    /\ over \in [Requests -> {"open", "done", "eof", "broken"}]
    /\ body \in [Requests -> Seq(1..MaxLines)]
    /\ noise \in [Requests -> BOOLEAN]
    /\ got \in [Requests -> 0..MaxLines]
    /\ why \in [Requests -> Errors \union {"none"}]
    /\ answer \in [Requests -> {"none", "headers", "whole", "error"}]
    /\ stream \in [Ids -> {"none", "open", "closed", "gone"}]
    /\ inbox \in [Ids -> Seq(1..MaxLines)]
    /\ told \in [Ids -> Errors \union {"none"}]
    /\ streamCloseOnce \subseteq Ids

Init ==
    /\ pc = [r \in Requests |-> "idle"]
    /\ way = [r \in Requests |-> "execute"]
    /\ id = [r \in Requests |-> CHOOSE i \in Ids : TRUE]
    /\ sends = [r \in Requests |-> 0]
    /\ said = [r \in Requests |-> 0]
    /\ over = [r \in Requests |-> "open"]
    /\ body = [r \in Requests |-> <<>>]
    /\ noise = [r \in Requests |-> FALSE]
    /\ got = [r \in Requests |-> 0]
    /\ why = [r \in Requests |-> "none"]
    /\ answer = [r \in Requests |-> "none"]
    /\ stream = [i \in Ids |-> "none"]
    /\ inbox = [i \in Ids |-> <<>>]
    /\ told = [i \in Ids |-> "none"]
    /\ streamCloseOnce = {}

Goto(r, where) == pc' = [pc EXCEPT ![r] = where]

-----------------------------------------------------------------------------
(* The host asks *)

\* executor.execute, or executor.execute_stream without a stream id.
Ask(r, w) ==
    /\ pc[r] = "idle" /\ w # "stream"
    /\ way' = [way EXCEPT ![r] = w]
    /\ Goto(r, "asked")
    /\ UNCHANGED <<id, sends, upstream, got, why, answer, hosted>>

\* executor.execute_stream: the host opens a stream and hands over its id.
AskStream(r, i) ==
    /\ pc[r] = "idle" /\ "stream" \in Ways[r]
    /\ stream[i] # "open"
    /\ FreshIds => stream[i] = "none"
    /\ way' = [way EXCEPT ![r] = "stream"]
    /\ id' = [id EXCEPT ![r] = i]
    /\ stream' = [stream EXCEPT ![i] = "open"]
    /\ inbox' = [inbox EXCEPT ![i] = <<>>]
    /\ told' = [told EXCEPT ![i] = "none"]
    /\ Goto(r, "asked")
    /\ UNCHANGED <<sends, upstream, got, why, answer, streamCloseOnce>>

\* A request or a credential that does not parse. Nothing was started, so the
\* host, which is told at once, is left with the stream.
Reject(r) ==
    /\ pc[r] = "asked"
    /\ answer' = [answer EXCEPT ![r] = "error"]
    /\ stream' = IF way[r] = "stream" THEN [stream EXCEPT ![id[r]] = "gone"] ELSE stream
    /\ Goto(r, "done")
    /\ UNCHANGED <<request, upstream, got, why, inbox, told, streamCloseOnce>>

\* The handler of a stream starts the pump and answers; the others go on.
Accept(r) ==
    /\ pc[r] = "asked"
    /\ answer' = IF way[r] = "stream" THEN [answer EXCEPT ![r] = "headers"] ELSE answer
    /\ Goto(r, "prepare")
    /\ UNCHANGED <<request, upstream, got, why, hosted>>

\* An error goes into the stream if there is one, and into the answer if not;
\* what was collected by then is dropped.
Fail(r, error) ==
    IF way[r] = "stream"
    THEN /\ why' = [why EXCEPT ![r] = error]
         /\ Goto(r, "tell")
         /\ UNCHANGED answer
    ELSE /\ answer' = [answer EXCEPT ![r] = "error"]
         /\ Goto(r, "done")
         /\ UNCHANGED why

-----------------------------------------------------------------------------
(* credential.do *)

Returns(r) == sends' = [sends EXCEPT ![r] = 0]

Prepared(r) ==
    /\ pc[r] = "prepare"
    /\ Goto(r, "send")
    /\ UNCHANGED <<request, upstream, got, why, answer, hosted>>

\* credentialFailure, before the first attempt or after a 401.
RefreshFails(r) ==
    /\ pc[r] \in {"prepare", "renew"}
    /\ Fail(r, "credential") /\ Returns(r)
    /\ UNCHANGED <<way, id, upstream, got, hosted>>

\* The connection fails, Cline answers 401, another error, or begins its answer.
Send(r) ==
    /\ pc[r] = "send"
    /\ \/ Fail(r, "transport") /\ Returns(r)
       \/ /\ sends' = [sends EXCEPT ![r] = @ + 1]
          /\ Goto(r, "renew")
          /\ UNCHANGED <<why, answer>>
       \/ Fail(r, "status") /\ Returns(r)
       \/ Goto(r, "read") /\ Returns(r) /\ UNCHANGED <<why, answer>>
    /\ UNCHANGED <<way, id, upstream, got, hosted>>

\* Bug: every 401 is followed by another attempt.
RenewedAlways(r) ==
    /\ pc[r] = "renew"
    /\ Goto(r, "send")
    /\ UNCHANGED <<request, upstream, got, why, answer, hosted>>

\* The token did change: one more attempt.
Renewed(r) ==
    /\ pc[r] = "renew" /\ sends[r] < 2
    /\ Goto(r, "send")
    /\ UNCHANGED <<request, upstream, got, why, answer, hosted>>

\* The 401 stands: the token is the same, or both attempts are spent.
Unauthorized(r) ==
    /\ pc[r] = "renew"
    /\ Fail(r, "status") /\ Returns(r)
    /\ UNCHANGED <<way, id, upstream, got, hosted>>

-----------------------------------------------------------------------------
(* What upstream says *)

Says(r) ==
    /\ pc[r] = "read" /\ over[r] = "open"
    /\ \/ /\ said[r] < MaxLines
          /\ said' = [said EXCEPT ![r] = @ + 1]
          /\ body' = [body EXCEPT ![r] = Append(@, said[r] + 1)]
          /\ UNCHANGED noise
       \/ /\ ~noise[r]
          /\ noise' = [noise EXCEPT ![r] = TRUE]
          /\ UNCHANGED <<said, body>>
    /\ UNCHANGED <<pc, request, over, got, why, answer, hosted>>

\* [DONE], or the end of the body without it.
Ends(r) ==
    /\ pc[r] = "read" /\ over[r] = "open"
    /\ over' = [over EXCEPT ![r] = "eof"] \/ over' = [over EXCEPT ![r] = "done"]
    /\ UNCHANGED <<pc, request, said, body, noise, got, why, answer, hosted>>

\* Reading fails: nothing more comes, and the last lines may not have arrived.
CutOff(r) ==
    /\ pc[r] = "read" /\ over[r] \in {"open", "done"}
    /\ over' = [over EXCEPT ![r] = "broken"]
    /\ \E n \in 0..Len(body[r]) : body' = [body EXCEPT ![r] = SubSeq(@, 1, n)]
    /\ noise' \in {noise, [noise EXCEPT ![r] = FALSE]}
    /\ UNCHANGED <<pc, request, said, got, why, answer, hosted>>

\* The connection drops, or a line is longer than 4 MB.
Breaks(r) == CutOff(r)

\* Bug: the client has no timeout.
NeverTimesOut(r) == FALSE /\ CutOff(r)

\* requestTimeout of sharedHTTPClient runs out, which includes reading the body,
\* so that it cuts an answer off that takes longer, however healthy.
TimesOut(r) == CutOff(r)

-----------------------------------------------------------------------------
(* Reading the answer *)

\* What of the body was not read never will be.
Dropped(r) ==
    /\ body' = [body EXCEPT ![r] = <<>>]
    /\ noise' = [noise EXCEPT ![r] = FALSE]

\* Bug: the error of reading the body is not looked at.
ReadAllForgotten(r) ==
    /\ pc[r] = "read" /\ way[r] = "execute" /\ over[r] # "open"
    /\ got' = [got EXCEPT ![r] = Len(body[r])]
    /\ answer' = [answer EXCEPT ![r] = "whole"]
    /\ Goto(r, "done")
    /\ Dropped(r)
    /\ UNCHANGED <<request, said, over, why, hosted>>

\* handleExecExecute takes the body as a whole, whatever its lines are.
ReadAll(r) ==
    /\ pc[r] = "read" /\ way[r] = "execute" /\ over[r] # "open"
    /\ IF over[r] = "broken"
       THEN Fail(r, "read") /\ UNCHANGED got
       ELSE /\ got' = [got EXCEPT ![r] = Len(body[r])]
            /\ answer' = [answer EXCEPT ![r] = "whole"]
            /\ Goto(r, "done")
            /\ UNCHANGED why
    /\ Dropped(r)
    /\ UNCHANGED <<request, said, over, hosted>>

Scans(r) == pc[r] = "read" /\ way[r] # "execute"
Empty(r) == body[r] = <<>> /\ ~noise[r]

SkipLine(r) ==
    /\ Scans(r) /\ noise[r]
    /\ noise' = [noise EXCEPT ![r] = FALSE]
    /\ UNCHANGED <<pc, request, said, over, body, got, why, answer, hosted>>

CollectFrame(r) ==
    /\ Scans(r) /\ body[r] # <<>>
    /\ way[r] = "collect"
    /\ got' = [got EXCEPT ![r] = @ + 1]
    /\ body' = [body EXCEPT ![r] = Tail(@)]
    /\ UNCHANGED <<pc, request, said, over, noise, why, answer, hosted>>

\* streamEmit: a host that has given the stream up refuses, and the pump stops.
EmitFrame(r) ==
    /\ Scans(r) /\ body[r] # <<>>
    /\ way[r] = "stream"
    /\ IF stream[id[r]] = "open"
       THEN /\ inbox' = [inbox EXCEPT ![id[r]] = Append(@, Head(body[r]))]
            /\ got' = [got EXCEPT ![r] = @ + 1]
            /\ UNCHANGED pc
       ELSE Goto(r, "close") /\ UNCHANGED <<inbox, got>>
    /\ body' = [body EXCEPT ![r] = Tail(@)]
    /\ UNCHANGED <<request, said, over, noise, why, answer, stream, told, streamCloseOnce>>

\* The loop ends, at [DONE] or with the body: an answer without a frame is an error.
EndOfAnswer(r) ==
    /\ Scans(r) /\ Empty(r) /\ over[r] \in {"done", "eof"}
    /\ IF got[r] = 0 THEN Fail(r, "empty")
       ELSE IF way[r] = "stream" THEN Goto(r, "close") /\ UNCHANGED <<why, answer>>
       ELSE /\ answer' = [answer EXCEPT ![r] = "whole"]
            /\ Goto(r, "done")
            /\ UNCHANGED why
    /\ UNCHANGED <<request, upstream, got, hosted>>

\* Bug: scanner.Err is not looked at, so the answer ends as if it were complete.
ReadErrorForgotten(r) ==
    /\ Scans(r) /\ Empty(r) /\ over[r] = "broken"
    /\ IF way[r] = "stream" THEN Goto(r, "close") /\ UNCHANGED answer
       ELSE Goto(r, "done") /\ answer' = [answer EXCEPT ![r] = "whole"]
    /\ UNCHANGED <<request, upstream, got, why, hosted>>

\* Bug: an answer that breaks off is asked for once more.
ReadErrorRetried(r) ==
    /\ Scans(r) /\ Empty(r) /\ over[r] = "broken"
    /\ Goto(r, "send")
    /\ said' = [said EXCEPT ![r] = 0]
    /\ over' = [over EXCEPT ![r] = "open"]
    /\ UNCHANGED <<request, body, noise, got, why, answer, hosted>>

\* scanner.Err, once the lines that did arrive are read.
ReadError(r) ==
    /\ Scans(r) /\ Empty(r) /\ over[r] = "broken"
    /\ Fail(r, "read")
    /\ UNCHANGED <<request, upstream, got, hosted>>

-----------------------------------------------------------------------------
(* The end of a stream *)

\* streamEmitError, whose own failure is of no consequence.
Tell(r) ==
    /\ pc[r] = "tell"
    /\ told' = IF stream[id[r]] = "open" THEN [told EXCEPT ![id[r]] = why[r]] ELSE told
    /\ why' = [why EXCEPT ![r] = "none"]
    /\ Goto(r, "close")
    /\ UNCHANGED <<request, upstream, got, answer, stream, inbox, streamCloseOnce>>

\* Bug: one sync.Once for all streams.
CloseFirst(r) ==
    /\ pc[r] = "close"
    /\ stream' = IF streamCloseOnce = {} /\ stream[id[r]] = "open"
                 THEN [stream EXCEPT ![id[r]] = "closed"] ELSE stream
    /\ streamCloseOnce' = streamCloseOnce \union {id[r]}
    /\ Goto(r, "done")
    /\ UNCHANGED <<request, upstream, got, why, answer, inbox, told>>

\* The deferred calls: the body is dropped, the stream closed, once per id for good.
Close(r) ==
    /\ pc[r] = "close"
    /\ stream' = IF id[r] \notin streamCloseOnce /\ stream[id[r]] = "open"
                 THEN [stream EXCEPT ![id[r]] = "closed"] ELSE stream
    /\ streamCloseOnce' = streamCloseOnce \union {id[r]}
    /\ Dropped(r)
    /\ Goto(r, "done")
    /\ UNCHANGED <<request, said, over, got, why, answer, inbox, told>>

\* The client of the host goes away.
ClientLeaves(i) ==
    /\ stream[i] = "open"
    /\ stream' = [stream EXCEPT ![i] = "gone"]
    /\ UNCHANGED <<pc, request, upstream, got, why, answer, inbox, told, streamCloseOnce>>

-----------------------------------------------------------------------------
Work(r) ==
    \/ Reject(r) \/ Accept(r)
    \/ Prepared(r) \/ RefreshFails(r) \/ Send(r) \/ Renewed(r) \/ Unauthorized(r)
    \/ ReadAll(r) \/ SkipLine(r) \/ CollectFrame(r) \/ EmitFrame(r)
    \/ EndOfAnswer(r) \/ ReadError(r)
    \/ Tell(r) \/ Close(r)

Upstream(r) == Says(r) \/ Ends(r) \/ Breaks(r) \/ TimesOut(r)

Asks(r) == (\E w \in Ways[r] : Ask(r, w)) \/ (\E i \in Ids : AskStream(r, i))

Next ==
    \/ \E r \in Requests : Asks(r) \/ Work(r) \/ Upstream(r)
    \/ \E i \in Ids : ClientLeaves(i)

\* A goroutine that can move does, and the HTTP client's timeout fires; upstream,
\* the host and its clients owe nothing.
Spec ==
    /\ Init /\ [][Next]_vars
    /\ \A r \in Requests : WF_vars(Work(r)) /\ WF_vars(TimesOut(r))
-----------------------------------------------------------------------------
(* Properties *)

\* What the error in a stream, or that there is none, says of the answer.
Verdict(r, error) ==
    LET i == id[r]
        complete == over[r] \in {"done", "eof"} /\ Len(inbox[i]) = said[r]
    IN  CASE error = "none"  -> complete /\ said[r] > 0
          [] error = "empty" -> complete /\ said[r] = 0
          [] error = "read"  -> over[r] = "broken"
          [] OTHER           -> inbox[i] = <<>>

\* A stream that the plugin closed says what became of the answer. Without an
\* error the host has every frame, and upstream had come to an end by itself; an
\* error means that there was nothing, that the answer broke off, or that none had
\* begun (stream.go:107-147; plugin_test.go:451-454).
StreamTellsTheTruth ==
    \A r \in Requests :
        way[r] = "stream" /\ pc[r] = "done" /\ stream[id[r]] = "closed" =>
            Verdict(r, told[id[r]])

\* An answer given as a whole is the whole one: upstream had finished it and none
\* of its frames is missing, whatever broke off, timed out or was retried on the
\* way (handleExecExecute, collectUpstreamStream).
AnswerIsWhole ==
    \A r \in Requests :
        answer[r] = "whole" =>
            /\ over[r] \in {"done", "eof"} /\ got[r] = said[r]
            /\ way[r] = "collect" => said[r] > 0

\* "Nothing has been emitted when a 401 arrives, which is what makes the retry
\* inside do safe here" (stream.go:85-86): no request goes upstream for a stream
\* that has shown a part of an answer.
RetryIsSafe ==
    [][\A r \in Requests :
          pc'[r] = "send" /\ way[r] = "stream" => inbox[id[r]] = <<>>]_vars

\* Every stream is one that HostStream allows, its end included.
Contract == INSTANCE HostStream WITH failed <- [i \in Ids |-> told[i] # "none"]
ContractKept == Contract!Spec

\* Every request ends, also one whose client has gone or whose upstream sends
\* comments for ever: no pump stays behind (requestTimeout, main.go:301).
EveryRequestEnds == \A r \in Requests : pc[r] = "asked" ~> pc[r] = "done"
=============================================================================
