---------------------------- MODULE StreamProofs ----------------------------
(***************************************************************************)
(* Chat requests and their streams, for any number of them, any ways of    *)
(* serving them and answers of any length.                                 *)
(***************************************************************************)
EXTENDS Stream, SequenceTheorems, TLAPS

(* Frames numbered in a row *)

\* The frames that follow the first g.
Numbered(s, g) == \A n \in 1..Len(s) : s[n] = g + n

LEMMA NumberedTail ==
  ASSUME NEW S, NEW s \in Seq(S), s # <<>>, NEW g \in Nat, Numbered(s, g)
  PROVE  /\ Head(s) = g + 1
         /\ Len(s) \in Nat \ {0} /\ Len(Tail(s)) = Len(s) - 1
         /\ Numbered(Tail(s), g + 1)
<1> DEFINE t == Tail(s)
<1>1. /\ Len(s) \in Nat \ {0} /\ Head(s) = s[1] /\ Len(t) = Len(s) - 1
      /\ \A n \in 1..Len(t) : t[n] = s[n + 1]
  OBVIOUS
<1> HIDE DEF t
<1>2. Head(s) = g + 1
  BY <1>1 DEF Numbered
<1>3. ASSUME NEW n \in 1..Len(t)  PROVE t[n] = (g + 1) + n
  <2>1. n + 1 \in 1..Len(s)
    BY <1>1
  <2>2. s[n + 1] = g + (n + 1)
    BY <2>1 DEF Numbered
  <2> QED  BY <1>1, <2>2
<1> QED  BY <1>1, <1>2, <1>3 DEF Numbered, t

LEMMA NumberedAppend ==
  ASSUME NEW S, NEW s \in Seq(S), NEW g \in Nat, Numbered(s, g),
         NEW e, e = g + Len(s) + 1
  PROVE  /\ Len(s) \in Nat /\ Len(Append(s, e)) = Len(s) + 1
         /\ Numbered(Append(s, e), g)
<1> DEFINE t == Append(s, e)
<1>1. /\ Len(s) \in Nat /\ Len(t) = Len(s) + 1
      /\ \A n \in 1..Len(s) : t[n] = s[n]
      /\ t[Len(s) + 1] = e
  OBVIOUS
<1> HIDE DEF t
<1>2. ASSUME NEW n \in 1..Len(t)  PROVE t[n] = g + n
  <2>1. CASE n = Len(s) + 1
    BY <1>1, <2>1
  <2>2. CASE n # Len(s) + 1
    <3>1. n \in 1..Len(s)
      BY <1>1, <2>2
    <3> QED  BY <1>1, <3>1 DEF Numbered
  <2> QED  BY <2>1, <2>2
<1> QED  BY <1>1, <1>2 DEF Numbered, t

LEMMA NumberedPart ==
  ASSUME NEW S, NEW s \in Seq(S), NEW g \in Nat, Numbered(s, g), NEW m \in 0..Len(s)
  PROVE  /\ Len(s) \in Nat /\ Len(SubSeq(s, 1, m)) = m
         /\ Numbered(SubSeq(s, 1, m), g)
<1> DEFINE t == SubSeq(s, 1, m)
<1>1. /\ Len(s) \in Nat /\ Len(t) = m
      /\ \A n \in 1..m : t[n] = s[n]
  OBVIOUS
<1> HIDE DEF t
<1>2. \A n \in 1..m : n \in 1..Len(s)
  BY <1>1
<1> QED  BY <1>1, <1>2 DEF Numbered, t

-----------------------------------------------------------------------------
\* do has made no attempt, one, or two, by the place it has come to.
Attempts(r) ==
    /\ pc[r] \notin {"send", "renew"} => sends[r] = 0
    /\ pc[r] = "send" => sends[r] < 2
    /\ pc[r] = "renew" => sends[r] > 0

\* Nothing of an answer exists before it begins.
Unread(r) ==
    /\ said[r] = 0 /\ over[r] = "open" /\ body[r] = <<>> /\ ~noise[r] /\ got[r] = 0

\* What is taken and what is still to be read are, in order, what was said, and all
\* of it unless reading has failed.
InOrder(r) ==
    /\ got[r] + Len(body[r]) <= said[r]
    /\ over[r] # "broken" => got[r] + Len(body[r]) = said[r]
    /\ Numbered(body[r], got[r])

\* An answer that is given as a whole ends the request.
Whole(r) ==
    /\ pc[r] = "done" /\ way[r] # "stream"
    /\ over[r] \in {"done", "eof"} /\ got[r] = said[r]
    /\ way[r] = "collect" => said[r] > 0

Counted(r) ==
    /\ Attempts(r)
    /\ pc[r] \in {"idle", "asked", "prepare", "send", "renew"} => Unread(r)
    /\ pc[r] = "read" => InOrder(r) /\ (way[r] = "execute" => got[r] = 0)
    /\ answer[r] = "whole" => Whole(r)
    /\ pc[r] \in {"tell", "close"} => way[r] = "stream"

ReadInv == TypeOK /\ \A r \in Requests : Counted(r)

LEMMA InitReadInv == Init => ReadInv
  BY StreamAssumption
  DEF Init, ReadInv, TypeOK, Errors, Counted, Attempts, Unread, InOrder, Whole

Places == {"idle", "asked", "prepare", "send", "renew", "read", "tell", "close", "done"}

\* The types of what Fail changes, whichever way the error goes.
LEMMA FailTypes ==
  ASSUME TypeOK, NEW r \in Requests, NEW error \in Errors, Fail(r, error)
  PROVE  /\ pc' \in [Requests -> Places]
         /\ why' \in [Requests -> Errors \union {"none"}]
         /\ answer' \in [Requests -> {"none", "headers", "whole", "error"}]
<1>1. CASE way[r] = "stream"
  <2>1. /\ why' = [why EXCEPT ![r] = error]
        /\ pc' = [pc EXCEPT ![r] = "tell"]
        /\ answer' = answer
    BY <1>1 DEF Fail, Goto
  <2> QED  BY <2>1 DEF TypeOK, Places
<1>2. CASE way[r] # "stream"
  <2>1. /\ answer' = [answer EXCEPT ![r] = "error"]
        /\ pc' = [pc EXCEPT ![r] = "done"]
        /\ why' = why
    BY <1>2 DEF Fail, Goto
  <2> QED  BY <2>1 DEF TypeOK, Places
<1> QED  BY <1>1, <1>2

LEMMA TypeStep == ReadInv /\ [Next]_vars => TypeOK'
<1> SUFFICES ASSUME ReadInv, [Next]_vars
             PROVE  TypeOK'
  OBVIOUS
<1> USE StreamAssumption
    DEF request, upstream, hosted, Goto, Returns
<1>1. ASSUME NEW r \in Requests, NEW w \in Ways[r], Ask(r, w)  PROVE TypeOK'
  BY <1>1 DEF Ask, ReadInv, TypeOK, Errors
<1>2. ASSUME NEW r \in Requests, NEW i \in Ids, AskStream(r, i)  PROVE TypeOK'
  <2>1. /\ way' = [way EXCEPT ![r] = "stream"]
        /\ \A q \in Requests : way'[q] \in Ways[q] \union {"execute"}
    BY <1>2 DEF AskStream, ReadInv, TypeOK
  <2>2. /\ way' \in [Requests -> {"execute", "collect", "stream"}]
        /\ pc' \in [Requests -> Places]
        /\ id' \in [Requests -> Ids]
        /\ stream' \in [Ids -> {"none", "open", "closed", "gone"}]
        /\ inbox' \in [Ids -> Seq(1..MaxLines)]
        /\ told' \in [Ids -> Errors \union {"none"}]
    BY <1>2 DEF AskStream, ReadInv, TypeOK, Places
  <2> QED  BY <1>2, <2>1, <2>2 DEF AskStream, ReadInv, TypeOK, Places
<1>3. ASSUME NEW r \in Requests, Reject(r)  PROVE TypeOK'
  BY <1>3 DEF Reject, ReadInv, TypeOK, Errors
<1>4. ASSUME NEW r \in Requests, Accept(r)  PROVE TypeOK'
  BY <1>4 DEF Accept, ReadInv, TypeOK, Errors
<1>5. ASSUME NEW r \in Requests, Prepared(r)  PROVE TypeOK'
  BY <1>5 DEF Prepared, ReadInv, TypeOK, Errors
<1>6. ASSUME NEW r \in Requests, RefreshFails(r)  PROVE TypeOK'
  <2>1. Fail(r, "credential")
    BY <1>6 DEF RefreshFails
  <2> QED  BY <1>6, <2>1, FailTypes DEF RefreshFails, Places, ReadInv, TypeOK, Errors
<1>7. ASSUME NEW r \in Requests, Send(r)  PROVE TypeOK'
  <2>0. pc[r] = "send" /\ UNCHANGED <<way, id, upstream, got, hosted>>
    BY <1>7 DEF Send
  <2>1. CASE Fail(r, "transport") /\ Returns(r)
    BY <2>0, <2>1, FailTypes DEF Places, ReadInv, TypeOK, Errors
  <2>2. CASE /\ sends' = [sends EXCEPT ![r] = @ + 1]
             /\ Goto(r, "renew") /\ UNCHANGED <<why, answer>>
    <3>1. sends[r] \in 0..2 /\ sends[r] < 2
      BY <2>0 DEF Counted, Attempts, ReadInv, TypeOK
    <3>2. sends' = [sends EXCEPT ![r] = @ + 1] /\ pc' = [pc EXCEPT ![r] = "renew"]
      BY <2>2
    <3>3. sends[r] + 1 \in 0..2
      BY <3>1 DEF ReadInv, TypeOK, Errors
    <3> QED  BY <2>0, <2>2, <3>2, <3>3 DEF ReadInv, TypeOK, Errors
  <2>3. CASE Fail(r, "status") /\ Returns(r)
    BY <2>0, <2>3, FailTypes DEF Places, ReadInv, TypeOK, Errors
  <2>4. CASE Goto(r, "read") /\ Returns(r) /\ UNCHANGED <<why, answer>>
    BY <2>0, <2>4 DEF ReadInv, TypeOK, Errors
  <2> QED  BY <1>7, <2>1, <2>2, <2>3, <2>4 DEF Send
<1>8. ASSUME NEW r \in Requests, Renewed(r)  PROVE TypeOK'
  BY <1>8 DEF Renewed, ReadInv, TypeOK, Errors
<1>9. ASSUME NEW r \in Requests, Unauthorized(r)  PROVE TypeOK'
  <2>1. Fail(r, "status")
    BY <1>9 DEF Unauthorized
  <2> QED  BY <1>9, <2>1, FailTypes DEF Unauthorized, Places, ReadInv, TypeOK, Errors
<1>10. ASSUME NEW r \in Requests, Says(r)  PROVE TypeOK'
  <2> USE <1>10 DEF Says
  <2>1. CASE /\ said[r] < MaxLines
             /\ said' = [said EXCEPT ![r] = @ + 1]
             /\ body' = [body EXCEPT ![r] = Append(@, said[r] + 1)]
             /\ UNCHANGED noise
    <3>1. Append(body[r], said[r] + 1) \in Seq(1..MaxLines)
      BY <2>1 DEF ReadInv, TypeOK, Errors
    <3> QED  BY <2>1, <3>1 DEF ReadInv, TypeOK, Errors
  <2>2. CASE noise' = [noise EXCEPT ![r] = TRUE] /\ UNCHANGED <<said, body>>
    BY <2>2 DEF ReadInv, TypeOK, Errors
  <2> QED  BY <2>1, <2>2
<1>11. ASSUME NEW r \in Requests, Ends(r)  PROVE TypeOK'
  BY <1>11 DEF Ends, ReadInv, TypeOK, Errors
<1>12. ASSUME NEW r \in Requests, CutOff(r)  PROVE TypeOK'
  <2>1. PICK n \in 0..Len(body[r]) : body' = [body EXCEPT ![r] = SubSeq(@, 1, n)]
    BY <1>12 DEF CutOff
  <2>2. SubSeq(body[r], 1, n) \in Seq(1..MaxLines)
    BY DEF ReadInv, TypeOK
  <2>3. noise' \in [Requests -> BOOLEAN]
    BY <1>12 DEF CutOff, ReadInv, TypeOK
  <2> QED  BY <1>12, <2>1, <2>2, <2>3 DEF CutOff, ReadInv, TypeOK, Errors
<1>13. ASSUME NEW r \in Requests, ReadAll(r)  PROVE TypeOK'
  <2> USE DEF Dropped
  <2>1. CASE over[r] = "broken"
    <3>1. Fail(r, "read") /\ got' = got
      BY <1>13, <2>1 DEF ReadAll
    <3>2. Dropped(r) /\ UNCHANGED <<request, said, over, hosted>>
      BY <1>13 DEF ReadAll
    <3> QED  BY <3>1, <3>2, FailTypes DEF Places, ReadInv, TypeOK, Errors
  <2>2. CASE over[r] # "broken"
    <3>1. Len(body[r]) \in 0..MaxLines
      BY <1>13 DEF ReadAll, Counted, InOrder, ReadInv, TypeOK, Errors
    <3>2. /\ got' = [got EXCEPT ![r] = Len(body[r])]
          /\ answer' = [answer EXCEPT ![r] = "whole"]
          /\ pc' = [pc EXCEPT ![r] = "done"]
          /\ why' = why
      BY <1>13, <2>2 DEF ReadAll
    <3>3. Dropped(r) /\ UNCHANGED <<request, said, over, hosted>>
      BY <1>13 DEF ReadAll
    <3> QED  BY <3>1, <3>2, <3>3 DEF ReadInv, TypeOK, Errors
  <2> QED  BY <2>1, <2>2
<1>14. ASSUME NEW r \in Requests, SkipLine(r)  PROVE TypeOK'
  BY <1>14 DEF SkipLine, ReadInv, TypeOK, Errors
<1>15. ASSUME NEW r \in Requests, CollectFrame(r)  PROVE TypeOK'
  <2>1. got[r] + 1 \in 0..MaxLines /\ Tail(body[r]) \in Seq(1..MaxLines)
    BY <1>15 DEF CollectFrame, Scans, Counted, InOrder, ReadInv, TypeOK
  <2> QED  BY <1>15, <2>1 DEF CollectFrame, ReadInv, TypeOK, Errors
<1>16. ASSUME NEW r \in Requests, EmitFrame(r)  PROVE TypeOK'
  <2>1. Head(body[r]) \in 1..MaxLines /\ Tail(body[r]) \in Seq(1..MaxLines)
    BY <1>16 DEF EmitFrame, ReadInv, TypeOK
  <2>0. /\ body' = [body EXCEPT ![r] = Tail(@)]
        /\ UNCHANGED <<request, said, over, noise, why, answer, stream, told, streamCloseOnce>>
    BY <1>16 DEF EmitFrame
  <2>2. CASE stream[id[r]] = "open"
    <3>1. Append(inbox[id[r]], Head(body[r])) \in Seq(1..MaxLines)
      BY <2>1 DEF ReadInv, TypeOK, Errors
    <3>2. got[r] + 1 \in 0..MaxLines
      BY <1>16 DEF EmitFrame, Scans, Counted, InOrder, ReadInv, TypeOK, Errors
    <3>3. /\ inbox' = [inbox EXCEPT ![id[r]] = Append(@, Head(body[r]))]
          /\ got' = [got EXCEPT ![r] = @ + 1]
          /\ pc' = pc
      BY <1>16, <2>2 DEF EmitFrame, ReadInv, TypeOK, Errors
    <3> QED  BY <2>0, <2>1, <3>1, <3>2, <3>3 DEF ReadInv, TypeOK, Errors
  <2>3. CASE stream[id[r]] # "open"
    <3>1. pc' = [pc EXCEPT ![r] = "close"] /\ inbox' = inbox /\ got' = got
      BY <1>16, <2>3 DEF EmitFrame
    <3> QED  BY <2>0, <2>1, <3>1 DEF ReadInv, TypeOK, Errors
  <2> QED  BY <2>2, <2>3
<1>17. ASSUME NEW r \in Requests, EndOfAnswer(r)  PROVE TypeOK'
  <2>1. UNCHANGED <<request, upstream, got, hosted>>
    BY <1>17 DEF EndOfAnswer
  <2>2. CASE Fail(r, "empty")
    BY <2>1, <2>2, FailTypes DEF Places, ReadInv, TypeOK, Errors
  <2>3. CASE Goto(r, "close") /\ UNCHANGED <<why, answer>>
    BY <2>1, <2>3 DEF ReadInv, TypeOK, Errors
  <2>4. CASE answer' = [answer EXCEPT ![r] = "whole"] /\ Goto(r, "done") /\ UNCHANGED why
    BY <2>1, <2>4 DEF ReadInv, TypeOK, Errors
  <2> QED  BY <1>17, <2>2, <2>3, <2>4 DEF EndOfAnswer
<1>18. ASSUME NEW r \in Requests, ReadError(r)  PROVE TypeOK'
  <2>1. Fail(r, "read") /\ UNCHANGED <<request, upstream, got, hosted>>
    BY <1>18 DEF ReadError
  <2> QED  BY <2>1, FailTypes DEF Places, ReadInv, TypeOK, Errors
<1>19. ASSUME NEW r \in Requests, Tell(r)  PROVE TypeOK'
  BY <1>19 DEF Tell, ReadInv, TypeOK, Errors
<1>20. ASSUME NEW r \in Requests, Close(r)  PROVE TypeOK'
  BY <1>20 DEF Close, Dropped, ReadInv, TypeOK, Errors
<1>21. ASSUME NEW i \in Ids, ClientLeaves(i)  PROVE TypeOK'
  BY <1>21 DEF ClientLeaves, ReadInv, TypeOK, Errors
<1>22. CASE UNCHANGED vars
  BY <1>22 DEF vars, ReadInv, TypeOK, Errors
<1> QED
  BY <1>1, <1>2, <1>3, <1>4, <1>5, <1>6, <1>7, <1>8, <1>9, <1>10, <1>11, <1>12, <1>13,
     <1>14, <1>15, <1>16, <1>17, <1>18, <1>19, <1>20, <1>21, <1>22
  DEF Next, Asks, Work, Upstream, Breaks, TimesOut

-----------------------------------------------------------------------------
(* What a step of one request leaves alone *)

\* All of it that is q's own.
Same(q) ==
    /\ pc'[q] = pc[q] /\ way'[q] = way[q] /\ id'[q] = id[q] /\ sends'[q] = sends[q]
    /\ said'[q] = said[q] /\ over'[q] = over[q] /\ body'[q] = body[q]
    /\ noise'[q] = noise[q] /\ got'[q] = got[q] /\ why'[q] = why[q]
    /\ answer'[q] = answer[q]

LEMMA SameCounted ==
  ASSUME NEW q \in Requests, Counted(q), Same(q)
  PROVE  Counted(q)'
  BY DEF Counted, Same, Attempts, Unread, InOrder, Whole

LEMMA FailSame ==
  ASSUME TypeOK, NEW r \in Requests, NEW error, Fail(r, error), NEW q \in Requests \ {r}
  PROVE  pc'[q] = pc[q] /\ why'[q] = why[q] /\ answer'[q] = answer[q]
<1>1. CASE way[r] = "stream"
  BY <1>1 DEF Fail, Goto, TypeOK
<1>2. CASE way[r] # "stream"
  BY <1>2 DEF Fail, Goto, TypeOK
<1> QED  BY <1>1, <1>2

LEMMA OthersSame ==
  ASSUME TypeOK, NEW r \in Requests, Asks(r) \/ Work(r) \/ Upstream(r),
         NEW q \in Requests \ {r}
  PROVE  Same(q)
<1> USE DEF request, upstream, hosted, Goto, Returns, Same
<1>1. ASSUME NEW w \in Ways[r], Ask(r, w)  PROVE Same(q)
  BY <1>1 DEF Ask, TypeOK
<1>2. ASSUME NEW i \in Ids, AskStream(r, i)  PROVE Same(q)
  BY <1>2 DEF AskStream, TypeOK
<1>3. CASE Reject(r)
  BY <1>3 DEF Reject, TypeOK
<1>4. CASE Accept(r)
  BY <1>4 DEF Accept, TypeOK
<1>5. CASE Prepared(r) \/ Renewed(r)
  BY <1>5 DEF Prepared, Renewed, TypeOK
<1>6. CASE RefreshFails(r)
  BY <1>6, FailSame DEF RefreshFails, TypeOK
<1>7. CASE Send(r)
  <2>1. UNCHANGED <<way, id, upstream, got, hosted>>
    BY <1>7 DEF Send
  <2>2. CASE (Fail(r, "transport") \/ Fail(r, "status")) /\ Returns(r)
    BY <2>1, <2>2, FailSame DEF TypeOK
  <2>3. CASE sends' = [sends EXCEPT ![r] = @ + 1] /\ Goto(r, "renew") /\ UNCHANGED <<why, answer>>
    BY <2>1, <2>3 DEF TypeOK
  <2>4. CASE Goto(r, "read") /\ Returns(r) /\ UNCHANGED <<why, answer>>
    BY <2>1, <2>4 DEF TypeOK
  <2> QED  BY <1>7, <2>2, <2>3, <2>4 DEF Send
<1>8. CASE Unauthorized(r)
  BY <1>8, FailSame DEF Unauthorized, TypeOK
<1>9. CASE Says(r)
  BY <1>9 DEF Says, TypeOK
<1>10. CASE Ends(r)
  BY <1>10 DEF Ends, TypeOK
<1>11. CASE CutOff(r)
  <2>1. PICK n \in 0..Len(body[r]) : body' = [body EXCEPT ![r] = SubSeq(@, 1, n)]
    BY <1>11 DEF CutOff
  <2>2. body'[q] = body[q]
    BY <2>1 DEF TypeOK
  <2> QED  BY <1>11, <2>2 DEF CutOff, TypeOK
<1>12. CASE ReadAll(r)
  <2>1. Dropped(r) /\ UNCHANGED <<request, said, over, hosted>>
    BY <1>12 DEF ReadAll
  <2>2. CASE over[r] = "broken"
    <3>1. Fail(r, "read") /\ UNCHANGED got
      BY <1>12, <2>2 DEF ReadAll
    <3> QED  BY <2>1, <3>1, FailSame DEF Dropped, TypeOK
  <2>3. CASE over[r] # "broken"
    <3>1. /\ got' = [got EXCEPT ![r] = Len(body[r])]
          /\ answer' = [answer EXCEPT ![r] = "whole"]
          /\ Goto(r, "done") /\ UNCHANGED why
      BY <1>12, <2>3 DEF ReadAll
    <3> QED  BY <2>1, <3>1 DEF Dropped, TypeOK
  <2> QED  BY <2>2, <2>3
<1>13. CASE SkipLine(r)
  BY <1>13 DEF SkipLine, TypeOK
<1>14. CASE CollectFrame(r)
  BY <1>14 DEF CollectFrame, TypeOK
<1>15. CASE EmitFrame(r)
  BY <1>15 DEF EmitFrame, TypeOK
<1>16. CASE EndOfAnswer(r)
  <2>1. UNCHANGED <<request, upstream, got, hosted>>
    BY <1>16 DEF EndOfAnswer
  <2>2. CASE Fail(r, "empty")
    BY <2>1, <2>2, FailSame DEF TypeOK
  <2>3. CASE Goto(r, "close") /\ UNCHANGED <<why, answer>>
    BY <2>1, <2>3 DEF TypeOK
  <2>4. CASE answer' = [answer EXCEPT ![r] = "whole"] /\ Goto(r, "done") /\ UNCHANGED why
    BY <2>1, <2>4 DEF TypeOK
  <2> QED  BY <1>16, <2>2, <2>3, <2>4 DEF EndOfAnswer
<1>17. CASE ReadError(r)
  BY <1>17, FailSame DEF ReadError
<1>18. CASE Tell(r)
  BY <1>18 DEF Tell, TypeOK
<1>19. CASE Close(r)
  BY <1>19 DEF Close, Dropped, TypeOK
<1> QED
  BY <1>1, <1>2, <1>3, <1>4, <1>5, <1>6, <1>7, <1>8, <1>9, <1>10, <1>11, <1>12, <1>13,
     <1>14, <1>15, <1>16, <1>17, <1>18, <1>19
  DEF Asks, Work, Upstream, Breaks, TimesOut

-----------------------------------------------------------------------------
(* What a step does to its own request *)

LEMMA FailOwn ==
  ASSUME TypeOK, NEW r \in Requests, NEW error, Fail(r, error)
  PROVE  \/ /\ way[r] = "stream" /\ pc'[r] = "tell" /\ why'[r] = error
            /\ answer'[r] = answer[r]
         \/ way[r] # "stream" /\ pc'[r] = "done" /\ answer'[r] = "error"
<1>1. CASE way[r] = "stream"
  BY <1>1 DEF Fail, Goto, TypeOK
<1>2. CASE way[r] # "stream"
  BY <1>2 DEF Fail, Goto, TypeOK
<1> QED  BY <1>1, <1>2

\* Taking the first of the frames that are to be read.
LEMMA TakeFrame ==
  ASSUME TypeOK, NEW r \in Requests, InOrder(r), body[r] # <<>>,
         body'[r] = Tail(body[r]), got'[r] = got[r] + 1,
         said'[r] = said[r], over'[r] = over[r]
  PROVE  InOrder(r)' /\ Head(body[r]) = got[r] + 1
<1>1. body[r] \in Seq(1..MaxLines) /\ said[r] \in Nat /\ got[r] \in Nat
  BY StreamAssumption DEF TypeOK
<1>2. /\ Head(body[r]) = got[r] + 1
      /\ Len(body[r]) \in Nat \ {0} /\ Len(Tail(body[r])) = Len(body[r]) - 1
      /\ Numbered(Tail(body[r]), got[r] + 1)
  BY <1>1, NumberedTail DEF InOrder
<1> DEFINE t == Tail(body[r])
<1>3. /\ got'[r] + Len(t) = got[r] + Len(body[r])
      /\ Numbered(t, got'[r])
  <2> HIDE DEF t
  <2>1. Len(body[r]) \in Nat \ {0} /\ Len(t) = Len(body[r]) - 1 /\ Numbered(t, got[r] + 1)
    BY <1>2 DEF t
  <2> QED  BY <1>1, <2>1
<1>4. /\ got'[r] + Len(body'[r]) = got[r] + Len(body[r])
      /\ Numbered(body'[r], got'[r])
  BY <1>3
<1>5. /\ got[r] + Len(body[r]) <= said[r]
      /\ over[r] # "broken" => got[r] + Len(body[r]) = said[r]
  BY DEF InOrder
<1> HIDE DEF t
<1> QED  BY <1>2, <1>4, <1>5 DEF InOrder

\* Upstream says one more.
LEMMA AddFrame ==
  ASSUME TypeOK, NEW r \in Requests, InOrder(r), over[r] = "open",
         body'[r] = Append(body[r], said[r] + 1), said'[r] = said[r] + 1,
         got'[r] = got[r], over'[r] = over[r]
  PROVE  InOrder(r)'
<1>1. body[r] \in Seq(1..MaxLines) /\ said[r] \in Nat /\ got[r] \in Nat
  BY StreamAssumption DEF TypeOK
<1>2. /\ Len(body[r]) \in Nat /\ Len(Append(body[r], said[r] + 1)) = Len(body[r]) + 1
      /\ Numbered(Append(body[r], said[r] + 1), got[r])
  BY <1>1, NumberedAppend DEF InOrder
<1> QED  BY <1>1, <1>2 DEF InOrder

LEMMA OwnCounted ==
  ASSUME TypeOK, NEW r \in Requests, Counted(r), Asks(r) \/ Work(r) \/ Upstream(r)
  PROVE  Counted(r)'
<1> USE DEF request, upstream, Goto, Returns, Counted, Attempts
<1>0. answer[r] = "whole" => pc[r] = "done"
  BY DEF Whole
<1>1. ASSUME NEW w \in Ways[r], Ask(r, w)  PROVE Counted(r)'
  BY <1>1, <1>0 DEF Ask, TypeOK, Unread
<1>2. ASSUME NEW i \in Ids, AskStream(r, i)  PROVE Counted(r)'
  BY <1>2, <1>0 DEF AskStream, TypeOK, Unread
<1>3. CASE Reject(r)
  BY <1>3 DEF Reject, TypeOK
<1>4. CASE Accept(r)
  BY <1>4, <1>0 DEF Accept, TypeOK, Unread
<1>5. CASE Prepared(r) \/ Renewed(r)
  BY <1>5, <1>0 DEF Prepared, Renewed, TypeOK, Unread
<1>6. CASE RefreshFails(r)
  <2>1. sends'[r] = 0
    BY <1>6 DEF RefreshFails, TypeOK
  <2> QED  BY <1>6, <1>0, <2>1, FailOwn DEF RefreshFails
<1>7. CASE Send(r)
  <2>1. pc[r] = "send" /\ UNCHANGED <<way, id, upstream, got>>
    BY <1>7 DEF Send
  <2>2. CASE (Fail(r, "transport") \/ Fail(r, "status")) /\ Returns(r)
    BY <1>0, <2>1, <2>2, FailOwn DEF TypeOK
  <2>3. CASE sends' = [sends EXCEPT ![r] = @ + 1] /\ Goto(r, "renew") /\ UNCHANGED <<why, answer>>
    <3>1. sends'[r] = sends[r] + 1 /\ sends[r] \in 0..2 /\ pc'[r] = "renew"
      BY <2>3 DEF TypeOK
    <3> QED  BY <1>0, <2>1, <2>3, <3>1 DEF Unread
  <2>4. CASE Goto(r, "read") /\ Returns(r) /\ UNCHANGED <<why, answer>>
    <3>1. pc'[r] = "read" /\ sends'[r] = 0 /\ answer'[r] # "whole"
      BY <1>0, <2>1, <2>4 DEF TypeOK
    <3>2. got[r] = 0 /\ said[r] = 0 /\ body[r] = <<>> /\ over[r] = "open"
      BY <2>1 DEF Unread
    <3>3. InOrder(r)' /\ got'[r] = 0
      BY <2>1, <3>2 DEF InOrder, Numbered
    <3> QED  BY <3>1, <3>3
  <2> QED  BY <1>7, <2>2, <2>3, <2>4 DEF Send
<1>8. CASE Unauthorized(r)
  <2>1. sends'[r] = 0
    BY <1>8 DEF Unauthorized, TypeOK
  <2> QED  BY <1>8, <1>0, <2>1, FailOwn DEF Unauthorized
<1>9. CASE Says(r)
  <2>1. /\ pc[r] = "read" /\ over[r] = "open" /\ InOrder(r)
        /\ UNCHANGED <<pc, request, over, got, answer>>
    BY <1>9 DEF Says
  <2>2. CASE /\ said' = [said EXCEPT ![r] = @ + 1]
             /\ body' = [body EXCEPT ![r] = Append(@, said[r] + 1)]
    <3>1. said'[r] = said[r] + 1 /\ body'[r] = Append(body[r], said[r] + 1)
      BY <2>2 DEF TypeOK
    <3>2. InOrder(r)'
      BY <2>1, <3>1, AddFrame
    <3> QED  BY <1>0, <1>9, <2>1, <3>2 DEF Says
  <2>3. CASE UNCHANGED <<said, body>>
    BY <1>0, <2>1, <2>3 DEF InOrder
  <2> QED  BY <1>9, <2>2, <2>3 DEF Says
<1>10. CASE Ends(r)
  <2>1. /\ pc[r] = "read" /\ over[r] = "open" /\ InOrder(r)
        /\ UNCHANGED <<pc, request, said, body, got, answer>>
    BY <1>10 DEF Ends
  <2> QED  BY <1>0, <2>1 DEF InOrder
<1>11. CASE CutOff(r)
  <2>1. PICK n \in 0..Len(body[r]) : body' = [body EXCEPT ![r] = SubSeq(@, 1, n)]
    BY <1>11 DEF CutOff
  <2>2. /\ pc[r] = "read" /\ InOrder(r) /\ over'[r] = "broken"
        /\ UNCHANGED <<pc, request, said, got, answer>>
    BY <1>11 DEF CutOff, TypeOK
  <2>3. body'[r] = SubSeq(body[r], 1, n) /\ body[r] \in Seq(1..MaxLines)
    BY <2>1 DEF TypeOK
  <2>4. said[r] \in Nat /\ got[r] \in Nat
    BY <2>3, StreamAssumption DEF TypeOK
  <2>5. Len(body[r]) \in Nat /\ Len(body'[r]) = n /\ Numbered(body'[r], got[r])
    BY <2>2, <2>3, <2>4, NumberedPart DEF InOrder
  <2>6. InOrder(r)'
    BY <2>2, <2>4, <2>5 DEF InOrder
  <2> QED  BY <1>0, <2>2, <2>6
<1>12. CASE ReadAll(r)
  <2>1. /\ pc[r] = "read" /\ over[r] # "open" /\ way[r] = "execute" /\ InOrder(r)
        /\ UNCHANGED <<request, said, over>>
    BY <1>12 DEF ReadAll
  <2>2. CASE over[r] = "broken"
    <3>1. Fail(r, "read")
      BY <1>12, <2>2 DEF ReadAll
    <3> QED  BY <2>1, <3>1, FailOwn
  <2>3. CASE over[r] # "broken"
    <3>1. got' = [got EXCEPT ![r] = Len(body[r])] /\ pc' = [pc EXCEPT ![r] = "done"]
      BY <1>12, <2>3 DEF ReadAll
    <3>2. got'[r] = Len(body[r]) /\ pc'[r] = "done"
      BY <3>1 DEF TypeOK
    <3>3. got[r] = 0 /\ got[r] + Len(body[r]) = said[r] /\ body[r] \in Seq(1..MaxLines)
      BY <2>1, <2>3 DEF TypeOK, InOrder
    <3>4. got'[r] = said'[r]
      BY <2>1, <3>2, <3>3
    <3>5. over'[r] \in {"done", "eof"}
      BY <2>1, <2>3 DEF TypeOK
    <3>6. Whole(r)'
      BY <2>1, <3>2, <3>4, <3>5 DEF Whole
    <3> QED  BY <2>1, <3>2, <3>6
  <2> QED  BY <2>2, <2>3
<1>13. CASE SkipLine(r)
  BY <1>0, <1>13 DEF SkipLine, Scans, InOrder
<1>14. CASE CollectFrame(r)
  <2>1. /\ pc[r] = "read" /\ InOrder(r) /\ body[r] # <<>>
        /\ UNCHANGED <<pc, request, said, over, answer>>
    BY <1>14 DEF CollectFrame, Scans
  <2>2. got'[r] = got[r] + 1 /\ body'[r] = Tail(body[r])
    BY <1>14 DEF CollectFrame, TypeOK
  <2>3. InOrder(r)'
    BY <2>1, <2>2, TakeFrame
  <2> QED  BY <1>0, <1>14, <2>1, <2>3 DEF CollectFrame
<1>15. CASE EmitFrame(r)
  <2>1. /\ pc[r] = "read" /\ way[r] = "stream" /\ InOrder(r) /\ body[r] # <<>>
        /\ UNCHANGED <<request, said, over, answer>>
        /\ body' = [body EXCEPT ![r] = Tail(@)]
    BY <1>15 DEF EmitFrame, Scans
  <2>2. CASE stream[id[r]] = "open"
    <3>1. got' = [got EXCEPT ![r] = @ + 1] /\ UNCHANGED pc
      BY <1>15, <2>2 DEF EmitFrame
    <3>2. got'[r] = got[r] + 1 /\ body'[r] = Tail(body[r])
      BY <2>1, <3>1 DEF TypeOK
    <3>3. InOrder(r)'
      BY <2>1, <3>2, TakeFrame
    <3> QED  BY <1>0, <1>15, <2>1, <3>1, <3>3 DEF EmitFrame
  <2>3. CASE stream[id[r]] # "open"
    <3>1. pc'[r] = "close"
      BY <1>15, <2>3 DEF EmitFrame, TypeOK
    <3> QED  BY <1>0, <2>1, <3>1
  <2> QED  BY <2>2, <2>3
<1>16. CASE EndOfAnswer(r)
  <2>1. /\ pc[r] = "read" /\ InOrder(r) /\ body[r] = <<>> /\ over[r] \in {"done", "eof"}
        /\ UNCHANGED <<request, upstream, got>>
    BY <1>16 DEF EndOfAnswer, Scans, Empty
  <2>2. CASE Fail(r, "empty")
    BY <1>0, <2>1, <2>2, FailOwn
  <2>3. CASE way[r] = "stream" /\ Goto(r, "close") /\ UNCHANGED <<why, answer>>
    BY <1>0, <2>1, <2>3 DEF TypeOK
  <2>4. CASE /\ got[r] # 0 /\ way[r] # "stream"
             /\ Goto(r, "done") /\ UNCHANGED why
    <3>1. pc'[r] = "done" /\ got[r] \in Nat /\ said[r] \in Nat
      BY <2>4, StreamAssumption DEF TypeOK
    <3>2. Whole(r)'
      BY <2>1, <2>4, <3>1 DEF Whole, InOrder
    <3> QED  BY <2>1, <3>1, <3>2
  <2> QED  BY <1>16, <2>2, <2>3, <2>4 DEF EndOfAnswer
<1>17. CASE ReadError(r)
  BY <1>0, <1>17, FailOwn DEF ReadError, Scans
<1>18. CASE Tell(r)
  BY <1>0, <1>18 DEF Tell, TypeOK
<1>19. CASE Close(r)
  BY <1>0, <1>19 DEF Close, TypeOK
<1> QED
  BY <1>1, <1>2, <1>3, <1>4, <1>5, <1>6, <1>7, <1>8, <1>9, <1>10, <1>11, <1>12, <1>13,
     <1>14, <1>15, <1>16, <1>17, <1>18, <1>19
  DEF Asks, Work, Upstream, Breaks, TimesOut

LEMMA ReadStep == ReadInv /\ [Next]_vars => ReadInv'
<1> SUFFICES ASSUME ReadInv, [Next]_vars
             PROVE  ReadInv'
  OBVIOUS
<1>1. TypeOK'
  BY TypeStep
<1>2. ASSUME NEW q \in Requests  PROVE Counted(q)'
  <2>1. ASSUME NEW r \in Requests, Asks(r) \/ Work(r) \/ Upstream(r)  PROVE Counted(q)'
    <3>1. CASE q = r
      BY <2>1, <3>1, OwnCounted DEF ReadInv
    <3>2. CASE q # r
      <4>1. Same(q)
        BY <2>1, <3>2, OthersSame DEF ReadInv
      <4> QED  BY <4>1, SameCounted DEF ReadInv
    <3> QED  BY <3>1, <3>2
  <2>2. CASE UNCHANGED vars \/ \E i \in Ids : ClientLeaves(i)
    <3>1. Same(q)
      BY <2>2 DEF vars, ClientLeaves, request, upstream, Same
    <3> QED  BY <3>1, SameCounted DEF ReadInv
  <2> QED  BY <2>1, <2>2 DEF Next
<1> QED  BY <1>1, <1>2 DEF ReadInv

\* However many requests run and whatever each of them meets.
THEOREM ReadInvariant == Spec => []ReadInv
<1>1. Init => ReadInv
  BY InitReadInv
<1>2. ReadInv /\ [Next]_vars => ReadInv'
  BY ReadStep
<1> QED  BY <1>1, <1>2, PTL DEF Spec

\* Every variable keeps its type; none of the counters leaves its bounds.
THEOREM TypeCorrect == Spec => []TypeOK
<1>1. ReadInv => TypeOK
  BY DEF ReadInv
<1> QED  BY <1>1, ReadInvariant, PTL

\* An answer given as a whole is the whole one (handleExecExecute,
\* collectUpstreamStream).
THEOREM WholeAnswers == Spec => []AnswerIsWhole
<1>1. ReadInv => AnswerIsWhole
  BY DEF ReadInv, Counted, Whole, AnswerIsWhole
<1> QED  BY <1>1, ReadInvariant, PTL

-----------------------------------------------------------------------------
(* The streams, as long as the host gives each request one of its own *)

Begins == {"asked", "prepare", "send", "renew"}

\* What a pump knows of its stream, from its first step to its last.
Pump(r) ==
    /\ pc[r] # "idle" /\ stream[id[r]] # "none"
    /\ id[r] \in streamCloseOnce => pc[r] = "done"
    /\ pc[r] # "done" => stream[id[r]] \in {"open", "gone"}
    /\ pc[r] \in Begins => inbox[id[r]] = <<>>
    /\ pc[r] \in Begins \union {"read", "tell"} => told[id[r]] = "none"
    /\ pc[r] = "read" => Len(inbox[id[r]]) = got[r]
    /\ pc[r] = "tell" => why[r] # "none" /\ Verdict(r, why[r])
    /\ pc[r] \in {"close", "done"} /\ stream[id[r]] \in {"open", "closed"} =>
           Verdict(r, told[id[r]])

Streams == {r \in Requests : way[r] = "stream"}

StreamInv ==
    /\ ReadInv
    /\ \A i \in streamCloseOnce : stream[i] # "none"
    /\ \A r \in Streams : Pump(r)
    /\ \A r, q \in Streams : r # q => id[r] # id[q]

LEMMA InitStreamInv == Init => StreamInv
<1> SUFFICES ASSUME Init  PROVE StreamInv
  OBVIOUS
<1>1. Streams = {} /\ streamCloseOnce = {}
  BY DEF Init, Streams
<1> QED  BY <1>1, InitReadInv DEF StreamInv

\* Nothing of stream i changes.
Kept(i) ==
    /\ stream'[i] = stream[i] /\ inbox'[i] = inbox[i] /\ told'[i] = told[i]
    /\ i \in streamCloseOnce' <=> i \in streamCloseOnce

LEMMA KeptPump ==
  ASSUME NEW q \in Requests, Pump(q), Same(q), Kept(id[q])
  PROVE  Pump(q)'
<1>1. ASSUME NEW error, Verdict(q, error)  PROVE Verdict(q, error)'
  BY <1>1 DEF Verdict, Same, Kept
<1>2. /\ stream'[id'[q]] = stream[id[q]] /\ inbox'[id'[q]] = inbox[id[q]]
      /\ told'[id'[q]] = told[id[q]]
      /\ id'[q] \in streamCloseOnce' <=> id[q] \in streamCloseOnce
      /\ pc'[q] = pc[q] /\ got'[q] = got[q] /\ why'[q] = why[q]
  BY DEF Same, Kept
<1>3. pc[q] = "tell" => Verdict(q, why[q])'
  BY <1>1, <1>2 DEF Pump, Same
<1> QED  BY <1>1, <1>2, <1>3 DEF Pump, Begins

\* A request touches no stream but its own.
LEMMA OthersKept ==
  ASSUME TypeOK, NEW r \in Requests, Counted(r),
         Work(r) \/ Upstream(r) \/ \E w \in Ways[r] : Ask(r, w),
         NEW i \in Ids, way[r] = "stream" => i # id[r]
  PROVE  Kept(i)
<1> USE DEF hosted, Kept, Counted
<1>1. CASE UNCHANGED hosted
  BY <1>1
<1>2. CASE Reject(r)
  BY <1>2 DEF Reject, TypeOK
<1>3. CASE EmitFrame(r)
  BY <1>3 DEF EmitFrame, TypeOK
<1>4. CASE Tell(r)
  BY <1>4 DEF Tell, TypeOK
<1>5. CASE Close(r)
  BY <1>5 DEF Close, TypeOK
<1> QED
  BY <1>1, <1>2, <1>3, <1>4, <1>5
  DEF Work, Upstream, Breaks, TimesOut, Ask, Accept, Prepared, RefreshFails, Send, Renewed,
      Unauthorized, Says, Ends, CutOff, ReadAll, SkipLine, CollectFrame, EndOfAnswer,
      ReadError

\* What a pump knows stays true while nothing happens in its stream and no frame is
\* taken.
LEMMA QuietPump ==
  ASSUME NEW r \in Requests, Pump(r), UNCHANGED <<way, id, said, over, got, hosted>>,
         \/ pc'[r] = pc[r] /\ why'[r] = why[r]
         \/ pc[r] \in Begins /\ pc'[r] \in Begins
         \/ pc'[r] = "tell" /\ pc[r] \in Begins \union {"read"}
            /\ why'[r] # "none" /\ Verdict(r, why'[r])
         \/ pc'[r] = "close" /\ pc[r] = "read" /\ Verdict(r, "none")
         \/ pc[r] \in Begins /\ pc'[r] = "read" /\ got[r] = 0
  PROVE  Pump(r)'
<1> USE DEF hosted
<1>1. ASSUME NEW error  PROVE Verdict(r, error)' <=> Verdict(r, error)
  BY DEF Verdict
<1>2. Verdict(r, why'[r]) => Verdict(r, why[r])'
  BY DEF Verdict
<1>3. Verdict(r, told[id[r]]) => Verdict(r, told[id[r]])'
  BY DEF Verdict
<1> QED  BY <1>2, <1>3 DEF Pump, Begins

\* An error that no answer had begun by.
LEMMA EarlyVerdict ==
  ASSUME NEW r, NEW error \in {"credential", "status", "transport"}, inbox[id[r]] = <<>>
  PROVE  Verdict(r, error)
  BY DEF Verdict

LEMMA OwnPump ==
  ASSUME ReadInv, NEW r \in Streams, Pump(r), Work(r) \/ Upstream(r)
  PROVE  Pump(r)'
<1> DEFINE i == id[r]
<1>0. r \in Requests /\ way[r] = "stream" /\ TypeOK /\ Counted(r)
  BY DEF Streams, ReadInv
<1> USE <1>0 DEF request, upstream, Goto, Returns
<1>1. CASE Reject(r)
  <2>1. pc'[r] = "done" /\ stream'[i] = "gone" /\ UNCHANGED <<way, id>>
    BY <1>1 DEF Reject, TypeOK
  <2> QED  BY <2>1 DEF Pump, Begins
<1>2. CASE Accept(r)
  <2>1. pc[r] = "asked" /\ pc'[r] = "prepare"
    BY <1>2 DEF Accept, TypeOK
  <2> QED  BY <1>2, <2>1, QuietPump DEF Accept, Begins
<1>3. CASE Prepared(r) \/ Renewed(r)
  <2>1. pc[r] \in {"prepare", "renew"} /\ pc'[r] = "send"
    BY <1>3 DEF Prepared, Renewed, TypeOK
  <2> QED  BY <1>3, <2>1, QuietPump DEF Prepared, Renewed, Begins
<1>4. ASSUME NEW error \in {"credential", "status", "transport"}, Fail(r, error),
             pc[r] \in Begins, UNCHANGED <<way, id, upstream, got, hosted>>
      PROVE  Pump(r)'
  <2>1. pc'[r] = "tell" /\ why'[r] = error
    BY <1>4, FailOwn
  <2>2. Verdict(r, error)
    BY <1>4, EarlyVerdict DEF Pump
  <2> QED  BY <1>4, <2>1, <2>2, QuietPump
<1>5. CASE RefreshFails(r) \/ Unauthorized(r)
  BY <1>4, <1>5 DEF RefreshFails, Unauthorized, Begins
<1>6. CASE Send(r)
  <2>1. pc[r] = "send" /\ UNCHANGED <<way, id, upstream, got, hosted>>
    BY <1>6 DEF Send
  <2>2. CASE Fail(r, "transport") \/ Fail(r, "status")
    BY <1>4, <2>1, <2>2 DEF Begins
  <2>3. CASE Goto(r, "renew")
    <3>1. pc'[r] = "renew"
      BY <2>3 DEF TypeOK
    <3> QED  BY <2>1, <3>1, QuietPump DEF Begins
  <2>4. CASE Goto(r, "read")
    <3>1. pc'[r] = "read" /\ got[r] = 0
      BY <2>1, <2>4 DEF TypeOK, Counted, Unread
    <3> QED  BY <2>1, <3>1, QuietPump DEF Begins
  <2> QED  BY <1>6, <2>2, <2>3, <2>4 DEF Send
<1>7. CASE Upstream(r)
  <2>1. pc[r] = "read" /\ UNCHANGED <<pc, way, id, got, why, hosted>>
    BY <1>7 DEF Upstream, Says, Ends, Breaks, TimesOut, CutOff
  <2> QED  BY <2>1 DEF Pump, Begins, hosted
<1>8. CASE SkipLine(r)
  BY <1>8, QuietPump DEF SkipLine
<1>9. CASE EmitFrame(r)
  <2>1. pc[r] = "read" /\ UNCHANGED <<way, id, stream, told, streamCloseOnce>>
    BY <1>9 DEF EmitFrame, Scans
  <2>2. CASE stream[i] = "open"
    <3>1. /\ inbox' = [inbox EXCEPT ![i] = Append(@, Head(body[r]))]
          /\ got' = [got EXCEPT ![r] = @ + 1] /\ UNCHANGED pc
      BY <1>9, <2>2 DEF EmitFrame
    <3>2. inbox'[i] = Append(inbox[i], Head(body[r])) /\ got'[r] = got[r] + 1
      BY <3>1 DEF TypeOK
    <3>3. inbox[i] \in Seq(1..MaxLines)
      BY DEF TypeOK
    <3>4. Len(Append(inbox[i], Head(body[r]))) = Len(inbox[i]) + 1
      BY <3>3
    <3>5. Len(inbox'[i]) = got'[r]
      BY <2>1, <3>2, <3>4 DEF Pump
    <3> QED  BY <2>1, <3>1, <3>5 DEF Pump, Begins
  <2>3. CASE stream[i] # "open"
    <3>1. pc'[r] = "close" /\ stream[i] = "gone"
      BY <1>9, <2>1, <2>3 DEF EmitFrame, TypeOK, Pump
    <3>2. id[r] \notin streamCloseOnce
      BY <2>1 DEF Pump
    <3> QED  BY <2>1, <3>1, <3>2 DEF Pump, Begins
  <2> QED  BY <2>2, <2>3
<1>10. CASE EndOfAnswer(r)
  <2>1. /\ pc[r] = "read" /\ body[r] = <<>> /\ over[r] \in {"done", "eof"}
        /\ UNCHANGED <<way, id, upstream, got, hosted>>
    BY <1>10 DEF EndOfAnswer, Scans, Empty
  <2>2. got[r] = said[r] /\ got[r] \in Nat /\ Len(inbox[i]) = got[r]
    BY <2>1, StreamAssumption DEF Counted, InOrder, Pump, TypeOK
  <2>3. CASE got[r] = 0
    <3>1. Verdict(r, "empty")
      BY <2>1, <2>2, <2>3 DEF Verdict
    <3>2. pc'[r] = "tell" /\ why'[r] = "empty"
      BY <1>10, <2>3, FailOwn DEF EndOfAnswer
    <3> QED  BY <2>1, <3>1, <3>2, QuietPump
  <2>4. CASE got[r] # 0
    <3>1. Verdict(r, "none")
      BY <2>1, <2>2, <2>4 DEF Verdict
    <3>2. pc'[r] = "close"
      BY <1>10, <2>4 DEF EndOfAnswer, TypeOK
    <3> QED  BY <2>1, <3>1, <3>2, QuietPump
  <2> QED  BY <2>3, <2>4
<1>11. CASE ReadError(r)
  <2>1. pc[r] = "read" /\ over[r] = "broken" /\ UNCHANGED <<way, id, upstream, got, hosted>>
    BY <1>11 DEF ReadError, Scans
  <2>2. pc'[r] = "tell" /\ why'[r] = "read" /\ Verdict(r, "read")
    BY <1>11, <2>1, FailOwn DEF ReadError, Verdict
  <2> QED  BY <2>1, <2>2, QuietPump
<1>12. CASE Tell(r)
  <2>1. /\ pc[r] = "tell" /\ pc'[r] = "close" /\ id[r] \notin streamCloseOnce
        /\ UNCHANGED <<way, id, said, over, stream, inbox, streamCloseOnce>>
    BY <1>12 DEF Tell, TypeOK, Pump
  <2>2. CASE stream[i] = "open"
    <3>1. told'[i] = why[r]
      BY <1>12, <2>2 DEF Tell, TypeOK
    <3>2. Verdict(r, told[id[r]])'
      BY <2>1, <3>1 DEF Verdict, Pump
    <3> QED  BY <2>1, <2>2, <3>2 DEF Pump, Begins
  <2>3. CASE stream[i] # "open"
    BY <2>1, <2>3 DEF Pump, Begins
  <2> QED  BY <2>2, <2>3
<1>13. CASE Close(r)
  <2>1. /\ pc[r] = "close" /\ pc'[r] = "done" /\ stream[i] \in {"open", "gone"}
        /\ stream'[i] = (IF stream[i] = "open" THEN "closed" ELSE "gone")
        /\ UNCHANGED <<way, id, said, over, inbox, told>>
    BY <1>13 DEF Close, TypeOK, Pump
  <2>2. stream[i] = "open" => Verdict(r, told[id[r]])'
    BY <2>1 DEF Verdict, Pump
  <2> QED  BY <2>1, <2>2 DEF Pump, Begins
<1>14. ~ReadAll(r) /\ ~CollectFrame(r)
  BY DEF ReadAll, CollectFrame
<1> QED
  BY <1>1, <1>2, <1>3, <1>5, <1>6, <1>7, <1>8, <1>9, <1>10, <1>11, <1>12, <1>13, <1>14
  DEF Work

\* Nothing that a request does once it is asked for gives it another stream.
LEMMA StreamStays ==
  ASSUME NEW r \in Requests, Work(r) \/ Upstream(r)
  PROVE  way' = way /\ id' = id
  BY DEF request, Work, Upstream, Breaks, TimesOut, Reject, Accept, Prepared, RefreshFails,
         Send, Renewed, Unauthorized, Says, Ends, CutOff, ReadAll, SkipLine, CollectFrame,
         EmitFrame, EndOfAnswer, ReadError, Tell, Close

LEMMA StreamStep ==
  ASSUME FreshIds
  PROVE  StreamInv /\ [Next]_vars => StreamInv'
<1> SUFFICES ASSUME StreamInv, [Next]_vars
             PROVE  StreamInv'
  OBVIOUS
<1>0. ReadInv /\ TypeOK /\ \A r \in Requests : Counted(r)
  BY DEF StreamInv, ReadInv
<1>1. ReadInv'
  BY <1>0, ReadStep
<1> DEFINE Moves(r) == Work(r) \/ Upstream(r) \/ \E w \in Ways[r] : Ask(r, w)
<1>2. ASSUME NEW r \in Requests, NEW i \in Ids, AskStream(r, i)  PROVE StreamInv'
  <2>1. /\ stream[i] = "none" /\ way[r] # "stream"
        /\ \A q \in Streams : id[q] # i
        /\ i \notin streamCloseOnce
    BY <1>0, <1>2 DEF AskStream, StreamInv, Pump, Streams
  <2>2. /\ id'[r] = i /\ way'[r] = "stream" /\ pc'[r] = "asked"
        /\ stream'[i] = "open" /\ inbox'[i] = <<>> /\ told'[i] = "none"
        /\ streamCloseOnce' = streamCloseOnce
        /\ \A j \in Ids \ {i} : Kept(j)
    <3>1. /\ id' = [id EXCEPT ![r] = i] /\ way' = [way EXCEPT ![r] = "stream"]
          /\ pc' = [pc EXCEPT ![r] = "asked"]
          /\ stream' = [stream EXCEPT ![i] = "open"]
          /\ inbox' = [inbox EXCEPT ![i] = <<>>]
          /\ told' = [told EXCEPT ![i] = "none"]
          /\ streamCloseOnce' = streamCloseOnce
      BY <1>2 DEF AskStream, Goto
    <3> QED  BY <1>0, <3>1 DEF TypeOK, Kept
  <2>3. \A q \in Requests \ {r} : Same(q)
    BY <1>0, <1>2, OthersSame DEF Asks
  <2>4. Streams' = Streams \union {r}
    BY <2>2, <2>3 DEF Streams, Same
  <2>5. Pump(r)'
    BY <2>1, <2>2 DEF Pump, Begins
  <2>6. ASSUME NEW q \in Streams  PROVE Pump(q)' /\ id'[q] = id[q]
    <3>1. q \in Requests \ {r} /\ id[q] \in Ids \ {i}
      BY <1>0, <2>1 DEF Streams, TypeOK
    <3> QED  BY <2>2, <2>3, <3>1, KeptPump DEF StreamInv, Same
  <2>7. \A j \in streamCloseOnce' : stream'[j] # "none"
    BY <1>0, <2>1, <2>2 DEF StreamInv, Kept, TypeOK
  <2>8. \A p, q \in Streams' : p # q => id'[p] # id'[q]
    BY <2>1, <2>2, <2>4, <2>6 DEF StreamInv
  <2> QED  BY <1>1, <2>4, <2>5, <2>6, <2>7, <2>8 DEF StreamInv
<1>3. ASSUME NEW r \in Requests, Moves(r)  PROVE StreamInv'
  <2>1. \A q \in Requests \ {r} : Same(q)
    BY <1>0, <1>3, OthersSame DEF Asks
  <2>2. \A i \in Ids : (way[r] = "stream" => i # id[r]) => Kept(i)
    BY <1>0, <1>3, OthersKept
  <2>3. Streams' = Streams /\ \A q \in Streams : id'[q] = id[q]
    <3>1. CASE Work(r) \/ Upstream(r)
      BY <3>1, StreamStays DEF Streams
    <3>2. ASSUME NEW w \in Ways[r], Ask(r, w)  PROVE Streams' = Streams /\ id' = id
      <4>1. way[r] # "stream"
        BY <3>2 DEF Ask, StreamInv, Pump, Streams
      <4>2. way'[r] # "stream" /\ id' = id
        BY <1>0, <3>2 DEF Ask, TypeOK
      <4> QED  BY <2>1, <4>1, <4>2 DEF Streams, Same
    <3> QED  BY <1>3, <3>1, <3>2
  <2>4. ASSUME NEW q \in Streams  PROVE Pump(q)'
    <3>1. CASE q = r
      <4>1. ~\E w \in Ways[r] : Ask(r, w)
        BY <3>1 DEF Ask, StreamInv, Pump, Streams
      <4> QED  BY <1>0, <1>3, <3>1, <4>1, OwnPump DEF StreamInv
    <3>2. CASE q # r
      <4>1. q \in Requests \ {r} /\ id[q] \in Ids /\ (way[r] = "stream" => id[q] # id[r])
        BY <1>0, <3>2 DEF Streams, TypeOK, StreamInv
      <4> QED  BY <2>1, <2>2, <4>1, KeptPump DEF StreamInv
    <3> QED  BY <3>1, <3>2
  <2>5. ASSUME NEW j \in streamCloseOnce'  PROVE stream'[j] # "none"
    <3>1. CASE way[r] = "stream" /\ j = id[r]
      <4>1. r \in Streams /\ id'[r] = j
        BY <2>3, <3>1 DEF Streams
      <4> QED  BY <2>4, <4>1 DEF Pump
    <3>2. CASE way[r] = "stream" => j # id[r]
      BY <1>1, <2>2, <2>5, <3>2 DEF ReadInv, TypeOK, Kept, StreamInv
    <3> QED  BY <3>1, <3>2
  <2> QED  BY <1>1, <2>3, <2>4, <2>5 DEF StreamInv
<1>4. ASSUME NEW i \in Ids, ClientLeaves(i)  PROVE StreamInv'
  <2>1. /\ stream[i] = "open" /\ stream'[i] = "gone"
        /\ \A j \in Ids \ {i} : stream'[j] = stream[j]
        /\ Streams' = Streams /\ \A q \in Streams : Same(q)
        /\ UNCHANGED <<id, inbox, told, streamCloseOnce>>
    BY <1>0, <1>4 DEF ClientLeaves, TypeOK, request, upstream, Streams, Same
  <2>2. ASSUME NEW q \in Streams  PROVE Pump(q)'
    <3>1. id[q] \in Ids
      BY <1>0 DEF Streams, TypeOK
    <3>2. CASE id[q] = i
      <4>1. ASSUME NEW error  PROVE Verdict(q, error)' <=> Verdict(q, error)
        BY <2>1 DEF Verdict, Same
      <4>2. Verdict(q, why[q])' <=> Verdict(q, why[q])
        BY <2>1 DEF Verdict, Same
      <4>3. pc'[q] = pc[q] /\ why'[q] = why[q] /\ got'[q] = got[q]
        BY <2>1 DEF Same
      <4>4. pc[q] = "tell" => Verdict(q, why[q])'
        BY <4>2 DEF StreamInv, Pump
      <4> QED  BY <2>1, <3>2, <4>3, <4>4 DEF StreamInv, Pump, Begins
    <3>3. CASE id[q] # i
      <4>1. Kept(id[q])
        BY <2>1, <3>1, <3>3 DEF Kept
      <4> QED  BY <2>1, <4>1, KeptPump DEF StreamInv, Streams
    <3> QED  BY <3>2, <3>3
  <2>3. \A j \in streamCloseOnce : stream'[j] # "none"
    BY <1>0, <2>1 DEF StreamInv, TypeOK
  <2> QED  BY <1>1, <2>1, <2>2, <2>3 DEF StreamInv
<1>5. CASE UNCHANGED vars
  <2>1. Streams' = Streams /\ UNCHANGED <<id, stream, streamCloseOnce>>
    BY <1>5 DEF vars, request, hosted, Streams
  <2>2. ASSUME NEW q \in Streams  PROVE Pump(q)'
    <3>1. Same(q) /\ Kept(id[q])
      BY <1>5 DEF vars, request, upstream, hosted, Same, Kept
    <3> QED  BY <3>1, KeptPump DEF StreamInv, Streams
  <2> QED  BY <1>1, <2>1, <2>2 DEF StreamInv
<1> QED  BY <1>2, <1>3, <1>4, <1>5 DEF Next, Asks

\* FreshIds says that the host uses no stream id twice, which is what the code counts
\* on: streamCloseOnce is never cleared (stream.go:52-61).
THEOREM StreamInvariant ==
  ASSUME FreshIds
  PROVE  Spec => []StreamInv
<1>1. Init => StreamInv
  BY InitStreamInv
<1>2. StreamInv /\ [Next]_vars => StreamInv'
  BY StreamStep
<1> QED  BY <1>1, <1>2, PTL DEF Spec

\* A stream that the plugin closed says what became of its answer (stream.go:107-147).
THEOREM TruthTold ==
  ASSUME FreshIds
  PROVE  Spec => []StreamTellsTheTruth
<1>1. StreamInv => StreamTellsTheTruth
  BY DEF StreamInv, Streams, Pump, StreamTellsTheTruth
<1> QED  BY <1>1, StreamInvariant, PTL

LEMMA BeforeSend ==
  ASSUME TypeOK, [Next]_vars, NEW r \in Requests, pc'[r] = "send"
  PROVE  pc[r] \in Begins
<1> USE DEF Begins, Goto
<1>1. ASSUME NEW q \in Requests \ {r}, Asks(q) \/ Work(q) \/ Upstream(q)  PROVE pc[r] \in Begins
  BY <1>1, OthersSame DEF Same
<1>2. CASE UNCHANGED vars \/ \E i \in Ids : ClientLeaves(i)
  BY <1>2 DEF vars, ClientLeaves
<1>3. ~\E error : Fail(r, error)
  BY FailOwn
<1>4. CASE Asks(r) \/ Work(r) \/ Upstream(r)
  <2>1. CASE Prepared(r) \/ Renewed(r)
    BY <2>1 DEF Prepared, Renewed
  <2>2. CASE pc' = pc
    BY <2>2
  <2>3. CASE \E place \in Places \ {"send"} : Goto(r, place)
    BY <2>3 DEF TypeOK
  <2> QED
    BY <1>3, <1>4, <2>1, <2>2, <2>3
    DEF Places, Asks, Ask, AskStream, Work, Upstream, Breaks, TimesOut, Reject, Accept,
        RefreshFails, Send, Unauthorized, Says, Ends, CutOff, ReadAll, SkipLine,
        CollectFrame, EmitFrame, EndOfAnswer, ReadError, Tell, Close
<1> QED  BY <1>1, <1>2, <1>4 DEF Next

\* Nothing has been emitted when a request goes upstream, again or for the first
\* time, which is what makes the retry inside do safe (stream.go:85-86).
THEOREM RetriesAreSafe ==
  ASSUME FreshIds
  PROVE  Spec => RetryIsSafe
<1>1. StreamInv /\ [Next]_vars =>
        \A r \in Requests : pc'[r] = "send" /\ way[r] = "stream" => inbox[id[r]] = <<>>
  BY BeforeSend DEF StreamInv, ReadInv, Streams, Pump
<1> QED  BY <1>1, StreamInvariant, PTL DEF Spec, RetryIsSafe

-----------------------------------------------------------------------------
(* The host's contract *)

\* Every step is one that HostStream allows the stream, or none in its eyes.
LEMMA ContractStep == StreamInv /\ [Next]_vars => [Contract!Next]_(Contract!vars)
<1> SUFFICES ASSUME StreamInv, [Next]_vars
             PROVE  [Contract!Next]_(Contract!vars)
  OBVIOUS
<1> DEFINE failed == [i \in Ids |-> told[i] # "none"]
<1>0. TypeOK /\ \A r \in Requests : Counted(r)
  BY DEF StreamInv, ReadInv
<1>1. CASE UNCHANGED hosted
  BY <1>1 DEF hosted, Contract!vars
<1>2. ASSUME NEW r \in Requests, NEW i \in Ids, AskStream(r, i)
      PROVE  Contract!Open(i)
  <2>1. /\ stream[i] # "open" /\ stream' = [stream EXCEPT ![i] = "open"]
        /\ inbox' = [inbox EXCEPT ![i] = <<>>] /\ told' = [told EXCEPT ![i] = "none"]
    BY <1>2 DEF AskStream
  <2>2. failed' = [failed EXCEPT ![i] = FALSE]
    BY <1>0, <2>1 DEF TypeOK
  <2> QED  BY <2>1, <2>2 DEF Contract!Open
<1>3. ASSUME NEW r \in Streams, Reject(r)
      PROVE  Contract!Leave(id[r]) \/ UNCHANGED <<stream, inbox, told>>
  <2>1. /\ pc[r] = "asked" /\ stream' = [stream EXCEPT ![id[r]] = "gone"]
        /\ UNCHANGED <<inbox, told>>
    BY <1>3 DEF Reject, Streams
  <2>2. CASE stream[id[r]] = "open"
    BY <2>1, <2>2 DEF Contract!Leave
  <2>3. CASE stream[id[r]] # "open"
    <3>1. stream[id[r]] = "gone"
      BY <2>1, <2>3 DEF StreamInv, Pump
    <3> QED  BY <1>0, <2>1, <3>1 DEF TypeOK
  <2> QED  BY <2>2, <2>3
<1>4. ASSUME NEW r \in Streams, EmitFrame(r)
      PROVE  Contract!Frame(id[r]) \/ UNCHANGED <<stream, inbox, told>>
  <2>1. r \in Requests /\ pc[r] = "read" /\ body[r] # <<>> /\ UNCHANGED <<stream, told>>
    BY <1>4 DEF EmitFrame, Scans, Streams
  <2>2. CASE stream[id[r]] = "open"
    <3>1. /\ inbox' = [inbox EXCEPT ![id[r]] = Append(@, Head(body[r]))]
      BY <1>4, <2>2 DEF EmitFrame
    <3>2. body[r] \in Seq(1..MaxLines) /\ got[r] \in Nat /\ Numbered(body[r], got[r])
      BY <1>0, <2>1, StreamAssumption DEF TypeOK, Counted, InOrder
    <3>3. Head(body[r]) = got[r] + 1
      BY <2>1, <3>2, NumberedTail
    <3>4. Len(inbox[id[r]]) = got[r] /\ told[id[r]] = "none" /\ id[r] \in Ids
      BY <1>0, <2>1 DEF StreamInv, Pump, Begins, TypeOK
    <3> QED  BY <2>1, <2>2, <3>1, <3>3, <3>4 DEF Contract!Frame
  <2>3. CASE stream[id[r]] # "open"
    BY <1>4, <2>1, <2>3 DEF EmitFrame
  <2> QED  BY <2>2, <2>3
<1>5. ASSUME NEW r \in Streams, Tell(r)
      PROVE  Contract!Failure(id[r]) \/ UNCHANGED <<stream, inbox, told>>
  <2>1. r \in Requests /\ pc[r] = "tell" /\ UNCHANGED <<stream, inbox>>
    BY <1>5 DEF Tell, Streams
  <2>2. CASE stream[id[r]] = "open"
    <3>1. told' = [told EXCEPT ![id[r]] = why[r]]
      BY <1>5, <2>2 DEF Tell
    <3>2. told[id[r]] = "none" /\ why[r] # "none" /\ id[r] \in Ids
      BY <1>0, <2>1 DEF StreamInv, Pump, TypeOK
    <3>3. failed' = [failed EXCEPT ![id[r]] = TRUE] /\ ~failed[id[r]]
      BY <1>0, <3>1, <3>2 DEF TypeOK
    <3> QED  BY <2>1, <2>2, <3>3 DEF Contract!Failure
  <2>3. CASE stream[id[r]] # "open"
    BY <1>5, <2>1, <2>3 DEF Tell
  <2> QED  BY <2>2, <2>3
<1>6. ASSUME NEW r \in Streams, Close(r)
      PROVE  Contract!Close(id[r]) \/ UNCHANGED <<stream, inbox, told>>
  <2>1. r \in Requests /\ pc[r] = "close" /\ UNCHANGED <<inbox, told>>
    BY <1>6 DEF Close, Streams
  <2>2. CASE stream[id[r]] = "open"
    <3>1. stream' = [stream EXCEPT ![id[r]] = "closed"]
      BY <1>6, <2>1, <2>2 DEF Close, StreamInv, Pump
    <3>2. Verdict(r, told[id[r]]) /\ id[r] \in Ids
      BY <1>0, <2>1, <2>2 DEF StreamInv, Pump, TypeOK
    <3>3. told[id[r]] = "none" => inbox[id[r]] # <<>>
      BY <1>0, <2>1, <3>2, StreamAssumption DEF Verdict, TypeOK
    <3> QED  BY <2>1, <2>2, <3>1, <3>2, <3>3 DEF Contract!Close
  <2>3. CASE stream[id[r]] # "open"
    BY <1>6, <2>1, <2>3 DEF Close
  <2> QED  BY <2>2, <2>3
<1>7. ASSUME NEW i \in Ids, ClientLeaves(i)  PROVE Contract!Leave(i)
  BY <1>7 DEF ClientLeaves, Contract!Leave
<1>8. ASSUME NEW r \in Streams, Contract!Leave(id[r]) \/ Contract!Frame(id[r])
                                \/ Contract!Failure(id[r]) \/ Contract!Close(id[r])
      PROVE  Contract!Next
  <2>1. id[r] \in Ids
    BY <1>0 DEF Streams, TypeOK
  <2> QED
    BY <1>8, <2>1
    DEF Contract!Next, Contract!Leave, Contract!Frame, Contract!Failure, Contract!Close
<1>9. CASE UNCHANGED <<stream, inbox, told>>
  BY <1>9 DEF Contract!vars
<1>10. ASSUME NEW r \in Requests \ Streams, EmitFrame(r) \/ Tell(r) \/ Close(r)
       PROVE  FALSE
  BY <1>0, <1>10 DEF Streams, EmitFrame, Tell, Close, Counted
<1>11. ASSUME NEW r \in Requests \ Streams, Reject(r)  PROVE UNCHANGED <<stream, inbox, told>>
  BY <1>11 DEF Streams, Reject
<1>12. ASSUME NEW r \in Requests, Work(r) \/ Upstream(r) \/ \E w \in Ways[r] : Ask(r, w),
              ~(Reject(r) \/ EmitFrame(r) \/ Tell(r) \/ Close(r))
       PROVE  UNCHANGED hosted
  BY <1>12
  DEF Work, Upstream, Breaks, TimesOut, Ask, Accept, Prepared, RefreshFails, Send, Renewed,
      Unauthorized, Says, Ends, CutOff, ReadAll, SkipLine, CollectFrame, EndOfAnswer,
      ReadError
<1>13. ASSUME NEW r \in Requests, Work(r) \/ Upstream(r) \/ \E w \in Ways[r] : Ask(r, w)
       PROVE  [Contract!Next]_(Contract!vars)
  BY <1>1, <1>3, <1>4, <1>5, <1>6, <1>8, <1>9, <1>10, <1>11, <1>12, <1>13
<1>14. CASE UNCHANGED vars
  BY <1>1, <1>14 DEF vars
<1>15. ASSUME NEW r \in Requests, Asks(r)  PROVE [Contract!Next]_(Contract!vars)
  BY <1>2, <1>13, <1>15 DEF Asks, Contract!Next
<1> QED  BY <1>7, <1>13, <1>14, <1>15 DEF Next, Contract!Next

\* Whatever happens to a request, its stream is one that HostStream allows: frames in
\* order, one error at most and nothing after it, no end without a word. The fairness
\* of ContractKept is what a run checks.
THEOREM ContractSafe ==
  ASSUME FreshIds
  PROVE  Spec => Contract!Init /\ [][Contract!Next]_(Contract!vars)
<1>1. Init => Contract!Init
  <2> SUFFICES ASSUME Init  PROVE Contract!Init
    OBVIOUS
  <2>1. /\ stream = [i \in Ids |-> "none"] /\ inbox = [i \in Ids |-> <<>>]
        /\ told = [i \in Ids |-> "none"]
    BY DEF Init
  <2>2. [i \in Ids |-> told[i] # "none"] = [i \in Ids |-> FALSE]
    BY <2>1
  <2> QED  BY <2>1, <2>2 DEF Contract!Init
<1>2. StreamInv /\ [Next]_vars => [Contract!Next]_(Contract!vars)
  BY ContractStep
<1> QED  BY <1>1, <1>2, StreamInvariant, PTL DEF Spec
=============================================================================
