--------------------------- MODULE Streaming_proof ---------------------------
(***************************************************************************)
(* What the client and the backend of a streaming request are told, for    *)
(* every set of requests, number of responses and size of the window.      *)
(***************************************************************************)
EXTENDS Streaming, SequenceTheorems, TLAPS

Handling == {"start", "decode", "send", "closeSend", "header", "closeAndRecv", "forward", "recv", "return", "returned"}
Entries == { Chunk(n) : n \in Nat } \cup { ErrorChunk(c) : c \in Codes }
Answer == [code : Nat, body : Seq(Entries)]
NoAnswer == [code |-> 0, body |-> << >>]

TypeOK ==
  /\ setup \in Setups
  /\ pc \in Handling
  /\ sender \in {"none", "decode", "send", "close", "done"}
  /\ decoded \in Nat /\ sent \in Nat /\ taken \in Nat
  /\ uploaded \in Nat /\ received \in Nat /\ replied \in Nat
  /\ halfClosed \in BOOLEAN /\ gone \in BOOLEAN /\ header \in BOOLEAN
  /\ ended \in Codes \cup {"open"}
  /\ resp \in Answer /\ wire \in Answer

\* Who is where, and what the backend can have done by then.
ControlInv ==
  /\ setup.kind # "bidi" => sender = "none"
  /\ pc \in {"decode", "send", "closeSend", "closeAndRecv"} => setup.kind = "client"
  /\ pc \in {"forward", "recv"} => setup.kind # "client"
  /\ ~header => replied = 0
  /\ pc = "start" => replied = 0 /\ ended # "OK"
  /\ setup.kind = "client" => replied <= 1
  /\ taken <= replied

\* The messages of a client stream were sent in their order, none was left out,
\* and the stream is half-closed only behind the last of them.
UploadInv ==
  setup.kind = "client" =>
    /\ pc \in {"start", "decode"} => sent = decoded
    /\ pc = "send" => decoded = sent + 1
    /\ pc \in {"start", "decode", "send", "closeSend"} => ~halfClosed
    /\ (pc = "closeSend" \/ halfClosed) /\ ended = "open" => setup.end = "eof" /\ sent = setup.msgs

\* The first n responses, forwarded.
ForwardedN(n) == [code |-> IF n = 0 THEN 0 ELSE 200, body |-> Chunks(n)]

\* An error as the answer, and an error behind the first n responses.
ErrorAnswer(code) == [code |-> HTTPStatusFromCode[code], body |-> << ErrorChunk(code) >>]
BrokenOff(n, code) == [code |-> IF n = 0 THEN HTTPStatusFromCode[code] ELSE 200,
                       body |-> Append(Chunks(n), ErrorChunk(code))]

\* An answer that FaithfulStream or FaithfulReply allows to a request whose
\* backend sent so many responses and ended the stream that way, or has not; the
\* HTTP server has still to fill in the code 200 where there is none.
FinalStream(request, end, responses, a) ==
  \/ end = "OK" /\ a = ForwardedN(responses)
  \/ \E n \in 0..responses, code \in Codes \ {"OK"} :
       /\ a = BrokenOff(n, code)
       /\ \/ code = end /\ (n = responses \/ code \in CutOff)
          \/ code = "Unknown" /\ request.faults

FinalReply(request, end, responses, a) ==
  \/ end = "OK" /\ responses = 1 /\ a = ForwardedN(1)
  \/ \E code \in Codes \ {"OK"} :
       /\ a = ErrorAnswer(code)
       /\ \/ code = end
          \/ code = "InvalidArgument" /\ request.end = "bad"
          \/ code = "Unknown" /\ (request.faults \/ (end = "OK" /\ responses = 0))

Final(request, end, responses, a) ==
  IF request.kind = "client" THEN FinalReply(request, end, responses, a)
                             ELSE FinalStream(request, end, responses, a)
Completed(a) == [a EXCEPT !.code = IF @ = 0 THEN 200 ELSE @]

AnswerInv ==
  /\ pc \notin {"recv", "return", "returned"} => resp = NoAnswer /\ taken = 0
  /\ pc = "recv" => resp = ForwardedN(taken)
  /\ pc \in {"return", "returned"} /\ ~gone => Final(setup, ended, replied, resp)
  /\ pc = "returned" /\ ~gone => wire = Completed(resp)

IInv == TypeOK /\ ControlInv /\ UploadInv /\ AnswerInv

-----------------------------------------------------------------------------
\* The codes the handler and the backend use, and that none has status 0.
LEMMA Statuses ==
  /\ {"OK", "Canceled", "DeadlineExceeded", "Unavailable", "InvalidArgument", "Unknown", "Aborted",
      "ResourceExhausted", "Internal"} \subseteq Codes
  /\ "open" \notin Codes
  /\ \A c \in Codes : HTTPStatusFromCode[c] \in Nat \ {0}
BY DEF Codes, HTTPStatusFromCode

\* What a request is made of.
LEMMA SetupFields ==
  ASSUME TypeOK
  PROVE  /\ setup.kind \in {"server", "client", "bidi"} /\ setup.msgs \in Nat /\ setup.end \in {"eof", "bad"}
         /\ setup.gzip \in BOOLEAN /\ setup.requestContext \in BOOLEAN /\ setup.deadline \in BOOLEAN
         /\ setup.faults \in BOOLEAN /\ setup.leaves \in BOOLEAN /\ setup.talks \in BOOLEAN
BY SetupsAssumption DEF TypeOK

\* One more response in front of nothing, or behind the others.
LEMMA ChunksExtend ==
  ASSUME NEW n \in Nat
  PROVE  /\ Chunks(n) \in Seq(Entries) /\ Len(Chunks(n)) = n
         /\ Append(Chunks(n), Chunk(n + 1)) = Chunks(n + 1)
         /\ Chunks(n) = << >> <=> n = 0
<1>1. \A k \in Nat : Chunk(k) \in Entries
  BY DEF Entries
<1>2. \A m \in Nat : Chunks(m) \in Seq(Entries) /\ Len(Chunks(m)) = m
  BY <1>1 DEF Chunks
<1>3. Chunks(n) = << >> <=> n = 0
  BY <1>2, EmptySeq
<1>4. Append(Chunks(n), Chunk(n + 1)) = Chunks(n + 1)
  <2>. DEFINE s == Append(Chunks(n), Chunk(n + 1))
  <2>. DEFINE t == Chunks(n + 1)
  <2>1. s \in Seq(Entries) /\ t \in Seq(Entries) /\ Len(s) = n + 1 /\ Len(t) = n + 1
    BY <1>1, <1>2
  <2>2. /\ \A k \in 1..n : s[k] = Chunks(n)[k]
        /\ s[n + 1] = Chunk(n + 1)
    BY <1>1, <1>2, AppendProperties
  <2>3. \A k \in 1..n : Chunks(n)[k] = t[k]
    BY DEF Chunks
  <2>4. t[n + 1] = Chunk(n + 1)
    BY DEF Chunks
  <2>. HIDE DEF s, t
  <2>5. \A k \in 1..(n + 1) : k \in 1..n \/ k = n + 1
    OBVIOUS
  <2>6. \A k \in 1..Len(s) : s[k] = t[k]
    BY <2>1, <2>2, <2>3, <2>4, <2>5
  <2>7. s = t
    BY <2>1, <2>6, SeqEqual
  <2>. QED  BY <2>7 DEF s, t
<1>. QED  BY <1>2, <1>3, <1>4

LEMMA AnswerTypes ==
  /\ NoAnswer \in Answer
  /\ \A n \in Nat : ForwardedN(n) \in Answer
  /\ \A c \in Codes, n \in Nat : [code |-> n, body |-> << ErrorChunk(c) >>] \in Answer
  /\ \A a \in Answer, e \in Entries, n \in Nat : [code |-> n, body |-> Append(a.body, e)] \in Answer
  /\ \A a \in Answer : Completed(a) \in Answer
<1>1. NoAnswer \in Answer
  BY DEF Answer, NoAnswer
<1>2. \A n \in Nat : ForwardedN(n) \in Answer
  BY ChunksExtend DEF Answer, ForwardedN
<1>3. \A c \in Codes, n \in Nat : [code |-> n, body |-> << ErrorChunk(c) >>] \in Answer
  <2>1. \A c \in Codes : ErrorChunk(c) \in Entries
    BY DEF Entries
  <2>. QED  BY <2>1 DEF Answer
<1>4. \A a \in Answer, e \in Entries, n \in Nat : [code |-> n, body |-> Append(a.body, e)] \in Answer
  BY DEF Answer
<1>5. \A a \in Answer : Completed(a) \in Answer
  BY DEF Answer, Completed
<1>. QED  BY <1>1, <1>2, <1>3, <1>4, <1>5

-----------------------------------------------------------------------------
\* Every step keeps the types.
LEMMA TypeStep ==
  ASSUME TypeOK, [Next]_vars
  PROVE  TypeOK'
<1>. USE Statuses, SetupFields, AnswerTypes
<1>a. \A c \in Codes : ErrorChunk(c) \in Entries
  BY DEF Entries
<1>b. \A n \in Nat : Chunk(n) \in Entries
  BY DEF Entries
<1>c. \A c \in Codes : HTTPError(c) => resp' \in Answer /\ pc' \in Handling
  BY DEF HTTPError, Handling
<1>d. \A c \in Codes : StreamError(c) => resp' \in Answer /\ pc' \in Handling
  <2>. SUFFICES ASSUME NEW c \in Codes, StreamError(c)
                PROVE  resp' \in Answer /\ pc' \in Handling
    OBVIOUS
  <2>1. resp.code \in Nat /\ HTTPStatusFromCode[c] \in Nat
    BY DEF TypeOK, Answer
  <2>2. resp' = [code |-> IF resp.body = << >> THEN HTTPStatusFromCode[c] ELSE resp.code,
                 body |-> Append(resp.body, ErrorChunk(c))]
    BY DEF StreamError
  <2>. QED  BY <1>a, <2>1, <2>2 DEF TypeOK, StreamError, Handling
<1>e. \A c \in Codes : End(c) => ended' \in Codes \cup {"open"}
  BY DEF End, TypeOK
<1>1. CASE Start
  BY <1>1, <1>c DEF Start, TypeOK, End, Handling, clientVars
<1>2. CASE Decode
  BY <1>2, <1>c DEF Decode, TypeOK, Handling, clientVars, backendVars, Items
<1>3. CASE Send
  <2>1. resp' \in Answer /\ pc' \in Handling
    BY <1>3, <1>c DEF Send, Unsendable, End, TypeOK, Handling
  <2>. QED  BY <1>3, <2>1 DEF Send, Unsendable, End, TypeOK, clientVars
<1>4. CASE CloseSend
  <2>1. resp' \in Answer /\ pc' \in Handling
    BY <1>4, <1>c DEF CloseSend, End, TypeOK, Handling
  <2>. QED  BY <1>4, <2>1 DEF CloseSend, End, TypeOK, clientVars
<1>5. CASE Header
  BY <1>5, <1>c DEF Header, TypeOK, Handling, clientVars, backendVars
<1>6. CASE CloseAndRecv
  <2>1. [code |-> 200, body |-> << Chunk(1) >>] \in Answer
    BY <1>b DEF Answer
  <2>2. resp' \in Answer /\ pc' \in Handling
    BY <1>6, <1>c, <2>1 DEF CloseAndRecv, TypeOK, Handling
  <2>. QED  BY <1>6, <2>2 DEF CloseAndRecv, TypeOK, clientVars, backendVars
<1>7. CASE ForwardChunk
  <2>1. [code |-> 200, body |-> Append(resp.body, Chunk(taken + 1))] \in Answer
    BY <1>b DEF TypeOK
  <2>2. resp' \in Answer /\ pc' \in Handling
    BY <1>7, <1>d, <2>1 DEF ForwardChunk, TypeOK, Handling
  <2>3. wire' \in Answer
    BY <1>7, <2>2 DEF ForwardChunk, TypeOK, Flush
  <2>. QED  BY <1>7, <2>2, <2>3 DEF ForwardChunk, TypeOK, backendVars
<1>8. CASE RecvEnds
  BY <1>8, <1>d DEF RecvEnds, TypeOK, Handling, clientVars, backendVars
<1>9. CASE Return
  <2>1. Completed(resp) \in Answer
    BY DEF TypeOK
  <2>2. wire' \in Answer
    BY <1>9, <2>1 DEF Return, TypeOK, Completed
  <2>. QED  BY <1>9, <1>e, <2>2 DEF Return, TypeOK, Handling
<1>10. CASE Sender
  <2>1. SenderDecode => TypeOK'
    BY DEF SenderDecode, TypeOK, clientVars, backendVars, Items
  <2>2. SenderSend => TypeOK'
    BY DEF SenderSend, Unsendable, End, TypeOK, clientVars
  <2>3. SenderClose => TypeOK'
    BY DEF SenderClose, End, TypeOK, clientVars
  <2>. QED  BY <1>10, <2>1, <2>2, <2>3 DEF Sender
<1>11. CASE Upload
  BY <1>11 DEF Upload, TypeOK, handlerVars, backendVars
<1>12. CASE Leave
  BY <1>12, <1>e DEF Leave, TypeOK, handlerVars
<1>13. CASE Expire
  BY <1>13, <1>e DEF Expire, TypeOK, handlerVars, clientVars
<1>14. CASE Backend
  <2>1. \A c \in {"OK", "Aborted"} : BackendEnd(c) => TypeOK'
    BY <1>e DEF BackendEnd, TypeOK, handlerVars, clientVars
  <2>2. BackendReceive => TypeOK'
    BY DEF BackendReceive, TypeOK, handlerVars, clientVars
  <2>3. BackendReply => TypeOK'
    BY DEF BackendReply, TypeOK, handlerVars, clientVars
  <2>4. BackendHeader => TypeOK'
    BY DEF BackendHeader, TypeOK, handlerVars, clientVars
  <2>. QED  BY <1>14, <2>1, <2>2, <2>3, <2>4 DEF Backend
<1>16. CASE StartForward
  BY <1>16, <1>c DEF StartForward, TypeOK, Handling, clientVars, backendVars
<1>15. CASE UNCHANGED vars
  BY <1>15 DEF TypeOK, vars, handlerVars, clientVars, backendVars
<1>. QED  BY <1>1, <1>2, <1>3, <1>4, <1>5, <1>6, <1>7, <1>8, <1>9, <1>10, <1>11, <1>12, <1>13, <1>14, <1>15, <1>16 DEF Next, Handler

\* Every step keeps who is where.
LEMMA ControlStep ==
  ASSUME TypeOK, ControlInv, [Next]_vars
  PROVE  ControlInv'
<1>. USE Statuses, SetupFields DEF ControlInv
<1>1. CASE Start
  BY <1>1 DEF Start, TypeOK, End, HTTPError, clientVars
<1>2. CASE Decode
  BY <1>2 DEF Decode, TypeOK, HTTPError, clientVars, backendVars
<1>3. CASE Send
  BY <1>3 DEF Send, Unsendable, End, HTTPError, TypeOK, clientVars
<1>4. CASE CloseSend
  BY <1>4 DEF CloseSend, End, HTTPError, TypeOK, clientVars
<1>5. CASE Header
  BY <1>5 DEF Header, TypeOK, HTTPError, clientVars, backendVars
<1>6. CASE CloseAndRecv
  BY <1>6 DEF CloseAndRecv, TypeOK, HTTPError, clientVars, backendVars
<1>7. CASE ForwardChunk
  BY <1>7 DEF ForwardChunk, TypeOK, StreamError, backendVars
<1>8. CASE RecvEnds
  BY <1>8 DEF RecvEnds, TypeOK, StreamError, clientVars, backendVars
<1>9. CASE Return
  BY <1>9 DEF Return, TypeOK
<1>10. CASE Sender
  BY <1>10 DEF Sender, SenderDecode, SenderSend, SenderClose, Unsendable, End, TypeOK, clientVars, backendVars
<1>11. CASE Upload
  BY <1>11 DEF Upload, TypeOK, handlerVars, backendVars
<1>12. CASE Leave
  BY <1>12 DEF Leave, End, TypeOK, handlerVars
<1>13. CASE Expire
  BY <1>13 DEF Expire, End, TypeOK, handlerVars, clientVars
<1>14. CASE Backend
  <2>1. \A c \in {"OK", "Aborted"} : BackendEnd(c) => ControlInv'
    BY DEF BackendEnd, TypeOK, handlerVars, clientVars, Streams
  <2>. QED  BY <1>14, <2>1 DEF Backend, BackendReceive, BackendReply, BackendHeader, TypeOK, handlerVars, clientVars, Streams
<1>16. CASE StartForward
  BY <1>16 DEF StartForward, TypeOK, HTTPError, clientVars, backendVars
<1>15. CASE UNCHANGED vars
  BY <1>15 DEF vars, handlerVars, clientVars, backendVars
<1>. QED  BY <1>1, <1>2, <1>3, <1>4, <1>5, <1>6, <1>7, <1>8, <1>9, <1>10, <1>11, <1>12, <1>13, <1>14, <1>15, <1>16 DEF Next, Handler

\* Every step keeps the upload in order.
LEMMA UploadStep ==
  ASSUME TypeOK, ControlInv, UploadInv, [Next]_vars
  PROVE  UploadInv'
<1>. USE Statuses, SetupFields DEF UploadInv
<1>1. CASE Start
  BY <1>1 DEF Start, TypeOK, End, HTTPError, clientVars
<1>2. CASE Decode
  BY <1>2 DEF Decode, ReadsMessage, ReadsEnd, TypeOK, HTTPError, clientVars, backendVars
<1>3. CASE Send
  BY <1>3 DEF Send, Unsendable, End, HTTPError, TypeOK, clientVars
<1>4. CASE CloseSend
  BY <1>4 DEF CloseSend, End, HTTPError, TypeOK, clientVars
<1>5. CASE Header
  BY <1>5 DEF Header, TypeOK, HTTPError, clientVars, backendVars
<1>6. CASE CloseAndRecv
  BY <1>6 DEF CloseAndRecv, TypeOK, HTTPError, clientVars, backendVars
<1>7. CASE ForwardChunk
  BY <1>7 DEF ForwardChunk, TypeOK, StreamError, backendVars
<1>8. CASE RecvEnds
  BY <1>8 DEF RecvEnds, TypeOK, StreamError, clientVars, backendVars
<1>9. CASE Return
  BY <1>9 DEF Return, End, TypeOK
<1>10. CASE Sender
  BY <1>10 DEF Sender, SenderDecode, SenderSend, SenderClose, Unsendable, End, ControlInv, TypeOK, clientVars, backendVars
<1>11. CASE Upload
  BY <1>11 DEF Upload, TypeOK, handlerVars, backendVars
<1>12. CASE Leave
  BY <1>12 DEF Leave, End, TypeOK, handlerVars
<1>13. CASE Expire
  BY <1>13 DEF Expire, End, TypeOK, handlerVars, clientVars
<1>14. CASE Backend
  <2>1. \A c \in {"OK", "Aborted"} : BackendEnd(c) => UploadInv'
    BY DEF BackendEnd, End, TypeOK, handlerVars, clientVars, Streams
  <2>. QED  BY <1>14, <2>1 DEF Backend, BackendReceive, BackendReply, BackendHeader, TypeOK, handlerVars, clientVars, Streams
<1>16. CASE StartForward
  BY <1>16 DEF StartForward, TypeOK, HTTPError, clientVars, backendVars
<1>15. CASE UNCHANGED vars
  BY <1>15 DEF vars, handlerVars, clientVars, backendVars
<1>. QED  BY <1>1, <1>2, <1>3, <1>4, <1>5, <1>6, <1>7, <1>8, <1>9, <1>10, <1>11, <1>12, <1>13, <1>14, <1>15, <1>16 DEF Next, Handler

-----------------------------------------------------------------------------
\* An answer that was final stays so: once the stream has ended the backend does
\* nothing more, and before that no status but a fault of the gateway is told.
LEMMA FinalKept ==
  ASSUME NEW request, NEW a, NEW end, NEW end2, NEW responses \in Nat, NEW responses2 \in Nat,
         Final(request, end, responses, a),
         \/ end = "open" /\ responses <= responses2
         \/ end2 = end /\ responses2 = responses
  PROVE  Final(request, end2, responses2, a)
<1>1. CASE end2 = end /\ responses2 = responses
  BY <1>1
<1>2. CASE end = "open" /\ responses <= responses2
  <2>1. CASE request.kind = "client"
    BY <1>2, <2>1, Statuses DEF Final, FinalReply
  <2>2. CASE request.kind # "client"
    <3>1. PICK n \in 0..responses, code \in Codes \ {"OK"} :
             /\ a = BrokenOff(n, code)
             /\ code = "Unknown" /\ request.faults
      BY <1>2, <2>2, Statuses DEF Final, FinalStream
    <3>2. n \in 0..responses2
      BY <1>2
    <3>. QED  BY <2>2, <3>1, <3>2 DEF Final, FinalStream
  <2>. QED  BY <2>1, <2>2
<1>. QED  BY <1>1, <1>2

\* An error in place of an answer, before the first response of a stream.
LEMMA ErrorFinal ==
  ASSUME NEW request, NEW end, NEW responses \in Nat, NEW code \in Codes \ {"OK"},
         \/ code = end /\ (request.kind # "client" => responses = 0 \/ code \in CutOff)
         \/ code = "Unknown" /\ request.faults
         \/ /\ request.kind = "client"
            /\ \/ code = "InvalidArgument" /\ request.end = "bad"
               \/ code = "Unknown" /\ end = "OK" /\ responses = 0
  PROVE  Final(request, end, responses, ErrorAnswer(code))
<1>1. CASE request.kind = "client"
  BY <1>1 DEF Final, FinalReply
<1>2. CASE request.kind # "client"
  <2>1. BrokenOff(0, code) = ErrorAnswer(code)
    <3>1. Chunks(0) = << >>
      BY ChunksExtend
    <3>2. \A e \in Entries : Append(<< >>, e) = << e >>
      OBVIOUS
    <3>3. ErrorChunk(code) \in Entries
      BY DEF Entries
    <3>4. Append(Chunks(0), ErrorChunk(code)) = << ErrorChunk(code) >>
      BY <3>1, <3>2, <3>3
    <3>. QED  BY <3>4 DEF BrokenOff, ErrorAnswer
  <2>2. 0 \in 0..responses
    OBVIOUS
  <2>. QED  BY <1>2, <2>1, <2>2 DEF Final, FinalStream
<1>. QED  BY <1>1, <1>2

\* An error behind the responses that were forwarded.
LEMMA StreamErrorFinal ==
  ASSUME NEW request, NEW end, NEW responses \in Nat, NEW n \in 0..responses, NEW code \in Codes \ {"OK"},
         request.kind # "client",
         \/ code = end /\ (n = responses \/ code \in CutOff)
         \/ code = "Unknown" /\ request.faults
  PROVE  Final(request, end, responses,
               [code |-> IF ForwardedN(n).body = << >> THEN HTTPStatusFromCode[code] ELSE ForwardedN(n).code,
                body |-> Append(ForwardedN(n).body, ErrorChunk(code))])
<1>1. ForwardedN(n).body = Chunks(n) /\ ForwardedN(n).code = IF n = 0 THEN 0 ELSE 200
  BY DEF ForwardedN
<1>2. Chunks(n) = << >> <=> n = 0
  BY ChunksExtend
<1>3. [code |-> IF ForwardedN(n).body = << >> THEN HTTPStatusFromCode[code] ELSE ForwardedN(n).code,
       body |-> Append(ForwardedN(n).body, ErrorChunk(code))] = BrokenOff(n, code)
  BY <1>1, <1>2 DEF BrokenOff
<1>4. Final(request, end, responses, BrokenOff(n, code))
  BY DEF Final, FinalStream
<1>. QED  BY <1>3, <1>4

\* A step of somebody else than the handler.
LEMMA OtherStep ==
  ASSUME TypeOK, TypeOK', AnswerInv,
         UNCHANGED <<setup, pc, taken, resp, wire>>, gone => gone',
         \/ ended = "open" /\ replied <= replied'
         \/ UNCHANGED <<ended, replied>>
  PROVE  AnswerInv'
<1>1. Final(setup, ended, replied, resp) => Final(setup, ended', replied', resp)
  BY FinalKept DEF TypeOK
<1>2. pc' \in {"return", "returned"} /\ ~gone' => Final(setup, ended', replied', resp)
  BY <1>1 DEF AnswerInv, TypeOK
<1>3. pc' \in {"return", "returned"} /\ ~gone' => Final(setup', ended', replied', resp')
  BY <1>2
<1>. QED  BY <1>3 DEF AnswerInv, TypeOK, Final, FinalReply, FinalStream, NoAnswer, ForwardedN, Chunks, Completed

\* Every step keeps what there is of the answer in agreement with what happened.
LEMMA AnswerStep ==
  ASSUME TypeOK, TypeOK', ControlInv, AnswerInv, [Next]_vars
  PROVE  AnswerInv'
<1>. USE Statuses DEF CutOff
<1>a. \A c \in Codes : HTTPError(c) => resp' = ErrorAnswer(c)
  BY DEF HTTPError, ErrorAnswer
<1>b. ForwardedN(0) = NoAnswer
  BY ChunksExtend DEF ForwardedN, NoAnswer
<1>c. ASSUME pc # "returned", pc' = "return", Final(setup', ended', replied', resp')
      PROVE  AnswerInv'
  BY <1>c DEF AnswerInv, Final, FinalReply, FinalStream, ForwardedN, Chunks
<1>d. ASSUME pc' \notin {"recv", "return", "returned"}, resp' = NoAnswer, taken' = 0
      PROVE  AnswerInv'
  BY <1>d DEF AnswerInv, NoAnswer
<1>e. ASSUME pc' = "recv", resp' = ForwardedN(taken')
      PROVE  AnswerInv'
  BY <1>e DEF AnswerInv, ForwardedN, Chunks
<1>1. CASE Start
  <2>1. resp = NoAnswer /\ taken = 0 /\ taken' = taken /\ replied = 0 /\ replied' = replied
    BY <1>1 DEF Start, AnswerInv, ControlInv
  <2>2. CASE pc' = "return"
    <3>1. ended' \in Codes \ {"OK"} /\ HTTPError(ended')
      BY <1>1, <2>2 DEF Start, End, ControlInv, TypeOK
    <3>2. Final(setup', ended', replied', ErrorAnswer(ended'))
      BY <2>1, <3>1, ErrorFinal
    <3>. QED  BY <1>a, <1>c, <1>1, <2>2, <3>1, <3>2 DEF Start
  <2>3. CASE pc' # "return"
    BY <1>1, <1>d, <2>1, <2>3 DEF Start, HTTPError
  <2>. QED  BY <2>2, <2>3
<1>2. CASE Decode
  <2>1. resp = NoAnswer /\ taken = 0 /\ taken' = taken
    BY <1>2 DEF Decode, AnswerInv
  <2>2. CASE pc' = "return"
    <3>1. /\ HTTPError("InvalidArgument") /\ setup.kind = "client" /\ gone' = gone
          /\ setup' = setup /\ ended' = ended /\ replied' = replied
          /\ setup.end = "bad" \/ gone
      BY <1>2, <2>2 DEF Decode, ReadsError, ControlInv, clientVars, backendVars
    <3>2. CASE setup.end = "bad"
      <4>1. Final(setup', ended', replied', ErrorAnswer("InvalidArgument"))
        BY <3>1, <3>2, ErrorFinal DEF TypeOK
      <4>. QED  BY <1>a, <1>c, <1>2, <2>2, <3>1, <4>1 DEF Decode
    <3>3. CASE gone
      BY <2>2, <3>1, <3>3 DEF AnswerInv
    <3>. QED  BY <3>1, <3>2, <3>3
  <2>3. CASE pc' # "return"
    BY <1>2, <1>d, <2>1, <2>3 DEF Decode, HTTPError
  <2>. QED  BY <2>2, <2>3
<1>3. CASE Send
  <2>1. resp = NoAnswer /\ taken = 0 /\ taken' = taken /\ setup.kind = "client" /\ setup' = setup
    BY <1>3 DEF Send, AnswerInv, ControlInv
  <2>2. CASE pc' \in {"decode", "closeSend"} /\ UNCHANGED resp
    BY <1>d, <2>1, <2>2
  <2>3. CASE Unsendable /\ HTTPError(ended')
    <3>1. ended' \in Codes \ {"OK"} /\ replied' \in Nat
      BY <2>3 DEF Unsendable, End, TypeOK
    <3>2. Final(setup', ended', replied', ErrorAnswer(ended'))
      BY <2>1, <3>1, ErrorFinal
    <3>. QED  BY <1>a, <1>c, <1>3, <2>3, <3>1, <3>2 DEF Send, HTTPError
  <2>. QED  BY <1>3, <2>2, <2>3 DEF Send
<1>4. CASE CloseSend
  <2>1. resp = NoAnswer /\ taken = 0 /\ taken' = taken /\ setup.kind = "client" /\ setup' = setup
    BY <1>4 DEF CloseSend, AnswerInv, ControlInv
  <2>2. CASE pc' = "header" /\ UNCHANGED resp
    BY <1>d, <2>1, <2>2
  <2>3. CASE ended = "open" /\ End("Internal") /\ HTTPError(ended')
    <3>1. ended' \in Codes \ {"OK"} /\ replied' \in Nat
      BY <2>3 DEF End, TypeOK
    <3>2. Final(setup', ended', replied', ErrorAnswer(ended'))
      BY <2>1, <3>1, ErrorFinal
    <3>. QED  BY <1>a, <1>c, <1>4, <2>3, <3>1, <3>2 DEF CloseSend, HTTPError
  <2>. QED  BY <1>4, <2>2, <2>3 DEF CloseSend
<1>5. CASE Header
  <2>1. resp = NoAnswer /\ taken = 0 /\ taken' = taken
    BY <1>5 DEF Header, AnswerInv
  <2>2. CASE pc' \in {"closeAndRecv", "forward"} /\ UNCHANGED resp
    BY <1>d, <2>1, <2>2
  <2>3. CASE ~header /\ ended \notin {"open", "OK"} /\ HTTPError(ended)
    <3>1. ended' = ended /\ replied' = 0 /\ ended \in Codes \ {"OK"}
      BY <1>5, <2>3 DEF Header, ControlInv, TypeOK, backendVars
    <3>2. Final(setup', ended', replied', ErrorAnswer(ended'))
      BY <3>1, ErrorFinal
    <3>. QED  BY <1>a, <1>c, <1>5, <2>3, <3>1, <3>2 DEF Header, HTTPError
  <2>. QED  BY <1>5, <2>2, <2>3 DEF Header
<1>6. CASE CloseAndRecv
  <2>1. /\ setup.kind = "client" /\ setup' = setup /\ ended' = ended /\ replied' = replied
        /\ ended \in Codes /\ taken = 0 /\ replied \in {0, 1} /\ pc' = "return"
    BY <1>6 DEF CloseAndRecv, ControlInv, AnswerInv, TypeOK, backendVars, HTTPError
  <2>2. CASE ended = "OK" /\ resp' = [code |-> 200, body |-> << Chunk(1) >>]
    <3>1. replied = 1
      BY <1>6, <2>1, <2>2 DEF CloseAndRecv, HTTPError, HTTPStatusFromCode
    <3>2. Chunks(1) = << Chunk(1) >>
      BY DEF Chunks
    <3>3. Final(setup', ended', replied', resp')
      BY <2>1, <2>2, <3>1, <3>2 DEF Final, FinalReply, ForwardedN
    <3>. QED  BY <1>c, <1>6, <2>1, <3>3 DEF CloseAndRecv
  <2>3. ASSUME NEW code \in Codes \ {"OK"}, resp' = ErrorAnswer(code),
               code = ended \/ (code = "Unknown" /\ (setup.faults \/ (ended = "OK" /\ replied = 0)))
        PROVE  AnswerInv'
    <3>1. Final(setup', ended', replied', ErrorAnswer(code))
      BY <2>1, <2>3, ErrorFinal DEF TypeOK
    <3>. QED  BY <1>c, <1>6, <2>1, <2>3, <3>1 DEF CloseAndRecv
  <2>4. CASE ended = "OK" /\ taken < replied
    <3>1. \/ resp' = [code |-> 200, body |-> << Chunk(1) >>]
          \/ setup.faults /\ resp' = ErrorAnswer("Unknown")
      BY <1>6, <1>a, <2>4 DEF CloseAndRecv
    <3>. QED  BY <2>2, <2>3, <2>4, <3>1
  <2>5. CASE ~(ended = "OK" /\ taken < replied)
    <3>1. HTTPError(IF ended = "OK" THEN "Unknown" ELSE ended)
      BY <1>6, <2>5 DEF CloseAndRecv
    <3>2. resp' = ErrorAnswer(IF ended = "OK" THEN "Unknown" ELSE ended)
      BY <3>1 DEF HTTPError, ErrorAnswer
    <3>3. CASE ended = "OK"
      <4>1. replied = 0
        BY <2>1, <2>5, <3>3
      <4>. QED  BY <2>3, <3>2, <3>3, <4>1
    <3>4. CASE ended # "OK"
      <4>1. ended \in Codes \ {"OK"} /\ resp' = ErrorAnswer(ended)
        BY <2>1, <3>2, <3>4
      <4>. QED  BY <2>3, <4>1
    <3>. QED  BY <3>3, <3>4
  <2>. QED  BY <2>4, <2>5
<1>7. CASE ForwardChunk
  <2>1. /\ resp = ForwardedN(taken) /\ setup.kind # "client" /\ setup' = setup
        /\ UNCHANGED <<ended, replied, gone>> /\ taken' = taken + 1 /\ taken \in 0..replied /\ taken' \in 0..replied
    BY <1>7 DEF ForwardChunk, ControlInv, AnswerInv, TypeOK, backendVars
  <2>2. CASE resp' = [code |-> 200, body |-> Append(resp.body, Chunk(taken + 1))] /\ UNCHANGED pc
    <3>1. resp.body = Chunks(taken)
      BY <2>1 DEF ForwardedN
    <3>2. resp'.body = Chunks(taken')
      BY <2>1, <2>2, <3>1, ChunksExtend DEF TypeOK
    <3>3. resp' = ForwardedN(taken')
      <4>1. taken' # 0
        BY <2>1 DEF TypeOK
      <4>2. Append(resp.body, Chunk(taken + 1)) = Chunks(taken')
        BY <2>2, <3>2
      <4>. QED  BY <2>2, <4>1, <4>2 DEF ForwardedN
    <3>. QED  BY <1>e, <1>7, <2>2, <3>3 DEF ForwardChunk
  <2>3. CASE gone /\ pc' = "return" /\ UNCHANGED resp
    BY <1>7, <2>1, <2>3 DEF AnswerInv, ForwardedN, Chunks, TypeOK
  <2>4. CASE setup.faults /\ StreamError("Unknown")
    <3>1. Final(setup', ended', replied', resp')
      BY <2>1, <2>4, StreamErrorFinal DEF StreamError, TypeOK
    <3>. QED  BY <1>c, <1>7, <2>4, <3>1 DEF ForwardChunk, StreamError
  <2>. QED  BY <1>7, <2>2, <2>3, <2>4 DEF ForwardChunk
<1>8. CASE RecvEnds
  <2>1. /\ resp = ForwardedN(taken) /\ setup.kind # "client" /\ setup' = setup
        /\ UNCHANGED <<ended, replied>> /\ taken \in 0..replied /\ ended \in Codes /\ pc' = "return"
        /\ taken = replied \/ ended \in CutOff
    BY <1>8 DEF RecvEnds, ControlInv, AnswerInv, TypeOK, backendVars, StreamError
  <2>2. CASE ended = "OK"
    <3>1. resp' = ForwardedN(replied)
      BY <1>8, <2>1, <2>2 DEF RecvEnds
    <3>2. Final(setup', ended', replied', resp')
      BY <2>1, <2>2, <3>1 DEF Final, FinalStream
    <3>. QED  BY <1>c, <1>8, <2>1, <3>2 DEF RecvEnds
  <2>3. CASE ended # "OK"
    <3>1. StreamError(ended)
      BY <1>8, <2>3 DEF RecvEnds
    <3>2. Final(setup', ended', replied', resp')
      BY <2>1, <2>3, <3>1, StreamErrorFinal DEF StreamError, TypeOK
    <3>. QED  BY <1>c, <1>8, <2>1, <3>2 DEF RecvEnds
  <2>. QED  BY <2>2, <2>3
<1>9. CASE Return
  <2>1. /\ setup' = setup /\ resp' = resp /\ replied' = replied /\ pc = "return" /\ pc' = "returned" /\ gone' = gone
        /\ ended = "open" \/ ended' = ended
    BY <1>9 DEF Return, End
  <2>2. ~gone' => wire' = Completed(resp')
    BY <1>9, <2>1 DEF Return, Completed
  <2>3. ~gone' => Final(setup', ended', replied', resp')
    BY <2>1, FinalKept DEF AnswerInv, TypeOK
  <2>. QED  BY <2>1, <2>2, <2>3 DEF AnswerInv, Final, FinalReply, FinalStream, ForwardedN, Chunks, Completed
<1>10. CASE Sender
  <2>1. SenderDecode => AnswerInv'
    BY OtherStep DEF SenderDecode, clientVars, backendVars
  <2>2. SenderSend => AnswerInv'
    BY OtherStep DEF SenderSend, Unsendable, clientVars, TypeOK
  <2>3. SenderClose => AnswerInv'
    BY OtherStep DEF SenderClose, clientVars, TypeOK
  <2>. QED  BY <1>10, <2>1, <2>2, <2>3 DEF Sender
<1>11. CASE Upload
  BY <1>11, OtherStep DEF Upload, handlerVars, backendVars
<1>12. CASE Leave
  BY <1>12, OtherStep DEF Leave, End, handlerVars, TypeOK
<1>13. CASE Expire
  BY <1>13, OtherStep DEF Expire, End, handlerVars, clientVars, TypeOK
<1>14. CASE Backend
  <2>1. \A c \in {"OK", "Aborted"} : BackendEnd(c) => AnswerInv'
    BY OtherStep DEF BackendEnd, End, handlerVars, clientVars, Streams, TypeOK
  <2>2. BackendReceive => AnswerInv'
    BY OtherStep DEF BackendReceive, handlerVars, clientVars
  <2>3. BackendReply => AnswerInv'
    BY OtherStep DEF BackendReply, handlerVars, clientVars, Streams, TypeOK
  <2>4. BackendHeader => AnswerInv'
    BY OtherStep DEF BackendHeader, handlerVars, clientVars
  <2>. QED  BY <1>14, <2>1, <2>2, <2>3, <2>4 DEF Backend
<1>16. CASE StartForward
  <2>1. resp = NoAnswer /\ taken = 0 /\ taken' = taken /\ setup.kind # "client"
    BY <1>16 DEF StartForward, AnswerInv, ControlInv
  <2>2. CASE pc' = "recv" /\ UNCHANGED resp
    BY <1>b, <1>e, <2>1, <2>2
  <2>3. CASE setup.faults /\ HTTPError("Unknown")
    <3>1. Final(setup', ended', replied', ErrorAnswer("Unknown"))
      <4>1. setup'.faults /\ replied' \in Nat
        BY <1>16, <2>3 DEF StartForward, TypeOK
      <4>. QED  BY <4>1, ErrorFinal
    <3>. QED  BY <1>a, <1>c, <1>16, <2>3, <3>1 DEF StartForward, HTTPError
  <2>. QED  BY <1>16, <2>2, <2>3 DEF StartForward
<1>15. CASE UNCHANGED vars
  BY <1>15, OtherStep DEF vars, handlerVars, clientVars, backendVars
<1>. QED  BY <1>1, <1>2, <1>3, <1>4, <1>5, <1>6, <1>7, <1>8, <1>9, <1>10, <1>11, <1>12, <1>13, <1>14, <1>15, <1>16 DEF Next, Handler

-----------------------------------------------------------------------------
LEMMA InitInv ==
  ASSUME Init
  PROVE  IInv
<1>1. TypeOK
  BY AnswerTypes DEF Init, TypeOK, Handling, NoAnswer
<1>2. ControlInv
  BY <1>1, SetupFields DEF Init, ControlInv
<1>3. UploadInv
  BY DEF Init, UploadInv
<1>4. AnswerInv
  BY DEF Init, AnswerInv, NoAnswer
<1>. QED  BY <1>1, <1>2, <1>3, <1>4 DEF IInv

\* The inductive invariant: types, who is where, what was uploaded, and an
\* answer that agrees with what the backend did.
THEOREM StreamInvariant == Spec => []IInv
<1>1. IInv /\ [Next]_vars => IInv'
  BY TypeStep, ControlStep, UploadStep, AnswerStep DEF IInv
<1>. QED  BY InitInv, <1>1, PTL DEF Spec

\* The client of a server or bidirectional stream is told what happened: every
\* response of a stream that ended well, and of another one a prefix followed by
\* its error, whatever the backend, the deadline and the client do meanwhile
\* (ForwardResponseStream, handleForwardResponseStreamError and the callers).
THEOREM StreamFaithful == Spec => []FaithfulStream
<1>1. IInv => FaithfulStream
  <2>. SUFFICES ASSUME IInv, pc = "returned", ~gone, setup.kind # "client"
                PROVE  \/ ended = "OK" /\ AnswerIs(200, Chunks(replied))
                       \/ \E n \in 0..replied, code \in Codes \ {"OK"} :
                            /\ AnswerIs(IF n = 0 THEN HTTPStatusFromCode[code] ELSE 200,
                                        Append(Chunks(n), ErrorChunk(code)))
                            /\ \/ code = ended /\ (n = replied \/ code \in CutOff)
                               \/ code = "Unknown" /\ setup.faults
    BY DEF FaithfulStream
  <2>1. wire = Completed(resp) /\ FinalStream(setup, ended, replied, resp) /\ replied \in Nat
    BY DEF IInv, AnswerInv, Final, TypeOK
  <2>2. CASE ended = "OK" /\ resp = ForwardedN(replied)
    <3>1. Completed(ForwardedN(replied)) = [code |-> 200, body |-> Chunks(replied)]
      BY DEF Completed, ForwardedN
    <3>. QED  BY <2>1, <2>2, <3>1 DEF AnswerIs
  <2>3. ASSUME NEW n \in 0..replied, NEW code \in Codes \ {"OK"},
               resp = BrokenOff(n, code),
               \/ code = ended /\ (n = replied \/ code \in CutOff)
               \/ code = "Unknown" /\ setup.faults
        PROVE  AnswerIs(IF n = 0 THEN HTTPStatusFromCode[code] ELSE 200,
                        Append(Chunks(n), ErrorChunk(code)))
    <3>1. Completed(BrokenOff(n, code)) = BrokenOff(n, code)
      <4>1. (IF n = 0 THEN HTTPStatusFromCode[code] ELSE 200) # 0
        BY Statuses
      <4>2. BrokenOff(n, code).code # 0
        BY <4>1 DEF BrokenOff
      <4>3. [BrokenOff(n, code) EXCEPT !.code = BrokenOff(n, code).code] = BrokenOff(n, code)
        BY DEF BrokenOff
      <4>. QED  BY <4>2, <4>3 DEF Completed
    <3>. QED  BY <2>1, <2>3, <3>1 DEF AnswerIs, BrokenOff
  <2>. QED  BY <2>1, <2>2, <2>3 DEF FinalStream
<1>. QED  BY StreamInvariant, <1>1, PTL

\* The client of a client stream gets the backend's response only if the backend
\* ended the stream well, and the backend's own status otherwise: that Send
\* reports the end of the stream as io.EOF is not what the client gets to see.
THEOREM ReplyFaithful == Spec => []FaithfulReply
<1>1. IInv => FaithfulReply
  <2>. SUFFICES ASSUME IInv, pc = "returned", ~gone, setup.kind = "client"
                PROVE  \/ ended = "OK" /\ replied = 1 /\ AnswerIs(200, Chunks(1))
                       \/ \E code \in Codes \ {"OK"} :
                            /\ AnswerIs(HTTPStatusFromCode[code], << ErrorChunk(code) >>)
                            /\ \/ code = ended
                               \/ code = "InvalidArgument" /\ setup.end = "bad"
                               \/ code = "Unknown" /\ (setup.faults \/ (ended = "OK" /\ replied = 0))
    BY DEF FaithfulReply
  <2>1. wire = Completed(resp) /\ FinalReply(setup, ended, replied, resp)
    BY DEF IInv, AnswerInv, Final
  <2>2. Completed(ForwardedN(1)) = [code |-> 200, body |-> Chunks(1)]
    BY DEF Completed, ForwardedN
  <2>3. ASSUME NEW code \in Codes \ {"OK"}, resp = ErrorAnswer(code)
        PROVE  AnswerIs(HTTPStatusFromCode[code], << ErrorChunk(code) >>)
    <3>1. Completed(ErrorAnswer(code)) = ErrorAnswer(code)
      BY Statuses DEF Completed, ErrorAnswer
    <3>. QED  BY <2>1, <2>3, <3>1 DEF AnswerIs, ErrorAnswer
  <2>. QED  BY <2>1, <2>2, <2>3 DEF FinalReply, AnswerIs
<1>. QED  BY StreamInvariant, <1>1, PTL

\* A client-streaming backend that sees the end of the stream has been sent the
\* whole body: one that breaks off or does not decode is never half-closed.
THEOREM HalfCloseFaithful == Spec => []HalfCloseMeansEnd
<1>1. IInv => HalfCloseMeansEnd
  BY DEF IInv, UploadInv, HalfCloseMeansEnd
<1>. QED  BY StreamInvariant, <1>1, PTL
=============================================================================
