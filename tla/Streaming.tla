----------------------------- MODULE Streaming -----------------------------
(***************************************************************************)
(* One request of a streaming binding: the generated request function of a *)
(* server-streaming, client-streaming or bidirectional method, the         *)
(* goroutine the last one starts, the forwarding of the responses chunk by *)
(* chunk, and the gzip middleware's recorder, which may stand between the  *)
(* handler and the client.  The request was accepted, annotated and, when  *)
(* the method does not stream requests, parsed (see RequestHandler).       *)
(*                                                                         *)
(* The gRPC stream, the HTTP server and the client are external.  Messages *)
(* keep their order in a gRPC stream, so one is named after its number and *)
(* a queue is the difference of two counters.  The HTTP side is HTTP/2, as *)
(* ListenAndServeTLS serves it: a body can be read while the answer to it  *)
(* is written, and the server notices that a client leaves.                *)
(***************************************************************************)
EXTENDS Naturals, Sequences

CONSTANTS
  Setups,      \* requests and deployments
  MaxReplies,  \* bound: responses of the backend
  Window       \* messages a gRPC stream takes before Send blocks

ASSUME SetupsAssumption ==
  Setups \subseteq [kind : {"server", "client", "bidi"}, msgs : Nat, end : {"eof", "bad"},
                    gzip : BOOLEAN, requestContext : BOOLEAN, deadline : BOOLEAN,
                    faults : BOOLEAN, leaves : BOOLEAN, talks : BOOLEAN]

VARIABLES
  setup,
  pc,          \* the handler
  sender,      \* the goroutine of a bidirectional request
  decoded,     \* items of the body the decoder returned, its end included
  sent,        \* messages sent to the backend
  halfClosed,  \* CloseSend was called
  taken,       \* responses received
  resp,        \* what was written to the handler's http.ResponseWriter
  uploaded,    \* items of the body the client has sent
  gone,        \* the client has left
  wire,        \* what was sent to the client
  header,      \* the backend has sent its header
  received,    \* messages the backend has received
  replied,     \* responses of the backend
  ended        \* the status of the gRPC stream, or "open"

handlerVars == <<pc, sender, decoded, sent, halfClosed, taken, resp>>
clientVars == <<uploaded, gone, wire>>
backendVars == <<header, received, replied, ended>>
vars == <<setup, handlerVars, clientVars, backendVars>>

HTTPStatusFromCode ==
  [OK |-> 200, Canceled |-> 408, Unknown |-> 500, InvalidArgument |-> 400,
   DeadlineExceeded |-> 504, NotFound |-> 404, AlreadyExists |-> 409, PermissionDenied |-> 403,
   Unauthenticated |-> 401, ResourceExhausted |-> 429, FailedPrecondition |-> 400,
   Aborted |-> 409, OutOfRange |-> 400, Unimplemented |-> 501, Internal |-> 500,
   Unavailable |-> 503, DataLoss |-> 500]

Codes == DOMAIN HTTPStatusFromCode
CutOff == {"Canceled", "DeadlineExceeded", "ResourceExhausted", "Internal"}  \* by the gateway
Items == setup.msgs + 1
Chunk(n) == <<"chunk", n>>
ErrorChunk(code) == <<"error", code>>

Init ==
  /\ setup \in Setups
  /\ pc = "start" /\ sender = "none"
  /\ decoded = 0 /\ sent = 0 /\ halfClosed = FALSE /\ taken = 0
  /\ resp = [code |-> 0, body |-> << >>]
  /\ uploaded = 0 /\ gone = FALSE
  /\ wire = [code |-> 0, body |-> << >>]
  /\ header = FALSE /\ received = 0 /\ replied = 0 /\ ended = "open"

\* End ends the gRPC stream, unless it has ended.
End(code) == ended' = IF ended = "open" THEN code ELSE ended

-----------------------------------------------------------------------------
\* Answers.  HTTPError replaces what there is of an answer by an error.
HTTPError(code) ==
  /\ resp' = [code |-> HTTPStatusFromCode[code], body |-> << ErrorChunk(code) >>]
  /\ pc' = "return"

\* An error in the middle of a stream is one more chunk, behind those written.
StreamError(code) ==
  /\ resp' = [code |-> IF resp.body = << >> THEN HTTPStatusFromCode[code] ELSE resp.code,
              body |-> Append(resp.body, ErrorChunk(code))]
  /\ pc' = "return"

\* Flush reaches the client, or only the recorder.
Flush == wire' = IF setup.gzip \/ gone THEN wire ELSE resp'

-----------------------------------------------------------------------------
\* The body.  Its decoder returns a message, the end, or an error: for what is
\* not a message, for a client that left, and after the handler has returned.
ReadsMessage == pc # "returned" /\ decoded < uploaded /\ decoded < setup.msgs
ReadsEnd == pc # "returned" /\ decoded < uploaded /\ decoded = setup.msgs /\ setup.end = "eof"
ReadsError ==
  \/ pc = "returned"
  \/ decoded < uploaded /\ decoded = setup.msgs /\ setup.end = "bad"
  \/ gone /\ decoded = uploaded

\* The call that opens the stream; a bidirectional one starts its goroutine.
Start ==
  /\ pc = "start"
  /\ \/ /\ ended = "open"
        /\ pc' = IF setup.kind = "client" THEN "decode" ELSE "header"
        /\ sender' = IF setup.kind = "bidi" THEN "decode" ELSE "none"
        /\ UNCHANGED <<resp, ended>>
     \/ /\ End("Unavailable")
        /\ HTTPError(ended')
        /\ UNCHANGED sender
  /\ UNCHANGED <<setup, decoded, sent, halfClosed, taken, clientVars, header, received, replied>>

\* Mutant: a message that does not decode ends the loop as the end does.
DecodeBreaks ==
  /\ pc = "decode"
  /\ ReadsMessage \/ ReadsEnd \/ ReadsError
  /\ decoded' = IF ReadsMessage THEN decoded + 1 ELSE Items
  /\ pc' = IF ReadsMessage THEN "send" ELSE "closeSend"
  /\ UNCHANGED <<setup, sender, sent, halfClosed, taken, resp, clientVars, backendVars>>

\* Mutant: the loop goes on after an error.
DecodeContinues ==
  /\ pc = "decode"
  /\ ReadsMessage \/ ReadsEnd
  /\ decoded' = decoded + 1
  /\ pc' = IF ReadsMessage THEN "send" ELSE "closeSend"
  /\ UNCHANGED <<setup, sender, sent, halfClosed, taken, resp, clientVars, backendVars>>

\* Client streaming: decode and send until the end of the body.
Decode ==
  /\ pc = "decode"
  /\ \/ ReadsMessage /\ decoded' = decoded + 1 /\ pc' = "send" /\ UNCHANGED resp
     \/ ReadsEnd /\ decoded' = decoded + 1 /\ pc' = "closeSend" /\ UNCHANGED resp
     \/ ReadsError /\ decoded' = Items /\ HTTPError("InvalidArgument")
  /\ UNCHANGED <<setup, sender, sent, halfClosed, taken, clientVars, backendVars>>

\* A message the gateway cannot send, one over the size limit say, aborts the
\* stream with an error that is Send's own.
Unsendable == setup.faults /\ ended = "open" /\ End("ResourceExhausted")

\* Send returns io.EOF when the stream has ended; its status is left to Header
\* and CloseAndRecv.  Any other error is the answer.
Send ==
  /\ pc = "send"
  /\ \/ /\ ended = "open" /\ sent - received < Window
        /\ sent' = sent + 1
        /\ pc' = "decode"
        /\ UNCHANGED <<resp, ended>>
     \/ /\ ended # "open"
        /\ pc' = "closeSend"
        /\ UNCHANGED <<sent, resp, ended>>
     \/ Unsendable /\ HTTPError(ended') /\ UNCHANGED sent
  /\ UNCHANGED <<setup, sender, decoded, halfClosed, taken, clientVars, header, received, replied>>

\* gRPC documents of CloseSend that an error ends the stream.
CloseSend ==
  /\ pc = "closeSend"
  /\ \/ halfClosed' = TRUE /\ pc' = "header" /\ UNCHANGED <<resp, ended>>
     \/ /\ setup.faults /\ ended = "open" /\ End("Internal")
        /\ HTTPError(ended')
        /\ UNCHANGED halfClosed
  /\ UNCHANGED <<setup, sender, decoded, sent, taken, clientVars, header, received, replied>>

\* Mutant: the header is awaited after the upload.
HeaderAfterUpload ==
  /\ pc = "header"
  /\ sender \in {"none", "done"}
  /\ header \/ ended # "open"
  /\ pc' = IF setup.kind = "client" THEN "closeAndRecv" ELSE "forward"
  /\ UNCHANGED <<setup, sender, decoded, sent, halfClosed, taken, resp, clientVars, backendVars>>

\* Header returns when the header is there; when the stream has ended without
\* one it fails or, for a status sent in its place, succeeds.
Header ==
  /\ pc = "header"
  /\ \/ /\ header \/ ended # "open"
        /\ pc' = IF setup.kind = "client" THEN "closeAndRecv" ELSE "forward"
        /\ UNCHANGED resp
     \/ /\ ~header /\ ended \notin {"open", "OK"}
        /\ HTTPError(ended)
  /\ UNCHANGED <<setup, sender, decoded, sent, halfClosed, taken, clientVars, backendVars>>

\* Client streaming: the one response, forwarded by ForwardResponseMessage; a
\* response option or the marshaler may fail.
CloseAndRecv ==
  /\ pc = "closeAndRecv"
  /\ ended # "open"
  /\ IF ended = "OK" /\ taken < replied
       THEN /\ taken' = taken + 1
            /\ \/ resp' = [code |-> 200, body |-> << Chunk(1) >>] /\ pc' = "return"
               \/ setup.faults /\ HTTPError("Unknown")
       ELSE HTTPError(IF ended = "OK" THEN "Unknown" ELSE ended) /\ UNCHANGED taken
  /\ UNCHANGED <<setup, sender, decoded, sent, halfClosed, clientVars, backendVars>>

\* ForwardResponseStream, before the first response: a writer that cannot flush
\* and a context without metadata are answered with 500, as is, unless it says
\* otherwise, the error of an option.
StartForward ==
  /\ pc = "forward"
  /\ \/ pc' = "recv" /\ UNCHANGED resp
     \/ setup.faults /\ HTTPError("Unknown")
  /\ UNCHANGED <<setup, sender, decoded, sent, halfClosed, taken, clientVars, backendVars>>

\* ForwardResponseStream, one response: options, marshal, write, delimiter and
\* Flush.  The recorder's Write never fails.
ForwardChunk ==
  /\ pc = "recv"
  /\ taken < replied
  /\ taken' = taken + 1
  /\ \/ /\ resp' = [code |-> 200, body |-> Append(resp.body, Chunk(taken + 1))]
        /\ Flush
        /\ UNCHANGED pc
     \/ /\ gone /\ ~setup.gzip
        /\ pc' = "return"
        /\ UNCHANGED <<resp, wire>>
     \/ /\ setup.faults
        /\ StreamError("Unknown")
        /\ UNCHANGED wire
  /\ UNCHANGED <<setup, sender, decoded, sent, halfClosed, uploaded, gone, backendVars>>

\* Mutant: every error of Recv is taken for the end of the stream.
RecvEndsAny ==
  /\ pc = "recv"
  /\ ended # "open" /\ (taken = replied \/ ended \in CutOff)
  /\ pc' = "return"
  /\ UNCHANGED <<setup, sender, decoded, sent, halfClosed, taken, resp, clientVars, backendVars>>

\* Recv returns io.EOF or the error; a cancelled stream may drop what it holds.
RecvEnds ==
  /\ pc = "recv"
  /\ ended # "open" /\ (taken = replied \/ ended \in CutOff)
  /\ IF ended = "OK" THEN pc' = "return" /\ UNCHANGED resp ELSE StreamError(ended)
  /\ UNCHANGED <<setup, sender, decoded, sent, halfClosed, taken, clientVars, backendVars>>

\* Mutant: the middleware copies the body but not the recorded code.
ReturnDropsCode ==
  /\ pc = "return"
  /\ pc' = "returned"
  /\ End("Canceled")
  /\ wire' = IF gone THEN wire ELSE [resp EXCEPT !.code = IF setup.gzip \/ @ = 0 THEN 200 ELSE @]
  /\ UNCHANGED <<setup, sender, decoded, sent, halfClosed, taken, resp, uploaded, gone,
                 header, received, replied>>

\* The deferred cancel ends the stream, and the answer is completed: by the
\* HTTP server or, with gzip, by the middleware's copy of the recorder.
Return ==
  /\ pc = "return"
  /\ pc' = "returned"
  /\ End("Canceled")
  /\ wire' = IF gone THEN wire ELSE [resp EXCEPT !.code = IF @ = 0 THEN 200 ELSE @]
  /\ UNCHANGED <<setup, sender, decoded, sent, halfClosed, taken, resp, uploaded, gone,
                 header, received, replied>>

-----------------------------------------------------------------------------
\* The goroutine of a bidirectional request: handleSend until it fails, then
\* CloseSend, whatever the failure.
SenderDecode ==
  /\ sender = "decode"
  /\ ReadsMessage \/ ReadsEnd \/ ReadsError
  /\ decoded' = IF ReadsMessage THEN decoded + 1 ELSE Items
  /\ sender' = IF ReadsMessage THEN "send" ELSE "close"
  /\ UNCHANGED <<setup, pc, sent, halfClosed, taken, resp, clientVars, backendVars>>

SenderSend ==
  /\ sender = "send"
  /\ \/ /\ ended = "open" /\ sent - received < Window
        /\ sent' = sent + 1
        /\ sender' = "decode"
        /\ UNCHANGED ended
     \/ /\ (ended # "open" /\ UNCHANGED ended) \/ Unsendable
        /\ sender' = "close"
        /\ UNCHANGED sent
  /\ UNCHANGED <<setup, pc, decoded, halfClosed, taken, resp, clientVars, header, received, replied>>

SenderClose ==
  /\ sender = "close"
  /\ sender' = "done"
  /\ \/ halfClosed' = TRUE /\ UNCHANGED ended
     \/ setup.faults /\ ended = "open" /\ End("Internal") /\ UNCHANGED halfClosed
  /\ UNCHANGED <<setup, pc, decoded, sent, taken, resp, clientVars, header, received, replied>>

-----------------------------------------------------------------------------
\* The client sends its body; one that talks waits for the response to each
\* message before it goes on.
Upload ==
  /\ setup.kind # "server" /\ pc # "returned" /\ ~gone
  /\ uploaded < Items
  /\ setup.talks => uploaded <= Len(wire.body)
  /\ uploaded' = uploaded + 1
  /\ UNCHANGED <<setup, handlerVars, gone, wire, backendVars>>

\* The context of the stream is derived from the request's, or from the hook's.
Leave ==
  /\ setup.leaves /\ ~gone /\ pc # "returned"
  /\ gone' = TRUE
  /\ IF setup.requestContext THEN End("Canceled") ELSE UNCHANGED ended
  /\ UNCHANGED <<setup, handlerVars, uploaded, wire, header, received, replied>>

Expire ==
  /\ setup.deadline /\ ended = "open"
  /\ End("DeadlineExceeded")
  /\ UNCHANGED <<setup, handlerVars, clientVars, header, received, replied>>

Streams == pc # "start" /\ ended = "open"

BackendReceive ==
  /\ Streams /\ received < sent
  /\ received' = received + 1
  /\ UNCHANGED <<setup, handlerVars, clientVars, header, replied, ended>>

\* A response brings the header with it; the answer to a client stream is one.
BackendReply ==
  /\ Streams
  /\ replied < IF setup.kind = "client" THEN 1 ELSE MaxReplies
  /\ setup.talks => replied < received
  /\ replied' = replied + 1
  /\ header' = TRUE
  /\ UNCHANGED <<setup, handlerVars, clientVars, received, ended>>

BackendHeader ==
  /\ Streams /\ ~header
  /\ header' = TRUE
  /\ UNCHANGED <<setup, handlerVars, clientVars, received, replied, ended>>

BackendEnd(code) ==
  /\ Streams
  /\ setup.talks => code = "OK" /\ halfClosed /\ received = sent /\ replied = received
  /\ End(code)
  /\ UNCHANGED <<setup, handlerVars, clientVars, header, received, replied>>

-----------------------------------------------------------------------------
Handler ==
  \/ Start \/ Decode \/ Send \/ CloseSend \/ Header \/ CloseAndRecv
  \/ StartForward \/ ForwardChunk \/ RecvEnds \/ Return

Sender == SenderDecode \/ SenderSend \/ SenderClose

Backend == BackendReceive \/ BackendReply \/ BackendHeader \/ \E c \in {"OK", "Aborted"} : BackendEnd(c)

Next == Handler \/ Sender \/ Upload \/ Leave \/ Expire \/ Backend

Spec == Init /\ [][Next]_vars

\* Goroutines run and the backend reads what it is sent.  A client that talks
\* goes on when it can, and its backend answers; nobody else has to.
Fairness ==
  /\ WF_vars(Handler) /\ WF_vars(Sender) /\ WF_vars(BackendReceive)
  /\ WF_vars(setup.talks /\ (Upload \/ BackendReply \/ BackendEnd("OK")))

FairSpec == Spec /\ Fairness

-----------------------------------------------------------------------------
Chunks(n) == [i \in 1..n |-> Chunk(i)]
AnswerIs(code, body) == wire = [code |-> code, body |-> body]

\* What the client was told when a server stream ends is what happened: all
\* responses of a stream that ended well, and otherwise a prefix of them (all,
\* unless the call was cut off here) followed by the error, with the error's
\* own status if no response preceded it.
FaithfulStream ==
  pc = "returned" /\ ~gone /\ setup.kind # "client" =>
    \/ ended = "OK" /\ AnswerIs(200, Chunks(replied))
    \/ \E n \in 0..replied, code \in Codes \ {"OK"} :
         /\ AnswerIs(IF n = 0 THEN HTTPStatusFromCode[code] ELSE 200,
                     Append(Chunks(n), ErrorChunk(code)))
         /\ \/ code = ended /\ (n = replied \/ code \in CutOff)
            \/ code = "Unknown" /\ setup.faults

\* A client stream is answered with its response only if the backend ended it
\* well, and with the backend's own status if it did not: Send's io.EOF is not
\* what the client gets to see.
FaithfulReply ==
  pc = "returned" /\ ~gone /\ setup.kind = "client" =>
    \/ ended = "OK" /\ replied = 1 /\ AnswerIs(200, Chunks(1))
    \/ \E code \in Codes \ {"OK"} :
         /\ AnswerIs(HTTPStatusFromCode[code], << ErrorChunk(code) >>)
         /\ \/ code = ended
            \/ code = "InvalidArgument" /\ setup.end = "bad"
            \/ code = "Unknown" /\ (setup.faults \/ (ended = "OK" /\ replied = 0))

\* The end a client-streaming backend sees is the end of the body: a body that
\* breaks off or stops making sense does not pass for a complete one.
HalfCloseMeansEnd ==
  setup.kind = "client" /\ halfClosed /\ ended = "open" =>
    setup.end = "eof" /\ sent = setup.msgs

\* A client and a backend that take turns come to their end: the gateway holds
\* neither a message nor a response back.
ConversationEnds == setup.talks => <>(pc = "returned")

\* A request ends when its client leaves, whatever the backend does.
LeaverReleased == setup.requestContext => (gone ~> pc = "returned")
=============================================================================
