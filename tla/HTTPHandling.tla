---------------------------- MODULE HTTPHandling ----------------------------
(***************************************************************************)
(* What becomes of one HTTP request in transport/http.go: the layers of    *)
(* wrapWithMiddleware (recovery, CORS, the error handler of                *)
(* middleware/error.go), handleRequest, and protocol.ParseJSONRPCMessage.  *)
(*                                                                         *)
(* A request's body is a record: whether it can be read, is a JSON object, *)
(* has its fields typed as JSON-RPC has them, its fields, and its id.  The *)
(* answer is what is written to the connection: a status and the documents *)
(* of the body.                                                            *)
(***************************************************************************)
EXTENDS Integers, Sequences

CONSTANT None                 \* no id: JSON's null

ParseError == -32700
InvalidRequest == -32600
MethodNotFound == -32601
InvalidParams == -32602
InternalError == -32603
Panicked == 1                 \* an outcome that is no code

ContentTypes == {"", "application/json", "application/json-rpc", "text/json", "text/plain"}
IsValidJSONContentType(type) == type \in {"application/json", "application/json-rpc", "text/json"}

ExtractIDFromBody(body) == IF body.object /\ "id" \in body.fields THEN body.id ELSE None

\* A message is a request if it has a method, else a response of some kind;
\* one that is neither counts as an error response.
ParseJSONRPCMessage(body) ==
    CASE ~body.object -> "parse error"
      [] body.object /\ body.fields \cap {"method", "error", "result"} # {} ->
            IF ~body.typed THEN "parse error"
            ELSE IF "method" \in body.fields THEN "request" ELSE "response"
      [] OTHER -> "response"

\* JSON-RPC documents are written with the status of the moment, 200.
Document(id, code) == <<[kind |-> "jsonrpc", id |-> id, code |-> code]>>
Write(status, docs) == [status |-> status, docs |-> docs, panic |-> FALSE]
WriteErrorWithID(id, code) == Write(200, Document(id, code))
Text == <<[kind |-> "text", id |-> None, code |-> 0]>>
HTTPError(status) == Write(status, Text)

\* Mutant of HandleRequest: the id is taken from what has been parsed.
HandleRequestParsedID(q, outcome) ==
    LET kind == ParseJSONRPCMessage(q.body)
    IN  CASE q.method # "POST" -> HTTPError(405)
          [] q.method = "POST" /\ q.type # "" /\ ~IsValidJSONContentType(q.type) ->
                WriteErrorWithID(None, ParseError)
          [] OTHER -> IF ~q.body.readable THEN WriteErrorWithID(None, ParseError)
                      ELSE IF kind = "parse error" THEN WriteErrorWithID(None, ParseError)
                      ELSE IF kind # "request"
                           THEN WriteErrorWithID(q.body.id, InvalidRequest)
                      ELSE IF outcome = Panicked THEN [Write(200, <<>>) EXCEPT !.panic = TRUE]
                      ELSE WriteErrorWithID(q.body.id, outcome)

\* The server's outcome is a code, 0 for a result, or a panic; its response
\* carries the id of the request.
HandleRequest(q, outcome) ==
    LET id == ExtractIDFromBody(q.body)
        kind == ParseJSONRPCMessage(q.body)
    IN  CASE q.method # "POST" -> HTTPError(405)
          [] q.method = "POST" /\ q.type # "" /\ ~IsValidJSONContentType(q.type) ->
                WriteErrorWithID(None, ParseError)
          [] OTHER -> IF ~q.body.readable THEN WriteErrorWithID(None, ParseError)
                      ELSE IF kind = "parse error" THEN WriteErrorWithID(id, ParseError)
                      ELSE IF kind # "request" THEN WriteErrorWithID(id, InvalidRequest)
                      ELSE IF outcome = Panicked THEN [Write(200, <<>>) EXCEPT !.panic = TRUE]
                      ELSE WriteErrorWithID(id, outcome)

-----------------------------------------------------------------------------
\* middleware/error.go

HTTPStatusToJSONRPCCode(status) ==
    CASE status = 400 -> InvalidRequest
      [] status = 404 -> MethodNotFound
      [] status = 422 -> InvalidParams
      [] OTHER -> InternalError

\* The transformers know JSON-RPC errors; any other error is an internal one.
Transform(transformer, status) ==
    IF transformer = "none" THEN HTTPStatusToJSONRPCCode(status) ELSE InternalError

HandleHTTPError(transformer, status) ==
    [kind |-> "error", id |-> None, code |-> Transform(transformer, status)]

\* errorCapturingWriter: a status of an error writes the handler's document,
\* and what is written afterwards comes after it.
WrapHTTPHandler(transformer, answer) ==
    CASE answer.panic -> Write(500, <<HandleHTTPError(transformer, 500)>>)
      [] ~answer.panic /\ answer.status >= 400 ->
            [answer EXCEPT !.docs = <<HandleHTTPError(transformer, answer.status)>> \o @]
      [] OTHER -> answer

-----------------------------------------------------------------------------
\* The other layers of transport/http.go

CORSAllows(config, origin) ==
    config.origins = {} \/ config.origins \cap {"*", origin} # {}

\* A preflight request is answered here, allowed or not.
CORSMiddleware(config, q, answer) ==
    IF config.cors /\ q.method = "OPTIONS" THEN Write(204, <<>>) ELSE answer

RecoveryMiddleware(answer) ==
    IF answer.panic THEN WriteErrorWithID(None, InternalError) ELSE answer

WrapWithMiddleware(config, q, answer) ==
    RecoveryMiddleware(CORSMiddleware(config, q, WrapHTTPHandler(config.transformer, answer)))

Serve(config, q, outcome) == WrapWithMiddleware(config, q, HandleRequest(q, outcome))

-----------------------------------------------------------------------------

(* Whatever is wrong with it, a message that is sent with a JSON type and   *)
(* can be read gets one JSON-RPC document with the message's own id, and a  *)
(* handler that panics one document of the error handler; only an answer    *)
(* with a status of an error that a handler wrote itself has two.           *)
AnswersNameTheMessage(config, q, outcome) ==
    LET answer == Serve(config, q, outcome)
        taken == /\ q.method = "POST" /\ q.body.readable
                 /\ q.type = "" \/ IsValidJSONContentType(q.type)
        fails == taken /\ ParseJSONRPCMessage(q.body) = "request" /\ outcome = Panicked
    IN  /\ ~answer.panic
        /\ taken /\ ~fails =>
              /\ answer.status = 200 /\ Len(answer.docs) = 1
              /\ answer.docs[1].kind = "jsonrpc"
              /\ answer.docs[1].id = ExtractIDFromBody(q.body)
        /\ fails => answer.status = 500 /\ Len(answer.docs) = 1
        /\ Len(answer.docs) = 2 => q.method # "POST"
=============================================================================
