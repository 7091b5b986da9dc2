---------------------------- MODULE ClientErrors ----------------------------
(***************************************************************************)
(* How the MCP client reports failures (mcpcompat/client): the capture of  *)
(* the first failing HTTP response of a call, the mapping of the go-sdk's  *)
(* error onto the sentinels callers test for, the challenge a 401 carries, *)
(* and the answer a resumed call picks off the wire.                       *)
(*                                                                         *)
(* A response is [status, body, challenges], where body is the set of      *)
(* words the mapping looks for in a text and challenges a sequence of      *)
(* WWW-Authenticate values, each a sequence of parameters.  An error of    *)
(* the go-sdk is [rpc, says]: the JSON-RPC error in its chain, if any, and *)
(* the words of its message.                                               *)
(***************************************************************************)
EXTENDS Naturals, Sequences, SequencesExt, Checks

NoCapture == [status |-> 0, body |-> {}, challenges |-> <<>>]

\* Mutant: every failing response overwrites the last.
CaptureLatest(h, resp) == IF resp.status < 400 THEN h ELSE resp

\* The per-call holder after a response: the first one with a status of 400 or more stays.
captureErrorBody(h, resp) == IF resp.status < 400 \/ h.status # 0 THEN h ELSE resp

\* What the holder has after the responses a call's context saw.
capturedErr(responses) == FoldLeft(LAMBDA h, r : captureErrorBody(h, r), NoCapture, responses)

-----------------------------------------------------------------------------
(* The challenge.  A parameter is [name, form, url]; an unterminated       *)
(* quoted string swallows the rest of its header value.                    *)

extractResourceMetadataURLs(params) ==
  LET upTo == SelectInSeq(params, LAMBDA p : p.form = "unterminated")
      read == IF upTo = 0 THEN params ELSE SubSeq(params, 1, upTo - 1)
  IN SelectSeq(read, LAMBDA p : p.form \in {"quoted", "token"} /\ p.url # "" /\ p.name = "resource_metadata")

extractResourceMetadataURLFromHeaders(challenges) ==
  LET urls == FlattenSeq([i \in DOMAIN challenges |-> extractResourceMetadataURLs(challenges[i])])
  IN IF urls = <<>> THEN "" ELSE Head(urls).url

-----------------------------------------------------------------------------
(* The mapping.  The result is [is, url]: the sentinel the caller can test *)
(* for and the URL of an AuthorizationRequiredError.                       *)

Plain == [is |-> "plain", url |-> ""]
Sentinel(s) == [is |-> s, url |-> ""]
Unauthorized(h) == [is |-> "unauthorized", url |-> extractResourceMetadataURLFromHeaders(h.challenges)]

\* The body is appended to the message, with its status.
enrichWithResponseBody(err, h) == IF h.body = {} THEN err ELSE [err EXCEPT !.says = @ \cup h.body]

mapStatusError(h) ==
  FirstOf(<< <<h.status >= 500, Plain>>,
             <<h.status = 401, Unauthorized(h)>>,
             <<h.status = 404, Sentinel("terminated")>> >>, Plain)

mapStringError(err, h) ==
  FirstOf(<< <<"unauthorized" \in err.says, Unauthorized(h)>>,
             <<{"404", "session"} \subseteq err.says, Sentinel("terminated")>>,
             <<"legacy" \in err.says, Sentinel("legacy")>> >>, Plain)

mapTransportError(err, h) == IF h.status >= 400 THEN mapStatusError(h) ELSE mapStringError(err, h)

mapConnectError(err0, h) ==
  LET err == enrichWithResponseBody(err0, h)
  IN FirstOf(<< <<h.status = 401, Unauthorized(h)>>,
                <<h.status \in 400..499, Sentinel("legacy")>>,
                <<h.status = 0 /\ err.rpc # "none", Plain>> >>, mapTransportError(err, h))

mapCallError(err0, h) ==
  LET err == enrichWithResponseBody(err0, h)
  IN FirstOf(<< <<err.rpc = "method not found", Sentinel("method not found")>>,
                <<h.status = 0 /\ err.rpc # "none", Plain>> >>, mapTransportError(err, h))

-----------------------------------------------------------------------------
(* The answer of a resumed call.  The body is one JSON envelope or a       *)
(* stream of events.  An event is [valid, method, id]: whether it is a     *)
(* data line that decodes, whether it names a method (a request or         *)
(* notification of the server), and its ID.                                *)

Answers(event, want) == event.valid /\ ~event.method /\ event.id = want

\* The position of the answer, 0 for none: a JSON body is taken for the answer as it is,
\* a stream is searched.
readRPCResponse(json, events, want) ==
  IF json THEN IF events # <<>> /\ events[1].valid THEN 1 ELSE 0
  ELSE SelectInSeq(events, LAMBDA e : Answers(e, want))

\* What a resumed call returns.
resumeCall(status, json, events, want) ==
  LET found == readRPCResponse(json, events, want)
  IN FirstOf(<< <<status = 404, [is |-> "terminated", at |-> 0]>>,
                <<status \notin 200..299, [is |-> "failed", at |-> 0]>>,
                <<found = 0, [is |-> "unanswered", at |-> 0]>> >>, [is |-> "answered", at |-> found])

=============================================================================
