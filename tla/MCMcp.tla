-------------------------------- MODULE MCMcp --------------------------------
(***************************************************************************)
(* State machines of mcpcompat checked for safety, side by side: the       *)
(* request context of stateful serving (RequestContext), the session       *)
(* registry and its overlays (SessionRegistry), and calls of the pure      *)
(* functions of ClientErrors and, for the audit package, Delegation.       *)
(* `part' says which one a behaviour runs, the others stay in an initial   *)
(* state.                                                                  *)
(***************************************************************************)
EXTENDS SessionRegistry, McpContext, Integers, Sequences, SequencesExt, TLC

CONSTANT DefaultMaxDelegationDepth

VARIABLES part, call, reply

ctxVars == <<http, disp, ident, method, sid, left, pending, frozen, sessions, draining, bridged, seen, scope>>
callVars == <<call, reply>>

E == INSTANCE ClientErrors
D == INSTANCE Delegation

\* "a" and "b" are session tools, "r" a resource, "g" a global tool.
MCTool == {"a", "b", "r", "g"}
MCGlobal == {"g"}
MCAddOnly == {"r"}
W(a, b, g, r) == [n \in MCTool |-> CASE n = "a" -> a [] n = "b" -> b [] n = "g" -> g [] n = "r" -> r]

\* Overlays that overlap, replace each other, turn a tool bad and shadow the global one.
MCOverlay == {W("good", "absent", "absent", "good"), W("bad", "good", "absent", "absent"),
              W("good", "good", "good", "absent")}

\* Requests are interchangeable, as threads of the registry too, and so are identities.
Symmetry == Permutations(Req) \cup Permutations(Ident)

-----------------------------------------------------------------------------
(* Calls of the pure functions. *)

Param == {[name |-> "resource_metadata", form |-> "quoted", url |-> "u"],
          [name |-> "realm", form |-> "quoted", url |-> "v"],
          [name |-> "realm", form |-> "unterminated", url |-> ""],
          [name |-> "resource_metadata", form |-> "token", url |-> "w"]}
Challenges == {<<>>} \cup {<<p>> : p \in UNION {[1..n -> Param] : n \in 1..2}}
Response == {[status |-> s, body |-> b, challenges |-> <<>>] :
               s \in {200, 403, 404, 405, 500}, b \in {{}, {"unauthorized"}}}
            \cup {[status |-> 401, body |-> {}, challenges |-> c] : c \in Challenges}
Responses == UNION {[1..n -> Response] : n \in 0..2}
Err == [rpc : {"none", "method not found", "other"},
        says : {{}, {"unauthorized"}, {"404", "session"}, {"legacy"}}]
Event == [valid : BOOLEAN, method : BOOLEAN, id : 0..2]

Hop == [iss : {"absent", "string", "other"}, sub : {"string", "other"}]
Claim == {[kind |-> k, hops |-> <<>>, tail |-> "none"] : k \in {"null", "other"}}
         \cup [kind : {"object"}, hops : UNION {[1..n -> Hop] : n \in 1..3}, tail : {"none", "null", "other"}]

Calls == [op : {"connect", "call"}, responses : Responses, err : Err]
         \cup [op : {"resume"}, status : {200, 404, 503}, json : BOOLEAN,
               events : UNION {[1..n -> Event] : n \in 0..2}, want : 1..2]
         \cup [op : {"delegation"}, raw : Claim, maxDepth : -1..3]

Outcome(c) ==
  CASE c.op = "connect" -> E!mapConnectError(c.err, E!capturedErr(c.responses))
    [] c.op = "call" -> E!mapCallError(c.err, E!capturedErr(c.responses))
    [] c.op = "resume" -> E!resumeCall(c.status, c.json, c.events, c.want)
    [] c.op = "delegation" -> D!ParseDelegationChain(c.raw, c.maxDepth)

NoCall == [op |-> "none"]
Replied(o) == call.op \in o /\ reply # <<>>
Reply == call # NoCall /\ reply = <<>> /\ reply' = <<Outcome(call)>> /\ UNCHANGED call
CallsIdle == call = NoCall /\ reply = <<>>

-----------------------------------------------------------------------------
\* "read" is both wrapped and cacheable; "list" and "call" are one of the two each, and
\* MCMcpLive checks them.
Canonical == \A q \in Req : method'[q] \notin {"list", "call"}

MCInit ==
  /\ X!Init
  /\ \/ part = "context" /\ Init /\ ~known /\ CallsIdle
     \/ part = "registry" /\ Init /\ CallsIdle
     \/ part = "calls" /\ Init /\ ~known /\ call \in Calls /\ reply = <<>>

MCNext ==
  \/ part = "context" /\ X!Next /\ Canonical /\ UNCHANGED <<part, vars, callVars>>
  \/ part = "registry" /\ Next /\ UNCHANGED <<part, ctxVars, callVars>>
  \/ part = "calls" /\ Reply /\ UNCHANGED <<part, vars, ctxVars>>

MCSpec == MCInit /\ [][MCNext]_<<part, vars, ctxVars, callVars>>

-----------------------------------------------------------------------------
(* What a call of the client reports is what its server answered.            *)
(* - It is judged by the first failing response on its context, whatever     *)
(*   later requests on it answered and whatever a body says: a 401 asks for  *)
(*   authorization, a 404 of a request ends the session, any other 4xx of    *)
(*   the handshake means a legacy server, a 5xx means nothing (errorbody.go, *)
(*   captureErrorBody; errors.go, mapConnectError, mapCallError).            *)
(* - An error the application put into a 2xx never asks for authorization    *)
(*   nor ends the session, whatever its text.                                *)
(* - The URL of an authorization error is one the server sent as             *)
(*   resource_metadata on that response (rfc9728.go).                        *)
(* - A resumed call finds its answer behind any number of requests of the    *)
(*   server, whose IDs coincide with its own, and takes none of those for it *)
(*   (resume.go, readRPCResponse).                                           *)
ReportIsTrue ==
  /\ Replied({"connect", "call"}) =>
       LET failing == SelectSeq(call.responses, LAMBDA r : r.status >= 400)
           s == Head(failing).status
       IN /\ failing # <<>> =>
               \/ reply[1].is = CASE s = 401 -> "unauthorized"
                                  [] s \in 400..499 \ {401} /\ call.op = "connect" -> "legacy"
                                  [] s = 404 /\ call.op = "call" -> "terminated"
                                  [] OTHER -> "plain"
               \/ call.op = "call" /\ call.err.rpc = "method not found" /\ reply[1].is = "method not found"
          /\ (failing = <<>> /\ call.err.rpc # "none") => reply[1].is \in {"plain", "method not found"}
          /\ reply[1].url # "" =>
               \E challenge \in Range(Head(failing).challenges) : \E j \in DOMAIN challenge :
                 /\ challenge[j].name = "resource_metadata" /\ challenge[j].url = reply[1].url
                 /\ \A k \in 1..j : challenge[k].form # "unterminated"
  /\ (Replied({"resume"}) /\ call.status = 200 /\ ~call.json) =>
       LET mine == {i \in DOMAIN call.events : call.events[i].valid /\ call.events[i].id = call.want
                                                 /\ ~call.events[i].method}
       IN IF mine = {} THEN reply[1].is = "unanswered" ELSE reply[1].at \in mine

(* Every hop of an `act' claim is either in the chain or counted as omitted, *)
(* the current actor is never the one dropped, and a chain is marked as cut  *)
(* exactly when hops are missing (delegation.go, ParseDelegationChain).  The *)
(* reason recorded is that of the outermost violation, and a claim that      *)
(* asserts a delegation is never recorded as none (flagMalformed, IsZero).   *)
HopsAreAccounted ==
  Replied({"delegation"}) =>
    LET c == reply[1]
        bad == {i \in DOMAIN c.chain : c.chain[i].extra # {}}
    IN /\ call.raw.kind = "object" =>
            /\ Len(c.chain) + c.omitted = Len(call.raw.hops)
            /\ c.truncated <=> c.omitted > 0
            /\ c.chain # <<>> /\ c.chain[1].iss = (call.raw.hops[1].iss = "string")
            /\ bad = {} => (c.malformed <=> call.raw.tail = "other")
       /\ bad # {} => LET first == c.chain[CHOOSE i \in bad : \A j \in bad : i <= j].extra
                      IN c.reason = IF "iss" \in first THEN "iss_not_string" ELSE "sub_not_string"
       /\ D!IsZero(c) <=> call.raw.kind = "null"

=============================================================================
