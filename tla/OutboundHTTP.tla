---------------------------- MODULE OutboundHTTP ----------------------------
(***************************************************************************)
(* networking's guarded HTTP client: HttpClientBuilder (http_client.go),   *)
(* the hops of one request through ValidatingTransport, the dialer's guard *)
(* and the redirect policy, and FetchJSON (fetch.go).  DNS answers and the *)
(* INSECURE_DISABLE_URL_VALIDATION variable may change between hops.       *)
(***************************************************************************)
EXTENDS Naturals, Checks

CONSTANTS Host,  \* name and port
          MaxRedirects

VARIABLES builder,  \* what the caller configured
          client,   \* what Build made of it, "none" before, "failed" on an error
          envVar,   \* INSECURE_DISABLE_URL_VALIDATION is true
          envEver,  \* history: it was true at some moment
          dns,      \* what each name resolves to now
          idleConns,\* the kept-alive connection (bound: the last one) and the address it reached
          original, \* via[0]
          cur,      \* the request about to be sent or just answered
          sent,     \* number of requests sent for this call
          reached,  \* the address the last one went to
          stage,    \* "idle", "send", "answered", "done"
          fetched   \* what FetchJSON returned

httpVars == <<builder, client, envVar, envEver, dns, idleConns, original, cur, sent, reached, stage, fetched>>

URL == [scheme : {"https", "http"}, host : Host]
Name == {h.name : h \in Host}
Builder == [scoped : BOOLEAN, local : BOOLEAN, private : BOOLEAN, http : BOOLEAN,
            token : {"none", "good", "unreadable"}]
Response == {r \in [status : {200, 500}, handler : {"none", "error", "nil"},
                    type : {"json", "+json", "html"}, body : {"whole", "cut"}] :
               r.status = 200 => r.handler = "none"}

Nothing == [is |-> "none"]
Failed == [is |-> "error"]
Data(r) == [is |-> "data", of |-> r]

Init == /\ builder \in Builder /\ (builder.scoped \/ ~builder.local)
        /\ client = [made |-> "none"]
        /\ envVar = FALSE /\ envEver = FALSE /\ dns \in [Name -> {"public", "private"}] /\ idleConns = {}
        /\ original = (CHOOSE u \in URL : TRUE) /\ cur = original
        /\ sent = 0 /\ reached = "none" /\ stage = "idle" /\ fetched = Nothing

\* NewHostScopedClientBuilderWithReader: plain HTTP implies private addresses, never
\* the other way round.
NewHostScopedClientBuilder(b, env) ==
  LET insecure == b.local \/ b.http \/ env
  IN [http |-> insecure, private |-> insecure \/ b.private]

Build ==
  /\ client.made = "none"
  /\ LET flags == IF builder.scoped THEN NewHostScopedClientBuilder(builder, envVar)
                  ELSE [http |-> builder.http, private |-> builder.private]
     IN client' = IF builder.token = "unreadable" THEN [made |-> "failed"]
                  ELSE [made |-> "ok", http |-> flags.http,
                        guarded |-> ~flags.private, keepAlive |-> flags.private,
                        token |-> builder.token = "good"]
  /\ UNCHANGED <<builder, envVar, envEver, dns, idleConns, original, cur, sent, reached, stage, fetched>>

\* A CA bundle that cannot be read or parsed.
BuildFailsOnCA ==
  /\ client.made = "none" /\ client' = [made |-> "failed"]
  /\ UNCHANGED <<builder, envVar, envEver, dns, idleConns, original, cur, sent, reached, stage, fetched>>

Do(u) ==
  /\ client.made = "ok" /\ stage \in {"idle", "done"}
  /\ original' = u /\ cur' = u /\ sent' = 0 /\ reached' = "none" /\ stage' = "send" /\ fetched' = Nothing
  /\ UNCHANGED <<builder, client, envVar, envEver, dns, idleConns>>

Finish(outcome) == stage' = "done" /\ fetched' = outcome

\* ValidatingTransport.RoundTrip: the environment is consulted on every request.
RoundTrip(u) == u.scheme = "https" \/ envVar \/ client.http

GuardOriginal(addr) == ~client.guarded \/ sent > 0 \/ addr = "public"

\* protectedDialerControl on the address about to be dialled.
protectedDialerControl(addr) == ~client.guarded \/ addr = "public"

Pooled == {k \in idleConns : k.to = cur}

\* One hop: an idle connection is used as it is, else a new one is dialled.
Send ==
  /\ stage = "send"
  /\ IF ~RoundTrip(cur) THEN Finish(Failed) /\ UNCHANGED <<sent, reached, idleConns>>
     ELSE IF Pooled # {}
       THEN /\ \E k \in Pooled : reached' = k.addr
            /\ sent' = sent + 1 /\ stage' = "answered" /\ UNCHANGED <<fetched, idleConns>>
     ELSE IF ~protectedDialerControl(dns[cur.host.name]) THEN Finish(Failed) /\ UNCHANGED <<sent, reached, idleConns>>
     ELSE /\ reached' = dns[cur.host.name] /\ sent' = sent + 1 /\ stage' = "answered"
          /\ idleConns' = IF client.keepAlive THEN {[to |-> cur, addr |-> dns[cur.host.name]]} ELSE {}
          /\ UNCHANGED fetched
  /\ UNCHANGED <<builder, client, envVar, envEver, dns, original, cur>>

PolicyHostname(u) == /\ sent < MaxRedirects
                     /\ u.host.name = original.host.name
                     /\ original.scheme = "https" => u.scheme = "https"

\* len(via) is the number of requests sent so far; via[0] is the original one.
SameHostRedirectPolicy(u) == /\ sent < MaxRedirects
                             /\ u.host = original.host
                             /\ original.scheme = "https" => u.scheme = "https"

\* Without a token Build leaves http.Client's own policy: a bound on the chain.
Redirect(u) ==
  /\ stage = "answered"
  /\ IF (client.token /\ SameHostRedirectPolicy(u)) \/ (~client.token /\ sent < MaxRedirects)
     THEN cur' = u /\ stage' = "send" /\ UNCHANGED fetched
     ELSE Finish(Failed) /\ UNCHANGED cur
  /\ UNCHANGED <<builder, client, envVar, envEver, dns, idleConns, original, sent, reached>>

JSONType(t) == t \in {"json", "+json"}

\* FetchJSON on the final response: a custom handler that returns nil falls back to an
\* HTTPError; a body over the limit is cut, and a cut document does not parse.
FetchJSON(r) ==
  FirstOf(<< <<r.status # 200, Failed>>, <<~JSONType(r.type), Failed>>,
             <<r.body # "whole", Failed>> >>, Data(r))

Answer(r) ==
  /\ stage = "answered" /\ Finish(FetchJSON(r))
  /\ UNCHANGED <<builder, client, envVar, envEver, dns, idleConns, original, cur, sent, reached>>

NetworkError ==
  /\ stage \in {"send", "answered"} /\ Finish(Failed)
  /\ UNCHANGED <<builder, client, envVar, envEver, dns, idleConns, original, cur, sent, reached>>

Rebind(n) == /\ dns' = [dns EXCEPT ![n] = IF @ = "public" THEN "private" ELSE "public"]
             /\ UNCHANGED <<builder, client, envVar, envEver, idleConns, original, cur, sent, reached, stage, fetched>>

Setenv == /\ envVar' = ~envVar /\ envEver' = TRUE
          /\ UNCHANGED <<builder, client, dns, idleConns, original, cur, sent, reached, stage, fetched>>

Next == \/ Build \/ BuildFailsOnCA \/ Send \/ NetworkError \/ Setenv
        \/ \E u \in URL : Do(u) \/ Redirect(u)
        \/ \E r \in Response : Answer(r)
        \/ \E n \in Name : Rebind(n)

Spec == Init /\ [][Next]_httpVars

-----------------------------------------------------------------------------

OnTheWire == stage = "answered"

\* What the caller opened: a host-scoped builder opens both for a loopback host and
\* when the environment variable is set.
PlainHTTPOpened == builder.http \/ envEver \/ (builder.scoped /\ builder.local)
PrivateOpened == builder.private \/ (builder.scoped /\ (builder.http \/ builder.local \/ envEver))

\* No hop reaches a private address or goes over plain HTTP unless the caller opened that: not
\* the first, not a redirect's, not after the name resolves to something else; allowing private
\* addresses does not allow plain HTTP (networking/http_client.go, protectedDialerControl).
HopsStayGuarded ==
  OnTheWire => /\ PrivateOpened \/ reached = "public"
               /\ PlainHTTPOpened \/ cur.scheme = "https"

\* A request that carries the bearer token goes to the host and port the caller named, and over
\* https when the call was made over https, even in a client that allows plain HTTP
\* (networking/http_client.go, SameHostRedirectPolicy).
TokenStaysOnHost ==
  (OnTheWire /\ client.token) => /\ cur.host = original.host
                                 /\ original.scheme = "https" => cur.scheme = "https"

=============================================================================
