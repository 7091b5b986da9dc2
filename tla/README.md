# A TLA+ development of toolhive-core

`toolhive-core` is a set of Go libraries. The concurrent and distributed part is
`mcpcompat`, a compatibility layer that gives the API of mcp-go on top of the go-sdk:
its server keeps MCP sessions on several replicas that share nothing but a session
store, its client multiplexes calls over one session. Around it lie `authn` (token
validation against a rotating key set), `oci` and `container` (a local artifact store,
signing, verification), `networking`, and a number of smaller libraries. The modules
here model the parts that have state over time or an algorithm worth stating twice.

- [Files](#files)
- [Inventory](#inventory)
- [The modules](#the-modules)
- [Runs](#runs)
- [Fairness](#fairness)
- [Findings](#findings)
- [Proofs](#proofs)
- [What is only model-checked](#what-is-only-model-checked)
- [Not modelled](#not-modelled)
- [Plan](#plan)

## Files

| Module | Models | Sources |
| --- | --- | --- |
| `SessionRouting` | routing, rehydration, termination and DELETE of sessions on several replicas | `mcpcompat/server`: `transports.go`, `session.go`, `server.go`, `callgate.go` |
| `KeepAlive` | the response writer of a GET stream and its ticker goroutine | `mcpcompat/server`: `keepalive.go`, `transports.go` |
| `RequestContext` | the values and the session a handler sees, stateful and stateless | `mcpcompat/server`: `server.go`, `session.go`, `transports.go` |
| `SessionRegistry` | the registry entry of one session, its overlays, hook and drain goroutine | `mcpcompat/server`: `session.go`, `server.go`, `hooks.go`, `transports.go` |
| `ToolView` | abstract specification: what `SetSessionTools` promises a client | refined by `SessionRegistry` |
| `Client` | the client's session under concurrent calls, resume, connection watch | `mcpcompat/client`: `client.go`, `resume.go`, `transport/streamable_http.go` |
| `ClientErrors` | captured responses, sentinels, the 401 challenge, the answer of a resumed call | `mcpcompat/client`: `errorbody.go`, `errors.go`, `rfc9728.go`, `resume.go` |
| `Delegation` | the delegation chain of a token | `audit/delegation.go` |
| `KeyResolution` | provider, cached JWKS, staleness, serialised refresh, negative cache | `authn`: `validate.go`, `authn.go` |
| `ValidatorInit` | construction and discovery with retries | `authn`: `authn.go`, `discovery.go` |
| `LimitedBody` | a reader that tells a whole body from a cut one | `authn/authn.go` |
| `TokenPolicy` | configuration, order of checks, reasons, eligible keys | `authn`: `authn.go`, `validate.go`, `errors.go`, `keyprovider.go` |
| `Ports` | probing and binding of ports next to other processes | `networking/port.go` |
| `OutboundHTTP` | the guarded client: builder, dialer, redirects, `FetchJSON` | `networking`: `http_client.go`, `fetch.go` |
| `Telemetry` | selection, construction and shutdown of the providers | `telemetry/providers` |
| `Recovery` | the panic middleware | `recovery` |
| `CelEngine` | the shared environment and the stages of `Compile` and `Check` | `cel`: `engine.go`, `errors.go` |
| `PostgresPool` | the configuration of a pool and the password of each connection | `postgres`: `pool.go`, `config.go`, `auth.go`, `awsiam.go` |
| `ArtifactStore` | the local stores with `Package`, `Push` and `Pull` as clients | `oci/skills` and `oci/plugins`: `store.go`, `registry.go`, `packager.go` |
| `Packaging` | from a directory to the manifests of an artifact, and back | `oci/artifact`, the two packagers |
| `Signing` | overlapping calls of `SignOCI` and the signature image | `container/signer` |
| `Verification` | how a layer is written and read back, identities, provenance | `container/verifier`, `container/signer/cosign_attach.go` |
| `Checks` | `FirstOf`: a Go cascade of `if … return` | |
| `McpStreams`, `McpContext` | `KeepAlive` and `Client`, and `RequestContext`, side by side | |
| `Validator` | `ValidatorInit`, `LimitedBody` and the calls of `TokenPolicy`, side by side | |
| `Networking`, `Services` | `Ports` and `OutboundHTTP`; `Telemetry`, `Recovery`, `CelEngine` and `PostgresPool` | |
| `SignedArtifact` | `Signing`, to stand beside `ArtifactStore` | |
| `Verifier` | `Verification` as what it answers to one call | |

`MC*.tla` and `*.cfg` instantiate them for TLC. Independent components share a run: such
an MC module has a variable `part` that says which of them a behaviour is about, and the
others stay in an initial state, so that their states add up instead of multiplying.
The modules of the last five rows only instantiate: each renames what its components share
and declares their assumptions, and both an MC module and a proof module extend it, so that
the runs and the theorems are about the same definitions. `*Proofs.tla` hold the theorems. `PROJECT.json` has the components, runs, mutants, the map
from definitions to source lines, findings, hazards and theorems.

To check a run: `tlc -config Mcp.cfg MCMcp`. To check the proofs of a module:
`tlapm SessionRegistryProofs.tla`.

## Inventory

For each component: its state, its operations, how it interacts with the others,
what is hard, and what makes it correct.

### mcpcompat/server

**Session routing** (`transports.go`, `session.go`). State per process: the
registry `MCPServer.sessions`, the marker set `localSessions`, the map
`rehydrated` of sessions reconstructed for other replicas, and the go-sdk
handler's own session map. Shared between processes: the store behind the
`SessionIdManager`. Operations: `ServeHTTP` for initialize, a call, and DELETE;
`serveRehydrated`, `rehydrate`, `deleteRehydrated`; `forgetSession`,
`registerAndSync`, `contextWithSession`. The routing decides by the marker, asks
the store, and calls the go-sdk handler, whose middleware calls back into the
registry. Hard: requests of one session interleave at every `sync.Map` operation
and every store call; the store may fail at any of them; sessions are terminated
elsewhere; processes restart. Correct means: one live session per ID and replica,
no reconstructed session out of reach, a terminated session is not served, an
error of the store costs one request and no state.

**Keep-alive writer** (`keepalive.go`). State: a mutex, three flags, a stop channel.
Two goroutines write to one response. Correct means: comments never split a frame,
never reach an error response or a finished one, and the goroutine ends.

**Denial gate** (`callgate.go`). Stateless; runs before any session state is touched.

**Request context bridge** (`server.go`). A map from a per-request nonce to the
request's context, read by the session goroutine. Hard: a notification is
acknowledged before it is dispatched, so the entry may be gone. Correct means: a
handler sees its own request's values or none, and no entry is left behind.

**Ephemeral sessions** (`session.go`, stateless mode). Correct means: two requests
never share a client session, and each one's drain goroutine ends.

**Registry and overlays** (`session.go`). State per session: tools, resources,
templates, prompts, the bound go-sdk server, a once-guard for the registration
hook, a drain goroutine. `SetSession*` and `registerAndSync` reconcile the overlay
onto the bound server. Hard: the entry can be dropped and re-created, the server
can be replaced, both while a hook is setting tools. Correct means: the tools a
client sees are the global ones and the last overlay set, the hook fires once, no
goroutine is left.

**Dispatch, hooks, handlers** (`server.go`, `hooks.go`, `request_handler.go`,
`notifications.go`, `elicitation.go`, `sampling.go`). Mostly conversion between two
sets of types; the order of binding, hooks, handling and registration matters and
is part of `SessionRouting`, `RequestContext` and `SessionRegistry`.

**SSE and stdio servers**. Delegation to go-sdk.

### mcpcompat/client

**Lifecycle** (`client.go`, `resume.go`). State: the go-sdk session, the preset
session ID, the connection-lost handler and whether its watch was started. Calls
choose between the session and a raw resume. Hard: `Close`, `Initialize` and calls
race, and the ID outlives the session. Correct means: no connection is left open
behind the client's back, no call waits forever, and a loss is told once.

**Errors** (`errors.go`, `errorbody.go`, `rfc9728.go`). Classification by status and text.

### authn

**Key resolution** (`validate.go`, `keyprovider.go`). State: the cached key set, the
times of the last refresh and the last success, a bounded negative cache. Hard:
validations race with each other, with key rotation and with a failing issuer.
Correct means: a rotated key is accepted after a bounded time, a failing issuer is
reported as unavailable and not as an invalid token, at most one fetch per floor.

**Validation, construction, discovery** (`validate.go`, `authn.go`, `discovery.go`).
An ordered list of checks with one error code each; a retry loop; a body limit
whose boundary is delicate (`limitedBody`).

### networking

**Ports** (`port.go`): probing and binding; the probing variants have a documented
race, the listener variants close it. **HTTP client** (`http_client.go`, `fetch.go`):
a redirect policy over a chain of hops, a capped body.

### oci

**Store** (`skills/store.go`, `plugins/store.go`). State on disk: tags, manifests,
blobs shared between builds. Hard: deletion by reference check without a lock,
interruption between two deletions, blobs shared by builds with different digests.
Correct means: what a tag reaches is complete. **Packager, registry, artifact**:
sequential construction within limits, push and pull; what comes out is exactly the
directory, or an error.

### container

**Signer** (`signer.go`, `cosign_attach.go`). Reads, extends and pushes a signature
manifest; two signers race. A goroutine signs while the caller may be cancelled.
Correct means: a report is true, a signature stays, a cancelled call returns.
**Verifier**: a cascade of places and policies; what was signed is found, what is
accepted matches. **Images**: sequential use of libraries.

### The rest

**Recovery**: a middleware with four outcomes; an aborted response must stay as it is.
**cel**: an environment made once for concurrent callers. **postgres**: tokens that expire
while a pool lives. **telemetry**: several exporters built in order, any of which may
fail. **audit**: a nested claim made flat and cut at a depth. `redis`, `registry`,
`permissions`, `config`, `env`, `httperr`, `logging`, `validation`: configuration, data types
or short sequential helpers. Mocks are generated.

## The modules

### SessionRouting

Each request is a process that takes the steps of `ServeHTTP`. A step is one access
to state that another request can reach: one `sync.Map` operation, one critical
section of `rehydratedMu`, one call of the manager or of the go-sdk handler.

| Variable | In the code |
| --- | --- |
| `store` | what `Validate` would say of an ID: never generated, valid, terminated (external) |
| `known` | IDs a client has received in an initialize response |
| `handler[r]` | the go-sdk handler's session map (external) |
| `sessions[r]`, `local[r]` | `MCPServer.sessions`, `MCPServer.localSessions` |
| `rehydrated[r][s]` | `StreamableHTTPServer.rehydrated`; a session is named by the request that connected it |
| `open` | reconstructed go-sdk sessions that are connected |
| `pc`, `rq`, `held`, `status` | a request's position, kind, target, session in hand and answer |

`rq` also records two facts about the moment of arrival that only the properties
read: whether the session was already terminated (`late`) and whether the replica
had it (`seen`).

| Action | In the code |
| --- | --- |
| `Arrive`, `Deny` | `ServeHTTP` up to the gate |
| `Create`, `CreateFails`, `InitRejected`, `Respond` | initialize in the go-sdk handler, with `buildServer` and the middleware |
| `Dispatch`, `DispatchClosed` | the middleware binds the registry entry |
| `Register`, `Mark` | `registerAndSync`, its two writes that other requests see |
| `Route`, `Recheck`, `ValidateLocal`, `HandlerLookup` | the two `isLocalSession` checks, validation, the local handler |
| `Forget1`, `Forget2` | `forgetSession`, its two deletions |
| `Drop`, `Close` | `deleteRehydrated`, under the lock and after it |
| `SdkDelete`, `Terminate` | DELETE in the handler, then in the store |
| `ValidateRemote`, `ValidateError`, `GetRehydrated` | `serveRehydrated` |
| `RehydrateHit`, `Rehydrate`, `RehydrateFails` | `rehydrate`, one critical section |
| `ServeRehydrated`, `ServeClosed` | the reconstructed session's transport |
| `TerminateInStore`, `SdkCloseLocal`, `SdkCloseRehydrated`, `Restart` | the environment |

The store may answer any validation with an error, and may refuse any `Terminate`.
The go-sdk may close any of its sessions at any time without telling the server,
which is the known gap of `server.go:197`. A restart clears a replica's maps and
cuts its requests off.

Abstracted: the contents of a client session (`SessionRegistry` has them), GET requests
(they take the route of a call and dispatch nothing), the answer's text. A request
without a session ID other than initialize is refused by the go-sdk and touches
nothing. Not modelled: a server without a `SessionIdManager` and the stateless
mode, in both of which `ServeHTTP` hands every request to the handler.

Properties:

- `NoSplitBrainWithoutDelete`: the handler's session and a reconstructed one never live
  side by side under one ID on one replica, unless a DELETE ran there.
- `NoOrphanSession`: a connected reconstructed session is cached, or a request is about
  to close it.
- `RehydratedNeverServesTerminated`: a request that arrives after the termination is not
  served by a reconstructed session and does not connect one.
- `NotFoundIsGenuine`: a replica that had the session answers 404 only if it was
  terminated or deleted, or the SDK lost it.

### KeepAlive

One writer, the goroutine of the handler (`Main`) and the goroutines `go k.run()` can
start. A call of the underlying writer lasts from `Lock` to the action that releases
`mu`, so that two overlapping calls would be a state. `Panic` is a panic of the
underlying writer inside any of the three methods: the deferred `Unlock` runs and the
deferred `stopKeepAlive` follows. The handler is taken to set its content type before
it sends anything, and to send a second `WriteHeader` only with status 200.

Fairness (`FairSpec`): a runnable goroutine runs, calls of the underlying writer return
or panic, and each acquisition of `mu` is strongly fair, which `sync.Mutex` gives by
its starvation mode. Neither the handler's return nor a tick is assumed to happen.
`TeardownCompletes` fails when `StopLock` is only weakly fair: the ticker may release and
take `mu` again forever. For the other two acquisitions weak fairness would do.

`NoWriteAfterReturn`: nothing is written to the response once `ServeHTTP` has returned.
`TeardownCompletes`: a stop that began returns, and the ticker goroutine ends.

### RequestContext

A request has two threads: the goroutine of `ServeHTTP` (`http`) and the go-sdk session
goroutine that dispatches its message (`disp`). `pending` is `pendingReqCtx`, keyed by a
nonce that stands for the request; `frozen` is what the context of a session carries from
the request that created it; `bound`, `seen` and `scope` are what the handler gets: its
client session, the identity it reads, the cache scope of its result. `Stateless` selects
the mode, `LegacyIds` the go-sdk's compatibility switch under which stateless sessions
keep their IDs. Actions: `Arrive`, `Denied`, `setPendingRequestContext`, `Publish`,
`Disconnect`, `Answered`, `clearPendingRequestContext` on the HTTP side;
`bindSessionForDispatch`, `Bridge`, `Handle`, `Handled`, `Finish` on the other. The client
may go away at any time.

`CallSeesOwnValues`: a handler reads the identity of its own request. Where it does not, it
reads the one its session was initialized with, never that of a third request, and then its
request had none, is a notification, or was left by its client. `EventuallyClean` (stateless):
the stored context and the drain goroutine of a dispatched message are gone for good in
the end.

### SessionRegistry and ToolView

One session ID on one replica; a request is a thread, and a step one `sync.Map` operation,
one critical section, one atomic access. State: the map's `entry`, the `clientSession`s
ever made with their drain goroutines, once-guards, bound servers and overlays, the go-sdk
servers with the names each serves, the local or rehydrated session, `rehydratedMu`.
`sessionFor` is `Load`, `newClientSession` and `LoadOrStore`; `registerAndSync` is `Bind`,
`MarkLocal`, `Once`, the hook (`HookQuiet` or `SetSessionTools`, then `LoadBound` and `Sync`) and
`FinalSync`; DELETE is `Drop`, `LoadAndDelete`, `forgetSession`, `Terminate`. A reconciliation
holds `cs.mu` and is not one step, as `tools/list` takes no lock: `Sync` or `FinalSync` begins it,
each `addSessionTool` is one `AddTool` of the go-sdk, and `RemoveTools` takes away at once what the
overlay no longer has, and unlocks. A name in an overlay is absent, good or bad (one the
go-sdk refuses), global tools can be shadowed, and resources, templates and prompts
(`AddOnly`), which are reconciled under the read lock, are added but never removed.

`ToolView` is what `SetSessionTools` promises to a client that may list the tools at any moment:
the session tools it is shown are one overlay as a whole, the one stored last when they were
reconciled. During a reconciliation those of the new one come one by one, and none of the old
one goes before they are all there. Its actions are `Connect`, `Store`, `Begin`, `Add`, `Settle` and
`Close`. `ImplementsToolView` is the refinement: `overlay` is the one stored on the entry's
`clientSession`, `view` what the session's server serves beyond the global tools, `phase` whether
there is a server and whether its tools are being reconciled. A DELETE ends the session and
with it the promise, so from then on the mapping shows no server and an empty view.

- `OverlayApplied`: when no request is under way, the current server serves the overlay
  that is stored and, beyond the global names and what is only ever added, nothing else,
  in whatever order hooks, final syncs and bindings ran.
- `OneClientSession`: until a DELETE, all requests of a session work on one `clientSession`
  with one drain goroutine, and the hook fires once; the registry never hands out one
  whose channel is closed.

### Client and ClientErrors

`Client`: goroutines call `Initialize`, `Close`, the request methods and `OnConnectionLost` of
one client; `mu` is `c.mu`, held through the handshake and through the close, and taken
twice for a moment by a request (`isResume`, `sessionFor`). The steps a goroutine takes itself
(`Step`) are told from those that wait for the server. The connection may be lost at any
moment (`Lose`) and a watch goroutine then tells the handler (`Notify`). `NoOrphan`: a
connection that is up is the client's session, so that `Close` reaches it. `LossIsReported`:
once a registration is through, the loss of the first connection reaches the handler.
`ClientCallsReturn`: a call returns, or is held up by the server: it waits for its own answer,
or for `c.mu` whose holder is in its handshake or teardown.

`ClientErrors` are pure functions over a call's responses: what `captureErrorBody` keeps, what
the mapping makes of the go-sdk's error and the captured response, the challenge of a 401,
which event answers a resumed call. `ReportIsTrue` compares them with the definition of the
outcome over the whole sequence of responses.

### Delegation

`ParseDelegationChain` and `countRemainingHops` as folds over the nested claim.
`HopsAreAccounted`: the hops kept and those counted as omitted add up to those in the claim.

### KeyResolution, ValidatorInit, LimitedBody, TokenPolicy

`KeyResolution`: a caller is one `Validate`. A step is one critical section of `refreshMu` or
`negativeMu`, one lookup in the jwx cache, one call of the provider; `refreshMu` stays held
during a fetch. Time passes in ticks between any two steps. The issuer rotates its keys,
fetches fail, the jwx cache refreshes in the background, the validator is closed. The answer
of a fetch may be up to `FetchTime` old when it comes in, and success is dated then.

- `RevocationBound`: with a staleness bound, no call accepts a JWKS key that the issuer had
  withdrawn more than the bound and the time of one fetch before the call began.
- `UnknownIsTrue`: a kid enters the negative cache only after a fetch made during the call
  did not find it, and one that stays fit in the cached set is never called unknown.
- `OneFetchPerFloor`: callers that miss together cause one fetch; attempts are a floor apart.
- `NeverStuck`: a call under way can always go on, or waits for `refreshMu` while another
  call fetches.

`ValidatorInit`: discovery with its retries, then the cache, the registration, the first fetch
(`Refresh`, `Lookup`, `Settle`) next to that of the cache itself (`BackgroundFetch`), with and without
a `KeyProvider`. `FailsClosed`: a validator without a provider has keys that are dated, a refused
document is fatal, a failed construction leaves nothing running, and keys are dated exactly
when the construction's own fetch and lookup succeeded: not by the background fetch.
`LimitedBody`: reads of any size against a body around the cap. `BodyIsExact`: the end of
the body and the limit are told apart, at the boundary too. `TokenPolicy`: the checks of
`Validate` in their order over every token of a small set. `AcceptIffPolicy`: it accepts
exactly what the policy, stated without the order, allows. `ReasonIsTrue`: the reason given
is true of the token. `KeysAreEligible`: the keys a token is tried with are those of its
kid that are published for its algorithm, and a provider's keys are judged like a JWKS's.

### Ports, OutboundHTTP, Telemetry, Recovery, CelEngine, PostgresPool

`Ports`: callers probe and bind next to other processes that bind and release ports in
between; the system may refuse a port. `PortAnswersAreTrue`: "no port" is said only when each
was held or refused at some moment of the call, another port than the requested one is given
only when that one was, no probe leaves its socket behind, and a returned listener is
still the caller's. `OutboundHTTP`: the hops of one request, while DNS answers and the
environment variable change. `HopsStayGuarded`: no hop reaches a private address or plain
HTTP unless the caller opened that. `TokenStaysOnHost`: the bearer token is not sent to
another host, port or to plain HTTP. `Telemetry`: providers are built in order and any may
fail, and so may each shutdown. `ShutdownAccountsForAll`: when `Shutdown` returns, whatever still
runs belongs to a function that was called and whose error is returned; nil means that nothing
runs. `Recovery`: `AbortedIsUntouched`. `CelEngine`: `CallersAgree`, for callers that share an
engine. `PostgresPool`: connections are opened long after the pool, several at a time.
`TokensNeverExpire`: none is refused for an expired token.

### ArtifactStore and Packaging

`ArtifactStore`: two actors package, pull, push, tag, untag and delete builds; a build is an
index over manifests, each over a config and a shared layer. One module stands for both
packages; `world.mutex` says which. `world` also chooses the builds, the digests that are tagged
(`targets`: indexes, plain manifests), the operations and whether calls fail half way.
`RemoteIsComplete`: what a tag of the registry names is there to the last blob.
`DeletionIsExact`: among `Tag`, `DeleteTag`, `DeleteBuild` and `Push`, a deletion that ran to its end
left nothing of what it deleted, with or without the mutex; and under the mutex, without
faults and when the digests that are tagged share no blob, none takes a blob from a tag. The
conditions are the code's: `isDigestReferenced` looks for the digest itself, so that a tag of a
manifest below a deleted index loses its blobs, and `oci/skills` has no mutex.

`Packaging`: the walk, its limits, tar and gzip, the labels, the manifests, the validating
target. `PackageIsExact`: a package is a function of its directory and options, whatever
order Go iterates a map in; its layer holds every visible file and nothing else but a
plugin's manifest and `.mcp.json`, its files label lists what extraction yields, and it carries
one timestamp throughout (a skill only when it is given one). What could be packaged can be
extracted: for plugins that is what `maxPluginTotalSize` is for (`LimitsAssumption`), for skills it
holds while `SKILL.md`, which the limits do not count, fits beside the rest. The labels with
the component inventory and with `requires` are not modelled.
`TakenInIsGenuine`: extraction refuses exactly the paths that leave the root by their slashes or
double a backslash, a platform's string parses back to it, and a blob
reaches the store only when its content has the digest and its real size is in the limits.

### Signing and Verification

`Signing`: two calls of `SignOCI` for one artifact, each with a key or keyless, and layers of
other tools. The signature image is read, extended and written whole. A keyless call starts
a worker; Fulcio and Rekor answer, refuse, panic or never answer, and the context may be
cancelled. `ReportedIsAttached`: a returned bundle was attached and is this signer's, a call
that failed attached nothing unless the registry's answer got lost. `CancelledReturns`.

`Verification`: a layer as written and as read back, the places a bundle is looked for,
the policy for an identity and for provenance. `SignedIsFound`: what the signer writes reads
back as the same material but for the inclusion proof, which annotations cannot carry, or is
refused; the bundles found of an image are exactly its well-formed layers or, when it has
none, its attested referrers. A manifest or a list that cannot be read counts as an empty
one. `VerifiedIsMatched`: a recorded
identity admits exactly the certificates of its issuer and name, and a constraint of a
server's provenance is never met by a result that lacks what it is about.

## Runs

| Run | Instance | Distinct states | Properties |
| --- | --- | --- | --- |
| `session_routing` | 2 replicas, 1 session, 3 requests, 1 restart | 67,488 | the four of `SessionRouting` |
| `mcp` | 3 stateful requests of 2 identities on 1 session; 3 threads on a registry entry with 4 names, 3 overlays, 2 client sessions, 2 servers; calls with up to 2 responses and 2 events; claims of up to 3 hops, default depth 2 | 528,847 | `CallSeesOwnValues`, `OverlayApplied`, `OneClientSession`, `ReportIsTrue`, `HopsAreAccounted`, `ImplementsToolView` |
| `mcp_live` | 2 tickers; 2 stateless requests; a client with 2 goroutines, 2 sessions, 4 calls | 39,615 | `NoWriteAfterReturn`, `NoOrphan`, and liveness: `TeardownCompletes`, `EventuallyClean`, `LossIsReported`, `ClientCallsReturn` |
| `authn` | 2 callers, 2 kids, floor 1, TTL 2, negative cache of 1, staleness 1, fetch time 1, time up to 6, 1 rotation; 3 discovery attempts; cap 3, bodies up to 5, reads up to 4; every token of a small set | 1,153,257 | the nine of the `authn` modules |
| `infra` | 2 port callers, ports up to 4, 1 bind or release by others; 3 hosts, 3 redirects; 3 CEL users; 2 connections, token TTL 2, time up to 5 | 581,844 | the seven of the modules of that section |
| `artifacts` | 2 actors, 2 tags, 1 or 2 builds, tagged by their indexes or manifests, 3 to 5 calls; 2 signers, one foreign layer; calls on small sets of layers, images, certificates, provenances, directories, archives | 380,154 | the seven safety properties of those modules, `CancelledReturns` |
| `split_brain`, `notification_values`, `tracing_disabled`, `pulled`, `recorded_identity`, `lost_signature` | as above, one property each | | the findings below |

Counts of the runs with symmetry (`session_routing`, `mcp`, `authn`) are up to symmetry. `authn` takes
about two minutes, the others less.

Why the bounds let the interesting cases happen:

- `session_routing`. One request must create the session. That leaves two concurrent
  requests, on the same or on different replicas, next to terminations and a restart: two
  rehydrations that race, a DELETE against a rehydration, a call that finds what another
  one cached, a restarted replica that rehydrates its own session. Sessions do not
  interact (every map is keyed by the ID, and `rehydratedMu`, which spans IDs, is one step),
  so one ID is used; the theorems hold for any number. Requests and replicas are
  interchangeable, hence the symmetry.
- `mcp`. Three requests are the initialize whose values are frozen on the session and two
  more that overlap. Three threads are the creating request and two hooks, or one hook and
  a DELETE. The overlays overlap, replace each other, turn a tool bad and shadow the global
  one, so that a mixture of two would be visible. Two client sessions and two servers let
  the entry be dropped and made again once.
- `mcp_live`. The handler calls the writer as often as it likes; the second ticker is there
  only to be started by mistake. The two stateless requests are made canonical instead of
  declared symmetric, as symmetry is unsound for liveness. Four calls let a client connect,
  close, connect again and use the second session. As calls are bounded, every behaviour
  ends, and fairness is what makes it end with every call answered.
- `authn`. The clock reaches past a floor, a TTL and a staleness bound that begin after the
  rotation; a negative cache of one entry evicts. Bodies end below, at and above the cap.
- `infra`. The range has a port that only the sequential phase reaches; the redirect
  limit is reached; two names share a host and differ in the port; the clock passes two
  token lifetimes.
- `artifacts`. Two builds of one directory that share blobs; one build, two tags of its index, of
  its manifest, or of each; a push and a pull that overlap a deletion; limits of two files and
  four bytes are met and passed.

Named bounds of the models themselves: `MaxRestarts`, `MaxObj`, `MaxSrv`, `MaxSession`, `MaxCalls`,
`MaxTime`, `MaxRotations`, `MaxForeign`, `MaxClock`, `world.calls`. Requests and threads are
one-shot, so their number bounds the history. Runs in which calls are bounded or the
system may stop set `CHECK_DEADLOCK FALSE`; `NeverStuck` takes the place of the deadlock check
for key resolution.

Each property of a passing run has a mutant: a variant of one mapped definition, defined in
the same module, that makes the mistake the property is about and violates it.

## Fairness

- `KeepAlive`: as above.
- `RequestContext` (stateless): weak fairness of the steps of `ServeHTTP` and of the dispatch.
  Handlers are taken to return; neither an arrival nor a disconnect is assumed.
- `Client`: weak fairness of the steps each caller takes itself and of `Notify`. Nothing is
  assumed of the server: a handshake, a close or a request may wait for it forever. Weak
  fairness of an acquisition of `c.mu` suffices, as the bounded calls cannot keep it taken
  forever.
- `Signing`: weak fairness of each signer's steps. Nothing is assumed of the worker, so that
  Fulcio and Rekor may never answer.

## Findings

Six comments or documents say more than the code does, each with a run whose
counterexample is the scenario; `PROJECT.json` quotes the lines.

1. **Split brain through DELETE** (`split_brain`). DELETE forgets the marker before the
   handler and the store know. A request in that window reconstructs the session, and the
   reconstruction stays cached after the DELETE. `NoSplitBrainWithoutDelete` shows that this
   is the only way.
2. **A notification can see another request's values** (`notification_values`). When the
   deferred clear of `ServeHTTP` runs first, the dispatch keeps the session's context, which
   carries the values of the request that created the session.
3. **Tracing that is disabled still exports** (`tracing_disabled`). With extra span
   processors the OTLP strategy is chosen although `TracingEnabled` is false.
4. **A pulled tag can lose its blobs** (`pulled`). `Pull` tags through `Store.Target` and so
   without the mutex that serialises tagging and deletion.
5. **A recorded identity need not verify** (`recorded_identity`). For some certificates the
   recorded pattern is the repository followed by the whole name, which the certificate
   itself does not match.
6. **A signature can be lost** (`lost_signature`). Two overlapping signers read one signature
   image; the later write drops the earlier one's layer.

Eight further statements are violated and stand in their modules as definitions without a
run of their own. To reproduce the first four, put the name in place of the `INVARIANT` of
`ViolNoSplitBrain.cfg`; for the others run TLC on the module itself with the constants given
and `CHECK_DEADLOCK FALSE`.

| Definition | What happens | Instance |
| --- | --- | --- |
| `TerminatedIsRejected` | the marker is read at `transports.go:437` and again at `:463`; when another request forgets the session in between, neither path validates and the handler serves a terminated session once more | `ViolNoSplitBrain.cfg` |
| `DeleteTerminates` | the result of `Terminate` is dropped (`transports.go:426`), so a DELETE is answered 200 and the session lives | `ViolNoSplitBrain.cfg` |
| `TerminatedIsForgotten` | `serveRehydrated` drops the reconstruction of a terminated session, but not its registry entry | `ViolNoSplitBrain.cfg` |
| `NotFoundOnlyTerminated` | a replica that has not cached the session answers 404 to an error of the store | `ViolNoSplitBrain.cfg` with `Replica = {r1, r2}` |
| `HookFiresOnce` | after a DELETE a late request makes a new entry and fires the hook again (`session.go:317`) | `SessionRegistry`: 3 threads, `Tool = {a}`, `Global`, `Overlay` and `AddOnly` empty, `MaxObj` and `MaxSrv` 2 |
| `ForgottenIsDrained` | the same entry's drain goroutine is never ended (`session.go:535`) | the same |
| `StatelessIsolated` | under the compatibility switch the handler wrapper binds the shared session (`server.go:1066`), which the comment at `server.go:976` excludes | `RequestContext`: 2 requests, 2 identities, 1 session, `Stateless` and `LegacyIds` true |
| `ResumesOnlyPreset` | after `Close` a call resumes the closed session's ID; `resume.go:34` speaks of a preset ID only | `Client`: 1 goroutine, `MaxSession` 1, `MaxCalls` 3 |

## Proofs

All theorems hold for every value of the constants that the named assumptions allow. Each
is proved from an inductive invariant, one lemma per conjunct or layer with one case per
action. The proof modules choose Zenon as their default prover; a leaf that needs
arithmetic or sequences cites the SMT solver.

| Module | About | Theorems that state a property of a run |
| --- | --- | --- |
| `SessionRoutingProofs` | `SessionRouting` | `NoOrphans`, `SplitBrainNeedsDelete`, `LazyEviction`, `NotFoundHolds` |
| `SessionRegistryProofs` | `SessionRegistry`, `ToolView` | `Implements`, `OneClientSessionHolds`, `OverlayIsApplied` |
| `McpProofs` | `McpStreams`, `McpContext` | `QuietAfterReturn`, `NoOrphanHolds`, `OwnValues` |
| `KeyResolutionProofs` | `KeyResolution` | `RevocationBounded`, `UnknownHolds`, `FetchesAreSpaced` |
| `ValidatorProofs` | `Validator` | `ConstructionFailsClosed`, `BodyIsToldApart`, `AcceptanceIsThePolicy`, `ReasonsAreTrue` |
| `InfraProofs` | `Networking`, `Services` | `PortAnswersHold`, `HopsAreGuarded`, `TokenIsOnHost`, `ShutdownAccounts`, `AbortedStaysUntouched`, `CelCallersAgree`, `TokensStayFresh` |
| `StoreProofs` | `ArtifactStore` | `RegistryIsComplete`, `DeletionHolds` |
| `SigningProofs` | `SignedArtifact`, `Verifier` | `ReportsAreTrue`, `SignaturesAreFound`, `VerificationMatches` |

### Assumptions

| Assumption | Says | Why the code justifies it |
| --- | --- | --- |
| `NoneAssumption`, `TickerAssumption`, `ActorAssumption`, `ModeAssumption`, parts of `ClientAssumption`, `PortsAssumption`, `CelAssumption` | special values are no sessions, goroutines, callers; modes are Booleans | representation only |
| `ConfigAssumption` (`SessionRegistry`) | global and add-only names are names; an overlay maps each name to absent, good or bad | types |
| `ConfigAssumption` (`KeyResolution`) | the floor, the TTL, the entries, the staleness and the time of a fetch are natural numbers, TTL and entries positive | constants of `validate.go`; `Config.validate` refuses a negative staleness; a fetch has a timeout |
| `PortsAssumption` | the range is not empty and begins above 0 | constants of `port.go` |
| `PostgresAssumption` | a token lives for some time | RDS tokens live for 15 minutes |
| `BodyAssumption`, `CallsAssumption` | sizes are natural numbers; a token is given to a validator whose configuration was accepted and filled in | `NewValidator` is the only constructor |
| `WorldAssumption` | digests of indexes, manifests, configs and layers differ, a manifest's digest determines its content, an index names a manifest once, tags are of indexes and manifests | content addressing; the packagers make one manifest per platform they are given |
| `LimitsAssumption` (TLC only) | the largest package, with its headers and manifest, can be extracted | 95 MB, the headers of 1001 files and 64 kB, against 100 MB |
| `VerifierAssumption` | the arguments of a call to the verifier are of their types | types |
| `ForeignAssumption` | layers other tools append do not verify as one of the signers' | they hold neither the keys nor a certificate for the identities |

That an index names a manifest once was found to be needed by the proof of `DeletionHolds`:
a deletion would fetch such a manifest again after it removed it, and fail. The packagers
make such an index only when their options name a platform twice, which they do not check.

### SessionRoutingProofs

`TypeCorrect`, `NoOrphans`, `SplitBrainNeedsDelete`, `LazyEviction`, `RegistryKept`,
`BookkeepingKept` and `NotFoundHolds`, for any sets of replicas, sessions and requests and any
number of restarts. The invariant `Inv` adds to the properties, layer by layer:

- `RequestInv`: which positions a request of each kind can be at, and that a request
  other than initialize names an ID some client has received;
- `FreshInv`: an ID that was never generated appears nowhere, so `Create` meets no
  trace of its ID;
- `InstanceInv`: a reconstructed session belongs to the replica and ID it is cached
  under and to those of every request that holds it. With it, `NoOrphanSession` is
  inductive: `Rehydrate` finds the place empty, so it displaces nothing, and a
  session leaves its place only into the hands of the request that will close it;
- `DropInv`: a request other than DELETE is in `forgetSession` or `deleteRehydrated`
  only for a terminated session. `OnlyTerminationDrops` follows;
- `MarkerInv`: a live session of the handler whose ID is known is marked local, or is
  terminated, or a DELETE on that replica has forgotten it. It holds because the
  marker is set before the response leaves (`RespondMarked`) and because only the
  replica that answers an initialize has its session (`HomeInv`);
- `DetourInv`: hence a request reaches `rvalidate` for a live session only if it is
  gone, and passes `Validate` only if a DELETE has forgotten it. This is what
  `NoSplitBrainWithoutDelete` needs of `Rehydrate`;
- `StatusInv`, `LateInv`: there is no answer before the end, and a request that
  arrived after the termination never passes `Validate`, since a termination is final;
- `RegisterInv`: when the marker is set, the registry entry is there, or was taken by
  a DELETE or a termination.

`Progress` and `Stable` collect what no step takes back (a termination, a DELETE that
has forgotten, who a request is). For the 404 answers there are also `IssuedInv` (an ID is
given to one initialize, and no client knows it before the answer), `MarkedInv` (what routing
took for local keeps its marker, or there is an excuse: a termination, or a DELETE there) and
`SeenInv` (what `seen` recorded is still there, or there is one). With them `NotFoundIsGenuine`
is inductive.

### SessionRegistryProofs

`Implements`: `Spec => ImplementsToolView`, the refinement; `OneClientSessionHolds`;
`OverlayIsApplied`. The invariant has to say why a session has one server and one
`clientSession` until a DELETE: initialize, or the first rehydration under `rehydratedMu`, is
alone until the entry is there (`SoloInv`), so that no second request can create another. Given
that, `ViewInv` is about reconciliations: where they go to (`AimInv`), that whoever has `cs.mu` to
reconcile tools is alone (`LockInv`), that the overlay does not change meanwhile and what was
added of it is served (`AddInv`), and that what the client is shown is in `sdkToolNames` or in the
overlay that is being reconciled (`RecordInv`), so that `RemoveTools` leaves exactly the overlay.
Hence each `Sync` of tools is an abstract `Begin`, each `addSessionTool` an `Add`, each `RemoveTools` a
`Settle`, each `SetSessionTools` a `Store`, each first server a `Connect`, the first step of a DELETE
a `Close`; the rest stutter. `DrainInv` says that whoever closes a channel has
taken the entry out before, and that a `clientSession` not yet stored is known to its creator
alone; `OnceInv` that the guard is taken with the first firing.

`OverlayIsApplied` is about what is still to be reconciled. `BoundInv`: from `Bind` on the entry's
server is the session's. `StartedInv`: the server begins without an overlay, and the entry is
made by its first request. `AppliedInv`: what is stored of a kind (tools, or what is only ever
added) is served and nothing else of it, or a `SetSession*` call that has stored such an overlay
has yet to finish reconciling it. A reconciliation reads the overlay under `cs.mu`, so whichever
comes last applies the last one stored.

### McpProofs

The writer of a GET stream: `WriterTypes`, `FramesStayWhole`, `QuietAfterReturn`, `SingleTicker`,
`StreamOnly`, for any set of goroutines. The invariant says who holds `mu` (`WriterMutex`), that
goroutines are started only under `streaming` (`StartInv`), that `stopped` is set exactly when
`ServeHTTP` has returned and never while a comment is written (`StopInv`), and what a started
ticker implies of the response (`ResponseInv`).

The client: `NoOrphanHolds`, `AdoptsServerIDHolds`, `ToldOnceHolds`, for any number of goroutines,
sessions and calls. `ClientMutex`: `c.mu` is held from the check of `c.session` through the
handshake, and from the read in `Close` through the close, so that a connection comes up only
where there was none; `WatchInv`: there is one watch goroutine in the life of a client,
waiting on one session or through.

The request context: `OwnValues` (`CallSeesOwnValues`), `Clean` (`NothingLeftBehind`), and for
stateless serving without the compatibility switch `StatelessSharesNothing`
(`StatelessIsolated`) and `StatelessOwnValues` (`OwnValuesOrNone`: there even a notification reads
its own values). The invariant adds that one request initializes a session and no other is on
it before that one is dispatched (`IdInv`), how the two threads of a request stand to each
other (`ThreadInv`) and what a dispatch has bound at each point (`DispatchInv`).

### KeyResolutionProofs

`RevocationBounded`, `UnknownHolds`, `FetchesAreSpaced`, for any number of callers and kids and
any floor, TTL, bounds, fetch time and rotations. The invariant: nothing is dated in the future
(`ClockInv`); a fetch holds `refreshMu` and began a floor after the last (`FetchInv`); the cached
set is the published one, or the issuer gave it up no more than a fetch before `lastSuccess`
(`CacheInv`); past the freshness
check `lastSuccess` lies within the bound of the call's begin (`FreshInv`). `RevocationBound`
follows from the last two. `MissedInv` and `CachedInv` relate what `refreshOnce` told a caller to
what the fetch saw.

### ValidatorProofs

`ConstructionFailsClosed`: nothing is settled or dated before the end, nothing fetched before the
cache is registered, the error of the fetch is known when it is settled and nil only with keys
in the cache, and the URL is unset
while discovery looks for it (`ConstructionInv`). `BodyIsToldApart`: until the limit is hit, what
was taken of the body has been handed on, and never more than the cap (`BodyInv`), for every
cap, body and split into reads.

`AcceptanceIsThePolicy` and `ReasonsAreTrue` are about functions, for every configuration and
token: the state is a call and its answer (`CallInv`), and all the work is in the lemmas. A set
of natural numbers has a least one (`NatMin`, from the library's theorem that `<` is well-founded),
so a cascade answers with a check that holds, or with its default when none does (`FirstHit`).
That opens each cascade: what `Validate` answers check by check (`ValidateIs`), what the joined
errors are told as (`MappedError`), what a leeway is filled in as (`LeewayIs`). From these come
that an accepted configuration is explicit and is accepted again unchanged (`AcceptedConfig`),
that golang-jwt is silent exactly when the claims meet the policy (`ClaimsMet`), and hence
that acceptance is the policy (`PolicyMet`) and each reason true (`ReasonGiven`).

### InfraProofs

- `PortAnswersHold` (`PortsInv`): a caller's sockets are those its position in the search says
  (`Holds`), and every port it has passed was held or refused (`Search`).
- `HopsAreGuarded`, `TokenIsOnHost` (`HTTPInv`): what a built client allows was opened by the
  caller or the environment; a guarded client keeps no connection, so each hop passes the
  dialer; a request with the token is at the original's host before it is sent.
- `ShutdownAccounts` (`TelemetryInv`): whatever runs is ended by a shutdown function that is still
  to be called, or belongs to one that has failed.
- `AbortedStaysUntouched` (`RecoveryInv`), `CelCallersAgree` (`CelInv`: the states of the
  `sync.Once` and of its users), `TokensStayFresh` (`PostgresInv`: a dial under way presents a
  token that is still good).

### StoreProofs

`StoreTypes` says which steps a call of each kind may have yet to do. `RemoteInv`: the registry
is closed under reference, and whatever a push is going to copy or to tag comes after what it
refers to, in its list of steps or at the registry already. The order of the graph copy is all
`RegistryIsComplete` rests on: local deletions can make a push fail, never incomplete.
`StoreIsWellFormed` states the two.

`DeletionHolds` has two halves. `ReclaimInv`: a deletion has yet to remove every blob of its
index or manifest that is still there, with or without the mutex. `ExclusiveInv`, for the worlds
in which the mutex is to protect the tags: who holds it, that what is tagged is whole unless it
is being removed, and that no tag names what is.

### SigningProofs

`ReportsAreTrue`. `SignInv`: a layer that verifies as a signer's was attached by one, what is
attached is of a call that has returned, and neither the image nor one that a call has read
holds two layers of a key.

`SignaturesAreFound` and `VerificationMatches`, for every bundle, image, certificate, list of
results and provenance. The invariant says that the answer is the verdict on the call; the
work is in what the verdict is. `FirstHit` says which check of a cascade answers, from the least
one that holds (`NatMin`). `ReadBack` and `Retrieved` compute what is written, read back and
found. `BeforeAtIs` describes the part of a name before its "@"; with it `AnchoredMatch` shows
that the anchored pattern of a policy matches a name exactly when the pattern is that part, and
`IdentityAdmits` that a recorded repository and path join to it again.

The proof needed the cases of `getBundleVerificationMaterial` and `signatureAnnotations` to
exclude each other: TLC takes the first case that holds, and TLA+ any of them.

## What is only model-checked

- Liveness (`TeardownCompletes`, `EventuallyClean`, `LossIsReported`, `ClientCallsReturn`,
  `CancelledReturns`) and `NeverStuck`, which is about `ENABLED`: outside the prover's reach.
- Properties of functions over sequences of any length: `ReportIsTrue`, `HopsAreAccounted`,
  `KeysAreEligible`, `PackageIsExact`, `TakenInIsGenuine`. What a fold, `SelectSeq` or a
  recursive function yields for every input needs induction over data.

Proved, but not among the properties of a run: `OnlyTerminationDrops`, `RegistryKeepsLive`,
`NoInterleavedWrite`, `OneTicker`, `CommentsOnlyInStream`, `NothingLeftBehind`, `StatelessIsolated`,
`AdoptsServerID`, `ToldOnce`, and the type invariants.

## Not modelled

- `mcpcompat/server`: SSE and stdio servers (delegation to the go-sdk), notification fan-out (a
  send into a buffered channel that gives up when it is full), elicitation and sampling
  (delegated), the conversion of requests and results.
- `mcpcompat/mcp` and the options of `mcpcompat/client/transport`: types and constructors.
- `container/images`: calls of the container runtime, and a keychain that asks its sources
  in turn.
- `redis`, `registry`, `permissions`, `config`, `env`, `httperr`, `logging`, `validation`: options,
  schemas and sequential helpers without state over time.
- `networking`: `ParsePortSpec` and the address utilities, which are parsing. `telemetry`: the
  HTTP middleware and the attribute helpers.
- Cryptography, JWT parsing, the jwx cache, oras-go, sigstore, CEL evaluation, pgx and
  net/http are external: modelled by how the code uses them, or not at all.
- Generated mocks.

## Plan

1. A composition of `SessionRouting` with `SessionRegistry`: what becomes of overlays across
   eviction and rehydration on another replica.
2. `ArtifactStore`: `Package` and `Pull` in the proof that a deletion takes nothing from a tag,
   which needs a statement of which tags they may hold meanwhile.
3. The notification fan-out, with its buffered channels, as part of `SessionRegistry`.
