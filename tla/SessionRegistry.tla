--------------------------- MODULE SessionRegistry ---------------------------
(***************************************************************************)
(* The registry entry of one session ID on one replica of mcpcompat/server *)
(* (session.go): sessionFor and its drain goroutine, registerAndSync with  *)
(* its once-guard, bindRehydratedSession, forgetSession, and the overlay   *)
(* a SetSession* call stores on the clientSession and reconciles onto the  *)
(* go-sdk server bound to it.                                              *)
(*                                                                         *)
(* A request is a thread.  A step is one operation on the sync.Map or on a *)
(* go-sdk server, one critical section of cs.mu or of rehydratedMu that    *)
(* has none of these in it, or one atomic access.                          *)
(* SessionRouting models which of these requests the transport lets        *)
(* through; here the session is known, valid until a DELETE has terminated *)
(* it, and local or rehydrated.                                            *)
(***************************************************************************)
EXTENDS Naturals

CONSTANTS Thread,   \* requests, each used once
          Tool,     \* names of tools, resources, templates and prompts
          Global,   \* those registered with the MCPServer
          Overlay,  \* overlays hooks set: each name absent, good or bad
          AddOnly,  \* the resources, templates and prompts: never removed
          MaxObj,   \* bound on clientSessions created
          MaxSrv    \* bound on go-sdk servers built

ASSUME ConfigAssumption ==
  /\ Global \subseteq Tool /\ AddOnly \subseteq Tool
  /\ Overlay \subseteq [Tool -> {"absent", "good", "bad"}]
  /\ MaxObj \in Nat \ {0} /\ MaxSrv \in Nat \ {0}

Obj == 1..MaxObj
Srv == 1..MaxSrv
Empty == [n \in Tool |-> "absent"]
Kind == {Tool \ AddOnly, AddOnly}  \* what one SetSession* call replaces

VARIABLES
  entry,      \* MCPServer.sessions[id], 0 for none
  nobj,       \* clientSessions created so far
  drains,     \* those whose drain goroutine runs
  registered, \* those whose once-guard is taken
  bound,      \* clientSession.boundServer
  tools,      \* clientSession.tools, resources, resourceTemplates and prompts
  sdk,        \* clientSession.sdkToolNames
  nsrv,       \* go-sdk servers built so far
  serves,     \* names each of them serves
  local,      \* the server of the go-sdk handler's session, 0 for none
  marked,     \* MCPServer.localSessions has the ID
  cached,     \* the server of the rehydrated session, 0 for none
  mu,         \* rehydratedMu is held
  known,      \* a client has the ID
  terminated, \* the store has it terminated
  fired,      \* OnRegisterSession calls
  pc, op,     \* where a thread stands, what it does
  held,       \* the clientSession it has in hand
  srv,        \* the server it runs on
  kind,       \* the overlay its hook replaces, or it reconciles
  target,     \* the server it reconciles it onto
  todo        \* what it has yet to add to that

objVars == <<nobj, drains, registered, bound, tools, sdk>>
srvVars == <<nsrv, serves, local, cached>>
lifeVars == <<marked, mu, known, terminated, fired>>
thrVars == <<op, held, srv, target, kind, todo>>
vars == <<entry, objVars, srvVars, lifeVars, pc, thrVars>>

Op == {"init", "inited", "call", "delete"}

\* The session is new, or was created on another replica.
Init ==
  /\ entry = 0 /\ nobj = 0 /\ drains = {} /\ registered = {}
  /\ bound = [o \in Obj |-> 0]
  /\ tools = [o \in Obj |-> Empty]
  /\ sdk = [o \in Obj |-> {}]
  /\ nsrv = 0 /\ serves = [s \in Srv |-> {}]
  /\ local = 0 /\ cached = 0
  /\ marked = FALSE /\ mu = FALSE /\ terminated = FALSE
  /\ known \in BOOLEAN
  /\ fired = 0
  /\ pc = [t \in Thread |-> "idle"]
  /\ op = [t \in Thread |-> "call"]
  /\ held = [t \in Thread |-> 0]
  /\ srv = [t \in Thread |-> 0]
  /\ target = [t \in Thread |-> 0]
  /\ kind = [t \in Thread |-> {}]
  /\ todo = [t \in Thread |-> {}]

Goto(t, l) == pc' = [pc EXCEPT ![t] = l]

-----------------------------------------------------------------------------
(* How a request reaches the registry. *)

\* buildServer: a new go-sdk server with the global features.
buildServer(t) ==
  /\ nsrv < MaxSrv
  /\ nsrv' = nsrv + 1
  /\ serves' = [serves EXCEPT ![nsrv + 1] = Global]
  /\ srv' = [srv EXCEPT ![t] = nsrv + 1]

StartInit(t) ==
  /\ pc[t] = "idle" /\ ~known /\ local = 0
  /\ buildServer(t)
  /\ local' = nsrv + 1
  /\ op' = [op EXCEPT ![t] = "init"]
  /\ Goto(t, "load")
  /\ UNCHANGED <<entry, objVars, cached, lifeVars, held, target, kind, todo>>

\* A request the handler routes to the local session.
StartLocal(t) ==
  /\ pc[t] = "idle" /\ known /\ marked /\ local # 0
  /\ \E o \in {"inited", "call"} : op' = [op EXCEPT ![t] = o]
  /\ srv' = [srv EXCEPT ![t] = local]
  /\ Goto(t, "load")
  /\ UNCHANGED <<entry, objVars, srvVars, lifeVars, held, target, kind, todo>>

\* A request for a session that is not marked local and still valid: served by the
\* rehydrated session, which is built first if there is none.
StartRehydrated(t) ==
  /\ pc[t] = "idle" /\ known /\ ~marked /\ ~terminated /\ ~mu
  /\ op' = [op EXCEPT ![t] = "call"]
  /\ IF cached # 0
     THEN /\ srv' = [srv EXCEPT ![t] = cached]
          /\ Goto(t, "load")
          /\ UNCHANGED <<nsrv, serves, mu>>
     ELSE /\ buildServer(t)
          /\ mu' = TRUE
          /\ Goto(t, "rload")
  /\ UNCHANGED <<entry, objVars, local, cached, marked, known, terminated, fired, held, target, kind, todo>>

StartDelete(t) ==
  /\ pc[t] = "idle" /\ known
  /\ op' = [op EXCEPT ![t] = "delete"]
  /\ Goto(t, "drop")
  /\ UNCHANGED <<entry, objVars, srvVars, lifeVars, held, srv, target, kind, todo>>

-----------------------------------------------------------------------------
(* sessionFor: Load, then newClientSession and LoadOrStore. *)

After(l) == CASE l = "load" -> "bound" [] l = "rload" -> "rbind"
              [] l = "gload" -> "bind" [] l = "hload" -> "return"
Missing(l) == CASE l = "load" -> "store" [] l = "rload" -> "rstore"
                [] l = "gload" -> "gstore" [] l = "hload" -> "hstore"

Load(t, l) ==
  /\ pc[t] = l
  /\ entry # 0
  /\ held' = [held EXCEPT ![t] = entry]
  /\ Goto(t, After(l))
  /\ UNCHANGED <<entry, objVars, srvVars, lifeVars, op, srv, target, kind, todo>>

CreateUnchecked(t, l) ==
  /\ pc[t] = l
  /\ nobj < MaxObj
  /\ nobj' = nobj + 1
  /\ drains' = drains \cup {nobj + 1}
  /\ held' = [held EXCEPT ![t] = nobj + 1]
  /\ Goto(t, Missing(l))
  /\ UNCHANGED <<entry, registered, bound, tools, sdk, srvVars, lifeVars, op, srv, target, kind, todo>>

newClientSession(t, l) ==
  /\ pc[t] = l
  /\ entry = 0 /\ nobj < MaxObj
  /\ nobj' = nobj + 1
  /\ drains' = drains \cup {nobj + 1}
  /\ held' = [held EXCEPT ![t] = nobj + 1]
  /\ Goto(t, Missing(l))
  /\ UNCHANGED <<entry, registered, bound, tools, sdk, srvVars, lifeVars, op, srv, target, kind, todo>>

\* The loser of a race takes the entry of the winner and forgets its own.
LoadOrStore(t, l) ==
  /\ pc[t] = Missing(l)
  /\ entry' = IF entry # 0 THEN entry ELSE held[t]
  /\ held' = [held EXCEPT ![t] = entry']
  /\ Goto(t, After(l))
  /\ UNCHANGED <<objVars, srvVars, lifeVars, op, srv, target, kind, todo>>

sessionFor(t) == \E l \in {"load", "rload", "gload", "hload"} :
                   Load(t, l) \/ newClientSession(t, l) \/ LoadOrStore(t, l)

\* contextWithSession has bound the session.  A call runs its before-hooks, which
\* may set an overlay; initialize and notifications/initialized register.
Dispatched(t) ==
  /\ pc[t] = "bound"
  /\ Goto(t, IF op[t] = "call" THEN "hook" ELSE "gload")
  /\ UNCHANGED <<entry, objVars, srvVars, lifeVars, thrVars>>

-----------------------------------------------------------------------------
(* registerAndSync and bindRehydratedSession. *)

Bind(t) ==
  /\ pc[t] = "bind"
  /\ bound' = [bound EXCEPT ![held[t]] = srv[t]]
  /\ Goto(t, "mark")
  /\ UNCHANGED <<entry, nobj, drains, registered, tools, sdk, srvVars, lifeVars, thrVars>>

MarkLocal(t) ==
  /\ pc[t] = "mark"
  /\ marked' = TRUE
  /\ Goto(t, "once")
  /\ UNCHANGED <<entry, objVars, srvVars, mu, known, terminated, fired, thrVars>>

\* The CompareAndSwap: only the first caller runs the hooks and the final sync.
Once(t) ==
  /\ pc[t] = "once"
  /\ IF held[t] \in registered
     THEN Goto(t, "return") /\ UNCHANGED <<registered, fired>>
     ELSE /\ registered' = registered \cup {held[t]}
          /\ fired' = fired + 1
          /\ Goto(t, "hook")
  /\ UNCHANGED <<entry, nobj, drains, bound, tools, sdk, srvVars, marked, mu, known,
                 terminated, thrVars>>

\* Under rehydratedMu; no hook and no sync.
bindRehydratedSession(t) ==
  /\ pc[t] = "rbind"
  /\ bound' = [bound EXCEPT ![held[t]] = srv[t]]
  /\ cached' = srv[t]
  /\ mu' = FALSE
  /\ Goto(t, "load")
  /\ UNCHANGED <<entry, nobj, drains, registered, tools, sdk, nsrv, serves, local,
                 marked, known, terminated, fired, thrVars>>

-----------------------------------------------------------------------------
(* SetSessionTools, called by a hook, and the reconciliation. *)

Visible(w) == {n \in Tool : w[n] = "good"}

\* After the hooks a call goes on to its handler, whose wrapper looks the session up
\* again (wrapToolHandler), and a registration to its last sync.
Hooked(t) == IF op[t] = "call" THEN "hload" ELSE "final"

\* A hook may also leave the overlay alone.
HookQuiet(t) ==
  /\ pc[t] = "hook"
  /\ Goto(t, Hooked(t))
  /\ UNCHANGED <<entry, objVars, srvVars, lifeVars, thrVars>>

\* Whether t may lock cs.mu of its clientSession, or only read-lock it: a reconciliation
\* of tools has it locked, one of another kind read-locked.
Adding == {"add", "addFinal", "addFinal2"}
Lockable(t) == \A u \in Thread \ {t} : ~(pc[u] \in Adding /\ held[u] = held[t])
ReadLockable(t) == \A u \in Thread \ {t} : pc[u] \in Adding /\ held[u] = held[t] => kind[u] = AddOnly

SetSessionTools(t) ==
  /\ pc[t] = "hook" /\ Lockable(t)
  /\ \E w \in Overlay, k \in Kind :
       /\ kind' = [kind EXCEPT ![t] = k]
       /\ tools' = [tools EXCEPT ![held[t]] =
                     [n \in Tool |-> IF n \in k THEN w[n] ELSE @[n]]]
  /\ Goto(t, "loadBound")
  /\ UNCHANGED <<entry, nobj, drains, registered, bound, sdk, srvVars, lifeVars, op, held,
                 srv, target, todo>>

LoadBoundNil(t) ==
  /\ pc[t] = "loadBound"
  /\ target' = [target EXCEPT ![t] = 0]
  /\ Goto(t, "sync")
  /\ UNCHANGED <<entry, objVars, srvVars, lifeVars, op, held, srv, kind, todo>>

\* boundServer is read after the lock is released.
LoadBound(t) ==
  /\ pc[t] = "loadBound"
  /\ target' = [target EXCEPT ![t] = bound[held[t]]]
  /\ Goto(t, "sync")
  /\ UNCHANGED <<entry, objVars, srvVars, lifeVars, op, held, srv, kind, todo>>

\* syncSessionTools and its siblings lock cs.mu, the latter for reading.  A bad tool is
\* skipped.
syncSession(t, s, k) ==
  /\ IF k = AddOnly THEN ReadLockable(t) ELSE Lockable(t)
  /\ todo' = [todo EXCEPT ![t] = Visible(tools[held[t]]) \cap k]
  /\ target' = [target EXCEPT ![t] = s]
  /\ kind' = [kind EXCEPT ![t] = k]

Sync(t) ==
  /\ pc[t] = "sync"
  /\ IF target[t] = 0 THEN Goto(t, Hooked(t)) /\ UNCHANGED <<target, kind, todo>>
     ELSE syncSession(t, target[t], kind[t]) /\ Goto(t, "add")
  /\ UNCHANGED <<entry, objVars, srvVars, lifeVars, op, held, srv>>

\* The last syncs of registerAndSync, for overlays stored before the binding.
FinalSync(t) ==
  /\ \/ pc[t] = "final" /\ syncSession(t, srv[t], Tool \ AddOnly) /\ Goto(t, "addFinal")
     \/ pc[t] = "final2" /\ syncSession(t, srv[t], AddOnly) /\ Goto(t, "addFinal2")
  /\ UNCHANGED <<entry, objVars, srvVars, lifeVars, op, held, srv>>

\* One AddTool, AddResource, AddResourceTemplate or AddPrompt, in no particular order.
addSessionTool(t) ==
  /\ pc[t] \in Adding
  /\ \E n \in todo[t] : /\ serves' = [serves EXCEPT ![target[t]] = @ \cup {n}]
                        /\ todo' = [todo EXCEPT ![t] = @ \ {n}]
  /\ UNCHANGED <<entry, objVars, nsrv, local, cached, lifeVars, pc, op, held, srv, target, kind>>

Synced(t) == CASE pc[t] = "add" -> Hooked(t) [] pc[t] = "addFinal" -> "final2"
               [] pc[t] = "addFinal2" -> "return"

RemoveAll(t) ==
  LET o == held[t] IN
  /\ pc[t] \in Adding /\ todo[t] = {}
  /\ serves' = [serves EXCEPT ![target[t]] = @ \ (sdk[o] \cap kind[t])]
  /\ sdk' = [sdk EXCEPT ![o] = (@ \ kind[t]) \cup (Visible(tools[o]) \cap (kind[t] \ AddOnly))]
  /\ Goto(t, Synced(t))
  /\ UNCHANGED <<entry, nobj, drains, registered, bound, tools, nsrv, local, cached, lifeVars, thrVars>>

\* The tools that went away are removed at once, and cs.mu is unlocked.  The other kinds
\* are only added to.
RemoveTools(t) ==
  LET o == held[t] IN
  /\ pc[t] \in Adding /\ todo[t] = {}
  /\ serves' = [serves EXCEPT ![target[t]] = @ \ ((sdk[o] \cap kind[t]) \ Visible(tools[o]))]
  /\ sdk' = [sdk EXCEPT ![o] = (@ \ kind[t]) \cup (Visible(tools[o]) \cap (kind[t] \ AddOnly))]
  /\ Goto(t, Synced(t))
  /\ UNCHANGED <<entry, nobj, drains, registered, bound, tools, nsrv, local, cached, lifeVars, thrVars>>

\* The response leaves; a client learns the ID from that of initialize.
Return(t) ==
  /\ pc[t] = "return"
  /\ known' = (known \/ op[t] = "init")
  /\ Goto(t, "done")
  /\ UNCHANGED <<entry, objVars, srvVars, marked, mu, terminated, fired, thrVars>>

-----------------------------------------------------------------------------
(* DELETE: deleteRehydrated, forgetSession, the handler, Terminate. *)

Drop(t) ==
  /\ pc[t] = "drop" /\ ~mu
  /\ cached' = 0
  /\ Goto(t, "forget")
  /\ UNCHANGED <<entry, objVars, nsrv, serves, local, lifeVars, thrVars>>

LoadAndDelete(t) ==
  /\ pc[t] = "forget"
  /\ held' = [held EXCEPT ![t] = entry]
  /\ entry' = 0
  /\ Goto(t, "close")
  /\ UNCHANGED <<objVars, srvVars, lifeVars, op, srv, target, kind, todo>>

\* The marker goes, and the request that got the entry closes its channel.
forgetSession(t) ==
  /\ pc[t] = "close"
  /\ marked' = FALSE
  /\ drains' = drains \ {held[t]}
  /\ Goto(t, "terminate")
  /\ UNCHANGED <<entry, nobj, registered, bound, tools, sdk, srvVars, mu, known, terminated,
                 fired, thrVars>>

Terminate(t) ==
  /\ pc[t] = "terminate"
  /\ local' = 0
  /\ terminated' = TRUE
  /\ Goto(t, "done")
  /\ UNCHANGED <<entry, objVars, nsrv, serves, cached, marked, mu, known, fired, thrVars>>

-----------------------------------------------------------------------------
Step(t) ==
  \/ sessionFor(t) \/ Dispatched(t) \/ Bind(t) \/ MarkLocal(t) \/ Once(t) \/ bindRehydratedSession(t)
  \/ HookQuiet(t) \/ SetSessionTools(t) \/ LoadBound(t) \/ Sync(t) \/ FinalSync(t)
  \/ addSessionTool(t) \/ RemoveTools(t) \/ Return(t)
  \/ Drop(t) \/ LoadAndDelete(t) \/ forgetSession(t) \/ Terminate(t)

Start(t) == StartInit(t) \/ StartLocal(t) \/ StartRehydrated(t) \/ StartDelete(t)

Next == \E t \in Thread : Start(t) \/ Step(t)

Spec == Init /\ [][Next]_vars

-----------------------------------------------------------------------------
(* Properties. *)

Deleted == \E t \in Thread : op[t] = "delete"
Quiet == \A t \in Thread : pc[t] \in {"idle", "done"}
Current == IF marked THEN local ELSE cached

\* However the calls of SetSessionTools interleave with each other, with the final
\* syncs of registerAndSync and with a binding, once they have all returned the
\* session's server serves the overlay that is stored and, of the tools that are not
\* global, nothing else.
OverlayApplied ==
  (Quiet /\ Current # 0 /\ ~Deleted) =>
    LET shown == serves[Current] \ Global
        want  == Visible(tools[entry]) \ Global
    IN  want \subseteq shown /\ shown \ want \subseteq AddOnly

\* However initialize, notifications/initialized, calls and a DELETE race, the registry never
\* hands out a clientSession whose channel is closed (forgetSession takes the entry out
\* first); and before a DELETE a session has one clientSession, created once, with one drain
\* goroutine, and OnRegisterSession fires at most once for it (session.go).
OneClientSession ==
  /\ entry # 0 => entry \in drains
  /\ ~Deleted => /\ nobj <= 1 /\ drains = 1..nobj
                 /\ \A t \in Thread : held[t] \in {0, nobj}
                 /\ fired <= 1

\* What tools/list, which takes no lock, shows at any moment: until a DELETE the steps of
\* however many hooks and registrations implement ToolView.  Outside of a reconciliation it
\* is one overlay; within one, a tool of the stored overlay that is there stays, those not
\* there yet come one by one, and what is not in it goes last, all at once
\* (session.go, syncSessionTools).
Own(w) == Visible(w) \ (Global \cup AddOnly)
Shown == serves[1] \ (Global \cup AddOnly)
Syncing == \E t \in Thread : pc[t] \in Adding /\ kind[t] # AddOnly
TV == INSTANCE ToolView WITH
        Overlay <- [Tool -> {"absent", "good", "bad"}],
        Visible <- Own,
        overlay <- IF entry = 0 THEN Empty ELSE tools[entry],
        view <- IF nsrv = 0 \/ Deleted THEN {} ELSE Shown,
        phase <- IF nsrv = 0 \/ Deleted THEN "down" ELSE IF Syncing THEN "syncing" ELSE "idle"
ImplementsToolView == TV!Spec

\* session.go:317 says registerAndSync fires "the OnRegisterSession hooks exactly
\* once" for a session.
HookFiresOnce == fired <= 1

\* session.go:535 says forgetSession closes the channel "so the drain goroutine started
\* in newClientSession exits, preventing a goroutine leak per closed session".
ForgottenIsDrained == Quiet /\ terminated => drains = {}

=============================================================================
