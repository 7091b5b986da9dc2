------------------------ MODULE SessionRegistryProofs ------------------------
(***************************************************************************)
(* SessionRegistry implements ToolView, and has one clientSession, for any *)
(* requests, tools and overlays.  Until a DELETE the session has one       *)
(* server: the argument is that initialize, or the first rehydration under *)
(* rehydratedMu, is alone until the registry entry is there (SoloInv).     *)
(* What that server serves is in sdkToolNames or in the overlay being      *)
(* reconciled, which cs.mu keeps as it is (ViewInv); so the removal that   *)
(* ends a reconciliation leaves the overlay, and nothing else.             *)
(***************************************************************************)
EXTENDS SessionRegistry, TLAPS

\* The default prover; a leaf with arithmetic or sequences cites SMTT.
USE ZenonT(30)

Label == {"idle", "load", "rload", "gload", "hload", "store", "rstore", "gstore", "hstore", "bound",
          "rbind", "bind", "return", "hook", "mark", "once", "loadBound", "sync", "add", "final", "addFinal", "final2",
          "addFinal2", "drop", "forget", "close", "terminate", "done"}

ObjOK ==
  /\ nobj \in 0..MaxObj /\ fired \in Nat
  /\ entry \in Obj \cup {0} /\ drains \subseteq Obj /\ registered \subseteq Obj \cup {0}
  /\ tools \in [Obj -> [Tool -> {"absent", "good", "bad"}]] /\ sdk \in [Obj -> SUBSET Tool]
SrvOK ==
  /\ nsrv \in 0..MaxSrv /\ bound \in [Obj -> Srv \cup {0}]
  /\ serves \in [Srv -> SUBSET Tool] /\ local \in Srv \cup {0} /\ cached \in Srv \cup {0}
  /\ marked \in BOOLEAN /\ mu \in BOOLEAN /\ known \in BOOLEAN /\ terminated \in BOOLEAN
ThreadOK ==
  /\ pc \in [Thread -> Label] /\ op \in [Thread -> Op]
  /\ held \in [Thread -> Obj \cup {0}]
  /\ srv \in [Thread -> Srv \cup {0}] /\ target \in [Thread -> Srv \cup {0}]
  /\ kind \in [Thread -> SUBSET Tool] /\ todo \in [Thread -> SUBSET Tool]
TypeOK == ObjOK /\ SrvOK /\ ThreadOK

\* The labels of a DELETE, and of a request that has created a clientSession.
Deleting == {"drop", "forget", "close", "terminate"}
Creating == {"store", "rstore", "gstore", "hstore"}

\* Who has not started is no DELETE; who is past sessionFor has a clientSession in hand.
IdleInv == \A t \in Thread :
             /\ pc[t] = "idle" => op[t] = "call" /\ held[t] = 0 /\ srv[t] = 0
             /\ pc[t] \in Deleting => op[t] = "delete"
             /\ pc[t] \in Label \ (Deleting \cup {"idle", "load", "rload", "done"}) => held[t] # 0

\* The numbers of facts about constants that the types need.
LEMMA Ranges ==
  /\ 0 \in 0..MaxObj /\ 0 \in 0..MaxSrv /\ 0 \notin Obj /\ 0 \notin Srv /\ 1 \in Obj /\ 1 \in Srv
  /\ \A n \in 0..MaxObj : n < MaxObj => n + 1 \in Obj /\ n + 1 \in 0..MaxObj
  /\ \A n \in 0..MaxSrv : n < MaxSrv => n + 1 \in Srv /\ n + 1 \in 0..MaxSrv
  BY ConfigAssumption, SMTT(30) DEF Obj, Srv

LEMMA EmptyType == Empty \in [Tool -> {"absent", "good", "bad"}]
  BY DEF Empty

LEMMA TypeInit == Init => TypeOK /\ IdleInv
<1> SUFFICES ASSUME Init PROVE TypeOK /\ IdleInv
  OBVIOUS
<1> USE Ranges, EmptyType DEF Init
<1>1. ObjOK
  BY DEF ObjOK
<1>2. SrvOK
  BY DEF SrvOK
<1>3. ThreadOK /\ IdleInv
  BY DEF ThreadOK, IdleInv, Label, Op, Deleting
<1> QED BY <1>1, <1>2, <1>3 DEF TypeOK

\* The steps of a reconciliation.
SyncStep(t) == Sync(t) \/ FinalSync(t) \/ addSessionTool(t) \/ RemoveTools(t)

\* Where they lead, and what they leave alone.
LEMMA SyncMoves ==
  ASSUME TypeOK, NEW t \in Thread, SyncStep(t)
  PROVE  /\ UNCHANGED <<entry, nobj, drains, registered, bound, tools, nsrv, local, cached>>
         /\ UNCHANGED <<marked, mu, known, terminated, fired, op, held, srv>>
         /\ \E m \in Label : /\ pc' = [pc EXCEPT ![t] = m]
                             /\ \/ pc[t] \in {"sync", "add"} /\ m \in {"add", Hooked(t)}
                                \/ /\ pc[t] \in {"final", "addFinal", "final2", "addFinal2"}
                                   /\ m \in {"addFinal", "final2", "addFinal2", "return"}
<1>0. pc \in [Thread -> Label] /\ Hooked(t) \in Label
  BY DEF TypeOK, ThreadOK, Hooked, Label
<1>1. CASE Sync(t)
  BY <1>0, <1>1 DEF Sync, Goto, objVars, srvVars, lifeVars, Label
<1>2. CASE FinalSync(t)
  BY <1>2 DEF FinalSync, Goto, objVars, srvVars, lifeVars, Label
<1>3. CASE addSessionTool(t)
  <2>1. pc' = [pc EXCEPT ![t] = pc[t]] /\ pc[t] \in Label
    BY <1>0, <1>3 DEF addSessionTool
  <2>2. pc[t] \in {"add", "addFinal", "addFinal2"}
    BY <1>3 DEF addSessionTool, Adding
  <2>3. \/ pc[t] \in {"sync", "add"} /\ pc[t] \in {"add", Hooked(t)}
        \/ /\ pc[t] \in {"final", "addFinal", "final2", "addFinal2"}
           /\ pc[t] \in {"addFinal", "final2", "addFinal2", "return"}
    BY <2>2
  <2>4. /\ UNCHANGED <<entry, nobj, drains, registered, bound, tools, nsrv, local, cached>>
        /\ UNCHANGED <<marked, mu, known, terminated, fired, op, held, srv>>
    BY <1>3 DEF addSessionTool, objVars, lifeVars
  <2> QED BY <2>1, <2>3, <2>4
<1>4. CASE RemoveTools(t)
  <2>1. pc' = [pc EXCEPT ![t] = Synced(t)] /\ pc[t] \in {"add", "addFinal", "addFinal2"}
    BY <1>4 DEF RemoveTools, Adding, Goto
  <2>2. Synced(t) = IF pc[t] = "add" THEN Hooked(t) ELSE IF pc[t] = "addFinal" THEN "final2" ELSE "return"
    BY <2>1, SMTT(30) DEF Synced
  <2>3. /\ UNCHANGED <<entry, nobj, drains, registered, bound, tools, nsrv, local, cached>>
        /\ UNCHANGED <<marked, mu, known, terminated, fired, op, held, srv>>
    BY <1>4 DEF RemoveTools, lifeVars, thrVars
  <2>4. Synced(t) \in Label
    BY <1>0, <2>2 DEF Label
  <2>5. \/ pc[t] \in {"sync", "add"} /\ Synced(t) \in {"add", Hooked(t)}
        \/ /\ pc[t] \in {"final", "addFinal", "final2", "addFinal2"}
           /\ Synced(t) \in {"addFinal", "final2", "addFinal2", "return"}
    BY <2>1, <2>2
  <2> QED BY <2>1, <2>3, <2>4, <2>5
<1> QED BY <1>1, <1>2, <1>3, <1>4 DEF SyncStep

LEMMA SyncTypes ==
  ASSUME TypeOK, NEW t \in Thread, SyncStep(t)
  PROVE  /\ serves' \in [Srv -> SUBSET Tool] /\ sdk' \in [Obj -> SUBSET Tool]
         /\ target' \in [Thread -> Srv \cup {0}]
         /\ kind' \in [Thread -> SUBSET Tool] /\ todo' \in [Thread -> SUBSET Tool]
<1>0. /\ serves \in [Srv -> SUBSET Tool] /\ sdk \in [Obj -> SUBSET Tool]
      /\ target \in [Thread -> Srv \cup {0}] /\ srv \in [Thread -> Srv \cup {0}]
      /\ kind \in [Thread -> SUBSET Tool] /\ todo \in [Thread -> SUBSET Tool]
      /\ Tool \ AddOnly \in SUBSET Tool /\ AddOnly \in SUBSET Tool
  BY ConfigAssumption DEF TypeOK, ObjOK, SrvOK, ThreadOK
<1>1. ASSUME NEW s \in Srv \cup {0}, NEW k \in SUBSET Tool, syncSession(t, s, k)
      PROVE  /\ target' \in [Thread -> Srv \cup {0}]
             /\ kind' \in [Thread -> SUBSET Tool] /\ todo' \in [Thread -> SUBSET Tool]
  <2>1. Visible(tools[held[t]]) \cap k \in SUBSET Tool
    OBVIOUS
  <2> QED BY <1>0, <1>1, <2>1 DEF syncSession
<1>2. CASE Sync(t)
  BY <1>0, <1>1, <1>2 DEF Sync, objVars, srvVars
<1>3. CASE FinalSync(t)
  BY <1>0, <1>1, <1>3 DEF FinalSync, objVars, srvVars
<1>4. CASE addSessionTool(t)
  <2>1. PICK n \in todo[t] : /\ serves' = [serves EXCEPT ![target[t]] = @ \cup {n}]
                             /\ todo' = [todo EXCEPT ![t] = @ \ {n}]
    BY <1>4 DEF addSessionTool
  <2>2. n \in Tool
    BY <1>0
  <2>3. UNCHANGED <<sdk, target, kind>>
    BY <1>4 DEF addSessionTool, objVars
  <2> QED BY <1>0, <2>1, <2>2, <2>3
<1>5. CASE RemoveTools(t)
  <2> DEFINE o == held[t]
             gone == (sdk[o] \cap kind[t]) \ Visible(tools[o])
             names == (sdk[o] \ kind[t]) \cup (Visible(tools[o]) \cap (kind[t] \ AddOnly))
  <2>1. serves' = [serves EXCEPT ![target[t]] = @ \ gone] /\ sdk' = [sdk EXCEPT ![o] = names]
    BY <1>5 DEF RemoveTools
  <2>2. o \in Obj => names \in SUBSET Tool
    BY <1>0
  <2>3. UNCHANGED <<target, kind, todo>>
    BY <1>5 DEF RemoveTools, thrVars
  <2> HIDE DEF gone, names
  <2> QED BY <1>0, <2>1, <2>2, <2>3
<1> QED BY <1>2, <1>3, <1>4, <1>5 DEF SyncStep

\* Types, a third of the state at a time.
LEMMA ObjStep == TypeOK /\ [Next]_vars => ObjOK'
<1> SUFFICES ASSUME TypeOK, [Next]_vars PROVE ObjOK'
  OBVIOUS
<1>1. ObjOK /\ held \in [Thread -> Obj \cup {0}] /\ kind \in [Thread -> SUBSET Tool]
  BY DEF TypeOK, ThreadOK
<1>2. CASE UNCHANGED <<entry, fired, nobj, drains, registered, tools, sdk>>
  BY <1>1, <1>2 DEF ObjOK
<1>3. ASSUME NEW t \in Thread, NEW l, newClientSession(t, l) PROVE ObjOK'
  <2>1. nobj' \in 0..MaxObj /\ nobj' \in Obj /\ drains' = drains \cup {nobj'}
    BY <1>1, <1>3, Ranges DEF newClientSession, ObjOK
  <2>2. UNCHANGED <<entry, fired, registered, tools, sdk>>
    BY <1>3 DEF newClientSession, lifeVars
  <2> QED BY <1>1, <2>1, <2>2 DEF ObjOK
<1>4. ASSUME NEW t \in Thread, NEW l, LoadOrStore(t, l) PROVE ObjOK'
  <2>1. entry' \in Obj \cup {0}
    BY <1>1, <1>4 DEF LoadOrStore, ObjOK
  <2>2. UNCHANGED <<fired, nobj, drains, registered, tools, sdk>>
    BY <1>4 DEF LoadOrStore, lifeVars, objVars
  <2> QED BY <1>1, <2>1, <2>2 DEF ObjOK
<1>5. ASSUME NEW t \in Thread, Once(t) PROVE ObjOK'
  <2>1. registered' \subseteq Obj \cup {0} /\ fired' \in Nat
    BY <1>1, <1>5, SMTT(30) DEF Once, ObjOK
  <2>2. UNCHANGED <<entry, nobj, drains, tools, sdk>>
    BY <1>5 DEF Once
  <2> QED BY <1>1, <2>1, <2>2 DEF ObjOK
<1>6. ASSUME NEW t \in Thread, SetSessionTools(t) PROVE ObjOK'
  <2>1. PICK w \in Overlay, k \in Kind :
          tools' = [tools EXCEPT ![held[t]] = [n \in Tool |-> IF n \in k THEN w[n] ELSE tools[held[t]][n]]]
    BY <1>6 DEF SetSessionTools
  <2> DEFINE v == [n \in Tool |-> IF n \in k THEN w[n] ELSE tools[held[t]][n]]
  <2>2. held[t] \in Obj => v \in [Tool -> {"absent", "good", "bad"}]
    BY ConfigAssumption, <1>1, SMTT(30) DEF ObjOK
  <2>3. tools' = [tools EXCEPT ![held[t]] = v]
    BY <2>1
  <2> HIDE DEF v
  <2>4. tools' \in [Obj -> [Tool -> {"absent", "good", "bad"}]]
    BY <1>1, <2>2, <2>3 DEF ObjOK
  <2>5. UNCHANGED <<entry, fired, nobj, drains, registered, sdk>>
    BY <1>6 DEF SetSessionTools, lifeVars
  <2> QED BY <1>1, <2>4, <2>5 DEF ObjOK
<1>7. ASSUME NEW t \in Thread, SyncStep(t) PROVE ObjOK'
  BY <1>1, <1>7, SyncTypes, SyncMoves DEF ObjOK
<1>8. ASSUME NEW t \in Thread, LoadAndDelete(t) \/ forgetSession(t) PROVE ObjOK'
  <2>1. entry' \in {entry, 0} /\ drains' \subseteq drains
    BY <1>8 DEF LoadAndDelete, forgetSession, objVars
  <2>2. UNCHANGED <<fired, nobj, registered, tools, sdk>>
    BY <1>8, ZenonT(30) DEF LoadAndDelete, forgetSession, objVars, lifeVars
  <2> QED BY <1>1, <2>1, <2>2 DEF ObjOK
<1> QED BY <1>2, <1>3, <1>4, <1>5, <1>6, <1>7, <1>8
        DEF Next, Start, Step, sessionFor, StartInit, StartLocal, StartRehydrated, StartDelete, Load,
            Dispatched, Bind, MarkLocal, bindRehydratedSession, HookQuiet, LoadBound, Return, Drop,
            Terminate, SyncStep, vars, objVars, lifeVars

LEMMA SrvStep == TypeOK /\ [Next]_vars => SrvOK'
<1> SUFFICES ASSUME TypeOK, [Next]_vars PROVE SrvOK'
  OBVIOUS
<1>1. /\ SrvOK /\ srv \in [Thread -> Srv \cup {0}] /\ kind \in [Thread -> SUBSET Tool]
      /\ Global \in SUBSET Tool
  BY ConfigAssumption DEF TypeOK, ThreadOK
<1>2. CASE UNCHANGED <<nsrv, bound, serves, local, cached, marked, mu, known, terminated>>
  BY <1>1, <1>2 DEF SrvOK
<1>3. ASSUME NEW t \in Thread, StartInit(t) \/ (StartRehydrated(t) /\ cached = 0) PROVE SrvOK'
  <2>1. /\ nsrv + 1 \in 0..MaxSrv /\ nsrv + 1 \in Srv
        /\ nsrv' = nsrv + 1 /\ serves' = [serves EXCEPT ![nsrv + 1] = Global]
    BY <1>1, <1>3, Ranges DEF StartInit, StartRehydrated, buildServer, SrvOK
  <2>2. serves' \in [Srv -> SUBSET Tool]
    BY <1>1, <2>1 DEF SrvOK
  <2>3. /\ local' \in {local, nsrv + 1} /\ mu' \in BOOLEAN
        /\ UNCHANGED <<bound, cached, marked, known, terminated>>
    BY <1>1, <1>3 DEF StartInit, StartRehydrated, objVars, lifeVars, SrvOK
  <2> QED BY <1>1, <2>1, <2>2, <2>3 DEF SrvOK
<1>4. ASSUME NEW t \in Thread, Bind(t) \/ MarkLocal(t) \/ bindRehydratedSession(t) PROVE SrvOK'
  <2>1. bound' = bound \/ bound' = [bound EXCEPT ![held[t]] = srv[t]]
    BY <1>4 DEF Bind, MarkLocal, bindRehydratedSession, objVars
  <2>2. bound' \in [Obj -> Srv \cup {0}]
    BY <1>1, <2>1 DEF SrvOK
  <2>3. /\ UNCHANGED <<nsrv, serves, local, known, terminated>> /\ cached' \in Srv \cup {0}
        /\ marked' \in BOOLEAN /\ mu' \in BOOLEAN
    BY <1>1, <1>4 DEF Bind, MarkLocal, bindRehydratedSession, srvVars, lifeVars, SrvOK
  <2> QED BY <1>1, <2>2, <2>3 DEF SrvOK
<1>5. ASSUME NEW t \in Thread, SyncStep(t) PROVE SrvOK'
  BY <1>1, <1>5, SyncTypes, SyncMoves DEF SrvOK
<1>6. ASSUME NEW t \in Thread, Return(t) \/ Drop(t) \/ forgetSession(t) \/ Terminate(t) PROVE SrvOK'
  <2>1. /\ UNCHANGED <<nsrv, bound, serves, mu>>
        /\ local' \in {local, 0} /\ cached' \in {cached, 0}
    BY <1>6 DEF Return, Drop, forgetSession, Terminate, objVars, srvVars, lifeVars
  <2>2. marked' \in BOOLEAN /\ known' \in BOOLEAN /\ terminated' \in BOOLEAN
    BY <1>1, <1>6 DEF Return, Drop, forgetSession, Terminate, lifeVars, SrvOK
  <2> QED BY <1>1, <2>1, <2>2 DEF SrvOK
<1> QED BY <1>2, <1>3, <1>4, <1>5, <1>6, ZenonT(30)
        DEF Next, Start, Step, sessionFor, StartLocal, StartRehydrated, StartDelete, Load,
            newClientSession, LoadOrStore, Dispatched, Once, HookQuiet, SetSessionTools, LoadBound,
            LoadAndDelete, SyncStep, vars, objVars, srvVars, lifeVars

LEMMA ThreadStep == TypeOK /\ IdleInv /\ [Next]_vars => ThreadOK' /\ IdleInv'
<1> SUFFICES ASSUME TypeOK, IdleInv, [Next]_vars PROVE ThreadOK' /\ IdleInv'
  OBVIOUS
<1>0. /\ ThreadOK /\ entry \in Obj \cup {0} /\ local \in Srv \cup {0} /\ cached \in Srv \cup {0}
      /\ bound \in [Obj -> Srv \cup {0}] /\ nobj \in 0..MaxObj /\ nsrv \in 0..MaxSrv
  BY DEF TypeOK, ObjOK, SrvOK
<1> USE <1>0, Ranges DEF ThreadOK, IdleInv, Label, Op, Deleting, thrVars, Goto
<1>1. ASSUME NEW t \in Thread, StartInit(t) PROVE ThreadOK' /\ IdleInv'
  BY <1>1, SMTT(30) DEF StartInit, buildServer
<1>2. ASSUME NEW t \in Thread, StartLocal(t) PROVE ThreadOK' /\ IdleInv'
  BY <1>2, SMTT(30) DEF StartLocal
<1>3. ASSUME NEW t \in Thread, StartDelete(t) PROVE ThreadOK' /\ IdleInv'
  BY <1>3, SMTT(30) DEF StartDelete
<1>4. ASSUME NEW t \in Thread, StartRehydrated(t) PROVE ThreadOK' /\ IdleInv'
  <2>1. CASE cached # 0
    BY <1>4, <2>1, SMTT(30) DEF StartRehydrated
  <2>2. CASE cached = 0
    BY <1>4, <2>2, SMTT(30) DEF StartRehydrated, buildServer
  <2> QED BY <2>1, <2>2
<1>5. ASSUME NEW t \in Thread, NEW l \in {"load", "rload", "gload", "hload"}, Load(t, l)
      PROVE ThreadOK' /\ IdleInv'
  BY <1>5, SMTT(30) DEF Load, After
<1>6. ASSUME NEW t \in Thread, NEW l \in {"load", "rload", "gload", "hload"}, newClientSession(t, l)
      PROVE ThreadOK' /\ IdleInv'
  BY <1>6, SMTT(30) DEF newClientSession, Missing
<1>7. ASSUME NEW t \in Thread, NEW l \in {"load", "rload", "gload", "hload"}, LoadOrStore(t, l)
      PROVE ThreadOK' /\ IdleInv'
  BY <1>7, SMTT(30) DEF LoadOrStore, After, Missing
<1>8. ASSUME NEW t \in Thread, Dispatched(t) \/ Bind(t) \/ MarkLocal(t) PROVE ThreadOK' /\ IdleInv'
  BY <1>8, SMTT(30) DEF Dispatched, Bind, MarkLocal
<1>9. ASSUME NEW t \in Thread, Once(t) PROVE ThreadOK' /\ IdleInv'
  BY <1>9, SMTT(30) DEF Once
<1>10. ASSUME NEW t \in Thread, bindRehydratedSession(t) PROVE ThreadOK' /\ IdleInv'
  BY <1>10, SMTT(30) DEF bindRehydratedSession
<1>11. ASSUME NEW t \in Thread, HookQuiet(t) PROVE ThreadOK' /\ IdleInv'
  BY <1>11, SMTT(30) DEF HookQuiet, Hooked
<1>12. ASSUME NEW t \in Thread, LoadBound(t) PROVE ThreadOK' /\ IdleInv'
  BY <1>12, SMTT(30) DEF LoadBound
<1>13. ASSUME NEW t \in Thread, SetSessionTools(t) PROVE ThreadOK' /\ IdleInv'
  BY ConfigAssumption, <1>13, SMTT(30) DEF SetSessionTools, Kind
<1>14. ASSUME NEW t \in Thread, SyncStep(t) PROVE ThreadOK' /\ IdleInv'
  <2>1. PICK m \in Label : /\ pc' = [pc EXCEPT ![t] = m]
                           /\ \/ pc[t] \in {"sync", "add"} /\ m \in {"add", Hooked(t)}
                              \/ /\ pc[t] \in {"final", "addFinal", "final2", "addFinal2"}
                                 /\ m \in {"addFinal", "final2", "addFinal2", "return"}
    BY <1>14, SyncMoves
  <2>2. UNCHANGED <<op, held, srv>>
    BY <1>14, SyncMoves
  <2>3. ThreadOK'
    BY <1>14, <2>1, <2>2, SyncTypes
  <2>4. m \in {"add", "hload", "final", "addFinal", "final2", "addFinal2", "return"} /\ held[t] # 0
    BY <2>1 DEF Hooked
  <2>5. IdleInv'
    BY <2>1, <2>2, <2>4, SMTT(30)
  <2> QED BY <2>3, <2>5
<1>15. ASSUME NEW t \in Thread, Return(t) \/ Drop(t) PROVE ThreadOK' /\ IdleInv'
  BY <1>15, SMTT(30) DEF Return, Drop
<1>16. ASSUME NEW t \in Thread, LoadAndDelete(t) PROVE ThreadOK' /\ IdleInv'
  BY <1>16, SMTT(30) DEF LoadAndDelete
<1>17. ASSUME NEW t \in Thread, forgetSession(t) \/ Terminate(t) PROVE ThreadOK' /\ IdleInv'
  BY <1>17, SMTT(30) DEF forgetSession, Terminate
<1>18. CASE UNCHANGED vars
  BY <1>18 DEF vars
<1> HIDE <1>0, Ranges DEF ThreadOK, IdleInv, Label, Op, Deleting, thrVars, Goto
<1> QED BY SMTT(30), <1>1, <1>2, <1>3, <1>4, <1>5, <1>6, <1>7, <1>8, <1>9, <1>10, <1>11, <1>12, <1>13, <1>14,
           <1>15, <1>16, <1>17, <1>18 DEF Next, Start, Step, SyncStep, sessionFor

LEMMA TypeStep == TypeOK /\ IdleInv /\ [Next]_vars => TypeOK' /\ IdleInv'
  BY ObjStep, SrvStep, ThreadStep DEF TypeOK

---------------------------------------------------------------------------
(* Until a DELETE. *)

\* The local session, and the one rehydrated from another replica.
Local == /\ local = 1 /\ cached = 0 /\ ~mu /\ (known => marked /\ entry = 1)
         /\ \A t \in Thread : pc[t] \notin {"rload", "rstore", "rbind"}
Remote == /\ local = 0 /\ known /\ ~marked /\ cached \in {0, 1} /\ (mu <=> cached = 0)
          /\ cached = 1 => entry = 1
          /\ \A t \in Thread : /\ op[t] = "call"
                               /\ pc[t] \in {"rload", "rstore", "rbind"} => mu

\* One server; before the registry entry is there, while rehydratedMu is held and until the
\* client knows the ID, one request.
SoloInv ==
  /\ nsrv \in {0, 1} /\ nobj \in {0, 1} /\ entry \in {0, nobj}
  /\ nsrv = 0 => /\ nobj = 0 /\ local = 0 /\ cached = 0 /\ ~mu /\ ~marked
                 /\ \A t \in Thread : pc[t] = "idle"
  /\ nsrv = 1 => Local \/ Remote
  /\ entry = 0 \/ mu \/ ~known =>
       \A t, u \in Thread : pc[t] # "idle" /\ pc[u] # "idle" => t = u
  /\ entry = 0 => \A t \in Thread : pc[t] \in {"idle", "load", "rload", "store", "rstore"}
  /\ entry = 0 /\ nobj = 1 => \E t \in Thread : pc[t] \in {"store", "rstore"}
  /\ \A t \in Thread :
       /\ held[t] \in {0, nobj} /\ op[t] # "delete"
       /\ pc[t] # "idle" => srv[t] = 1
       /\ pc[t] \in {"gload", "gstore", "bind", "mark", "once", "final", "addFinal", "final2", "addFinal2"}
            => op[t] # "call"
       /\ pc[t] \in {"hload", "hstore"} => op[t] = "call"
       /\ op[t] = "init" /\ pc[t] \in {"once", "hook", "loadBound", "sync", "add", "final", "addFinal", "final2",
                                       "addFinal2", "return"} => marked

LEMMA DeletedStays == ASSUME TypeOK, IdleInv, [Next]_vars, Deleted PROVE Deleted'
<1>1. PICK d \in Thread : op[d] = "delete"
  BY DEF Deleted
<1>2. pc[d] # "idle"
  BY <1>1 DEF IdleInv
<1>3. op'[d] = "delete"
  <2>1. op \in [Thread -> Op]
    BY DEF TypeOK, ThreadOK
  <2>2. ASSUME NEW t \in Thread, Start(t) PROVE op'[d] = "delete"
    BY <1>1, <1>2, <2>1, <2>2 DEF Start, StartInit, StartLocal, StartRehydrated, StartDelete
  <2>3. ASSUME NEW t \in Thread, Step(t) PROVE op' = op
    BY <2>3 DEF Step, sessionFor, Load, newClientSession, LoadOrStore, Dispatched, Bind, MarkLocal,
                Once, bindRehydratedSession, HookQuiet, SetSessionTools, LoadBound, Sync, FinalSync,
                addSessionTool, RemoveTools, Return, Drop, LoadAndDelete, forgetSession, Terminate, thrVars
  <2> QED BY <1>1, <2>2, <2>3 DEF Next, vars, thrVars
<1> QED BY <1>3 DEF Deleted

LEMMA SoloStep ==
  ASSUME TypeOK, IdleInv, SoloInv, [Next]_vars, ~Deleted' PROVE SoloInv'
<1>0. /\ pc \in [Thread -> Label] /\ op \in [Thread -> Op] /\ held \in [Thread -> Obj \cup {0}]
      /\ srv \in [Thread -> Srv \cup {0}]
      /\ \A t \in Thread : pc[t] \notin Deleting
  BY DEF TypeOK, ThreadOK, SoloInv, IdleInv
<1>00. /\ \A t \in Thread : op'[t] # "delete"
       /\ \A t \in Thread : pc[t] = "idle" => held[t] = 0
       /\ \A t \in Thread : pc[t] \in {"store", "rstore", "gstore", "hstore"} => held[t] # 0
  BY SMTT(30) DEF Deleted, IdleInv, Label, Deleting
<1> USE <1>0, <1>00 DEF SoloInv, Local, Remote, Goto
<1>1. ASSUME NEW t \in Thread, StartInit(t) PROVE SoloInv'
  BY <1>1, SMTT(30) DEF StartInit, buildServer, objVars, lifeVars
<1>2. ASSUME NEW t \in Thread, StartLocal(t) PROVE SoloInv'
  BY <1>2, SMTT(30) DEF StartLocal, objVars, srvVars, lifeVars
<1>3. ASSUME NEW t \in Thread, StartRehydrated(t) PROVE SoloInv'
  <2>1. CASE cached # 0
    BY <1>3, <2>1, SMTT(30) DEF StartRehydrated, objVars
  <2>2. CASE cached = 0
    <3>1. nsrv = 0
      BY <1>3, <2>2 DEF StartRehydrated
    <3>2. /\ nsrv' = 1 /\ srv' = [srv EXCEPT ![t] = 1] /\ mu' /\ pc' = [pc EXCEPT ![t] = "rload"]
          /\ op' = [op EXCEPT ![t] = "call"] /\ known
          /\ UNCHANGED <<entry, nobj, local, cached, marked, known, held>>
      BY <1>3, <2>2, <3>1, SMTT(30) DEF StartRehydrated, buildServer, objVars
    <3>3. \A u \in Thread : op[u] = "call"
      BY <3>1 DEF IdleInv
    <3> QED BY <3>1, <3>2, <3>3, SMTT(30)
  <2> QED BY <2>1, <2>2
<1>4. ASSUME NEW t \in Thread, StartDelete(t) PROVE SoloInv'
  BY <1>4, SMTT(30) DEF StartDelete
<1>5. ASSUME NEW t \in Thread, NEW l \in {"load", "rload", "gload", "hload"}, Load(t, l) PROVE SoloInv'
  <2>1. CASE l = "load"
    BY <1>5, <2>1, SMTT(30) DEF Load, After, objVars, srvVars, lifeVars
  <2>2. CASE l = "rload"
    BY <1>5, <2>2, SMTT(30) DEF Load, After, objVars, srvVars, lifeVars
  <2>3. CASE l = "gload"
    BY <1>5, <2>3, SMTT(30) DEF Load, After, objVars, srvVars, lifeVars
  <2>4. CASE l = "hload"
    BY <1>5, <2>4, SMTT(30) DEF Load, After, objVars, srvVars, lifeVars
  <2> QED BY <2>1, <2>2, <2>3, <2>4
<1>6. ASSUME NEW t \in Thread, NEW l \in {"load", "rload", "gload", "hload"}, newClientSession(t, l)
      PROVE SoloInv'
  BY <1>6, SMTT(30) DEF newClientSession, Missing, srvVars, lifeVars
<1>7. ASSUME NEW t \in Thread, NEW l \in {"load", "rload", "gload", "hload"}, LoadOrStore(t, l)
      PROVE SoloInv'
  <2>1. CASE l = "load"
    BY <1>7, <2>1, SMTT(30) DEF LoadOrStore, After, Missing, objVars, srvVars, lifeVars
  <2>2. CASE l = "rload"
    BY <1>7, <2>2, SMTT(30) DEF LoadOrStore, After, Missing, objVars, srvVars, lifeVars
  <2>3. CASE l = "gload"
    BY <1>7, <2>3, SMTT(30) DEF LoadOrStore, After, Missing, objVars, srvVars, lifeVars
  <2>4. CASE l = "hload"
    BY <1>7, <2>4, SMTT(30) DEF LoadOrStore, After, Missing, objVars, srvVars, lifeVars
  <2> QED BY <2>1, <2>2, <2>3, <2>4
<1>8. ASSUME NEW t \in Thread, Dispatched(t) PROVE SoloInv'
  BY <1>8, SMTT(30) DEF Dispatched, objVars, srvVars, lifeVars, thrVars
<1>9. ASSUME NEW t \in Thread, Bind(t) PROVE SoloInv'
  BY <1>9, SMTT(30) DEF Bind, srvVars, lifeVars, thrVars
<1>10. ASSUME NEW t \in Thread, MarkLocal(t) PROVE SoloInv'
  BY <1>10, SMTT(30) DEF MarkLocal, objVars, srvVars, thrVars
<1>11. ASSUME NEW t \in Thread, Once(t) PROVE SoloInv'
  BY <1>11, SMTT(30) DEF Once, srvVars, thrVars
<1>12. ASSUME NEW t \in Thread, bindRehydratedSession(t) PROVE SoloInv'
  BY <1>12, SMTT(30) DEF bindRehydratedSession, thrVars
<1>13. ASSUME NEW t \in Thread, HookQuiet(t) \/ LoadBound(t) PROVE SoloInv'
  BY <1>13, SMTT(30) DEF HookQuiet, LoadBound, Hooked, objVars, srvVars, lifeVars, thrVars
<1>14. ASSUME NEW t \in Thread, SetSessionTools(t) PROVE SoloInv'
  BY <1>14 DEF SetSessionTools, srvVars, lifeVars
<1>15. ASSUME NEW t \in Thread, SyncStep(t) PROVE SoloInv'
  <2>1. PICK m \in Label : /\ pc' = [pc EXCEPT ![t] = m]
                           /\ \/ pc[t] \in {"sync", "add"} /\ m \in {"add", Hooked(t)}
                              \/ /\ pc[t] \in {"final", "addFinal", "final2", "addFinal2"}
                                 /\ m \in {"addFinal", "final2", "addFinal2", "return"}
    BY <1>15, SyncMoves
  <2>2. /\ UNCHANGED <<entry, nobj, nsrv, local, cached>>
        /\ UNCHANGED <<marked, mu, known, op, held, srv>>
    BY <1>15, SyncMoves
  <2> QED BY <2>1, <2>2, SMTT(30) DEF Hooked
<1>16. ASSUME NEW t \in Thread, Return(t) PROVE SoloInv'
  BY <1>16, ZenonT(30) DEF Return, objVars, srvVars, thrVars
<1>17. ASSUME NEW t \in Thread, Drop(t) \/ LoadAndDelete(t) \/ forgetSession(t) \/ Terminate(t)
       PROVE SoloInv'
  BY <1>17, SMTT(30) DEF Drop, LoadAndDelete, forgetSession, Terminate, Deleting
<1>18. CASE UNCHANGED vars
  BY <1>18, SMTT(30) DEF vars, objVars, srvVars, lifeVars, thrVars
<1> HIDE <1>0, <1>00 DEF SoloInv, Local, Remote, Goto
<1> QED BY SMTT(30), <1>1, <1>2, <1>3, <1>4, <1>5, <1>6, <1>7, <1>8, <1>9, <1>10, <1>11, <1>12, <1>13, <1>14,
           <1>15, <1>16, <1>17, <1>18 DEF Next, Start, Step, SyncStep, sessionFor

\* Where reconciliations go to, and what they are of.
AimInv ==
  /\ bound[1] \in {0, 1} /\ \A t \in Thread : target[t] \in {0, 1}
  /\ \A t \in Thread : pc[t] \in {"loadBound", "sync"} \cup Adding => kind[t] \in Kind

\* Who has cs.mu to reconcile tools is alone.
LockInv == \A t, u \in Thread : t # u /\ pc[t] \in Adding /\ pc[u] \in Adding => kind[t] = AddOnly

\* The overlay does not change under a reconciliation, and what it has added is served.
Wanted(t) == Visible(tools[1]) \cap kind[t]
AddInv ==
  \A t \in Thread : pc[t] \in Adding => /\ target[t] = 1 /\ todo[t] \subseteq Wanted(t)
                                        /\ Wanted(t) \ todo[t] \subseteq serves[1]

\* What the client is shown is in sdkToolNames, or in the overlay that is being reconciled.
RecordInv == \A n \in Shown : n \in sdk[1] \/ \E t \in Thread : pc[t] \in Adding /\ n \in Wanted(t)

ViewInv == AimInv /\ LockInv /\ AddInv /\ RecordInv

\* Before a DELETE, who has an overlay to store or to reconcile has the one clientSession.
LEMMA Tooled ==
  ASSUME TypeOK, IdleInv, SoloInv, NEW t \in Thread,
         pc[t] \in {"hook", "loadBound", "sync", "final", "final2"} \cup Adding
  PROVE  entry = 1 /\ nsrv = 1 /\ held[t] = 1 /\ srv[t] = 1
BY SMTT(30) DEF SoloInv, IdleInv, Label, Deleting, Adding

\* A step that neither begins nor ends a reconciliation.
LEMMA ViewFrame ==
  ASSUME ViewInv, UNCHANGED <<target, serves, sdk, kind, todo, tools>>, bound'[1] \in {0, 1},
         \A u \in Thread : /\ pc'[u] \in Adding <=> pc[u] \in Adding
                           /\ pc'[u] \in {"loadBound", "sync"} => pc[u] \in {"loadBound", "sync"}
  PROVE  ViewInv'
<1>1. AimInv' /\ LockInv'
  BY DEF ViewInv, AimInv, LockInv, Kind, Adding
<1>2. \A t \in Thread : Wanted(t)' = Wanted(t)
  BY DEF Wanted, Visible
<1>3. AddInv'
  BY <1>2 DEF ViewInv, AddInv, Adding
<1>4. RecordInv'
  BY <1>2 DEF ViewInv, RecordInv, Shown, Adding
<1> QED BY <1>1, <1>3, <1>4 DEF ViewInv

\* A step before anyone holds cs.mu, when nothing but global tools is served.
LEMMA ViewStarts ==
  ASSUME ViewInv, UNCHANGED <<bound, target, sdk, kind>>, serves'[1] = Global,
         \A u \in Thread : pc'[u] \notin {"loadBound", "sync"} \cup Adding
  PROVE  ViewInv'
<1>1. AimInv' /\ LockInv' /\ AddInv'
  BY DEF ViewInv, AimInv, LockInv, AddInv, Adding
<1>2. RecordInv'
  BY DEF RecordInv, Shown
<1> QED BY <1>1, <1>2 DEF ViewInv

\* An overlay is stored: no one holds cs.mu.
LEMMA ViewSets ==
  ASSUME TypeOK, IdleInv, SoloInv, ViewInv, NEW t \in Thread, SetSessionTools(t)
  PROVE  ViewInv'
<1>1. PICK k \in Kind : kind' = [kind EXCEPT ![t] = k]
  BY DEF SetSessionTools
<1>2. /\ UNCHANGED <<bound, target, serves, sdk>> /\ pc' = [pc EXCEPT ![t] = "loadBound"]
      /\ pc[t] = "hook" /\ Lockable(t)
  BY DEF SetSessionTools, srvVars, Goto
<1>3. \A u \in Thread : pc[u] \notin Adding
  BY <1>2, Tooled DEF Lockable, Adding
<1>4. pc \in [Thread -> Label] /\ kind \in [Thread -> SUBSET Tool]
  BY DEF TypeOK, ThreadOK
<1>5. \A u \in Thread : pc'[u] \notin Adding'
  BY <1>2, <1>3, <1>4 DEF Adding
<1>6. AimInv'
  BY <1>1, <1>2, <1>4, <1>5 DEF ViewInv, AimInv, Kind
<1>7. LockInv' /\ AddInv'
  BY <1>5 DEF LockInv, AddInv
<1>8. RecordInv'
  BY <1>2, <1>3 DEF ViewInv, RecordInv, Shown
<1> QED BY <1>6, <1>7, <1>8 DEF ViewInv

\* A reconciliation locks cs.mu.
LEMMA ViewLocks ==
  ASSUME TypeOK, IdleInv, SoloInv, ViewInv, NEW t \in Thread, NEW k \in Kind, NEW m \in Adding,
         pc[t] \in {"sync", "final", "final2"}, syncSession(t, 1, k), pc' = [pc EXCEPT ![t] = m],
         UNCHANGED <<bound, serves, sdk, tools>>
  PROVE  /\ ViewInv'
         /\ \A u \in Thread \ {t} : pc[u] \in Adding => k = AddOnly /\ kind[u] = AddOnly
<1>1. /\ todo' = [todo EXCEPT ![t] = Visible(tools[1]) \cap k]
      /\ target' = [target EXCEPT ![t] = 1] /\ kind' = [kind EXCEPT ![t] = k]
      /\ held[t] = 1
  BY Tooled DEF syncSession
<1>2. /\ pc \in [Thread -> Label] /\ kind \in [Thread -> SUBSET Tool] /\ todo \in [Thread -> SUBSET Tool]
      /\ target \in [Thread -> Srv \cup {0}]
  BY DEF TypeOK, ThreadOK
<1>3. pc'[t] = m /\ kind'[t] = k /\ target'[t] = 1 /\ todo'[t] = Visible(tools[1]) \cap k
  BY <1>1, <1>2
<1>4. \A u \in Thread \ {t} : pc'[u] = pc[u] /\ kind'[u] = kind[u] /\ target'[u] = target[u] /\ todo'[u] = todo[u]
  BY <1>1, <1>2
<1>5. \A u \in Thread \ {t} : pc[u] \in Adding => k = AddOnly /\ kind[u] = AddOnly
  <2> SUFFICES ASSUME NEW u \in Thread \ {t}, pc[u] \in Adding PROVE k = AddOnly /\ kind[u] = AddOnly
    OBVIOUS
  <2>1. held[u] = held[t]
    BY <1>1, Tooled
  <2> QED BY <2>1 DEF syncSession, Lockable, ReadLockable
<1>6. AimInv'
  BY <1>3, <1>4 DEF ViewInv, AimInv, Kind, Adding
<1>7. LockInv'
  BY <1>3, <1>4, <1>5 DEF ViewInv, LockInv, Adding
<1>8. Wanted(t)' = Visible(tools[1]) \cap k /\ \A u \in Thread \ {t} : Wanted(u)' = Wanted(u)
  BY <1>3, <1>4 DEF Wanted, Visible
<1>9. AddInv'
  <2>1. target'[t] = 1 /\ todo'[t] \subseteq Wanted(t)' /\ Wanted(t)' \ todo'[t] \subseteq serves'[1]
    BY <1>3, <1>8
  <2>2. ASSUME NEW u \in Thread \ {t}, pc'[u] \in Adding
        PROVE  target'[u] = 1 /\ todo'[u] \subseteq Wanted(u)' /\ Wanted(u)' \ todo'[u] \subseteq serves'[1]
    <3>1. target[u] = 1 /\ todo[u] \subseteq Wanted(u) /\ Wanted(u) \ todo[u] \subseteq serves[1]
      BY <1>4, <2>2 DEF ViewInv, AddInv
    <3> QED BY <1>4, <1>8, <3>1
  <2>3. Adding' = Adding
    BY DEF Adding
  <2> QED BY <2>1, <2>2, <2>3 DEF AddInv
<1>10. RecordInv'
  <2> SUFFICES ASSUME NEW n \in Shown' PROVE n \in sdk'[1] \/ \E u \in Thread : pc'[u] \in Adding' /\ n \in Wanted(u)'
    BY DEF RecordInv
  <2>1. n \in Shown
    BY DEF Shown
  <2>2. CASE n \in sdk[1]
    BY <2>2
  <2>3. ASSUME NEW u \in Thread, pc[u] \in Adding, n \in Wanted(u)
        PROVE  \E v \in Thread : pc'[v] \in Adding' /\ n \in Wanted(v)'
    <3>1. u # t
      BY <2>3 DEF Adding
    <3> QED BY <1>4, <1>8, <2>3, <3>1 DEF Adding
  <2> QED BY <2>1, <2>2, <2>3 DEF ViewInv, RecordInv
<1> QED BY <1>5, <1>6, <1>7, <1>9, <1>10 DEF ViewInv

\* One tool is added.
LEMMA ViewAdds ==
  ASSUME TypeOK, ViewInv, NEW t \in Thread, addSessionTool(t)
  PROVE  /\ ViewInv'
         /\ \E n \in Wanted(t) : serves'[1] = serves[1] \cup {n}
<1>1. PICK n \in todo[t] : /\ serves' = [serves EXCEPT ![target[t]] = @ \cup {n}]
                           /\ todo' = [todo EXCEPT ![t] = @ \ {n}]
  BY DEF addSessionTool
<1>2. UNCHANGED <<bound, sdk, tools, target, kind, pc>> /\ pc[t] \in Adding
  BY DEF addSessionTool, objVars
<1>3. /\ todo \in [Thread -> SUBSET Tool] /\ serves \in [Srv -> SUBSET Tool] /\ 1 \in Srv
  BY Ranges DEF TypeOK, SrvOK, ThreadOK
<1>4. target[t] = 1 /\ n \in Wanted(t)
  BY <1>2 DEF ViewInv, AddInv
<1>5. serves'[1] = serves[1] \cup {n}
  BY <1>1, <1>3, <1>4
<1>6. \A u \in Thread : Wanted(u)' = Wanted(u)
  BY <1>2 DEF Wanted, Visible
<1>7. AimInv' /\ LockInv'
  BY <1>2 DEF ViewInv, AimInv, LockInv, Kind, Adding
<1>8. AddInv'
  <2> SUFFICES ASSUME NEW u \in Thread, pc[u] \in Adding
               PROVE  /\ target[u] = 1 /\ todo'[u] \subseteq Wanted(u)
                      /\ Wanted(u) \ todo'[u] \subseteq serves'[1]
    BY <1>2, <1>6 DEF AddInv, Adding
  <2>1. target[u] = 1 /\ todo[u] \subseteq Wanted(u) /\ Wanted(u) \ todo[u] \subseteq serves[1]
    BY DEF ViewInv, AddInv
  <2>2. CASE u = t
    <3>1. todo'[t] = todo[t] \ {n}
      BY <1>1, <1>3
    <3> QED BY <1>5, <2>1, <2>2, <3>1
  <2>3. CASE u # t
    <3>1. todo'[u] = todo[u]
      BY <1>1, <1>3, <2>3
    <3> QED BY <1>5, <2>1, <3>1
  <2> QED BY <2>2, <2>3
<1>9. RecordInv'
  <2> SUFFICES ASSUME NEW x \in Shown' PROVE x \in sdk[1] \/ \E u \in Thread : pc[u] \in Adding /\ x \in Wanted(u)
    BY <1>2, <1>6 DEF RecordInv, Adding
  <2>1. x \in Shown \/ x = n
    BY <1>5 DEF Shown
  <2>2. CASE x \in Shown
    BY <2>2 DEF ViewInv, RecordInv
  <2>3. CASE x = n
    BY <1>2, <1>4, <2>3
  <2> QED BY <2>1, <2>2, <2>3
<1> QED BY <1>4, <1>5, <1>7, <1>8, <1>9 DEF ViewInv

\* The tools that went away are removed, and cs.mu is unlocked.
LEMMA ViewRemoves ==
  ASSUME TypeOK, IdleInv, SoloInv, ViewInv, NEW t \in Thread, RemoveTools(t)
  PROVE  /\ ViewInv'
         /\ kind[t] \in Kind /\ Wanted(t) \subseteq serves'[1]
         /\ serves'[1] = serves[1] \ ((sdk[1] \cap kind[t]) \ Visible(tools[1]))
         /\ \A n \in kind[t] \ (AddOnly \cup Global) : n \in serves'[1] => n \in Wanted(t)
<1>1. /\ pc[t] \in Adding /\ todo[t] = {} /\ UNCHANGED <<bound, tools, target, kind, todo>>
      /\ serves' = [serves EXCEPT ![target[t]] = @ \ ((sdk[held[t]] \cap kind[t]) \ Visible(tools[held[t]]))]
      /\ sdk' = [sdk EXCEPT ![held[t]] = (@ \ kind[t]) \cup (Visible(tools[held[t]]) \cap (kind[t] \ AddOnly))]
      /\ pc' = [pc EXCEPT ![t] = Synced(t)]
  BY DEF RemoveTools, thrVars, Goto
<1>2. held[t] = 1 /\ target[t] = 1 /\ kind[t] \in Kind
  BY <1>1, Tooled DEF ViewInv, AddInv, AimInv
<1>3. /\ pc \in [Thread -> Label] /\ serves \in [Srv -> SUBSET Tool] /\ 1 \in Srv
      /\ sdk \in [Obj -> SUBSET Tool] /\ 1 \in Obj
  BY Ranges DEF TypeOK, ObjOK, SrvOK, ThreadOK
<1>4. serves'[1] = serves[1] \ ((sdk[1] \cap kind[t]) \ Visible(tools[1]))
  BY <1>1, <1>2, <1>3
<1>5. sdk'[1] = (sdk[1] \ kind[t]) \cup (Visible(tools[1]) \cap (kind[t] \ AddOnly))
  BY <1>1, <1>2, <1>3
<1>6. \A u \in Thread : Wanted(u)' = Wanted(u)
  BY <1>1 DEF Wanted, Visible
<1>7. Synced(t) \notin {"loadBound", "sync"} \cup Adding
  <2>1. Synced(t) = IF pc[t] = "add" THEN Hooked(t) ELSE IF pc[t] = "addFinal" THEN "final2" ELSE "return"
    BY <1>1, SMTT(30) DEF Synced, Adding
  <2> QED BY <2>1 DEF Hooked, Adding
<1>8. \A u \in Thread : pc'[u] \in Adding <=> u # t /\ pc[u] \in Adding
  BY <1>1, <1>3, <1>7
<1>9. AimInv'
  BY <1>1, <1>3, <1>7, <1>8 DEF ViewInv, AimInv, Kind, Adding
<1>10. LockInv'
  BY <1>1, <1>8 DEF ViewInv, LockInv, Adding
<1>11. \A u \in Thread : pc[u] \in Adding => Wanted(u) \ todo[u] \subseteq serves'[1]
  BY <1>4 DEF ViewInv, AddInv, Wanted
<1>12. AddInv'
  BY <1>1, <1>6, <1>8, <1>11 DEF ViewInv, AddInv, Adding
<1>13. \A n \in Shown' : /\ n \in Shown
                         /\ n \in kind[t] => n \in Wanted(t)
  <2> SUFFICES ASSUME NEW n \in Shown' PROVE n \in Shown /\ (n \in kind[t] => n \in Wanted(t))
    OBVIOUS
  <2>1. n \in Shown /\ ~(n \in sdk[1] /\ n \in kind[t] /\ n \notin Visible(tools[1]))
    BY <1>4 DEF Shown
  <2>2. n \in sdk[1] \/ n \in Visible(tools[1])
    BY <2>1 DEF ViewInv, RecordInv, Wanted
  <2> QED BY <2>1, <2>2 DEF Wanted
<1>14. RecordInv'
  <2> SUFFICES ASSUME NEW n \in Shown' PROVE n \in sdk'[1] \/ \E u \in Thread : pc'[u] \in Adding /\ n \in Wanted(u)
    BY <1>6 DEF RecordInv, Adding
  <2>0. n \notin AddOnly
    BY DEF Shown
  <2>1. CASE n \in kind[t]
    BY <1>5, <1>13, <2>0, <2>1 DEF Wanted
  <2>2. CASE n \notin kind[t]
    <3>1. CASE n \in sdk[1]
      BY <1>5, <2>2, <3>1
    <3>2. ASSUME NEW u \in Thread, pc[u] \in Adding, n \in Wanted(u) PROVE pc'[u] \in Adding
      BY <1>8, <2>2, <3>2 DEF Wanted
    <3> QED BY <1>13, <3>1, <3>2 DEF ViewInv, RecordInv
  <2> QED BY <2>1, <2>2
<1>15. Wanted(t) \subseteq serves'[1]
  BY <1>1, <1>11
<1>16. \A n \in kind[t] \ (AddOnly \cup Global) : n \in serves'[1] => n \in Wanted(t)
  BY <1>13 DEF Shown
<1> QED BY <1>2, <1>4, <1>9, <1>10, <1>12, <1>14, <1>15, <1>16 DEF ViewInv

\* A reconciliation of kind k locks cs.mu.
Locks(t) ==
  \E k \in Kind, m \in Adding :
    syncSession(t, 1, k) /\ pc' = [pc EXCEPT ![t] = m] /\ (pc[t] = "sync" => k = kind[t])

\* A Sync or FinalSync before a DELETE skips the reconciliation or begins one.
LEMMA SyncBegins ==
  ASSUME TypeOK, IdleInv, SoloInv, ViewInv, NEW t \in Thread, Sync(t) \/ FinalSync(t)
  PROVE  /\ UNCHANGED <<bound, serves, sdk, tools>> /\ pc[t] \in {"sync", "final", "final2"}
         /\ \/ /\ pc[t] = "sync" /\ target[t] = 0 /\ pc' = [pc EXCEPT ![t] = Hooked(t)]
               /\ UNCHANGED <<target, kind, todo>>
            \/ Locks(t)
<1>1. UNCHANGED <<bound, serves, sdk, tools>> /\ pc[t] \in {"sync", "final", "final2"}
  BY DEF Sync, FinalSync, objVars, srvVars
<1>2. srv[t] = 1 /\ target[t] \in {0, 1} /\ (pc[t] = "sync" => kind[t] \in Kind)
  BY <1>1, Tooled DEF ViewInv, AimInv
<1>3. CASE Sync(t)
  BY <1>1, <1>2, <1>3 DEF Sync, Goto, Adding, Locks
<1>4. CASE FinalSync(t)
  BY <1>1, <1>2, <1>4 DEF FinalSync, Goto, Adding, Kind, Locks
<1> QED BY <1>1, <1>3, <1>4

LEMMA ViewStep ==
  ASSUME TypeOK, IdleInv, SoloInv, ViewInv, [Next]_vars, ~Deleted'
  PROVE  ViewInv'
<1>1. /\ 1 \in Obj /\ 1 \in Srv /\ 0 \notin Obj /\ bound \in [Obj -> Srv \cup {0}] /\ pc \in [Thread -> Label]
      /\ target \in [Thread -> Srv \cup {0}] /\ serves \in [Srv -> SUBSET Tool] /\ bound[1] \in {0, 1}
  BY Ranges DEF TypeOK, ObjOK, SrvOK, ThreadOK, ViewInv, AimInv
<1>2. ASSUME NEW t \in Thread, NEW m, pc' = [pc EXCEPT ![t] = m], m \notin {"loadBound", "sync"} \cup Adding,
             pc[t] \notin Adding, bound'[1] \in {0, 1}, UNCHANGED <<target, serves, sdk, kind, todo, tools>>
      PROVE  ViewInv'
  <2>1. \A u \in Thread : /\ pc'[u] \in Adding <=> pc[u] \in Adding
                          /\ pc'[u] \in {"loadBound", "sync"} => pc[u] \in {"loadBound", "sync"}
    BY <1>1, <1>2
  <2> QED BY <1>2, <2>1, ViewFrame
<1>3. ASSUME NEW t \in Thread, StartInit(t) \/ (StartRehydrated(t) /\ cached = 0) PROVE ViewInv'
  <2>1. nsrv = 0
    BY <1>3 DEF StartInit, StartRehydrated, SoloInv, Local, Remote
  <2>2. serves'[1] = Global /\ UNCHANGED <<bound, target, sdk, kind>>
    BY <1>1, <1>3, <2>1, SMTT(30) DEF StartInit, StartRehydrated, buildServer, objVars
  <2>3. \E m \in {"load", "rload"} : pc' = [pc EXCEPT ![t] = m]
    BY <1>3 DEF StartInit, StartRehydrated, Goto
  <2>4. \A u \in Thread : pc'[u] \notin {"loadBound", "sync"} \cup Adding
    BY <1>1, <2>1, <2>3 DEF SoloInv, Adding
  <2> QED BY <2>2, <2>4, ViewStarts
<1>4. ASSUME NEW t \in Thread, Bind(t) \/ bindRehydratedSession(t) PROVE ViewInv'
  <2>1. srv[t] = 1 /\ pc[t] \in {"bind", "rbind"}
    BY <1>4, ZenonT(30) DEF Bind, bindRehydratedSession, SoloInv
  <2>2. bound'[1] \in {bound[1], 1} /\ UNCHANGED <<target, serves, sdk, kind, todo, tools>>
    BY <1>1, <1>4, <2>1 DEF Bind, bindRehydratedSession, srvVars, thrVars
  <2>3. \E m \in {"mark", "load"} : pc' = [pc EXCEPT ![t] = m]
    BY <1>4 DEF Bind, bindRehydratedSession, Goto
  <2>4. bound'[1] \in {0, 1}
    BY <1>1, <2>2
  <2> QED BY <1>2, <2>1, <2>2, <2>3, <2>4 DEF Adding
<1>5. ASSUME NEW t \in Thread, LoadBound(t) PROVE ViewInv'
  <2>1. held[t] = 1
    BY <1>5, Tooled DEF LoadBound
  <2>2. UNCHANGED <<bound, serves, sdk, kind, todo, tools>> /\ target' = [target EXCEPT ![t] = bound[1]]
    BY <1>5, <2>1 DEF LoadBound, objVars, srvVars
  <2>3. pc[t] = "loadBound" /\ pc' = [pc EXCEPT ![t] = "sync"]
    BY <1>5 DEF LoadBound, Goto
  <2>4. \A u \in Thread : pc'[u] \in Adding <=> pc[u] \in Adding
    BY <1>1, <2>3 DEF Adding
  <2>5. \A u \in Thread : pc[u] \in Adding => target'[u] = target[u]
    BY <1>1, <2>2, <2>3 DEF Adding
  <2>6. \A u \in Thread : Wanted(u)' = Wanted(u)
    BY <2>2 DEF Wanted, Visible
  <2>7. AimInv'
    BY <1>1, <2>2, <2>3, <2>4 DEF ViewInv, AimInv, Kind, Adding
  <2>8. LockInv'
    BY <2>2, <2>4 DEF ViewInv, LockInv, Adding
  <2>9. AddInv'
    BY <2>2, <2>4, <2>5, <2>6 DEF ViewInv, AddInv, Adding
  <2>10. RecordInv'
    BY <2>2, <2>4, <2>6 DEF ViewInv, RecordInv, Shown, Adding
  <2> QED BY <2>7, <2>8, <2>9, <2>10 DEF ViewInv
<1>6. ASSUME NEW t \in Thread, Sync(t) \/ FinalSync(t) PROVE ViewInv'
  <2>1. /\ UNCHANGED <<bound, serves, sdk, tools>> /\ pc[t] \in {"sync", "final", "final2"}
        /\ \/ /\ pc[t] = "sync" /\ target[t] = 0 /\ pc' = [pc EXCEPT ![t] = Hooked(t)]
              /\ UNCHANGED <<target, kind, todo>>
           \/ Locks(t)
    BY <1>6, SyncBegins
  <2>2. CASE pc' = [pc EXCEPT ![t] = Hooked(t)] /\ UNCHANGED <<target, kind, todo>>
    <3>1. Hooked(t) \notin {"loadBound", "sync"} \cup Adding /\ pc[t] \notin Adding
      BY <2>1 DEF Hooked, Adding
    <3> QED BY <1>1, <1>2, <2>1, <2>2, <3>1
  <2>3. CASE Locks(t)
    <3>1. PICK k \in Kind, m \in Adding : syncSession(t, 1, k) /\ pc' = [pc EXCEPT ![t] = m]
      BY <2>3 DEF Locks
    <3> QED BY <2>1, <3>1, ViewLocks
  <2> QED BY <2>1, <2>2, <2>3
<1>7. ASSUME NEW t \in Thread,
             \/ StartLocal(t) \/ (StartRehydrated(t) /\ cached # 0) \/ StartDelete(t) \/ Dispatched(t)
             \/ MarkLocal(t) \/ Once(t) \/ HookQuiet(t) \/ Return(t) \/ Drop(t) \/ LoadAndDelete(t)
             \/ forgetSession(t) \/ Terminate(t)
      PROVE ViewInv'
  <2>1. UNCHANGED <<bound, target, serves, sdk, kind, todo, tools>>
    BY <1>7 DEF StartLocal, StartRehydrated, StartDelete, Dispatched, MarkLocal, Once, HookQuiet, Return,
                Drop, LoadAndDelete, forgetSession, Terminate, objVars, srvVars, thrVars
  <2>2. \E m : pc' = [pc EXCEPT ![t] = m] /\ m \notin {"loadBound", "sync"} \cup Adding
    BY <1>7 DEF StartLocal, StartRehydrated, StartDelete, Dispatched, MarkLocal, Once, HookQuiet,
                Return, Drop, LoadAndDelete, forgetSession, Terminate, Hooked, Goto, Adding
  <2>3. pc[t] \notin Adding
    BY <1>7 DEF StartLocal, StartRehydrated, StartDelete, Dispatched, MarkLocal, Once, HookQuiet,
                Return, Drop, LoadAndDelete, forgetSession, Terminate, Adding
  <2> QED BY <1>1, <1>2, <2>1, <2>2, <2>3
<1>8. ASSUME NEW t \in Thread, sessionFor(t) PROVE ViewInv'
  <2>1. UNCHANGED <<bound, target, serves, sdk, kind, todo, tools>>
    BY <1>8 DEF sessionFor, Load, newClientSession, LoadOrStore, objVars, srvVars
  <2>2. \E m : pc' = [pc EXCEPT ![t] = m] /\ m \notin {"loadBound", "sync"} \cup Adding
    BY <1>8, SMTT(30) DEF sessionFor, Load, newClientSession, LoadOrStore, After, Missing, Goto, Adding
  <2>3. pc[t] \notin Adding
    BY <1>8, SMTT(30) DEF sessionFor, Load, newClientSession, LoadOrStore, Missing, Adding
  <2> QED BY <1>1, <1>2, <2>1, <2>2, <2>3
<1>9. CASE UNCHANGED vars
  <2>1. UNCHANGED <<bound, target, serves, sdk, kind, todo, tools, pc>>
    BY <1>9 DEF vars, objVars, srvVars, thrVars
  <2> QED BY <1>1, <2>1, ViewFrame
<1> QED BY <1>3, <1>4, <1>5, <1>6, <1>7, <1>8, <1>9, ViewSets, ViewAdds, ViewRemoves DEF Next, Start, Step

---------------------------------------------------------------------------
Inv == TypeOK /\ IdleInv /\ (~Deleted => SoloInv /\ ViewInv)

LEMMA InitInv == Init => Inv
<1> SUFFICES ASSUME Init PROVE Inv
  OBVIOUS
<1>1. TypeOK /\ IdleInv
  BY TypeInit
<1>2. SoloInv
  BY SMTT(30) DEF Init, SoloInv
<1>3. ViewInv
  BY Ranges DEF Init, ViewInv, AimInv, LockInv, AddInv, RecordInv, Shown, Adding
<1> QED BY <1>1, <1>2, <1>3 DEF Inv

LEMMA NextInv == Inv /\ [Next]_vars => Inv'
  BY TypeStep, DeletedStays, SoloStep, ViewStep DEF Inv

\* What ToolView calls overlay, view and phase.
Stored == IF entry = 0 THEN Empty ELSE tools[entry]
View == IF nsrv = 0 \/ Deleted THEN {} ELSE Shown
Phase == IF nsrv = 0 \/ Deleted THEN "down" ELSE IF Syncing THEN "syncing" ELSE "idle"

\* The steps of ToolView.
ViewMove ==
  \/ UNCHANGED <<View, Phase>> /\ (Phase # "syncing" \/ Stored' = Stored)
  \/ Stored' = Stored /\ View' = View /\ <<Phase, Phase'>> \in {<<"down", "idle">>, <<"idle", "syncing">>}
  \/ /\ UNCHANGED <<Stored, Phase>> /\ Phase = "syncing"
     /\ \E n \in Own(Stored) : View' = View \cup {n}
  \/ /\ Stored' = Stored /\ Phase = "syncing" /\ Phase' = "idle"
     /\ Own(Stored) \subseteq View /\ View' = Own(Stored)
  \/ Stored' = Stored /\ View' = {} /\ Phase' = "down"

\* The last step of a reconciliation settles what is shown.
LEMMA Settles ==
  ASSUME TypeOK, IdleInv, SoloInv, ViewInv, NEW t \in Thread, RemoveTools(t)
  PROVE  IF kind[t] = AddOnly
         THEN Shown' = Shown /\ Syncing' = Syncing
         ELSE /\ Syncing /\ ~Syncing'
              /\ Own(tools[1]) \subseteq Shown /\ Shown' = Own(tools[1])
<1>1. /\ pc[t] \in Adding /\ todo[t] = {} /\ kind' = kind /\ pc' = [pc EXCEPT ![t] = Synced(t)]
  BY DEF RemoveTools, thrVars, Goto
<1>2. /\ kind[t] \in Kind /\ Wanted(t) \subseteq serves'[1]
      /\ serves'[1] = serves[1] \ ((sdk[1] \cap kind[t]) \ Visible(tools[1]))
      /\ \A n \in kind[t] \ (AddOnly \cup Global) : n \in serves'[1] => n \in Wanted(t)
  BY ViewRemoves
<1>3. Synced(t) \notin Adding
  <2>1. Synced(t) = IF pc[t] = "add" THEN Hooked(t) ELSE IF pc[t] = "addFinal" THEN "final2" ELSE "return"
    BY <1>1, SMTT(30) DEF Synced, Adding
  <2> QED BY <2>1 DEF Hooked, Adding
<1>4. pc \in [Thread -> Label]
  BY DEF TypeOK, ThreadOK
<1>5. \A u \in Thread : pc'[u] \in Adding <=> u # t /\ pc[u] \in Adding
  BY <1>1, <1>3, <1>4
<1>6. CASE kind[t] = AddOnly
  <2>1. Shown' = Shown
    BY <1>2, <1>6 DEF Shown
  <2>2. Syncing' = Syncing
    BY <1>1, <1>5, <1>6 DEF Syncing, Adding
  <2> QED BY <1>6, <2>1, <2>2
<1>7. CASE kind[t] # AddOnly
  <2>1. kind[t] = Tool \ AddOnly /\ Syncing
    BY <1>1, <1>2, <1>7 DEF Kind, Syncing
  <2>2. \A u \in Thread \ {t} : pc[u] \notin Adding
    BY <1>1, <1>7 DEF ViewInv, LockInv
  <2>3. ~Syncing'
    BY <1>5, <2>2 DEF Syncing, Adding
  <2>4. Wanted(t) \subseteq serves[1]
    BY <1>2
  <2>5. Own(tools[1]) = Wanted(t) \ Global
    BY <2>1 DEF Own, Wanted, Visible
  <2>6. serves'[1] \subseteq Tool
    BY <1>2, Ranges DEF TypeOK, SrvOK
  <2>7. Shown' = Own(tools[1])
    BY <1>2, <2>1, <2>5, <2>6 DEF Shown, Wanted
  <2>8. Own(tools[1]) \subseteq Shown
    BY <2>1, <2>4, <2>5 DEF Shown, Wanted
  <2> QED BY <1>7, <2>1, <2>3, <2>7, <2>8
<1> QED BY <1>6, <1>7

\* Every step of SessionRegistry is one of ToolView, or changes nothing it has.
LEMMA ViewSimulation == ASSUME Inv, [Next]_vars PROVE ViewMove
<1>1. CASE Deleted'
  <2>1. View' = {} /\ Phase' = "down"
    BY <1>1 DEF View, Phase
  <2>2. CASE Deleted
    BY <2>1, <2>2 DEF View, Phase, ViewMove
  <2>3. CASE ~Deleted
    <3>1. PICK t \in Thread : op'[t] = "delete" /\ op[t] # "delete"
      BY <1>1, <2>3 DEF Deleted
    <3>2. op \in [Thread -> Op]
      BY DEF Inv, TypeOK, ThreadOK
    <3>3. ASSUME NEW u \in Thread, Step(u) PROVE op' = op
      BY <3>3 DEF Step, sessionFor, Load, newClientSession, LoadOrStore, Dispatched, Bind, MarkLocal,
                  Once, bindRehydratedSession, HookQuiet, SetSessionTools, LoadBound, Sync, FinalSync,
                  addSessionTool, RemoveTools, Return, Drop, LoadAndDelete, forgetSession, Terminate, thrVars
    <3>4. \E u \in Thread : Start(u)
      BY <3>1, <3>3 DEF Next, vars, thrVars
    <3>5. UNCHANGED <<entry, tools>>
      BY <3>4 DEF Start, StartInit, StartLocal, StartRehydrated, StartDelete, objVars
    <3> QED BY <2>1, <3>5 DEF Stored, ViewMove
  <2> QED BY <2>2, <2>3
<1>2. CASE ~Deleted'
  <2>1. ~Deleted /\ TypeOK /\ IdleInv /\ SoloInv /\ ViewInv
    BY <1>2, DeletedStays DEF Inv
  <2>2. /\ serves \in [Srv -> SUBSET Tool] /\ 1 \in Srv /\ pc \in [Thread -> Label]
        /\ kind \in [Thread -> SUBSET Tool]
    BY <2>1, Ranges DEF TypeOK, SrvOK, ThreadOK
  <2>3. ASSUME UNCHANGED <<nsrv, serves>>, Syncing' <=> Syncing, Syncing => UNCHANGED <<entry, tools>> PROVE ViewMove
    <3>1. UNCHANGED <<View, Phase>>
      BY <1>2, <2>1, <2>3 DEF View, Phase, Shown
    <3>2. Phase # "syncing" \/ Stored' = Stored
      BY <2>3 DEF Phase, Stored
    <3> QED BY <3>1, <3>2 DEF ViewMove
  <2>4. ASSUME NEW t \in Thread, NEW m, kind' = kind, pc' = [pc EXCEPT ![t] = m], m \notin Adding, pc[t] \notin Adding
        PROVE  Syncing' = Syncing
    BY <2>2, <2>4 DEF Syncing, Adding
  <2>5. Syncing => entry = 1 /\ nsrv = 1
    BY <2>1, Tooled DEF Syncing
  <2>6. ASSUME NEW t \in Thread, StartInit(t) \/ (StartRehydrated(t) /\ cached = 0) PROVE ViewMove
    <3>1. nsrv = 0
      BY <2>1, <2>6 DEF StartInit, StartRehydrated, SoloInv, Local, Remote
    <3>2. /\ serves'[1] = Global /\ nsrv' = 1 /\ UNCHANGED <<entry, tools, kind>>
      BY <2>2, <2>6, <3>1, SMTT(30) DEF StartInit, StartRehydrated, buildServer, objVars
    <3>3. \E m \in {"load", "rload"} : pc' = [pc EXCEPT ![t] = m]
      BY <2>6 DEF StartInit, StartRehydrated, Goto
    <3>4. pc[t] = "idle"
      BY <2>6 DEF StartInit, StartRehydrated
    <3>5. ~Syncing /\ ~Syncing'
      <4>1. ~Syncing
        BY <2>5, <3>1, SMTT(30)
      <4> QED BY <2>4, <3>2, <3>3, <3>4, <4>1 DEF Adding
    <3>6. nsrv' # 0
      BY <3>2, SMTT(30)
    <3>7. Phase = "down" /\ Phase' = "idle"
      BY <1>2, <3>1, <3>5, <3>6 DEF Phase
    <3>8. View = {} /\ View' = {} /\ Stored' = Stored
      BY <3>1, <3>2 DEF View, Shown, Stored
    <3> QED BY <3>7, <3>8 DEF ViewMove
  <2>7. ASSUME NEW t \in Thread, Sync(t) \/ FinalSync(t) PROVE ViewMove
    <3>1. /\ UNCHANGED <<bound, serves, sdk, tools>> /\ pc[t] \in {"sync", "final", "final2"}
          /\ \/ /\ pc[t] = "sync" /\ target[t] = 0 /\ pc' = [pc EXCEPT ![t] = Hooked(t)]
                /\ UNCHANGED <<target, kind, todo>>
             \/ Locks(t)
      BY <2>1, <2>7, SyncBegins
    <3>2. UNCHANGED <<entry, nsrv>> /\ pc[t] \notin Adding
      BY <2>7, <3>1 DEF Sync, FinalSync, srvVars, Adding
    <3>3. CASE pc' = [pc EXCEPT ![t] = Hooked(t)] /\ UNCHANGED <<target, kind, todo>>
      <4>1. Hooked(t) \notin Adding
        BY DEF Hooked, Adding
      <4>2. Syncing' = Syncing
        BY <2>4, <3>2, <3>3, <4>1
      <4> QED BY <2>3, <3>1, <3>2, <4>2
    <3>4. CASE Locks(t)
      <4>0. PICK k \in Kind, m \in Adding : syncSession(t, 1, k) /\ pc' = [pc EXCEPT ![t] = m]
        BY <3>4 DEF Locks
      <4>1. \A u \in Thread \ {t} : pc[u] \in Adding => k = AddOnly /\ kind[u] = AddOnly
        BY <2>1, <3>1, <4>0, ViewLocks
      <4>2. pc'[t] = m /\ kind'[t] = k /\ \A u \in Thread \ {t} : pc'[u] = pc[u] /\ kind'[u] = kind[u]
        BY <2>2, <4>0 DEF syncSession
      <4>3. ~Syncing
        BY <3>2, <4>1 DEF Syncing
      <4>4. CASE k = AddOnly
        <5>1. ~Syncing'
          BY <4>1, <4>2, <4>4 DEF Syncing, Adding
        <5> QED BY <2>3, <3>1, <3>2, <4>3, <5>1
      <4>5. CASE k # AddOnly
        <5>1. Syncing'
          BY <4>2, <4>5 DEF Syncing, Adding
        <5>2. nsrv # 0
          <6>1. nsrv = 1
            BY <2>1, <3>1, Tooled
          <6> QED BY <6>1, SMTT(30)
        <5>3. Phase = "idle" /\ Phase' = "syncing"
          BY <1>2, <2>1, <3>2, <4>3, <5>1, <5>2 DEF Phase
        <5>4. View' = View /\ Stored' = Stored
          BY <1>2, <2>1, <3>1, <3>2 DEF View, Shown, Stored
        <5> QED BY <5>3, <5>4 DEF ViewMove
      <4> QED BY <4>4, <4>5
    <3> QED BY <3>1, <3>3, <3>4
  <2>8. ASSUME NEW t \in Thread, addSessionTool(t) \/ RemoveTools(t) PROVE ViewMove
    <3>1. UNCHANGED <<entry, nsrv, tools, kind>> /\ pc[t] \in Adding
      BY <2>8 DEF addSessionTool, RemoveTools, objVars, thrVars
    <3>2. entry = 1 /\ nsrv = 1
      BY <2>1, <3>1, Tooled
    <3>3. nsrv # 0 /\ entry # 0
      BY <3>2, SMTT(30)
    <3>4. /\ Stored = tools[1] /\ Stored' = Stored /\ View = Shown /\ View' = Shown'
          /\ Phase = (IF Syncing THEN "syncing" ELSE "idle")
          /\ Phase' = (IF Syncing' THEN "syncing" ELSE "idle")
      BY <1>2, <2>1, <3>1, <3>2, <3>3 DEF Stored, View, Phase
    <3>5. CASE addSessionTool(t)
      <4>1. pc' = pc
        BY <3>5 DEF addSessionTool
      <4>2. Phase' = Phase
        BY <3>1, <3>4, <4>1 DEF Syncing, Adding
      <4>3. PICK n \in Wanted(t) : serves'[1] = serves[1] \cup {n}
        BY <2>1, <3>5, ViewAdds
      <4>4. CASE n \in Global \cup AddOnly
        <5>1. Shown' = Shown
          BY <4>3, <4>4 DEF Shown
        <5> QED BY <3>4, <4>2, <5>1 DEF ViewMove
      <4>5. CASE n \notin Global \cup AddOnly
        <5>1. n \in Own(Stored) /\ kind[t] # AddOnly
          BY <3>4, <4>3, <4>5 DEF Own, Wanted
        <5>2. Shown' = Shown \cup {n}
          BY <4>3, <4>5 DEF Shown
        <5>3. Phase = "syncing"
          BY <3>1, <3>4, <5>1 DEF Syncing
        <5> QED BY <3>4, <4>2, <5>1, <5>2, <5>3 DEF ViewMove
      <4> QED BY <4>4, <4>5
    <3>6. CASE RemoveTools(t)
      <4>1. IF kind[t] = AddOnly
            THEN Shown' = Shown /\ Syncing' = Syncing
            ELSE /\ Syncing /\ ~Syncing'
                 /\ Own(tools[1]) \subseteq Shown /\ Shown' = Own(tools[1])
        BY <2>1, <3>6, Settles
      <4>2. CASE kind[t] = AddOnly
        BY <3>4, <4>1, <4>2 DEF ViewMove
      <4>3. CASE kind[t] # AddOnly
        BY <3>4, <4>1, <4>3 DEF ViewMove
      <4> QED BY <4>2, <4>3
    <3> QED BY <2>8, <3>5, <3>6
  <2>9. ASSUME NEW t \in Thread, SetSessionTools(t) PROVE ViewMove
    <3>1. Lockable(t) /\ pc[t] = "hook" /\ pc' = [pc EXCEPT ![t] = "loadBound"] /\ UNCHANGED <<nsrv, serves>>
      BY <2>9 DEF SetSessionTools, Goto, srvVars
    <3>2. \A u \in Thread : pc[u] \notin Adding
      BY <2>1, <3>1, Tooled DEF Lockable, Adding
    <3>3. ~Syncing /\ ~Syncing'
      BY <2>2, <3>1, <3>2 DEF Syncing, Adding
    <3> QED BY <2>3, <3>1, <3>3
  <2>10. ASSUME NEW t \in Thread, sessionFor(t) PROVE ViewMove
    <3>1. UNCHANGED <<nsrv, serves, tools, kind>>
      BY <2>10 DEF sessionFor, Load, newClientSession, LoadOrStore, objVars, srvVars
    <3>2. \E m : pc' = [pc EXCEPT ![t] = m] /\ m \notin Adding
      BY <2>10, SMTT(30) DEF sessionFor, Load, newClientSession, LoadOrStore, After, Missing, Goto, Adding
    <3>3. pc[t] \notin Adding
      BY <2>10, SMTT(30) DEF sessionFor, Load, newClientSession, LoadOrStore, Missing, Adding
    <3>4. Syncing => entry' = entry
      <4>1. entry # 0 => entry' = entry
        BY <2>10 DEF sessionFor, Load, newClientSession, LoadOrStore
      <4> QED BY <2>5, <4>1, SMTT(30)
    <3>5. Syncing' = Syncing
      BY <2>4, <3>1, <3>2, <3>3
    <3> QED BY <2>3, <3>1, <3>4, <3>5
  <2>11. ASSUME NEW t \in Thread,
               \/ StartLocal(t) \/ (StartRehydrated(t) /\ cached # 0) \/ Dispatched(t) \/ Bind(t) \/ MarkLocal(t)
               \/ Once(t) \/ bindRehydratedSession(t) \/ HookQuiet(t) \/ LoadBound(t) \/ Return(t)
         PROVE ViewMove
    <3>1. UNCHANGED <<nsrv, serves, entry, tools, kind>>
      BY <2>11 DEF StartLocal, StartRehydrated, Dispatched, Bind, MarkLocal, Once, bindRehydratedSession,
                   HookQuiet, LoadBound, Return, objVars, srvVars, thrVars
    <3>2. \E m : pc' = [pc EXCEPT ![t] = m] /\ m \notin Adding
      BY <2>11 DEF StartLocal, StartRehydrated, Dispatched, Bind, MarkLocal, Once, bindRehydratedSession,
                   HookQuiet, LoadBound, Return, Hooked, Goto, Adding
    <3>3. pc[t] \notin Adding
      BY <2>11 DEF StartLocal, StartRehydrated, Dispatched, Bind, MarkLocal, Once, bindRehydratedSession,
                   HookQuiet, LoadBound, Return, Adding
    <3>4. Syncing' = Syncing
      BY <2>4, <3>1, <3>2, <3>3
    <3> QED BY <2>3, <3>1, <3>4
  <2>12. ASSUME NEW t \in Thread, StartDelete(t) \/ Drop(t) \/ LoadAndDelete(t) \/ forgetSession(t) \/ Terminate(t)
         PROVE FALSE
    <3>1. \A u \in Thread : pc[u] \notin Deleting /\ op'[u] # "delete"
      BY <1>2, <2>1 DEF SoloInv, IdleInv, Deleted
    <3>2. StartDelete(t) => op'[t] = "delete"
      BY <2>1 DEF StartDelete, TypeOK, ThreadOK
    <3> QED BY <2>12, <3>1, <3>2 DEF Drop, LoadAndDelete, forgetSession, Terminate, Deleting
  <2>13. CASE UNCHANGED vars
    <3>1. UNCHANGED <<nsrv, serves, entry, tools, kind, pc>>
      BY <2>13 DEF vars, objVars, srvVars, thrVars
    <3>2. Syncing' = Syncing
      BY <3>1 DEF Syncing, Adding
    <3> QED BY <2>3, <3>1, <3>2
  <2> QED BY <2>6, <2>7, <2>8, <2>9, <2>10, <2>11, <2>12, <2>13 DEF Next, Start, Step
<1> QED BY <1>1, <1>2

\* However SetSession* calls, registrations and rehydrations interleave, what tools/list shows a
\* client at any moment is one stored overlay as a whole or, within a reconciliation, a mixture
\* that misses no tool shown before which is in the overlay, and that ends as the overlay:
\* SessionRegistry implements ToolView (session.go, syncSessionTools).
THEOREM Implements == Spec => ImplementsToolView
<1>1. Init => TV!Init
  BY EmptyType DEF Init, TV!Init
<1>2. Inv /\ Inv' /\ [Next]_vars =>
        [TV!Next]_<<IF entry = 0 THEN Empty ELSE tools[entry],
                    IF nsrv = 0 \/ Deleted THEN {} ELSE Shown,
                    IF nsrv = 0 \/ Deleted THEN "down" ELSE IF Syncing THEN "syncing" ELSE "idle">>
  <2> SUFFICES ASSUME Inv, Inv', [Next]_vars
               PROVE  [TV!Next]_<<IF entry = 0 THEN Empty ELSE tools[entry],
                                  IF nsrv = 0 \/ Deleted THEN {} ELSE Shown,
                                  IF nsrv = 0 \/ Deleted THEN "down" ELSE IF Syncing THEN "syncing" ELSE "idle">>
    OBVIOUS
  <2>1. Stored' \in [Tool -> {"absent", "good", "bad"}]
    BY EmptyType DEF Inv, TypeOK, ObjOK, Stored
  <2>2. ViewMove
    BY ViewSimulation
  <2>3. CASE UNCHANGED <<View, Phase>> /\ (Phase # "syncing" \/ Stored' = Stored)
    BY <2>1, <2>3 DEF TV!Next, TV!Store, Stored, View, Phase
  <2>4. CASE Stored' = Stored /\ View' = View /\ Phase = "down" /\ Phase' = "idle"
    BY <2>4 DEF TV!Next, TV!Connect, Stored, View, Phase
  <2>5. CASE Stored' = Stored /\ View' = View /\ Phase = "idle" /\ Phase' = "syncing"
    BY <2>5 DEF TV!Next, TV!Begin, Stored, View, Phase
  <2>6. CASE /\ UNCHANGED <<Stored, Phase>> /\ Phase = "syncing"
             /\ \E n \in Own(Stored) : View' = View \cup {n}
    BY <2>6 DEF TV!Next, TV!Add, Stored, View, Phase
  <2>7. CASE /\ Stored' = Stored /\ Phase = "syncing" /\ Phase' = "idle"
             /\ Own(Stored) \subseteq View /\ View' = Own(Stored)
    BY <2>7 DEF TV!Next, TV!Settle, Stored, View, Phase
  <2>8. CASE Stored' = Stored /\ View' = {} /\ Phase' = "down"
    BY <2>8 DEF TV!Next, TV!Close, Stored, View, Phase
  <2> QED BY <2>2, <2>3, <2>4, <2>5, <2>6, <2>7, <2>8 DEF ViewMove
<1>3. Spec => []Inv
  BY InitInv, NextInv, PTL DEF Spec
<1> QED BY <1>1, <1>2, <1>3, PTL DEF Spec, ImplementsToolView, TV!Spec

---------------------------------------------------------------------------
\* The channels.  A clientSession that is not stored yet is known to its creator alone, and
\* whoever closes a channel has taken the entry out.
DrainInv ==
  /\ drains \subseteq 1..nobj
  /\ entry # 0 => entry \in drains
  /\ \A t \in Thread :
       /\ held[t] \in 0..nobj
       /\ pc[t] \in Creating => /\ held[t] \in drains /\ held[t] # entry
                                /\ \A u \in Thread \ {t} : held[u] # held[t]
       /\ pc[t] = "close" => held[t] = 0 \/ held[t] # entry

\* Before a DELETE no channel has been closed, and only clientSession 1 has been registered.
OnceInv == /\ drains = 1..nobj
           /\ <<registered, fired>> \in {<<{}, 0>>, <<{1}, 1>>}

LEMMA DrainStep == ASSUME TypeOK, DrainInv, [Next]_vars PROVE DrainInv'
<1>1. /\ pc \in [Thread -> Label] /\ held \in [Thread -> Obj \cup {0}] /\ nobj \in Nat /\ 0 \notin Obj
      /\ entry \in Obj \cup {0} /\ drains \subseteq Obj
  BY ConfigAssumption, Ranges, SMTT(30) DEF TypeOK, ObjOK, ThreadOK
<1>2. CASE UNCHANGED <<nobj, drains, entry, held>> /\
           \A t \in Thread : pc'[t] \in Creating \cup {"close"} => pc[t] = pc'[t]
  BY <1>2 DEF DrainInv, Creating
<1>3. ASSUME NEW t \in Thread, NEW l \in {"load", "rload", "gload", "hload"}, Load(t, l) PROVE DrainInv'
  <2>1. UNCHANGED <<nobj, drains, entry>> /\ held' = [held EXCEPT ![t] = entry] /\ entry # 0
    BY <1>3 DEF Load, objVars
  <2>2. pc' = [pc EXCEPT ![t] = After(l)] /\ After(l) \notin Creating \cup {"close"}
    BY <1>3 DEF Load, Goto, After, Creating
  <2> QED BY <1>1, <2>1, <2>2, SMTT(30) DEF DrainInv, Creating
<1>4. ASSUME NEW t \in Thread, NEW l \in {"load", "rload", "gload", "hload"}, newClientSession(t, l)
      PROVE DrainInv'
  <2>1. /\ nobj' = nobj + 1 /\ drains' = drains \cup {nobj + 1} /\ entry' = entry /\ entry = 0
        /\ held' = [held EXCEPT ![t] = nobj + 1]
    BY <1>4 DEF newClientSession
  <2>2. pc' = [pc EXCEPT ![t] = Missing(l)] /\ Missing(l) \in Creating
    BY <1>4 DEF newClientSession, Goto, Missing, Creating
  <2>3. nobj + 1 \in Obj
    BY <1>4, Ranges DEF newClientSession, TypeOK, ObjOK
  <2> QED BY <1>1, <2>1, <2>2, <2>3, SMTT(30) DEF DrainInv, Creating
<1>5. ASSUME NEW t \in Thread, NEW l \in {"load", "rload", "gload", "hload"}, LoadOrStore(t, l)
      PROVE DrainInv'
  <2>1. pc[t] \in Creating
    BY <1>5 DEF LoadOrStore, Missing, Creating
  <2>2. /\ UNCHANGED <<nobj, drains>> /\ entry' = IF entry # 0 THEN entry ELSE held[t]
        /\ held' = [held EXCEPT ![t] = entry']
    BY <1>5 DEF LoadOrStore, objVars
  <2>3. pc' = [pc EXCEPT ![t] = After(l)] /\ After(l) \notin Creating \cup {"close"}
    BY <1>5 DEF LoadOrStore, Goto, After, Creating
  <2>4. \A u \in Thread \ {t} : held[u] # held[t] /\ held'[u] = held[u] /\ pc'[u] = pc[u]
    BY <1>1, <2>1, <2>2, <2>3, SMTT(30) DEF DrainInv
  <2>5. held'[t] = entry' /\ pc'[t] \notin Creating \cup {"close"} /\ entry' \in drains
    BY <1>1, <2>1, <2>2, <2>3, SMTT(30) DEF DrainInv
  <2> QED BY <1>1, <2>2, <2>4, <2>5, SMTT(30) DEF DrainInv
<1>6. ASSUME NEW t \in Thread, LoadAndDelete(t) PROVE DrainInv'
  <2>1. UNCHANGED <<nobj, drains>> /\ entry' = 0 /\ held' = [held EXCEPT ![t] = entry]
    BY <1>6 DEF LoadAndDelete, objVars
  <2>2. pc' = [pc EXCEPT ![t] = "close"]
    BY <1>6 DEF LoadAndDelete, Goto
  <2> QED BY <1>1, <2>1, <2>2, SMTT(30) DEF DrainInv, Creating
<1>7. ASSUME NEW t \in Thread, forgetSession(t) PROVE DrainInv'
  <2>1. UNCHANGED <<nobj, entry, held>> /\ drains' = drains \ {held[t]} /\ pc[t] = "close"
    BY <1>7 DEF forgetSession, thrVars
  <2>2. pc' = [pc EXCEPT ![t] = "terminate"]
    BY <1>7 DEF forgetSession, Goto
  <2> QED BY <1>1, <2>1, <2>2 DEF DrainInv, Creating
<1>8. ASSUME NEW t \in Thread,
             \/ Start(t) \/ Dispatched(t) \/ Bind(t) \/ MarkLocal(t) \/ Once(t) \/ bindRehydratedSession(t)
             \/ HookQuiet(t) \/ SetSessionTools(t) \/ LoadBound(t) \/ Return(t) \/ Drop(t) \/ Terminate(t)
      PROVE DrainInv'
  <2>1. UNCHANGED <<nobj, drains, entry, held>>
    BY <1>8, ZenonT(30) DEF Start, StartInit, StartLocal, StartRehydrated, StartDelete, Dispatched, Bind, MarkLocal,
                Once, bindRehydratedSession, HookQuiet, SetSessionTools, LoadBound,
                Return, Drop, Terminate, objVars, thrVars
  <2>2. \E m \in Label \ (Creating \cup {"close"}) : Goto(t, m)
    BY <1>8, ZenonT(30) DEF Start, StartInit, StartLocal, StartRehydrated, StartDelete, Dispatched, Bind, MarkLocal,
                Once, bindRehydratedSession, HookQuiet, SetSessionTools, LoadBound,
                Return, Drop, Terminate, Hooked, Label, Creating
  <2> QED BY <1>1, <1>2, <2>1, <2>2, ZenonT(30) DEF Goto
<1>9. CASE UNCHANGED vars
  BY <1>2, <1>9 DEF vars, objVars, thrVars
<1>10. ASSUME NEW t \in Thread, SyncStep(t) PROVE DrainInv'
  <2>1. UNCHANGED <<nobj, drains, entry, held>>
    BY <1>10, SyncMoves
  <2>2. \E m \in Label \ (Creating \cup {"close"}) : pc' = [pc EXCEPT ![t] = m]
    BY <1>10, SyncMoves DEF Hooked, Creating
  <2> QED BY <1>1, <1>2, <2>1, <2>2
<1> QED BY <1>3, <1>4, <1>5, <1>6, <1>7, <1>8, <1>9, <1>10, SMTT(30) DEF Next, Step, SyncStep, sessionFor

LEMMA OnceStep ==
  ASSUME TypeOK, IdleInv, SoloInv, OnceInv, [Next]_vars, ~Deleted'
  PROVE  OnceInv'
<1>1. nobj \in Nat
  BY ConfigAssumption, SMTT(30) DEF TypeOK, ObjOK
<1>2. CASE UNCHANGED <<nobj, drains, registered, fired>>
  BY <1>2 DEF OnceInv
<1>3. ASSUME NEW t \in Thread, NEW l, newClientSession(t, l) PROVE OnceInv'
  <2>1. /\ nobj' = nobj + 1 /\ drains' = drains \cup {nobj + 1}
        /\ UNCHANGED <<registered, fired>>
    BY <1>3, ZenonT(30) DEF newClientSession, lifeVars
  <2> QED BY <1>1, <2>1, SMTT(30) DEF OnceInv
<1>4. ASSUME NEW t \in Thread, Once(t) PROVE OnceInv'
  <2>1. held[t] = 1
    BY <1>4, SMTT(30) DEF Once, SoloInv, IdleInv, Label, Deleting
  <2>2. UNCHANGED <<nobj, drains>>
    BY <1>4 DEF Once
  <2> QED BY <1>4, <2>1, <2>2, SMTT(30) DEF Once, OnceInv
<1>5. ASSUME NEW t \in Thread, forgetSession(t) PROVE FALSE
  BY <1>5, SMTT(30) DEF forgetSession, IdleInv, SoloInv, Deleting
<1>6. ASSUME NEW t \in Thread,
             \/ Start(t) \/ Dispatched(t) \/ Bind(t) \/ MarkLocal(t) \/ bindRehydratedSession(t)
             \/ HookQuiet(t) \/ SetSessionTools(t) \/ LoadBound(t) \/ SyncStep(t)
             \/ Return(t) \/ Drop(t) \/ LoadAndDelete(t) \/ Terminate(t)
             \/ \E l \in {"load", "rload", "gload", "hload"} : Load(t, l) \/ LoadOrStore(t, l)
      PROVE UNCHANGED <<nobj, drains, registered, fired>>
  BY <1>6, ZenonT(30) DEF Start, StartInit, StartLocal, StartRehydrated, StartDelete, Dispatched, Bind, MarkLocal,
              bindRehydratedSession, HookQuiet, SetSessionTools, LoadBound, SyncStep, Sync, FinalSync,
              addSessionTool, RemoveTools, Return, Drop, LoadAndDelete, Terminate, Load, LoadOrStore, objVars, lifeVars
<1>7. CASE UNCHANGED vars
  BY <1>2, <1>7, SMTT(30) DEF vars, objVars, lifeVars
<1> QED BY <1>2, <1>3, <1>4, <1>5, <1>6, <1>7, SMTT(30) DEF Next, Step, SyncStep, sessionFor

\* The registry never hands out a clientSession whose channel is closed, and before a DELETE
\* there is one clientSession with one drain goroutine whose hook has fired at most once.
THEOREM OneClientSessionHolds == Spec => []OneClientSession
<1> DEFINE All == Inv /\ DrainInv /\ (~Deleted => OnceInv)
<1>1. Init => All
  <2>1. Init => DrainInv
    BY SMTT(30) DEF Init, DrainInv, Creating
  <2>2. Init => OnceInv
    BY SMTT(30) DEF Init, OnceInv
  <2> QED BY <2>1, <2>2, InitInv, SMTT(30)
<1>2. All /\ [Next]_vars => All'
  <2>1. Inv /\ DrainInv /\ [Next]_vars => DrainInv'
    BY DrainStep DEF Inv
  <2>2. All /\ [Next]_vars => (~Deleted => OnceInv)'
    <3> SUFFICES ASSUME All, [Next]_vars, ~Deleted' PROVE OnceInv'
      BY DEF Deleted
    <3>1. TypeOK /\ IdleInv
      BY DEF Inv
    <3>2. ~Deleted
      BY <3>1, DeletedStays, SMTT(30)
    <3> QED BY <3>1, <3>2, OnceStep, SMTT(30) DEF Inv
  <2> QED BY <2>1, <2>2, NextInv
<1>3. All => OneClientSession
  <2> SUFFICES ASSUME All PROVE OneClientSession
    OBVIOUS
  <2>1. entry # 0 => entry \in drains
    BY DEF DrainInv
  <2> QED BY <2>1, SMTT(30) DEF OneClientSession, Inv, SoloInv, OnceInv
<1> QED BY <1>1, <1>2, <1>3, PTL DEF Spec

---------------------------------------------------------------------------
(* The overlay is applied.  Until a DELETE the one clientSession is bound to the one server      *)
(* before a hook can run, so that every overlay a hook stores is reconciled by the same hook, if *)
(* not by one that overtakes it.                                                                 *)

\* Who runs a hook has a bound session.
BoundInv ==
  /\ marked \/ cached # 0 => bound[1] = 1
  /\ \A t \in Thread :
       /\ pc[t] \in {"mark", "once", "hook", "loadBound", "sync", "add", "final", "addFinal", "final2", "addFinal2"}
            => bound[1] = 1
       /\ pc[t] \in {"load", "store", "bound"} /\ op[t] = "call" => bound[1] = 1
       /\ pc[t] = "sync" => target[t] = 1

\* The server begins with no overlay, and its first request creates the registry entry.
StartedInv ==
  /\ nsrv = 0 => tools[1] = Empty
  /\ nsrv = 1 /\ entry = 0 => \E t \in Thread : pc[t] \in {"load", "rload", "store", "rstore"}

\* What is stored of a kind is served, unless a SetSession* call that stored such an overlay
\* has yet to finish reconciling it.
Applied(k) == /\ (Visible(tools[1]) \cap k) \ Global \subseteq serves[1]
              /\ (serves[1] \cap (k \ AddOnly)) \ Global \subseteq Visible(tools[1])
Reconciling(k) == \E t \in Thread : pc[t] \in {"loadBound", "sync"} \cup Adding /\ kind[t] = k
AppliedInv == \A k \in Kind : Applied(k) \/ Reconciling(k)

LEMMA BoundStep ==
  ASSUME TypeOK, IdleInv, SoloInv, BoundInv, [Next]_vars, ~Deleted' PROVE BoundInv'
<1>1. /\ 1 \in Obj /\ bound \in [Obj -> Srv \cup {0}] /\ target \in [Thread -> Srv \cup {0}]
      /\ pc \in [Thread -> Label] /\ op \in [Thread -> Op]
  BY Ranges DEF TypeOK, ObjOK, SrvOK, ThreadOK
<1>2. \A t \in Thread : pc[t] \notin Deleting /\ op'[t] # "delete"
  BY DEF SoloInv, IdleInv, Deleted
<1>3. ASSUME NEW t \in Thread, pc[t] \in Label \ (Deleting \cup {"idle", "load", "rload", "done"})
      PROVE  held[t] = 1 /\ srv[t] = 1
  BY <1>3, SMTT(30) DEF SoloInv, IdleInv
<1> USE <1>1 DEF BoundInv, Goto
<1>4. ASSUME NEW t \in Thread, StartInit(t) PROVE BoundInv'
  BY <1>4 DEF StartInit, objVars, lifeVars
<1>5. ASSUME NEW t \in Thread, StartLocal(t) PROVE BoundInv'
  BY <1>5 DEF StartLocal, objVars, srvVars, lifeVars
<1>6. ASSUME NEW t \in Thread, StartRehydrated(t) PROVE BoundInv'
  BY <1>6 DEF StartRehydrated, objVars
<1>7. ASSUME NEW t \in Thread, StartDelete(t) PROVE BoundInv'
  BY <1>2, <1>7 DEF StartDelete
<1>8. ASSUME NEW t \in Thread, sessionFor(t) PROVE BoundInv'
  <2>1. UNCHANGED <<bound, marked, cached, target, op>>
    BY <1>8 DEF sessionFor, Load, newClientSession, LoadOrStore, objVars, srvVars, lifeVars
  <2>2. \/ pc[t] \in {"load", "store"} /\ pc' = [pc EXCEPT ![t] = "bound"]
        \/ pc[t] = "load" /\ pc' = [pc EXCEPT ![t] = "store"]
        \/ \E m \in {"rbind", "bind", "return", "rstore", "gstore", "hstore"} : pc' = [pc EXCEPT ![t] = m]
    BY <1>8, SMTT(30) DEF sessionFor, Load, newClientSession, LoadOrStore, After, Missing
  <2> QED BY <2>1, <2>2
<1>9. ASSUME NEW t \in Thread, Dispatched(t) PROVE BoundInv'
  BY <1>9 DEF Dispatched, objVars, srvVars, lifeVars, thrVars
<1>10. ASSUME NEW t \in Thread, Bind(t) \/ bindRehydratedSession(t) PROVE BoundInv'
  <2>1. bound' = [bound EXCEPT ![1] = 1]
    BY <1>3, <1>10 DEF Bind, bindRehydratedSession, Label, Deleting
  <2>2. target' = target /\ \E m \in {"mark", "load"} : pc' = [pc EXCEPT ![t] = m]
    BY <1>10 DEF Bind, bindRehydratedSession, thrVars
  <2> QED BY <2>1, <2>2
<1>11. ASSUME NEW t \in Thread, MarkLocal(t) \/ Once(t) PROVE BoundInv'
  BY <1>11 DEF MarkLocal, Once, objVars, srvVars, thrVars
<1>12. ASSUME NEW t \in Thread, HookQuiet(t) \/ SetSessionTools(t) PROVE BoundInv'
  BY <1>12 DEF HookQuiet, SetSessionTools, Hooked, objVars, srvVars, lifeVars, thrVars
<1>13. ASSUME NEW t \in Thread, LoadBound(t) PROVE BoundInv'
  <2>1. target' = [target EXCEPT ![t] = bound[1]]
    BY <1>3, <1>13 DEF LoadBound, Label, Deleting
  <2> QED BY <1>13, <2>1 DEF LoadBound, objVars, srvVars, lifeVars
<1>14. ASSUME NEW t \in Thread, SyncStep(t) PROVE BoundInv'
  <2>1. PICK m \in Label : /\ pc' = [pc EXCEPT ![t] = m]
                           /\ \/ pc[t] \in {"sync", "add"} /\ m \in {"add", Hooked(t)}
                              \/ /\ pc[t] \in {"final", "addFinal", "final2", "addFinal2"}
                                 /\ m \in {"addFinal", "final2", "addFinal2", "return"}
    BY <1>14, SyncMoves
  <2>2. UNCHANGED <<bound, marked, cached, op>>
    BY <1>14, SyncMoves
  <2>3. \A u \in Thread \ {t} : target'[u] = target[u]
    BY <1>14 DEF SyncStep, Sync, FinalSync, addSessionTool, RemoveTools, syncSession, thrVars
  <2> QED BY <2>1, <2>2, <2>3 DEF Hooked
<1>15. ASSUME NEW t \in Thread, Return(t) PROVE BoundInv'
  BY <1>15 DEF Return, objVars, srvVars, thrVars
<1>16. ASSUME NEW t \in Thread, Drop(t) \/ LoadAndDelete(t) \/ forgetSession(t) \/ Terminate(t)
       PROVE BoundInv'
  BY <1>2, <1>16 DEF Drop, LoadAndDelete, forgetSession, Terminate, Deleting
<1>17. CASE UNCHANGED vars
  BY <1>17 DEF vars, objVars, srvVars, lifeVars, thrVars
<1> HIDE <1>1 DEF BoundInv, Goto
<1> QED BY <1>4, <1>5, <1>6, <1>7, <1>8, <1>9, <1>10, <1>11, <1>12, <1>13, <1>14, <1>15, <1>16, <1>17
        DEF Next, Start, Step, SyncStep

LEMMA StartedStep ==
  ASSUME TypeOK, IdleInv, SoloInv, StartedInv, [Next]_vars, ~Deleted' PROVE StartedInv'
<1>1. nsrv \in {0, 1} /\ pc \in [Thread -> Label] /\ \A t \in Thread : pc[t] \notin Deleting /\ op'[t] # "delete"
  BY DEF SoloInv, TypeOK, ThreadOK, IdleInv, Deleted
<1>2. ASSUME NEW t \in Thread, StartInit(t) \/ (StartRehydrated(t) /\ cached = 0) PROVE StartedInv'
  <2>1. nsrv = 0
    BY <1>2 DEF StartInit, StartRehydrated, SoloInv, Local, Remote
  <2>2. nsrv' = 1 /\ \E m \in {"load", "rload"} : pc' = [pc EXCEPT ![t] = m]
    BY <1>2, <2>1, SMTT(30) DEF StartInit, StartRehydrated, buildServer, Goto
  <2> QED BY <1>1, <2>2, SMTT(30) DEF StartedInv
<1>3. ASSUME NEW t \in Thread, pc[t] # "idle", nsrv' = nsrv, entry' = entry,
             \/ \E m \in {"load", "rload", "store", "rstore"} : Goto(t, m)
             \/ pc[t] \notin {"load", "rload", "store", "rstore"} /\ \E m \in Label : Goto(t, m)
             \/ entry # 0 /\ \E m \in Label : Goto(t, m)
      PROVE  StartedInv'
  <2>1. nsrv = 1
    BY <1>1, <1>3 DEF SoloInv
  <2> QED BY <1>1, <1>3, <2>1, SMTT(30) DEF StartedInv, Goto
<1>4. ASSUME NEW t \in Thread, StartLocal(t) \/ (StartRehydrated(t) /\ cached # 0) PROVE StartedInv'
  <2>1. nsrv = 1 /\ entry = 1
    BY <1>1, <1>4 DEF StartLocal, StartRehydrated, SoloInv, Local, Remote
  <2>2. nsrv' = nsrv /\ entry' = entry
    BY <1>4 DEF StartLocal, StartRehydrated, srvVars
  <2> QED BY <2>1, <2>2, SMTT(30) DEF StartedInv
<1>5. ASSUME NEW t \in Thread, NEW l \in {"load", "rload", "gload", "hload"}, Load(t, l) \/ newClientSession(t, l)
      PROVE  StartedInv'
  <2>1. pc[t] = l /\ nsrv' = nsrv /\ entry' = entry
    BY <1>5 DEF Load, newClientSession, srvVars
  <2>2. CASE Load(t, l)
    BY <1>3, <2>1, <2>2 DEF Load, After, Label
  <2>3. CASE newClientSession(t, l)
    BY <1>3, <2>1, <2>3 DEF newClientSession, Missing, Label
  <2> QED BY <1>5, <2>2, <2>3
<1>6. ASSUME NEW t \in Thread, NEW l \in {"load", "rload", "gload", "hload"}, LoadOrStore(t, l) PROVE StartedInv'
  <2>1. pc[t] \in Creating /\ nsrv' = nsrv /\ entry' = IF entry # 0 THEN entry ELSE held[t]
    BY <1>6 DEF LoadOrStore, Missing, Creating, srvVars
  <2>2. nsrv' # 0 /\ entry' # 0
    BY <2>1 DEF SoloInv, IdleInv, Creating, Label, Deleting
  <2> QED BY <2>2 DEF StartedInv
<1>7. ASSUME NEW t \in Thread,
             \/ Dispatched(t) \/ Bind(t) \/ MarkLocal(t) \/ Once(t) \/ bindRehydratedSession(t)
             \/ HookQuiet(t) \/ SetSessionTools(t) \/ LoadBound(t) \/ Return(t)
      PROVE  StartedInv'
  <2>1. nsrv' = nsrv /\ entry' = entry
    BY <1>7 DEF Dispatched, Bind, MarkLocal, Once, bindRehydratedSession, HookQuiet, SetSessionTools,
                LoadBound, Return, srvVars
  <2>2. pc[t] \notin {"idle", "load", "rload", "store", "rstore"}
    BY <1>7 DEF Dispatched, Bind, MarkLocal, Once, bindRehydratedSession, HookQuiet, SetSessionTools,
                LoadBound, Return
  <2>3. \E m \in Label : Goto(t, m)
    BY <1>7 DEF Dispatched, Bind, MarkLocal, Once, bindRehydratedSession, HookQuiet, SetSessionTools,
                LoadBound, Return, Hooked, Label
  <2> QED BY <1>3, <2>1, <2>2, <2>3
<1>8. ASSUME NEW t \in Thread,
             StartDelete(t) \/ Drop(t) \/ LoadAndDelete(t) \/ forgetSession(t) \/ Terminate(t)
      PROVE  StartedInv'
  <2>1. StartDelete(t) => op'[t] = "delete"
    BY DEF StartDelete, TypeOK, ThreadOK
  <2> QED BY <1>1, <1>8, <2>1 DEF Drop, LoadAndDelete, forgetSession, Terminate, Deleting
<1>9. CASE UNCHANGED vars
  BY <1>9 DEF StartedInv, vars, objVars, srvVars
<1>10. ASSUME NEW t \in Thread, SyncStep(t) PROVE StartedInv'
  <2>1. nsrv' = nsrv /\ entry' = entry /\ \E m \in Label : Goto(t, m)
    BY <1>10, SyncMoves DEF Goto
  <2>2. pc[t] \notin {"idle", "load", "rload", "store", "rstore"}
    BY <1>10, SyncMoves
  <2> QED BY <1>3, <2>1, <2>2
<1> QED BY <1>2, <1>4, <1>5, <1>6, <1>7, <1>8, <1>9, <1>10 DEF Next, Start, Step, SyncStep, sessionFor

\* The end of a reconciliation applies its kind and leaves the other alone.
LEMMA SyncApplies ==
  ASSUME TypeOK, IdleInv, SoloInv, ViewInv, NEW t \in Thread, RemoveTools(t)
  PROVE  Applied(kind[t])' /\ \A j \in Kind \ {kind[t]} : Applied(j) => Applied(j)'
<1>1. /\ kind[t] \in Kind /\ Wanted(t) \subseteq serves'[1]
      /\ serves'[1] = serves[1] \ ((sdk[1] \cap kind[t]) \ Visible(tools[1]))
      /\ \A n \in kind[t] \ (AddOnly \cup Global) : n \in serves'[1] => n \in Wanted(t)
  BY ViewRemoves
<1>2. UNCHANGED <<tools, kind>>
  BY DEF RemoveTools, thrVars
<1>3. Visible(tools[1])' = Visible(tools[1])
  BY <1>2 DEF Visible
<1>4. Applied(kind[t])'
  BY <1>1, <1>2, <1>3 DEF Applied, Wanted
<1>5. ASSUME NEW j \in Kind \ {kind[t]}, Applied(j) PROVE Applied(j)'
  <2>1. j \cap kind[t] = {}
    BY <1>1, <1>5 DEF Kind
  <2> QED BY <1>1, <1>3, <1>5, <2>1 DEF Applied
<1> QED BY <1>4, <1>5

LEMMA AppliedStep ==
  ASSUME TypeOK, IdleInv, SoloInv, ViewInv, BoundInv, StartedInv, AppliedInv, [Next]_vars, ~Deleted'
  PROVE  AppliedInv'
<1>1. /\ 1 \in Obj /\ 1 \in Srv /\ pc \in [Thread -> Label] /\ kind \in [Thread -> SUBSET Tool]
      /\ serves \in [Srv -> SUBSET Tool] /\ tools \in [Obj -> [Tool -> {"absent", "good", "bad"}]]
  BY Ranges DEF TypeOK, ObjOK, SrvOK, ThreadOK
<1>2. ASSUME UNCHANGED <<tools, serves, kind>>,
             \A u \in Thread : pc[u] \in {"loadBound", "sync"} \cup Adding =>
                               pc'[u] \in {"loadBound", "sync"} \cup Adding
      PROVE  AppliedInv'
  <2>1. \A k : Applied(k)' = Applied(k)
    BY <1>2 DEF Applied, Visible
  <2>2. \A k : Reconciling(k) => Reconciling(k)'
    BY <1>2 DEF Reconciling, Adding
  <2> QED BY <2>1, <2>2 DEF AppliedInv, Kind
<1>3. ASSUME NEW t \in Thread, StartInit(t) \/ (StartRehydrated(t) /\ cached = 0) PROVE AppliedInv'
  <2>1. nsrv = 0
    BY <1>3 DEF StartInit, StartRehydrated, SoloInv, Local, Remote
  <2>2. serves'[1] = Global /\ tools'[1] = Empty
    BY <1>1, <1>3, <2>1, SMTT(30) DEF StartInit, StartRehydrated, buildServer, objVars, StartedInv
  <2>3. Visible(tools[1])' = {}
    BY <2>2 DEF Visible, Empty
  <2> QED BY <2>2, <2>3 DEF AppliedInv, Applied
<1>4. ASSUME NEW t \in Thread, SetSessionTools(t) PROVE AppliedInv'
  <2>1. held[t] = 1 /\ pc[t] = "hook"
    BY <1>4 DEF SetSessionTools, SoloInv, IdleInv, Label, Deleting
  <2>2. PICK w \in Overlay, k \in Kind :
          /\ kind' = [kind EXCEPT ![t] = k]
          /\ tools' = [tools EXCEPT ![held[t]] = [n \in Tool |-> IF n \in k THEN w[n] ELSE @[n]]]
    BY <1>4 DEF SetSessionTools
  <2>3. serves' = serves /\ pc' = [pc EXCEPT ![t] = "loadBound"]
    BY <1>4 DEF SetSessionTools, srvVars, Goto
  <2>4. Reconciling(k)'
    <3>1. pc'[t] = "loadBound" /\ kind'[t] = k
      BY <1>1, <2>2, <2>3
    <3> QED BY <3>1 DEF Reconciling
  <2>5. ASSUME NEW j \in Kind \ {k}, Reconciling(j) PROVE Reconciling(j)'
    <3>1. PICK u \in Thread : pc[u] \in {"loadBound", "sync"} \cup Adding /\ kind[u] = j
      BY <2>5 DEF Reconciling
    <3>2. u # t /\ pc'[u] = pc[u] /\ kind'[u] = kind[u]
      BY <1>1, <2>1, <2>2, <2>3, <3>1 DEF Adding
    <3> QED BY <3>1, <3>2 DEF Reconciling, Adding
  <2>6. ASSUME NEW j \in Kind \ {k}, Applied(j) PROVE Applied(j)'
    <3>1. j \cap k = {}
      BY <2>6 DEF Kind
    <3>2. \A n \in j \cap Tool : tools'[1][n] = tools[1][n]
      BY <1>1, <2>1, <2>2, <3>1, SMTT(30)
    <3>3. Visible(tools[1])' \cap j = Visible(tools[1]) \cap j
      BY <3>2 DEF Visible
    <3> QED BY <2>3, <2>6, <3>3 DEF Applied
  <2>7. Kind' = Kind
    BY DEF Kind
  <2> QED BY <2>4, <2>5, <2>6, <2>7 DEF AppliedInv
<1>5. ASSUME NEW t \in Thread, Sync(t) \/ FinalSync(t) PROVE AppliedInv'
  <2>1. /\ UNCHANGED <<serves, tools>> /\ pc[t] \in {"sync", "final", "final2"}
        /\ (pc[t] = "sync" /\ target[t] = 0) \/ Locks(t)
    BY <1>5, SyncBegins
  <2>2. ~(pc[t] = "sync" /\ target[t] = 0)
    <3>1. pc[t] = "sync" => target[t] = 1
      BY DEF BoundInv
    <3> QED BY <3>1, SMTT(30)
  <2>3. PICK k \in Kind, m \in Adding :
          syncSession(t, 1, k) /\ pc' = [pc EXCEPT ![t] = m] /\ (pc[t] = "sync" => k = kind[t])
    BY <2>1, <2>2 DEF Locks
  <2>4. kind' = [kind EXCEPT ![t] = k]
    BY <2>3 DEF syncSession
  <2>5. \A j : Applied(j)' = Applied(j)
    BY <2>1 DEF Applied, Visible
  <2>6. ASSUME NEW j, Reconciling(j) PROVE Reconciling(j)'
    <3>1. PICK u \in Thread : pc[u] \in {"loadBound", "sync"} \cup Adding /\ kind[u] = j
      BY <2>6 DEF Reconciling
    <3>2. CASE u = t
      <4>1. pc[t] = "sync"
        BY <2>1, <3>1, <3>2 DEF Adding
      <4>2. kind'[t] = j /\ pc'[t] \in Adding
        BY <1>1, <2>3, <2>4, <3>1, <3>2, <4>1
      <4> QED BY <4>2 DEF Reconciling, Adding
    <3>3. CASE u # t
      <4>1. kind'[u] = j /\ pc'[u] = pc[u]
        BY <1>1, <2>3, <2>4, <3>1, <3>3
      <4> QED BY <3>1, <4>1 DEF Reconciling, Adding
    <3> QED BY <3>2, <3>3
  <2> QED BY <2>5, <2>6 DEF AppliedInv, Kind
<1>6. ASSUME NEW t \in Thread, LoadBound(t) PROVE AppliedInv'
  BY <1>1, <1>2, <1>6 DEF LoadBound, objVars, srvVars, Goto, Adding
<1>7. ASSUME NEW t \in Thread,
             \/ StartLocal(t) \/ (StartRehydrated(t) /\ cached # 0) \/ StartDelete(t) \/ sessionFor(t)
             \/ Dispatched(t) \/ Bind(t) \/ MarkLocal(t) \/ Once(t) \/ bindRehydratedSession(t) \/ HookQuiet(t)
             \/ Return(t) \/ Drop(t) \/ LoadAndDelete(t) \/ forgetSession(t) \/ Terminate(t)
      PROVE  AppliedInv'
  <2>1. UNCHANGED <<tools, serves, kind>>
    BY <1>7 DEF StartLocal, StartRehydrated, StartDelete, sessionFor, Load, newClientSession, LoadOrStore,
                Dispatched, Bind, MarkLocal, Once, bindRehydratedSession, HookQuiet, Return, Drop,
                LoadAndDelete, forgetSession, Terminate, objVars, srvVars, thrVars
  <2>2. pc[t] \notin {"loadBound", "sync"} \cup Adding
    BY <1>7 DEF StartLocal, StartRehydrated, StartDelete, sessionFor, Load, newClientSession, LoadOrStore,
                Dispatched, Bind, MarkLocal, Once, bindRehydratedSession, HookQuiet, Return, Drop,
                LoadAndDelete, forgetSession, Terminate, Missing, Adding
  <2>3. \E m : pc' = [pc EXCEPT ![t] = m]
    BY <1>7 DEF StartLocal, StartRehydrated, StartDelete, sessionFor, Load, newClientSession, LoadOrStore,
                Dispatched, Bind, MarkLocal, Once, bindRehydratedSession, HookQuiet, Return, Drop,
                LoadAndDelete, forgetSession, Terminate, Goto
  <2> QED BY <1>1, <1>2, <2>1, <2>2, <2>3
<1>8. CASE UNCHANGED vars
  BY <1>2, <1>8 DEF vars, objVars, srvVars, thrVars
<1>9. ASSUME NEW t \in Thread, addSessionTool(t) PROVE AppliedInv'
  <2>1. PICK n \in Wanted(t) : serves'[1] = serves[1] \cup {n}
    BY <1>9, ViewAdds
  <2>2. UNCHANGED <<tools, kind, pc>>
    BY <1>9 DEF addSessionTool, objVars
  <2>3. Visible(tools[1])' = Visible(tools[1])
    BY <2>2 DEF Visible
  <2>4. \A k : Applied(k) => Applied(k)'
    BY <2>1, <2>3 DEF Applied, Wanted
  <2>5. \A k : Reconciling(k) => Reconciling(k)'
    BY <2>2 DEF Reconciling, Adding
  <2> QED BY <2>4, <2>5 DEF AppliedInv, Kind
<1>10. ASSUME NEW t \in Thread, RemoveTools(t) PROVE AppliedInv'
  <2>1. Applied(kind[t])' /\ \A j \in Kind \ {kind[t]} : Applied(j) => Applied(j)'
    BY <1>10, SyncApplies
  <2>2. kind' = kind /\ pc' = [pc EXCEPT ![t] = Synced(t)]
    BY <1>10 DEF RemoveTools, thrVars, Goto
  <2>3. ASSUME NEW j \in Kind \ {kind[t]}, Reconciling(j) PROVE Reconciling(j)'
    <3>1. PICK u \in Thread : pc[u] \in {"loadBound", "sync"} \cup Adding /\ kind[u] = j
      BY <2>3 DEF Reconciling
    <3>2. u # t /\ pc'[u] = pc[u]
      BY <1>1, <2>2, <2>3, <3>1
    <3> QED BY <2>2, <3>1, <3>2 DEF Reconciling, Adding
  <2>4. \A j \in Kind : Applied(j)' \/ Reconciling(j)'
    <3> SUFFICES ASSUME NEW j \in Kind PROVE Applied(j)' \/ Reconciling(j)'
      OBVIOUS
    <3>1. CASE j = kind[t]
      <4>1. Applied(j)'
        BY <2>1, <2>2, <3>1 DEF Applied
      <4> QED BY <4>1
    <3>2. CASE j # kind[t]
      BY <2>1, <2>3, <3>2 DEF AppliedInv
    <3> QED BY <3>1, <3>2
  <2> QED BY <2>4 DEF AppliedInv, Kind
<1> QED BY <1>3, <1>4, <1>5, <1>6, <1>7, <1>8, <1>9, <1>10 DEF Next, Start, Step

\* However the calls of SetSession* interleave with each other, with the syncs of registerAndSync
\* and with a binding, once they have all returned the session's server serves the overlay that
\* is stored (session_tools.go, session.go).
THEOREM OverlayIsApplied == Spec => []OverlayApplied
<1> DEFINE All == Inv /\ (~Deleted => BoundInv /\ StartedInv /\ AppliedInv)
<1>1. Init => All
  <2> SUFFICES ASSUME Init PROVE BoundInv /\ StartedInv /\ AppliedInv
    BY InitInv
  <2>1. 1 \in Obj /\ 1 \in Srv
    BY Ranges
  <2>2. BoundInv /\ StartedInv
    BY <2>1, SMTT(30) DEF Init, BoundInv, StartedInv
  <2>3. tools[1] = Empty /\ serves[1] = {}
    BY <2>1 DEF Init
  <2>4. Visible(tools[1]) = {}
    BY <2>3 DEF Visible, Empty
  <2> QED BY <2>2, <2>3, <2>4 DEF AppliedInv, Applied
<1>2. All /\ [Next]_vars => All'
  <2> SUFFICES ASSUME All, [Next]_vars PROVE All'
    OBVIOUS
  <2>1. Inv'
    BY NextInv
  <2>2. ASSUME ~Deleted' PROVE BoundInv' /\ StartedInv' /\ AppliedInv'
    <3>1. ~Deleted /\ TypeOK /\ IdleInv /\ SoloInv /\ ViewInv
      BY <2>2, DeletedStays DEF Inv
    <3> QED BY <2>2, <3>1, BoundStep, StartedStep, AppliedStep
  <2> QED BY <2>1, <2>2 DEF Deleted
<1>3. All => OverlayApplied
  <2> SUFFICES ASSUME All, Quiet, Current # 0, ~Deleted
               PROVE  LET shown == serves[Current] \ Global
                          want  == Visible(tools[entry]) \ Global
                      IN  want \subseteq shown /\ shown \ want \subseteq AddOnly
    BY DEF OverlayApplied
  <2>1. nsrv = 1 /\ Current = 1
    BY DEF Inv, SoloInv, Local, Remote, Current
  <2>2. entry = 1
    BY <2>1 DEF Inv, SoloInv, StartedInv, Quiet
  <2>3. \A k \in Kind : Applied(k)
    BY DEF AppliedInv, Reconciling, Quiet, Adding
  <2>4. Visible(tools[1]) \subseteq Tool /\ serves[1] \subseteq Tool
    BY Ranges DEF Visible, Inv, TypeOK, SrvOK
  <2>5. Applied(Tool \ AddOnly) /\ Applied(AddOnly)
    BY <2>3 DEF Kind
  <2> QED BY <2>1, <2>2, <2>4, <2>5 DEF Applied
<1> QED BY <1>1, <1>2, <1>3, PTL DEF Spec

=============================================================================
