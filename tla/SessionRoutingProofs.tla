----------------------- MODULE SessionRoutingProofs -----------------------
(***************************************************************************)
(* Safety of the session routing for any number of replicas, sessions,     *)
(* requests and restarts.  The inductive invariant is built in layers:     *)
(* what a request in flight is (RequestInv), what a session ID nobody has  *)
(* generated implies (FreshInv), which request names a reconstructed       *)
(* session (InstanceInv), and on top of them one layer per property.       *)
(***************************************************************************)
EXTENDS SessionRouting, TLAPS

\* The default prover; a leaf with arithmetic or sequences cites SMTT.
USE ZenonT(30)

\* The labels a request of each kind passes through.
LabelsOf(k) ==
  CASE k = "init" ->
         {"start", "dispatch", "register", "mark", "respond", "done"}
    [] k = "delete" ->
         {"start", "close", "forget1", "forget2", "sdkDelete", "terminate", "done"}
    [] OTHER ->
         {"start", "recheck", "validate", "forget1", "forget2", "drop", "close",
          "handler", "dispatch", "register", "mark", "rvalidate", "rmiss", "get",
          "rehydrate", "rserve", "done"}

RequestOK(q) ==
  IF pc[q] = "idle"
    THEN rq[q] = NoRequest /\ held[q] = None /\ status[q] = "none"
    ELSE /\ rq[q].rep \in Replica
         /\ pc[q] \in LabelsOf(rq[q].kind)
         /\ IF rq[q].kind = "init"
              THEN pc[q] \notin {"start", "done"} => rq[q].sid \in Sid
              ELSE rq[q].sid \in known

RequestInv == \A q \in Req : RequestOK(q)

\* There is no answer before the request is done, or its DELETE forwarded.
StatusInv ==
  \A q \in Req : pc[q] \notin {"terminate", "done"} => status[q] = "none"

\* An ID Generate has not returned yet appears nowhere.
FreshInv ==
  \A s \in Sid : store[s] = "absent" =>
    /\ s \notin known
    /\ \A r \in Replica : s \notin handler[r] /\ rehydrated[r][s] = None
    /\ \A q \in Req : rq[q].sid # s

\* A request that may have connected a session of replica r and ID s.
Connects(i, r, s) ==
  /\ pc[i] # "idle" /\ rq[i].kind \in {"call", "inited"}
  /\ rq[i].rep = r /\ rq[i].sid = s

\* A reconstructed session belongs to the replica and ID it is cached under,
\* and to those of every request that holds it.
InstanceInv ==
  /\ \A r \in Replica, s \in Sid :
       rehydrated[r][s] # None => Connects(rehydrated[r][s], r, s)
  /\ \A i \in open : Connects(i, rq[i].rep, rq[i].sid)
  /\ \A q \in Req :
       held[q] # None => /\ pc[q] \in {"close", "rserve", "done"}
                         /\ Connects(held[q], rq[q].rep, rq[q].sid)

\* The session was terminated, or a DELETE on r has forgotten it.
Gone(r, s) == store[s] = "terminated" \/ DeleteForgot(r, s)

\* Only a termination sends a request that is not a DELETE into forgetSession
\* and deleteRehydrated.
DropInv ==
  \A q \in Req :
    pc[q] \in {"forget1", "forget2", "drop", "close"} /\ rq[q].kind # "delete" =>
      store[rq[q].sid] = "terminated"

\* A live session of the handler is marked local before its ID is known, and
\* loses the marker only by a termination or a DELETE.
LiveMarked ==
  \A r \in Replica, s \in Sid :
    s \in known /\ s \in handler[r] => s \in local[r] \/ Gone(r, s)

RespondMarked ==
  \A q \in Req : pc[q] = "respond" /\ rq[q].sid \in handler[rq[q].rep] =>
    rq[q].sid \in local[rq[q].rep] \/ Gone(rq[q].rep, rq[q].sid)

\* Only the replica that answers an initialize has its session.
HomeInv ==
  \A q \in Req, r \in Replica :
    rq[q].kind = "init" /\ rq[q].sid \in handler[r] => r = rq[q].rep

MarkerInv == LiveMarked /\ RespondMarked /\ HomeInv

\* A request reaches rehydrate for a session the handler still has only after a
\* DELETE.
DetourInv ==
  \A q \in Req :
    LET r == rq[q].rep  s == rq[q].sid IN
    /\ pc[q] = "rvalidate" /\ s \in handler[r] => Gone(r, s)
    /\ pc[q] \in {"get", "rehydrate"} /\ s \in handler[r] => DeleteForgot(r, s)

\* A request that arrived after the termination never gets past Validate.
LateInv ==
  \A q \in Req :
    rq[q].late => /\ rq[q].kind # "init"
                  /\ rq[q].sid \in Sid /\ store[rq[q].sid] = "terminated"
                  /\ pc[q] \notin {"get", "rehydrate", "rserve"}
                  /\ held[q] # None => pc[q] = "close"
                  /\ q \notin open

\* registerAndSync has the registry entry when it sets the marker.
RegisterInv ==
  \A q \in Req :
    LET r == rq[q].rep  s == rq[q].sid IN
    pc[q] = "mark" => \/ s \in sessions[r]
                      \/ DeleteArrived(r, s)
                      \/ store[s] = "terminated"

\* What no step takes back: who a request is, a DELETE that has forgotten the
\* session, a termination.
Progress ==
  /\ \A p \in Req : pc[p] # "idle" =>
       /\ pc'[p] # "idle" /\ rq'[p].kind = rq[p].kind /\ rq'[p].rep = rq[p].rep
       /\ rq[p].kind # "init" => rq'[p].sid = rq[p].sid
  /\ \A p \in Req : pc[p] \in {"sdkDelete", "terminate", "done"} =>
       pc'[p] \in {"sdkDelete", "terminate", "done"}
  /\ \A s \in Sid : store[s] = "terminated" => store'[s] = "terminated"

\* The step of OnlyTerminationDrops.
Drops ==
  \A r \in Replica, s \in Sid :
    BookkeepingLost(r, s) =>
      \/ store[s] = "terminated"
      \/ DeleteArrived(r, s)
      \/ restarts' # restarts

TypeInv == TypeOK /\ RequestInv

BaseInv == TypeInv /\ FreshInv /\ InstanceInv /\ DropInv

Inv ==
  /\ BaseInv
  /\ NoOrphanSession
  /\ MarkerInv /\ DetourInv /\ NoSplitBrainWithoutDelete
  /\ StatusInv /\ LateInv
  /\ RegisterInv /\ RegistryKeepsLive

---------------------------------------------------------------------------
\* The initial state satisfies the invariant.
LEMMA InitInv == Init => Inv
  BY NoneAssumption, SMTT(30)
  DEF Init, Inv, BaseInv, TypeInv, TypeOK, RequestInv, RequestOK, FreshInv,
      InstanceInv, DropInv, NoOrphanSession, MarkerInv, LiveMarked,
      RespondMarked, HomeInv, DetourInv, NoSplitBrainWithoutDelete, StatusInv,
      LateInv, RegisterInv, RegistryKeepsLive,
      NoRequest, Request, Kind, Label, Status

\* What RequestInv says of a request in flight.
LEMMA InFlight ==
  ASSUME TypeInv, NEW q \in Req, pc[q] # "idle"
  PROVE  /\ rq[q].rep \in Replica
         /\ rq[q].kind \in Kind
         /\ pc[q] \in LabelsOf(rq[q].kind)
         /\ rq[q].kind # "init" => rq[q].sid \in known /\ rq[q].sid \in Sid
         /\ rq[q].kind = "init" /\ pc[q] \notin {"start", "done"} => rq[q].sid \in Sid
  BY DEF TypeInv, TypeOK, RequestInv, RequestOK, Request

\* Past the start, a request names a session.
LEMMA InFlightSid ==
  ASSUME TypeInv, NEW q \in Req, pc[q] \notin {"idle", "start", "done"}
  PROVE  rq[q].rep \in Replica /\ rq[q].sid \in Sid
  BY InFlight

\* Every step preserves the types.
LEMMA TypeStep == TypeInv /\ [Next]_vars => TypeOK'
<1> SUFFICES ASSUME TypeInv, [Next]_vars PROVE TypeOK'
  OBVIOUS
<1> TypeOK
  BY DEF TypeInv
<1> USE NoneAssumption DEF TypeOK, Request, Kind, Label, Status,
        mcpVars, httpVars, reqVars
<1>1. ASSUME NEW q \in Req, NEW k \in Kind, NEW r \in Replica, NEW s \in Sid \cup {None}, Arrive(q, k, r, s)
      PROVE  TypeOK'
  BY <1>1 DEF Arrive, Goto
<1>2. ASSUME NEW q \in Req, Deny(q) PROVE TypeOK'
  BY <1>2 DEF Deny, Answer, Goto
<1>3. ASSUME NEW q \in Req, NEW s \in Sid, Create(q, s) PROVE TypeOK'
  <2>1. rq[q] \in Request /\ rq[q].rep \in Replica
    BY <1>3, InFlight DEF Create
  <2>2. [rq[q] EXCEPT !.sid = s] \in Request
    BY ZenonT(60), <2>1
  <2>3. rq' = [rq EXCEPT ![q] = [rq[q] EXCEPT !.sid = s]]
    BY <1>3 DEF Create
  <2>4. rq' \in [Req -> Request]
    BY <2>2, <2>3
  <2>5. handler' \in [Replica -> SUBSET Sid]
    BY <1>3, <2>1, SMTT(30) DEF Create
  <2>6. QED
    BY <1>3, <2>4, <2>5 DEF Create, Goto
<1>4. ASSUME NEW q \in Req, CreateFails(q) PROVE TypeOK'
  BY <1>4 DEF CreateFails, Answer, Goto
<1>5. ASSUME NEW q \in Req, Dispatch(q) PROVE TypeOK'
  <2>1. rq[q].rep \in Replica /\ rq[q].sid \in Sid
    BY <1>5, InFlightSid DEF Dispatch
  <2>2. CASE rq[q].kind = "call"
    BY ZenonT(60), <1>5, <2>1, <2>2 DEF Dispatch, SessionFor, Answer, Goto
  <2>3. CASE ~(rq[q].kind = "call")
    BY ZenonT(60), <1>5, <2>1, <2>3 DEF Dispatch, SessionFor, Answer, Goto
  <2>4. QED
    BY <2>2, <2>3
<1>6. ASSUME NEW q \in Req, InitRejected(q) PROVE TypeOK'
  <2>1. rq[q].rep \in Replica /\ rq[q].sid \in Sid
    BY ZenonT(60), <1>6, InFlightSid DEF InitRejected
  <2>2. QED
    BY <1>6, <2>1 DEF InitRejected, SessionFor, Answer, Goto
<1>7. ASSUME NEW q \in Req, DispatchClosed(q) PROVE TypeOK'
  BY <1>7 DEF DispatchClosed, Answer, Goto
<1>8. ASSUME NEW q \in Req, Register(q) PROVE TypeOK'
  <2>1. rq[q].rep \in Replica /\ rq[q].sid \in Sid
    BY <1>8, InFlightSid DEF Register
  <2>2. QED
    BY <1>8, <2>1 DEF Register, SessionFor, Goto
<1>9. ASSUME NEW q \in Req, Mark(q) PROVE TypeOK'
  <2>1. rq[q].rep \in Replica /\ rq[q].sid \in Sid
    BY ZenonT(60), <1>9, InFlightSid DEF Mark
  <2>2. CASE rq[q].kind = "init"
    BY ZenonT(60), <1>9, <2>1, <2>2 DEF Mark, Answer, Goto
  <2>3. CASE ~(rq[q].kind = "init")
    BY ZenonT(60), <1>9, <2>1, <2>3 DEF Mark, Answer, Goto
  <2>4. QED
    BY <2>2, <2>3
<1>10. ASSUME NEW q \in Req, Respond(q) PROVE TypeOK'
  <2>1. rq[q].rep \in Replica /\ rq[q].sid \in Sid
    BY ZenonT(60), <1>10, InFlightSid DEF Respond
  <2>2. QED
    BY <1>10, <2>1 DEF Respond, Answer, Goto
<1>11. ASSUME NEW q \in Req, Route(q) PROVE TypeOK'
  BY <1>11 DEF Route, Goto, isLocalSession
<1>12. ASSUME NEW q \in Req, Recheck(q) PROVE TypeOK'
  BY <1>12 DEF Recheck, Goto, isLocalSession
<1>13. ASSUME NEW q \in Req, ValidateLocal(q) PROVE TypeOK'
  <2>1. CASE Goto(q, "handler") /\ UNCHANGED status
    BY <1>13, <2>1 DEF ValidateLocal, Goto
  <2>2. CASE Goto(q, "forget1") /\ UNCHANGED status
    BY <1>13, <2>2 DEF ValidateLocal, Goto
  <2>3. CASE Answer(q, "unavailable")
    BY <1>13, <2>3 DEF ValidateLocal, Answer, Goto
  <2>4. QED
    <3> HIDE DEF TypeOK
    <3>1. QED
      BY <1>13, <2>1, <2>2, <2>3 DEF ValidateLocal
<1>14. ASSUME NEW q \in Req, HandlerLookup(q) PROVE TypeOK'
  BY ZenonT(60), <1>14 DEF HandlerLookup, Answer, Goto
<1>15. ASSUME NEW q \in Req, Forget1(q) PROVE TypeOK'
  <2>1. rq[q].rep \in Replica /\ rq[q].sid \in Sid
    BY <1>15, InFlightSid DEF Forget1
  <2>2. QED
    BY <1>15, <2>1 DEF Forget1, Goto
<1>16. ASSUME NEW q \in Req, Forget2(q) PROVE TypeOK'
  <2>1. rq[q].rep \in Replica /\ rq[q].sid \in Sid
    BY <1>16, InFlightSid DEF Forget2
  <2>2. QED
    BY <1>16, <2>1 DEF Forget2, Goto
<1>17. ASSUME NEW q \in Req, Drop(q) PROVE TypeOK'
  <2>1. rq[q].rep \in Replica /\ rq[q].sid \in Sid
    BY <1>17, InFlight DEF Drop
  <2>2. rehydrated[rq[q].rep][rq[q].sid] \in Req \cup {None}
    BY <2>1, SMTT(30)
  <2>3. QED
    BY <1>17, <2>1, <2>2 DEF Drop, Goto
<1>18. ASSUME NEW q \in Req, Close(q) PROVE TypeOK'
  BY ZenonT(60), <1>18 DEF Close, Answer, Goto
<1>19. ASSUME NEW q \in Req, SdkDelete(q) PROVE TypeOK'
  <2>1. rq[q].rep \in Replica /\ rq[q].sid \in Sid
    BY ZenonT(60), <1>19, InFlightSid DEF SdkDelete
  <2>2. QED
    BY <1>19, <2>1 DEF SdkDelete, Goto
<1>20. ASSUME NEW q \in Req, Terminate(q) PROVE TypeOK'
  <2>1. rq[q].rep \in Replica /\ rq[q].sid \in Sid
    BY ZenonT(60), <1>20, InFlightSid DEF Terminate
  <2>2. QED
    BY <1>20, <2>1 DEF Terminate, Goto
<1>21. ASSUME NEW q \in Req, ValidateRemote(q) PROVE TypeOK'
  BY ZenonT(60), <1>21 DEF ValidateRemote, Validate, Goto
<1>22. ASSUME NEW q \in Req, ValidateError(q) PROVE TypeOK'
  BY <1>22 DEF ValidateError, Answer, Goto
<1>23. ASSUME NEW q \in Req, GetRehydrated(q) PROVE TypeOK'
  <2>1. rq[q].rep \in Replica /\ rq[q].sid \in Sid
    BY <1>23, InFlightSid DEF GetRehydrated
  <2>2. rehydrated[rq[q].rep][rq[q].sid] \in Req \cup {None}
    BY <2>1, SMTT(30)
  <2>3. QED
    BY <1>23, <2>2 DEF GetRehydrated, Goto
<1>24. ASSUME NEW q \in Req, RehydrateHit(q) PROVE TypeOK'
  <2>1. rq[q].rep \in Replica /\ rq[q].sid \in Sid
    BY ZenonT(60), <1>24, InFlightSid DEF RehydrateHit
  <2>2. rehydrated[rq[q].rep][rq[q].sid] \in Req \cup {None}
    BY <2>1, SMTT(30)
  <2>3. QED
    BY <1>24, <2>2 DEF RehydrateHit, Goto
<1>25. ASSUME NEW q \in Req, Rehydrate(q) PROVE TypeOK'
  <2>1. rq[q].rep \in Replica /\ rq[q].sid \in Sid
    BY ZenonT(60), <1>25, InFlightSid DEF Rehydrate
  <2>2. QED
    BY <1>25, <2>1, SMTT(30) DEF Rehydrate, SessionFor, Goto
<1>26. ASSUME NEW q \in Req, RehydrateFails(q) PROVE TypeOK'
  BY <1>26 DEF RehydrateFails, Answer, Goto
<1>27. ASSUME NEW q \in Req, ServeRehydrated(q) PROVE TypeOK'
  <2>1. rq[q].rep \in Replica /\ rq[q].sid \in Sid
    BY ZenonT(60), <1>27, InFlightSid DEF ServeRehydrated
  <2>2. QED
    BY <1>27, <2>1 DEF ServeRehydrated, SessionFor, Answer, Goto
<1>28. ASSUME NEW q \in Req, ServeClosed(q) PROVE TypeOK'
  BY <1>28 DEF ServeClosed, Answer, Goto
<1>29. ASSUME NEW s \in Sid, TerminateInStore(s) PROVE TypeOK'
  BY <1>29 DEF TerminateInStore
<1>30. ASSUME NEW r \in Replica, NEW s \in Sid, SdkCloseLocal(r, s)
      PROVE  TypeOK'
  BY <1>30 DEF SdkCloseLocal
<1>31. ASSUME NEW i \in Req, SdkCloseRehydrated(i) PROVE TypeOK'
  BY <1>31 DEF SdkCloseRehydrated
<1>32. ASSUME NEW r \in Replica, Restart(r) PROVE TypeOK'
  BY <1>32, SMTT(30) DEF Restart
<1>33. CASE UNCHANGED vars
  BY <1>33 DEF vars
<1> HIDE DEF TypeOK, Request, Kind, Label, Status,
        mcpVars, httpVars, reqVars
<1>34. QED
  BY <1>1, <1>2, <1>3, <1>4, <1>5, <1>6, <1>7, <1>8, <1>9, <1>10, <1>11,
     <1>12, <1>13, <1>14, <1>15, <1>16, <1>17, <1>18, <1>19, <1>20, <1>21,
     <1>22, <1>23, <1>24, <1>25, <1>26, <1>27, <1>28, <1>29, <1>30, <1>31,
     <1>32, <1>33 DEF Next, RequestStep, Finished

\* Every step preserves what a request in flight is.
LEMMA RequestStepInv == TypeInv /\ [Next]_vars => RequestInv'
<1> SUFFICES ASSUME TypeInv, [Next]_vars PROVE RequestInv'
  OBVIOUS
<1> TypeOK /\ RequestInv
  BY DEF TypeInv
<1> USE NoneAssumption DEF TypeOK, RequestInv, RequestOK, LabelsOf, NoRequest,
        Request, Kind, mcpVars, httpVars, reqVars
<1>1. ASSUME NEW q \in Req, NEW k \in Kind, NEW r \in Replica, NEW s \in Sid \cup {None}, Arrive(q, k, r, s)
      PROVE  RequestInv'
  BY ZenonT(60), <1>1 DEF Arrive, Goto
<1>2. ASSUME NEW q \in Req, Deny(q) PROVE RequestInv'
  BY <1>2 DEF Deny, Answer, Goto
<1>3. ASSUME NEW q \in Req, NEW s \in Sid, Create(q, s) PROVE RequestInv'
  <2>1. ASSUME NEW p \in Req PROVE RequestOK(p)'
    <3>1. CASE p = q
      <4>1. rq'[q] = [rq[q] EXCEPT !.sid = s]
        BY <1>3 DEF Create
      <4>2. rq'[q].rep = rq[q].rep /\ rq'[q].kind = rq[q].kind /\ rq'[q].sid = s
        BY <4>1, SMTT(30)
      <4>3. QED
        BY <1>3, <3>1, <4>2 DEF Create, Goto
    <3>2. CASE p # q
      BY <1>3, <3>2 DEF Create, Goto
    <3>3. QED
      BY <3>1, <3>2
  <2>2. QED
    BY ZenonT(60), <2>1
<1>4. ASSUME NEW q \in Req, CreateFails(q) PROVE RequestInv'
  BY <1>4 DEF CreateFails, Answer, Goto
<1>5. ASSUME NEW q \in Req, Dispatch(q) PROVE RequestInv'
  BY <1>5, SMTT(30) DEF Dispatch, SessionFor, Answer, Goto
<1>6. ASSUME NEW q \in Req, InitRejected(q) PROVE RequestInv'
  BY <1>6 DEF InitRejected, SessionFor, Answer, Goto
<1>7. ASSUME NEW q \in Req, DispatchClosed(q) PROVE RequestInv'
  BY <1>7, SMTT(30) DEF DispatchClosed, Answer, Goto
<1>8. ASSUME NEW q \in Req, Register(q) PROVE RequestInv'
  BY <1>8, SMTT(30) DEF Register, SessionFor, Goto
<1>9. ASSUME NEW q \in Req, Mark(q) PROVE RequestInv'
  <2>1. CASE rq[q].kind = "init"
    BY <1>9, <2>1, SMTT(30) DEF Mark, Answer, Goto
  <2>2. CASE ~(rq[q].kind = "init")
    BY <1>9, <2>2, SMTT(30) DEF Mark, Answer, Goto
  <2>3. QED
    BY ZenonT(60), <2>1, <2>2
<1>10. ASSUME NEW q \in Req, Respond(q) PROVE RequestInv'
  BY <1>10 DEF Respond, Answer, Goto
<1>11. ASSUME NEW q \in Req, Route(q) PROVE RequestInv'
  BY <1>11, SMTT(30) DEF Route, Goto, isLocalSession
<1>12. ASSUME NEW q \in Req, Recheck(q) PROVE RequestInv'
  BY <1>12, SMTT(30) DEF Recheck, Goto, isLocalSession
<1>13. ASSUME NEW q \in Req, ValidateLocal(q) PROVE RequestInv'
  <2>1. \/ Goto(q, "handler") /\ UNCHANGED status
        \/ /\ Goto(q, "forget1") /\ UNCHANGED status
           /\ store[rq[q].sid] = "terminated"
        \/ Answer(q, "unavailable")
    BY <1>13 DEF ValidateLocal, Validate
  <2>2. CASE Goto(q, "handler") /\ UNCHANGED status
    BY <1>13, <2>2, SMTT(30) DEF ValidateLocal, Goto
  <2>3. CASE /\ Goto(q, "forget1") /\ UNCHANGED status
             /\ store[rq[q].sid] = "terminated"
    BY <1>13, <2>3, SMTT(30) DEF ValidateLocal, Goto
  <2>4. CASE Answer(q, "unavailable")
    BY <1>13, <2>4, SMTT(30) DEF ValidateLocal, Answer, Goto
  <2>5. QED
    BY ZenonT(60), <2>1, <2>2, <2>3, <2>4
<1>14. ASSUME NEW q \in Req, HandlerLookup(q) PROVE RequestInv'
  BY <1>14, SMTT(30) DEF HandlerLookup, Answer, Goto
<1>15. ASSUME NEW q \in Req, Forget1(q) PROVE RequestInv'
  BY <1>15, SMTT(30) DEF Forget1, Goto
<1>16. ASSUME NEW q \in Req, Forget2(q) PROVE RequestInv'
  BY <1>16, SMTT(30) DEF Forget2, Goto
<1>17. ASSUME NEW q \in Req, Drop(q) PROVE RequestInv'
  BY <1>17, SMTT(30) DEF Drop, Goto
<1>18. ASSUME NEW q \in Req, Close(q) PROVE RequestInv'
  BY <1>18, SMTT(30) DEF Close, Answer, Goto
<1>19. ASSUME NEW q \in Req, SdkDelete(q) PROVE RequestInv'
  BY <1>19, SMTT(30) DEF SdkDelete, Goto
<1>20. ASSUME NEW q \in Req, Terminate(q) PROVE RequestInv'
  BY <1>20 DEF Terminate, Goto
<1>21. ASSUME NEW q \in Req, ValidateRemote(q) PROVE RequestInv'
  <2>1. \/ Goto(q, "get") /\ store[rq[q].sid] = "valid"
        \/ Goto(q, "drop") /\ store[rq[q].sid] = "terminated"
        \/ Goto(q, "rmiss")
    BY <1>21 DEF ValidateRemote, Validate
  <2>2. CASE Goto(q, "get") /\ store[rq[q].sid] = "valid"
    BY <1>21, <2>2, SMTT(30) DEF ValidateRemote, Goto
  <2>3. CASE Goto(q, "drop") /\ store[rq[q].sid] = "terminated"
    BY <1>21, <2>3, SMTT(30) DEF ValidateRemote, Goto
  <2>4. CASE Goto(q, "rmiss")
    BY <1>21, <2>4, SMTT(30) DEF ValidateRemote, Goto
  <2>5. QED
    BY ZenonT(60), <2>1, <2>2, <2>3, <2>4
<1>22. ASSUME NEW q \in Req, ValidateError(q) PROVE RequestInv'
  BY <1>22, SMTT(30) DEF ValidateError, Answer, Goto
<1>23. ASSUME NEW q \in Req, GetRehydrated(q) PROVE RequestInv'
  BY <1>23, SMTT(30) DEF GetRehydrated, Goto
<1>24. ASSUME NEW q \in Req, RehydrateHit(q) PROVE RequestInv'
  BY <1>24, SMTT(30) DEF RehydrateHit, Goto
<1>25. ASSUME NEW q \in Req, Rehydrate(q) PROVE RequestInv'
  BY <1>25, SMTT(30) DEF Rehydrate, SessionFor, Goto
<1>26. ASSUME NEW q \in Req, RehydrateFails(q) PROVE RequestInv'
  BY <1>26, SMTT(30) DEF RehydrateFails, Answer, Goto
<1>27. ASSUME NEW q \in Req, ServeRehydrated(q) PROVE RequestInv'
  BY <1>27, SMTT(30) DEF ServeRehydrated, SessionFor, Answer, Goto
<1>28. ASSUME NEW q \in Req, ServeClosed(q) PROVE RequestInv'
  BY <1>28, SMTT(30) DEF ServeClosed, Answer, Goto
<1>29. ASSUME NEW s \in Sid, TerminateInStore(s) PROVE RequestInv'
  BY <1>29 DEF TerminateInStore
<1>30. ASSUME NEW r \in Replica, NEW s \in Sid, SdkCloseLocal(r, s)
      PROVE  RequestInv'
  BY <1>30 DEF SdkCloseLocal
<1>31. ASSUME NEW i \in Req, SdkCloseRehydrated(i) PROVE RequestInv'
  BY <1>31 DEF SdkCloseRehydrated
<1>32. ASSUME NEW r \in Replica, Restart(r) PROVE RequestInv'
  BY <1>32 DEF Restart
<1>33. CASE UNCHANGED vars
  BY <1>33, SMTT(30) DEF vars
<1> HIDE DEF RequestInv, RequestOK, LabelsOf, NoRequest,
        Request, Kind, mcpVars, httpVars, reqVars
<1>34. QED
  BY <1>1, <1>2, <1>3, <1>4, <1>5, <1>6, <1>7, <1>8, <1>9, <1>10, <1>11,
     <1>12, <1>13, <1>14, <1>15, <1>16, <1>17, <1>18, <1>19, <1>20, <1>21,
     <1>22, <1>23, <1>24, <1>25, <1>26, <1>27, <1>28, <1>29, <1>30, <1>31,
     <1>32, <1>33 DEF Next, RequestStep, Finished

\* Every step preserves FreshInv and DropInv.
LEMMA BaseStep == (TypeInv /\ FreshInv /\ DropInv) /\ [Next]_vars => (FreshInv /\ DropInv)'
<1> SUFFICES ASSUME (TypeInv /\ FreshInv /\ DropInv), [Next]_vars PROVE (FreshInv /\ DropInv)'
  OBVIOUS
<1> TypeOK /\ RequestInv
  BY DEF TypeInv
<1> USE NoneAssumption DEF TypeOK, RequestInv, RequestOK, LabelsOf, NoRequest,
        Request, Kind, FreshInv, DropInv, mcpVars, httpVars, reqVars
<1>1. ASSUME NEW q \in Req, NEW k \in Kind, NEW r \in Replica, NEW s \in Sid \cup {None}, Arrive(q, k, r, s)
      PROVE  (FreshInv /\ DropInv)'
  BY <1>1, SMTT(30) DEF Arrive, Goto
<1>2. ASSUME NEW q \in Req, Deny(q) PROVE (FreshInv /\ DropInv)'
  BY <1>2, SMTT(30) DEF Deny, Answer, Goto
<1>3. ASSUME NEW q \in Req, NEW s \in Sid, Create(q, s)
      PROVE  (FreshInv /\ DropInv)'
  <2>1. \A p \in Req : /\ p # q => rq'[p] = rq[p]
                        /\ rq'[p].rep = rq[p].rep /\ rq'[p].kind = rq[p].kind
    BY <1>3 DEF Create
  <2>2. rq'[q].sid = s
    BY <1>3, SMTT(30) DEF Create
  <2>3. QED
    BY <1>3, <2>1, <2>2, SMTT(30) DEF Create, Goto
<1>4. ASSUME NEW q \in Req, CreateFails(q) PROVE (FreshInv /\ DropInv)'
  BY <1>4, SMTT(30) DEF CreateFails, Answer, Goto
<1>5. ASSUME NEW q \in Req, Dispatch(q) PROVE (FreshInv /\ DropInv)'
  BY <1>5, SMTT(30) DEF Dispatch, SessionFor, Answer, Goto
<1>6. ASSUME NEW q \in Req, InitRejected(q) PROVE (FreshInv /\ DropInv)'
  BY <1>6, SMTT(30) DEF InitRejected, SessionFor, Answer, Goto
<1>7. ASSUME NEW q \in Req, DispatchClosed(q) PROVE (FreshInv /\ DropInv)'
  BY <1>7, SMTT(30) DEF DispatchClosed, Answer, Goto
<1>8. ASSUME NEW q \in Req, Register(q) PROVE (FreshInv /\ DropInv)'
  BY <1>8, SMTT(30) DEF Register, SessionFor, Goto
<1>9. ASSUME NEW q \in Req, Mark(q) PROVE (FreshInv /\ DropInv)'
  <2>1. CASE rq[q].kind = "init"
    BY <1>9, <2>1, SMTT(30) DEF Mark, Answer, Goto
  <2>2. CASE ~(rq[q].kind = "init")
    BY <1>9, <2>2, SMTT(30) DEF Mark, Answer, Goto
  <2>3. QED
    BY <2>1, <2>2
<1>10. ASSUME NEW q \in Req, Respond(q) PROVE (FreshInv /\ DropInv)'
  BY <1>10, SMTT(30) DEF Respond, Answer, Goto
<1>11. ASSUME NEW q \in Req, Route(q) PROVE (FreshInv /\ DropInv)'
  BY <1>11, SMTT(30) DEF Route, Goto, isLocalSession
<1>12. ASSUME NEW q \in Req, Recheck(q) PROVE (FreshInv /\ DropInv)'
  BY <1>12 DEF Recheck, Goto, isLocalSession
<1>13. ASSUME NEW q \in Req, ValidateLocal(q) PROVE (FreshInv /\ DropInv)'
  <2>1. \/ Goto(q, "handler") /\ UNCHANGED status
        \/ /\ Goto(q, "forget1") /\ UNCHANGED status
           /\ store[rq[q].sid] = "terminated"
        \/ Answer(q, "unavailable")
    BY <1>13 DEF ValidateLocal, Validate
  <2>2. CASE Goto(q, "handler") /\ UNCHANGED status
    BY <1>13, <2>2, SMTT(30) DEF ValidateLocal, Goto
  <2>3. CASE /\ Goto(q, "forget1") /\ UNCHANGED status
             /\ store[rq[q].sid] = "terminated"
    BY <1>13, <2>3, SMTT(30) DEF ValidateLocal, Goto
  <2>4. CASE Answer(q, "unavailable")
    BY <1>13, <2>4, SMTT(30) DEF ValidateLocal, Answer, Goto
  <2>5. QED
    BY <2>1, <2>2, <2>3, <2>4
<1>14. ASSUME NEW q \in Req, HandlerLookup(q) PROVE (FreshInv /\ DropInv)'
  BY <1>14, SMTT(30) DEF HandlerLookup, Answer, Goto
<1>15. ASSUME NEW q \in Req, Forget1(q) PROVE (FreshInv /\ DropInv)'
  BY <1>15, SMTT(30) DEF Forget1, Goto
<1>16. ASSUME NEW q \in Req, Forget2(q) PROVE (FreshInv /\ DropInv)'
  BY <1>16, SMTT(30) DEF Forget2, Goto
<1>17. ASSUME NEW q \in Req, Drop(q) PROVE (FreshInv /\ DropInv)'
  BY <1>17, SMTT(30) DEF Drop, Goto
<1>18. ASSUME NEW q \in Req, Close(q) PROVE (FreshInv /\ DropInv)'
  BY <1>18, SMTT(30) DEF Close, Answer, Goto
<1>19. ASSUME NEW q \in Req, SdkDelete(q) PROVE (FreshInv /\ DropInv)'
  BY <1>19, SMTT(30) DEF SdkDelete, Goto
<1>20. ASSUME NEW q \in Req, Terminate(q) PROVE (FreshInv /\ DropInv)'
  BY <1>20, SMTT(30) DEF Terminate, Goto
<1>21. ASSUME NEW q \in Req, ValidateRemote(q) PROVE (FreshInv /\ DropInv)'
  <2>1. \/ Goto(q, "get") /\ store[rq[q].sid] = "valid"
        \/ Goto(q, "drop") /\ store[rq[q].sid] = "terminated"
        \/ Goto(q, "rmiss")
    BY <1>21 DEF ValidateRemote, Validate
  <2>2. CASE Goto(q, "get") /\ store[rq[q].sid] = "valid"
    BY <1>21, <2>2, SMTT(30) DEF ValidateRemote, Goto
  <2>3. CASE Goto(q, "drop") /\ store[rq[q].sid] = "terminated"
    BY <1>21, <2>3, SMTT(30) DEF ValidateRemote, Goto
  <2>4. CASE Goto(q, "rmiss")
    BY <1>21, <2>4, SMTT(30) DEF ValidateRemote, Goto
  <2>5. QED
    BY <2>1, <2>2, <2>3, <2>4
<1>22. ASSUME NEW q \in Req, ValidateError(q) PROVE (FreshInv /\ DropInv)'
  BY <1>22 DEF ValidateError, Answer, Goto
<1>23. ASSUME NEW q \in Req, GetRehydrated(q) PROVE (FreshInv /\ DropInv)'
  BY <1>23, SMTT(30) DEF GetRehydrated, Goto
<1>24. ASSUME NEW q \in Req, RehydrateHit(q) PROVE (FreshInv /\ DropInv)'
  BY <1>24 DEF RehydrateHit, Goto
<1>25. ASSUME NEW q \in Req, Rehydrate(q) PROVE (FreshInv /\ DropInv)'
  BY <1>25, SMTT(30) DEF Rehydrate, SessionFor, Goto
<1>26. ASSUME NEW q \in Req, RehydrateFails(q) PROVE (FreshInv /\ DropInv)'
  BY <1>26, SMTT(30) DEF RehydrateFails, Answer, Goto
<1>27. ASSUME NEW q \in Req, ServeRehydrated(q) PROVE (FreshInv /\ DropInv)'
  BY <1>27, SMTT(30) DEF ServeRehydrated, SessionFor, Answer, Goto
<1>28. ASSUME NEW q \in Req, ServeClosed(q) PROVE (FreshInv /\ DropInv)'
  BY <1>28, SMTT(30) DEF ServeClosed, Answer, Goto
<1>29. ASSUME NEW s \in Sid, TerminateInStore(s) PROVE (FreshInv /\ DropInv)'
  BY <1>29, SMTT(30) DEF TerminateInStore
<1>30. ASSUME NEW r \in Replica, NEW s \in Sid, SdkCloseLocal(r, s)
      PROVE  (FreshInv /\ DropInv)'
  BY <1>30, SMTT(30) DEF SdkCloseLocal
<1>31. ASSUME NEW i \in Req, SdkCloseRehydrated(i) PROVE (FreshInv /\ DropInv)'
  BY <1>31 DEF SdkCloseRehydrated
<1>32. ASSUME NEW r \in Replica, Restart(r) PROVE (FreshInv /\ DropInv)'
  BY <1>32, SMTT(30) DEF Restart
<1>33. CASE UNCHANGED vars
  BY <1>33 DEF vars
<1> HIDE DEF RequestInv, RequestOK, LabelsOf, NoRequest,
        Request, Kind, FreshInv, DropInv, mcpVars, httpVars, reqVars
<1>34. QED
  BY <1>1, <1>2, <1>3, <1>4, <1>5, <1>6, <1>7, <1>8, <1>9, <1>10, <1>11,
     <1>12, <1>13, <1>14, <1>15, <1>16, <1>17, <1>18, <1>19, <1>20, <1>21,
     <1>22, <1>23, <1>24, <1>25, <1>26, <1>27, <1>28, <1>29, <1>30, <1>31,
     <1>32, <1>33 DEF Next, RequestStep, Finished

\* Every step preserves InstanceInv.
LEMMA InstanceStep == (TypeInv /\ InstanceInv) /\ [Next]_vars => InstanceInv'
<1> SUFFICES ASSUME (TypeInv /\ InstanceInv), [Next]_vars PROVE InstanceInv'
  OBVIOUS
<1> TypeOK /\ RequestInv
  BY DEF TypeInv
<1>0. \A r \in Replica, s \in Sid : rehydrated[r][s] # None => Connects(rehydrated[r][s], r, s)
  BY DEF InstanceInv
<1> USE NoneAssumption DEF TypeOK, RequestInv, RequestOK, LabelsOf, NoRequest,
        Request, Kind, InstanceInv, Connects, mcpVars, httpVars, reqVars
<1>1. ASSUME NEW q \in Req, NEW k \in Kind, NEW r \in Replica, NEW s \in Sid \cup {None}, Arrive(q, k, r, s)
      PROVE  InstanceInv'
  BY <1>1, SMTT(30) DEF Arrive, Goto
<1>2. ASSUME NEW q \in Req, Deny(q) PROVE InstanceInv'
  BY <1>2, SMTT(30) DEF Deny, Answer, Goto
<1>3. ASSUME NEW q \in Req, NEW s \in Sid, Create(q, s) PROVE InstanceInv'
  <2>1. \A p \in Req : /\ p # q => rq'[p] = rq[p]
                        /\ rq'[p].rep = rq[p].rep /\ rq'[p].kind = rq[p].kind
    BY <1>3, SMTT(30) DEF Create
  <2>2. rq'[q].sid = s
    BY <1>3, SMTT(30) DEF Create
  <2>3. QED
    BY <1>3, <2>1, <2>2, SMTT(30) DEF Create, Goto
<1>4. ASSUME NEW q \in Req, CreateFails(q) PROVE InstanceInv'
  BY <1>4, SMTT(30) DEF CreateFails, Answer, Goto
<1>5. ASSUME NEW q \in Req, Dispatch(q) PROVE InstanceInv'
  <2>1. held[q] = None /\ pc[q] # "idle" /\ UNCHANGED <<rehydrated, open, held, rq>>
    BY ZenonT(60), <1>5 DEF Dispatch
  <2>2. pc'[q] # "idle" /\ \A p \in Req \ {q} : pc'[p] = pc[p]
    BY <1>5, SMTT(30) DEF Dispatch, SessionFor, Answer, Goto
  <2>3. QED
    BY <2>1, <2>2, SMTT(30)
<1>6. ASSUME NEW q \in Req, InitRejected(q) PROVE InstanceInv'
  BY <1>6, SMTT(30) DEF InitRejected, SessionFor, Answer, Goto
<1>7. ASSUME NEW q \in Req, DispatchClosed(q) PROVE InstanceInv'
  BY <1>7, SMTT(30) DEF DispatchClosed, Answer, Goto
<1>8. ASSUME NEW q \in Req, Register(q) PROVE InstanceInv'
  BY <1>8, SMTT(30) DEF Register, SessionFor, Goto
<1>9. ASSUME NEW q \in Req, Mark(q) PROVE InstanceInv'
  <2>1. held[q] = None /\ pc[q] # "idle" /\ UNCHANGED <<rehydrated, open, held, rq>>
    BY <1>9 DEF Mark
  <2>2. pc'[q] # "idle" /\ \A p \in Req \ {q} : pc'[p] = pc[p]
    BY <1>9, SMTT(30) DEF Mark, Answer, Goto
  <2>3. QED
    BY <2>1, <2>2, SMTT(30)
<1>10. ASSUME NEW q \in Req, Respond(q) PROVE InstanceInv'
  BY <1>10, SMTT(30) DEF Respond, Answer, Goto
<1>11. ASSUME NEW q \in Req, Route(q) PROVE InstanceInv'
  BY <1>11, SMTT(30) DEF Route, Goto, isLocalSession
<1>12. ASSUME NEW q \in Req, Recheck(q) PROVE InstanceInv'
  BY <1>12, SMTT(30) DEF Recheck, Goto, isLocalSession
<1>13. ASSUME NEW q \in Req, ValidateLocal(q) PROVE InstanceInv'
  <2>1. \/ Goto(q, "handler") /\ UNCHANGED status
        \/ /\ Goto(q, "forget1") /\ UNCHANGED status
           /\ store[rq[q].sid] = "terminated"
        \/ Answer(q, "unavailable")
    BY <1>13 DEF ValidateLocal, Validate
  <2>2. CASE Goto(q, "handler") /\ UNCHANGED status
    BY <1>13, <2>2, SMTT(30) DEF ValidateLocal, Goto
  <2>3. CASE /\ Goto(q, "forget1") /\ UNCHANGED status
             /\ store[rq[q].sid] = "terminated"
    BY <1>13, <2>3, SMTT(30) DEF ValidateLocal, Goto
  <2>4. CASE Answer(q, "unavailable")
    BY <1>13, <2>4, SMTT(30) DEF ValidateLocal, Answer, Goto
  <2>5. QED
    BY <2>1, <2>2, <2>3, <2>4
<1>14. ASSUME NEW q \in Req, HandlerLookup(q) PROVE InstanceInv'
  <2>1. held[q] = None /\ pc[q] # "idle" /\ UNCHANGED <<rehydrated, open, held, rq>>
    BY ZenonT(60), <1>14 DEF HandlerLookup
  <2>2. pc'[q] # "idle" /\ \A p \in Req \ {q} : pc'[p] = pc[p]
    BY <1>14, SMTT(30) DEF HandlerLookup, Answer, Goto
  <2>3. QED
    BY <2>1, <2>2, SMTT(30)
<1>15. ASSUME NEW q \in Req, Forget1(q) PROVE InstanceInv'
  BY <1>15, SMTT(30) DEF Forget1, Goto
<1>16. ASSUME NEW q \in Req, Forget2(q) PROVE InstanceInv'
  BY <1>16, SMTT(30) DEF Forget2, Goto
<1>17. ASSUME NEW q \in Req, Drop(q) PROVE InstanceInv'
  <2>1. rq[q].rep \in Replica /\ rq[q].sid \in Sid /\ pc[q] # "idle"
    BY <1>17, InFlight DEF Drop
  <2> DEFINE rt == rehydrated[rq[q].rep][rq[q].sid]
  <2>2. rt # None => Connects(rt, rq[q].rep, rq[q].sid)
    <3> HIDE DEF TypeOK, RequestInv, RequestOK, LabelsOf, NoRequest,
        Request, Kind, InstanceInv, Connects, mcpVars, httpVars, reqVars
    <3> QED BY <1>0, <2>1
  <2>3. rt \in Req \cup {None}
    BY <2>1, SMTT(30)
  <2>4. /\ held' = [held EXCEPT ![q] = rt]
        /\ pc'[q] \in {"close", "rehydrate", "rserve"} /\ (rt # None => pc'[q] # "rehydrate")
        /\ \A p \in Req \ {q} : pc'[p] = pc[p]
        /\ UNCHANGED <<open, rq>>
    BY <1>17, SMTT(30) DEF Drop, Goto
  <2>5. \A r \in Replica, s \in Sid : rehydrated'[r][s] \in {rehydrated[r][s], None}
    BY <1>17, <2>1, SMTT(30) DEF Drop
  <2>6. \A i \in Req, r \in Replica, s \in Sid : Connects(i, r, s) => Connects(i, r, s)'
    BY <2>1, <2>4
  <2> HIDE DEF rt
  <2>7. QED
    BY <2>1, <2>2, <2>3, <2>4, <2>5, SMTT(30)
<1>18. ASSUME NEW q \in Req, Close(q) PROVE InstanceInv'
  BY <1>18, SMTT(30) DEF Close, Answer, Goto
<1>19. ASSUME NEW q \in Req, SdkDelete(q) PROVE InstanceInv'
  BY <1>19, SMTT(30) DEF SdkDelete, Goto
<1>20. ASSUME NEW q \in Req, Terminate(q) PROVE InstanceInv'
  BY <1>20, SMTT(30) DEF Terminate, Goto
<1>21. ASSUME NEW q \in Req, ValidateRemote(q) PROVE InstanceInv'
  <2>1. \/ Goto(q, "get") /\ store[rq[q].sid] = "valid"
        \/ Goto(q, "drop") /\ store[rq[q].sid] = "terminated"
        \/ Goto(q, "rmiss")
    BY <1>21 DEF ValidateRemote, Validate
  <2>2. CASE Goto(q, "get") /\ store[rq[q].sid] = "valid"
    BY <1>21, <2>2, SMTT(30) DEF ValidateRemote, Goto
  <2>3. CASE Goto(q, "drop") /\ store[rq[q].sid] = "terminated"
    BY <1>21, <2>3, SMTT(30) DEF ValidateRemote, Goto
  <2>4. CASE Goto(q, "rmiss")
    BY <1>21, <2>4, SMTT(30) DEF ValidateRemote, Goto
  <2>5. QED
    BY <2>1, <2>2, <2>3, <2>4
<1>22. ASSUME NEW q \in Req, ValidateError(q) PROVE InstanceInv'
  BY <1>22, SMTT(30) DEF ValidateError, Answer, Goto
<1>23. ASSUME NEW q \in Req, GetRehydrated(q) PROVE InstanceInv'
  <2>1. rq[q].rep \in Replica /\ rq[q].sid \in Sid /\ pc[q] # "idle"
    BY <1>23, InFlight DEF GetRehydrated
  <2> DEFINE rt == rehydrated[rq[q].rep][rq[q].sid]
  <2>2. rt # None => Connects(rt, rq[q].rep, rq[q].sid)
    <3> HIDE DEF TypeOK, RequestInv, RequestOK, LabelsOf, NoRequest,
        Request, Kind, InstanceInv, Connects, mcpVars, httpVars, reqVars
    <3> QED BY <1>0, <2>1
  <2>3. rt \in Req \cup {None}
    BY <2>1, SMTT(30)
  <2>4. /\ held' = [held EXCEPT ![q] = rt]
        /\ pc'[q] \in {"close", "rehydrate", "rserve"} /\ (rt # None => pc'[q] # "rehydrate")
        /\ \A p \in Req \ {q} : pc'[p] = pc[p]
        /\ UNCHANGED <<open, rq>>
    BY <1>23, SMTT(30) DEF GetRehydrated, Goto
  <2>5. \A r \in Replica, s \in Sid : rehydrated'[r][s] \in {rehydrated[r][s], None}
    BY <1>23, <2>1 DEF GetRehydrated
  <2>6. \A i \in Req, r \in Replica, s \in Sid : Connects(i, r, s) => Connects(i, r, s)'
    BY <2>1, <2>4
  <2> HIDE DEF rt
  <2>7. QED
    BY <2>1, <2>2, <2>3, <2>4, <2>5, SMTT(30)
<1>24. ASSUME NEW q \in Req, RehydrateHit(q) PROVE InstanceInv'
  <2>1. rq[q].rep \in Replica /\ rq[q].sid \in Sid /\ pc[q] # "idle"
    BY <1>24, InFlight DEF RehydrateHit
  <2> DEFINE rt == rehydrated[rq[q].rep][rq[q].sid]
  <2>2. rt # None => Connects(rt, rq[q].rep, rq[q].sid)
    <3> HIDE DEF TypeOK, RequestInv, RequestOK, LabelsOf, NoRequest,
        Request, Kind, InstanceInv, Connects, mcpVars, httpVars, reqVars
    <3> QED BY <1>0, <2>1
  <2>3. rt \in Req \cup {None}
    BY <2>1, SMTT(30)
  <2>4. /\ held' = [held EXCEPT ![q] = rt]
        /\ pc'[q] \in {"close", "rehydrate", "rserve"} /\ (rt # None => pc'[q] # "rehydrate")
        /\ \A p \in Req \ {q} : pc'[p] = pc[p]
        /\ UNCHANGED <<open, rq>>
    BY <1>24, SMTT(30) DEF RehydrateHit, Goto
  <2>5. \A r \in Replica, s \in Sid : rehydrated'[r][s] \in {rehydrated[r][s], None}
    BY <1>24, <2>1 DEF RehydrateHit
  <2>6. \A i \in Req, r \in Replica, s \in Sid : Connects(i, r, s) => Connects(i, r, s)'
    BY <2>1, <2>4
  <2> HIDE DEF rt
  <2>7. QED
    BY <2>1, <2>2, <2>3, <2>4, <2>5, SMTT(30)
<1>25. ASSUME NEW q \in Req, Rehydrate(q) PROVE InstanceInv'
  <2>1. rq[q].rep \in Replica /\ rq[q].sid \in Sid /\ Connects(q, rq[q].rep, rq[q].sid)
    BY ZenonT(60), <1>25, InFlight DEF Rehydrate
  <2>2. /\ held' = [held EXCEPT ![q] = q]
        /\ rehydrated' = [rehydrated EXCEPT ![rq[q].rep][rq[q].sid] = q]
        /\ open' = open \cup {q}
        /\ pc' = [pc EXCEPT ![q] = "rserve"]
        /\ rq' = rq
    BY <1>25 DEF Rehydrate, Goto
  <2>3. ASSUME NEW r \in Replica, NEW s \in Sid
        PROVE  (rehydrated[r][s] # None => Connects(rehydrated[r][s], r, s))'
    <3>1. CASE r = rq[q].rep /\ s = rq[q].sid
      <4>1. rehydrated'[r][s] = q
        BY <2>2, <3>1, SMTT(30)
      <4>2. Connects(q, r, s)'
        BY <2>1, <2>2, <3>1, SMTT(30)
      <4>3. QED
        BY <4>1, <4>2
    <3>2. CASE ~(r = rq[q].rep /\ s = rq[q].sid)
      <4>1. rehydrated'[r][s] = rehydrated[r][s]
        BY <2>1, <2>2, <3>2, SMTT(30)
      <4>2. rehydrated[r][s] \in Req \cup {None}
        BY SMTT(30)
      <4>3. \A i \in Req : Connects(i, r, s) => Connects(i, r, s)'
        BY <2>2, SMTT(30)
      <4>4. rehydrated[r][s] # None => Connects(rehydrated[r][s], r, s)
        BY SMTT(30)
      <4>5. QED
        <5> HIDE DEF InstanceInv, Connects, TypeOK, RequestInv
        <5>1. QED
          BY <4>1, <4>2, <4>3, <4>4
    <3>3. QED
      BY <3>1, <3>2
  <2>4. (\A i \in open : Connects(i, rq[i].rep, rq[i].sid))'
    BY <2>1, <2>2, SMTT(30)
  <2>5. ASSUME NEW p \in Req
        PROVE  (held[p] # None => /\ pc[p] \in {"close", "rserve", "done"}
                                  /\ Connects(held[p], rq[p].rep, rq[p].sid))'
    <3>1. CASE p = q
      BY <2>1, <2>2, <3>1, SMTT(30)
    <3>2. CASE p # q
      <4>1. held'[p] = held[p] /\ held[p] \in Req \cup {None} /\ pc'[p] = pc[p]
        BY <2>2, <3>2, SMTT(30)
      <4>2. QED
        BY <2>2, <4>1, SMTT(30)
    <3>3. QED
      BY <3>1, <3>2
  <2>6. QED
    BY <2>3, <2>4, <2>5
<1>26. ASSUME NEW q \in Req, RehydrateFails(q) PROVE InstanceInv'
  BY <1>26, SMTT(30) DEF RehydrateFails, Answer, Goto
<1>27. ASSUME NEW q \in Req, ServeRehydrated(q) PROVE InstanceInv'
  BY <1>27, SMTT(30) DEF ServeRehydrated, SessionFor, Answer, Goto
<1>28. ASSUME NEW q \in Req, ServeClosed(q) PROVE InstanceInv'
  BY <1>28, SMTT(30) DEF ServeClosed, Answer, Goto
<1>29. ASSUME NEW s \in Sid, TerminateInStore(s) PROVE InstanceInv'
  BY <1>29, SMTT(30) DEF TerminateInStore
<1>30. ASSUME NEW r \in Replica, NEW s \in Sid, SdkCloseLocal(r, s)
      PROVE  InstanceInv'
  BY <1>30, SMTT(30) DEF SdkCloseLocal
<1>31. ASSUME NEW i \in Req, SdkCloseRehydrated(i) PROVE InstanceInv'
  BY <1>31, SMTT(30) DEF SdkCloseRehydrated
<1>32. ASSUME NEW r \in Replica, Restart(r) PROVE InstanceInv'
  BY <1>32, SMTT(30) DEF Restart
<1>33. CASE UNCHANGED vars
  BY <1>33, SMTT(30) DEF vars
<1> HIDE DEF RequestInv, RequestOK, LabelsOf, NoRequest,
        Request, Kind, InstanceInv, Connects, mcpVars, httpVars, reqVars
<1>34. QED
  BY <1>1, <1>2, <1>3, <1>4, <1>5, <1>6, <1>7, <1>8, <1>9, <1>10, <1>11,
     <1>12, <1>13, <1>14, <1>15, <1>16, <1>17, <1>18, <1>19, <1>20, <1>21,
     <1>22, <1>23, <1>24, <1>25, <1>26, <1>27, <1>28, <1>29, <1>30, <1>31,
     <1>32, <1>33 DEF Next, RequestStep, Finished

\* Every step preserves NoOrphanSession.
LEMMA OrphanStep == (TypeInv /\ InstanceInv /\ NoOrphanSession) /\ [Next]_vars => NoOrphanSession'
<1> SUFFICES ASSUME (TypeInv /\ InstanceInv /\ NoOrphanSession), [Next]_vars PROVE NoOrphanSession'
  OBVIOUS
<1> TypeOK /\ RequestInv
  BY DEF TypeInv
<1> USE NoneAssumption DEF TypeOK, RequestInv, RequestOK, LabelsOf, NoRequest,
        Request, Kind, InstanceInv, Connects,
        NoOrphanSession, mcpVars, httpVars, reqVars
<1>1. ASSUME NEW q \in Req, NEW k \in Kind, NEW r \in Replica, NEW s \in Sid \cup {None}, Arrive(q, k, r, s)
      PROVE  NoOrphanSession'
  BY <1>1, SMTT(30) DEF Arrive, Goto
<1>2. ASSUME NEW q \in Req, Deny(q) PROVE NoOrphanSession'
  BY <1>2, SMTT(30) DEF Deny, Answer, Goto
<1>3. ASSUME NEW q \in Req, NEW s \in Sid, Create(q, s) PROVE NoOrphanSession'
  <2>1. q \notin open /\ \A p \in Req \ {q} : rq'[p] = rq[p] /\ pc'[p] = pc[p]
    BY <1>3, SMTT(30) DEF Create, Goto
  <2>2. UNCHANGED <<rehydrated, open, held>> /\ pc[q] # "close" /\ open \subseteq Req
    BY <1>3 DEF Create, Goto
  <2> HIDE DEF TypeOK, RequestInv, RequestOK, LabelsOf, Request, Kind, InstanceInv, Connects
  <2>3. QED
    BY <2>1, <2>2, SMTT(30)
<1>4. ASSUME NEW q \in Req, CreateFails(q) PROVE NoOrphanSession'
  BY <1>4, SMTT(30) DEF CreateFails, Answer, Goto
<1>5. ASSUME NEW q \in Req, Dispatch(q) PROVE NoOrphanSession'
  BY <1>5, SMTT(30) DEF Dispatch, SessionFor, Answer, Goto
<1>6. ASSUME NEW q \in Req, InitRejected(q) PROVE NoOrphanSession'
  BY <1>6, SMTT(30) DEF InitRejected, SessionFor, Answer, Goto
<1>7. ASSUME NEW q \in Req, DispatchClosed(q) PROVE NoOrphanSession'
  BY <1>7, SMTT(30) DEF DispatchClosed, Answer, Goto
<1>8. ASSUME NEW q \in Req, Register(q) PROVE NoOrphanSession'
  BY <1>8, SMTT(30) DEF Register, SessionFor, Goto
<1>9. ASSUME NEW q \in Req, Mark(q) PROVE NoOrphanSession'
  BY <1>9, SMTT(30) DEF Mark, Answer, Goto
<1>10. ASSUME NEW q \in Req, Respond(q) PROVE NoOrphanSession'
  BY <1>10, SMTT(30) DEF Respond, Answer, Goto
<1>11. ASSUME NEW q \in Req, Route(q) PROVE NoOrphanSession'
  BY <1>11, SMTT(30) DEF Route, Goto, isLocalSession
<1>12. ASSUME NEW q \in Req, Recheck(q) PROVE NoOrphanSession'
  BY <1>12, SMTT(30) DEF Recheck, Goto, isLocalSession
<1>13. ASSUME NEW q \in Req, ValidateLocal(q) PROVE NoOrphanSession'
  <2>1. \/ Goto(q, "handler") /\ UNCHANGED status
        \/ /\ Goto(q, "forget1") /\ UNCHANGED status
           /\ store[rq[q].sid] = "terminated"
        \/ Answer(q, "unavailable")
    BY <1>13 DEF ValidateLocal, Validate
  <2>2. CASE Goto(q, "handler") /\ UNCHANGED status
    BY <1>13, <2>2, SMTT(30) DEF ValidateLocal, Goto
  <2>3. CASE /\ Goto(q, "forget1") /\ UNCHANGED status
             /\ store[rq[q].sid] = "terminated"
    BY <1>13, <2>3, SMTT(30) DEF ValidateLocal, Goto
  <2>4. CASE Answer(q, "unavailable")
    BY <1>13, <2>4, SMTT(30) DEF ValidateLocal, Answer, Goto
  <2>5. QED
    BY <2>1, <2>2, <2>3, <2>4
<1>14. ASSUME NEW q \in Req, HandlerLookup(q) PROVE NoOrphanSession'
  BY <1>14, SMTT(30) DEF HandlerLookup, Answer, Goto
<1>15. ASSUME NEW q \in Req, Forget1(q) PROVE NoOrphanSession'
  BY <1>15, SMTT(30) DEF Forget1, Goto
<1>16. ASSUME NEW q \in Req, Forget2(q) PROVE NoOrphanSession'
  BY <1>16, SMTT(30) DEF Forget2, Goto
<1>17. ASSUME NEW q \in Req, Drop(q) PROVE NoOrphanSession'
  BY <1>17, SMTT(30) DEF Drop, Goto
<1>18. ASSUME NEW q \in Req, Close(q) PROVE NoOrphanSession'
  <2>1. /\ open' = open \ {held[q]}
        /\ UNCHANGED <<rehydrated, rq>>
        /\ \A p \in Req \ {q} : pc'[p] = pc[p] /\ held'[p] = held[p]
    BY <1>18, SMTT(30) DEF Close, Answer, Goto
  <2> HIDE DEF TypeOK, RequestInv, RequestOK, LabelsOf, Request, Kind, InstanceInv, Connects
  <2>2. QED
    BY <2>1, SMTT(30)
<1>19. ASSUME NEW q \in Req, SdkDelete(q) PROVE NoOrphanSession'
  BY <1>19, SMTT(30) DEF SdkDelete, Goto
<1>20. ASSUME NEW q \in Req, Terminate(q) PROVE NoOrphanSession'
  BY <1>20, SMTT(30) DEF Terminate, Goto
<1>21. ASSUME NEW q \in Req, ValidateRemote(q) PROVE NoOrphanSession'
  <2>1. \/ Goto(q, "get") /\ store[rq[q].sid] = "valid"
        \/ Goto(q, "drop") /\ store[rq[q].sid] = "terminated"
        \/ Goto(q, "rmiss")
    BY <1>21 DEF ValidateRemote, Validate
  <2>2. CASE Goto(q, "get") /\ store[rq[q].sid] = "valid"
    BY <1>21, <2>2, SMTT(30) DEF ValidateRemote, Goto
  <2>3. CASE Goto(q, "drop") /\ store[rq[q].sid] = "terminated"
    BY <1>21, <2>3, SMTT(30) DEF ValidateRemote, Goto
  <2>4. CASE Goto(q, "rmiss")
    BY <1>21, <2>4, SMTT(30) DEF ValidateRemote, Goto
  <2>5. QED
    BY <2>1, <2>2, <2>3, <2>4
<1>22. ASSUME NEW q \in Req, ValidateError(q) PROVE NoOrphanSession'
  BY <1>22, SMTT(30) DEF ValidateError, Answer, Goto
<1>23. ASSUME NEW q \in Req, GetRehydrated(q) PROVE NoOrphanSession'
  BY <1>23 DEF GetRehydrated, Goto
<1>24. ASSUME NEW q \in Req, RehydrateHit(q) PROVE NoOrphanSession'
  BY <1>24 DEF RehydrateHit, Goto
<1>25. ASSUME NEW q \in Req, Rehydrate(q) PROVE NoOrphanSession'
  <2>1. rq[q].rep \in Replica /\ rq[q].sid \in Sid
    BY ZenonT(60), <1>25, InFlight DEF Rehydrate
  <2>2. /\ rehydrated[rq[q].rep][rq[q].sid] = None
        /\ rehydrated' = [rehydrated EXCEPT ![rq[q].rep][rq[q].sid] = q]
        /\ open' = open \cup {q} /\ rq' = rq /\ pc[q] = "rehydrate"
        /\ \A p \in Req \ {q} : pc'[p] = pc[p] /\ held'[p] = held[p]
    BY <1>25, SMTT(30) DEF Rehydrate, Goto
  <2>3. ASSUME NEW i \in open, i # q
        PROVE  \/ rehydrated'[rq[i].rep][rq[i].sid] = i
               \/ \E p \in Req : pc'[p] = "close" /\ held'[p] = i
    <3>1. CASE rehydrated[rq[i].rep][rq[i].sid] = i
      <4>1. rq[i].rep \in Replica /\ rq[i].sid \in Sid
        BY InFlight
      <4>2. ~(rq[i].rep = rq[q].rep /\ rq[i].sid = rq[q].sid)
        BY <2>2, <3>1, SMTT(30)
      <4>3. QED
        BY <2>1, <2>2, <3>1, <4>1, <4>2, SMTT(30)
    <3>2. CASE \E p \in Req : pc[p] = "close" /\ held[p] = i
      <4> HIDE DEF TypeOK, RequestInv, RequestOK, LabelsOf, Request, Kind, InstanceInv, Connects
      <4>1. QED
        BY <2>2, <3>2
    <3>3. QED
      BY <3>1, <3>2
  <2>4. rehydrated'[rq[q].rep][rq[q].sid] = q
    BY <2>1, <2>2, SMTT(30)
  <2>5. QED
    BY <2>2, <2>3, <2>4, SMTT(30)
<1>26. ASSUME NEW q \in Req, RehydrateFails(q) PROVE NoOrphanSession'
  BY <1>26, SMTT(30) DEF RehydrateFails, Answer, Goto
<1>27. ASSUME NEW q \in Req, ServeRehydrated(q) PROVE NoOrphanSession'
  BY <1>27, SMTT(30) DEF ServeRehydrated, SessionFor, Answer, Goto
<1>28. ASSUME NEW q \in Req, ServeClosed(q) PROVE NoOrphanSession'
  BY <1>28, SMTT(30) DEF ServeClosed, Answer, Goto
<1>29. ASSUME NEW s \in Sid, TerminateInStore(s) PROVE NoOrphanSession'
  BY <1>29, SMTT(30) DEF TerminateInStore
<1>30. ASSUME NEW r \in Replica, NEW s \in Sid, SdkCloseLocal(r, s)
      PROVE  NoOrphanSession'
  BY <1>30, SMTT(30) DEF SdkCloseLocal
<1>31. ASSUME NEW i \in Req, SdkCloseRehydrated(i) PROVE NoOrphanSession'
  BY <1>31, SMTT(30) DEF SdkCloseRehydrated
<1>32. ASSUME NEW r \in Replica, Restart(r) PROVE NoOrphanSession'
  <2>1. ASSUME NEW i \in open, rq[i].rep # r
        PROVE  \/ rehydrated'[rq[i].rep][rq[i].sid] = i
               \/ \E p \in Req : pc'[p] = "close" /\ held'[p] = i
    <3>1. CASE rehydrated[rq[i].rep][rq[i].sid] = i
      <4>1. rq[i].rep \in Replica
        BY InFlight
      <4>2. QED
        BY <1>32, <2>1, <3>1, <4>1, SMTT(30) DEF Restart
    <3>2. CASE \E p \in Req : pc[p] = "close" /\ held[p] = i
      <4>1. PICK p \in Req : pc[p] = "close" /\ held[p] = i
        BY <3>2
      <4>2. held[p] # None /\ rq[i].rep = rq[p].rep
        BY <4>1, SMTT(30)
      <4>3. pc'[p] = pc[p] /\ held'[p] = held[p]
        BY <1>32, <2>1, <4>2 DEF Restart
      <4>4. QED
        BY <4>1, <4>3, SMTT(30)
    <3>3. QED
      BY <3>1, <3>2
  <2>2. rq' = rq /\ open' = {i \in open : rq[i].rep # r}
    BY <1>32 DEF Restart
  <2> HIDE DEF TypeOK, RequestInv, RequestOK, LabelsOf, Request, Kind, InstanceInv, Connects
  <2>3. QED
    BY <2>1, <2>2
<1>33. CASE UNCHANGED vars
  BY <1>33, SMTT(30) DEF vars
<1> HIDE DEF RequestInv, RequestOK, LabelsOf, NoRequest,
        Request, Kind, InstanceInv, Connects,
        NoOrphanSession, mcpVars, httpVars, reqVars
<1>34. QED
  BY <1>1, <1>2, <1>3, <1>4, <1>5, <1>6, <1>7, <1>8, <1>9, <1>10, <1>11,
     <1>12, <1>13, <1>14, <1>15, <1>16, <1>17, <1>18, <1>19, <1>20, <1>21,
     <1>22, <1>23, <1>24, <1>25, <1>26, <1>27, <1>28, <1>29, <1>30, <1>31,
     <1>32, <1>33 DEF Next, RequestStep, Finished

\* Every step makes progress in the sense of Progress.
LEMMA ProgressStep == TypeInv /\ [Next]_vars => Progress
<1> SUFFICES ASSUME TypeInv, [Next]_vars PROVE Progress
  OBVIOUS
<1> TypeOK /\ RequestInv
  BY DEF TypeInv
<1> USE NoneAssumption DEF TypeOK, RequestInv, RequestOK, LabelsOf, NoRequest,
        Request, Kind, Progress, mcpVars, httpVars, reqVars
<1>1. ASSUME NEW q \in Req, NEW k \in Kind, NEW r \in Replica, NEW s \in Sid \cup {None}, Arrive(q, k, r, s)
      PROVE  Progress
  BY <1>1 DEF Arrive, Goto
<1>2. ASSUME NEW q \in Req, Deny(q) PROVE Progress
  BY <1>2 DEF Deny, Answer, Goto
<1>3. ASSUME NEW q \in Req, NEW s \in Sid, Create(q, s) PROVE Progress
  <2>1. \A p \in Req : /\ p # q => rq'[p] = rq[p]
                        /\ rq'[p].rep = rq[p].rep /\ rq'[p].kind = rq[p].kind
    BY <1>3 DEF Create
  <2>2. rq'[q].sid = s
    BY <1>3, SMTT(30) DEF Create
  <2>3. QED
    BY <1>3, <2>1, <2>2, SMTT(30) DEF Create, Goto
<1>4. ASSUME NEW q \in Req, CreateFails(q) PROVE Progress
  BY <1>4 DEF CreateFails, Answer, Goto
<1>5. ASSUME NEW q \in Req, Dispatch(q) PROVE Progress
  BY <1>5, SMTT(30) DEF Dispatch, SessionFor, Answer, Goto
<1>6. ASSUME NEW q \in Req, InitRejected(q) PROVE Progress
  BY <1>6 DEF InitRejected, SessionFor, Answer, Goto
<1>7. ASSUME NEW q \in Req, DispatchClosed(q) PROVE Progress
  BY <1>7 DEF DispatchClosed, Answer, Goto
<1>8. ASSUME NEW q \in Req, Register(q) PROVE Progress
  BY <1>8 DEF Register, SessionFor, Goto
<1>9. ASSUME NEW q \in Req, Mark(q) PROVE Progress
  <2>1. CASE rq[q].kind = "init"
    BY <1>9, <2>1, SMTT(30) DEF Mark, Answer, Goto
  <2>2. CASE ~(rq[q].kind = "init")
    BY <1>9, <2>2, SMTT(30) DEF Mark, Answer, Goto
  <2>3. QED
    BY <2>1, <2>2
<1>10. ASSUME NEW q \in Req, Respond(q) PROVE Progress
  BY <1>10 DEF Respond, Answer, Goto
<1>11. ASSUME NEW q \in Req, Route(q) PROVE Progress
  BY <1>11 DEF Route, Goto, isLocalSession
<1>12. ASSUME NEW q \in Req, Recheck(q) PROVE Progress
  BY <1>12 DEF Recheck, Goto, isLocalSession
<1>13. ASSUME NEW q \in Req, ValidateLocal(q) PROVE Progress
  <2>1. \/ Goto(q, "handler") /\ UNCHANGED status
        \/ /\ Goto(q, "forget1") /\ UNCHANGED status
           /\ store[rq[q].sid] = "terminated"
        \/ Answer(q, "unavailable")
    BY <1>13 DEF ValidateLocal, Validate
  <2>2. CASE Goto(q, "handler") /\ UNCHANGED status
    BY <1>13, <2>2 DEF ValidateLocal, Goto
  <2>3. CASE /\ Goto(q, "forget1") /\ UNCHANGED status
             /\ store[rq[q].sid] = "terminated"
    BY <1>13, <2>3 DEF ValidateLocal, Goto
  <2>4. CASE Answer(q, "unavailable")
    BY <1>13, <2>4 DEF ValidateLocal, Answer, Goto
  <2>5. QED
    BY <2>1, <2>2, <2>3, <2>4
<1>14. ASSUME NEW q \in Req, HandlerLookup(q) PROVE Progress
  BY <1>14, SMTT(30) DEF HandlerLookup, Answer, Goto
<1>15. ASSUME NEW q \in Req, Forget1(q) PROVE Progress
  BY <1>15 DEF Forget1, Goto
<1>16. ASSUME NEW q \in Req, Forget2(q) PROVE Progress
  BY <1>16 DEF Forget2, Goto
<1>17. ASSUME NEW q \in Req, Drop(q) PROVE Progress
  BY <1>17 DEF Drop, Goto
<1>18. ASSUME NEW q \in Req, Close(q) PROVE Progress
  BY <1>18, SMTT(30) DEF Close, Answer, Goto
<1>19. ASSUME NEW q \in Req, SdkDelete(q) PROVE Progress
  BY <1>19 DEF SdkDelete, Goto
<1>20. ASSUME NEW q \in Req, Terminate(q) PROVE Progress
  BY <1>20 DEF Terminate, Goto
<1>21. ASSUME NEW q \in Req, ValidateRemote(q) PROVE Progress
  <2>1. \/ Goto(q, "get") /\ store[rq[q].sid] = "valid"
        \/ Goto(q, "drop") /\ store[rq[q].sid] = "terminated"
        \/ Goto(q, "rmiss")
    BY <1>21 DEF ValidateRemote, Validate
  <2>2. CASE Goto(q, "get") /\ store[rq[q].sid] = "valid"
    BY <1>21, <2>2 DEF ValidateRemote, Goto
  <2>3. CASE Goto(q, "drop") /\ store[rq[q].sid] = "terminated"
    BY <1>21, <2>3 DEF ValidateRemote, Goto
  <2>4. CASE Goto(q, "rmiss")
    BY <1>21, <2>4 DEF ValidateRemote, Goto
  <2>5. QED
    BY <2>1, <2>2, <2>3, <2>4
<1>22. ASSUME NEW q \in Req, ValidateError(q) PROVE Progress
  BY <1>22 DEF ValidateError, Answer, Goto
<1>23. ASSUME NEW q \in Req, GetRehydrated(q) PROVE Progress
  BY <1>23 DEF GetRehydrated, Goto
<1>24. ASSUME NEW q \in Req, RehydrateHit(q) PROVE Progress
  BY <1>24 DEF RehydrateHit, Goto
<1>25. ASSUME NEW q \in Req, Rehydrate(q) PROVE Progress
  BY <1>25, SMTT(30) DEF Rehydrate, SessionFor, Goto
<1>26. ASSUME NEW q \in Req, RehydrateFails(q) PROVE Progress
  BY <1>26, SMTT(30) DEF RehydrateFails, Answer, Goto
<1>27. ASSUME NEW q \in Req, ServeRehydrated(q) PROVE Progress
  BY <1>27 DEF ServeRehydrated, SessionFor, Answer, Goto
<1>28. ASSUME NEW q \in Req, ServeClosed(q) PROVE Progress
  BY <1>28 DEF ServeClosed, Answer, Goto
<1>29. ASSUME NEW s \in Sid, TerminateInStore(s) PROVE Progress
  BY <1>29 DEF TerminateInStore
<1>30. ASSUME NEW r \in Replica, NEW s \in Sid, SdkCloseLocal(r, s)
      PROVE  Progress
  BY <1>30 DEF SdkCloseLocal
<1>31. ASSUME NEW i \in Req, SdkCloseRehydrated(i) PROVE Progress
  BY <1>31 DEF SdkCloseRehydrated
<1>32. ASSUME NEW r \in Replica, Restart(r) PROVE Progress
  BY <1>32 DEF Restart
<1>33. CASE UNCHANGED vars
  BY <1>33 DEF vars
<1> HIDE DEF RequestInv, RequestOK, LabelsOf, NoRequest,
        Request, Kind, Progress, mcpVars, httpVars, reqVars
<1>34. QED
  BY <1>1, <1>2, <1>3, <1>4, <1>5, <1>6, <1>7, <1>8, <1>9, <1>10, <1>11,
     <1>12, <1>13, <1>14, <1>15, <1>16, <1>17, <1>18, <1>19, <1>20, <1>21,
     <1>22, <1>23, <1>24, <1>25, <1>26, <1>27, <1>28, <1>29, <1>30, <1>31,
     <1>32, <1>33 DEF Next, RequestStep, Finished

\* A DELETE that arrived or has forgotten its session stays so, and a session
\* that is gone stays gone.
LEMMA Stable ==
  ASSUME TypeInv, [Next]_vars, NEW r \in Replica, NEW s \in Sid
  PROVE  /\ DeleteArrived(r, s) => DeleteArrived(r, s)'
         /\ DeleteForgot(r, s) => DeleteForgot(r, s)'
         /\ store[s] = "terminated" => store'[s] = "terminated"
         /\ Gone(r, s) => Gone(r, s)'
<1>1. Progress
  BY ProgressStep
<1>2. ASSUME DeleteArrived(r, s) PROVE DeleteArrived(r, s)'
  BY <1>1, <1>2 DEF Progress, DeleteArrived
<1>3. ASSUME DeleteForgot(r, s) PROVE DeleteForgot(r, s)'
  BY <1>1, <1>3, SMTT(30) DEF Progress, DeleteForgot
<1>4. QED
  BY <1>1, <1>2, <1>3 DEF Progress, Gone

\* Every step preserves NoSplitBrainWithoutDelete.
LEMMA SplitStep == (TypeInv /\ FreshInv /\ DetourInv /\ NoSplitBrainWithoutDelete) /\ [Next]_vars => NoSplitBrainWithoutDelete'
<1> SUFFICES ASSUME (TypeInv /\ FreshInv /\ DetourInv /\ NoSplitBrainWithoutDelete), [Next]_vars PROVE NoSplitBrainWithoutDelete'
  OBVIOUS
<1> TypeOK /\ RequestInv
  BY DEF TypeInv
<1>0. ASSUME NEW r \in Replica, NEW s \in Sid
      PROVE  /\ DeleteForgot(r, s) => DeleteForgot(r, s)'
             /\ store[s] = "terminated" => store'[s] = "terminated"
             /\ Gone(r, s) => Gone(r, s)'
  BY ZenonT(60), Stable
<1> USE NoneAssumption, <1>0 DEF TypeOK, RequestInv, RequestOK, LabelsOf, NoRequest,
        Request, Kind, FreshInv, DetourInv,
        NoSplitBrainWithoutDelete, mcpVars, httpVars, reqVars
<1>1. ASSUME NEW q \in Req, NEW k \in Kind, NEW r \in Replica, NEW s \in Sid \cup {None}, Arrive(q, k, r, s)
      PROVE  NoSplitBrainWithoutDelete'
  BY <1>1 DEF Arrive, Goto
<1>2. ASSUME NEW q \in Req, Deny(q) PROVE NoSplitBrainWithoutDelete'
  BY <1>2 DEF Deny, Answer, Goto
<1>3. ASSUME NEW q \in Req, NEW s \in Sid, Create(q, s)
      PROVE  NoSplitBrainWithoutDelete'
  <2>1. \A p \in Req : /\ p # q => rq'[p] = rq[p]
                        /\ rq'[p].rep = rq[p].rep /\ rq'[p].kind = rq[p].kind
    BY <1>3, SMTT(30) DEF Create
  <2>2. rq'[q].sid = s
    BY <1>3, SMTT(30) DEF Create
  <2>3. QED
    BY <1>3, <2>1, <2>2, SMTT(30) DEF Create, Goto
<1>4. ASSUME NEW q \in Req, CreateFails(q) PROVE NoSplitBrainWithoutDelete'
  BY <1>4 DEF CreateFails, Answer, Goto
<1>5. ASSUME NEW q \in Req, Dispatch(q) PROVE NoSplitBrainWithoutDelete'
  BY <1>5 DEF Dispatch, SessionFor, Answer, Goto
<1>6. ASSUME NEW q \in Req, InitRejected(q) PROVE NoSplitBrainWithoutDelete'
  BY <1>6, SMTT(30) DEF InitRejected, SessionFor, Answer, Goto
<1>7. ASSUME NEW q \in Req, DispatchClosed(q) PROVE NoSplitBrainWithoutDelete'
  BY <1>7 DEF DispatchClosed, Answer, Goto
<1>8. ASSUME NEW q \in Req, Register(q) PROVE NoSplitBrainWithoutDelete'
  BY <1>8 DEF Register, SessionFor, Goto
<1>9. ASSUME NEW q \in Req, Mark(q) PROVE NoSplitBrainWithoutDelete'
  <2>1. CASE rq[q].kind = "init"
    BY <1>9, <2>1 DEF Mark, Answer, Goto
  <2>2. CASE ~(rq[q].kind = "init")
    BY <1>9, <2>2 DEF Mark, Answer, Goto
  <2>3. QED
    BY <2>1, <2>2
<1>10. ASSUME NEW q \in Req, Respond(q) PROVE NoSplitBrainWithoutDelete'
  BY <1>10 DEF Respond, Answer, Goto
<1>11. ASSUME NEW q \in Req, Route(q) PROVE NoSplitBrainWithoutDelete'
  BY <1>11 DEF Route, Goto, isLocalSession
<1>12. ASSUME NEW q \in Req, Recheck(q) PROVE NoSplitBrainWithoutDelete'
  BY <1>12 DEF Recheck, Goto, isLocalSession
<1>13. ASSUME NEW q \in Req, ValidateLocal(q) PROVE NoSplitBrainWithoutDelete'
  <2>1. \/ Goto(q, "handler") /\ UNCHANGED status
        \/ /\ Goto(q, "forget1") /\ UNCHANGED status
           /\ store[rq[q].sid] = "terminated"
        \/ Answer(q, "unavailable")
    BY <1>13 DEF ValidateLocal, Validate
  <2>2. CASE Goto(q, "handler") /\ UNCHANGED status
    BY <1>13, <2>2 DEF ValidateLocal, Goto
  <2>3. CASE /\ Goto(q, "forget1") /\ UNCHANGED status
             /\ store[rq[q].sid] = "terminated"
    BY <1>13, <2>3 DEF ValidateLocal, Goto
  <2>4. CASE Answer(q, "unavailable")
    BY <1>13, <2>4 DEF ValidateLocal, Answer, Goto
  <2>5. QED
    BY <2>1, <2>2, <2>3, <2>4
<1>14. ASSUME NEW q \in Req, HandlerLookup(q) PROVE NoSplitBrainWithoutDelete'
  BY <1>14 DEF HandlerLookup, Answer, Goto
<1>15. ASSUME NEW q \in Req, Forget1(q) PROVE NoSplitBrainWithoutDelete'
  BY <1>15 DEF Forget1, Goto
<1>16. ASSUME NEW q \in Req, Forget2(q) PROVE NoSplitBrainWithoutDelete'
  BY <1>16 DEF Forget2, Goto
<1>17. ASSUME NEW q \in Req, Drop(q) PROVE NoSplitBrainWithoutDelete'
  BY <1>17, SMTT(30) DEF Drop, Goto
<1>18. ASSUME NEW q \in Req, Close(q) PROVE NoSplitBrainWithoutDelete'
  BY <1>18 DEF Close, Answer, Goto
<1>19. ASSUME NEW q \in Req, SdkDelete(q) PROVE NoSplitBrainWithoutDelete'
  BY <1>19, SMTT(30) DEF SdkDelete, Goto
<1>20. ASSUME NEW q \in Req, Terminate(q) PROVE NoSplitBrainWithoutDelete'
  BY <1>20 DEF Terminate, Goto
<1>21. ASSUME NEW q \in Req, ValidateRemote(q) PROVE NoSplitBrainWithoutDelete'
  <2>1. \/ Goto(q, "get") /\ store[rq[q].sid] = "valid"
        \/ Goto(q, "drop") /\ store[rq[q].sid] = "terminated"
        \/ Goto(q, "rmiss")
    BY <1>21 DEF ValidateRemote, Validate
  <2>2. CASE Goto(q, "get") /\ store[rq[q].sid] = "valid"
    BY <1>21, <2>2 DEF ValidateRemote, Goto
  <2>3. CASE Goto(q, "drop") /\ store[rq[q].sid] = "terminated"
    BY <1>21, <2>3 DEF ValidateRemote, Goto
  <2>4. CASE Goto(q, "rmiss")
    BY <1>21, <2>4 DEF ValidateRemote, Goto
  <2>5. QED
    BY <2>1, <2>2, <2>3, <2>4
<1>22. ASSUME NEW q \in Req, ValidateError(q) PROVE NoSplitBrainWithoutDelete'
  BY <1>22 DEF ValidateError, Answer, Goto
<1>23. ASSUME NEW q \in Req, GetRehydrated(q) PROVE NoSplitBrainWithoutDelete'
  BY <1>23 DEF GetRehydrated, Goto
<1>24. ASSUME NEW q \in Req, RehydrateHit(q) PROVE NoSplitBrainWithoutDelete'
  BY <1>24 DEF RehydrateHit, Goto
<1>25. ASSUME NEW q \in Req, Rehydrate(q) PROVE NoSplitBrainWithoutDelete'
  <2>1. /\ rq[q].rep \in Replica /\ rq[q].sid \in Sid
        /\ rq[q].sid \in handler[rq[q].rep] => DeleteForgot(rq[q].rep, rq[q].sid)
    BY ZenonT(60), <1>25, InFlight DEF Rehydrate
  <2>2. /\ rehydrated' = [rehydrated EXCEPT ![rq[q].rep][rq[q].sid] = q]
        /\ handler' = handler
    BY <1>25 DEF Rehydrate
  <2>3. ASSUME NEW r \in Replica, NEW s \in Sid, s \in handler[r], rehydrated'[r][s] # None
        PROVE  DeleteForgot(r, s)
    <3>1. CASE r = rq[q].rep /\ s = rq[q].sid
      BY <2>1, <2>3, <3>1
    <3>2. CASE ~(r = rq[q].rep /\ s = rq[q].sid)
      <4>1. rehydrated'[r][s] = rehydrated[r][s]
        BY <2>1, <2>2, <3>2, SMTT(30)
      <4>2. QED
        BY <2>3, <4>1
    <3>3. QED
      BY <3>1, <3>2
  <2>4. QED
    BY <2>2, <2>3
<1>26. ASSUME NEW q \in Req, RehydrateFails(q) PROVE NoSplitBrainWithoutDelete'
  BY <1>26 DEF RehydrateFails, Answer, Goto
<1>27. ASSUME NEW q \in Req, ServeRehydrated(q)
      PROVE  NoSplitBrainWithoutDelete'
  BY <1>27 DEF ServeRehydrated, SessionFor, Answer, Goto
<1>28. ASSUME NEW q \in Req, ServeClosed(q) PROVE NoSplitBrainWithoutDelete'
  BY <1>28 DEF ServeClosed, Answer, Goto
<1>29. ASSUME NEW s \in Sid, TerminateInStore(s)
      PROVE  NoSplitBrainWithoutDelete'
  BY <1>29 DEF TerminateInStore
<1>30. ASSUME NEW r \in Replica, NEW s \in Sid, SdkCloseLocal(r, s)
      PROVE  NoSplitBrainWithoutDelete'
  BY <1>30, SMTT(30) DEF SdkCloseLocal
<1>31. ASSUME NEW i \in Req, SdkCloseRehydrated(i)
      PROVE  NoSplitBrainWithoutDelete'
  BY <1>31 DEF SdkCloseRehydrated
<1>32. ASSUME NEW r \in Replica, Restart(r) PROVE NoSplitBrainWithoutDelete'
  BY <1>32, SMTT(30) DEF Restart
<1>33. CASE UNCHANGED vars
  BY <1>33 DEF vars
<1> HIDE DEF RequestInv, RequestOK, LabelsOf, NoRequest,
        Request, Kind, FreshInv, DetourInv,
        NoSplitBrainWithoutDelete, mcpVars, httpVars, reqVars
<1>34. QED
  BY ZenonT(60), <1>1, <1>2, <1>3, <1>4, <1>5, <1>6, <1>7, <1>8, <1>9, <1>10, <1>11,
     <1>12, <1>13, <1>14, <1>15, <1>16, <1>17, <1>18, <1>19, <1>20, <1>21,
     <1>22, <1>23, <1>24, <1>25, <1>26, <1>27, <1>28, <1>29, <1>30, <1>31,
     <1>32, <1>33 DEF Next, RequestStep, Finished

\* Every step preserves DetourInv.
LEMMA DetourStep == (TypeInv /\ FreshInv /\ MarkerInv /\ DetourInv) /\ [Next]_vars => DetourInv'
<1> SUFFICES ASSUME (TypeInv /\ FreshInv /\ MarkerInv /\ DetourInv), [Next]_vars PROVE DetourInv'
  OBVIOUS
<1> TypeOK /\ RequestInv
  BY DEF TypeInv
<1>0. ASSUME NEW r \in Replica, NEW s \in Sid
      PROVE  /\ DeleteForgot(r, s) => DeleteForgot(r, s)'
             /\ store[s] = "terminated" => store'[s] = "terminated"
             /\ Gone(r, s) => Gone(r, s)'
  BY ZenonT(60), Stable
<1> USE NoneAssumption, <1>0 DEF TypeOK, RequestInv, RequestOK, LabelsOf, NoRequest,
        Request, Kind, FreshInv, MarkerInv, LiveMarked,
        DetourInv, mcpVars, httpVars, reqVars
<1>1. ASSUME NEW q \in Req, NEW k \in Kind, NEW r \in Replica, NEW s \in Sid \cup {None}, Arrive(q, k, r, s)
      PROVE  DetourInv'
  BY <1>1, SMTT(30) DEF Arrive, Goto
<1>2. ASSUME NEW q \in Req, Deny(q) PROVE DetourInv'
  BY <1>2, SMTT(30) DEF Deny, Answer, Goto
<1>3. ASSUME NEW q \in Req, NEW s \in Sid, Create(q, s) PROVE DetourInv'
  <2>1. \A p \in Req : /\ p # q => rq'[p] = rq[p]
                        /\ rq'[p].rep = rq[p].rep /\ rq'[p].kind = rq[p].kind
    BY <1>3, SMTT(30) DEF Create
  <2>2. rq'[q].sid = s
    BY <1>3, SMTT(30) DEF Create
  <2>3. QED
    BY <1>3, <2>1, <2>2, SMTT(30) DEF Create, Goto
<1>4. ASSUME NEW q \in Req, CreateFails(q) PROVE DetourInv'
  BY <1>4, SMTT(30) DEF CreateFails, Answer, Goto
<1>5. ASSUME NEW q \in Req, Dispatch(q) PROVE DetourInv'
  <2>1. CASE rq[q].kind = "call"
    BY <1>5, <2>1, SMTT(30) DEF Dispatch, SessionFor, Answer, Goto
  <2>2. CASE ~(rq[q].kind = "call")
    BY <1>5, <2>2, SMTT(30) DEF Dispatch, SessionFor, Answer, Goto
  <2>3. QED
    BY <2>1, <2>2
<1>6. ASSUME NEW q \in Req, InitRejected(q) PROVE DetourInv'
  BY <1>6, SMTT(30) DEF InitRejected, SessionFor, Answer, Goto
<1>7. ASSUME NEW q \in Req, DispatchClosed(q) PROVE DetourInv'
  BY <1>7, SMTT(30) DEF DispatchClosed, Answer, Goto
<1>8. ASSUME NEW q \in Req, Register(q) PROVE DetourInv'
  BY <1>8, SMTT(30) DEF Register, SessionFor, Goto
<1>9. ASSUME NEW q \in Req, Mark(q) PROVE DetourInv'
  <2>1. CASE rq[q].kind = "init"
    BY <1>9, <2>1, SMTT(30) DEF Mark, Answer, Goto
  <2>2. CASE ~(rq[q].kind = "init")
    BY <1>9, <2>2, SMTT(30) DEF Mark, Answer, Goto
  <2>3. QED
    BY <2>1, <2>2
<1>10. ASSUME NEW q \in Req, Respond(q) PROVE DetourInv'
  BY <1>10, SMTT(30) DEF Respond, Answer, Goto
<1>11. ASSUME NEW q \in Req, Route(q) PROVE DetourInv'
  BY <1>11, SMTT(30) DEF Route, Goto, isLocalSession
<1>12. ASSUME NEW q \in Req, Recheck(q) PROVE DetourInv'
  BY <1>12, SMTT(30) DEF Recheck, Goto, isLocalSession
<1>13. ASSUME NEW q \in Req, ValidateLocal(q) PROVE DetourInv'
  <2>1. \/ Goto(q, "handler") /\ UNCHANGED status
        \/ /\ Goto(q, "forget1") /\ UNCHANGED status
           /\ store[rq[q].sid] = "terminated"
        \/ Answer(q, "unavailable")
    BY <1>13 DEF ValidateLocal, Validate
  <2>2. CASE Goto(q, "handler") /\ UNCHANGED status
    BY <1>13, <2>2, SMTT(30) DEF ValidateLocal, Goto
  <2>3. CASE /\ Goto(q, "forget1") /\ UNCHANGED status
             /\ store[rq[q].sid] = "terminated"
    BY <1>13, <2>3, SMTT(30) DEF ValidateLocal, Goto
  <2>4. CASE Answer(q, "unavailable")
    BY <1>13, <2>4, SMTT(30) DEF ValidateLocal, Answer, Goto
  <2>5. QED
    BY <2>1, <2>2, <2>3, <2>4
<1>14. ASSUME NEW q \in Req, HandlerLookup(q) PROVE DetourInv'
  BY <1>14, SMTT(30) DEF HandlerLookup, Answer, Goto
<1>15. ASSUME NEW q \in Req, Forget1(q) PROVE DetourInv'
  BY <1>15, SMTT(30) DEF Forget1, Goto
<1>16. ASSUME NEW q \in Req, Forget2(q) PROVE DetourInv'
  BY <1>16, SMTT(30) DEF Forget2, Goto
<1>17. ASSUME NEW q \in Req, Drop(q) PROVE DetourInv'
  BY <1>17, SMTT(30) DEF Drop, Goto
<1>18. ASSUME NEW q \in Req, Close(q) PROVE DetourInv'
  BY <1>18, SMTT(30) DEF Close, Answer, Goto
<1>19. ASSUME NEW q \in Req, SdkDelete(q) PROVE DetourInv'
  BY <1>19, SMTT(30) DEF SdkDelete, Goto
<1>20. ASSUME NEW q \in Req, Terminate(q) PROVE DetourInv'
  BY <1>20, SMTT(30) DEF Terminate, Goto
<1>21. ASSUME NEW q \in Req, ValidateRemote(q) PROVE DetourInv'
  <2>1. \/ Goto(q, "get") /\ store[rq[q].sid] = "valid"
        \/ Goto(q, "drop") /\ store[rq[q].sid] = "terminated"
        \/ Goto(q, "rmiss")
    BY <1>21 DEF ValidateRemote, Validate
  <2>2. CASE Goto(q, "get") /\ store[rq[q].sid] = "valid"
    BY <1>21, <2>2, SMTT(30) DEF ValidateRemote, Goto, Gone
  <2>3. CASE Goto(q, "drop") /\ store[rq[q].sid] = "terminated"
    BY <1>21, <2>3, SMTT(30) DEF ValidateRemote, Goto
  <2>4. CASE Goto(q, "rmiss")
    BY <1>21, <2>4, SMTT(30) DEF ValidateRemote, Goto
  <2>5. QED
    BY <2>1, <2>2, <2>3, <2>4
<1>22. ASSUME NEW q \in Req, ValidateError(q) PROVE DetourInv'
  BY <1>22, SMTT(30) DEF ValidateError, Answer, Goto
<1>23. ASSUME NEW q \in Req, GetRehydrated(q) PROVE DetourInv'
  BY <1>23, SMTT(30) DEF GetRehydrated, Goto
<1>24. ASSUME NEW q \in Req, RehydrateHit(q) PROVE DetourInv'
  BY <1>24, SMTT(30) DEF RehydrateHit, Goto
<1>25. ASSUME NEW q \in Req, Rehydrate(q) PROVE DetourInv'
  BY <1>25, SMTT(30) DEF Rehydrate, SessionFor, Goto
<1>26. ASSUME NEW q \in Req, RehydrateFails(q) PROVE DetourInv'
  BY <1>26, SMTT(30) DEF RehydrateFails, Answer, Goto
<1>27. ASSUME NEW q \in Req, ServeRehydrated(q) PROVE DetourInv'
  BY <1>27, SMTT(30) DEF ServeRehydrated, SessionFor, Answer, Goto
<1>28. ASSUME NEW q \in Req, ServeClosed(q) PROVE DetourInv'
  BY <1>28, SMTT(30) DEF ServeClosed, Answer, Goto
<1>29. ASSUME NEW s \in Sid, TerminateInStore(s) PROVE DetourInv'
  BY <1>29, SMTT(30) DEF TerminateInStore
<1>30. ASSUME NEW r \in Replica, NEW s \in Sid, SdkCloseLocal(r, s)
      PROVE  DetourInv'
  BY <1>30, SMTT(30) DEF SdkCloseLocal
<1>31. ASSUME NEW i \in Req, SdkCloseRehydrated(i) PROVE DetourInv'
  BY <1>31, SMTT(30) DEF SdkCloseRehydrated
<1>32. ASSUME NEW r \in Replica, Restart(r) PROVE DetourInv'
  BY <1>32, SMTT(30) DEF Restart
<1>33. CASE UNCHANGED vars
  BY <1>33, SMTT(30) DEF vars
<1> HIDE DEF RequestInv, RequestOK, LabelsOf, NoRequest,
        Request, Kind, FreshInv, MarkerInv, LiveMarked,
        DetourInv, mcpVars, httpVars, reqVars
<1>34. QED
  BY ZenonT(60), <1>1, <1>2, <1>3, <1>4, <1>5, <1>6, <1>7, <1>8, <1>9, <1>10, <1>11,
     <1>12, <1>13, <1>14, <1>15, <1>16, <1>17, <1>18, <1>19, <1>20, <1>21,
     <1>22, <1>23, <1>24, <1>25, <1>26, <1>27, <1>28, <1>29, <1>30, <1>31,
     <1>32, <1>33 DEF Next, RequestStep, Finished

\* Every step preserves MarkerInv.
LEMMA MarkerStep == (TypeInv /\ FreshInv /\ DropInv /\ MarkerInv) /\ [Next]_vars => MarkerInv'
<1> SUFFICES ASSUME (TypeInv /\ FreshInv /\ DropInv /\ MarkerInv), [Next]_vars PROVE MarkerInv'
  OBVIOUS
<1> TypeOK /\ RequestInv
  BY DEF TypeInv
<1>0. ASSUME NEW r \in Replica, NEW s \in Sid
      PROVE  /\ DeleteForgot(r, s) => DeleteForgot(r, s)'
             /\ store[s] = "terminated" => store'[s] = "terminated"
             /\ Gone(r, s) => Gone(r, s)'
  BY ZenonT(60), Stable
<1> USE NoneAssumption, <1>0 DEF TypeOK, RequestInv, RequestOK, LabelsOf, NoRequest,
        Request, Kind, FreshInv, DropInv, MarkerInv,
        LiveMarked, RespondMarked, HomeInv, mcpVars, httpVars, reqVars
<1>1. ASSUME NEW q \in Req, NEW k \in Kind, NEW r \in Replica, NEW s \in Sid \cup {None}, Arrive(q, k, r, s)
      PROVE  MarkerInv'
  <2>1. LiveMarked'
    BY <1>1 DEF Arrive, Goto
  <2>2. RespondMarked'
    BY <1>1, SMTT(30) DEF Arrive, Goto
  <2>3. HomeInv'
    BY <1>1, SMTT(30) DEF Arrive, Goto
  <2>4. QED
    BY <2>1, <2>2, <2>3
<1>2. ASSUME NEW q \in Req, Deny(q) PROVE MarkerInv'
  BY <1>2, SMTT(30) DEF Deny, Answer, Goto
<1>3. ASSUME NEW q \in Req, NEW s \in Sid, Create(q, s) PROVE MarkerInv'
  <2>1. /\ \A p \in Req : p # q => rq'[p] = rq[p] /\ pc'[p] = pc[p]
        /\ rq'[q].rep = rq[q].rep /\ rq'[q].sid = s /\ pc'[q] = "dispatch"
        /\ rq[q].rep \in Replica
    BY <1>3, SMTT(30) DEF Create, Goto
  <2>2. /\ handler' = [handler EXCEPT ![rq[q].rep] = @ \cup {s}]
        /\ UNCHANGED <<known, local>> /\ store[s] = "absent"
    BY <1>3 DEF Create
  <2>3. LiveMarked'
    BY <2>1, <2>2, SMTT(30)
  <2>4. RespondMarked'
    <3>1. ASSUME NEW p \in Req, p # q, pc[p] = "respond",
                 rq[p].sid \in handler'[rq[p].rep]
          PROVE  (rq[p].sid \in local[rq[p].rep] \/ Gone(rq[p].rep, rq[p].sid))'
      <4>1. rq[p].sid # s /\ rq[p].rep \in Replica /\ rq[p].sid \in Sid
        BY <2>2, <3>1, InFlight, SMTT(30)
      <4>2. rq[p].sid \in handler[rq[p].rep]
        BY <2>1, <2>2, <3>1, <4>1, SMTT(30)
      <4>3. rq[p].sid \in local[rq[p].rep] \/ Gone(rq[p].rep, rq[p].sid)
        BY <3>1, <4>2
      <4>4. rq'[p] = rq[p] /\ local' = local
        BY <2>1, <2>2, <3>1
      <4>5. QED
        BY <4>1, <4>3, <4>4
    <3>2. QED
      BY ZenonT(60), <2>1, <3>1
  <2>5. HomeInv'
    <3>1. ASSUME NEW p \in Req, NEW r \in Replica, rq'[p].kind = "init",
                 rq'[p].sid \in handler'[r]
          PROVE  r = rq'[p].rep
      <4>1. CASE p = q
        BY <2>1, <2>2, <3>1, <4>1, SMTT(30)
      <4>2. CASE p # q
        BY <2>1, <2>2, <3>1, <4>2, SMTT(30)
      <4>3. QED
        BY <4>1, <4>2
    <3>2. QED
      BY <3>1
  <2>6. QED
    BY <2>3, <2>4, <2>5
<1>4. ASSUME NEW q \in Req, CreateFails(q) PROVE MarkerInv'
  BY <1>4, SMTT(30) DEF CreateFails, Answer, Goto
<1>5. ASSUME NEW q \in Req, Dispatch(q) PROVE MarkerInv'
  BY <1>5, SMTT(30) DEF Dispatch, SessionFor, Answer, Goto
<1>6. ASSUME NEW q \in Req, InitRejected(q) PROVE MarkerInv'
  BY <1>6, SMTT(30) DEF InitRejected, SessionFor, Answer, Goto
<1>7. ASSUME NEW q \in Req, DispatchClosed(q) PROVE MarkerInv'
  BY <1>7, SMTT(30) DEF DispatchClosed, Answer, Goto
<1>8. ASSUME NEW q \in Req, Register(q) PROVE MarkerInv'
  BY <1>8, SMTT(30) DEF Register, SessionFor, Goto
<1>9. ASSUME NEW q \in Req, Mark(q) PROVE MarkerInv'
  <2>1. rq[q].rep \in Replica /\ rq[q].sid \in Sid
    BY <1>9, InFlightSid DEF Mark
  <2>2. /\ UNCHANGED <<known, handler, store, rq>>
        /\ rq[q].sid \in local'[rq[q].rep]
        /\ \A r \in Replica : local[r] \subseteq local'[r]
        /\ \A p \in Req \ {q} : pc'[p] = pc[p]
    BY <1>9, <2>1, SMTT(30) DEF Mark, Answer, Goto
  <2>3. LiveMarked'
    BY <2>2
  <2>4. RespondMarked'
    <3>1. ASSUME NEW p \in Req, pc'[p] = "respond", rq[p].sid \in handler'[rq[p].rep]
          PROVE  (rq[p].sid \in local[rq[p].rep] \/ Gone(rq[p].rep, rq[p].sid))'
      <4>1. pc[p] = "respond" \/ p = q
        BY <2>1, <2>2, <3>1
      <4>2. rq[p].rep \in Replica /\ rq[p].sid \in Sid
        BY <2>1, <2>2, <3>1, <4>1, InFlightSid
      <4>3. QED
        BY ZenonT(60), <2>1, <2>2, <3>1, <4>1, <4>2
    <3>2. QED
      BY ZenonT(60), <2>1, <2>2, <3>1
  <2>5. HomeInv'
    BY <2>2
  <2>6. QED
    BY <2>3, <2>4, <2>5
<1>10. ASSUME NEW q \in Req, Respond(q) PROVE MarkerInv'
  <2>1. rq[q].rep \in Replica /\ rq[q].sid \in Sid /\ rq[q].kind = "init"
    BY ZenonT(60), <1>10, InFlightSid DEF Respond
  <2>2. LiveMarked'
    <3>1. ASSUME NEW r \in Replica, NEW s \in Sid, s \in known', s \in handler[r]
          PROVE  s \in local[r] \/ Gone(r, s)
      <4>1. CASE s \in known
        BY <3>1, <4>1
      <4>2. CASE s = rq[q].sid
        <5>1. r = rq[q].rep
          BY <2>1, <3>1, <4>2
        <5>2. QED
          BY ZenonT(60), <1>10, <3>1, <4>2, <5>1 DEF Respond
      <4>3. QED
        BY <1>10, <3>1, <4>1, <4>2 DEF Respond
    <3>2. QED
      BY <1>10, <3>1 DEF Respond
  <2>3. RespondMarked' /\ HomeInv'
    BY <1>10, SMTT(30) DEF Respond, Answer, Goto
  <2>4. QED
    BY <2>2, <2>3
<1>11. ASSUME NEW q \in Req, Route(q) PROVE MarkerInv'
  BY <1>11, SMTT(30) DEF Route, Goto, isLocalSession
<1>12. ASSUME NEW q \in Req, Recheck(q) PROVE MarkerInv'
  BY <1>12, SMTT(30) DEF Recheck, Goto, isLocalSession
<1>13. ASSUME NEW q \in Req, ValidateLocal(q) PROVE MarkerInv'
  <2>1. \/ Goto(q, "handler") /\ UNCHANGED status
        \/ /\ Goto(q, "forget1") /\ UNCHANGED status
           /\ store[rq[q].sid] = "terminated"
        \/ Answer(q, "unavailable")
    BY <1>13 DEF ValidateLocal, Validate
  <2>2. CASE Goto(q, "handler") /\ UNCHANGED status
    BY <1>13, <2>2, SMTT(30) DEF ValidateLocal, Goto
  <2>3. CASE /\ Goto(q, "forget1") /\ UNCHANGED status
             /\ store[rq[q].sid] = "terminated"
    BY <1>13, <2>3, SMTT(30) DEF ValidateLocal, Goto
  <2>4. CASE Answer(q, "unavailable")
    BY <1>13, <2>4, SMTT(30) DEF ValidateLocal, Answer, Goto
  <2>5. QED
    BY <2>1, <2>2, <2>3, <2>4
<1>14. ASSUME NEW q \in Req, HandlerLookup(q) PROVE MarkerInv'
  BY <1>14, SMTT(30) DEF HandlerLookup, Answer, Goto
<1>15. ASSUME NEW q \in Req, Forget1(q) PROVE MarkerInv'
  BY <1>15, SMTT(30) DEF Forget1, Goto
<1>16. ASSUME NEW q \in Req, Forget2(q) PROVE MarkerInv'
  <2>1. rq[q].rep \in Replica /\ rq[q].sid \in Sid
    BY ZenonT(60), <1>16, InFlightSid DEF Forget2
  <2>2. Gone(rq[q].rep, rq[q].sid)'
    <3>1. CASE rq[q].kind = "delete"
      <4>1. DeleteForgot(rq[q].rep, rq[q].sid)'
        <5>1. pc'[q] = "sdkDelete" /\ rq' = rq
          BY <1>16, <3>1 DEF Forget2, Goto
        <5>2. QED
          BY <3>1, <5>1 DEF DeleteForgot
      <4>2. QED
        BY <1>16, <4>1 DEF Gone, Forget2
    <3>2. CASE rq[q].kind # "delete"
      BY <1>16, <3>2 DEF Forget2, Gone
    <3>3. QED
      BY <3>1, <3>2
  <2>3. /\ UNCHANGED <<known, handler, store, rq>>
        /\ \A r \in Replica, s \in Sid :
             s \in local[r] => s \in local'[r] \/ (r = rq[q].rep /\ s = rq[q].sid)
        /\ \A p \in Req \ {q} : pc'[p] = pc[p]
        /\ pc'[q] # "respond"
    BY <1>16, <2>1, SMTT(30) DEF Forget2, Goto
  <2>4. LiveMarked'
    BY <2>2, <2>3, SMTT(30)
  <2>5. RespondMarked'
    <3>1. ASSUME NEW p \in Req, pc'[p] = "respond", rq[p].sid \in handler'[rq[p].rep]
          PROVE  (rq[p].sid \in local[rq[p].rep] \/ Gone(rq[p].rep, rq[p].sid))'
      <4>1. pc[p] = "respond" \/ p = q
        BY <2>1, <2>2, <2>3, <3>1
      <4>2. rq[p].rep \in Replica /\ rq[p].sid \in Sid
        BY <2>1, <2>2, <2>3, <3>1, <4>1, InFlightSid
      <4>3. rq[p].sid \in local[rq[p].rep] \/ Gone(rq[p].rep, rq[p].sid)
        BY ZenonT(60), <2>3, <3>1, <4>1
      <4>4. Gone(rq[p].rep, rq[p].sid) => Gone(rq[p].rep, rq[p].sid)'
        BY <2>3, <4>2
      <4>5. CASE rq[p].rep = rq[q].rep /\ rq[p].sid = rq[q].sid
        BY <2>2, <2>3, <4>5
      <4>6. CASE ~(rq[p].rep = rq[q].rep /\ rq[p].sid = rq[q].sid)
        BY <2>3, <4>2, <4>3, <4>4, <4>6
      <4>7. QED
        BY <4>5, <4>6
    <3>2. QED
      BY ZenonT(60), <2>1, <2>2, <2>3, <3>1
  <2>6. HomeInv'
    BY <2>3
  <2>7. QED
    BY <2>4, <2>5, <2>6
<1>17. ASSUME NEW q \in Req, Drop(q) PROVE MarkerInv'
  BY <1>17, SMTT(30) DEF Drop, Goto
<1>18. ASSUME NEW q \in Req, Close(q) PROVE MarkerInv'
  BY <1>18, SMTT(30) DEF Close, Answer, Goto
<1>19. ASSUME NEW q \in Req, SdkDelete(q) PROVE MarkerInv'
  BY <1>19, SMTT(30) DEF SdkDelete, Goto
<1>20. ASSUME NEW q \in Req, Terminate(q) PROVE MarkerInv'
  BY <1>20, SMTT(30) DEF Terminate, Goto
<1>21. ASSUME NEW q \in Req, ValidateRemote(q) PROVE MarkerInv'
  <2>1. \/ Goto(q, "get") /\ store[rq[q].sid] = "valid"
        \/ Goto(q, "drop") /\ store[rq[q].sid] = "terminated"
        \/ Goto(q, "rmiss")
    BY <1>21 DEF ValidateRemote, Validate
  <2>2. CASE Goto(q, "get") /\ store[rq[q].sid] = "valid"
    BY <1>21, <2>2, SMTT(30) DEF ValidateRemote, Goto
  <2>3. CASE Goto(q, "drop") /\ store[rq[q].sid] = "terminated"
    BY <1>21, <2>3, SMTT(30) DEF ValidateRemote, Goto
  <2>4. CASE Goto(q, "rmiss")
    BY <1>21, <2>4, SMTT(30) DEF ValidateRemote, Goto
  <2>5. QED
    BY <2>1, <2>2, <2>3, <2>4
<1>22. ASSUME NEW q \in Req, ValidateError(q) PROVE MarkerInv'
  BY <1>22, SMTT(30) DEF ValidateError, Answer, Goto
<1>23. ASSUME NEW q \in Req, GetRehydrated(q) PROVE MarkerInv'
  BY <1>23, SMTT(30) DEF GetRehydrated, Goto
<1>24. ASSUME NEW q \in Req, RehydrateHit(q) PROVE MarkerInv'
  BY <1>24, SMTT(30) DEF RehydrateHit, Goto
<1>25. ASSUME NEW q \in Req, Rehydrate(q) PROVE MarkerInv'
  BY <1>25, SMTT(30) DEF Rehydrate, SessionFor, Goto
<1>26. ASSUME NEW q \in Req, RehydrateFails(q) PROVE MarkerInv'
  BY <1>26, SMTT(30) DEF RehydrateFails, Answer, Goto
<1>27. ASSUME NEW q \in Req, ServeRehydrated(q) PROVE MarkerInv'
  BY <1>27, SMTT(30) DEF ServeRehydrated, SessionFor, Answer, Goto
<1>28. ASSUME NEW q \in Req, ServeClosed(q) PROVE MarkerInv'
  BY <1>28, SMTT(30) DEF ServeClosed, Answer, Goto
<1>29. ASSUME NEW s \in Sid, TerminateInStore(s) PROVE MarkerInv'
  BY <1>29 DEF TerminateInStore
<1>30. ASSUME NEW r \in Replica, NEW s \in Sid, SdkCloseLocal(r, s)
      PROVE  MarkerInv'
  BY <1>30, SMTT(30) DEF SdkCloseLocal
<1>31. ASSUME NEW i \in Req, SdkCloseRehydrated(i) PROVE MarkerInv'
  BY <1>31 DEF SdkCloseRehydrated
<1>32. ASSUME NEW r \in Replica, Restart(r) PROVE MarkerInv'
  <2>1. /\ UNCHANGED <<known, store, rq>> /\ handler'[r] = {}
        /\ \A u \in Replica \ {r} : handler'[u] = handler[u] /\ local'[u] = local[u]
        /\ \A p \in Req : pc'[p] = "respond" => pc[p] = "respond"
    BY <1>32, SMTT(30) DEF Restart
  <2>2. LiveMarked'
    BY ZenonT(60), <2>1
  <2>3. RespondMarked'
    <3>1. ASSUME NEW p \in Req, pc'[p] = "respond", rq[p].sid \in handler'[rq[p].rep]
          PROVE  (rq[p].sid \in local[rq[p].rep] \/ Gone(rq[p].rep, rq[p].sid))'
      <4>1. pc[p] = "respond"
        BY <2>1, <3>1
      <4>2. rq[p].rep \in Replica /\ rq[p].sid \in Sid
        BY <2>1, <3>1, <4>1, InFlightSid
      <4>3. QED
        BY ZenonT(60), <2>1, <3>1, <4>1, <4>2
    <3>2. QED
      BY ZenonT(60), <2>1, <3>1
  <2>4. HomeInv'
    <3>1. ASSUME NEW p \in Req, NEW u \in Replica, rq[p].kind = "init", rq[p].sid \in handler'[u]
          PROVE  u = rq[p].rep
      <4>1. u # r
        BY <2>1, <3>1, SMTT(30)
      <4>2. rq[p].sid \in handler[u]
        BY <2>1, <3>1, <4>1
      <4>3. QED
        BY <3>1, <4>2
    <3>2. QED
      BY <2>1, <3>1
  <2>5. QED
    BY <2>2, <2>3, <2>4
<1>33. CASE UNCHANGED vars
  BY <1>33, SMTT(30) DEF vars
<1> HIDE DEF RequestInv, RequestOK, LabelsOf, NoRequest,
        Request, Kind, FreshInv, DropInv, MarkerInv,
        LiveMarked, RespondMarked, HomeInv, mcpVars, httpVars, reqVars
<1>34. QED
  BY ZenonT(60), <1>1, <1>2, <1>3, <1>4, <1>5, <1>6, <1>7, <1>8, <1>9, <1>10, <1>11,
     <1>12, <1>13, <1>14, <1>15, <1>16, <1>17, <1>18, <1>19, <1>20, <1>21,
     <1>22, <1>23, <1>24, <1>25, <1>26, <1>27, <1>28, <1>29, <1>30, <1>31,
     <1>32, <1>33 DEF Next, RequestStep, Finished

\* Every step preserves StatusInv.
LEMMA StatusStep == (TypeOK /\ StatusInv) /\ [Next]_vars => StatusInv'
<1> SUFFICES ASSUME (TypeOK /\ StatusInv), [Next]_vars PROVE StatusInv'
  OBVIOUS
<1> USE NoneAssumption DEF TypeOK, StatusInv, mcpVars, httpVars, reqVars
<1>1. ASSUME NEW q \in Req, NEW k \in Kind, NEW r \in Replica, NEW s \in Sid \cup {None}, Arrive(q, k, r, s)
      PROVE  StatusInv'
  BY <1>1 DEF Arrive, Goto
<1>2. ASSUME NEW q \in Req, Deny(q) PROVE StatusInv'
  BY <1>2 DEF Deny, Answer, Goto
<1>3. ASSUME NEW q \in Req, NEW s \in Sid, Create(q, s) PROVE StatusInv'
  BY <1>3 DEF Create, Goto
<1>4. ASSUME NEW q \in Req, CreateFails(q) PROVE StatusInv'
  BY <1>4 DEF CreateFails, Answer, Goto
<1>5. ASSUME NEW q \in Req, Dispatch(q) PROVE StatusInv'
  BY <1>5 DEF Dispatch, SessionFor, Answer, Goto
<1>6. ASSUME NEW q \in Req, InitRejected(q) PROVE StatusInv'
  BY <1>6 DEF InitRejected, SessionFor, Answer, Goto
<1>7. ASSUME NEW q \in Req, DispatchClosed(q) PROVE StatusInv'
  BY <1>7 DEF DispatchClosed, Answer, Goto
<1>8. ASSUME NEW q \in Req, Register(q) PROVE StatusInv'
  BY <1>8 DEF Register, SessionFor, Goto
<1>9. ASSUME NEW q \in Req, Mark(q) PROVE StatusInv'
  <2>1. CASE rq[q].kind = "init"
    BY <1>9, <2>1 DEF Mark, Answer, Goto
  <2>2. CASE ~(rq[q].kind = "init")
    BY <1>9, <2>2 DEF Mark, Answer, Goto
  <2>3. QED
    BY <2>1, <2>2
<1>10. ASSUME NEW q \in Req, Respond(q) PROVE StatusInv'
  BY <1>10 DEF Respond, Answer, Goto
<1>11. ASSUME NEW q \in Req, Route(q) PROVE StatusInv'
  BY <1>11 DEF Route, Goto, isLocalSession
<1>12. ASSUME NEW q \in Req, Recheck(q) PROVE StatusInv'
  BY <1>12 DEF Recheck, Goto, isLocalSession
<1>13. ASSUME NEW q \in Req, ValidateLocal(q) PROVE StatusInv'
  <2>1. \/ Goto(q, "handler") /\ UNCHANGED status
        \/ /\ Goto(q, "forget1") /\ UNCHANGED status
           /\ store[rq[q].sid] = "terminated"
        \/ Answer(q, "unavailable")
    BY <1>13 DEF ValidateLocal, Validate
  <2>2. CASE Goto(q, "handler") /\ UNCHANGED status
    BY <1>13, <2>2 DEF ValidateLocal, Goto
  <2>3. CASE /\ Goto(q, "forget1") /\ UNCHANGED status
             /\ store[rq[q].sid] = "terminated"
    BY <1>13, <2>3 DEF ValidateLocal, Goto
  <2>4. CASE Answer(q, "unavailable")
    BY <1>13, <2>4 DEF ValidateLocal, Answer, Goto
  <2>5. QED
    BY <2>1, <2>2, <2>3, <2>4
<1>14. ASSUME NEW q \in Req, HandlerLookup(q) PROVE StatusInv'
  BY <1>14 DEF HandlerLookup, Answer, Goto
<1>15. ASSUME NEW q \in Req, Forget1(q) PROVE StatusInv'
  BY <1>15 DEF Forget1, Goto
<1>16. ASSUME NEW q \in Req, Forget2(q) PROVE StatusInv'
  BY <1>16 DEF Forget2, Goto
<1>17. ASSUME NEW q \in Req, Drop(q) PROVE StatusInv'
  BY <1>17 DEF Drop, Goto
<1>18. ASSUME NEW q \in Req, Close(q) PROVE StatusInv'
  BY <1>18 DEF Close, Answer, Goto
<1>19. ASSUME NEW q \in Req, SdkDelete(q) PROVE StatusInv'
  BY <1>19 DEF SdkDelete, Goto
<1>20. ASSUME NEW q \in Req, Terminate(q) PROVE StatusInv'
  BY <1>20 DEF Terminate, Goto
<1>21. ASSUME NEW q \in Req, ValidateRemote(q) PROVE StatusInv'
  <2>1. \/ Goto(q, "get") /\ store[rq[q].sid] = "valid"
        \/ Goto(q, "drop") /\ store[rq[q].sid] = "terminated"
        \/ Goto(q, "rmiss")
    BY <1>21 DEF ValidateRemote, Validate
  <2>2. CASE Goto(q, "get") /\ store[rq[q].sid] = "valid"
    BY <1>21, <2>2 DEF ValidateRemote, Goto
  <2>3. CASE Goto(q, "drop") /\ store[rq[q].sid] = "terminated"
    BY <1>21, <2>3 DEF ValidateRemote, Goto
  <2>4. CASE Goto(q, "rmiss")
    BY <1>21, <2>4 DEF ValidateRemote, Goto
  <2>5. QED
    BY <2>1, <2>2, <2>3, <2>4
<1>22. ASSUME NEW q \in Req, ValidateError(q) PROVE StatusInv'
  BY <1>22 DEF ValidateError, Answer, Goto
<1>23. ASSUME NEW q \in Req, GetRehydrated(q) PROVE StatusInv'
  BY <1>23 DEF GetRehydrated, Goto
<1>24. ASSUME NEW q \in Req, RehydrateHit(q) PROVE StatusInv'
  BY <1>24 DEF RehydrateHit, Goto
<1>25. ASSUME NEW q \in Req, Rehydrate(q) PROVE StatusInv'
  BY <1>25 DEF Rehydrate, SessionFor, Goto
<1>26. ASSUME NEW q \in Req, RehydrateFails(q) PROVE StatusInv'
  BY <1>26 DEF RehydrateFails, Answer, Goto
<1>27. ASSUME NEW q \in Req, ServeRehydrated(q) PROVE StatusInv'
  BY <1>27 DEF ServeRehydrated, SessionFor, Answer, Goto
<1>28. ASSUME NEW q \in Req, ServeClosed(q) PROVE StatusInv'
  BY <1>28 DEF ServeClosed, Answer, Goto
<1>29. ASSUME NEW s \in Sid, TerminateInStore(s) PROVE StatusInv'
  BY <1>29 DEF TerminateInStore
<1>30. ASSUME NEW r \in Replica, NEW s \in Sid, SdkCloseLocal(r, s)
      PROVE  StatusInv'
  BY <1>30 DEF SdkCloseLocal
<1>31. ASSUME NEW i \in Req, SdkCloseRehydrated(i) PROVE StatusInv'
  BY <1>31 DEF SdkCloseRehydrated
<1>32. ASSUME NEW r \in Replica, Restart(r) PROVE StatusInv'
  BY <1>32 DEF Restart
<1>33. CASE UNCHANGED vars
  BY <1>33 DEF vars
<1> HIDE DEF StatusInv, mcpVars, httpVars, reqVars
<1>34. QED
  BY <1>1, <1>2, <1>3, <1>4, <1>5, <1>6, <1>7, <1>8, <1>9, <1>10, <1>11,
     <1>12, <1>13, <1>14, <1>15, <1>16, <1>17, <1>18, <1>19, <1>20, <1>21,
     <1>22, <1>23, <1>24, <1>25, <1>26, <1>27, <1>28, <1>29, <1>30, <1>31,
     <1>32, <1>33 DEF Next, RequestStep, Finished

\* Every step preserves LateInv.
LEMMA LateStep == (TypeInv /\ InstanceInv /\ LateInv) /\ [Next]_vars => LateInv'
<1> SUFFICES ASSUME (TypeInv /\ InstanceInv /\ LateInv), [Next]_vars PROVE LateInv'
  OBVIOUS
<1> TypeOK /\ RequestInv
  BY DEF TypeInv
<1> USE NoneAssumption DEF TypeOK, RequestInv, RequestOK, LabelsOf, NoRequest,
        Request, Kind, InstanceInv, Connects,
        LateInv, mcpVars, httpVars, reqVars
<1>1. ASSUME NEW q \in Req, NEW k \in Kind, NEW r \in Replica, NEW s \in Sid \cup {None}, Arrive(q, k, r, s)
      PROVE  LateInv'
  BY <1>1, SMTT(30) DEF Arrive, Goto
<1>2. ASSUME NEW q \in Req, Deny(q) PROVE LateInv'
  BY <1>2, SMTT(30) DEF Deny, Answer, Goto
<1>3. ASSUME NEW q \in Req, NEW s \in Sid, Create(q, s) PROVE LateInv'
  <2>1. \A p \in Req : /\ p # q => rq'[p] = rq[p]
                        /\ rq'[p].rep = rq[p].rep /\ rq'[p].kind = rq[p].kind
    BY <1>3, SMTT(30) DEF Create
  <2>2. rq'[q].sid = s
    BY <1>3, SMTT(30) DEF Create
  <2>3. QED
    BY <1>3, <2>1, <2>2, SMTT(30) DEF Create, Goto
<1>4. ASSUME NEW q \in Req, CreateFails(q) PROVE LateInv'
  BY <1>4, SMTT(30) DEF CreateFails, Answer, Goto
<1>5. ASSUME NEW q \in Req, Dispatch(q) PROVE LateInv'
  BY <1>5, SMTT(30) DEF Dispatch, SessionFor, Answer, Goto
<1>6. ASSUME NEW q \in Req, InitRejected(q) PROVE LateInv'
  BY <1>6, SMTT(30) DEF InitRejected, SessionFor, Answer, Goto
<1>7. ASSUME NEW q \in Req, DispatchClosed(q) PROVE LateInv'
  BY <1>7, SMTT(30) DEF DispatchClosed, Answer, Goto
<1>8. ASSUME NEW q \in Req, Register(q) PROVE LateInv'
  BY <1>8, SMTT(30) DEF Register, SessionFor, Goto
<1>9. ASSUME NEW q \in Req, Mark(q) PROVE LateInv'
  <2>1. CASE rq[q].kind = "init"
    BY <1>9, <2>1, SMTT(30) DEF Mark, Answer, Goto
  <2>2. CASE ~(rq[q].kind = "init")
    BY <1>9, <2>2, SMTT(30) DEF Mark, Answer, Goto
  <2>3. QED
    BY <2>1, <2>2
<1>10. ASSUME NEW q \in Req, Respond(q) PROVE LateInv'
  BY <1>10, SMTT(30) DEF Respond, Answer, Goto
<1>11. ASSUME NEW q \in Req, Route(q) PROVE LateInv'
  BY <1>11, SMTT(30) DEF Route, Goto, isLocalSession
<1>12. ASSUME NEW q \in Req, Recheck(q) PROVE LateInv'
  BY <1>12, SMTT(30) DEF Recheck, Goto, isLocalSession
<1>13. ASSUME NEW q \in Req, ValidateLocal(q) PROVE LateInv'
  <2>1. \/ Goto(q, "handler") /\ UNCHANGED status
        \/ /\ Goto(q, "forget1") /\ UNCHANGED status
           /\ store[rq[q].sid] = "terminated"
        \/ Answer(q, "unavailable")
    BY <1>13 DEF ValidateLocal, Validate
  <2>2. CASE Goto(q, "handler") /\ UNCHANGED status
    BY <1>13, <2>2, SMTT(30) DEF ValidateLocal, Goto
  <2>3. CASE /\ Goto(q, "forget1") /\ UNCHANGED status
             /\ store[rq[q].sid] = "terminated"
    BY <1>13, <2>3, SMTT(30) DEF ValidateLocal, Goto
  <2>4. CASE Answer(q, "unavailable")
    BY <1>13, <2>4, SMTT(30) DEF ValidateLocal, Answer, Goto
  <2>5. QED
    BY <2>1, <2>2, <2>3, <2>4
<1>14. ASSUME NEW q \in Req, HandlerLookup(q) PROVE LateInv'
  BY <1>14, SMTT(30) DEF HandlerLookup, Answer, Goto
<1>15. ASSUME NEW q \in Req, Forget1(q) PROVE LateInv'
  BY <1>15, SMTT(30) DEF Forget1, Goto
<1>16. ASSUME NEW q \in Req, Forget2(q) PROVE LateInv'
  BY <1>16, SMTT(30) DEF Forget2, Goto
<1>17. ASSUME NEW q \in Req, Drop(q) PROVE LateInv'
  BY <1>17, SMTT(30) DEF Drop, Goto
<1>18. ASSUME NEW q \in Req, Close(q) PROVE LateInv'
  BY <1>18, SMTT(30) DEF Close, Answer, Goto
<1>19. ASSUME NEW q \in Req, SdkDelete(q) PROVE LateInv'
  BY <1>19, SMTT(30) DEF SdkDelete, Goto
<1>20. ASSUME NEW q \in Req, Terminate(q) PROVE LateInv'
  BY <1>20, SMTT(30) DEF Terminate, Goto
<1>21. ASSUME NEW q \in Req, ValidateRemote(q) PROVE LateInv'
  <2>1. \/ Goto(q, "get") /\ store[rq[q].sid] = "valid"
        \/ Goto(q, "drop") /\ store[rq[q].sid] = "terminated"
        \/ Goto(q, "rmiss")
    BY <1>21 DEF ValidateRemote, Validate
  <2>2. CASE Goto(q, "get") /\ store[rq[q].sid] = "valid"
    BY <1>21, <2>2, SMTT(30) DEF ValidateRemote, Goto
  <2>3. CASE Goto(q, "drop") /\ store[rq[q].sid] = "terminated"
    BY <1>21, <2>3, SMTT(30) DEF ValidateRemote, Goto
  <2>4. CASE Goto(q, "rmiss")
    BY <1>21, <2>4, SMTT(30) DEF ValidateRemote, Goto
  <2>5. QED
    BY <2>1, <2>2, <2>3, <2>4
<1>22. ASSUME NEW q \in Req, ValidateError(q) PROVE LateInv'
  BY <1>22, SMTT(30) DEF ValidateError, Answer, Goto
<1>23. ASSUME NEW q \in Req, GetRehydrated(q) PROVE LateInv'
  BY <1>23, SMTT(30) DEF GetRehydrated, Goto
<1>24. ASSUME NEW q \in Req, RehydrateHit(q) PROVE LateInv'
  BY <1>24, SMTT(30) DEF RehydrateHit, Goto
<1>25. ASSUME NEW q \in Req, Rehydrate(q) PROVE LateInv'
  BY <1>25, SMTT(30) DEF Rehydrate, SessionFor, Goto
<1>26. ASSUME NEW q \in Req, RehydrateFails(q) PROVE LateInv'
  BY <1>26, SMTT(30) DEF RehydrateFails, Answer, Goto
<1>27. ASSUME NEW q \in Req, ServeRehydrated(q) PROVE LateInv'
  BY <1>27, SMTT(30) DEF ServeRehydrated, SessionFor, Answer, Goto
<1>28. ASSUME NEW q \in Req, ServeClosed(q) PROVE LateInv'
  BY <1>28, SMTT(30) DEF ServeClosed, Answer, Goto
<1>29. ASSUME NEW s \in Sid, TerminateInStore(s) PROVE LateInv'
  BY <1>29 DEF TerminateInStore
<1>30. ASSUME NEW r \in Replica, NEW s \in Sid, SdkCloseLocal(r, s)
      PROVE  LateInv'
  BY <1>30 DEF SdkCloseLocal
<1>31. ASSUME NEW i \in Req, SdkCloseRehydrated(i) PROVE LateInv'
  BY <1>31 DEF SdkCloseRehydrated
<1>32. ASSUME NEW r \in Replica, Restart(r) PROVE LateInv'
  BY <1>32 DEF Restart
<1>33. CASE UNCHANGED vars
  BY <1>33 DEF vars
<1> HIDE DEF RequestInv, RequestOK, LabelsOf, NoRequest,
        Request, Kind, InstanceInv, Connects,
        LateInv, mcpVars, httpVars, reqVars
<1>34. QED
  BY <1>1, <1>2, <1>3, <1>4, <1>5, <1>6, <1>7, <1>8, <1>9, <1>10, <1>11,
     <1>12, <1>13, <1>14, <1>15, <1>16, <1>17, <1>18, <1>19, <1>20, <1>21,
     <1>22, <1>23, <1>24, <1>25, <1>26, <1>27, <1>28, <1>29, <1>30, <1>31,
     <1>32, <1>33 DEF Next, RequestStep, Finished

\* Every step preserves RegisterInv.
LEMMA RegisterStep == (TypeInv /\ FreshInv /\ DropInv /\ RegisterInv) /\ [Next]_vars => RegisterInv'
<1> SUFFICES ASSUME (TypeInv /\ FreshInv /\ DropInv /\ RegisterInv), [Next]_vars PROVE RegisterInv'
  OBVIOUS
<1> TypeOK /\ RequestInv
  BY DEF TypeInv
<1>0. ASSUME NEW r \in Replica, NEW s \in Sid
      PROVE  /\ DeleteArrived(r, s) => DeleteArrived(r, s)'
             /\ store[s] = "terminated" => store'[s] = "terminated"
  BY ZenonT(60), Stable
<1> USE NoneAssumption, <1>0 DEF TypeOK, RequestInv, RequestOK, LabelsOf, NoRequest,
        Request, Kind, FreshInv, DropInv, RegisterInv, mcpVars, httpVars, reqVars
\* A step that keeps who the requests are, takes no registry entry away and
\* does not send its request to "mark".
<1> DEFINE Quiet(q) == /\ rq' = rq
                       /\ \A p \in Req \ {q} : pc'[p] = pc[p]
                       /\ pc'[q] # "mark"
                       /\ \A r \in Replica : sessions[r] \subseteq sessions'[r]
<1>a. ASSUME NEW q \in Req, Quiet(q) PROVE RegisterInv'
  <2>1. ASSUME NEW p \in Req, pc'[p] = "mark"
        PROVE  \/ rq[p].sid \in sessions'[rq[p].rep]
               \/ DeleteArrived(rq[p].rep, rq[p].sid)'
               \/ store'[rq[p].sid] = "terminated"
    <3>1. pc[p] = "mark"
      BY <1>a, <2>1
    <3>2. rq[p].rep \in Replica /\ rq[p].sid \in Sid
      BY <3>1, InFlightSid
    <3>3. \/ rq[p].sid \in sessions[rq[p].rep]
          \/ DeleteArrived(rq[p].rep, rq[p].sid)
          \/ store[rq[p].sid] = "terminated"
      BY <3>1
    <3>4. sessions[rq[p].rep] \subseteq sessions'[rq[p].rep]
      BY <1>a, <3>2
    <3>5. /\ DeleteArrived(rq[p].rep, rq[p].sid) => DeleteArrived(rq[p].rep, rq[p].sid)'
          /\ store[rq[p].sid] = "terminated" => store'[rq[p].sid] = "terminated"
      <4>1. rq' = rq
        BY <1>a
      <4>2. QED
        BY <1>0, <3>2, <4>1
    <3>6. QED
      BY <3>3, <3>4, <3>5
  <2>2. QED
    BY <1>a, <2>1
<1>1. ASSUME NEW q \in Req, NEW k \in Kind, NEW r \in Replica, NEW s \in Sid \cup {None}, Arrive(q, k, r, s)
      PROVE  RegisterInv'
  BY <1>1 DEF Arrive, Goto
<1>2. ASSUME NEW q \in Req, Deny(q) PROVE RegisterInv'
  <2>1. Quiet(q)
    BY <1>2 DEF Deny, Answer, Goto
  <2>2. QED
    BY <1>a, <2>1
<1>3. ASSUME NEW q \in Req, NEW s \in Sid, Create(q, s) PROVE RegisterInv'
  <2>1. /\ \A p \in Req : p # q => rq'[p] = rq[p] /\ pc'[p] = pc[p]
        /\ pc'[q] = "dispatch" /\ sessions' = sessions
    BY <1>3, SMTT(30) DEF Create, Goto
  <2>2. ASSUME NEW p \in Req, p # q, pc[p] = "mark"
        PROVE  \/ rq[p].sid \in sessions[rq[p].rep]
               \/ DeleteArrived(rq[p].rep, rq[p].sid)'
               \/ store'[rq[p].sid] = "terminated"
    <3>1. rq[p].rep \in Replica /\ rq[p].sid \in Sid
      BY ZenonT(60), <2>2, InFlightSid
    <3>2. QED
      BY <2>1, <2>2, <3>1
  <2>3. QED
    BY ZenonT(60), <2>1, <2>2
<1>4. ASSUME NEW q \in Req, CreateFails(q) PROVE RegisterInv'
  <2>1. Quiet(q)
    BY <1>4 DEF CreateFails, Answer, Goto
  <2>2. QED
    BY <1>a, <2>1
<1>5. ASSUME NEW q \in Req, Dispatch(q) PROVE RegisterInv'
  <2>1. /\ rq' = rq /\ \A r \in Replica : sessions[r] \subseteq sessions'[r]
        /\ pc'[q] # "mark" /\ \A p \in Req \ {q} : pc'[p] = pc[p]
    BY <1>5, InFlightSid, SMTT(30) DEF Dispatch, SessionFor, Answer, Goto
  <2>2. ASSUME NEW p \in Req, pc[p] = "mark"
        PROVE  \/ rq[p].sid \in sessions'[rq[p].rep]
               \/ DeleteArrived(rq[p].rep, rq[p].sid)'
               \/ store'[rq[p].sid] = "terminated"
    <3>1. rq[p].rep \in Replica /\ rq[p].sid \in Sid
      BY <2>2, InFlightSid
    <3>2. \/ rq[p].sid \in sessions[rq[p].rep]
          \/ DeleteArrived(rq[p].rep, rq[p].sid)
          \/ store[rq[p].sid] = "terminated"
      BY <2>2
    <3>3. QED
      BY <2>1, <3>1, <3>2, SMTT(30)
  <2>3. QED
    BY <2>1, <2>2
<1>6. ASSUME NEW q \in Req, InitRejected(q) PROVE RegisterInv'
  <2>1. Quiet(q)
    BY <1>6 DEF InitRejected, SessionFor, Answer, Goto
  <2>2. QED
    BY <1>a, <2>1
<1>7. ASSUME NEW q \in Req, DispatchClosed(q) PROVE RegisterInv'
  <2>1. Quiet(q)
    BY <1>7 DEF DispatchClosed, Answer, Goto
  <2>2. QED
    BY <1>a, <2>1
<1>8. ASSUME NEW q \in Req, Register(q) PROVE RegisterInv'
  BY ZenonT(60), <1>8 DEF Register, SessionFor, Goto
<1>9. ASSUME NEW q \in Req, Mark(q) PROVE RegisterInv'
  <2>1. Quiet(q)
    BY <1>9, SMTT(30) DEF Mark, Answer, Goto
  <2>2. QED
    BY <1>a, <2>1
<1>10. ASSUME NEW q \in Req, Respond(q) PROVE RegisterInv'
  <2>1. Quiet(q)
    BY <1>10 DEF Respond, Answer, Goto
  <2>2. QED
    BY <1>a, <2>1
<1>11. ASSUME NEW q \in Req, Route(q) PROVE RegisterInv'
  <2>1. Quiet(q)
    BY <1>11 DEF Route, Goto
  <2>2. QED
    BY <1>a, <2>1
<1>12. ASSUME NEW q \in Req, Recheck(q) PROVE RegisterInv'
  <2>1. Quiet(q)
    BY <1>12 DEF Recheck, Goto
  <2>2. QED
    BY <1>a, <2>1
<1>13. ASSUME NEW q \in Req, ValidateLocal(q) PROVE RegisterInv'
  <2>1. Quiet(q)
    BY <1>13, SMTT(30) DEF ValidateLocal, Answer, Goto
  <2>2. QED
    BY <1>a, <2>1
<1>14. ASSUME NEW q \in Req, HandlerLookup(q) PROVE RegisterInv'
  <2>1. Quiet(q)
    BY <1>14, SMTT(30) DEF HandlerLookup, Answer, Goto
  <2>2. QED
    BY <1>a, <2>1
<1>15. ASSUME NEW q \in Req, Forget1(q) PROVE RegisterInv'
  <2>1. rq[q].rep \in Replica /\ rq[q].sid \in Sid
    BY ZenonT(60), <1>15, InFlightSid DEF Forget1
  <2>2. DeleteArrived(rq[q].rep, rq[q].sid) \/ store[rq[q].sid] = "terminated"
    <3>1. CASE rq[q].kind = "delete"
      BY <1>15, <3>1 DEF Forget1, DeleteArrived
    <3>2. CASE rq[q].kind # "delete"
      BY <1>15, <3>2 DEF Forget1
    <3>3. QED
      BY <3>1, <3>2
  <2>3. /\ \A r \in Replica, s \in Sid :
             s \in sessions[r] => s \in sessions'[r] \/ (r = rq[q].rep /\ s = rq[q].sid)
        /\ UNCHANGED <<local, rehydrated, rq>>
        /\ pc'[q] = "forget2" /\ \A p \in Req \ {q} : pc'[p] = pc[p]
    BY <1>15, <2>1, SMTT(30) DEF Forget1, Goto
  <2>4. DeleteArrived(rq[q].rep, rq[q].sid)' \/ store'[rq[q].sid] = "terminated"
    BY <2>1, <2>2, <2>3, SMTT(30)
  <2>5. ASSUME NEW p \in Req, pc[p] = "mark"
        PROVE  \/ rq[p].sid \in sessions'[rq[p].rep]
               \/ DeleteArrived(rq[p].rep, rq[p].sid)'
               \/ store'[rq[p].sid] = "terminated"
    <3>1. rq[p].rep \in Replica /\ rq[p].sid \in Sid
      BY <2>5, InFlightSid
    <3>2. CASE rq[p].rep = rq[q].rep /\ rq[p].sid = rq[q].sid
      BY <2>4, <2>3, <3>2
    <3>3. CASE ~(rq[p].rep = rq[q].rep /\ rq[p].sid = rq[q].sid)
      BY <2>3, <2>5, <3>1, <3>3, SMTT(30)
    <3>4. QED
      BY <3>2, <3>3
  <2>6. QED
    BY <2>3, <2>5
<1>16. ASSUME NEW q \in Req, Forget2(q) PROVE RegisterInv'
  <2>1. Quiet(q)
    BY <1>16 DEF Forget2, Goto
  <2>2. QED
    BY <1>a, <2>1
<1>17. ASSUME NEW q \in Req, Drop(q) PROVE RegisterInv'
  <2>1. Quiet(q)
    BY <1>17 DEF Drop, Goto
  <2>2. QED
    BY <1>a, <2>1
<1>18. ASSUME NEW q \in Req, Close(q) PROVE RegisterInv'
  <2>1. Quiet(q)
    BY <1>18, SMTT(30) DEF Close, Answer, Goto
  <2>2. QED
    BY <1>a, <2>1
<1>19. ASSUME NEW q \in Req, SdkDelete(q) PROVE RegisterInv'
  <2>1. Quiet(q)
    BY <1>19 DEF SdkDelete, Goto
  <2>2. QED
    BY <1>a, <2>1
<1>20. ASSUME NEW q \in Req, Terminate(q) PROVE RegisterInv'
  <2>1. Quiet(q)
    BY <1>20, SMTT(30) DEF Terminate, Goto
  <2>2. QED
    BY <1>a, <2>1
<1>21. ASSUME NEW q \in Req, ValidateRemote(q) PROVE RegisterInv'
  <2>1. Quiet(q)
    BY <1>21, SMTT(30) DEF ValidateRemote, Goto
  <2>2. QED
    BY <1>a, <2>1
<1>22. ASSUME NEW q \in Req, ValidateError(q) PROVE RegisterInv'
  <2>1. Quiet(q)
    BY <1>22 DEF ValidateError, Answer, Goto
  <2>2. QED
    BY <1>a, <2>1
<1>23. ASSUME NEW q \in Req, GetRehydrated(q) PROVE RegisterInv'
  <2>1. Quiet(q)
    BY <1>23 DEF GetRehydrated, Goto
  <2>2. QED
    BY <1>a, <2>1
<1>24. ASSUME NEW q \in Req, RehydrateHit(q) PROVE RegisterInv'
  <2>1. Quiet(q)
    BY <1>24 DEF RehydrateHit, Goto
  <2>2. QED
    BY <1>a, <2>1
<1>25. ASSUME NEW q \in Req, Rehydrate(q) PROVE RegisterInv'
  BY <1>25 DEF Rehydrate, SessionFor, Goto
<1>26. ASSUME NEW q \in Req, RehydrateFails(q) PROVE RegisterInv'
  <2>1. Quiet(q)
    BY <1>26, SMTT(30) DEF RehydrateFails, Answer, Goto
  <2>2. QED
    BY <1>a, <2>1
<1>27. ASSUME NEW q \in Req, ServeRehydrated(q) PROVE RegisterInv'
  <2>1. Quiet(q)
    BY <1>27, SMTT(30) DEF ServeRehydrated, SessionFor, Answer, Goto
  <2>2. QED
    BY <1>a, <2>1
<1>28. ASSUME NEW q \in Req, ServeClosed(q) PROVE RegisterInv'
  <2>1. Quiet(q)
    BY <1>28 DEF ServeClosed, Answer, Goto
  <2>2. QED
    BY <1>a, <2>1
<1>29. ASSUME NEW s \in Sid, TerminateInStore(s) PROVE RegisterInv'
  BY ZenonT(60), <1>29 DEF TerminateInStore
<1>30. ASSUME NEW r \in Replica, NEW s \in Sid, SdkCloseLocal(r, s)
      PROVE  RegisterInv'
  BY ZenonT(60), <1>30 DEF SdkCloseLocal
<1>31. ASSUME NEW i \in Req, SdkCloseRehydrated(i) PROVE RegisterInv'
  BY <1>31 DEF SdkCloseRehydrated
<1>32. ASSUME NEW r \in Replica, Restart(r) PROVE RegisterInv'
  BY ZenonT(60), <1>32 DEF Restart
<1>33. CASE UNCHANGED vars
  BY <1>33 DEF vars
<1> HIDE DEF RequestInv, RequestOK, LabelsOf, NoRequest,
        Request, Kind, FreshInv, DropInv, RegisterInv, mcpVars, httpVars, reqVars
<1>34. QED
  BY ZenonT(60), <1>1, <1>2, <1>3, <1>4, <1>5, <1>6, <1>7, <1>8, <1>9, <1>10, <1>11,
     <1>12, <1>13, <1>14, <1>15, <1>16, <1>17, <1>18, <1>19, <1>20, <1>21,
     <1>22, <1>23, <1>24, <1>25, <1>26, <1>27, <1>28, <1>29, <1>30, <1>31,
     <1>32, <1>33 DEF Next, RequestStep, Finished

\* Every step preserves RegistryKeepsLive.
LEMMA RegistryStep == (TypeInv /\ DropInv /\ RegisterInv /\ RegistryKeepsLive) /\ [Next]_vars => RegistryKeepsLive'
<1> SUFFICES ASSUME (TypeInv /\ DropInv /\ RegisterInv /\ RegistryKeepsLive), [Next]_vars PROVE RegistryKeepsLive'
  OBVIOUS
<1> TypeOK /\ RequestInv
  BY DEF TypeInv
<1>0. ASSUME NEW r \in Replica, NEW s \in Sid
      PROVE  /\ DeleteArrived(r, s) => DeleteArrived(r, s)'
             /\ store[s] = "terminated" => store'[s] = "terminated"
  BY Stable
<1> USE NoneAssumption, <1>0 DEF TypeOK, RequestInv, RequestOK, LabelsOf, NoRequest,
        Request, Kind, DropInv, RegisterInv,
        RegistryKeepsLive, mcpVars, httpVars, reqVars
<1>1. ASSUME NEW q \in Req, NEW k \in Kind, NEW r \in Replica, NEW s \in Sid \cup {None}, Arrive(q, k, r, s)
      PROVE  RegistryKeepsLive'
  BY <1>1 DEF Arrive, Goto
<1>2. ASSUME NEW q \in Req, Deny(q) PROVE RegistryKeepsLive'
  BY <1>2 DEF Deny, Answer, Goto
<1>3. ASSUME NEW q \in Req, NEW s \in Sid, Create(q, s)
      PROVE  RegistryKeepsLive'
  <2>1. \A p \in Req : /\ p # q => rq'[p] = rq[p]
                        /\ rq'[p].rep = rq[p].rep /\ rq'[p].kind = rq[p].kind
    BY <1>3, SMTT(30) DEF Create
  <2>2. rq'[q].sid = s
    BY <1>3, SMTT(30) DEF Create
  <2>3. QED
    BY <1>3, <2>1, <2>2, SMTT(30) DEF Create, Goto
<1>4. ASSUME NEW q \in Req, CreateFails(q) PROVE RegistryKeepsLive'
  BY <1>4 DEF CreateFails, Answer, Goto
<1>5. ASSUME NEW q \in Req, Dispatch(q) PROVE RegistryKeepsLive'
  BY <1>5, SMTT(30) DEF Dispatch, SessionFor, Answer, Goto
<1>6. ASSUME NEW q \in Req, InitRejected(q) PROVE RegistryKeepsLive'
  BY <1>6, SMTT(30) DEF InitRejected, SessionFor, Answer, Goto
<1>7. ASSUME NEW q \in Req, DispatchClosed(q) PROVE RegistryKeepsLive'
  BY <1>7 DEF DispatchClosed, Answer, Goto
<1>8. ASSUME NEW q \in Req, Register(q) PROVE RegistryKeepsLive'
  BY <1>8, SMTT(30) DEF Register, SessionFor, Goto
<1>9. ASSUME NEW q \in Req, Mark(q) PROVE RegistryKeepsLive'
  <2>1. rq[q].rep \in Replica /\ rq[q].sid \in Sid
    BY <1>9, InFlightSid DEF Mark
  <2>2. /\ \A r \in Replica, s \in Sid :
             s \in local'[r] => s \in local[r] \/ (r = rq[q].rep /\ s = rq[q].sid)
        /\ UNCHANGED <<sessions, rehydrated, rq>>
    BY <1>9, <2>1 DEF Mark
  <2>3. \/ rq[q].sid \in sessions[rq[q].rep]
        \/ DeleteArrived(rq[q].rep, rq[q].sid)'
        \/ store'[rq[q].sid] = "terminated"
    BY <1>9, <2>1, <2>2 DEF Mark
  <2>4. QED
    BY <2>2, <2>3, SMTT(30)
<1>10. ASSUME NEW q \in Req, Respond(q) PROVE RegistryKeepsLive'
  BY <1>10 DEF Respond, Answer, Goto
<1>11. ASSUME NEW q \in Req, Route(q) PROVE RegistryKeepsLive'
  BY <1>11 DEF Route, Goto, isLocalSession
<1>12. ASSUME NEW q \in Req, Recheck(q) PROVE RegistryKeepsLive'
  BY <1>12 DEF Recheck, Goto, isLocalSession
<1>13. ASSUME NEW q \in Req, ValidateLocal(q) PROVE RegistryKeepsLive'
  <2>1. \/ Goto(q, "handler") /\ UNCHANGED status
        \/ /\ Goto(q, "forget1") /\ UNCHANGED status
           /\ store[rq[q].sid] = "terminated"
        \/ Answer(q, "unavailable")
    BY <1>13 DEF ValidateLocal, Validate
  <2>2. CASE Goto(q, "handler") /\ UNCHANGED status
    BY <1>13, <2>2 DEF ValidateLocal, Goto
  <2>3. CASE /\ Goto(q, "forget1") /\ UNCHANGED status
             /\ store[rq[q].sid] = "terminated"
    BY <1>13, <2>3 DEF ValidateLocal, Goto
  <2>4. CASE Answer(q, "unavailable")
    BY <1>13, <2>4 DEF ValidateLocal, Answer, Goto
  <2>5. QED
    BY <2>1, <2>2, <2>3, <2>4
<1>14. ASSUME NEW q \in Req, HandlerLookup(q) PROVE RegistryKeepsLive'
  BY <1>14 DEF HandlerLookup, Answer, Goto
<1>15. ASSUME NEW q \in Req, Forget1(q) PROVE RegistryKeepsLive'
  <2>1. rq[q].rep \in Replica /\ rq[q].sid \in Sid
    BY ZenonT(60), <1>15, InFlightSid DEF Forget1
  <2>2. DeleteArrived(rq[q].rep, rq[q].sid) \/ store[rq[q].sid] = "terminated"
    <3>1. CASE rq[q].kind = "delete"
      BY <1>15, <3>1 DEF Forget1, DeleteArrived
    <3>2. CASE rq[q].kind # "delete"
      BY <1>15, <3>2 DEF Forget1
    <3>3. QED
      BY <3>1, <3>2
  <2>3. /\ \A r \in Replica, s \in Sid :
             s \in sessions[r] => s \in sessions'[r] \/ (r = rq[q].rep /\ s = rq[q].sid)
        /\ UNCHANGED <<local, rehydrated, rq>>
        /\ pc'[q] = "forget2" /\ \A p \in Req \ {q} : pc'[p] = pc[p]
    BY <1>15, <2>1 DEF Forget1, Goto
  <2>4. DeleteArrived(rq[q].rep, rq[q].sid)' \/ store'[rq[q].sid] = "terminated"
    BY <2>1, <2>2, <2>3
  <2>5. ASSUME NEW r \in Replica, NEW s \in Sid, s \in local[r] \/ rehydrated[r][s] # None
        PROVE  s \in sessions'[r] \/ DeleteArrived(r, s)' \/ store'[s] = "terminated"
    <3>1. CASE r = rq[q].rep /\ s = rq[q].sid
      BY <2>4, <2>3, <3>1
    <3>2. CASE ~(r = rq[q].rep /\ s = rq[q].sid)
      BY <2>3, <2>5, <3>2, SMTT(30)
    <3>3. QED
      BY <3>1, <3>2
  <2>6. QED
    BY <2>3, <2>5
<1>16. ASSUME NEW q \in Req, Forget2(q) PROVE RegistryKeepsLive'
  BY <1>16, SMTT(30) DEF Forget2, Goto
<1>17. ASSUME NEW q \in Req, Drop(q) PROVE RegistryKeepsLive'
  BY <1>17, SMTT(30) DEF Drop, Goto
<1>18. ASSUME NEW q \in Req, Close(q) PROVE RegistryKeepsLive'
  BY <1>18 DEF Close, Answer, Goto
<1>19. ASSUME NEW q \in Req, SdkDelete(q) PROVE RegistryKeepsLive'
  BY <1>19 DEF SdkDelete, Goto
<1>20. ASSUME NEW q \in Req, Terminate(q) PROVE RegistryKeepsLive'
  BY <1>20 DEF Terminate, Goto
<1>21. ASSUME NEW q \in Req, ValidateRemote(q) PROVE RegistryKeepsLive'
  <2>1. \/ Goto(q, "get") /\ store[rq[q].sid] = "valid"
        \/ Goto(q, "drop") /\ store[rq[q].sid] = "terminated"
        \/ Goto(q, "rmiss")
    BY <1>21 DEF ValidateRemote, Validate
  <2>2. CASE Goto(q, "get") /\ store[rq[q].sid] = "valid"
    BY <1>21, <2>2, SMTT(30) DEF ValidateRemote, Goto
  <2>3. CASE Goto(q, "drop") /\ store[rq[q].sid] = "terminated"
    BY <1>21, <2>3, SMTT(30) DEF ValidateRemote, Goto
  <2>4. CASE Goto(q, "rmiss")
    BY <1>21, <2>4 DEF ValidateRemote, Goto
  <2>5. QED
    BY <2>1, <2>2, <2>3, <2>4
<1>22. ASSUME NEW q \in Req, ValidateError(q) PROVE RegistryKeepsLive'
  BY <1>22 DEF ValidateError, Answer, Goto
<1>23. ASSUME NEW q \in Req, GetRehydrated(q) PROVE RegistryKeepsLive'
  BY <1>23 DEF GetRehydrated, Goto
<1>24. ASSUME NEW q \in Req, RehydrateHit(q) PROVE RegistryKeepsLive'
  BY <1>24 DEF RehydrateHit, Goto
<1>25. ASSUME NEW q \in Req, Rehydrate(q) PROVE RegistryKeepsLive'
  BY <1>25, SMTT(30) DEF Rehydrate, SessionFor, Goto
<1>26. ASSUME NEW q \in Req, RehydrateFails(q) PROVE RegistryKeepsLive'
  BY <1>26 DEF RehydrateFails, Answer, Goto
<1>27. ASSUME NEW q \in Req, ServeRehydrated(q) PROVE RegistryKeepsLive'
  BY <1>27, SMTT(30) DEF ServeRehydrated, SessionFor, Answer, Goto
<1>28. ASSUME NEW q \in Req, ServeClosed(q) PROVE RegistryKeepsLive'
  BY <1>28 DEF ServeClosed, Answer, Goto
<1>29. ASSUME NEW s \in Sid, TerminateInStore(s) PROVE RegistryKeepsLive'
  BY <1>29, SMTT(30) DEF TerminateInStore
<1>30. ASSUME NEW r \in Replica, NEW s \in Sid, SdkCloseLocal(r, s)
      PROVE  RegistryKeepsLive'
  BY <1>30 DEF SdkCloseLocal
<1>31. ASSUME NEW i \in Req, SdkCloseRehydrated(i) PROVE RegistryKeepsLive'
  BY <1>31 DEF SdkCloseRehydrated
<1>32. ASSUME NEW r \in Replica, Restart(r) PROVE RegistryKeepsLive'
  BY <1>32 DEF Restart
<1>33. CASE UNCHANGED vars
  BY <1>33 DEF vars
<1> HIDE DEF RequestInv, RequestOK, LabelsOf, NoRequest,
        Request, Kind, DropInv, RegisterInv,
        RegistryKeepsLive, mcpVars, httpVars, reqVars
<1>34. QED
  BY ZenonT(60), <1>1, <1>2, <1>3, <1>4, <1>5, <1>6, <1>7, <1>8, <1>9, <1>10, <1>11,
     <1>12, <1>13, <1>14, <1>15, <1>16, <1>17, <1>18, <1>19, <1>20, <1>21,
     <1>22, <1>23, <1>24, <1>25, <1>26, <1>27, <1>28, <1>29, <1>30, <1>31,
     <1>32, <1>33 DEF Next, RequestStep, Finished

\* No step drops bookkeeping of a session that is neither terminated nor deleted.
LEMMA DropsStep == (TypeInv /\ DropInv) /\ [Next]_vars => Drops
<1> SUFFICES ASSUME (TypeInv /\ DropInv), [Next]_vars PROVE Drops
  OBVIOUS
<1> TypeOK /\ RequestInv
  BY DEF TypeInv
<1> USE NoneAssumption DEF TypeOK, RequestInv, RequestOK, LabelsOf, NoRequest,
        Request, Kind, DropInv, Drops, BookkeepingLost,
        mcpVars, httpVars, reqVars
<1>1. ASSUME NEW q \in Req, NEW k \in Kind, NEW r \in Replica, NEW s \in Sid \cup {None}, Arrive(q, k, r, s)
      PROVE  Drops
  BY <1>1 DEF Arrive, Goto
<1>2. ASSUME NEW q \in Req, Deny(q) PROVE Drops
  BY <1>2 DEF Deny, Answer, Goto
<1>3. ASSUME NEW q \in Req, NEW s \in Sid, Create(q, s) PROVE Drops
  <2>1. \A p \in Req : /\ p # q => rq'[p] = rq[p]
                        /\ rq'[p].rep = rq[p].rep /\ rq'[p].kind = rq[p].kind
    BY <1>3 DEF Create
  <2>2. rq'[q].sid = s
    BY <1>3, SMTT(30) DEF Create
  <2>3. QED
    BY <1>3, <2>1, <2>2 DEF Create, Goto
<1>4. ASSUME NEW q \in Req, CreateFails(q) PROVE Drops
  BY <1>4 DEF CreateFails, Answer, Goto
<1>5. ASSUME NEW q \in Req, Dispatch(q) PROVE Drops
  BY <1>5 DEF Dispatch, SessionFor, Answer, Goto
<1>6. ASSUME NEW q \in Req, InitRejected(q) PROVE Drops
  BY <1>6 DEF InitRejected, SessionFor, Answer, Goto
<1>7. ASSUME NEW q \in Req, DispatchClosed(q) PROVE Drops
  BY <1>7 DEF DispatchClosed, Answer, Goto
<1>8. ASSUME NEW q \in Req, Register(q) PROVE Drops
  BY <1>8 DEF Register, SessionFor, Goto
<1>9. ASSUME NEW q \in Req, Mark(q) PROVE Drops
  <2>1. CASE rq[q].kind = "init"
    BY <1>9, <2>1 DEF Mark, Answer, Goto
  <2>2. CASE ~(rq[q].kind = "init")
    BY <1>9, <2>2 DEF Mark, Answer, Goto
  <2>3. QED
    BY <2>1, <2>2
<1>10. ASSUME NEW q \in Req, Respond(q) PROVE Drops
  BY <1>10 DEF Respond, Answer, Goto
<1>11. ASSUME NEW q \in Req, Route(q) PROVE Drops
  BY <1>11 DEF Route, Goto, isLocalSession
<1>12. ASSUME NEW q \in Req, Recheck(q) PROVE Drops
  BY <1>12 DEF Recheck, Goto, isLocalSession
<1>13. ASSUME NEW q \in Req, ValidateLocal(q) PROVE Drops
  <2>1. \/ Goto(q, "handler") /\ UNCHANGED status
        \/ /\ Goto(q, "forget1") /\ UNCHANGED status
           /\ store[rq[q].sid] = "terminated"
        \/ Answer(q, "unavailable")
    BY <1>13 DEF ValidateLocal, Validate
  <2>2. CASE Goto(q, "handler") /\ UNCHANGED status
    BY <1>13, <2>2 DEF ValidateLocal, Goto
  <2>3. CASE /\ Goto(q, "forget1") /\ UNCHANGED status
             /\ store[rq[q].sid] = "terminated"
    BY <1>13, <2>3 DEF ValidateLocal, Goto
  <2>4. CASE Answer(q, "unavailable")
    BY <1>13, <2>4 DEF ValidateLocal, Answer, Goto
  <2>5. QED
    BY <2>1, <2>2, <2>3, <2>4
<1>14. ASSUME NEW q \in Req, HandlerLookup(q) PROVE Drops
  BY <1>14 DEF HandlerLookup, Answer, Goto
<1>15. ASSUME NEW q \in Req, Forget1(q) PROVE Drops
  BY <1>15 DEF Forget1, Goto
<1>16. ASSUME NEW q \in Req, Forget2(q) PROVE Drops
  <2>1. rq[q].rep \in Replica /\ rq[q].sid \in Sid
    BY <1>16, InFlightSid DEF Forget2
  <2>2. DeleteArrived(rq[q].rep, rq[q].sid) \/ store[rq[q].sid] = "terminated"
    <3>1. CASE rq[q].kind = "delete"
      BY <1>16, <3>1 DEF Forget2, DeleteArrived
    <3>2. CASE rq[q].kind # "delete"
      BY <1>16, <3>2 DEF Forget2
    <3>3. QED
      BY <3>1, <3>2
  <2>3. \A r \in Replica, s \in Sid :
          s \in local[r] /\ s \notin local'[r] => r = rq[q].rep /\ s = rq[q].sid
    BY <1>16, <2>1 DEF Forget2
  <2>4. rehydrated' = rehydrated
    BY <1>16 DEF Forget2
  <2>5. QED
    BY <2>2, <2>3, <2>4, SMTT(30)
<1>17. ASSUME NEW q \in Req, Drop(q) PROVE Drops
  <2>1. rq[q].rep \in Replica /\ rq[q].sid \in Sid
    BY <1>17, InFlight DEF Drop
  <2>2. DeleteArrived(rq[q].rep, rq[q].sid) \/ store[rq[q].sid] = "terminated"
    <3>1. CASE rq[q].kind = "delete"
      BY <1>17, <3>1 DEF Drop, DeleteArrived
    <3>2. CASE rq[q].kind # "delete"
      BY <1>17, <3>2 DEF Drop
    <3>3. QED
      BY <3>1, <3>2
  <2>3. \A r \in Replica, s \in Sid :
          rehydrated'[r][s] # rehydrated[r][s] => r = rq[q].rep /\ s = rq[q].sid
    BY <1>17, <2>1 DEF Drop
  <2>4. local' = local
    BY <1>17 DEF Drop
  <2>5. QED
    BY <2>2, <2>3, <2>4, SMTT(30)
<1>18. ASSUME NEW q \in Req, Close(q) PROVE Drops
  BY <1>18 DEF Close, Answer, Goto
<1>19. ASSUME NEW q \in Req, SdkDelete(q) PROVE Drops
  BY <1>19 DEF SdkDelete, Goto
<1>20. ASSUME NEW q \in Req, Terminate(q) PROVE Drops
  BY <1>20 DEF Terminate, Goto
<1>21. ASSUME NEW q \in Req, ValidateRemote(q) PROVE Drops
  <2>1. \/ Goto(q, "get") /\ store[rq[q].sid] = "valid"
        \/ Goto(q, "drop") /\ store[rq[q].sid] = "terminated"
        \/ Goto(q, "rmiss")
    BY <1>21 DEF ValidateRemote, Validate
  <2>2. CASE Goto(q, "get") /\ store[rq[q].sid] = "valid"
    BY <1>21, <2>2 DEF ValidateRemote, Goto
  <2>3. CASE Goto(q, "drop") /\ store[rq[q].sid] = "terminated"
    BY <1>21, <2>3 DEF ValidateRemote, Goto
  <2>4. CASE Goto(q, "rmiss")
    BY <1>21, <2>4 DEF ValidateRemote, Goto
  <2>5. QED
    BY <2>1, <2>2, <2>3, <2>4
<1>22. ASSUME NEW q \in Req, ValidateError(q) PROVE Drops
  BY <1>22 DEF ValidateError, Answer, Goto
<1>23. ASSUME NEW q \in Req, GetRehydrated(q) PROVE Drops
  BY <1>23 DEF GetRehydrated, Goto
<1>24. ASSUME NEW q \in Req, RehydrateHit(q) PROVE Drops
  BY <1>24 DEF RehydrateHit, Goto
<1>25. ASSUME NEW q \in Req, Rehydrate(q) PROVE Drops
  BY <1>25 DEF Rehydrate, SessionFor, Goto
<1>26. ASSUME NEW q \in Req, RehydrateFails(q) PROVE Drops
  BY <1>26 DEF RehydrateFails, Answer, Goto
<1>27. ASSUME NEW q \in Req, ServeRehydrated(q) PROVE Drops
  BY <1>27 DEF ServeRehydrated, SessionFor, Answer, Goto
<1>28. ASSUME NEW q \in Req, ServeClosed(q) PROVE Drops
  BY <1>28 DEF ServeClosed, Answer, Goto
<1>29. ASSUME NEW s \in Sid, TerminateInStore(s) PROVE Drops
  BY <1>29 DEF TerminateInStore
<1>30. ASSUME NEW r \in Replica, NEW s \in Sid, SdkCloseLocal(r, s) PROVE Drops
  BY <1>30 DEF SdkCloseLocal
<1>31. ASSUME NEW i \in Req, SdkCloseRehydrated(i) PROVE Drops
  BY <1>31 DEF SdkCloseRehydrated
<1>32. ASSUME NEW r \in Replica, Restart(r) PROVE Drops
  BY <1>32, SMTT(30) DEF Restart
<1>33. CASE UNCHANGED vars
  BY <1>33 DEF vars
<1> HIDE DEF RequestInv, RequestOK, LabelsOf, NoRequest,
        Request, Kind, DropInv, Drops, BookkeepingLost,
        mcpVars, httpVars, reqVars
<1>34. QED
  BY SMTT(30), <1>1, <1>2, <1>3, <1>4, <1>5, <1>6, <1>7, <1>8, <1>9, <1>10, <1>11,
     <1>12, <1>13, <1>14, <1>15, <1>16, <1>17, <1>18, <1>19, <1>20, <1>21,
     <1>22, <1>23, <1>24, <1>25, <1>26, <1>27, <1>28, <1>29, <1>30, <1>31,
     <1>32, <1>33 DEF Next, RequestStep, Finished

---------------------------------------------------------------------------
\* Every step preserves the invariant.
LEMMA NextInv == Inv /\ [Next]_vars => Inv'
<1> SUFFICES ASSUME Inv, [Next]_vars PROVE Inv'
  OBVIOUS
<1>1. /\ TypeInv /\ FreshInv /\ InstanceInv /\ DropInv /\ NoOrphanSession
      /\ MarkerInv /\ DetourInv /\ NoSplitBrainWithoutDelete
      /\ StatusInv /\ LateInv /\ RegisterInv /\ RegistryKeepsLive
  BY DEF Inv, BaseInv
<1>2. TypeInv'
  BY <1>1, TypeStep, RequestStepInv DEF TypeInv
<1>3. (FreshInv /\ InstanceInv /\ DropInv)'
  BY <1>1, BaseStep, InstanceStep
<1>4. NoOrphanSession'
  BY <1>1, OrphanStep
<1>5. (MarkerInv /\ DetourInv /\ NoSplitBrainWithoutDelete)'
  BY <1>1, MarkerStep, DetourStep, SplitStep
<1>6. (StatusInv /\ LateInv)'
  BY <1>1, StatusStep, LateStep DEF TypeInv
<1>7. (RegisterInv /\ RegistryKeepsLive)'
  BY <1>1, RegisterStep, RegistryStep
<1>8. QED
  BY <1>2, <1>3, <1>4, <1>5, <1>6, <1>7 DEF Inv, BaseInv

\* The invariant holds in every reachable state of ServeHTTP's routing.
THEOREM Invariance == Spec => []Inv
  BY InitInv, NextInv, PTL DEF Spec

\* The state of the replicas, of the store and of the requests has its type.
THEOREM TypeCorrect == Spec => []TypeOK
<1>1. Inv => TypeOK
  BY DEF Inv, BaseInv, TypeInv
<1>2. QED
  BY Invariance, <1>1, PTL

\* rehydrate and deleteRehydrated never leave a connected session that no
\* request can reach and no one is about to close.
THEOREM NoOrphans == Spec => []NoOrphanSession
<1>1. Inv => NoOrphanSession
  BY DEF Inv
<1>2. QED
  BY Invariance, <1>1, PTL

\* Without a DELETE on the replica, the handler's session and a reconstructed
\* one never coexist under one ID: the local checks of ServeHTTP suffice.
THEOREM SplitBrainNeedsDelete == Spec => []NoSplitBrainWithoutDelete
<1>1. Inv => NoSplitBrainWithoutDelete
  BY DEF Inv
<1>2. QED
  BY Invariance, <1>1, PTL

\* serveRehydrated never serves a request that arrived after the session was
\* terminated in the shared store, whatever it has cached.
THEOREM LazyEviction == Spec => []RehydratedNeverServesTerminated
<1>1. Inv => RehydratedNeverServesTerminated
  <2> SUFFICES ASSUME Inv, NEW q \in Req, rq[q].late
               PROVE  ~(status[q] = "served" /\ held[q] # None) /\ q \notin open
    BY DEF RehydratedNeverServesTerminated
  <2>1. q \notin open /\ (held[q] # None => pc[q] = "close")
    BY DEF Inv, LateInv
  <2>2. pc[q] = "close" => status[q] # "served"
    BY DEF Inv, StatusInv
  <2>3. QED
    BY <2>1, <2>2
<1>2. QED
  BY Invariance, <1>1, PTL

\* A session the replica routes to keeps its registry entry until it is deleted
\* or terminated.
THEOREM RegistryKept == Spec => []RegistryKeepsLive
<1>1. Inv => RegistryKeepsLive
  BY DEF Inv
<1>2. QED
  BY Invariance, <1>1, PTL

\* Only a termination, a DELETE or a restart takes a local marker or a cached
\* reconstruction away.
THEOREM BookkeepingKept == Spec => OnlyTerminationDrops
<1>1. Inv /\ [Next]_vars => [Drops]_vars
  BY DropsStep DEF Inv, BaseInv
<1>2. Spec => [][Drops]_vars
  BY Invariance, <1>1, PTL DEF Spec
<1>3. QED
  BY <1>2 DEF OnlyTerminationDrops, Drops

-----------------------------------------------------------------------------
(* The 404 answers: used of the routing are DropInv, FreshInv, StatusInv, and *)
(* that only a termination, a DELETE or a restart takes a marker or a cached  *)
(* session away (Drops).                                                      *)

\* A 404 for s is right on r.
Excused(r, s) == store[s] = "terminated" \/ DeleteArrived(r, s)

Asks(q) == rq[q].kind \in {"call", "inited"}

\* The path of a session that was local when ServeHTTP first looked.
OnPath == {"recheck", "validate", "handler", "dispatch", "register", "mark"}

\* An ID is given to one initialize, and no client knows it before the answer.
IssuedInv ==
  /\ \A p \in Req : rq[p].kind = "init" =>
       /\ rq[p].seen = "no"
       /\ pc[p] \in {"dispatch", "register", "mark", "respond"} => rq[p].sid \notin known
  /\ \A p, q \in Req : rq[p].kind = "init" /\ rq[q].kind = "init" =>
       (rq[p].sid \in Sid /\ rq[p].sid = rq[q].sid => p = q)

\* What the routing took for local keeps its marker, or there is an excuse.
MarkedInv ==
  \A q \in Req : Asks(q) /\ pc[q] \in OnPath =>
    rq[q].sid \in local[rq[q].rep] \/ Excused(rq[q].rep, rq[q].sid)

\* What the replica had when the request arrived it still has while the request
\* is routed, in the same way, or there is an excuse.
SeenInv ==
  \A q \in Req :
    LET r == rq[q].rep  s == rq[q].sid IN
    Asks(q) =>
      /\ rq[q].seen = "local" /\ pc[q] = "start" => s \in local[r] \/ Excused(r, s)
      /\ rq[q].seen = "local" /\ pc[q] \in {"rvalidate", "rmiss"} => Excused(r, s)
      /\ rq[q].seen = "cached" /\ pc[q] \in OnPath \cup {"start", "rvalidate", "rmiss"} =>
           s \notin local[r] \/ Excused(r, s)
      /\ rq[q].seen = "cached" /\ pc[q] \in {"start", "rvalidate", "rmiss"} =>
           rehydrated[r][s] # None \/ Excused(r, s)

AnswerInv == IssuedInv /\ MarkedInv /\ SeenInv /\ NotFoundIsGenuine

\* What a step of request q after its arrival does to the requests.
Moves(q) ==
  LET r == rq[q].rep  s == rq[q].sid IN
  /\ \A p \in Req : p # q => pc'[p] = pc[p] /\ rq'[p] = rq[p] /\ status'[p] = status[p]
  /\ rq'[q].kind = rq[q].kind /\ rq'[q].rep = r /\ rq'[q].seen = rq[q].seen
  /\ rq'[q].sid # s => rq[q].kind = "init" /\ store[rq'[q].sid] = "absent"
  /\ pc[q] \notin {"idle", "done"} /\ pc'[q] # "start"
  /\ pc'[q] = "recheck" => pc[q] = "start" /\ s \in local'[r] /\ s \in local[r]
  /\ pc'[q] \in OnPath \ {"recheck"} /\ rq[q].kind # "init" => pc[q] \in OnPath
  /\ pc'[q] = "rvalidate" => pc[q] = "start" /\ s \notin local[r] /\ s \notin local'[r]
  /\ pc'[q] = "rmiss" => pc[q] = "rvalidate"
  /\ status'[q] \in {"notFound", "terminated"} /\ rq[q].kind # "delete" =>
       \/ pc[q] = "handler" /\ s \notin handler'[r]
       \/ pc[q] = "rmiss" /\ rehydrated[r][s] = None
       \/ pc[q] = "close"
  /\ pc'[q] \in {"dispatch", "register", "mark", "respond"} /\ rq[q].kind = "init" =>
       \/ pc[q] = "start" /\ store[rq'[q].sid] = "absent"
       \/ pc[q] \in {"dispatch", "register", "mark"} /\ rq'[q].sid = s
  /\ known' # known => pc[q] = "respond" /\ pc'[q] = "done" /\ rq' = rq
                       /\ rq[q].kind = "init" /\ known' = known \cup {s}
  /\ \A x \in Replica, t \in Sid :
       /\ t \in local'[x] /\ t \notin local[x] => pc[q] = "mark" /\ x = r /\ t = s /\ rq' = rq
       /\ t \in handler'[x] /\ t \notin handler[x] => store[t] = "absent"

\* Steps that are no request's leave the requests, the markers and the known IDs alone.
Idles ==
  /\ UNCHANGED <<pc, rq, status, local, known>>
  /\ \A x \in Replica : handler'[x] \subseteq handler[x]

---------------------------------------------------------------------------
\* Every step of a request after its arrival is such a move.
LEMMA MoveStep ==
  ASSUME TypeInv, StatusInv, NEW q \in Req, RequestStep(q),
         ~\E k \in Kind, r \in Replica, s \in Sid \cup {None} : Arrive(q, k, r, s)
  PROVE  Moves(q)
<1> TypeOK /\ RequestOK(q)
  BY DEF TypeInv, RequestInv
<1> USE NoneAssumption DEF TypeOK, RequestOK, LabelsOf, StatusInv, Request, Kind, OnPath, Moves,
        mcpVars, httpVars, reqVars
<1>1. ASSUME NEW s \in Sid, Create(q, s) PROVE Moves(q)
  <2>1. /\ \A p \in Req : p # q => rq'[p] = rq[p]
        /\ rq'[q].rep = rq[q].rep /\ rq'[q].kind = rq[q].kind /\ rq'[q].seen = rq[q].seen
    BY <1>1, SMTT(30) DEF Create
  <2>2. rq'[q].sid = s
    BY <1>1 DEF Create
  <2>3. QED
    BY <1>1, <2>1, <2>2 DEF Create, Goto
<1>2. CASE Deny(q)
  BY <1>2 DEF Deny, Answer, Goto
<1>3. CASE CreateFails(q)
  BY <1>3 DEF CreateFails, Answer, Goto
<1>4. CASE Dispatch(q)
  BY <1>4, ZenonT(30) DEF Dispatch, SessionFor, Answer, Goto
<1>5. CASE InitRejected(q)
  BY <1>5 DEF InitRejected, SessionFor, Answer, Goto
<1>6. CASE DispatchClosed(q)
  BY <1>6 DEF DispatchClosed, Answer, Goto
<1>7. CASE Register(q)
  BY <1>7 DEF Register, SessionFor, Goto
<1>8. CASE Mark(q)
  BY <1>8, ZenonT(30) DEF Mark, Answer, Goto
<1>9. CASE Respond(q)
  BY <1>9 DEF Respond, Answer, Goto
<1>10. CASE Route(q)
  BY <1>10 DEF Route, Goto, isLocalSession
<1>11. CASE Recheck(q)
  BY <1>11 DEF Recheck, Goto, isLocalSession
<1>12. CASE ValidateLocal(q)
  BY <1>12 DEF ValidateLocal, Validate, Answer, Goto
<1>13. CASE HandlerLookup(q)
  BY <1>13 DEF HandlerLookup, Answer, Goto
<1>14. CASE Forget1(q)
  BY <1>14 DEF Forget1, Goto
<1>15. CASE Forget2(q)
  BY <1>15 DEF Forget2, Goto
<1>16. CASE Drop(q)
  BY <1>16 DEF Drop, Goto
<1>17. CASE Close(q)
  BY <1>17, SMTT(30) DEF Close, Answer, Goto
<1>18. CASE SdkDelete(q)
  BY <1>18 DEF SdkDelete, Goto
<1>19. CASE Terminate(q)
  BY <1>19 DEF Terminate, Goto
<1>20. CASE ValidateRemote(q)
  BY <1>20 DEF ValidateRemote, Validate, Goto
<1>21. CASE ValidateError(q)
  BY <1>21 DEF ValidateError, Answer, Goto
<1>22. CASE GetRehydrated(q)
  BY <1>22 DEF GetRehydrated, Goto
<1>23. CASE RehydrateHit(q)
  BY <1>23 DEF RehydrateHit, Goto
<1>24. CASE Rehydrate(q)
  BY <1>24 DEF Rehydrate, SessionFor, Goto
<1>25. CASE RehydrateFails(q)
  BY <1>25, SMTT(30) DEF RehydrateFails, Answer, Goto
<1>26. CASE ServeRehydrated(q)
  BY <1>26 DEF ServeRehydrated, SessionFor, Answer, Goto
<1>27. CASE ServeClosed(q)
  BY <1>27 DEF ServeClosed, Answer, Goto
<1> HIDE DEF TypeOK, RequestOK, LabelsOf, StatusInv, Request, Kind, OnPath, Moves
<1>28. QED
  BY <1>1, <1>2, <1>3, <1>4, <1>5, <1>6, <1>7, <1>8, <1>9, <1>10, <1>11, <1>12,
     <1>13, <1>14, <1>15, <1>16, <1>17, <1>18, <1>19, <1>20, <1>21, <1>22, <1>23,
     <1>24, <1>25, <1>26, <1>27 DEF RequestStep

\* The steps of the environment but a restart.
LEMMA IdleStep ==
  ASSUME TypeInv,
         \/ \E s \in Sid : TerminateInStore(s)
         \/ \E r \in Replica, s \in Sid : SdkCloseLocal(r, s)
         \/ \E i \in Req : SdkCloseRehydrated(i)
         \/ UNCHANGED vars
  PROVE  Idles
  BY DEF TypeInv, TypeOK, TerminateInStore, SdkCloseLocal, SdkCloseRehydrated, vars, Idles,
         mcpVars, httpVars, reqVars

\* An excuse stays one.
LEMMA ExcusedStable ==
  ASSUME TypeInv, [Next]_vars, NEW r \in Replica, NEW s \in Sid, Excused(r, s)
  PROVE  Excused(r, s)'
  BY Stable DEF Excused

\* A step that is no restart takes a marker or a cached session away only with an excuse.
LEMMA KeepsOrExcused ==
  ASSUME TypeInv, DropInv, [Next]_vars, restarts' = restarts, NEW r \in Replica, NEW s \in Sid
  PROVE  /\ s \in local[r] => s \in local'[r] \/ Excused(r, s)'
         /\ rehydrated[r][s] # None => rehydrated'[r][s] # None \/ Excused(r, s)'
  BY DropsStep, ExcusedStable DEF Drops, BookkeepingLost, Excused

\* Who asks names a replica and a session.
LEMMA AsksSid ==
  ASSUME TypeInv, NEW q \in Req, pc[q] # "idle", rq[q].kind # "init"
  PROVE  rq[q].rep \in Replica /\ rq[q].sid \in Sid /\ rq[q].sid \in known
  BY InFlight

\* Only a restart counts.
LEMMA MoveKeepsRestarts ==
  ASSUME NEW q \in Req, RequestStep(q) PROVE restarts' = restarts
  BY DEF RequestStep, Arrive, Deny, Create, CreateFails, Dispatch, InitRejected, DispatchClosed,
         Register, Mark, Respond, Route, Recheck, ValidateLocal, HandlerLookup, Forget1, Forget2,
         Drop, Close, SdkDelete, Terminate, ValidateRemote, ValidateError, GetRehydrated,
         RehydrateHit, Rehydrate, RehydrateFails, ServeRehydrated, ServeClosed

---------------------------------------------------------------------------
\* A request arrives: what the replica has is what `seen' says.
LEMMA ArriveAnswer ==
  ASSUME TypeInv, FreshInv, AnswerInv, [Next]_vars, NEW q \in Req, NEW k \in Kind,
         NEW r \in Replica, NEW s \in Sid \cup {None}, Arrive(q, k, r, s)
  PROVE  AnswerInv'
<1>1. /\ UNCHANGED <<store, known, handler, local, rehydrated, status>>
      /\ pc[q] = "idle" /\ pc'[q] = "start" /\ status'[q] = "none"
      /\ \A p \in Req : p # q => pc'[p] = pc[p] /\ rq'[p] = rq[p]
      /\ rq'[q].kind = k /\ rq'[q].rep = r /\ rq'[q].sid = s
      /\ rq'[q].seen = IF s \in local[r] THEN "local"
                       ELSE IF s \in Sid /\ rehydrated[r][s] # None THEN "cached" ELSE "no"
      /\ k = "init" => s = None
      /\ rq[q].kind = "call"
  BY SMTT(30) DEF Arrive, Goto, TypeInv, TypeOK, RequestInv, RequestOK, NoRequest, mcpVars, httpVars
<1>2. \A x \in Replica, t \in Sid : Excused(x, t) => Excused(x, t)'
  BY ExcusedStable
<1>3. \A p \in Req : pc[p] # "idle" /\ rq[p].kind # "init" =>
        rq[p].rep \in Replica /\ rq[p].sid \in Sid
  BY AsksSid
<1>4. \A x \in Replica : local[x] \subseteq Sid
  BY DEF TypeInv, TypeOK
<1>5. IssuedInv'
  BY <1>1, <1>4, NoneAssumption, SMTT(30) DEF AnswerInv, IssuedInv
<1>6. MarkedInv'
  BY <1>1, <1>2, <1>3 DEF AnswerInv, MarkedInv, Asks, OnPath
<1>7. SeenInv'
  BY <1>1, <1>2, <1>3, SMTT(30) DEF AnswerInv, SeenInv, Asks, OnPath
<1>8. NotFoundIsGenuine'
  <2> SUFFICES ASSUME NEW p \in Req, status'[p] \in {"notFound", "terminated"},
                      rq'[p].seen # "no", rq'[p].kind # "delete"
               PROVE  \/ Excused(rq[p].rep, rq[p].sid)'
                      \/ (rq[p].seen = "local" /\ rq[p].sid \notin handler[rq[p].rep])'
    BY DEF NotFoundIsGenuine, Excused
  <2>1. p # q /\ rq[p].kind # "init"
    BY <1>1 DEF AnswerInv, IssuedInv
  <2>2. pc[p] # "idle"
    BY <1>1, <2>1 DEF TypeInv, RequestInv, RequestOK
  <2> QED BY <1>1, <1>2, <1>3, <2>1, <2>2, SMTT(30) DEF AnswerInv, NotFoundIsGenuine, Excused
<1> QED BY <1>5, <1>6, <1>7, <1>8 DEF AnswerInv

\* A request moves.
LEMMA MoveAnswer ==
  ASSUME TypeInv, FreshInv, DropInv, StatusInv, AnswerInv, [Next]_vars,
         NEW q \in Req, RequestStep(q), Moves(q)
  PROVE  AnswerInv'
<1>1. \A x \in Replica, t \in Sid :
        /\ Excused(x, t) => Excused(x, t)'
        /\ t \in local[x] => t \in local'[x] \/ Excused(x, t)'
        /\ rehydrated[x][t] # None => rehydrated'[x][t] # None \/ Excused(x, t)'
  BY ExcusedStable, KeepsOrExcused, MoveKeepsRestarts
<1>2. \A p \in Req : pc[p] # "idle" /\ rq[p].kind # "init" =>
        rq[p].rep \in Replica /\ rq[p].sid \in Sid /\ rq[p].sid \in known
  BY AsksSid
<1>3. \A p \in Req : pc[p] = "idle" => rq[p].seen = "no" /\ rq[p].kind = "call" /\ status[p] = "none"
  BY SMTT(30) DEF TypeInv, RequestInv, RequestOK, NoRequest
<1>4. \A t \in Sid : store[t] = "absent" => t \notin known /\ \A p \in Req : rq[p].sid # t
  BY DEF FreshInv
<1>5. \A p \in Req : /\ p # q => pc'[p] = pc[p] /\ rq'[p] = rq[p] /\ status'[p] = status[p]
                     /\ rq'[p].kind = rq[p].kind /\ rq'[p].rep = rq[p].rep
                     /\ rq'[p].seen = rq[p].seen
                     /\ rq[p].kind # "init" => rq'[p].sid = rq[p].sid
  BY DEF Moves
<1>6. IssuedInv'
  <2>1. \A p \in Req : rq'[p].kind = "init" => rq'[p].seen = "no"
    BY <1>5 DEF AnswerInv, IssuedInv
  <2>2. ASSUME NEW p \in Req, rq'[p].kind = "init",
               pc'[p] \in {"dispatch", "register", "mark", "respond"}
        PROVE  rq'[p].sid \notin known'
    <3>1. rq'[p].sid \in Sid
      <4>1. TypeInv'
        BY TypeStep, RequestStepInv DEF TypeInv
      <4> QED BY <4>1, <2>2 DEF TypeInv, RequestInv, RequestOK
    <3>2. rq'[p].sid \notin known
      <4>1. CASE p = q
        BY <1>4, <2>2, <3>1, <4>1 DEF Moves, AnswerInv, IssuedInv
      <4>2. CASE p # q
        BY <1>5, <2>2, <4>2 DEF AnswerInv, IssuedInv
      <4> QED BY <4>1, <4>2
    <3>3. CASE known' # known
      <4>1. p # q /\ rq'[p] = rq[p] /\ rq[q].kind = "init" /\ known' = known \cup {rq[q].sid}
        BY <2>2, <3>3, <1>5 DEF Moves
      <4>2. rq[p].sid # rq[q].sid
        BY <2>2, <3>1, <4>1 DEF AnswerInv, IssuedInv
      <4> QED BY <3>2, <4>1, <4>2
    <3> QED BY <3>2, <3>3
  <2>3. ASSUME NEW a \in Req, NEW b \in Req, rq'[a].kind = "init", rq'[b].kind = "init",
               rq'[a].sid \in Sid, rq'[a].sid = rq'[b].sid
        PROVE  a = b
    <3>0. \A p1 \in Req, p2 \in Req : rq[p1].kind = "init" /\ rq[p2].kind = "init" /\ rq[p1].sid \in Sid
                                     /\ rq[p1].sid = rq[p2].sid => p1 = p2
      BY DEF AnswerInv, IssuedInv
    <3>1. rq[a].kind = "init" /\ rq[b].kind = "init"
      BY <2>3, <1>5
    <3>2. \A p \in Req \ {q} : rq'[p].sid = rq[p].sid
      BY <1>5
    <3>3. CASE rq'[q].sid = rq[q].sid
      <4>1. rq'[a].sid = rq[a].sid /\ rq'[b].sid = rq[b].sid
        BY <3>2, <3>3
      <4> QED BY <2>3, <3>0, <3>1, <4>1
    <3>4. CASE rq'[q].sid # rq[q].sid /\ q \in {a, b}
      <4>1. rq'[q].sid \in Sid /\ store[rq'[q].sid] = "absent"
        BY <2>3, <3>4 DEF Moves
      <4>2. \A p \in Req : rq[p].sid # rq'[q].sid
        BY <1>4, <4>1
      <4> QED BY <2>3, <3>2, <3>4, <4>2
    <3>5. CASE q \notin {a, b}
      <4>1. rq'[a].sid = rq[a].sid /\ rq'[b].sid = rq[b].sid
        BY <3>2, <3>5
      <4> QED BY <2>3, <3>0, <3>1, <4>1
    <3> QED BY <3>3, <3>4, <3>5
  <2> QED BY <2>1, <2>2, <2>3 DEF IssuedInv
<1>7. MarkedInv'
  <2> SUFFICES ASSUME NEW p \in Req, Asks(p)', pc'[p] \in OnPath
               PROVE  (rq[p].sid \in local[rq[p].rep] \/ Excused(rq[p].rep, rq[p].sid))'
    BY DEF MarkedInv
  <2>1. Asks(p) /\ rq'[p].sid = rq[p].sid /\ rq'[p].rep = rq[p].rep
    BY <1>5 DEF Asks
  <2>2. pc[p] # "idle"
    BY <1>5 DEF Moves, OnPath
  <2>3. CASE pc[p] \in OnPath
    BY <1>1, <1>2, <2>1, <2>2, <2>3 DEF AnswerInv, MarkedInv, Asks
  <2>4. CASE pc[p] \notin OnPath
    BY <1>5, <2>1, <2>4 DEF Moves, Asks
  <2> QED BY <2>3, <2>4
<1>8. SeenInv'
  <2> SUFFICES ASSUME NEW p \in Req, Asks(p)'
               PROVE (LET r == rq[p].rep  s == rq[p].sid IN
      /\ rq[p].seen = "local" /\ pc[p] = "start" => s \in local[r] \/ Excused(r, s)
      /\ rq[p].seen = "local" /\ pc[p] \in {"rvalidate", "rmiss"} => Excused(r, s)
      /\ rq[p].seen = "cached" /\ pc[p] \in OnPath \cup {"start", "rvalidate", "rmiss"} =>
           s \notin local[r] \/ Excused(r, s)
      /\ rq[p].seen = "cached" /\ pc[p] \in {"start", "rvalidate", "rmiss"} =>
           rehydrated[r][s] # None \/ Excused(r, s))'
    BY DEF SeenInv
  <2>1. Asks(p) /\ rq'[p].sid = rq[p].sid /\ rq'[p].rep = rq[p].rep /\ rq'[p].seen = rq[p].seen
    BY <1>5 DEF Asks
  <2>2. rq[p].seen # "no" => pc[p] # "idle" /\ rq[p].rep \in Replica /\ rq[p].sid \in Sid
                             /\ rq[p].sid \in known
    BY <1>2, <1>3, <2>1 DEF Asks
  <2>3. /\ pc'[p] = "start" => pc[p] = "start"
        /\ pc'[p] = "rvalidate" => pc[p] = "rvalidate" \/ (pc[p] = "start" /\ rq[p].sid \notin local[rq[p].rep])
        /\ pc'[p] = "rmiss" => pc[p] \in {"rmiss", "rvalidate"}
        /\ pc'[p] \in OnPath => pc[p] \in OnPath \cup {"start"}
    BY <1>5, <2>1 DEF Moves, OnPath, Asks
  <2>4. ASSUME rq[p].seen = "cached", pc[p] \in OnPath \cup {"start", "rvalidate", "rmiss"},
               rq[p].sid \in local'[rq[p].rep]
        PROVE  Excused(rq[p].rep, rq[p].sid)'
    <3>1. CASE rq[p].sid \in local[rq[p].rep]
      BY <1>1, <2>1, <2>2, <2>4, <3>1 DEF AnswerInv, SeenInv
    <3>2. CASE rq[p].sid \notin local[rq[p].rep]
      <4>1. pc[q] = "mark" /\ rq[q].rep = rq[p].rep /\ rq[q].sid = rq[p].sid
        BY <2>2, <2>4, <3>2 DEF Moves
      <4>2. Asks(q)
        <5>1. rq[q].kind # "init"
          BY <2>2, <2>4, <4>1 DEF AnswerInv, IssuedInv
        <5>2. rq[q].kind \in Kind /\ rq[q].kind # "delete"
          BY <4>1, InFlight DEF LabelsOf
        <5> QED BY <5>1, <5>2 DEF Asks, Kind
      <4>3. Excused(rq[p].rep, rq[p].sid)
        BY <3>2, <4>1, <4>2 DEF AnswerInv, MarkedInv, OnPath
      <4> QED BY <1>1, <2>1, <2>2, <2>4, <4>3
    <3> QED BY <3>1, <3>2
  <2>5. rq[p].seen = "local" /\ pc[p] \in {"rvalidate", "rmiss"} => Excused(rq[p].rep, rq[p].sid)
    BY <2>1 DEF AnswerInv, SeenInv
  <2>6. rq[p].seen = "local" /\ pc[p] = "start" =>
          rq[p].sid \in local[rq[p].rep] \/ Excused(rq[p].rep, rq[p].sid)
    BY <2>1 DEF AnswerInv, SeenInv
  <2>7. rq[p].seen = "cached" /\ pc[p] \in {"start", "rvalidate", "rmiss"} =>
          rehydrated[rq[p].rep][rq[p].sid] # None \/ Excused(rq[p].rep, rq[p].sid)
    BY <2>1 DEF AnswerInv, SeenInv
  <2> QED BY <1>1, <2>1, <2>2, <2>3, <2>4, <2>5, <2>6, <2>7
<1>9. NotFoundIsGenuine'
  <2> SUFFICES ASSUME NEW p \in Req, status'[p] \in {"notFound", "terminated"},
                      rq'[p].seen # "no", rq'[p].kind # "delete"
               PROVE  \/ Excused(rq[p].rep, rq[p].sid)'
                      \/ (rq[p].seen = "local" /\ rq[p].sid \notin handler[rq[p].rep])'
    BY DEF NotFoundIsGenuine, Excused
  <2>1. rq[p].seen # "no" /\ rq[p].kind # "init" /\ pc[p] # "idle"
    BY <1>3, <1>5 DEF AnswerInv, IssuedInv
  <2>2. /\ rq'[p].sid = rq[p].sid /\ rq'[p].rep = rq[p].rep /\ rq'[p].seen = rq[p].seen
        /\ rq[p].kind # "delete" /\ rq[p].rep \in Replica /\ rq[p].sid \in Sid
        /\ rq[p].sid \in known
    BY <1>2, <1>5, <2>1
  <2>3. Asks(p) /\ rq[p].seen \in {"local", "cached"}
    BY <2>1, <2>2, InFlight DEF Asks, Kind, TypeInv, TypeOK, Request
  <2>4. CASE p # q
    <3>1. \/ Excused(rq[p].rep, rq[p].sid)
          \/ rq[p].seen = "local" /\ rq[p].sid \notin handler[rq[p].rep]
      BY <1>5, <2>1, <2>2, <2>4 DEF AnswerInv, NotFoundIsGenuine, Excused
    <3>2. rq[p].sid \notin handler[rq[p].rep] => rq[p].sid \notin handler'[rq[p].rep]
      BY <1>4, <2>2 DEF Moves
    <3> QED BY <1>1, <2>2, <3>1, <3>2
  <2>5. CASE p = q
    <3>1. CASE pc[q] = "handler" /\ rq[q].sid \notin handler'[rq[q].rep]
      <4>1. rq[q].seen = "cached" => Excused(rq[q].rep, rq[q].sid)
        BY <2>3, <2>5, <3>1 DEF AnswerInv, MarkedInv, SeenInv, OnPath
      <4> QED BY <1>1, <2>2, <2>3, <2>5, <3>1, <4>1
    <3>2. CASE pc[q] = "rmiss" /\ rehydrated[rq[q].rep][rq[q].sid] = None
      <4>1. Excused(rq[q].rep, rq[q].sid)
        BY <2>3, <2>5, <3>2 DEF AnswerInv, SeenInv
      <4> QED BY <1>1, <2>2, <2>5, <4>1
    <3>3. CASE pc[q] = "close"
      <4>1. Excused(rq[q].rep, rq[q].sid)
        BY <2>2, <2>5, <3>3 DEF DropInv, Excused
      <4> QED BY <1>1, <2>2, <2>5, <4>1
    <3> QED BY <2>2, <2>5, <3>1, <3>2, <3>3 DEF Moves
  <2> QED BY <2>4, <2>5
<1> QED BY <1>6, <1>7, <1>8, <1>9 DEF AnswerInv

\* The environment moves.
LEMMA IdleAnswer ==
  ASSUME TypeInv, DropInv, AnswerInv, [Next]_vars, Idles, restarts' = restarts
  PROVE  AnswerInv'
<1>1. \A x \in Replica, t \in Sid :
        /\ Excused(x, t) => Excused(x, t)'
        /\ rehydrated[x][t] # None => rehydrated'[x][t] # None \/ Excused(x, t)'
  BY ExcusedStable, KeepsOrExcused
<1>2. \A p \in Req : pc[p] # "idle" /\ rq[p].kind # "init" =>
        rq[p].rep \in Replica /\ rq[p].sid \in Sid
  BY AsksSid
<1>3. \A p \in Req : pc[p] = "idle" => rq[p].seen = "no"
  BY SMTT(30) DEF TypeInv, RequestInv, RequestOK, NoRequest
<1>4. pc' = pc /\ rq' = rq /\ status' = status /\ local' = local /\ known' = known
  BY DEF Idles
<1>5. IssuedInv'
  BY <1>4 DEF AnswerInv, IssuedInv
<1>6. MarkedInv'
  BY <1>1, <1>2, <1>4 DEF AnswerInv, MarkedInv, Asks, OnPath
<1>7. SeenInv'
  BY <1>1, <1>2, <1>3, <1>4 DEF AnswerInv, SeenInv, Asks, OnPath
<1>8. NotFoundIsGenuine'
  <2> SUFFICES ASSUME NEW p \in Req, status[p] \in {"notFound", "terminated"},
                      rq[p].seen # "no", rq[p].kind # "delete"
               PROVE  \/ Excused(rq[p].rep, rq[p].sid)'
                      \/ (rq[p].seen = "local" /\ rq[p].sid \notin handler[rq[p].rep])'
    BY <1>4 DEF NotFoundIsGenuine, Excused
  <2>1. rq[p].rep \in Replica /\ rq[p].sid \in Sid
    BY <1>2, <1>3 DEF AnswerInv, IssuedInv
  <2>2. \/ Excused(rq[p].rep, rq[p].sid)
        \/ rq[p].seen = "local" /\ rq[p].sid \notin handler[rq[p].rep]
    BY DEF AnswerInv, NotFoundIsGenuine, Excused
  <2> QED BY <1>1, <1>4, <2>1, <2>2 DEF Idles
<1> QED BY <1>5, <1>6, <1>7, <1>8 DEF AnswerInv

\* A replica restarts: its own requests end without an answer, the others' state is kept.
LEMMA RestartAnswer ==
  ASSUME TypeInv, AnswerInv, [Next]_vars, NEW x \in Replica, Restart(x)
  PROVE  AnswerInv'
<1>1. \A y \in Replica, t \in Sid : Excused(y, t) => Excused(y, t)'
  BY ExcusedStable
<1>2. \A p \in Req : pc[p] # "idle" /\ rq[p].kind # "init" =>
        rq[p].rep \in Replica /\ rq[p].sid \in Sid
  BY AsksSid
<1>3. \A p \in Req : pc[p] = "idle" => rq[p].seen = "no" /\ rq[p].rep = None
  BY SMTT(30) DEF TypeInv, RequestInv, RequestOK, NoRequest
<1>4. /\ rq' = rq /\ known' = known
      /\ \A y \in Replica : y # x =>
           handler'[y] = handler[y] /\ local'[y] = local[y] /\ rehydrated'[y] = rehydrated[y]
      /\ handler'[x] = {}
      /\ \A p \in Req : /\ pc'[p] = pc[p] \/ pc'[p] = "done"
                        /\ status'[p] = status[p] \/ status'[p] = "reset"
                        /\ rq[p].rep = x => pc'[p] \in {"idle", "done"}
  BY DEF Restart, TypeInv, TypeOK
<1>5. IssuedInv'
  BY <1>4 DEF AnswerInv, IssuedInv
<1>6. MarkedInv'
  BY <1>1, <1>2, <1>4 DEF AnswerInv, MarkedInv, Asks, OnPath
<1>7. SeenInv'
  BY <1>1, <1>2, <1>3, <1>4, SMTT(30) DEF AnswerInv, SeenInv, Asks, OnPath
<1>8. NotFoundIsGenuine'
  <2> SUFFICES ASSUME NEW p \in Req, status[p] \in {"notFound", "terminated"},
                      rq[p].seen # "no", rq[p].kind # "delete"
               PROVE  \/ Excused(rq[p].rep, rq[p].sid)'
                      \/ (rq[p].seen = "local" /\ rq[p].sid \notin handler[rq[p].rep])'
    BY <1>4 DEF NotFoundIsGenuine, Excused
  <2>1. rq[p].rep \in Replica /\ rq[p].sid \in Sid
    BY <1>2, <1>3 DEF AnswerInv, IssuedInv
  <2>2. \/ Excused(rq[p].rep, rq[p].sid)
        \/ rq[p].seen = "local" /\ rq[p].sid \notin handler[rq[p].rep]
    BY DEF AnswerInv, NotFoundIsGenuine, Excused
  <2>3. rq[p].sid \notin handler[rq[p].rep] => rq[p].sid \notin handler'[rq[p].rep]
    BY <1>4, <2>1
  <2> QED BY <1>1, <1>4, <2>1, <2>2, <2>3
<1> QED BY <1>5, <1>6, <1>7, <1>8 DEF AnswerInv

\* Every step preserves the invariant.
LEMMA AnswerStep == Inv /\ AnswerInv /\ [Next]_vars => AnswerInv'
<1> SUFFICES ASSUME Inv, AnswerInv, [Next]_vars PROVE AnswerInv'
  OBVIOUS
<1>1. TypeInv /\ FreshInv /\ DropInv /\ StatusInv
  BY DEF Inv, BaseInv
<1>2. ASSUME NEW q \in Req, RequestStep(q) PROVE AnswerInv'
  <2>1. CASE \E k \in Kind, r \in Replica, s \in Sid \cup {None} : Arrive(q, k, r, s)
    BY <1>1, <2>1, ArriveAnswer
  <2>2. CASE ~\E k \in Kind, r \in Replica, s \in Sid \cup {None} : Arrive(q, k, r, s)
    BY <1>1, <1>2, <2>2, MoveStep, MoveAnswer
  <2> QED BY <2>1, <2>2
<1>3. CASE \/ \E s \in Sid : TerminateInStore(s)
           \/ \E r \in Replica, s \in Sid : SdkCloseLocal(r, s)
           \/ \E i \in Req : SdkCloseRehydrated(i)
           \/ UNCHANGED vars
  <2>1. restarts' = restarts
    BY <1>3 DEF TerminateInStore, SdkCloseLocal, SdkCloseRehydrated, vars
  <2> QED BY <1>1, <1>3, <2>1, IdleStep, IdleAnswer
<1>4. ASSUME NEW r \in Replica, Restart(r) PROVE AnswerInv'
  BY <1>1, <1>4, RestartAnswer
<1> QED BY <1>2, <1>3, <1>4 DEF Next, Finished

\* A replica that had the session when the request arrived answers 404 only when the session
\* was terminated or deleted, or the SDK lost it (ServeHTTP, serveRehydrated).
THEOREM NotFoundHolds == Spec => []NotFoundIsGenuine
<1>1. Init => AnswerInv
  BY SMTT(30) DEF Init, AnswerInv, IssuedInv, MarkedInv, SeenInv, NotFoundIsGenuine, NoRequest, OnPath
<1>2. AnswerInv => NotFoundIsGenuine
  BY DEF AnswerInv
<1> QED BY <1>1, <1>2, AnswerStep, Invariance, PTL DEF Spec

===========================================================================
