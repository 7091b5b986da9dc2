-------------------------------- MODULE Ports --------------------------------
(***************************************************************************)
(* networking/port.go: callers that probe 127.0.0.1 for a port while other *)
(* processes bind and release ports.  A probe binds a socket and closes it *)
(* again (IsAvailable: TCP, then UDP); the listener functions keep it.     *)
(***************************************************************************)
EXTENDS Naturals

CONSTANTS Caller,       \* goroutines
          MinCallback,  \* 1024 of ValidateCallbackPort
          MinPort, MaxPort, MaxAttempts,
          Requests,     \* ports callers ask for, 0 for any
          MaxForeign,   \* bound: binds and releases by other processes
          Free, Foreign

VARIABLES tcp, udp,     \* holder of each port
          op, want,     \* the call: its function and its argument
          phase,        \* "request", "random", "sequential"
          tries, cand, pc, result,
          foreign,      \* binds and releases by other processes so far
          busy          \* history: ports held by someone else at some moment of the call, and
                        \* ports the system refused the caller

\* The ports of the range are positive; the two owners that are not callers are told apart.
ASSUME PortsAssumption == /\ MinPort \in Nat \ {0} /\ MaxPort \in Nat /\ MinPort <= MaxPort
                          /\ Requests \subseteq Nat
                          /\ Free # Foreign /\ Free \notin Caller /\ Foreign \notin Caller

portVars == <<tcp, udp, op, want, phase, tries, cand, pc, result, foreign, busy>>
call == <<op, want>>

Port == 1..MaxPort
Ops == {"FindOrUsePort", "FindOrUseListener", "ValidateCallbackPort"}
Invalid == MaxPort + 1
Exhausted == 0

Held(t, u, c) == {p \in Port : t[p] \notin {Free, c} \/ u[p] \notin {Free, c}}

\* Every step adds what is held after it to what running calls have seen held.
Seen(c) == IF pc'[c] \in {"idle", "done"} THEN busy[c] ELSE busy[c] \cup Held(tcp', udp', c)
Watch == busy' = [c \in Caller |-> Seen(c)]

Init == /\ \E first \in MinPort..(MaxPort + 1) :
              tcp = [p \in Port |-> IF p >= first THEN Free ELSE Foreign]
        /\ \E full \in BOOLEAN : udp = [p \in Port |-> IF full /\ p = MaxPort THEN Foreign ELSE Free]
        /\ op = [c \in Caller |-> "FindOrUsePort"] /\ want = [c \in Caller |-> 0]
        /\ phase = [c \in Caller |-> "request"] /\ tries = [c \in Caller |-> 0]
        /\ cand = [c \in Caller |-> 0] /\ pc = [c \in Caller |-> "idle"]
        /\ result = [c \in Caller |-> Exhausted]
        /\ foreign = 0 /\ busy = [c \in Caller |-> {}]

Go(c, label) == pc' = [pc EXCEPT ![c] = label]
Return(c, r) == Go(c, "done") /\ result' = [result EXCEPT ![c] = r]

\* The range checks; ValidateCallbackPort has a higher minimum and accepts 0 at once.
Refused(f, port) == \/ port > MaxPort
                    \/ f = "ValidateCallbackPort" /\ port # 0 /\ port < MinCallback

Call(c, f, port) ==
  /\ pc[c] = "idle"
  /\ op' = [op EXCEPT ![c] = f] /\ want' = [want EXCEPT ![c] = port]
  /\ IF Refused(f, port) THEN Return(c, Invalid) /\ UNCHANGED <<phase, cand>>
     ELSE IF port # 0 THEN /\ phase' = [phase EXCEPT ![c] = "request"]
                           /\ cand' = [cand EXCEPT ![c] = port] /\ Go(c, "tcp") /\ UNCHANGED result
     ELSE IF f = "ValidateCallbackPort" THEN Return(c, 0) /\ UNCHANGED <<phase, cand>>
     ELSE phase' = [phase EXCEPT ![c] = "random"] /\ Go(c, "pick") /\ UNCHANGED <<result, cand>>
  /\ busy' = [busy EXCEPT ![c] = Held(tcp, udp, c)]
  /\ UNCHANGED <<tcp, udp, tries, foreign>>

\* ValidateCallbackPort of a client that is not pre-registered stops after the range check.
NotPreRegistered(c) ==
  /\ pc[c] = "tcp" /\ op[c] = "ValidateCallbackPort" /\ Return(c, cand[c])
  /\ UNCHANGED <<tcp, udp, call, phase, tries, cand, foreign>> /\ Watch

\* rand.Int is below MaxPort - MinPort: the random phase never draws MaxPort.
PickRandom(c) ==
  /\ pc[c] = "pick" /\ tries[c] < MaxAttempts
  /\ \E p \in MinPort..(MaxPort - 1) : cand' = [cand EXCEPT ![c] = p]
  /\ tries' = [tries EXCEPT ![c] = @ + 1] /\ Go(c, "tcp")
  /\ UNCHANGED <<tcp, udp, call, phase, result, foreign>> /\ Watch

\* MaxAttempts draws failed, or rand.Int did.
StartSequential(c) ==
  /\ pc[c] = "pick"
  /\ phase' = [phase EXCEPT ![c] = "sequential"] /\ cand' = [cand EXCEPT ![c] = MinPort]
  /\ Go(c, "tcp") /\ UNCHANGED <<tcp, udp, call, tries, result, foreign>> /\ Watch

Sequential(c) ==
  IF cand[c] < MaxPort THEN Go(c, "tcp") /\ cand' = [cand EXCEPT ![c] = @ + 1] /\ UNCHANGED result
  ELSE Return(c, Exhausted) /\ UNCHANGED cand

\* A probe found cand[c] unavailable.
Unavailable(c) ==
  \/ phase[c] = "request" /\ op[c] = "ValidateCallbackPort" /\ Return(c, Exhausted) /\ UNCHANGED <<cand, phase>>
  \/ /\ phase[c] = "request" /\ op[c] # "ValidateCallbackPort"
     /\ phase' = [phase EXCEPT ![c] = "random"] /\ Go(c, "pick") /\ UNCHANGED <<cand, result>>
  \/ phase[c] = "random" /\ Go(c, "pick") /\ UNCHANGED <<cand, result, phase>>
  \/ phase[c] = "sequential" /\ Sequential(c) /\ UNCHANGED phase

ListenThenClose(c) ==
  IF tcp[cand[c]] # Free THEN Unavailable(c) /\ UNCHANGED tcp
  ELSE /\ UNCHANGED <<cand, phase>>
       /\ IF op[c] = "FindOrUseListener" THEN Return(c, cand[c]) /\ UNCHANGED tcp
          ELSE Go(c, "tcpClose") /\ UNCHANGED result /\ tcp' = [tcp EXCEPT ![cand[c]] = c]

tryListenTCP(c) ==
  IF tcp[cand[c]] # Free THEN Unavailable(c) /\ UNCHANGED tcp
  ELSE /\ tcp' = [tcp EXCEPT ![cand[c]] = c] /\ UNCHANGED <<cand, phase>>
       /\ IF op[c] = "FindOrUseListener" THEN Return(c, cand[c]) ELSE Go(c, "tcpClose") /\ UNCHANGED result

ProbeTCP(c) == /\ pc[c] = "tcp" /\ tryListenTCP(c)
               /\ UNCHANGED <<udp, call, tries, foreign>> /\ Watch

CloseTCP(c) == /\ pc[c] = "tcpClose" /\ tcp' = [tcp EXCEPT ![cand[c]] = Free] /\ Go(c, "udp")
               /\ UNCHANGED <<udp, call, phase, tries, cand, result, foreign>> /\ Watch

ProbeUDP(c) ==
  /\ pc[c] = "udp"
  /\ IF udp[cand[c]] # Free THEN Unavailable(c) /\ UNCHANGED udp
     ELSE udp' = [udp EXCEPT ![cand[c]] = c] /\ Go(c, "udpClose") /\ UNCHANGED <<cand, phase, result>>
  /\ UNCHANGED <<tcp, call, tries, foreign>> /\ Watch

CloseUDP(c) == /\ pc[c] = "udpClose" /\ udp' = [udp EXCEPT ![cand[c]] = Free] /\ Return(c, cand[c])
               /\ UNCHANGED <<tcp, call, phase, tries, cand, foreign>> /\ Watch

\* Resolving or binding fails though nobody holds the port: it is privileged, or the process
\* has no descriptor left.  Both probes take any error for "unavailable".
BindRefused(c) ==
  /\ pc[c] \in {"tcp", "udp"} /\ Unavailable(c)
  /\ UNCHANGED <<tcp, udp, call, tries, foreign>>
  /\ busy' = [d \in Caller |-> IF d = c THEN Seen(d) \cup {cand[c]} ELSE Seen(d)]

Step(c) == \/ BindRefused(c) \/ NotPreRegistered(c) \/ PickRandom(c) \/ StartSequential(c)
           \/ ProbeTCP(c) \/ CloseTCP(c) \/ ProbeUDP(c) \/ CloseUDP(c)

\* Another process binds a free port or releases one of its own.
Toggle(holder) == CASE holder = Free -> Foreign [] holder = Foreign -> Free [] OTHER -> holder
OtherProcess(p) ==
  /\ foreign < MaxForeign /\ foreign' = foreign + 1
  /\ \/ tcp' = [tcp EXCEPT ![p] = Toggle(@)] /\ UNCHANGED udp
     \/ udp' = [udp EXCEPT ![p] = Toggle(@)] /\ UNCHANGED tcp
  /\ UNCHANGED <<call, phase, tries, cand, pc, result>> /\ Watch

Next == \/ \E c \in Caller : Step(c) \/ \E f \in Ops, port \in Requests : Call(c, f, port)
        \/ \E p \in MinPort..MaxPort : OtherProcess(p)

Spec == Init /\ [][Next]_portVars

-----------------------------------------------------------------------------

\* "Could not find an available port" is only said when every port of the range was held by
\* someone at some moment of the call or refused by the system, MaxPort included, which only
\* the sequential phase can reach; another port than the requested one is only given when
\* that one was held or refused; no probe leaves its socket behind, and a listener that was
\* returned is still its caller's, whatever other callers and processes do between the probes
\* (networking/port.go).
PortAnswersAreTrue ==
  \A c \in Caller : pc[c] = "done" =>
     /\ (result[c] = Exhausted /\ op[c] # "ValidateCallbackPort") => MinPort..MaxPort \subseteq busy[c]
     /\ (want[c] \in Port /\ result[c] \in Port \ {want[c]}) => want[c] \in busy[c]
     /\ {p \in Port : tcp[p] = c} = IF op[c] = "FindOrUseListener" THEN {result[c]} \cap Port ELSE {}

=============================================================================
