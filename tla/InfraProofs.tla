----------------------------- MODULE InfraProofs -----------------------------
(***************************************************************************)
(* Theorems about the port searches and the outbound client (Networking)   *)
(* and about the telemetry providers, the recovery middleware, the CEL     *)
(* engine and the Postgres pool (Services), for any callers, ports, hosts, *)
(* users and connections.                                                  *)
(***************************************************************************)
EXTENDS Networking, Services, Sequences, TLAPS

\* The default prover; a leaf with arithmetic or sequences cites SMTT.
USE ZenonT(30)

-----------------------------------------------------------------------------
\* Ports (networking/port.go).

Probing == {"tcp", "tcpClose", "udp", "udpClose"}
Running == Probing \cup {"pick"}
Holder == Caller \cup {Free, Foreign}

\* The types the invariant needs.
PortsTypes ==
  /\ tcp \in [Port -> Holder] /\ udp \in [Port -> Holder]
  /\ op \in [Caller -> Ops] /\ want \in [Caller -> Nat]
  /\ phase \in [Caller -> {"request", "random", "sequential"}]
  /\ cand \in [Caller -> Nat] /\ result \in [Caller -> Nat]
  /\ pc \in [Caller -> Running \cup {"idle", "done"}]
  /\ busy \in [Caller -> SUBSET Port]

\* What a caller holds.
Holds(c) ==
  /\ \A p \in Port : tcp[p] = c => \/ pc[c] = "tcpClose" /\ p = cand[c]
                                   \/ pc[c] = "done" /\ op[c] = "FindOrUseListener" /\ p = result[c]
  /\ \A p \in Port : udp[p] = c => pc[c] = "udpClose" /\ p = cand[c]
  /\ pc[c] = "tcpClose" => tcp[cand[c]] = c
  /\ pc[c] = "udpClose" => udp[cand[c]] = c
  /\ (pc[c] = "done" /\ op[c] = "FindOrUseListener" /\ result[c] \in Port) => tcp[result[c]] = c

\* Where it is in its search, and what it has seen held.
Search(c) ==
  /\ pc[c] \in Probing => cand[c] \in Port /\ (phase[c] = "request" => cand[c] = want[c])
  /\ pc[c] \in Probing \ {"tcp"} => op[c] # "FindOrUseListener"
  /\ pc[c] = "pick" => phase[c] = "random"
  /\ pc[c] \in Running =>
       /\ Held(tcp, udp, c) \subseteq busy[c]
       /\ phase[c] # "request" /\ want[c] \in Port => want[c] \in busy[c]
       /\ phase[c] = "sequential" => MinPort..(cand[c] - 1) \subseteq busy[c]
  /\ pc[c] = "done" =>
       /\ (result[c] = Exhausted /\ op[c] # "ValidateCallbackPort") => MinPort..MaxPort \subseteq busy[c]
       /\ (want[c] \in Port /\ result[c] \in Port \ {want[c]}) => want[c] \in busy[c]

\* The inductive invariant of the port searches.
PortsInv == PortsTypes /\ \A c \in Caller : Holds(c) /\ Search(c)

\* A caller keeps its invariant when its own state and the sockets it holds are left alone:
\* what the others do can only add to what it has seen held.
LEMMA PortsOthers ==
  ASSUME NEW d \in Caller, PortsTypes, Holds(d), Search(d),
         op'[d] = op[d], want'[d] = want[d], phase'[d] = phase[d], cand'[d] = cand[d],
         pc'[d] = pc[d], result'[d] = result[d],
         \A p \in Port : (tcp'[p] = d <=> tcp[p] = d) /\ (udp'[p] = d <=> udp[p] = d),
         \/ busy'[d] = IF pc'[d] \in {"idle", "done"} THEN busy[d] ELSE busy[d] \cup Held(tcp', udp', d)
         \/ busy'[d] = busy[d] /\ tcp' = tcp /\ udp' = udp
  PROVE  Holds(d)' /\ Search(d)'
<1>1. Holds(d)'
  BY SMTT(30) DEF Holds, Search, PortsTypes, Probing
<1>2. busy[d] \subseteq busy'[d] /\ (pc[d] \in Running => Held(tcp', udp', d) \subseteq busy'[d])
  BY DEF Search, PortsTypes, Running, Probing
<1>3. Search(d)'
  BY <1>2 DEF Search, PortsTypes
<1> QED BY <1>1, <1>3

\* A caller that goes on probing the same port, and one that has found its port.
LEMMA PortsProbing ==
  ASSUME NEW c \in Caller, Search(c), pc[c] \in Probing, pc'[c] \in Probing, op[c] # "FindOrUseListener",
         op'[c] = op[c], want'[c] = want[c], phase'[c] = phase[c], cand'[c] = cand[c],
         busy'[c] = busy[c] \cup Held(tcp', udp', c)
  PROVE  Search(c)'
<1>1. pc'[c] # "pick" /\ pc'[c] # "done" /\ pc[c] \in Running
  BY DEF Probing, Running
<1> QED BY <1>1 DEF Search

LEMMA PortsFound ==
  ASSUME NEW c \in Caller, Search(c), pc[c] \in Probing, pc'[c] = "done", result'[c] = cand[c],
         op'[c] = op[c], want'[c] = want[c], busy'[c] = busy[c]
  PROVE  Search(c)'
<1>1. pc'[c] \notin Running /\ pc'[c] \notin Probing /\ pc'[c] # "pick" /\ pc[c] \in Running
  BY DEF Probing, Running
<1>2. 0 \notin Port
  BY SMTT(30) DEF Port
<1> QED BY <1>1, <1>2 DEF Search, Exhausted

\* Nobody searches yet.
LEMMA PortsStart == Init => PortsInv
<1> SUFFICES ASSUME Init PROVE PortsInv OBVIOUS
<1>1. PortsTypes
  BY PortsAssumption DEF Init, PortsTypes, Holder, Port, Ops, Exhausted, Running
<1>2. ASSUME NEW c \in Caller PROVE Holds(c) /\ Search(c)
  BY PortsAssumption DEF Init, Holds, Search, Running, Probing, Port
<1> QED BY <1>1, <1>2 DEF PortsInv

\* A probe that fails has seen its port held or refused, so the caller moves on, or gives up, with that
\* port in busy: the step the completeness of the sequential phase rests on.
LEMMA PortsUnavailable ==
  ASSUME NEW c \in Caller, PortsInv, pc[c] \in {"tcp", "udp"}, Unavailable(c),
         \/ (tcp[cand[c]] # Free \/ udp[cand[c]] # Free) /\ Watch
         \/ busy' = [d \in Caller |-> IF d = c THEN Seen(d) \cup {cand[c]} ELSE Seen(d)],
         UNCHANGED <<tcp, udp, op, want, tries, foreign>>
  PROVE  PortsInv'
<1> USE PortsAssumption
<1>0. PortsTypes /\ Holds(c) /\ Search(c)
  BY DEF PortsInv
<1>1. cand[c] \in busy'[c] /\ busy' \in [Caller -> SUBSET Port]
  <2>1. \A d \in Caller : Seen(d) \in SUBSET Port /\ busy[d] \subseteq Seen(d)
    BY <1>0 DEF PortsTypes, Seen, Held
  <2>2. cand[c] \in Port
    BY <1>0 DEF Search, Probing
  <2>3. CASE (tcp[cand[c]] # Free \/ udp[cand[c]] # Free) /\ Watch
    <3>1. cand[c] \in busy[c]
      BY <1>0, <2>3 DEF Holds, Search, PortsTypes, Running, Probing, Held, Holder
    <3> QED BY <2>1, <2>3, <3>1 DEF Watch, Seen
  <2>4. CASE busy' = [d \in Caller |-> IF d = c THEN Seen(d) \cup {cand[c]} ELSE Seen(d)]
    BY <2>1, <2>2, <2>4
  <2> QED BY <2>3, <2>4
<1>2. PortsTypes'
  BY <1>0, <1>1, SMTT(30) DEF PortsTypes, Unavailable, Sequential, Return, Go, Exhausted, Running, Probing
<1>3. Holds(c)'
  BY <1>0, SMTT(30) DEF PortsTypes, Holds, Unavailable, Sequential, Return, Go, Exhausted, Port, Running, Probing
<1>4. busy[c] \subseteq busy'[c] /\ (pc'[c] \in Running => Held(tcp', udp', c) \subseteq busy'[c])
  BY <1>0 DEF Watch, Seen, Running, Probing
<1>5. Search(c)'
  <2>1. CASE phase[c] = "request" /\ op[c] = "ValidateCallbackPort"
    BY <1>0, <1>2, <1>4, <2>1, SMTT(30) DEF PortsTypes, Search, Unavailable, Return, Go, Exhausted, Port, Running, Probing
  <2>2. CASE phase[c] = "request" /\ op[c] # "ValidateCallbackPort"
    BY <1>0, <1>1, <1>2, <1>4, <2>2 DEF PortsTypes, Search, Unavailable, Return, Go, Exhausted, Port, Running, Probing
  <2>3. CASE phase[c] = "random"
    BY <1>0, <1>1, <1>2, <1>4, <2>3 DEF PortsTypes, Search, Unavailable, Return, Go, Exhausted, Port, Running, Probing
  <2>4. CASE phase[c] = "sequential"
    <3>0. Sequential(c) /\ phase' = phase
      BY <2>4 DEF Unavailable
    <3>1. MinPort..cand[c] \subseteq busy'[c] /\ cand[c] \in 1..MaxPort
      BY <1>0, <1>1, <1>4, <2>4, SMTT(30) DEF Search, PortsTypes, Running, Probing, Port
    <3>2. CASE cand[c] < MaxPort
      BY <1>0, <1>2, <1>4, <2>4, <3>0, <3>1, <3>2, SMTT(30) DEF PortsTypes, Search, Sequential, Go, Port, Running, Probing
    <3>3. CASE cand[c] = MaxPort
      BY <1>0, <1>2, <1>4, <2>4, <3>0, <3>1, <3>3, SMTT(30) DEF PortsTypes, Search, Sequential, Return, Go, Exhausted, Port, Running, Probing
    <3> QED BY <3>1, <3>2, <3>3, SMTT(30)
  <2> QED BY <2>1, <2>2, <2>3, <2>4, <1>0 DEF PortsTypes
<1>6. ASSUME NEW d \in Caller, d # c PROVE Holds(d)' /\ Search(d)'
  <2>1. Holds(d) /\ Search(d)
    BY DEF PortsInv
  <2>2. phase'[d] = phase[d] /\ cand'[d] = cand[d] /\ pc'[d] = pc[d] /\ result'[d] = result[d]
    BY <1>0, <1>6 DEF PortsTypes, Unavailable, Sequential, Return, Go
  <2>3. busy'[d] = IF pc'[d] \in {"idle", "done"} THEN busy[d] ELSE busy[d] \cup Held(tcp', udp', d)
    BY <1>6 DEF Watch, Seen
  <2> QED BY <1>0, <2>1, <2>2, <2>3, PortsOthers
<1> QED BY <1>2, <1>3, <1>5, <1>6 DEF PortsInv

\* A call that is refused, answered at once or started.
LEMMA PortsCall ==
  ASSUME NEW c \in Caller, NEW f \in Ops, NEW port \in Requests, PortsInv, Call(c, f, port)
  PROVE  PortsInv'
<1> USE PortsAssumption
<1>0. PortsTypes /\ Holds(c) /\ Search(c)
  BY DEF PortsInv
<1>1. PortsTypes'
  <2>1. Held(tcp, udp, c) \in SUBSET Port
    BY DEF Held
  <2>2. op' \in [Caller -> Ops] /\ want' \in [Caller -> Nat] /\ busy' \in [Caller -> SUBSET Port]
    BY <1>0, <2>1 DEF PortsTypes, Call
  <2>3. /\ phase' \in [Caller -> {"request", "random", "sequential"}] /\ cand' \in [Caller -> Nat]
        /\ result' \in [Caller -> Nat] /\ pc' \in [Caller -> Running \cup {"idle", "done"}]
    BY <1>0, SMTT(30) DEF PortsTypes, Call, Return, Go, Invalid, Running, Probing
  <2> QED BY <1>0, <2>2, <2>3 DEF PortsTypes, Call
<1>2. Holds(c)'
  BY <1>0, SMTT(30) DEF PortsTypes, Holds, Call, Return, Go, Invalid, Port, Running, Probing
<1>3. Search(c)'
  BY <1>0, <1>1, SMTT(30) DEF PortsTypes, Search, Call, Refused, Return, Go, Invalid, Exhausted, Port, Running, Probing
<1>4. ASSUME NEW d \in Caller, d # c PROVE Holds(d)' /\ Search(d)'
  BY <1>0, <1>4, PortsOthers, ZenonT(30) DEF PortsInv, PortsTypes, Call, Return, Go
<1> QED BY <1>1, <1>2, <1>3, <1>4 DEF PortsInv
\* The steps of a search, one case per action.
LEMMA PortsSteps ==
  ASSUME NEW c \in Caller, PortsInv, Step(c)
  PROVE  PortsInv'
<1> USE PortsAssumption
<1>0. PortsTypes /\ Holds(c) /\ Search(c) /\ \A d \in Caller : Holds(d) /\ Search(d)
  BY DEF PortsInv
<1>seen. Watch /\ pc' \in [Caller -> Running \cup {"idle", "done"}] => busy' \in [Caller -> SUBSET Port]
  BY <1>0, SMTT(30) DEF Watch, Seen, Held, PortsTypes
<1>1. CASE NotPreRegistered(c)
  <2>1. PortsTypes'
    BY <1>0, <1>1, <1>seen DEF PortsTypes, NotPreRegistered, Return, Go, call, Running
  <2>held. Holds(c)'
    BY <1>0, <1>1, SMTT(30) DEF PortsTypes, Holds, Search, NotPreRegistered, Return, Go, call, Port, Running, Probing
  <2>2. Search(c)'
    <3>1. /\ pc[c] \in Probing /\ pc'[c] = "done" /\ result'[c] = cand[c]
          /\ op'[c] = op[c] /\ want'[c] = want[c] /\ busy'[c] = busy[c]
      BY <1>0, <1>1 DEF PortsTypes, NotPreRegistered, Return, Go, call, Watch, Seen, Probing
    <3> QED BY <1>0, <3>1, PortsFound
  <2>3. ASSUME NEW d \in Caller, d # c PROVE Holds(d)' /\ Search(d)'
    BY <1>0, <1>1, <2>3, PortsOthers DEF PortsTypes, NotPreRegistered, Return, Go, call, Watch, Seen
  <2> QED BY <2>1, <2>2, <2>3, <2>held DEF PortsInv
<1>2. CASE PickRandom(c)
  <2>1. PortsTypes'
    BY <1>0, <1>2, <1>seen, SMTT(30) DEF PortsTypes, PickRandom, Go, call, Running, Probing
  <2>2. PICK p \in MinPort..(MaxPort - 1) : cand' = [cand EXCEPT ![c] = p]
    BY <1>2 DEF PickRandom
  <2>held. Holds(c)'
    BY <1>0, <1>2, <2>2, SMTT(30) DEF PortsTypes, Holds, Search, PickRandom, Go, call, Port, Running, Probing
  <2>4. Search(c)'
    BY <1>0, <1>2, <2>2, SMTT(30) DEF PortsTypes, Search, PickRandom, Go, call, Watch, Seen, Exhausted, Port, Running, Probing
  <2>3. ASSUME NEW d \in Caller, d # c PROVE Holds(d)' /\ Search(d)'
    BY <1>0, <1>2, <2>3, PortsOthers DEF PortsTypes, PickRandom, Go, call, Watch, Seen
  <2> QED BY <2>1, <2>3, <2>4, <2>held DEF PortsInv
<1>3. CASE StartSequential(c)
  <2>1. PortsTypes'
    BY <1>0, <1>3, <1>seen DEF PortsTypes, StartSequential, Go, call, Running, Probing
  <2>held. Holds(c)'
    BY <1>0, <1>3, SMTT(30) DEF PortsTypes, Holds, Search, StartSequential, Go, call, Port, Running, Probing
  <2>2. Search(c)'
    BY <1>0, <1>3, SMTT(30) DEF PortsTypes, Search, StartSequential, Go, call, Watch, Seen, Exhausted, Port, Running, Probing
  <2>3. ASSUME NEW d \in Caller, d # c PROVE Holds(d)' /\ Search(d)'
    BY <1>0, <1>3, <2>3, PortsOthers DEF PortsTypes, StartSequential, Go, call, Watch, Seen
  <2> QED BY <2>1, <2>2, <2>3, <2>held DEF PortsInv
<1>4. CASE ProbeTCP(c)
  <2>0. pc[c] = "tcp" /\ cand[c] \in Port
    BY <1>0, <1>4 DEF ProbeTCP, Search, Probing
  <2>1. CASE tcp[cand[c]] # Free
    BY <1>4, <2>0, <2>1, PortsUnavailable DEF ProbeTCP, tryListenTCP, call
  <2>2. CASE tcp[cand[c]] = Free
    <3>1. PortsTypes'
      BY <1>0, <1>4, <2>0, <2>2, <1>seen, SMTT(30) DEF PortsTypes, ProbeTCP, tryListenTCP, Return, Go, call, Holder, Running, Probing
    <3>2. Holds(c)'
      BY <1>0, <1>4, <2>0, <2>2, SMTT(30) DEF PortsTypes, Holds, ProbeTCP, tryListenTCP, Return, Go, call, Port
    <3>3. Search(c)'
      <4>0. op'[c] = op[c] /\ want'[c] = want[c] /\ phase'[c] = phase[c] /\ cand'[c] = cand[c]
        BY <1>4, <2>2 DEF ProbeTCP, tryListenTCP, call
      <4>1. CASE op[c] = "FindOrUseListener"
        <5>1. pc'[c] = "done" /\ result'[c] = cand[c]
          BY <1>0, <1>4, <2>2, <4>1 DEF PortsTypes, ProbeTCP, tryListenTCP, Return, Go
        <5>2. busy'[c] = busy[c]
          BY <1>4, <5>1 DEF ProbeTCP, Watch, Seen
        <5> QED BY <1>0, <2>0, <4>0, <5>1, <5>2, PortsFound DEF Probing
      <4>2. CASE op[c] # "FindOrUseListener"
        <5>1. pc'[c] = "tcpClose"
          BY <1>0, <1>4, <2>2, <4>2 DEF PortsTypes, ProbeTCP, tryListenTCP, Go
        <5>2. busy'[c] = busy[c] \cup Held(tcp', udp', c)
          BY <1>4, <5>1 DEF ProbeTCP, Watch, Seen
        <5> QED BY <1>0, <2>0, <4>0, <4>2, <5>1, <5>2, PortsProbing DEF Probing
      <4> QED BY <4>1, <4>2
    <3>4. ASSUME NEW d \in Caller, d # c PROVE Holds(d)' /\ Search(d)'
      <4>1. /\ op'[d] = op[d] /\ want'[d] = want[d] /\ phase'[d] = phase[d] /\ cand'[d] = cand[d]
            /\ pc'[d] = pc[d] /\ result'[d] = result[d]
            /\ busy'[d] = IF pc'[d] \in {"idle", "done"} THEN busy[d] ELSE busy[d] \cup Held(tcp', udp', d)
        BY <1>0, <1>4, <2>2, <3>4, SMTT(30) DEF PortsTypes, ProbeTCP, tryListenTCP, Return, Go, call, Watch, Seen
      <4>2. \A p \in Port : (tcp'[p] = d <=> tcp[p] = d) /\ (udp'[p] = d <=> udp[p] = d)
        BY <1>0, <1>4, <2>0, <2>2, <3>4 DEF PortsTypes, ProbeTCP, tryListenTCP
      <4> QED BY <1>0, <4>1, <4>2, PortsOthers
    <3> QED BY <3>1, <3>2, <3>3, <3>4 DEF PortsInv
  <2> QED BY <2>1, <2>2
<1>5. CASE CloseTCP(c)
  <2>0. pc[c] = "tcpClose" /\ cand[c] \in Port
    BY <1>0, <1>5 DEF CloseTCP, Search, Probing
  <2>1. PortsTypes'
    BY <1>0, <1>5, <2>0, <1>seen DEF PortsTypes, CloseTCP, Go, call, Holder, Running, Probing
  <2>held. Holds(c)'
    BY <1>0, <1>5, <2>0, SMTT(30) DEF PortsTypes, Holds, CloseTCP, Go, call
  <2>2. Search(c)'
    <3>1. /\ pc'[c] = "udp" /\ busy'[c] = busy[c] \cup Held(tcp', udp', c)
          /\ op'[c] = op[c] /\ want'[c] = want[c] /\ phase'[c] = phase[c] /\ cand'[c] = cand[c]
      BY <1>0, <1>5 DEF PortsTypes, CloseTCP, Go, call, Watch, Seen
    <3>2. pc[c] \in Probing /\ pc'[c] \in Probing /\ op[c] # "FindOrUseListener"
      BY <1>0, <2>0, <3>1 DEF Search, Probing
    <3> QED BY <1>0, <3>1, <3>2, PortsProbing
  <2>3. ASSUME NEW d \in Caller, d # c PROVE Holds(d)' /\ Search(d)'
    <3>1. tcp[cand[c]] # d
      BY <1>0, <2>0, <2>3 DEF Holds
    <3> QED BY <1>0, <1>5, <2>0, <2>3, <3>1, PortsOthers DEF PortsTypes, CloseTCP, Go, call, Watch, Seen
  <2> QED BY <2>1, <2>2, <2>3, <2>held DEF PortsInv
<1>6. CASE ProbeUDP(c)
  <2>0. pc[c] = "udp" /\ cand[c] \in Port
    BY <1>0, <1>6 DEF ProbeUDP, Search, Probing
  <2>1. CASE udp[cand[c]] # Free
    BY <1>6, <2>0, <2>1, PortsUnavailable DEF ProbeUDP, call
  <2>2. CASE udp[cand[c]] = Free
    <3>1. PortsTypes'
      BY <1>0, <1>6, <2>0, <2>2, <1>seen, SMTT(30) DEF PortsTypes, ProbeUDP, Go, call, Holder, Running, Probing
    <3>held. Holds(c)'
      BY <1>0, <1>6, <2>0, <2>2, SMTT(30) DEF PortsTypes, Holds, ProbeUDP, Go, call
    <3>2. Search(c)'
      <4>1. /\ pc'[c] = "udpClose" /\ busy'[c] = busy[c] \cup Held(tcp', udp', c)
            /\ op'[c] = op[c] /\ want'[c] = want[c] /\ phase'[c] = phase[c] /\ cand'[c] = cand[c]
        BY <1>0, <1>6, <2>2 DEF PortsTypes, ProbeUDP, Go, call, Watch, Seen
      <4>2. pc[c] \in Probing /\ pc'[c] \in Probing /\ op[c] # "FindOrUseListener"
        BY <1>0, <2>0, <4>1 DEF Search, Probing
      <4> QED BY <1>0, <4>1, <4>2, PortsProbing
    <3>3. ASSUME NEW d \in Caller, d # c PROVE Holds(d)' /\ Search(d)'
      BY <1>0, <1>6, <2>0, <2>2, <3>3, PortsOthers DEF PortsTypes, ProbeUDP, Go, call, Watch, Seen
    <3> QED BY <3>1, <3>2, <3>3, <3>held DEF PortsInv
  <2> QED BY <2>1, <2>2
<1>7. CASE CloseUDP(c)
  <2>0. pc[c] = "udpClose" /\ cand[c] \in Port
    BY <1>0, <1>7 DEF CloseUDP, Search, Probing
  <2>1. PortsTypes'
    BY <1>0, <1>7, <2>0, <1>seen DEF PortsTypes, CloseUDP, Return, Go, call, Holder, Running, Probing
  <2>held. Holds(c)'
    BY <1>0, <1>7, <2>0, SMTT(30) DEF PortsTypes, Holds, Search, Probing, CloseUDP, Return, Go, call
  <2>2. Search(c)'
    <3>1. /\ pc[c] \in Probing /\ pc'[c] = "done" /\ result'[c] = cand[c]
          /\ op'[c] = op[c] /\ want'[c] = want[c] /\ busy'[c] = busy[c]
      BY <1>0, <1>7 DEF PortsTypes, CloseUDP, Return, Go, call, Watch, Seen, Probing
    <3> QED BY <1>0, <3>1, PortsFound
  <2>3. ASSUME NEW d \in Caller, d # c PROVE Holds(d)' /\ Search(d)'
    <3>1. udp[cand[c]] # d
      BY <1>0, <2>0, <2>3 DEF Holds
    <3> QED BY <1>0, <1>7, <2>0, <2>3, <3>1, PortsOthers DEF PortsTypes, CloseUDP, Return, Go, call, Watch, Seen
  <2> QED BY <2>1, <2>2, <2>3, <2>held DEF PortsInv
<1>8. CASE BindRefused(c)
  BY <1>8, PortsUnavailable DEF BindRefused, call
<1> QED BY <1>1, <1>2, <1>3, <1>4, <1>5, <1>6, <1>7, <1>8 DEF Step

\* Other processes take and release ports, never a caller's socket.
LEMMA PortsOtherProcess ==
  ASSUME NEW q \in MinPort..MaxPort, PortsInv, OtherProcess(q)
  PROVE  PortsInv'
<1> USE PortsAssumption
<1>0. PortsTypes /\ (\A d \in Caller : Holds(d) /\ Search(d)) /\ q \in Port
  BY SMTT(30) DEF PortsInv, Port
<1>1. \A h \in Holder : Toggle(h) \in Holder /\ \A d \in Caller : Toggle(h) = d <=> h = d
  BY DEF Toggle, Holder
<1>2. PortsTypes'
  BY <1>0, <1>1, SMTT(30) DEF PortsTypes, OtherProcess, call, Watch, Seen, Held
<1>3. ASSUME NEW d \in Caller PROVE Holds(d)' /\ Search(d)'
  <2>1. \A p \in Port : (tcp'[p] = d <=> tcp[p] = d) /\ (udp'[p] = d <=> udp[p] = d)
    BY <1>0, <1>1, SMTT(30) DEF PortsTypes, OtherProcess
  <2> QED BY <1>0, <2>1, PortsOthers DEF OtherProcess, call, Watch, Seen
<1> QED BY <1>2, <1>3 DEF PortsInv

\* The answers of port searches are true, for any callers, range of ports and
\* requests, and however often other processes bind and release
\* (networking/port.go).
THEOREM PortAnswersHold == Spec => []PortAnswersAreTrue
<1>1. PortsInv /\ [Next]_portVars => PortsInv'
  <2> SUFFICES ASSUME PortsInv, [Next]_portVars PROVE PortsInv'
    OBVIOUS
  <2>1. CASE UNCHANGED portVars
    <3>1. PortsTypes'
      BY <2>1 DEF portVars, PortsInv, PortsTypes
    <3>2. ASSUME NEW c \in Caller PROVE Holds(c)' /\ Search(c)'
      BY <2>1, PortsOthers DEF portVars, PortsInv
    <3> QED BY <3>1, <3>2 DEF PortsInv
  <2>2. CASE Next
    BY <2>2, PortsSteps, PortsCall, PortsOtherProcess DEF Next
  <2> QED BY <2>1, <2>2
<1>2. PortsInv => PortAnswersAreTrue
  BY SMTT(30) DEF PortAnswersAreTrue, PortAnswersAreTrue, PortsInv, PortsTypes, Holds, Search
<1> QED BY <1>1, <1>2, PortsStart, PTL DEF Spec

-----------------------------------------------------------------------------
\* OutboundHTTP (networking/http_client.go).

\* What a built client allows was opened by the caller or the environment; a guarded client
\* keeps no connection, so each of its hops passes the dialer; and a request with a token is
\* at the original's host already before it is sent.
HTTPInv ==
  /\ builder \in H!Builder /\ envVar \in BOOLEAN /\ envEver \in BOOLEAN /\ (envVar => envEver)
  /\ stage \in {"send", "answered"} => client.made = "ok"
  /\ client.made = "ok" => /\ client.http => H!PlainHTTPOpened
                           /\ client.guarded \/ H!PrivateOpened
                           /\ client.keepAlive => ~client.guarded
                           /\ idleConns # {} => ~client.guarded
  /\ client.made # "ok" => idleConns = {}
  /\ (stage \in {"send", "answered"} /\ client.token) =>
       /\ cur.host = original.host
       /\ original.scheme = "https" => cur.scheme = "https"
  /\ HopsStayGuarded

\* Build opens no more than the caller and the environment did.
LEMMA HTTPBuild == HTTPInv /\ H!Build => HTTPInv'
<1> SUFFICES ASSUME HTTPInv, H!Build PROVE HTTPInv'
  OBVIOUS
<1> USE DEF HTTPInv, HopsStayGuarded, H!HopsStayGuarded, H!OnTheWire, H!PlainHTTPOpened, H!PrivateOpened
<1>0. stage \notin {"send", "answered"} /\ idleConns = {} /\ UNCHANGED <<builder, envVar, envEver, stage, idleConns, cur, original, reached>>
  BY DEF H!Build
<1>1. CASE client' = [made |-> "failed"]
  BY <1>0, <1>1
<1>2. CASE builder.scoped /\ builder.token # "unreadable"
  <2>1. client' = [made |-> "ok", http |-> builder.local \/ builder.http \/ envVar,
                   guarded |-> ~(builder.local \/ builder.http \/ envVar \/ builder.private),
                   keepAlive |-> builder.local \/ builder.http \/ envVar \/ builder.private,
                   token |-> builder.token = "good"]
    BY <1>2 DEF H!Build, H!NewHostScopedClientBuilder
  <2>2. /\ client'.made = "ok"
        /\ client'.http <=> (builder.local \/ builder.http \/ envVar)
        /\ client'.guarded <=> ~(builder.local \/ builder.http \/ envVar \/ builder.private)
        /\ client'.keepAlive <=> (builder.local \/ builder.http \/ envVar \/ builder.private)
    BY <2>1
  <2> QED BY <1>0, <1>2, <2>2
<1>3. CASE ~builder.scoped /\ builder.token # "unreadable"
  <2>1. client' = [made |-> "ok", http |-> builder.http, guarded |-> ~builder.private,
                   keepAlive |-> builder.private, token |-> builder.token = "good"]
    BY <1>3 DEF H!Build
  <2>2. /\ client'.made = "ok"
        /\ client'.http <=> builder.http
        /\ client'.guarded <=> ~builder.private
        /\ client'.keepAlive <=> builder.private
    BY <2>1 DEF H!Builder
  <2> QED BY <1>0, <1>3, <2>2
<1> QED BY <1>1, <1>2, <1>3 DEF H!Build

\* A hop over a kept connection, and one that is dialled.
LEMMA HTTPSend == HTTPInv /\ H!Send => HTTPInv'
<1> SUFFICES ASSUME HTTPInv, H!Send PROVE HTTPInv'
  OBVIOUS
<1> USE DEF HTTPInv, HopsStayGuarded, H!HopsStayGuarded, H!OnTheWire, H!PlainHTTPOpened, H!PrivateOpened
<1>0. /\ stage = "send" /\ client.made = "ok"
      /\ UNCHANGED <<builder, client, envVar, envEver, dns, original, cur>>
  BY DEF H!Send
<1>1. CASE stage' = "done" /\ UNCHANGED idleConns
  BY <1>0, <1>1
<1>2. CASE H!RoundTrip(cur) /\ H!Pooled # {}
  <2>1. stage' = "answered" /\ UNCHANGED idleConns /\ idleConns # {}
    BY <1>2 DEF H!Send, H!Pooled
  <2>2. H!PrivateOpened /\ (H!PlainHTTPOpened \/ cur.scheme = "https")
    BY <1>0, <1>2, <2>1 DEF H!RoundTrip
  <2> QED BY <1>0, <2>1, <2>2
<1>3. CASE H!RoundTrip(cur) /\ H!Pooled = {} /\ H!protectedDialerControl(dns[cur.host.name])
  <2>1. /\ stage' = "answered" /\ reached' = dns[cur.host.name]
        /\ idleConns' = IF client.keepAlive THEN {[to |-> cur, addr |-> dns[cur.host.name]]} ELSE {}
    BY <1>3 DEF H!Send
  <2>2. H!PrivateOpened \/ reached' = "public"
    BY <1>0, <1>3, <2>1 DEF H!protectedDialerControl
  <2>3. H!PlainHTTPOpened \/ cur.scheme = "https"
    BY <1>0, <1>3, ZenonT(30) DEF H!RoundTrip
  <2> QED BY <1>0, <2>1, <2>2, <2>3
<1> QED BY <1>1, <1>2, <1>3 DEF H!Send, H!Finish

\* The other steps: redirects are judged against the original request.
LEMMA HTTPSteps == HTTPInv /\ [H!Next]_H!httpVars => HTTPInv'
<1> SUFFICES ASSUME HTTPInv, [H!Next]_H!httpVars PROVE HTTPInv'
  OBVIOUS
<1> USE DEF HTTPInv, HopsStayGuarded, H!HopsStayGuarded, H!OnTheWire, H!PlainHTTPOpened, H!PrivateOpened
<1>1. CASE UNCHANGED H!httpVars
  BY <1>1 DEF H!httpVars
<1>2. CASE H!BuildFailsOnCA
  BY <1>2 DEF H!BuildFailsOnCA
<1>3. CASE H!NetworkError
  BY <1>3 DEF H!NetworkError, H!Finish
<1>4. CASE H!Setenv
  BY <1>4 DEF H!Setenv
<1>5. ASSUME NEW u \in H!URL, H!Do(u) PROVE HTTPInv'
  BY <1>5 DEF H!Do
<1>6. ASSUME NEW u \in H!URL, H!Redirect(u) PROVE HTTPInv'
  BY <1>6 DEF H!Redirect, H!SameHostRedirectPolicy, H!Finish
<1>7. ASSUME NEW r \in H!Response, H!Answer(r) PROVE HTTPInv'
  BY <1>7 DEF H!Answer, H!Finish
<1>8. ASSUME NEW n \in H!Name, H!Rebind(n) PROVE HTTPInv'
  BY <1>8, SMTT(30) DEF H!Rebind
<1> QED BY <1>1, <1>2, <1>3, <1>4, <1>5, <1>6, <1>7, <1>8, HTTPBuild, HTTPSend, ZenonT(30) DEF H!Next

\* The invariant holds always.
LEMMA HTTPInvariant == H!Spec => []HTTPInv
<1>1. H!Init => HTTPInv
  <2> SUFFICES ASSUME H!Init PROVE HTTPInv
    OBVIOUS
  <2>1. /\ builder \in H!Builder /\ envVar = FALSE /\ envEver = FALSE /\ client.made = "none"
        /\ idleConns = {} /\ stage = "idle"
    BY DEF H!Init
  <2> QED BY <2>1 DEF HTTPInv, HopsStayGuarded, H!HopsStayGuarded, H!OnTheWire
<1> QED BY <1>1, HTTPSteps, PTL DEF H!Spec

\* No hop of a guarded client reaches a private address, and none goes over plain HTTP unless
\* that was opened, for any hosts, redirects and DNS answers (networking/http_client.go,
\* ValidatingTransport and protectedDialerControl).
THEOREM HopsAreGuarded == H!Spec => []HopsStayGuarded
<1>1. HTTPInv => HopsStayGuarded
  BY DEF HTTPInv
<1> QED BY <1>1, HTTPInvariant, PTL

\* The bearer token never leaves the host, the port and the https the caller named
\* (networking/http_client.go, SameHostRedirectPolicy).
THEOREM TokenIsOnHost == H!Spec => []TokenStaysOnHost
<1>1. HTTPInv => TokenStaysOnHost
  BY DEF HTTPInv, TokenStaysOnHost, H!TokenStaysOnHost, H!OnTheWire
<1> QED BY <1>1, HTTPInvariant, PTL

-----------------------------------------------------------------------------
\* A cascade of two checks (Checks) is a nested conditional.
LEMMA FirstOfTwo ==
  ASSUME NEW a \in BOOLEAN, NEW b \in BOOLEAN, NEW x, NEW y, NEW z
  PROVE  T!FirstOf(<< <<a, x>>, <<b, y>> >>, z) = IF a THEN x ELSE IF b THEN y ELSE z
<1> DEFINE checks == << <<a, x>>, <<b, y>> >>
<1>1. DOMAIN checks = {1, 2} /\ checks[1][1] = a /\ checks[1][2] = x /\ checks[2][1] = b /\ checks[2][2] = y
  BY SMTT(30)
<1>2. T!FirstOf(checks, z) = IF a THEN x ELSE IF b THEN y ELSE z
  <2> HIDE DEF checks
  <2> QED BY <1>1, SMTT(30) DEF T!FirstOf
<1> QED BY <1>2

-----------------------------------------------------------------------------
\* Telemetry (telemetry/providers).

\* What a provider may run.
Part == {"otlp metrics", "prometheus", "otlp traces", "processors", "otlp logs"}

\* While providers are built and while they are shut down, each thing that runs is ended by a
\* shutdown function that is still to be called or belongs to one that has failed.
TelemetryInv ==
  /\ shutdowns \in Seq(SUBSET Part) /\ nextDown \in 1..(Len(shutdowns) + 1)
  /\ build # "built" /\ build # "down" => nextDown = 1
  /\ errs \subseteq 1..(nextDown - 1)
  /\ build \in {"options", "metrics", "tracing", "logging", "built"} =>
       \A x \in running : \E i \in (nextDown..Len(shutdowns)) \cup errs : x \in shutdowns[i]
  /\ build = "down" => \A x \in running : \E i \in errs : x \in shutdowns[i]

\* A provider with parts appends the function that ends them.
LEMMA Creates ==
  ASSUME NEW parts \in SUBSET Part, NEW then \in {"tracing", "logging", "built"}, TelemetryInv,
         build \in {"metrics", "tracing", "logging"}, T!Create(parts, then)
  PROVE  TelemetryInv'
<1>1. CASE parts = {}
  BY <1>1 DEF TelemetryInv, T!Create
<1>2. CASE parts # {}
  <2>1. /\ shutdowns' = Append(shutdowns, parts) /\ shutdowns' \in Seq(SUBSET Part)
        /\ Len(shutdowns') = Len(shutdowns) + 1 /\ shutdowns'[Len(shutdowns) + 1] = parts
        /\ \A i \in 1..Len(shutdowns) : shutdowns'[i] = shutdowns[i]
    BY <1>2, SMTT(30) DEF TelemetryInv, T!Create
  <2>2. nextDown = 1 /\ nextDown' = 1 /\ Len(shutdowns) \in Nat /\ errs = {} /\ errs' = {}
    BY SMTT(30) DEF TelemetryInv, T!Create
  <2>3. ASSUME NEW x \in running' PROVE \E i \in 1..Len(shutdowns') : x \in shutdowns'[i]
    <3>1. CASE x \in running
      BY <3>1, <2>1, <2>2, SMTT(30) DEF TelemetryInv
    <3>2. CASE x \in parts
      BY <3>2, <2>1, <2>2, SMTT(30)
    <3> QED BY <3>1, <3>2, <2>3 DEF T!Create
  <2> QED BY <2>1, <2>2, <2>3, SMTT(30) DEF TelemetryInv, T!Create
<1> QED BY <1>1, <1>2

\* One case per action.
LEMMA TelemetrySteps == TelemetryInv /\ [T!Next]_T!teleVars => TelemetryInv'
<1> SUFFICES ASSUME TelemetryInv, [T!Next]_T!teleVars PROVE TelemetryInv'
  OBVIOUS
<1>1. CASE UNCHANGED T!teleVars
  BY <1>1 DEF T!teleVars, TelemetryInv
<1>2. CASE T!Options
  <2>1. build' \in {"failed", "built", "metrics"}
    <3> DEFINE a == ~conf.name
               b == T!IsFullyNoOp(conf)
    <3>1. a \in BOOLEAN /\ b \in BOOLEAN
      BY DEF T!IsFullyNoOp
    <3>2. build' = T!FirstOf(<< <<a, "failed">>, <<b, "built">> >>, "metrics")
      BY <1>2 DEF T!Options
    <3> HIDE DEF a, b
    <3>3. build' = IF a THEN "failed" ELSE IF b THEN "built" ELSE "metrics"
      BY <3>1, <3>2, FirstOfTwo, SMTT(30)
    <3> QED BY <3>3
  <2> QED BY <1>2, <2>1 DEF T!Options, TelemetryInv
<1>3. CASE T!createMetricsProvider
  BY <1>3, Creates DEF T!createMetricsProvider, T!SelectMeterStrategy, Part
<1>4. CASE T!createTracingProvider
  BY <1>4, Creates DEF T!createTracingProvider, T!TracerParts, T!NewTracerProviderWithShutdown, Part
<1>5. CASE T!createLoggingProvider
  BY <1>5, Creates DEF T!createLoggingProvider, T!LoggerParts, T!NewLoggerProviderWithShutdown, Part
<1>6. CASE T!CreateFails
  BY <1>6 DEF T!CreateFails, T!Exporters, TelemetryInv
<1>7. CASE T!Shutdown
  <2>0. /\ build = "built" /\ shutdowns' = shutdowns /\ Len(shutdowns) \in Nat
        /\ nextDown \in Nat /\ nextDown >= 1
        /\ errs \subseteq 1..(nextDown - 1)
    BY <1>7, SMTT(30) DEF T!Shutdown, TelemetryInv
  <2>1. CASE nextDown <= Len(shutdowns)
    <3>1. /\ nextDown' = nextDown + 1 /\ build' = "built" /\ nextDown' \in 1..(Len(shutdowns) + 1)
          /\ errs' \in {errs, errs \cup {nextDown}} /\ running' \subseteq running
      BY <1>7, <2>0, <2>1, SMTT(30) DEF T!Shutdown, T!CallNext
    <3>2. ASSUME NEW x \in running', x \in shutdowns[nextDown] PROVE nextDown \in errs'
      BY <1>7, <2>1, <3>2 DEF T!Shutdown, T!CallNext
    <3>3. ASSUME NEW x \in running'
          PROVE  \E i \in (nextDown'..Len(shutdowns)) \cup errs' : x \in shutdowns[i]
      <4>1. PICK i \in (nextDown..Len(shutdowns)) \cup errs : x \in shutdowns[i]
        BY <2>0, <3>1, <3>3 DEF TelemetryInv
      <4>2. CASE i = nextDown
        BY <3>2, <3>3, <4>1, <4>2
      <4>3. CASE i # nextDown
        <5>1. i \in nextDown..Len(shutdowns) => i \in nextDown'..Len(shutdowns)
          BY <2>0, <3>1, <4>3, SMTT(30)
        <5> QED BY <3>1, <4>1, <5>1
      <4> QED BY <4>2, <4>3
    <3>4. errs' \subseteq 1..(nextDown' - 1)
      <4>1. nextDown' - 1 = nextDown /\ nextDown \in 1..nextDown
        BY <2>0, <3>1, SMTT(30)
      <4>2. \A i : i \in 1..(nextDown - 1) => i \in 1..nextDown
        BY <2>0, SMTT(30)
      <4> QED BY <2>0, <3>1, <4>1, <4>2
    <3> QED BY <2>0, <3>1, <3>3, <3>4 DEF TelemetryInv
  <2>2. CASE ~(nextDown <= Len(shutdowns))
    <3>1. build' = "down" /\ running' = running /\ nextDown' = nextDown /\ errs' = errs
      BY <1>7, <2>2 DEF T!Shutdown
    <3>2. nextDown..Len(shutdowns) = {}
      BY <2>0, <2>2, SMTT(30)
    <3> QED BY <2>0, <3>1, <3>2 DEF TelemetryInv
  <2> QED BY <2>1, <2>2
<1> QED BY <1>1, <1>2, <1>3, <1>4, <1>5, <1>6, <1>7 DEF T!Next

\* When Shutdown has returned, what still runs is in the error it returned, whichever of its
\* functions failed or found the deadline passed (telemetry/providers,
\* CompositeProvider.Shutdown).
THEOREM ShutdownAccounts == T!Spec => []ShutdownAccountsForAll
<1>1. T!Init => TelemetryInv
  BY SMTT(30) DEF T!Init, TelemetryInv
<1>2. TelemetryInv => ShutdownAccountsForAll
  BY DEF TelemetryInv, ShutdownAccountsForAll, T!ShutdownAccountsForAll
<1> QED BY <1>1, <1>2, TelemetrySteps, PTL DEF T!Spec

-----------------------------------------------------------------------------
\* Recovery (recovery/middleware).

\* Until the deferred function has run it has done nothing; a handler that panicked writes no more.
RecoveryInv ==
  /\ body \in Seq({"handler", "recovery"})
  /\ handler = "running" => serverSaw = "nothing"
  /\ serverSaw = "nothing" => effects = <<>> /\ \A i \in DOMAIN body : body[i] # "recovery"
  /\ AbortedIsUntouched

\* A response aborted in flight is left as it was, whatever was written and whichever options are
\* set (recovery.Middleware).
THEOREM AbortedStaysUntouched == R!Spec => []AbortedIsUntouched
<1> USE DEF AbortedIsUntouched, R!AbortedIsUntouched
<1>1. R!Init => RecoveryInv
  BY SMTT(30) DEF R!Init, RecoveryInv
<1>2. RecoveryInv /\ [R!Next]_R!recVars => RecoveryInv'
  <2> SUFFICES ASSUME RecoveryInv, [R!Next]_R!recVars PROVE RecoveryInv'
    OBVIOUS
  <2>1. CASE UNCHANGED R!recVars
    BY <2>1 DEF R!recVars, RecoveryInv
  <2>2. CASE R!HandlerWrites
    BY <2>2, SMTT(30) DEF R!HandlerWrites, R!WriteAs, RecoveryInv
  <2>3. CASE R!HandlerReturns
    BY <2>3 DEF R!HandlerReturns, RecoveryInv
  <2>4. CASE R!Recover
    <3>1. CASE R!isErrAbortHandler(handler)
      BY <2>4, <3>1 DEF R!Recover, R!isErrAbortHandler, R!Panics, RecoveryInv
    <3>2. CASE ~R!isErrAbortHandler(handler)
      <4>1. body' \in Seq({"handler", "recovery"})
        BY <2>4, <3>2, SMTT(30) DEF R!Recover, R!WriteAs, RecoveryInv
      <4>2. handler' \notin {"abort", "wrapped abort", "running"} /\ serverSaw' = "return"
        BY <2>4, <3>2 DEF R!Recover, R!Panics, R!isErrAbortHandler
      <4> QED BY <4>1, <4>2 DEF RecoveryInv
    <3> QED BY <3>1, <3>2
  <2>5. ASSUME NEW v \in R!Panics, R!HandlerPanics(v) PROVE RecoveryInv'
    BY <2>5 DEF R!HandlerPanics, R!Panics, RecoveryInv
  <2> QED BY <2>1, <2>2, <2>3, <2>4, <2>5 DEF R!Next
<1>3. RecoveryInv => AbortedIsUntouched
  BY DEF RecoveryInv
<1> QED BY <1>1, <1>2, <1>3, PTL DEF R!Spec

-----------------------------------------------------------------------------
\* CelEngine (cel/engine.go).

\* The factory runs at most once, and a verdict depends on the expression, the
\* method and the cached environment alone.
Answered(u) ==
  IF expr[u] = "long" THEN verdict[u] = "ErrExpressionCheck"
  ELSE /\ once = "done"
       /\ verdict[u] = IF env = "err" THEN "environment"
                       ELSE IF expr[u] \in {"syntax", "type"} THEN "ErrExpressionCheck"
                       ELSE IF method[u] = "Compile" /\ expr[u] = "program" THEN "program" ELSE "ok"

\* The states of the sync.Once, and where each user is.
CelInv ==
  /\ at \in [User -> {"start", "env", "ready", "done"}]
  /\ verdict \in [User -> {"none", "environment", "ErrExpressionCheck", "program", "ok"}]
  /\ once \in User \cup {Untouched, "done"}
  /\ once = Untouched => made = 0
  /\ once # Untouched => made = 1
  /\ once = "done" => env \in {"ok", "err"}
  /\ \A u \in User : /\ at[u] # "done" => verdict[u] = "none"
                     /\ at[u] \in {"env", "ready"} => expr[u] # "long"
                     /\ at[u] = "ready" => once = "done" /\ env = "ok"
                     /\ at[u] = "done" => Answered(u)

\* The cascade of parse, check and program errors.
LEMMA OutcomeIs ==
  ASSUME NEW u \in User
  PROVE  C!Outcome(u) = IF expr[u] \in {"syntax", "type"} THEN "ErrExpressionCheck"
                        ELSE IF method[u] = "Compile" /\ expr[u] = "program" THEN "program" ELSE "ok"
<1> DEFINE a == expr[u] \in {"syntax", "type"}
           b == method[u] = "Compile" /\ expr[u] = "program"
<1>1. a \in BOOLEAN /\ b \in BOOLEAN
  BY SMTT(30)
<1>2. C!Outcome(u) = C!FirstOf(<< <<a, "ErrExpressionCheck">>, <<b, "program">> >>, "ok")
  BY DEF C!Outcome
<1>3. C!FirstOf(<< <<a, "ErrExpressionCheck">>, <<b, "program">> >>, "ok") =
      T!FirstOf(<< <<a, "ErrExpressionCheck">>, <<b, "program">> >>, "ok")
  BY DEF C!FirstOf, T!FirstOf
<1> HIDE DEF a, b
<1>4. C!Outcome(u) = IF a THEN "ErrExpressionCheck" ELSE IF b THEN "program" ELSE "ok"
  BY <1>1, <1>2, <1>3, FirstOfTwo, SMTT(30)
<1> QED BY <1>4 DEF a, b

\* One case per stage, and one per state of the sync.Once.
LEMMA CelSteps == CelInv /\ [C!Next]_C!celVars => CelInv'
<1> SUFFICES ASSUME CelInv, [C!Next]_C!celVars PROVE CelInv'
  OBVIOUS
<1> USE CelAssumption
<1>1. CASE UNCHANGED C!celVars
  BY <1>1 DEF C!celVars, CelInv, Answered
<1>2. ASSUME NEW u \in User, C!Start(u) PROVE CelInv'
  BY <1>2, SMTT(30) DEF C!Start, C!Measure, C!Finish, CelInv, Answered
<1>3. ASSUME NEW u \in User, C!Environment(u) PROVE CelInv'
  <2>1. CASE once = Untouched /\ once' = u /\ made' = made + 1 /\ UNCHANGED <<env, at, verdict>>
    BY <1>3, <2>1, SMTT(30) DEF C!Environment, CelInv, Answered
  <2>2. CASE once = u /\ env' \in {"ok", "err"} /\ once' = "done" /\ UNCHANGED <<at, verdict, made>>
    BY <1>3, <2>2 DEF C!Environment, CelInv, Answered
  <2>3. CASE once = "done" /\ env = "err" /\ C!Finish(u, "environment") /\ UNCHANGED <<once, env, made>>
    BY <1>3, <2>3 DEF C!Environment, C!Finish, CelInv, Answered
  <2>4. CASE once = "done" /\ env = "ok" /\ at' = [at EXCEPT ![u] = "ready"] /\ UNCHANGED <<verdict, once, env, made>>
    BY <1>3, <2>4 DEF C!Environment, CelInv, Answered
  <2> QED BY <1>3, <2>1, <2>2, <2>3, <2>4 DEF C!Environment, C!getEnv
<1>4. ASSUME NEW u \in User, C!Finishes(u) PROVE CelInv'
  <2>1. /\ at[u] = "ready" /\ at' = [at EXCEPT ![u] = "done"] /\ UNCHANGED <<expr, method, once, env, made>>
        /\ verdict' = [verdict EXCEPT ![u] = C!Outcome(u)]
    BY <1>4 DEF C!Finishes, C!Finish
  <2> QED BY <2>1, OutcomeIs, SMTT(30) DEF CelInv, Answered
<1> QED BY <1>1, <1>2, <1>3, <1>4 DEF C!Next

\* Any number of callers of one engine, in any interleaving, agree; the environment is made at
\* most once (cel.Engine, getEnv).
THEOREM CelCallersAgree == C!Spec => []CallersAgree
<1>1. C!Init => CelInv
  BY CelAssumption DEF C!Init, CelInv
<1>2. CelInv => CallersAgree
  <2> SUFFICES ASSUME CelInv PROVE CallersAgree
    OBVIOUS
  <2>1. made <= 1
    BY SMTT(30) DEF CelInv
  <2>2. ASSUME NEW u \in User, NEW w \in User, verdict[u] = "environment" PROVE verdict[w] \notin {"ok", "program"}
    BY <2>2 DEF CelInv, Answered
  <2>3. ASSUME NEW u \in User, NEW w \in User, expr[u] = expr[w], at[u] = "done", at[w] = "done",
               method[u] = "Check", method[w] = "Compile"
        PROVE  /\ verdict[u] = "ok" => verdict[w] \in {"ok", "program"}
               /\ verdict[u] = "ErrExpressionCheck" <=> verdict[w] = "ErrExpressionCheck"
    BY <2>3 DEF CelInv, Answered
  <2> QED BY <2>1, <2>2, <2>3 DEF CallersAgree, C!CallersAgree
<1> QED BY <1>1, <1>2, CelSteps, PTL DEF C!Spec

-----------------------------------------------------------------------------
\* PostgresPool (postgres).

\* A dial in progress presents a token that is still good.
PostgresInv ==
  /\ clock \in Nat /\ signedAt \in [Connection -> Nat]
  /\ conn \in [Connection -> {"none", "dialling", "open"}]
  /\ \A c \in Connection : conn[c] = "dialling" => pool = "open" /\ ~G!Expired(c)

\* No connection is turned away for an expired token, for any lifetime of tokens and any number
\* of connections (postgres, the dynamic-auth BeforeConnect hook).
THEOREM TokensStayFresh == G!Spec => []TokensNeverExpire
<1>1. G!Init => PostgresInv
  BY SMTT(30) DEF G!Init, PostgresInv
<1>2. PostgresInv /\ [G!Next]_G!pgVars => PostgresInv'
  <2> SUFFICES ASSUME PostgresInv, [G!Next]_G!pgVars PROVE PostgresInv'
    OBVIOUS
  <2> USE PostgresAssumption DEF PostgresInv, G!Expired
  <2>1. CASE UNCHANGED G!pgVars
    BY <2>1 DEF G!pgVars
  <2>2. CASE G!NewPool
    BY <2>2 DEF G!NewPool
  <2>3. CASE G!Pass
    BY <2>3, SMTT(30) DEF G!Pass
  <2>4. ASSUME NEW c \in Connection, G!Connect(c) PROVE PostgresInv'
    BY <2>4, SMTT(30) DEF G!Connect, G!BeforeConnect
  <2>5. ASSUME NEW c \in Connection, G!Authenticate(c) PROVE PostgresInv'
    BY <2>5 DEF G!Authenticate
  <2>6. ASSUME NEW c \in Connection, G!Disconnect(c) PROVE PostgresInv'
    BY <2>6 DEF G!Disconnect
  <2> QED BY <2>1, <2>2, <2>3, <2>4, <2>5, <2>6 DEF G!Next
<1>3. PostgresInv => TokensNeverExpire
  BY DEF PostgresInv, TokensNeverExpire, G!TokensNeverExpire
<1> QED BY <1>1, <1>2, <1>3, PTL DEF G!Spec

=============================================================================
