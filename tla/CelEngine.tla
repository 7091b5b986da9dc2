------------------------------ MODULE CelEngine ------------------------------
(***************************************************************************)
(* cel.Engine shared by goroutines: Compile and Check measure the          *)
(* expression, obtain the lazily created environment through a sync.Once,  *)
(* then parse, type-check and (Compile) make the program; the outcome of   *)
(* each stage is a property of the expression (cel-go).                    *)
(***************************************************************************)
EXTENDS Naturals, FiniteSets, Checks

CONSTANTS User, Untouched

VARIABLES expr,     \* user -> what is wrong with its expression, "fine" for nothing
          method,   \* user -> "Compile" or "Check"
          at,       \* user -> "start", "env", "ready" or "done"
          verdict,  \* user -> outcome
          once,     \* Untouched, the user that runs the factory, or "done"
          env,      \* "none", "ok" or "err", the cached pair
          made      \* number of factory calls

celVars == <<expr, method, at, verdict, once, env, made>>

Flaw == {"long", "syntax", "type", "program", "fine"}

Init == /\ expr \in [User -> Flaw] /\ method \in [User -> {"Compile", "Check"}]
        /\ at = [u \in User |-> "start"] /\ verdict = [u \in User |-> "none"]
        /\ once = Untouched /\ env = "none" /\ made = 0

Finish(u, v) == at' = [at EXCEPT ![u] = "done"] /\ verdict' = [verdict EXCEPT ![u] = v]

\* The length check comes before the environment is touched.
Measure(u) == IF expr[u] = "long" THEN Finish(u, "ErrExpressionCheck")
              ELSE at' = [at EXCEPT ![u] = "env"] /\ UNCHANGED verdict

Start(u) == at[u] = "start" /\ Measure(u) /\ UNCHANGED <<expr, method, once, env, made>>

NilChecked(u) ==
  \/ env = "none" /\ once' = u /\ made' = made + 1 /\ UNCHANGED <<env, at, verdict>>
  \/ once = u /\ env' \in {"ok", "err"} /\ once' = "done" /\ UNCHANGED <<at, verdict, made>>
  \/ env = "err" /\ Finish(u, "environment") /\ UNCHANGED <<once, env, made>>
  \/ env = "ok" /\ at' = [at EXCEPT ![u] = "ready"] /\ UNCHANGED <<verdict, once, env, made>>

\* sync.Once: the first user runs the factory, later ones wait for it; its error is kept.
getEnv(u) ==
  \/ once = Untouched /\ once' = u /\ made' = made + 1 /\ UNCHANGED <<env, at, verdict>>
  \/ once = u /\ env' \in {"ok", "err"} /\ once' = "done" /\ UNCHANGED <<at, verdict, made>>
  \/ once = "done" /\ env = "err" /\ Finish(u, "environment") /\ UNCHANGED <<once, env, made>>
  \/ once = "done" /\ env = "ok" /\ at' = [at EXCEPT ![u] = "ready"] /\ UNCHANGED <<verdict, once, env, made>>

Environment(u) == at[u] = "env" /\ getEnv(u) /\ UNCHANGED <<expr, method>>

\* newParseError and newCheckError wrap ErrExpressionCheck; a program that cannot be made does not.
Outcome(u) == FirstOf(<< <<expr[u] \in {"syntax", "type"}, "ErrExpressionCheck">>,
                         <<method[u] = "Compile" /\ expr[u] = "program", "program">> >>, "ok")

Finishes(u) == at[u] = "ready" /\ Finish(u, Outcome(u)) /\ UNCHANGED <<expr, method, once, env, made>>

Next == \E u \in User : Start(u) \/ Environment(u) \/ Finishes(u)

Spec == Init /\ [][Next]_celVars

-----------------------------------------------------------------------------

\* Callers that share an engine get the same answer: the environment is made once and they all
\* see its outcome; an expression Check accepts is one Compile accepts or cannot make a program
\* of, and one Check calls ErrExpressionCheck is called so by Compile, whoever asked first.
CallersAgree ==
  /\ made <= 1
  /\ ~\E u, w \in User : verdict[u] = "environment" /\ verdict[w] \in {"ok", "program"}
  /\ \A u, w \in User :
       (expr[u] = expr[w] /\ at[u] = "done" /\ at[w] = "done" /\ method[u] = "Check" /\ method[w] = "Compile") =>
          /\ verdict[u] = "ok" => verdict[w] \in {"ok", "program"}
          /\ verdict[u] = "ErrExpressionCheck" <=> verdict[w] = "ErrExpressionCheck"

=============================================================================
