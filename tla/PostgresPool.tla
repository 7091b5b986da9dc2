---------------------------- MODULE PostgresPool ----------------------------
(***************************************************************************)
(* postgres.NewPool and the connections pgxpool opens later: the password  *)
(* of a connection comes from the configuration, from a caller's hook, or  *)
(* from a short-lived RDS IAM token signed by the dynamic-auth hook.       *)
(***************************************************************************)
EXTENDS Naturals

CONSTANTS Connection, TokenTTL, MaxClock

VARIABLES pgConf,   \* what the caller configured
          pool,     \* "none", "refused", "open"
          region,   \* the region tokens are signed for, "none" before it is resolved
          clock,
          signedAt, \* connection -> when the token it presents was signed
          conn      \* connection -> "none", "dialling", "open", "rejected"

pgVars == <<pgConf, pool, region, clock, signedAt, conn>>

PgConfig == [valid : BOOLEAN, dynamic : {"none", "static region", "detect"}, hook : BOOLEAN]

Init == /\ pgConf \in PgConfig /\ pool = "none" /\ region = "none" /\ clock = 0
        /\ signedAt = [c \in Connection |-> 0] /\ conn = [c \in Connection |-> "none"]

Refuse == pool' = "refused" /\ UNCHANGED region

\* Validate, and the refusal of DynamicAuth together with WithBeforeConnect.
Refused == ~pgConf.valid \/ (pgConf.dynamic # "none" /\ pgConf.hook)

\* The region is resolved here, once; with "detect" the metadata service may not answer.
NewPool ==
  /\ pool = "none"
  /\ \/ Refused /\ Refuse
     \/ ~Refused /\ pgConf.dynamic = "detect" /\ Refuse
     \/ /\ ~Refused /\ pool' = "open"
        /\ region' = IF pgConf.dynamic = "none" THEN "none" ELSE "signing"
  /\ UNCHANGED <<pgConf, clock, signedAt, conn>>

SignOnce(c) == signedAt' = [signedAt EXCEPT ![c] = 0]

\* buildAWSToken: a token for this attempt, and for nothing else.
BeforeConnect(c) == signedAt' = [signedAt EXCEPT ![c] = clock]

\* pgxpool opens a connection: the hook runs immediately before the dial; when signing
\* fails there is no attempt.
Connect(c) ==
  /\ pool = "open" /\ conn[c] \in {"none", "rejected"}
  /\ conn' = [conn EXCEPT ![c] = "dialling"] /\ BeforeConnect(c)
  /\ UNCHANGED <<pgConf, pool, region, clock>>

Expired(c) == region # "none" /\ clock >= signedAt[c] + TokenTTL

\* The server checks the password when the connection is made, not later.
Authenticate(c) ==
  /\ conn[c] = "dialling"
  /\ conn' = [conn EXCEPT ![c] = IF Expired(c) THEN "rejected" ELSE "open"]
  /\ UNCHANGED <<pgConf, pool, region, clock, signedAt>>

\* ConnMaxLifetime, or the server, ends a connection.
Disconnect(c) == /\ conn[c] = "open" /\ conn' = [conn EXCEPT ![c] = "none"]
                 /\ UNCHANGED <<pgConf, pool, region, clock, signedAt>>

\* A dial takes less than a token lives.
Pass == /\ clock < MaxClock /\ clock' = clock + 1
        /\ \A c \in Connection : conn[c] = "dialling" => clock' < signedAt[c] + TokenTTL \/ Expired(c)
        /\ UNCHANGED <<pgConf, pool, region, signedAt, conn>>

Next == NewPool \/ Pass \/ \E c \in Connection : Connect(c) \/ Authenticate(c) \/ Disconnect(c)

Spec == Init /\ [][Next]_pgVars

-----------------------------------------------------------------------------

\* With dynamic authentication a connection is never turned away for an expired token,
\* however long after NewPool it is opened.
TokensNeverExpire == \A c \in Connection : conn[c] # "rejected"

=============================================================================
