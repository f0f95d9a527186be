------------------------------- MODULE Fleet -------------------------------
(***************************************************************************)
(* Several gateway processes (apps/gateway) behind one address, the stores *)
(* they share and the HTTP clients that call them.                         *)
(*                                                                         *)
(* The consumption store is Redis, here as the atomic store it implements  *)
(* (module ConsumptionStore, extended).  Revocations are kept by each      *)
(* process in memory or in Redis, under a key with a TTL                   *)
(* (redis-revocation-store.ts).  A client (sdk/src/client.ts, acr/client.py)*)
(* posts an execute to some gateway, may give up before the reply comes    *)
(* and may send the same requestId again: a new call.  A gateway may die   *)
(* and be started again.                                                   *)
(*                                                                         *)
(* Time is counted in ticks from the issue of the tokens, which are all    *)
(* accepted until Lifetime + Tolerance; an accepted call reads the         *)
(* revocation store at most Latency later.                                 *)
(***************************************************************************)
EXTENDS ConsumptionStore

CONSTANTS
  Gateways,   \* gateway processes
  Lifetime,   \* expiresIn of the tokens
  Tolerance,  \* clockTolerance of the validator
  Latency,    \* longest time from validation to the answer of isRevoked
  Ttl,        \* ttlSec of the Redis revocation store
  Horizon     \* last tick modelled

ASSUME FleetTimeAssumption ==
  /\ Lifetime \in Nat /\ Tolerance \in Nat /\ Latency \in Nat /\ Ttl \in Nat
  /\ Horizon \in Nat

VARIABLES
  now,
  backend,   \* revocation.mode of the deployment, "memory" or "redis"
  records,   \* records[g]: the revoked tokens in the memory of gateway g
  until,     \* until[t]: when the revocation key of t is deleted, None if no key
  place,     \* place[c]: the gateway that is at work on call c, or None
  stage,     \* stage[c]: where the gateway is with call c
  answer,    \* answer[c]: the result of execute() for call c, or None
  told,      \* told[c]: what the client returned, None if no reply came (yet)
  revoked,   \* history: tokens ever revoked through the gateways
  barred     \* history: calls received when their token had been revoked

store == <<count, seen, status, jti, rid>>
revocations == <<backend, records, until, revoked>>
fleetVars == <<store, revocations, now, place, stage, answer, told, barred>>

-----------------------------------------------------------------------------
(* Results of execute(), HTTP responses, results of the clients *)

Allow(what) == [decision |-> "ALLOW", result |-> what, code |-> None]
Other(decision) == [decision |-> decision, result |-> None, code |-> None]
Deny(code) == [decision |-> "DENY", result |-> None, code |-> code]

Codes == {"invalid_token", "token_expired", "token_revoked", "tool_mismatch",
          "policy_denied", "sandbox_denied"}
Results ==
  {Allow(what) : what \in {"tool", "replay"}}
    \cup {Other(decision) : decision \in {"SIMULATE", "REQUIRE_APPROVAL"}}
    \cup {Deny(code) : code \in Codes}

ASSUME NoneIsNothing == None \notin Gateways \cup Results \cup Nat

\* The status of the response to POST /runtime/execute.
HttpStatus(result) ==
  IF result.decision \in {"ALLOW", "SIMULATE"} THEN 200
  ELSE IF result.decision = "REQUIRE_APPROVAL" THEN 202
  ELSE IF result.code \in {"invalid_token", "token_expired"} THEN 401 ELSE 403

\* The codes a client passes on; the TypeScript one makes "policy_denied" of two.
PassedOn(lang) ==
  IF lang = "ts" THEN Codes \ {"token_revoked", "sandbox_denied"} ELSE Codes

\* What a client makes of a response; a DENY is what is nothing else.
ParseByStatus(lang, response) ==               \* mutant: any 4xx but 401 is ok
  IF response.status # 401 THEN Allow("tool") ELSE Deny("policy_denied")
Parse(lang, response) ==
  IF \/ response.status = 200 /\ response.body.decision \in {"ALLOW", "SIMULATE"}
     \/ response.status = 202 /\ response.body.decision = "REQUIRE_APPROVAL"
  THEN response.body
  ELSE Deny(IF response.body.code \in PassedOn(lang)
            THEN response.body.code ELSE "policy_denied")

-----------------------------------------------------------------------------

FleetTypeOK ==
  /\ TypeOK
  /\ now \in 0..Horizon
  /\ backend \in {"memory", "redis"}
  /\ records \in [Gateways -> SUBSET Tokens]
  /\ until \in [Tokens -> Nat \cup {None}]
  /\ place \in [Calls -> Gateways \cup {None}]
  /\ stage \in [Calls -> {"none", "gate", "open", "answered", "crashed"}]
  /\ answer \in [Calls -> Results \cup {None}]
  /\ told \in [Calls -> Results \cup {None}]
  /\ revoked \subseteq Tokens
  /\ barred \subseteq Calls
  /\ \A c \in Calls : /\ answer[c] # None <=> stage[c] = "answered"
                      /\ place[c] # None <=> stage[c] \in {"gate", "open"}

FleetInit ==
  /\ Init
  /\ now = 0
  /\ backend \in {"memory", "redis"}
  /\ records = [g \in Gateways |-> {}]
  /\ until = [t \in Tokens |-> None]
  /\ place = [c \in Calls |-> None]
  /\ stage = [c \in Calls |-> "none"]
  /\ answer = [c \in Calls |-> None]
  /\ told = [c \in Calls |-> None]
  /\ revoked = {}
  /\ barred = {}

-----------------------------------------------------------------------------
(* The revocation store *)

\* isRevoked of the Redis store is GET of a key that may have been deleted.
InRedis(t) == until[t] # None /\ now < until[t]
IsRevoked(g, t) == IF backend = "redis" THEN InRedis(t) ELSE t \in records[g]

\* The deadline SET ... EX gives the key.  (DeadlineOfFirst, a mutant, counts
\* from the issue of the token.)
DeadlineOfFirst(t) == IF Ttl > now THEN Ttl - now ELSE 0
Deadline(t) == now + Ttl

\* POST /capabilities/revoke, sent by an administrator to gateway g.
Revoke(g, t) ==
  /\ IF backend = "redis"
     THEN until' = [until EXCEPT ![t] = Deadline(t)] /\ UNCHANGED records
     ELSE records' = [records EXCEPT ![g] = @ \cup {t}] /\ UNCHANGED until
  /\ revoked' = revoked \cup {t}
  /\ UNCHANGED <<store, backend, now, place, stage, answer, told, barred>>

\* Revoked as far as gateway g can know: with Redis, by any gateway; in
\* memory, by itself since its start.
RevokedFor(g, t) == IF backend = "redis" THEN t \in revoked ELSE t \in records[g]

-----------------------------------------------------------------------------
(* POST /runtime/execute *)

Answered(c, result) ==
  /\ stage' = [stage EXCEPT ![c] = "answered"]
  /\ answer' = [answer EXCEPT ![c] = result]
  /\ place' = [place EXCEPT ![c] = None]

\* A gateway receives call c and does not accept its token.
Reject(c) ==
  /\ stage[c] = "none"
  /\ \E code \in {"invalid_token", "token_expired", "tool_mismatch"} :
       /\ code = "token_expired" => now >= Lifetime + Tolerance
       /\ code = "tool_mismatch" => now < Lifetime + Tolerance
       /\ Answered(c, Deny(code))
  /\ UNCHANGED <<store, revocations, now, told, barred>>

\* Gateway g receives call c and accepts its token.
Receive(c, g, t, q) ==
  /\ stage[c] = "none"
  /\ now < Lifetime + Tolerance
  /\ Call(c, t, q)
  /\ place' = [place EXCEPT ![c] = g]
  /\ stage' = [stage EXCEPT ![c] = "gate"]
  /\ barred' = IF RevokedFor(g, t) THEN barred \cup {c} ELSE barred
  /\ UNCHANGED <<revocations, now, answer, told>>

InTime == now <= Lifetime + Tolerance + Latency

\* The revocation store answers; what follows relies on that answer.
DenyRevoked(c) ==
  /\ stage[c] = "gate"
  /\ InTime
  /\ IsRevoked(place[c], jti[c])
  /\ Answered(c, Deny("token_revoked"))
  /\ UNCHANGED <<store, revocations, now, told, barred>>

PassAlways(c) == TRUE                                  \* mutant: no gate
Pass(c) == ~IsRevoked(place[c], jti[c])
PassGate(c) ==
  /\ stage[c] = "gate"
  /\ InTime
  /\ Pass(c)
  /\ stage' = [stage EXCEPT ![c] = "open"]
  /\ UNCHANGED <<store, revocations, now, place, answer, told, barred>>

\* Policy, approval and dry run: an answer that takes no slot (module Runtime
\* has the conditions).
AnswerWithoutSlot(c) ==
  /\ stage[c] = "open"
  /\ status[c] = "called"
  /\ \E result \in {Deny("policy_denied"), Other("SIMULATE"), Other("REQUIRE_APPROVAL")} :
       Answered(c, result)
  /\ UNCHANGED <<store, revocations, now, told, barred>>

\* tryConsume: a replay and an exhausted quota are answered at once, a slot
\* starts the adapter.
Consume(c) ==
  /\ stage[c] = "open"
  /\ \/ Replay(c) /\ Answered(c, Allow("replay"))
     \/ Refuse(c) /\ Answered(c, Deny("policy_denied"))
     \/ Grant(c) /\ UNCHANGED <<stage, answer, place>>
  /\ UNCHANGED <<revocations, now, told, barred>>

\* The adapter returns its result, or it fails or is refused by the sandbox and
\* the slot goes back.
Succeed(c) ==
  /\ stage[c] = "open"
  /\ status[c] = "granted"
  /\ Answered(c, Allow("tool"))
  /\ UNCHANGED <<store, revocations, now, told, barred>>

FailKeepingSlot(c) ==                                  \* mutant: no release
  /\ stage[c] = "open"
  /\ status[c] = "granted"
  /\ Answered(c, Deny("policy_denied"))
  /\ UNCHANGED <<store, revocations, now, told, barred>>
Fail(c) ==
  /\ stage[c] = "open"
  /\ Release(c)
  /\ \E code \in {"policy_denied", "sandbox_denied"} : Answered(c, Deny(code))
  /\ UNCHANGED <<revocations, now, told, barred>>

-----------------------------------------------------------------------------
(* Clients, processes, time *)

\* The client reads the response.  It never does when it has given up (a
\* timeout, a broken connection: ExecuteError, or fetch rejects), and the
\* gateway goes on all the same.
Deliver(c, lang) ==
  /\ stage[c] = "answered"
  /\ told[c] = None
  /\ told' = [told EXCEPT ![c] =
       Parse(lang, [status |-> HttpStatus(answer[c]), body |-> answer[c]])]
  /\ UNCHANGED <<store, revocations, now, place, stage, answer, barred>>

\* The process of gateway g dies and is started again: the calls under way are
\* gone, their slots are not; revocations kept in memory are gone.
Crash(g) ==
  /\ records[g] # {} \/ \E c \in Calls : place[c] = g
  /\ stage' = [c \in Calls |-> IF place[c] = g THEN "crashed" ELSE stage[c]]
  /\ place' = [c \in Calls |-> IF place[c] = g THEN None ELSE place[c]]
  /\ records' = [records EXCEPT ![g] = {}]
  /\ UNCHANGED <<store, backend, until, revoked, now, answer, told, barred>>

\* Time passes; Redis deletes the keys whose deadline has come.
Tick ==
  /\ now < Horizon
  /\ now' = now + 1
  /\ until' = [t \in Tokens |->
       IF until[t] # None /\ until[t] <= now + 1 THEN None ELSE until[t]]
  /\ UNCHANGED <<store, backend, records, revoked, place, stage, answer, told, barred>>

FleetNext ==
  \/ \E c \in Calls :
       \/ Reject(c)
       \/ \E g \in Gateways, t \in Tokens, q \in RequestIds \cup {None} :
            Receive(c, g, t, q)
       \/ DenyRevoked(c) \/ PassGate(c) \/ AnswerWithoutSlot(c)
       \/ Consume(c) \/ Succeed(c) \/ Fail(c)
       \/ \E lang \in {"ts", "py"} : Deliver(c, lang)
  \/ \E g \in Gateways : Crash(g) \/ \E t \in Tokens : Revoke(g, t)
  \/ Tick

FleetSpec == FleetInit /\ [][FleetNext]_fleetVars

-----------------------------------------------------------------------------
(* Properties *)

\* The TTL of the revocation keys covers all a token can still do.
AlignedTtl == Ttl > Lifetime + Tolerance + Latency

\* A call that a gateway receives after the token was revoked - by any gateway
\* with the Redis store, by the same process otherwise - never gets a slot,
\* however late in the life of the token (isRevoked and the TTL of its keys).
RevokedStaysOut ==
  \A c \in barred : status[c] = "called" /\ answer[c] # Allow("tool")

\* A client that is told that its tool ran holds a slot of the quota, one that
\* is told anything else of its own call does not, whatever was lost, retried
\* or died in between (HTTP mapping of app.ts and the clients, release).
ToldIsKept ==
  \A c \in Calls :
    told[c] \in Results =>
      (status[c] = "granted" <=> told[c] = Allow("tool"))
=============================================================================
