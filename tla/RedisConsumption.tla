-------------------------- MODULE RedisConsumption --------------------------
(***************************************************************************)
(* The Redis consumption store (redis-consumption-store.ts, lua.ts).       *)
(*                                                                         *)
(* tryConsume and release each run one Lua script, atomically in Redis,    *)
(* and then send two EXPIRE commands.  A token's counter and its set of    *)
(* requestIds are two keys, each with a deadline of its own after which    *)
(* Redis deletes it.  Plain SET drops the deadline of the counter; SADD,   *)
(* DECR and SREM keep deadlines.  A client that fails between the script   *)
(* and the EXPIREs leaves the deadlines as they are.                       *)
(*                                                                         *)
(* Time is counted in ticks from the issue of the tokens (grant.ts).  A    *)
(* token is accepted until Lifetime + Tolerance (validate.ts); a call that *)
(* was accepted may reach Redis later than that by at most Latency.        *)
(***************************************************************************)
EXTENDS Naturals, FiniteSets

CONSTANTS Calls, Tokens, RequestIds, None, Unlimited, Limit,
  Lifetime,   \* expiresIn of the tokens
  Tolerance,  \* clockTolerance of the validator
  Latency,    \* longest time from validation to the tryConsume script
  Ttl,        \* ttlSec of the store
  Horizon     \* last tick modelled

ASSUME CallsAssumption == IsFiniteSet(Calls)
ASSUME NoneAssumption == None \notin Tokens /\ None \notin RequestIds /\ None \notin Nat
ASSUME LimitAssumption ==
  Unlimited \notin Nat /\ Limit \in [Tokens -> Nat \cup {Unlimited}]
ASSUME TimeAssumption ==
  /\ Lifetime \in Nat /\ Tolerance \in Nat /\ Latency \in Nat
  /\ Ttl \in Nat \ {0} /\ Horizon \in Nat

VARIABLES
  now,
  counter,   \* counter[t]: value of {prefix}:{t}:count, None if there is no key
  reqs,      \* reqs[t]: members of {prefix}:{t}:reqs, {} if there is no key
  deadline,  \* deadline[<<k, t>>]: when key k of token t is deleted, None if never
  status, jti, rid,
  expiring   \* expiring[c]: the keys call c has yet to send an EXPIRE for

keys == <<counter, reqs, deadline>>
vars == <<now, keys, status, jti, rid, expiring>>

KeyNames == {"count", "reqs"}

Statuses == {"idle", "called", "granted", "refused", "replayed", "released"}

TypeOK ==
  /\ now \in 0..Horizon
  /\ counter \in [Tokens -> Nat \cup {None}]
  /\ reqs \in [Tokens -> SUBSET RequestIds]
  /\ deadline \in [KeyNames \X Tokens -> Nat \cup {None}]
  /\ status \in [Calls -> Statuses]
  /\ jti \in [Calls -> Tokens \cup {None}]
  /\ rid \in [Calls -> RequestIds \cup {None}]
  /\ expiring \in [Calls -> SUBSET KeyNames]

Init ==
  /\ now = 0
  /\ counter = [t \in Tokens |-> None]
  /\ reqs = [t \in Tokens |-> {}]
  /\ deadline = [k \in KeyNames \X Tokens |-> None]
  /\ status = [c \in Calls |-> "idle"]
  /\ jti = [c \in Calls |-> None]
  /\ rid = [c \in Calls |-> None]
  /\ expiring = [c \in Calls |-> {}]

-----------------------------------------------------------------------------
(* Lua scripts *)

\* tonumber(redis.call("GET", count_key) or "0")
Current(t) == IF counter[t] = None THEN 0 ELSE counter[t]

Known(c) == rid[c] # None /\ rid[c] \in reqs[jti[c]]

\* `not unlimited and current >= limit`.  (AtLimitOffByOne is a mutant.)
AtLimitOffByOne(t) == Limit[t] # Unlimited /\ Current(t) > Limit[t]
AtLimit(t) == Limit[t] # Unlimited /\ Current(t) >= Limit[t]

\* SADD of the requestId, when there is one.  (NotedAlways is a mutant.)
NotedAlways(c) == {rid[c]}
Noted(c) == {rid[c]} \ {None}

\* The members SREM leaves.  (RemainingAll, a mutant, forgets the SREM.)
RemainingAll(c) == reqs[jti[c]]
Remaining(c) == reqs[jti[c]] \ {rid[c]}

\* The keys to send an EXPIRE for when a script has run: touchTtl.
Touched == KeyNames

Answer(c, answer) ==
  /\ status[c] = "called"
  /\ now <= Lifetime + Tolerance + Latency
  /\ status' = [status EXCEPT ![c] = answer]
  /\ expiring' = [expiring EXCEPT ![c] = Touched]
  /\ UNCHANGED <<now, jti, rid>>

\* execute() has validated a token that has not expired.
Call(c, t, q) ==
  /\ status[c] = "idle"
  /\ now < Lifetime + Tolerance
  /\ status' = [status EXCEPT ![c] = "called"]
  /\ jti' = [jti EXCEPT ![c] = t]
  /\ rid' = [rid EXCEPT ![c] = q]
  /\ UNCHANGED <<now, keys, expiring>>

Replay(c) ==
  /\ Answer(c, "replayed")
  /\ Known(c)
  /\ UNCHANGED keys

Refuse(c) ==
  /\ Answer(c, "refused")
  /\ ~Known(c)
  /\ AtLimit(jti[c])
  /\ UNCHANGED keys

Grant(c) ==
  /\ Answer(c, "granted")
  /\ ~Known(c)
  /\ ~AtLimit(jti[c])
  /\ counter' = [counter EXCEPT ![jti[c]] = Current(jti[c]) + 1]
  /\ deadline' = [deadline EXCEPT ![<<"count", jti[c]>>] = None]
  /\ reqs' = [reqs EXCEPT ![jti[c]] = @ \cup Noted(c)]

\* A set without members has no key, and a key without a deadline keeps none.
DeadlineOfReqs(t, members) ==
  IF members = {} THEN None ELSE deadline[<<"reqs", t>>]

Release(c) ==
  /\ status[c] = "granted"
  /\ expiring[c] = {}
  /\ status' = [status EXCEPT ![c] = "released"]
  /\ expiring' = [expiring EXCEPT ![c] = Touched]
  /\ counter' = [counter EXCEPT ![jti[c]] = IF Current(jti[c]) > 0 THEN @ - 1 ELSE @]
  /\ reqs' = [reqs EXCEPT ![jti[c]] = Remaining(c)]
  /\ deadline' = [deadline EXCEPT ![<<"reqs", jti[c]>>] = DeadlineOfReqs(jti[c], Remaining(c))]
  /\ UNCHANGED <<now, jti, rid>>

-----------------------------------------------------------------------------
(* Deadlines *)

Exists(k, t) == IF k = "count" THEN counter[t] # None ELSE reqs[t] # {}

\* One of the two EXPIRE commands arrives; on a missing key it does nothing.
Expire(c, k) ==
  /\ k \in expiring[c]
  /\ expiring' = [expiring EXCEPT ![c] = @ \ {k}]
  /\ deadline' = IF Exists(k, jti[c])
                 THEN [deadline EXCEPT ![<<k, jti[c]>>] = now + Ttl]
                 ELSE deadline
  /\ UNCHANGED <<now, counter, reqs, status, jti, rid>>

\* The client of call c fails before its EXPIREs are sent.
ClientFails(c) ==
  /\ expiring[c] # {}
  /\ expiring' = [expiring EXCEPT ![c] = {}]
  /\ UNCHANGED <<now, keys, status, jti, rid>>

Due(k, t, time) == deadline[<<k, t>>] # None /\ deadline[<<k, t>>] <= time

\* Time passes and Redis deletes the keys whose deadline has come.
Tick ==
  /\ now < Horizon
  /\ now' = now + 1
  /\ counter' = [t \in Tokens |-> IF Due("count", t, now') THEN None ELSE counter[t]]
  /\ reqs' = [t \in Tokens |-> IF Due("reqs", t, now') THEN {} ELSE reqs[t]]
  /\ deadline' = [k \in KeyNames \X Tokens |->
                    IF Due(k[1], k[2], now') THEN None ELSE deadline[k]]
  /\ UNCHANGED <<status, jti, rid, expiring>>

Next ==
  \/ \E c \in Calls :
       \/ \E t \in Tokens, q \in RequestIds \cup {None} : Call(c, t, q)
       \/ Replay(c)
       \/ Refuse(c)
       \/ Grant(c)
       \/ Release(c)
       \/ \E k \in KeyNames : Expire(c, k)
       \/ ClientFails(c)
  \/ Tick

Spec == Init /\ [][Next]_vars

-----------------------------------------------------------------------------
(* Refinement of the atomic store *)

HoldersOf(t) == {c \in Calls : status[c] = "granted" /\ jti[c] = t}

\* A deleted key stands for what it held: once no call of the token can come
\* any more, nobody reads it.
CountOf(t) == IF counter[t] = None THEN Cardinality(HoldersOf(t)) ELSE counter[t]
SeenOf(t) == IF reqs[t] = {} THEN {rid[c] : c \in HoldersOf(t)} \ {None} ELSE reqs[t]

Store == INSTANCE ConsumptionStore
           WITH count <- [t \in Tokens |-> CountOf(t)],
                seen <- [t \in Tokens |-> SeenOf(t)]

\* The TTL of the keys covers all a token can still do.
AlignedTtl == Ttl > Lifetime + Tolerance + Latency

\* The Redis store is the atomic store for as long as the token can be used,
\* whatever the order of the EXPIREs and wherever a client fails.
ImplementsStore == Store!Spec
=============================================================================
