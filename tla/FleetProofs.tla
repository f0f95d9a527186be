---------------------------- MODULE FleetProofs ----------------------------
(***************************************************************************)
(* What holds of a fleet of gateways of any size, for any clients, limits  *)
(* and times.  The fleet uses the consumption store as its callers must, so*)
(* the promise of the store carries over.  That a revoked token stays out  *)
(* rests on one relation between times, AlignedTtl: a revocation key is    *)
(* there until no call can ask for it any more.                            *)
(***************************************************************************)
EXTENDS Fleet, ConsumptionStoreProofs

-----------------------------------------------------------------------------
(* The fleet uses the consumption store as it must *)

\* Every step of the fleet is one of the store's or leaves the store alone.
LEMMA FleetStep == [FleetNext]_fleetVars => [Next]_vars
<1> SUFFICES ASSUME [FleetNext]_fleetVars
             PROVE  [Next]_vars
  OBVIOUS
<1> USE DEF store, vars, Next
<1>1. ASSUME NEW c \in Calls, Reject(c)
      PROVE  [Next]_vars
  BY <1>1 DEF Reject
<1>2. ASSUME NEW c \in Calls, NEW g \in Gateways, NEW t \in Tokens,
             NEW q \in RequestIds \cup {None}, Receive(c, g, t, q)
      PROVE  [Next]_vars
  BY <1>2 DEF Receive
<1>3. ASSUME NEW c \in Calls, DenyRevoked(c) \/ PassGate(c) \/ AnswerWithoutSlot(c)
      PROVE  [Next]_vars
  BY <1>3 DEF DenyRevoked, PassGate, AnswerWithoutSlot
<1>4. ASSUME NEW c \in Calls, Consume(c)
      PROVE  [Next]_vars
  BY <1>4 DEF Consume
<1>5. ASSUME NEW c \in Calls, Succeed(c) \/ Fail(c)
      PROVE  [Next]_vars
  BY <1>5 DEF Succeed, Fail
<1>6. ASSUME NEW c \in Calls, NEW lang \in {"ts", "py"}, Deliver(c, lang)
      PROVE  [Next]_vars
  BY <1>6 DEF Deliver
<1>7. ASSUME NEW g \in Gateways, Crash(g) \/ \E t \in Tokens : Revoke(g, t)
      PROVE  [Next]_vars
  BY <1>7 DEF Crash, Revoke
<1>8. CASE Tick
  BY <1>8 DEF Tick
<1>9. CASE UNCHANGED fleetVars
  BY <1>9 DEF fleetVars
<1> QED
  BY <1>1, <1>2, <1>3, <1>4, <1>5, <1>6, <1>7, <1>8, <1>9 DEF FleetNext

\* The gateways of a fleet, whatever dies or is lost, use the shared store as
\* the abstract store allows (tryConsume and release of every execute).
THEOREM FleetImplementsStore == FleetSpec => Spec
<1>1. FleetInit => Init
  BY DEF FleetInit
<1> QED
  BY <1>1, FleetStep, PTL DEF FleetSpec, Spec

\* So no token is used beyond its max_actions by all gateways together, and no
\* requestId holds two slots.
THEOREM FleetQuotaSafe == FleetSpec => [](QuotaSafe /\ OneHolderPerRequestId)
  BY FleetImplementsStore, StoreQuota, StoreIdempotency, PTL

-----------------------------------------------------------------------------
(* Types *)

\* Responses carry results of execute(), and a client makes a result of one.
LEMMA ParseType ==
  ASSUME NEW lang \in {"ts", "py"}, NEW result \in Results
  PROVE  /\ Parse(lang, [status |-> HttpStatus(result), body |-> result]) \in Results
         /\ Parse(lang, [status |-> HttpStatus(result), body |-> result]) = Allow("tool")
              <=> result = Allow("tool")
<1> DEFINE response == [status |-> HttpStatus(result), body |-> result]
<1>1. response.status = HttpStatus(result) /\ response.body = result
  OBVIOUS
<1>2. CASE result \in {Allow("tool"), Allow("replay"), Other("SIMULATE")}
  <2>1. HttpStatus(result) = 200 /\ result.decision \in {"ALLOW", "SIMULATE"}
    BY <1>2 DEF HttpStatus, Allow, Other
  <2>2. Parse(lang, response) = result
    BY <1>1, <2>1 DEF Parse
  <2> QED
    BY <2>2
<1>3. CASE result = Other("REQUIRE_APPROVAL")
  <2>1. HttpStatus(result) = 202 /\ result.decision = "REQUIRE_APPROVAL"
    BY <1>3 DEF HttpStatus, Other
  <2>2. Parse(lang, response) = result
    BY <1>1, <2>1 DEF Parse
  <2> QED
    BY <2>2
<1>4. CASE \E code \in Codes : result = Deny(code)
  <2>1. result.decision = "DENY" /\ result # Allow("tool")
    BY <1>4 DEF Deny, Allow
  <2>2. \E code \in Codes : Parse(lang, response) = Deny(code)
    <3>1. PassedOn(lang) \subseteq Codes /\ "policy_denied" \in Codes
      BY DEF PassedOn, Codes
    <3> QED
      BY <1>1, <2>1, <3>1 DEF Parse
  <2>3. \A code \in Codes : Deny(code) \in Results /\ Deny(code) # Allow("tool")
    BY DEF Results, Deny, Allow
  <2> QED
    BY <2>1, <2>2, <2>3
<1> QED
  BY <1>2, <1>3, <1>4 DEF Results

\* The results the gateways produce are results.
LEMMA ResultTypes ==
  /\ Allow("tool") \in Results /\ Allow("replay") \in Results
  /\ Other("SIMULATE") \in Results /\ Other("REQUIRE_APPROVAL") \in Results
  /\ \A code \in Codes : Deny(code) \in Results
  BY DEF Results

\* Of them only Allow("tool") says that the tool ran.
LEMMA OnlyTool ==
  /\ Allow("replay") # Allow("tool")
  /\ \A decision \in {"SIMULATE", "REQUIRE_APPROVAL"} : Other(decision) # Allow("tool")
  /\ \A code \in Codes : Deny(code) # Allow("tool")
  BY DEF Allow, Other, Deny

-----------------------------------------------------------------------------
(* The inductive invariant *)

\* How far the store and the answer are at each stage of a call.
InStep ==
  \A c \in Calls :
    /\ stage[c] = "none" => status[c] = "idle"
    /\ stage[c] = "gate" => status[c] = "called"
    /\ stage[c] = "open" => status[c] \in {"called", "granted"}
    /\ stage[c] = "answered" => (status[c] = "granted" <=> answer[c] = Allow("tool"))
    /\ told[c] # None =>
         /\ stage[c] = "answered"
         /\ told[c] = Allow("tool") <=> answer[c] = Allow("tool")

\* A revoked token has a key in Redis until no gateway can still ask for it.
KeyOutlivesToken ==
  backend = "redis" =>
    \A t \in revoked :
      \/ now > Lifetime + Tolerance + Latency
      \/ until[t] # None /\ until[t] > Lifetime + Tolerance + Latency

\* Where a barred call can be.
Shut ==
  \A c \in barred :
    /\ status[c] = "called"
    /\ stage[c] \in {"gate", "answered", "crashed"}
    /\ answer[c] # Allow("tool")
    /\ stage[c] = "gate" => RevokedFor(place[c], jti[c])

\* A step keeps every variable of the fleet within its type.
LEMMA FleetTypeStep == FleetTypeOK /\ [FleetNext]_fleetVars => FleetTypeOK'
<1> SUFFICES ASSUME FleetTypeOK, [FleetNext]_fleetVars
             PROVE  FleetTypeOK'
  OBVIOUS
<1>1. TypeOK'
  BY FleetStep, TypeStep DEF FleetTypeOK
<1>2. \A c \in Calls : jti[c] \in Tokens \cup {None}
  BY DEF FleetTypeOK, TypeOK
<1> USE FleetTimeAssumption, NoneIsNothing DEF FleetTypeOK, store, revocations
<1> HIDE DEF TypeOK
<1>3. ASSUME NEW c \in Calls, NEW result \in Results, Answered(c, result)
      PROVE  /\ stage' \in [Calls -> {"none", "gate", "open", "answered", "crashed"}]
             /\ answer' \in [Calls -> Results \cup {None}]
             /\ place' \in [Calls -> Gateways \cup {None}]
             /\ \A d \in Calls : /\ answer'[d] # None <=> stage'[d] = "answered"
                                 /\ place'[d] # None <=> stage'[d] \in {"gate", "open"}
  BY <1>3 DEF Answered
<1>4. ASSUME NEW c \in Calls, Reject(c)
      PROVE  FleetTypeOK'
  BY <1>1, <1>3, <1>4, ResultTypes DEF Reject, Codes
<1>5. ASSUME NEW c \in Calls, NEW g \in Gateways, NEW t \in Tokens,
             NEW q \in RequestIds \cup {None}, Receive(c, g, t, q)
      PROVE  FleetTypeOK'
  BY <1>1, <1>5 DEF Receive
<1>6. ASSUME NEW c \in Calls, DenyRevoked(c)
      PROVE  FleetTypeOK'
  BY <1>1, <1>3, <1>6, ResultTypes DEF DenyRevoked, Codes
<1>7. ASSUME NEW c \in Calls, PassGate(c)
      PROVE  FleetTypeOK'
  BY <1>1, <1>7 DEF PassGate
<1>8. ASSUME NEW c \in Calls, AnswerWithoutSlot(c)
      PROVE  FleetTypeOK'
  BY <1>1, <1>3, <1>8, ResultTypes DEF AnswerWithoutSlot, Codes
<1>9. ASSUME NEW c \in Calls, Consume(c)
      PROVE  FleetTypeOK'
  BY <1>1, <1>3, <1>9, ResultTypes DEF Consume, Codes
<1>10. ASSUME NEW c \in Calls, Succeed(c) \/ Fail(c)
       PROVE  FleetTypeOK'
  BY <1>1, <1>3, <1>10, ResultTypes DEF Succeed, Fail, Codes
<1>11. ASSUME NEW c \in Calls, NEW lang \in {"ts", "py"}, Deliver(c, lang)
       PROVE  FleetTypeOK'
  <2>1. answer[c] \in Results
    BY <1>11 DEF Deliver
  <2> QED
    BY <1>1, <1>11, <2>1, ParseType DEF Deliver
<1>12. ASSUME NEW g \in Gateways, Crash(g)
       PROVE  FleetTypeOK'
  BY <1>1, <1>12 DEF Crash
<1>13. ASSUME NEW g \in Gateways, NEW t \in Tokens, Revoke(g, t)
       PROVE  FleetTypeOK'
  BY <1>1, <1>13 DEF Revoke, Deadline
<1>14. CASE Tick
  BY <1>1, <1>14 DEF Tick
<1>15. CASE UNCHANGED fleetVars
  BY <1>1, <1>15 DEF fleetVars
<1> QED
  BY <1>4, <1>5, <1>6, <1>7, <1>8, <1>9, <1>10, <1>11, <1>12, <1>13, <1>14, <1>15
     DEF FleetNext

\* What a call is told stays in step with the slot it holds.
LEMMA InStepStep ==
  ASSUME FleetTypeOK, InStep, [FleetNext]_fleetVars
  PROVE  InStep'
<1> USE NoneIsNothing, OnlyTool DEF FleetTypeOK, TypeOK, InStep, store, revocations
<1> HIDE DEF Results
<1>1. ASSUME NEW c \in Calls, Reject(c)
      PROVE  InStep'
  BY <1>1 DEF Reject, Answered, Codes
<1>2. ASSUME NEW c \in Calls, NEW g \in Gateways, NEW t \in Tokens,
             NEW q \in RequestIds \cup {None}, Receive(c, g, t, q)
      PROVE  InStep'
  BY <1>2 DEF Receive, Call
<1>3. ASSUME NEW c \in Calls, DenyRevoked(c)
      PROVE  InStep'
  BY <1>3 DEF DenyRevoked, Answered, Codes
<1>4. ASSUME NEW c \in Calls, PassGate(c)
      PROVE  InStep'
  BY <1>4 DEF PassGate
<1>5. ASSUME NEW c \in Calls, AnswerWithoutSlot(c)
      PROVE  InStep'
  BY <1>5 DEF AnswerWithoutSlot, Answered, Codes
<1>6. ASSUME NEW c \in Calls, Consume(c)
      PROVE  InStep'
  <2>1. CASE Replay(c) /\ Answered(c, Allow("replay"))
    BY <1>6, <2>1 DEF Consume, Replay, Answer, Answered
  <2>2. CASE Refuse(c) /\ Answered(c, Deny("policy_denied"))
    BY <1>6, <2>2 DEF Consume, Refuse, Answer, Answered, Codes
  <2>3. CASE Grant(c) /\ UNCHANGED <<stage, answer, place>>
    BY <1>6, <2>3 DEF Consume, Grant, Answer
  <2> QED
    BY <1>6, <2>1, <2>2, <2>3 DEF Consume
<1>7. ASSUME NEW c \in Calls, Succeed(c)
      PROVE  InStep'
  BY <1>7 DEF Succeed, Answered
<1>8. ASSUME NEW c \in Calls, Fail(c)
      PROVE  InStep'
  BY <1>8 DEF Fail, Release, Answered, Codes
<1>9. ASSUME NEW c \in Calls, NEW lang \in {"ts", "py"}, Deliver(c, lang)
      PROVE  InStep'
  <2>1. answer[c] \in Results
    BY <1>9 DEF Deliver
  <2> QED
    BY <1>9, <2>1, ParseType DEF Deliver
<1>10. ASSUME NEW g \in Gateways, Crash(g)
       PROVE  InStep'
  BY <1>10 DEF Crash
<1>11. ASSUME NEW g \in Gateways, NEW t \in Tokens, Revoke(g, t)
       PROVE  InStep'
  BY <1>11 DEF Revoke
<1>12. CASE Tick
  BY <1>12 DEF Tick
<1>13. CASE UNCHANGED fleetVars
  BY <1>13 DEF fleetVars
<1> QED
  BY <1>1, <1>2, <1>3, <1>4, <1>5, <1>6, <1>7, <1>8, <1>9, <1>10, <1>11, <1>12, <1>13
     DEF FleetNext

\* The TTL is long enough for the key of a revoked token to be there as long as
\* an isRevoked can matter.
LEMMA KeyStep ==
  ASSUME AlignedTtl, FleetTypeOK, KeyOutlivesToken, [FleetNext]_fleetVars
  PROVE  KeyOutlivesToken'
<1> USE FleetTimeAssumption DEF KeyOutlivesToken, AlignedTtl
<1>1. now \in Nat /\ revoked \subseteq Tokens /\ until \in [Tokens -> Nat \cup {None}]
  BY DEF FleetTypeOK
<1>2. CASE UNCHANGED <<revocations, now>>
  BY <1>2 DEF revocations
<1>3. ASSUME NEW g \in Gateways, NEW t \in Tokens, Revoke(g, t)
      PROVE  KeyOutlivesToken'
  <2>1. backend' = backend /\ now' = now /\ revoked' = revoked \cup {t}
    BY <1>3 DEF Revoke
  <2>2. CASE backend = "redis"
    <3>1. until' = [until EXCEPT ![t] = now + Ttl]
      BY <1>3, <2>2 DEF Revoke, Deadline
    <3>2. now + Ttl \in Nat /\ now + Ttl > Lifetime + Tolerance + Latency
      BY <1>1
    <3> QED
      BY <1>1, <2>1, <2>2, <3>1, <3>2, NoneIsNothing
  <2>3. CASE backend # "redis"
    BY <2>1, <2>3
  <2> QED
    BY <2>2, <2>3
<1>4. CASE Tick
  <2>1. backend' = backend /\ now' = now + 1 /\ revoked' = revoked
    BY <1>4 DEF Tick
  <2>2. \A t \in Tokens :
          until'[t] = IF until[t] # None /\ until[t] <= now + 1 THEN None ELSE until[t]
    BY <1>4 DEF Tick
  <2> QED
    BY <1>1, <2>1, <2>2
<1>5. ASSUME NEW g \in Gateways, Crash(g)
      PROVE  KeyOutlivesToken'
  BY <1>5 DEF Crash
<1>6. CASE \E c \in Calls :
             \/ Reject(c)
             \/ \E g \in Gateways, t \in Tokens, q \in RequestIds \cup {None} :
                  Receive(c, g, t, q)
             \/ DenyRevoked(c) \/ PassGate(c) \/ AnswerWithoutSlot(c)
             \/ Consume(c) \/ Succeed(c) \/ Fail(c)
             \/ \E lang \in {"ts", "py"} : Deliver(c, lang)
  <2>1. UNCHANGED <<revocations, now>>
    BY <1>6 DEF Reject, Receive, DenyRevoked, PassGate, AnswerWithoutSlot, Consume,
                Succeed, Fail, Deliver
  <2> QED
    BY <1>2, <2>1
<1> QED
  BY <1>2, <1>3, <1>4, <1>5, <1>6 DEF FleetNext, fleetVars
\* A barred call stays where it is barred.
LEMMA ShutStep ==
  ASSUME FleetTypeOK, InStep, KeyOutlivesToken, Shut, [FleetNext]_fleetVars
  PROVE  Shut'
<1> USE NoneIsNothing, OnlyTool DEF FleetTypeOK, TypeOK, Shut, RevokedFor, store, revocations
<1> HIDE DEF Results
<1>1. ASSUME NEW c \in Calls, Reject(c)
      PROVE  Shut'
  <2>1. c \notin barred
    BY <1>1 DEF Reject
  <2> QED
    BY <1>1, <2>1 DEF Reject, Answered
<1>2. ASSUME NEW c \in Calls, NEW g \in Gateways, NEW t \in Tokens,
             NEW q \in RequestIds \cup {None}, Receive(c, g, t, q)
      PROVE  Shut'
  <2>1. \A d \in barred : d # c
    BY <1>2 DEF Receive
  <2>2. /\ status'[c] = "called" /\ stage'[c] = "gate" /\ answer'[c] = None
        /\ place'[c] = g /\ jti'[c] = t
    BY <1>2 DEF Receive, Call
  <2>3. None # Allow("tool")
    BY ResultTypes
  <2> QED
    BY <1>2, <2>1, <2>2, <2>3 DEF Receive, Call
<1>3. ASSUME NEW c \in Calls, DenyRevoked(c)
      PROVE  Shut'
  BY <1>3 DEF DenyRevoked, Answered, Codes
<1>4. ASSUME NEW c \in Calls, PassGate(c)
      PROVE  Shut'
  <2>1. ASSUME c \in barred
        PROVE  FALSE
    <3>1. RevokedFor(place[c], jti[c]) /\ ~IsRevoked(place[c], jti[c])
      BY <1>4, <2>1 DEF PassGate, Pass
    <3>2. backend = "redis" /\ jti[c] \in revoked
      BY <3>1 DEF IsRevoked
    <3>3. until[jti[c]] # None /\ until[jti[c]] > Lifetime + Tolerance + Latency
      BY <1>4, <3>2, FleetTimeAssumption DEF KeyOutlivesToken, PassGate, InTime
    <3>4. InRedis(jti[c])
      BY <1>4, <3>2, <3>3, FleetTimeAssumption DEF InRedis, PassGate, InTime
    <3> QED
      BY <3>1, <3>2, <3>4 DEF IsRevoked
  <2> QED
    BY <1>4, <2>1 DEF PassGate
<1>5. ASSUME NEW c \in Calls,
             AnswerWithoutSlot(c) \/ Consume(c) \/ Succeed(c) \/ Fail(c)
      PROVE  Shut'
  <2>1. stage[c] = "open" /\ c \notin barred
    BY <1>5 DEF AnswerWithoutSlot, Consume, Succeed, Fail
  <2>2. \A d \in Calls : d # c =>
          /\ status'[d] = status[d] /\ stage'[d] = stage[d] /\ answer'[d] = answer[d]
          /\ place'[d] = place[d] /\ jti'[d] = jti[d]
    BY <1>5 DEF AnswerWithoutSlot, Consume, Succeed, Fail, Replay, Refuse, Grant,
                Release, Answer, Answered
  <2>3. barred' = barred /\ UNCHANGED revocations
    BY <1>5 DEF AnswerWithoutSlot, Consume, Succeed, Fail
  <2> QED
    BY <2>1, <2>2, <2>3
<1>6. ASSUME NEW c \in Calls, NEW lang \in {"ts", "py"}, Deliver(c, lang)
      PROVE  Shut'
  BY <1>6 DEF Deliver
<1>7. ASSUME NEW g \in Gateways, Crash(g)
      PROVE  Shut'
  BY <1>7 DEF Crash
<1>8. ASSUME NEW g \in Gateways, NEW t \in Tokens, Revoke(g, t)
      PROVE  Shut'
  BY <1>8 DEF Revoke
<1>9. CASE Tick
  BY <1>9 DEF Tick
<1>10. CASE UNCHANGED fleetVars
  BY <1>10 DEF fleetVars
<1> QED
  BY <1>1, <1>2, <1>3, <1>4, <1>5, <1>6, <1>7, <1>8, <1>9, <1>10 DEF FleetNext

-----------------------------------------------------------------------------
(* Theorems *)

\* The fleet starts idle, with nothing revoked and nothing barred.
LEMMA FleetStart == FleetInit => FleetTypeOK /\ InStep /\ KeyOutlivesToken /\ Shut
<1> SUFFICES ASSUME FleetInit
             PROVE  FleetTypeOK /\ InStep /\ KeyOutlivesToken /\ Shut
  OBVIOUS
<1>1. TypeOK
  BY DEF FleetInit, Init, TypeOK, Statuses
<1>2. FleetTypeOK
  BY <1>1, FleetTimeAssumption DEF FleetInit, FleetTypeOK
<1>3. InStep
  BY DEF FleetInit, Init, InStep
<1>4. KeyOutlivesToken /\ Shut
  BY DEF FleetInit, KeyOutlivesToken, Shut
<1> QED
  BY <1>2, <1>3, <1>4

\* Every variable of the fleet keeps its type.
THEOREM FleetTypes == FleetSpec => []FleetTypeOK
  BY FleetStart, FleetTypeStep, PTL DEF FleetSpec

\* What a client hears is what happened to the quota: it is told that its tool
\* ran exactly when the call still holds its slot, whatever crashed, was lost
\* or was sent again (app.ts, client.ts, client.py).
THEOREM FleetToldIsKept == FleetSpec => []ToldIsKept
<1>1. FleetTypeOK /\ InStep => ToldIsKept
  BY NoneIsNothing DEF FleetTypeOK, InStep, ToldIsKept
<1> QED
  BY <1>1, FleetStart, FleetTypeStep, InStepStep, PTL DEF FleetSpec

\* A token revoked through any gateway takes no more slots through any gateway
\* of the fleet, when the TTL of the revocation keys covers the tokens' life.
THEOREM FleetRevocation ==
  ASSUME AlignedTtl
  PROVE  FleetSpec => []RevokedStaysOut
<1> DEFINE FInv == FleetTypeOK /\ InStep /\ KeyOutlivesToken /\ Shut
<1>1. FleetInit => FInv
  BY FleetStart
<1>2. FInv /\ [FleetNext]_fleetVars => FInv'
  BY AlignedTtl, FleetTypeStep, InStepStep, KeyStep, ShutStep
<1>3. FInv => RevokedStaysOut
  BY DEF Shut, RevokedStaysOut
<1> QED
  BY <1>1, <1>2, <1>3, PTL DEF FleetSpec
=============================================================================
