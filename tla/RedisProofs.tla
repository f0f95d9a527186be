------------------------------ MODULE RedisProofs ------------------------------
(***************************************************************************)
(* The Redis store implements the atomic store, for any number of calls,   *)
(* tokens and requestIds, wherever clients fail and EXPIREs are lost, if   *)
(* the keys outlive what a token can still do (AlignedTtl).                *)
(*                                                                         *)
(* The argument: a key that is there holds exactly what the calls that     *)
(* have a slot make of it (Counted, Recorded); a key that has been deleted *)
(* while it held something was deleted so late that no script asks for a   *)
(* slot any more (Late); and a requestId is on record when a second call   *)
(* comes with it, so no two calls have a slot under one (Unique), which is *)
(* why the SREM of a release forgets the id of that call only.             *)
(***************************************************************************)
EXTENDS RedisConsumption, FiniteSetTheorems, TLAPS

StoreProofs == INSTANCE ConsumptionStoreProofs
                 WITH count <- [t \in Tokens |-> CountOf(t)],
                      seen <- [t \in Tokens |-> SeenOf(t)]

-----------------------------------------------------------------------------
(* Types *)

\* A call that has been made names a token; one that owes an EXPIRE, too.
Named ==
  \A c \in Calls :
    /\ status[c] # "idle" => jti[c] \in Tokens
    /\ expiring[c] # {} => status[c] # "idle"

\* Every step keeps the types (the scripts, EXPIRE, failures and time).
LEMMA TypeStep == TypeOK /\ Named /\ [Next]_vars => (TypeOK /\ Named)'
<1> SUFFICES ASSUME TypeOK, Named, [Next]_vars
             PROVE  TypeOK' /\ Named'
  OBVIOUS
<1> USE TimeAssumption DEF TypeOK, Named, Statuses, KeyNames, keys
<1>1. ASSUME NEW c \in Calls, NEW t \in Tokens, NEW q \in RequestIds \cup {None},
             Call(c, t, q)
      PROVE  TypeOK' /\ Named'
  BY <1>1 DEF Call
<1>2. ASSUME NEW c \in Calls, Replay(c) \/ Refuse(c)
      PROVE  TypeOK' /\ Named'
  BY <1>2 DEF Replay, Refuse, Answer, Touched
<1>3. ASSUME NEW c \in Calls, Grant(c)
      PROVE  TypeOK' /\ Named'
  <2>1. jti[c] \in Tokens /\ Current(jti[c]) \in Nat
    BY <1>3, NoneAssumption DEF Grant, Answer, Current
  <2>2. counter' \in [Tokens -> Nat \cup {None}]
    BY <1>3, <2>1 DEF Grant
  <2>3. reqs' \in [Tokens -> SUBSET RequestIds]
    BY <1>3, <2>1 DEF Grant, Noted
  <2>4. deadline' \in [KeyNames \X Tokens -> Nat \cup {None}]
    BY <1>3, <2>1 DEF Grant
  <2> QED
    BY <1>3, <2>2, <2>3, <2>4 DEF Grant, Answer, Touched
<1>4. ASSUME NEW c \in Calls, Release(c)
      PROVE  TypeOK' /\ Named'
  <2>1. jti[c] \in Tokens
    BY <1>4 DEF Release
  <2>2. counter' \in [Tokens -> Nat \cup {None}]
    BY <1>4, <2>1, NoneAssumption DEF Release, Current
  <2>3. reqs' \in [Tokens -> SUBSET RequestIds]
    BY <1>4, <2>1 DEF Release, Remaining
  <2>4. deadline' \in [KeyNames \X Tokens -> Nat \cup {None}]
    BY <1>4, <2>1 DEF Release, DeadlineOfReqs
  <2> QED
    BY <1>4, <2>2, <2>3, <2>4 DEF Release, Touched
<1>5. ASSUME NEW c \in Calls, NEW k \in KeyNames, Expire(c, k)
      PROVE  TypeOK' /\ Named'
  <2>1. deadline' \in [KeyNames \X Tokens -> Nat \cup {None}]
    BY <1>5 DEF Expire
  <2> QED
    BY <1>5, <2>1 DEF Expire
<1>6. ASSUME NEW c \in Calls, ClientFails(c)
      PROVE  TypeOK' /\ Named'
  BY <1>6 DEF ClientFails
<1>7. CASE Tick
  BY <1>7 DEF Tick
<1>8. CASE UNCHANGED vars
  BY <1>8 DEF vars
<1> QED
  BY <1>1, <1>2, <1>3, <1>4, <1>5, <1>6, <1>7, <1>8 DEF Next

\* No keys at first.
LEMMA TypeInit == Init => TypeOK /\ Named
BY TimeAssumption DEF Init, TypeOK, Named, Statuses

\* The keys and the calls keep their types, whatever the TTL.
THEOREM RedisTypes == Spec => []TypeOK
  BY TypeInit, TypeStep, PTL DEF Spec

-----------------------------------------------------------------------------
(* Keys and the calls that hold a slot *)

\* No script asks for a slot any more.
Late == now > Lifetime + Tolerance + Latency

\* The requestIds of the calls that hold a slot of token t.
IdsOf(t) == {rid[c] : c \in HoldersOf(t)} \ {None}

Counted ==
  \A t \in Tokens :
    /\ counter[t] # None => counter[t] = Cardinality(HoldersOf(t))
    /\ counter[t] = None => Late \/ HoldersOf(t) = {}
Recorded ==
  \A t \in Tokens :
    /\ reqs[t] # {} => reqs[t] = IdsOf(t)
    /\ reqs[t] = {} => Late \/ IdsOf(t) = {}
Unique ==
  \A c, d \in Calls :
    /\ status[c] = "granted" /\ status[d] = "granted"
    /\ jti[c] = jti[d] /\ rid[c] = rid[d] /\ rid[c] # None
    => c = d
Deadlines ==
  \A k \in KeyNames \X Tokens :
    deadline[k] # None => deadline[k] > Lifetime + Tolerance + Latency

KeyInv == TypeOK /\ Named /\ Counted /\ Recorded /\ Unique /\ Deadlines

\* There are finitely many calls.
LEMMA HoldersFinite ==
  \A t \in Tokens : IsFiniteSet(HoldersOf(t)) /\ Cardinality(HoldersOf(t)) \in Nat
<1>1. \A t \in Tokens : HoldersOf(t) \subseteq Calls
  BY DEF HoldersOf
<1> QED
  BY <1>1, CallsAssumption, FS_Subset, FS_CardinalityType

\* What the keys stand for is what the holders make of them.
LEMMA KeyViews ==
  ASSUME KeyInv, NEW t \in Tokens
  PROVE  CountOf(t) = Cardinality(HoldersOf(t)) /\ SeenOf(t) = IdsOf(t)
BY DEF KeyInv, Counted, Recorded, CountOf, SeenOf, IdsOf

\* While scripts may still ask for a slot, the keys say it themselves.
LEMMA EarlyViews ==
  ASSUME KeyInv, ~Late, NEW t \in Tokens
  PROVE  Current(t) = Cardinality(HoldersOf(t)) /\ reqs[t] = IdsOf(t)
<1>1. Cardinality({}) = 0
  BY FS_EmptySet
<1> QED
  BY <1>1 DEF KeyInv, Counted, Recorded, Current

\* A step that neither grants nor releases keeps the holders and their ids.
LEMMA SameHolders ==
  ASSUME \A d \in Calls : status'[d] = "granted" <=> status[d] = "granted",
         \A d \in Calls : status[d] = "granted" => jti'[d] = jti[d] /\ rid'[d] = rid[d]
  PROVE  \A t \in Tokens : HoldersOf(t)' = HoldersOf(t) /\ IdsOf(t)' = IdsOf(t)
<1>1. \A t \in Tokens : HoldersOf(t)' = HoldersOf(t)
  BY DEF HoldersOf
<1>2. \A t \in Tokens : \A d \in HoldersOf(t) : rid'[d] = rid[d]
  BY DEF HoldersOf
<1> QED
  BY <1>1, <1>2 DEF IdsOf

\* A call that gets a slot joins the holders of its token.
LEMMA HoldersGrow ==
  ASSUME TypeOK, NEW c \in Calls, status[c] = "called", jti[c] \in Tokens,
         status' = [status EXCEPT ![c] = "granted"], UNCHANGED <<jti, rid>>
  PROVE  /\ Cardinality(HoldersOf(jti[c])') = Cardinality(HoldersOf(jti[c])) + 1
         /\ IdsOf(jti[c])' = IdsOf(jti[c]) \cup Noted(c)
         /\ \A u \in Tokens \ {jti[c]} : HoldersOf(u)' = HoldersOf(u) /\ IdsOf(u)' = IdsOf(u)
<1> DEFINE t == jti[c]
<1>1. HoldersOf(t)' = HoldersOf(t) \cup {c} /\ c \notin HoldersOf(t)
  BY DEF HoldersOf, TypeOK
<1>2. Cardinality(HoldersOf(t)') = Cardinality(HoldersOf(t)) + 1
  BY <1>1, HoldersFinite, FS_AddElement
<1>3. IdsOf(t)' = IdsOf(t) \cup Noted(c)
  BY <1>1 DEF IdsOf, Noted
<1>4. \A u \in Tokens \ {t} : HoldersOf(u)' = HoldersOf(u)
  BY DEF HoldersOf, TypeOK
<1>5. \A u \in Tokens \ {t} : IdsOf(u)' = IdsOf(u)
  BY <1>4 DEF IdsOf
<1> QED
  BY <1>2, <1>3, <1>4, <1>5

\* A call that gives its slot back leaves them, and takes its id along.
LEMMA HoldersShrink ==
  ASSUME TypeOK, Unique, NEW c \in Calls, status[c] = "granted", jti[c] \in Tokens,
         status' = [status EXCEPT ![c] = "released"], UNCHANGED <<jti, rid>>
  PROVE  /\ Cardinality(HoldersOf(jti[c])') = Cardinality(HoldersOf(jti[c])) - 1
         /\ Cardinality(HoldersOf(jti[c])) > 0
         /\ HoldersOf(jti[c]) # {}
         /\ IdsOf(jti[c])' = IdsOf(jti[c]) \ {rid[c]}
         /\ \A u \in Tokens \ {jti[c]} : HoldersOf(u)' = HoldersOf(u) /\ IdsOf(u)' = IdsOf(u)
<1> DEFINE t == jti[c]
<1>1. HoldersOf(t)' = HoldersOf(t) \ {c} /\ c \in HoldersOf(t)
  BY DEF HoldersOf, TypeOK
<1>2. /\ Cardinality(HoldersOf(t)') = Cardinality(HoldersOf(t)) - 1
      /\ Cardinality(HoldersOf(t)) \in Nat
  BY <1>1, HoldersFinite, FS_RemoveElement
<1>3. Cardinality(HoldersOf(t)) # 0
  BY <1>1, HoldersFinite, FS_EmptySet
<1>4. \A d \in HoldersOf(t) \ {c} : rid[d] # None => rid[d] # rid[c]
  BY <1>1 DEF Unique, HoldersOf
<1>5. IdsOf(t)' = IdsOf(t) \ {rid[c]}
  BY <1>1, <1>4 DEF IdsOf
<1>6. \A u \in Tokens \ {t} : HoldersOf(u)' = HoldersOf(u)
  BY DEF HoldersOf, TypeOK
<1>7. \A u \in Tokens \ {t} : IdsOf(u)' = IdsOf(u)
  BY <1>6 DEF IdsOf
<1> QED
  BY <1>1, <1>2, <1>3, <1>5, <1>6, <1>7
-----------------------------------------------------------------------------
(* Every step keeps the keys true to the calls *)

\* A step that changes neither keys nor holders, nor sets a deadline early.
LEMMA QuietStep ==
  ASSUME KeyInv, (TypeOK /\ Named)', UNCHANGED <<counter, reqs>>, now' = now, Deadlines',
         \A d \in Calls : status'[d] = "granted" <=> status[d] = "granted",
         \A d \in Calls : status[d] = "granted" => jti'[d] = jti[d] /\ rid'[d] = rid[d]
  PROVE  KeyInv'
<1>1. \A t \in Tokens : HoldersOf(t)' = HoldersOf(t) /\ IdsOf(t)' = IdsOf(t)
  BY SameHolders
<1>2. Counted'
  BY <1>1 DEF KeyInv, Counted, Late
<1>3. Recorded'
  BY <1>1 DEF KeyInv, Recorded, Late
<1>4. Unique'
  BY DEF KeyInv, Unique
<1> QED
  BY <1>2, <1>3, <1>4 DEF KeyInv

\* tryConsume gives a slot: the keys were there or empty, and count it.
LEMMA GrantStep ==
  ASSUME KeyInv, (TypeOK /\ Named)', NEW c \in Calls, Grant(c)
  PROVE  KeyInv'
<1> DEFINE t == jti[c]
<1>1. /\ status[c] = "called" /\ status' = [status EXCEPT ![c] = "granted"]
      /\ UNCHANGED <<jti, rid, now>> /\ ~Late /\ t \in Tokens /\ TypeOK
  BY TimeAssumption DEF Grant, Answer, KeyInv, Named, Late, TypeOK
<1>2. /\ Current(t) = Cardinality(HoldersOf(t)) /\ reqs[t] = IdsOf(t)
      /\ Cardinality(HoldersOf(t)) \in Nat
  BY <1>1, EarlyViews, HoldersFinite
<1>3. /\ Cardinality(HoldersOf(t)') = Cardinality(HoldersOf(t)) + 1
      /\ IdsOf(t)' = IdsOf(t) \cup Noted(c)
      /\ \A u \in Tokens \ {t} : HoldersOf(u)' = HoldersOf(u) /\ IdsOf(u)' = IdsOf(u)
  BY <1>1, HoldersGrow
<1>4. /\ counter' = [counter EXCEPT ![t] = Current(t) + 1]
      /\ reqs' = [reqs EXCEPT ![t] = reqs[t] \cup Noted(c)]
      /\ deadline' = [deadline EXCEPT ![<<"count", t>>] = None]
  BY DEF Grant
<1>5. Counted'
  <2>1. counter'[t] = Cardinality(HoldersOf(t)') /\ counter'[t] # None
    BY <1>1, <1>2, <1>3, <1>4, NoneAssumption DEF TypeOK
  <2>2. \A u \in Tokens \ {t} : counter'[u] = counter[u]
    BY <1>1, <1>4 DEF TypeOK
  <2> QED
    BY <1>1, <1>3, <2>1, <2>2 DEF KeyInv, Counted, Late
<1>6. Recorded'
  <2>1. reqs'[t] = IdsOf(t)'
    BY <1>1, <1>2, <1>3, <1>4 DEF TypeOK
  <2>2. \A u \in Tokens \ {t} : reqs'[u] = reqs[u]
    BY <1>1, <1>4 DEF TypeOK
  <2> QED
    BY <1>1, <1>3, <2>1, <2>2 DEF KeyInv, Recorded, Late
<1>7. Unique'
  <2>1. ASSUME NEW d \in Calls, status[d] = "granted", jti[d] = t, rid[d] = rid[c],
               rid[c] # None
        PROVE  FALSE
    <3>1. rid[d] \in reqs[t]
      BY <1>2, <2>1 DEF IdsOf, HoldersOf
    <3> QED
      BY <2>1, <3>1 DEF Grant, Known
  <2> QED
    BY <1>1, <2>1 DEF KeyInv, Unique, TypeOK
<1>8. Deadlines'
  BY <1>1, <1>4 DEF KeyInv, Deadlines, TypeOK
<1> QED
  BY <1>5, <1>6, <1>7, <1>8 DEF KeyInv

\* release gives one back: a key that is there counts one less, a key that has
\* been deleted is not made again.
LEMMA ReleaseStep ==
  ASSUME KeyInv, (TypeOK /\ Named)', NEW c \in Calls, Release(c)
  PROVE  KeyInv'
<1> DEFINE t == jti[c]
<1>1. /\ status[c] = "granted" /\ status' = [status EXCEPT ![c] = "released"]
      /\ UNCHANGED <<jti, rid, now>> /\ t \in Tokens /\ TypeOK /\ Unique
  BY DEF Release, KeyInv, Named
<1>2. /\ Cardinality(HoldersOf(t)') = Cardinality(HoldersOf(t)) - 1
      /\ Cardinality(HoldersOf(t)) > 0 /\ HoldersOf(t) # {}
      /\ IdsOf(t)' = IdsOf(t) \ {rid[c]}
      /\ \A u \in Tokens \ {t} : HoldersOf(u)' = HoldersOf(u) /\ IdsOf(u)' = IdsOf(u)
  BY <1>1, HoldersShrink
<1>3. /\ counter' = [counter EXCEPT ![t] = IF Current(t) > 0 THEN counter[t] - 1 ELSE counter[t]]
      /\ reqs' = [reqs EXCEPT ![t] = reqs[t] \ {rid[c]}]
      /\ deadline' = [deadline EXCEPT ![<<"reqs", t>>] = DeadlineOfReqs(t, Remaining(c))]
  BY DEF Release, Remaining
<1>4. Counted'
  <2>1. CASE counter[t] = None
    <3>1. counter'[t] = None /\ Late
      BY <1>1, <1>2, <1>3, <2>1 DEF Current, KeyInv, Counted, TypeOK
    <3>2. \A u \in Tokens \ {t} : counter'[u] = counter[u]
      BY <1>1, <1>3 DEF TypeOK
    <3> QED
      BY <1>1, <1>2, <3>1, <3>2 DEF KeyInv, Counted, Late
  <2>2. CASE counter[t] # None
    <3>1. counter[t] = Cardinality(HoldersOf(t)) /\ counter[t] \in Nat
      BY <1>1, <2>2 DEF KeyInv, Counted, TypeOK
    <3>2. counter'[t] = Cardinality(HoldersOf(t)') /\ counter'[t] # None
      BY <1>1, <1>2, <1>3, <2>2, <3>1, NoneAssumption DEF Current, TypeOK
    <3>3. \A u \in Tokens \ {t} : counter'[u] = counter[u]
      BY <1>1, <1>3 DEF TypeOK
    <3> QED
      BY <1>1, <1>2, <3>2, <3>3 DEF KeyInv, Counted, Late
  <2> QED
    BY <2>1, <2>2
<1>5. Recorded'
  <2>1. reqs'[t] = reqs[t] \ {rid[c]} /\ \A u \in Tokens \ {t} : reqs'[u] = reqs[u]
    BY <1>1, <1>3 DEF TypeOK
  <2>2. reqs[t] = IdsOf(t) \/ (reqs[t] = {} /\ Late)
    BY <1>1 DEF KeyInv, Recorded
  <2> QED
    BY <1>1, <1>2, <2>1, <2>2 DEF KeyInv, Recorded, Late
<1>6. Unique'
  BY <1>1 DEF KeyInv, Unique, TypeOK
<1>7. Deadlines'
  BY <1>1, <1>3 DEF KeyInv, Deadlines, TypeOK, DeadlineOfReqs, KeyNames
<1> QED
  BY <1>4, <1>5, <1>6, <1>7 DEF KeyInv

\* Time passes: a key whose deadline has come is deleted late.
LEMMA TickStep ==
  ASSUME KeyInv, (TypeOK /\ Named)', Tick
  PROVE  KeyInv'
<1> USE TimeAssumption
<1>1. now' = now + 1 /\ now \in Nat /\ UNCHANGED <<status, jti, rid>>
  BY DEF Tick, KeyInv, TypeOK
<1>2. Late => Late'
  BY <1>1 DEF Late
<1>3. ASSUME NEW k \in KeyNames, NEW t \in Tokens, Due(k, t, now')
      PROVE  Late'
  <2>1. /\ deadline[<<k, t>>] # None /\ deadline[<<k, t>>] <= now'
        /\ deadline[<<k, t>>] > Lifetime + Tolerance + Latency
        /\ deadline[<<k, t>>] \in Nat
    BY <1>3 DEF Due, KeyInv, Deadlines, TypeOK
  <2> QED
    BY <1>1, <2>1 DEF Late
<1>4. \A t \in Tokens : HoldersOf(t)' = HoldersOf(t) /\ IdsOf(t)' = IdsOf(t)
  BY <1>1, SameHolders
<1>5. \A t \in Tokens :
        \/ counter'[t] = counter[t]
        \/ counter'[t] = None /\ Due("count", t, now')
  BY DEF Tick
<1>6. Counted'
  BY <1>2, <1>3, <1>4, <1>5 DEF KeyInv, Counted, KeyNames
<1>7. \A t \in Tokens :
        \/ reqs'[t] = reqs[t]
        \/ reqs'[t] = {} /\ Due("reqs", t, now')
  BY DEF Tick
<1>8. Recorded'
  BY <1>2, <1>3, <1>4, <1>7 DEF KeyInv, Recorded, KeyNames
<1>9. Unique'
  BY <1>1 DEF KeyInv, Unique
<1>10. Deadlines'
  BY DEF Tick, KeyInv, Deadlines
<1> QED
  BY <1>6, <1>8, <1>9, <1>10 DEF KeyInv

\* Every step keeps the keys true to the calls, if the TTL is long enough.
LEMMA KeyStep == AlignedTtl /\ KeyInv /\ [Next]_vars => KeyInv'
<1> SUFFICES ASSUME AlignedTtl, KeyInv, [Next]_vars
             PROVE  KeyInv'
  OBVIOUS
<1>0. (TypeOK /\ Named)' /\ TypeOK /\ Named /\ Deadlines
  BY TypeStep DEF KeyInv
<1>1. ASSUME NEW c \in Calls, NEW t \in Tokens, NEW q \in RequestIds \cup {None},
             Call(c, t, q)
      PROVE  KeyInv'
  BY <1>0, <1>1, QuietStep DEF Call, keys, TypeOK, Deadlines
<1>2. ASSUME NEW c \in Calls, Replay(c) \/ Refuse(c)
      PROVE  KeyInv'
  BY <1>0, <1>2, QuietStep DEF Replay, Refuse, Answer, keys, TypeOK, Deadlines
<1>3. ASSUME NEW c \in Calls, Grant(c)
      PROVE  KeyInv'
  BY <1>0, <1>3, GrantStep
<1>4. ASSUME NEW c \in Calls, Release(c)
      PROVE  KeyInv'
  BY <1>0, <1>4, ReleaseStep
<1>5. ASSUME NEW c \in Calls, NEW k \in KeyNames, Expire(c, k)
      PROVE  KeyInv'
  <2>1. now + Ttl > Lifetime + Tolerance + Latency
    BY <1>0, TimeAssumption DEF AlignedTtl, TypeOK
  <2>2. Deadlines'
    BY <1>0, <1>5, <2>1 DEF Expire, Deadlines, TypeOK
  <2> QED
    BY <1>0, <1>5, <2>2, QuietStep DEF Expire
<1>6. ASSUME NEW c \in Calls, ClientFails(c)
      PROVE  KeyInv'
  BY <1>0, <1>6, QuietStep DEF ClientFails, keys, Deadlines
<1>7. CASE Tick
  BY <1>0, <1>7, TickStep
<1>8. CASE UNCHANGED vars
  BY <1>0, <1>8, QuietStep DEF vars, keys, Deadlines
<1> QED
  BY <1>1, <1>2, <1>3, <1>4, <1>5, <1>6, <1>7, <1>8 DEF Next

\* No call has a slot at first and no key is there.
LEMMA KeyInit == Init => KeyInv
<1> SUFFICES ASSUME Init
             PROVE  KeyInv
  OBVIOUS
<1>1. \A t \in Tokens : HoldersOf(t) = {} /\ IdsOf(t) = {}
  BY DEF Init, HoldersOf, IdsOf
<1>2. Counted /\ Recorded
  BY <1>1 DEF Init, Counted, Recorded
<1>3. Unique /\ Deadlines
  BY DEF Init, Unique, Deadlines
<1> QED
  BY <1>2, <1>3, TypeInit DEF KeyInv
-----------------------------------------------------------------------------
(* Refinement of the atomic store *)

CountView == [t \in Tokens |-> CountOf(t)]
SeenView == [t \in Tokens |-> SeenOf(t)]

\* No keys are an empty store.
LEMMA StoreInit == Init => Store!Init
<1> SUFFICES ASSUME Init
             PROVE  Store!Init
  OBVIOUS
<1>1. \A t \in Tokens : HoldersOf(t) = {} /\ Cardinality({}) = 0
  BY FS_EmptySet DEF Init, HoldersOf
<1>2. \A t \in Tokens : CountOf(t) = 0 /\ SeenOf(t) = {}
  BY <1>1 DEF Init, CountOf, SeenOf
<1> QED
  BY <1>2 DEF Init, Store!Init

\* What the store's callers see of the keys is the holders' doing, before the
\* step and after it.
LEMMA ViewsOfHolders ==
  ASSUME KeyInv
  PROVE  /\ CountView = [t \in Tokens |-> Cardinality(HoldersOf(t))]
         /\ SeenView = [t \in Tokens |-> IdsOf(t)]
BY KeyViews DEF CountView, SeenView

LEMMA ViewsOfHoldersNext ==
  ASSUME KeyInv'
  PROVE  /\ CountView' = [t \in Tokens |-> Cardinality(HoldersOf(t)')]
         /\ SeenView' = [t \in Tokens |-> IdsOf(t)']
<1>1. \A t \in Tokens : CountOf(t)' = Cardinality(HoldersOf(t)')
  BY DEF KeyInv, Counted, CountOf
<1>2. \A t \in Tokens : SeenOf(t)' = IdsOf(t)'
  BY DEF KeyInv, Recorded, SeenOf, IdsOf
<1> QED
  BY <1>1, <1>2 DEF CountView, SeenView

\* A step that keeps the holders shows the store nothing, expired keys included.
LEMMA SameView ==
  ASSUME KeyInv, KeyInv',
         \A d \in Calls : status'[d] = "granted" <=> status[d] = "granted",
         \A d \in Calls : status[d] = "granted" => jti'[d] = jti[d] /\ rid'[d] = rid[d]
  PROVE  UNCHANGED <<CountView, SeenView>>
<1>1. \A t \in Tokens : HoldersOf(t)' = HoldersOf(t) /\ IdsOf(t)' = IdsOf(t)
  BY SameHolders
<1> QED
  BY <1>1, ViewsOfHolders, ViewsOfHoldersNext

\* The replay check and the limit of the script are those of the store.
LEMMA SameGuards ==
  ASSUME KeyInv, ~Late, NEW c \in Calls, jti[c] \in Tokens
  PROVE  /\ Store!Known(c) <=> Known(c)
         /\ Store!UnderLimit(jti[c]) <=> ~AtLimit(jti[c])
<1> DEFINE t == jti[c]
<1>1. /\ Current(t) = CountOf(t) /\ reqs[t] = SeenOf(t)
      /\ CountOf(t) \in Nat
  BY EarlyViews, KeyViews, HoldersFinite
<1>2. Limit[t] # Unlimited => Limit[t] \in Nat
  BY LimitAssumption
<1> QED
  BY <1>1, <1>2 DEF Store!Known, Known, Store!UnderLimit, AtLimit

\* A call that the script answers is one that was made, and in time.
LEMMA AnsweredEarly ==
  ASSUME KeyInv, NEW c \in Calls, NEW answer, Answer(c, answer)
  PROVE  /\ ~Late /\ jti[c] \in Tokens
         /\ Store!Answer(c, answer)
BY TimeAssumption DEF KeyInv, TypeOK, Named, Answer, Late, Store!Answer

\* Every step is an operation of the atomic store, or hidden from its callers.
LEMMA RefinementStep ==
  KeyInv /\ KeyInv' /\ [Next]_vars => [Store!Next]_(Store!vars)
<1> SUFFICES ASSUME KeyInv, KeyInv', [Next]_vars
             PROVE  Store!Next \/ UNCHANGED Store!vars
  OBVIOUS
<1>0. TypeOK /\ Named /\ Unique
  BY DEF KeyInv
<1>1. ASSUME NEW c \in Calls, NEW t \in Tokens, NEW q \in RequestIds \cup {None},
             Call(c, t, q)
      PROVE  Store!Next
  <2>1. UNCHANGED <<CountView, SeenView>>
    BY <1>0, <1>1, SameView DEF Call, TypeOK
  <2>2. Store!Call(c, t, q)
    BY <1>1, <2>1 DEF Call, Store!Call, CountView, SeenView
  <2> QED
    BY <2>2 DEF Store!Next
<1>2. ASSUME NEW c \in Calls, Replay(c) \/ Refuse(c)
      PROVE  Store!Next
  <2>1. UNCHANGED <<CountView, SeenView>>
    BY <1>0, <1>2, SameView DEF Replay, Refuse, Answer, TypeOK
  <2>2. CASE Replay(c)
    <3>1. Store!Replay(c)
      BY <2>1, <2>2, AnsweredEarly, SameGuards
      DEF Replay, Store!Replay, CountView, SeenView
    <3> QED
      BY <3>1 DEF Store!Next
  <2>3. CASE Refuse(c)
    <3>1. Store!Refuse(c)
      BY <2>1, <2>3, AnsweredEarly, SameGuards
      DEF Refuse, Store!Refuse, CountView, SeenView
    <3> QED
      BY <3>1 DEF Store!Next
  <2> QED
    BY <1>2, <2>2, <2>3
<1>3. ASSUME NEW c \in Calls, Grant(c)
      PROVE  Store!Next
  <2>1. /\ ~Late /\ jti[c] \in Tokens /\ UNCHANGED <<jti, rid>>
        /\ Store!Answer(c, "granted")
    BY <1>3, AnsweredEarly DEF Grant, Answer
  <2>2. ~Store!Known(c) /\ Store!UnderLimit(jti[c])
    BY <1>3, <2>1, SameGuards DEF Grant
  <2>3. /\ Cardinality(HoldersOf(jti[c])') = Cardinality(HoldersOf(jti[c])) + 1
        /\ IdsOf(jti[c])' = IdsOf(jti[c]) \cup Noted(c)
        /\ \A u \in Tokens \ {jti[c]} :
             HoldersOf(u)' = HoldersOf(u) /\ IdsOf(u)' = IdsOf(u)
    BY <1>0, <1>3, <2>1, HoldersGrow DEF Grant, Answer
  <2>4. CountView' = [CountView EXCEPT ![jti[c]] = CountView[jti[c]] + 1]
    BY <2>1, <2>3, ViewsOfHolders, ViewsOfHoldersNext
  <2>5. SeenView' = [SeenView EXCEPT ![jti[c]] = SeenView[jti[c]] \cup Noted(c)]
    BY <2>1, <2>3, ViewsOfHolders, ViewsOfHoldersNext
  <2>6. Store!Grant(c)
    BY <2>1, <2>2, <2>4, <2>5
    DEF Store!Grant, Store!Recorded, Noted, CountView, SeenView
  <2> QED
    BY <2>6 DEF Store!Next
<1>4. ASSUME NEW c \in Calls, Release(c)
      PROVE  Store!Next
  <2>1. /\ status[c] = "granted" /\ status' = [status EXCEPT ![c] = "released"]
        /\ UNCHANGED <<jti, rid>> /\ jti[c] \in Tokens
    BY <1>0, <1>4 DEF Release, Named
  <2>2. /\ Cardinality(HoldersOf(jti[c])') = Cardinality(HoldersOf(jti[c])) - 1
        /\ Cardinality(HoldersOf(jti[c])) > 0
        /\ IdsOf(jti[c])' = IdsOf(jti[c]) \ {rid[c]}
        /\ \A u \in Tokens \ {jti[c]} :
             HoldersOf(u)' = HoldersOf(u) /\ IdsOf(u)' = IdsOf(u)
    BY <1>0, <2>1, HoldersShrink
  <2>3. CountView' = [CountView EXCEPT ![jti[c]] =
                        IF CountView[jti[c]] > 0 THEN CountView[jti[c]] - 1
                        ELSE CountView[jti[c]]]
    BY <2>1, <2>2, ViewsOfHolders, ViewsOfHoldersNext
  <2>4. SeenView' = [SeenView EXCEPT ![jti[c]] = SeenView[jti[c]] \ {rid[c]}]
    BY <2>1, <2>2, ViewsOfHolders, ViewsOfHoldersNext
  <2>5. Store!Release(c)
    BY <2>1, <2>3, <2>4
    DEF Store!Release, Store!Decremented, Store!Forgotten, CountView, SeenView
  <2> QED
    BY <2>5 DEF Store!Next
<1>5. ASSUME UNCHANGED <<status, jti, rid>>
      PROVE  UNCHANGED Store!vars
  <2>1. UNCHANGED <<CountView, SeenView>>
    BY <1>5, SameView
  <2> QED
    BY <1>5, <2>1 DEF Store!vars, CountView, SeenView
<1>6. ASSUME NEW c \in Calls, NEW k \in KeyNames, Expire(c, k)
      PROVE  UNCHANGED Store!vars
  BY <1>5, <1>6 DEF Expire
<1>7. ASSUME NEW c \in Calls, ClientFails(c)
      PROVE  UNCHANGED Store!vars
  BY <1>5, <1>7 DEF ClientFails
<1>8. CASE Tick \/ UNCHANGED vars
  BY <1>5, <1>8 DEF Tick, vars
<1> QED
  BY <1>1, <1>2, <1>3, <1>4, <1>6, <1>7, <1>8 DEF Next

\* The Redis store is the atomic store, whatever EXPIREs are lost or late, if
\* its TTL covers what a token can still do (redis-consumption-store.ts).
THEOREM RedisImplementsStore ==
  ASSUME AlignedTtl
  PROVE  Spec => ImplementsStore
<1>1. KeyInv /\ [Next]_vars => KeyInv'
  BY AlignedTtl, KeyStep
<1> QED
  BY <1>1, KeyInit, StoreInit, RefinementStep, PTL DEF Spec, ImplementsStore, Store!Spec

-----------------------------------------------------------------------------
(* What the store promises, of Redis *)

\* The parameters of the Redis store are as the store assumes them.
LEMMA StoreParameters ==
  /\ StoreProofs!IsFiniteSet(Calls)
  /\ None \notin Tokens /\ None \notin RequestIds
  /\ Limit \in [Tokens -> Nat \cup {Unlimited}]
  /\ Unlimited \notin Nat
<1>1. StoreProofs!IsFiniteSet(Calls)
  BY CallsAssumption DEF IsFiniteSet, StoreProofs!IsFiniteSet
<1> QED
  BY <1>1, NoneAssumption, LimitAssumption

\* However many processes share the Redis, no more calls hold a slot of a token
\* than its max_actions, though its counter may be deleted on the way.
THEOREM RedisQuota ==
  ASSUME AlignedTtl
  PROVE  Spec => []Store!QuotaSafe
<1>1. KeyInv /\ [Next]_vars => KeyInv'
  BY AlignedTtl, KeyStep
<1>2. Init => StoreProofs!Init
  BY StoreInit DEF Store!Init, StoreProofs!Init
<1>3. KeyInv /\ KeyInv' /\ [Next]_vars => [StoreProofs!Next]_(StoreProofs!vars)
  BY RefinementStep
  DEF Store!Next, Store!Call, Store!Replay, Store!Refuse, Store!Grant, Store!Release,
      Store!Answer, Store!Known, Store!UnderLimit, Store!Recorded, Store!Forgotten,
      Store!Decremented, Store!vars,
      StoreProofs!Next, StoreProofs!Call, StoreProofs!Replay, StoreProofs!Refuse,
      StoreProofs!Grant, StoreProofs!Release, StoreProofs!Answer, StoreProofs!Known,
      StoreProofs!UnderLimit, StoreProofs!Recorded, StoreProofs!Forgotten,
      StoreProofs!Decremented, StoreProofs!vars
<1>4. StoreProofs!Init => StoreProofs!IInv
  BY StoreProofs!InitIInv, StoreParameters
<1>5. StoreProofs!IInv /\ [StoreProofs!Next]_(StoreProofs!vars) => StoreProofs!IInv'
  BY StoreProofs!NextIInv, StoreParameters
<1>6. StoreProofs!IInv => Store!QuotaSafe
  BY DEF StoreProofs!IInv, StoreProofs!QuotaSafe, Store!QuotaSafe,
         StoreProofs!Holders, Store!Holders, StoreProofs!Cardinality, Store!Cardinality
<1> QED
  BY KeyInit, <1>1, <1>2, <1>3, <1>4, <1>5, <1>6, PTL DEF Spec
=============================================================================
