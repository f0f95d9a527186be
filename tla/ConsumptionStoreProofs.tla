----------------------- MODULE ConsumptionStoreProofs -----------------------
(***************************************************************************)
(* The promise of a consumption store, proved for any number of calls,     *)
(* tokens, requestIds and any limits.                                      *)
(*                                                                         *)
(* None of the invariants is inductive alone.  The counter bounds the      *)
(* holders only because it equals their number; a release may forget the   *)
(* requestId of its call only because no other holder has the same one;    *)
(* and no other holder has it because the record lists exactly the ids of  *)
(* the holders when a slot is granted.  IInv is their conjunction.         *)
(***************************************************************************)
EXTENDS ConsumptionStore, FiniteSetTheorems, TLAPS

IInv ==
  /\ TypeOK
  /\ CountIsHolders
  /\ QuotaSafe
  /\ RecordIsHolders
  /\ OneHolderPerRequestId

\* There are finitely many holders of any token, since there are finitely many
\* calls (the calls of tryConsume a process or a fleet has ever made).
LEMMA HoldersFinite == \A t \in Tokens : IsFiniteSet(Holders(t))
<1>1. \A t \in Tokens : Holders(t) \subseteq Calls
  BY DEF Holders
<1> QED
  BY <1>1, CallsAssumption, FS_Subset

\* Every limit is a number or absent.
LEMMA LimitIsNat == \A t \in Tokens : Limit[t] # Unlimited => Limit[t] \in Nat
  BY LimitAssumption

\* The store starts with nothing consumed (the maps of the ledger are empty).
LEMMA InitIInv == Init => IInv
<1> SUFFICES ASSUME Init
             PROVE  IInv
  OBVIOUS
<1>1. TypeOK
  BY DEF Init, TypeOK, Statuses
<1>2. \A t \in Tokens : Holders(t) = {}
  BY DEF Init, Holders
<1>3. Cardinality({}) = 0
  BY FS_EmptySet
<1>4. CountIsHolders
  BY <1>2, <1>3 DEF CountIsHolders, Init
<1>5. QuotaSafe
  BY <1>2, <1>3, LimitIsNat DEF QuotaSafe
<1>6. RecordIsHolders
  BY <1>2 DEF RecordIsHolders, Init
<1>7. OneHolderPerRequestId
  BY DEF OneHolderPerRequestId, Init
<1> QED
  BY <1>1, <1>4, <1>5, <1>6, <1>7 DEF IInv

\* A step keeps every variable within its type (all operations).
LEMMA TypeStep == TypeOK /\ [Next]_vars => TypeOK'
<1> SUFFICES ASSUME TypeOK, [Next]_vars
             PROVE  TypeOK'
  OBVIOUS
<1> USE DEF TypeOK, Statuses
<1>1. ASSUME NEW c \in Calls, NEW t \in Tokens, NEW q \in RequestIds \cup {None},
             Call(c, t, q)
      PROVE  TypeOK'
  BY <1>1 DEF Call
<1>2. ASSUME NEW c \in Calls, Replay(c)
      PROVE  TypeOK'
  BY <1>2 DEF Replay, Answer
<1>3. ASSUME NEW c \in Calls, Refuse(c)
      PROVE  TypeOK'
  BY <1>3 DEF Refuse, Answer
<1>4. ASSUME NEW c \in Calls, Grant(c)
      PROVE  TypeOK'
  BY <1>4 DEF Grant, Answer, Recorded
<1>5. ASSUME NEW c \in Calls, Release(c)
      PROVE  TypeOK'
  BY <1>5 DEF Release, Forgotten, Decremented
<1>6. CASE UNCHANGED vars
  BY <1>6 DEF vars
<1> QED
  BY <1>1, <1>2, <1>3, <1>4, <1>5, <1>6 DEF Next

\* A step that grants and releases nothing keeps what the holders hold: it
\* leaves holders, their tokens and their requestIds, counters and records.
LEMMA QuietStep ==
  ASSUME IInv, TypeOK', UNCHANGED <<count, seen>>,
         \A d \in Calls : status[d] = "granted" <=> status'[d] = "granted",
         \A d \in Calls : status[d] = "granted" =>
                            jti'[d] = jti[d] /\ rid'[d] = rid[d]
  PROVE  IInv'
<1>1. \A t \in Tokens : Holders(t)' = Holders(t)
  BY DEF Holders
<1>2. CountIsHolders'
  BY <1>1 DEF IInv, CountIsHolders
<1>3. QuotaSafe'
  BY <1>1 DEF IInv, QuotaSafe
<1>4. RecordIsHolders'
  <2> SUFFICES ASSUME NEW t \in Tokens
               PROVE  seen'[t] = {rid'[d] : d \in Holders(t)} \ {None}
    BY <1>1 DEF RecordIsHolders
  <2>1. \A d \in Holders(t) : rid'[d] = rid[d]
    BY DEF Holders
  <2>2. seen[t] = {rid[d] : d \in Holders(t)} \ {None}
    BY DEF IInv, RecordIsHolders
  <2> QED
    BY <2>1, <2>2
<1>5. OneHolderPerRequestId'
  BY DEF IInv, OneHolderPerRequestId
<1> QED
  BY <1>2, <1>3, <1>4, <1>5 DEF IInv

\* Granting a slot: one more holder, one more counted, its requestId new.
LEMMA GrantStep ==
  ASSUME IInv, TypeOK', NEW c \in Calls, Grant(c)
  PROVE  IInv'
<1> DEFINE t == jti[c]
<1>1. /\ t \in Tokens
      /\ c \notin Holders(t)
      /\ status' = [status EXCEPT ![c] = "granted"]
      /\ jti' = jti /\ rid' = rid
  BY DEF Grant, Answer, Holders, IInv, TypeOK
<1>2. \A u \in Tokens :
        /\ u = t => Holders(u)' = Holders(u) \cup {c}
        /\ u # t => Holders(u)' = Holders(u)
  BY <1>1 DEF Holders, IInv, TypeOK
<1>3. \A u \in Tokens : u = t => Cardinality(Holders(u)') = Cardinality(Holders(u)) + 1
  BY <1>1, <1>2, HoldersFinite, FS_AddElement
<1>4. count' = [count EXCEPT ![t] = count[t] + 1]
  BY DEF Grant
<1>5. CountIsHolders'
  BY <1>1, <1>2, <1>3, <1>4 DEF IInv, CountIsHolders, TypeOK
<1>6. QuotaSafe'
  <2>1. Limit[t] # Unlimited => Cardinality(Holders(t)) + 1 <= Limit[t]
    BY <1>1, LimitIsNat DEF Grant, UnderLimit, IInv, CountIsHolders, TypeOK
  <2>2. ASSUME NEW u \in Tokens, Limit[u] # Unlimited
        PROVE  Cardinality(Holders(u)') <= Limit[u]
    <3>1. CASE u = t
      BY <1>3, <2>1, <2>2, <3>1
    <3>2. CASE u # t
      BY <1>2, <2>2, <3>2 DEF IInv, QuotaSafe
    <3> QED
      BY <3>1, <3>2
  <2> QED
    BY <2>2 DEF QuotaSafe
<1>7. RecordIsHolders'
  <2>1. seen' = [seen EXCEPT ![t] = seen[t] \cup ({rid[c]} \ {None})]
    BY DEF Grant, Recorded
  <2>2. ASSUME NEW u \in Tokens
        PROVE  seen'[u] = {rid[d] : d \in Holders(u)'} \ {None}
    <3>1. seen[u] = {rid[d] : d \in Holders(u)} \ {None}
      BY DEF IInv, RecordIsHolders
    <3>2. CASE u = t
      <4>1. {rid[d] : d \in Holders(t) \cup {c}} = {rid[d] : d \in Holders(t)} \cup {rid[c]}
        OBVIOUS
      <4>2. seen'[t] = seen[t] \cup ({rid[c]} \ {None})
        BY <1>1, <2>1 DEF IInv, TypeOK
      <4> QED
        BY <1>2, <3>1, <3>2, <4>1, <4>2
    <3>3. CASE u # t
      BY <1>2, <2>1, <3>1, <3>3 DEF IInv, TypeOK
    <3> QED
      BY <3>2, <3>3
  <2> QED
    BY <1>1, <2>2 DEF RecordIsHolders
<1>8. OneHolderPerRequestId'
  <2>1. ASSUME NEW d \in Calls, status[d] = "granted", jti[d] = t,
               rid[d] = rid[c], rid[c] # None
        PROVE  FALSE
    <3>1. rid[d] \in seen[t]
      BY <1>1, <2>1 DEF IInv, RecordIsHolders, Holders
    <3> QED
      BY <2>1, <3>1 DEF Grant, Known
  <2> QED
    BY <1>1, <2>1 DEF IInv, OneHolderPerRequestId, TypeOK
<1> QED
  BY <1>5, <1>6, <1>7, <1>8 DEF IInv

\* Releasing a slot: one holder less, one less counted, its requestId gone and
\* no other one with it.
LEMMA ReleaseStep ==
  ASSUME IInv, TypeOK', NEW c \in Calls, Release(c)
  PROVE  IInv'
<1> DEFINE t == jti[c]
<1>1. /\ t \in Tokens
      /\ c \in Holders(t)
      /\ status' = [status EXCEPT ![c] = "released"]
      /\ jti' = jti /\ rid' = rid
  BY DEF Release, Holders, IInv, TypeOK
<1>2. /\ Holders(t)' = Holders(t) \ {c}
      /\ \A u \in Tokens \ {t} : Holders(u)' = Holders(u)
  BY <1>1 DEF Holders, IInv, TypeOK
<1>3. /\ Cardinality(Holders(t)') = Cardinality(Holders(t)) - 1
      /\ Cardinality(Holders(t)) \in Nat
  BY <1>1, <1>2, HoldersFinite, FS_RemoveElement, FS_CardinalityType
<1>4. /\ count' = [count EXCEPT ![t] = count[t] - 1]
      /\ count[t] > 0
  <2>1. Holders(t) # {} /\ IsFiniteSet(Holders(t))
    BY <1>1, HoldersFinite
  <2>2. count[t] > 0
    BY <1>1, <1>3, <2>1, FS_EmptySet DEF IInv, CountIsHolders, TypeOK
  <2> QED
    BY <2>2 DEF Release, Decremented
<1>5. CountIsHolders'
  BY <1>1, <1>2, <1>3, <1>4 DEF IInv, CountIsHolders, TypeOK
<1>6. QuotaSafe'
  <2>1. \A u \in Tokens : Limit[u] # Unlimited => Limit[u] \in Nat
    BY LimitIsNat
  <2> QED
    BY <1>1, <1>2, <1>3, <2>1 DEF IInv, QuotaSafe
<1>7. RecordIsHolders'
  <2>1. seen' = [seen EXCEPT ![t] = seen[t] \ {rid[c]}]
    BY DEF Release, Forgotten
  <2>2. ASSUME NEW u \in Tokens
        PROVE  seen'[u] = {rid[d] : d \in Holders(u)'} \ {None}
    <3>1. seen[u] = {rid[d] : d \in Holders(u)} \ {None}
      BY DEF IInv, RecordIsHolders
    <3>2. CASE u = t
      <4>1. \A d \in Holders(t) \ {c} : rid[d] # None => rid[d] # rid[c]
        BY <1>1 DEF IInv, OneHolderPerRequestId, Holders
      <4> QED
        BY <1>1, <1>2, <2>1, <3>1, <3>2, <4>1 DEF IInv, TypeOK
    <3>3. CASE u # t
      BY <1>2, <2>1, <3>1, <3>3 DEF IInv, TypeOK
    <3> QED
      BY <3>2, <3>3
  <2> QED
    BY <1>1, <2>2 DEF RecordIsHolders
<1>8. OneHolderPerRequestId'
  BY <1>1 DEF IInv, OneHolderPerRequestId, TypeOK
<1> QED
  BY <1>5, <1>6, <1>7, <1>8 DEF IInv

\* Every operation of the store preserves the inductive invariant.
LEMMA NextIInv == IInv /\ [Next]_vars => IInv'
<1> SUFFICES ASSUME IInv, [Next]_vars
             PROVE  IInv'
  OBVIOUS
<1>0. TypeOK'
  BY TypeStep DEF IInv
<1>1. ASSUME NEW c \in Calls, NEW t \in Tokens, NEW q \in RequestIds \cup {None},
             Call(c, t, q)
      PROVE  IInv'
  BY <1>0, <1>1, QuietStep DEF Call, IInv, TypeOK
<1>2. ASSUME NEW c \in Calls, Replay(c)
      PROVE  IInv'
  BY <1>0, <1>2, QuietStep DEF Replay, Answer, IInv, TypeOK
<1>3. ASSUME NEW c \in Calls, Refuse(c)
      PROVE  IInv'
  BY <1>0, <1>3, QuietStep DEF Refuse, Answer, IInv, TypeOK
<1>4. ASSUME NEW c \in Calls, Grant(c)
      PROVE  IInv'
  BY <1>0, <1>4, GrantStep
<1>5. ASSUME NEW c \in Calls, Release(c)
      PROVE  IInv'
  BY <1>0, <1>5, ReleaseStep
<1>6. CASE UNCHANGED vars
  BY <1>0, <1>6, QuietStep DEF vars
<1> QED
  BY <1>1, <1>2, <1>3, <1>4, <1>5, <1>6 DEF Next

\* The inductive invariant holds of every behaviour of the store.
THEOREM StoreInvariant == Spec => []IInv
  BY InitIInv, NextIInv, PTL DEF Spec

\* The variables of the store keep their types.
THEOREM StoreTypeOK == Spec => []TypeOK
<1>1. IInv => TypeOK
  BY DEF IInv
<1> QED
  BY <1>1, StoreInvariant, PTL

\* No token ever has more slots in use than its max_actions.
THEOREM StoreQuota == Spec => []QuotaSafe
<1>1. IInv => QuotaSafe
  BY DEF IInv
<1> QED
  BY <1>1, StoreInvariant, PTL

\* tryConsume and release never lose or leak a slot, whatever the calls, and a
\* requestId is on record exactly while a call holds a slot under it.
THEOREM StoreState == Spec => []StateIsHolders
<1>1. IInv => StateIsHolders
  BY DEF IInv, StateIsHolders
<1> QED
  BY <1>1, StoreInvariant, PTL

\* No two calls with one token and requestId hold a slot at the same time.
THEOREM StoreIdempotency == Spec => []OneHolderPerRequestId
<1>1. IInv => OneHolderPerRequestId
  BY DEF IInv
<1> QED
  BY <1>1, StoreInvariant, PTL
=============================================================================
