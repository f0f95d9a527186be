----------------------------- MODULE LedgerProofs -----------------------------
(***************************************************************************)
(* The in-memory ledger, for any number of calls, tokens and requestIds:   *)
(* its types, whatever overlaps; and that it is the atomic store as long   *)
(* as its operations on one token do not overlap.                          *)
(*                                                                         *)
(* The argument for the second is Fresh: what a suspended operation has    *)
(* read before its await is still so when it writes after it.  Any other   *)
(* operation on the same token would have had to be suspended meanwhile.   *)
(***************************************************************************)
EXTENDS ConsumptionLedger, TLAPS

StoreProofs == INSTANCE ConsumptionStoreProofs WITH status <- [c \in Calls |-> Answered(c)]

\* A call that has been made names a token.
Named == \A c \in Calls : status[c] # "idle" => jti[c] \in Tokens

\* The variables keep their types and the calls their tokens (all operations).
LEMMA TypeStep == TypeOK /\ Named /\ [Next]_vars => (TypeOK /\ Named)'
<1> SUFFICES ASSUME TypeOK, Named, [Next]_vars
             PROVE  TypeOK' /\ Named'
  OBVIOUS
<1> USE DEF TypeOK, Named, Statuses, Move
<1>1. ASSUME NEW c \in Calls, NEW t \in Tokens, NEW q \in RequestIds \cup {None},
             Call(c, t, q)
      PROVE  TypeOK' /\ Named'
  BY <1>1 DEF Call
<1>2. ASSUME NEW c \in Calls, Replay(c) \/ Refuse(c)
      PROVE  TypeOK' /\ Named'
  BY <1>2 DEF Replay, Refuse
<1>3. ASSUME NEW c \in Calls, BeginConsume(c) \/ BeginRelease(c)
      PROVE  TypeOK' /\ Named'
  BY <1>3 DEF BeginConsume, BeginRelease
<1>4. ASSUME NEW c \in Calls, Consume(c)
      PROVE  TypeOK' /\ Named'
  BY <1>4 DEF Consume, Incremented, Noted
<1>5. ASSUME NEW c \in Calls, Release(c)
      PROVE  TypeOK' /\ Named'
  BY <1>5 DEF Release, Decremented
<1>6. CASE UNCHANGED vars
  BY <1>6 DEF vars
<1> QED
  BY <1>1, <1>2, <1>3, <1>4, <1>5, <1>6 DEF Next

\* Nothing is consumed at first (the maps of the ledger are empty).
LEMMA TypeInit == Init => TypeOK /\ Named
BY DEF Init, TypeOK, Named, Statuses

\* The ledger keeps its types, overlapping operations included.
THEOREM LedgerTypes == Spec => []TypeOK
  BY TypeInit, TypeStep, PTL DEF Spec

-----------------------------------------------------------------------------
(* What overlap cannot do *)

\* The counter of a token never passes its limit, whatever overlaps: when too
\* many calls hold a slot (ledger_quota), the counter does not show it.
CounterBounded == \A t \in Tokens : Limit[t] # Unlimited => count[t] <= Limit[t]

\* A release writes no more than the counter was when it read it.
ReadBounded ==
  \A c \in Calls :
    status[c] = "releasing" /\ Limit[jti[c]] # Unlimited => read[c] <= Limit[jti[c]]

BoundInv == TypeOK /\ Named /\ CounterBounded /\ ReadBounded

\* Every write is one more than a number below the limit, or one less than a
\* number that was within it.
LEMMA BoundStep == BoundInv /\ [Next]_vars => BoundInv'
<1> SUFFICES ASSUME BoundInv, [Next]_vars
             PROVE  CounterBounded' /\ ReadBounded'
  BY TypeStep DEF BoundInv
<1>0. \A t \in Tokens : Limit[t] # Unlimited => Limit[t] \in Nat
  BY LimitAssumption
<1> USE <1>0 DEF BoundInv, TypeOK, Named, CounterBounded, ReadBounded, Statuses, Move
<1>1. ASSUME NEW c \in Calls, NEW t \in Tokens, NEW q \in RequestIds \cup {None},
             Call(c, t, q)
      PROVE  CounterBounded' /\ ReadBounded'
  BY <1>1 DEF Call
<1>2. ASSUME NEW c \in Calls, Replay(c) \/ Refuse(c)
      PROVE  CounterBounded' /\ ReadBounded'
  BY <1>2 DEF Replay, Refuse
<1>3. ASSUME NEW c \in Calls, BeginConsume(c) \/ BeginRelease(c)
      PROVE  CounterBounded' /\ ReadBounded'
  BY <1>3 DEF BeginConsume, BeginRelease
<1>4. ASSUME NEW c \in Calls, Consume(c)
      PROVE  CounterBounded' /\ ReadBounded'
  <2>1. jti[c] \in Tokens /\ (Limit[jti[c]] # Unlimited => read[c] + 1 <= Limit[jti[c]])
    BY <1>4 DEF Consume, AtLimit
  <2>2. count' = [count EXCEPT ![jti[c]] = read[c] + 1]
    BY <1>4 DEF Consume, Incremented
  <2> QED
    BY <1>4, <2>1, <2>2 DEF Consume
<1>5. ASSUME NEW c \in Calls, Release(c)
      PROVE  CounterBounded' /\ ReadBounded'
  <2>1. jti[c] \in Tokens /\ (Limit[jti[c]] # Unlimited => Decremented(c) <= Limit[jti[c]])
    BY <1>5 DEF Release, Decremented
  <2> QED
    BY <1>5, <2>1 DEF Release
<1>6. CASE UNCHANGED vars
  BY <1>6 DEF vars
<1> QED
  BY <1>1, <1>2, <1>3, <1>4, <1>5, <1>6 DEF Next

\* The counter of the in-memory ledger stays within max_actions even where the
\* slots do not (tryConsume and release, each torn apart by its await).
THEOREM LedgerCounterBounded == Spec => []CounterBounded
<1>1. Init => CounterBounded /\ ReadBounded
  BY LimitAssumption DEF Init, CounterBounded, ReadBounded
<1>2. Init => BoundInv
  BY <1>1, TypeInit DEF BoundInv
<1>3. BoundInv => CounterBounded
  BY DEF BoundInv
<1> QED
  BY <1>2, <1>3, BoundStep, PTL DEF Spec

-----------------------------------------------------------------------------
(* Operations on one token that do not overlap *)

\* What a suspended operation has read is what it would read now.
FreshOf(c) ==
  /\ Suspended(c) => read[c] = count[jti[c]]
  /\ status[c] = "reading" => ~Known(c)
Fresh == \A c \in Calls : FreshOf(c)

SerialInv == TypeOK /\ Named /\ OneAtATime /\ Fresh

\* A step that leaves no two operations on a token suspended keeps them fresh:
\* the one that writes is the only one there, and goes on no longer.
LEMMA FreshStep ==
  ASSUME SerialInv, Next, OneAtATime'
  PROVE  Fresh'
<1> USE DEF SerialInv, TypeOK, Named, Statuses, Move, Suspended
<1>1. ASSUME NEW c \in Calls, NEW t \in Tokens, NEW q \in RequestIds \cup {None},
             Call(c, t, q)
      PROVE  Fresh'
  BY <1>1 DEF Call, Fresh, FreshOf, Known
<1>2. ASSUME NEW c \in Calls, Replay(c) \/ Refuse(c)
      PROVE  Fresh'
  BY <1>2 DEF Replay, Refuse, Fresh, FreshOf, Known
<1>3. ASSUME NEW c \in Calls, BeginConsume(c) \/ BeginRelease(c)
      PROVE  Fresh'
  BY <1>3 DEF BeginConsume, BeginRelease, Fresh, FreshOf, Known
<1>4. ASSUME NEW c \in Calls, Consume(c) \/ Release(c), NEW d \in Calls
      PROVE  FreshOf(d)'
  <2>1. Suspended(c) /\ ~Suspended(c)'
    BY <1>4 DEF Consume, Release
  <2>2. CASE d = c
    BY <2>1, <2>2 DEF FreshOf
  <2>3. CASE d # c /\ ~Suspended(d)
    BY <1>4, <2>3 DEF Consume, Release, FreshOf
  <2>4. CASE d # c /\ Suspended(d)
    <3>1. jti[d] # jti[c]
      BY <2>1, <2>4 DEF OneAtATime
    <3>2. /\ count'[jti[d]] = count[jti[d]] /\ seen'[jti[d]] = seen[jti[d]]
          /\ UNCHANGED <<jti, rid, read>>
          /\ status'[d] = status[d]
      BY <1>4, <2>4, <3>1 DEF Consume, Release
    <3> QED
      BY <3>2 DEF FreshOf, Known, Fresh
  <2> QED
    BY <2>2, <2>3, <2>4
<1> QED
  BY <1>1, <1>2, <1>3, <1>4 DEF Next, Fresh

\* The invariant of the ledger without overlap is inductive.
LEMMA SerialStep == SerialInv /\ [Next /\ OneAtATime']_vars => SerialInv'
<1> SUFFICES ASSUME SerialInv, [Next /\ OneAtATime']_vars
             PROVE  SerialInv'
  OBVIOUS
<1>1. TypeOK' /\ Named'
  BY TypeStep DEF SerialInv
<1>2. CASE Next /\ OneAtATime'
  BY <1>1, <1>2, FreshStep DEF SerialInv
<1>3. CASE UNCHANGED vars
  BY <1>1, <1>3 DEF SerialInv, OneAtATime, Suspended, Fresh, FreshOf, Known, vars
<1> QED
  BY <1>2, <1>3

\* At first no operation is suspended.
LEMMA SerialInit == Init => SerialInv
<1>1. Init => OneAtATime /\ Fresh
  BY DEF Init, OneAtATime, Suspended, Fresh, FreshOf
<1> QED
  BY <1>1, TypeInit DEF SerialInv

\* An empty ledger is an empty store.
LEMMA StoreInit == Init => Store!Init
BY DEF Init, Store!Init, Answered

\* What the store's callers see of a status of the ledger, and of all calls.
Visible(s) ==
  IF s = "reading" THEN "called" ELSE IF s = "releasing" THEN "granted" ELSE s
View == [d \in Calls |-> Answered(d)]

\* A call that moves from one status to another moves between what they show.
LEMMA MoveView ==
  ASSUME TypeOK, NEW c \in Calls, NEW from \in Statuses, NEW to \in Statuses,
         Move(c, from, to)
  PROVE  View[c] = Visible(from) /\ View' = [View EXCEPT ![c] = Visible(to)]
<1>1. View = [d \in Calls |-> Visible(status[d])]
  BY DEF View, Answered, Visible
<1>2. View' = [d \in Calls |-> Visible(status'[d])]
  BY DEF View, Answered, Visible
<1>3. status[c] = from /\ status' = [status EXCEPT ![c] = to] /\ status \in [Calls -> Statuses]
  BY DEF Move, TypeOK
<1> QED
  BY <1>1, <1>2, <1>3

\* Every step takes effect where it writes, as the atomic operation would, or
\* is the first half of one and changes nothing the store's callers can see.
LEMMA RefinementStep ==
  SerialInv /\ [Next /\ OneAtATime']_vars => [Store!Next]_(Store!vars)
<1> SUFFICES ASSUME SerialInv, [Next /\ OneAtATime']_vars
             PROVE  Store!Next \/ UNCHANGED Store!vars
  OBVIOUS
<1>0. TypeOK /\ Named /\ Fresh
  BY DEF SerialInv
<1>1. ASSUME NEW c \in Calls, NEW t \in Tokens, NEW q \in RequestIds \cup {None},
             Call(c, t, q)
      PROVE  Store!Next
  <2>1. View[c] = "idle" /\ View' = [View EXCEPT ![c] = "called"]
    BY <1>0, <1>1, MoveView DEF Call, Visible, Statuses
  <2>2. Store!Call(c, t, q)
    BY <1>1, <2>1 DEF Call, Store!Call, View
  <2> QED
    BY <2>2 DEF Store!Next
<1>2. ASSUME NEW c \in Calls, Replay(c)
      PROVE  Store!Next
  <2>1. View[c] = "called" /\ View' = [View EXCEPT ![c] = "replayed"]
    BY <1>0, <1>2, MoveView DEF Replay, Visible, Statuses
  <2>2. Store!Replay(c)
    BY <1>2, <2>1 DEF Replay, Known, Store!Replay, Store!Answer, Store!Known, View
  <2> QED
    BY <2>2 DEF Store!Next
<1>3. ASSUME NEW c \in Calls, BeginConsume(c) \/ BeginRelease(c)
      PROVE  UNCHANGED Store!vars
  <2>1. View' = [View EXCEPT ![c] = View[c]]
    BY <1>0, <1>3, MoveView DEF BeginConsume, BeginRelease, Visible, Statuses
  <2>2. View' = View
    BY <2>1 DEF View
  <2> QED
    BY <1>3, <2>2 DEF BeginConsume, BeginRelease, Store!vars, View
<1>4. ASSUME NEW c \in Calls, Refuse(c)
      PROVE  Store!Next
  <2>1. View[c] = "called" /\ View' = [View EXCEPT ![c] = "refused"]
    BY <1>0, <1>4, MoveView DEF Refuse, Visible, Statuses
  <2>2. ~Known(c) /\ read[c] = count[jti[c]] /\ jti[c] \in Tokens
    BY <1>0, <1>4 DEF Refuse, Move, Fresh, FreshOf, Suspended, Named
  <2>3. ~Store!UnderLimit(jti[c])
    BY <1>0, <1>4, <2>2, LimitAssumption DEF Refuse, AtLimit, Store!UnderLimit, TypeOK
  <2>4. Store!Refuse(c)
    BY <1>4, <2>1, <2>2, <2>3 DEF Refuse, Known, Store!Refuse, Store!Answer, Store!Known, View
  <2> QED
    BY <2>4 DEF Store!Next
<1>5. ASSUME NEW c \in Calls, Consume(c)
      PROVE  Store!Next
  <2>1. View[c] = "called" /\ View' = [View EXCEPT ![c] = "granted"]
    BY <1>0, <1>5, MoveView DEF Consume, Visible, Statuses
  <2>2. ~Known(c) /\ read[c] = count[jti[c]] /\ jti[c] \in Tokens
    BY <1>0, <1>5 DEF Consume, Move, Fresh, FreshOf, Suspended, Named
  <2>3. Store!UnderLimit(jti[c])
    <3>1. /\ count[jti[c]] \in Nat
          /\ Limit[jti[c]] # Unlimited => Limit[jti[c]] \in Nat
      BY <1>0, <2>2, LimitAssumption DEF TypeOK
    <3>2. ~AtLimit(c)
      BY <1>5 DEF Consume
    <3> QED
      BY <2>2, <3>1, <3>2 DEF AtLimit, Store!UnderLimit
  <2>4. /\ count' = [count EXCEPT ![jti[c]] = @ + 1]
        /\ seen' = [seen EXCEPT ![jti[c]] = Store!Recorded(c)]
    BY <1>5, <2>2 DEF Consume, Incremented, Noted, Store!Recorded
  <2>5. Store!Grant(c)
    BY <1>5, <2>1, <2>2, <2>3, <2>4
    DEF Consume, Known, Store!Grant, Store!Answer, Store!Known, View
  <2> QED
    BY <2>5 DEF Store!Next
<1>6. ASSUME NEW c \in Calls, Release(c)
      PROVE  Store!Next
  <2>1. View[c] = "granted" /\ View' = [View EXCEPT ![c] = "released"]
    BY <1>0, <1>6, MoveView DEF Release, Visible, Statuses
  <2>2. read[c] = count[jti[c]]
    BY <1>0, <1>6 DEF Release, Move, Fresh, FreshOf, Suspended
  <2>3. /\ count' = [count EXCEPT ![jti[c]] = Store!Decremented(jti[c])]
        /\ seen' = [seen EXCEPT ![jti[c]] = Store!Forgotten(c)]
    BY <1>6, <2>2 DEF Release, Decremented, Store!Decremented, Store!Forgotten
  <2>4. Store!Release(c)
    BY <1>6, <2>1, <2>3 DEF Release, Store!Release, View
  <2> QED
    BY <2>4 DEF Store!Next
<1>7. CASE UNCHANGED vars
  BY <1>7 DEF vars, Store!vars, Answered
<1> QED
  BY <1>1, <1>2, <1>3, <1>4, <1>5, <1>6, <1>7 DEF Next

\* As long as no two operations on one token overlap, every answer, counter and
\* record of the ledger is one the atomic store may give (tryConsume, release).
THEOREM LedgerImplementsStore == SerialSpec => ImplementsStore
  BY SerialInit, SerialStep, StoreInit, RefinementStep, PTL
  DEF SerialSpec, ImplementsStore, Store!Spec

-----------------------------------------------------------------------------
(* What the store promises, of the ledger *)

\* The parameters of the ledger are as the store assumes them.
LEMMA StoreParameters ==
  /\ StoreProofs!IsFiniteSet(Calls)
  /\ None \notin Tokens /\ None \notin RequestIds
  /\ Limit \in [Tokens -> Nat \cup {Unlimited}]
  /\ Unlimited \notin Nat
<1>1. StoreProofs!IsFiniteSet(Calls)
  BY CallsAssumption DEF IsFiniteSet, StoreProofs!IsFiniteSet
<1> QED
  BY <1>1, NoneAssumption, LimitAssumption

\* Without overlap the ledger never lets more calls hold a slot than
\* max_actions: the overlap is all that ledger_quota needs.
THEOREM LedgerQuota == SerialSpec => []QuotaSafe
<1>1. Init => StoreProofs!Init
  BY StoreInit DEF Store!Init, StoreProofs!Init
<1>2. SerialInv /\ [Next /\ OneAtATime']_vars => [StoreProofs!Next]_(StoreProofs!vars)
  BY RefinementStep
  DEF Store!Next, Store!Call, Store!Replay, Store!Refuse, Store!Grant, Store!Release,
      Store!Answer, Store!Known, Store!UnderLimit, Store!Recorded, Store!Forgotten,
      Store!Decremented, Store!vars,
      StoreProofs!Next, StoreProofs!Call, StoreProofs!Replay, StoreProofs!Refuse,
      StoreProofs!Grant, StoreProofs!Release, StoreProofs!Answer, StoreProofs!Known,
      StoreProofs!UnderLimit, StoreProofs!Recorded, StoreProofs!Forgotten,
      StoreProofs!Decremented, StoreProofs!vars
<1>3. StoreProofs!Init => StoreProofs!IInv
  BY StoreProofs!InitIInv, StoreParameters
<1>4. StoreProofs!IInv /\ [StoreProofs!Next]_(StoreProofs!vars) => StoreProofs!IInv'
  BY StoreProofs!NextIInv, StoreParameters
<1>5. StoreProofs!IInv => QuotaSafe
  BY DEF StoreProofs!IInv, StoreProofs!QuotaSafe, QuotaSafe, Store!QuotaSafe,
         StoreProofs!Holders, Store!Holders, StoreProofs!Cardinality, Store!Cardinality
<1> QED
  BY SerialInit, SerialStep, <1>1, <1>2, <1>3, <1>4, <1>5, PTL DEF SerialSpec
=============================================================================
