-------------------------- MODULE ConsumptionLedger -------------------------
(***************************************************************************)
(* The in-memory consumption store (consumption-ledger.ts), as the event   *)
(* loop runs it.  tryConsume and release read the counter with an `await`  *)
(* and write it after the loop has come back to them, so each is two       *)
(* steps, with the value read kept in a local (read).  The replay check    *)
(* of tryConsume runs before that await and is not repeated after it.      *)
(***************************************************************************)
EXTENDS Naturals, FiniteSets

CONSTANTS Calls, Tokens, RequestIds, None, Unlimited, Limit

ASSUME CallsAssumption == IsFiniteSet(Calls)
ASSUME NoneAssumption == None \notin Tokens /\ None \notin RequestIds
ASSUME LimitAssumption ==
  Unlimited \notin Nat /\ Limit \in [Tokens -> Nat \cup {Unlimited}]

VARIABLES count, seen, status, jti, rid,
          read     \* read[c]: the `current` local of call c

vars == <<count, seen, status, jti, rid, read>>

\* While a call is suspended in tryConsume ("reading") or in release
\* ("releasing") the store has not answered it yet.
Statuses == {"idle", "called", "reading", "granted", "refused", "replayed",
             "releasing", "released"}

TypeOK ==
  /\ count \in [Tokens -> Nat]
  /\ seen \in [Tokens -> SUBSET RequestIds]
  /\ status \in [Calls -> Statuses]
  /\ jti \in [Calls -> Tokens \cup {None}]
  /\ rid \in [Calls -> RequestIds \cup {None}]
  /\ read \in [Calls -> Nat]

Init ==
  /\ count = [t \in Tokens |-> 0]
  /\ seen = [t \in Tokens |-> {}]
  /\ status = [c \in Calls |-> "idle"]
  /\ jti = [c \in Calls |-> None]
  /\ rid = [c \in Calls |-> None]
  /\ read = [c \in Calls |-> 0]

-----------------------------------------------------------------------------

Move(c, from, to) ==
  /\ status[c] = from
  /\ status' = [status EXCEPT ![c] = to]

Known(c) == rid[c] # None /\ rid[c] \in seen[jti[c]]

\* The limit is compared with the value read before the await.
\* (AtLimitOffByOne is a mutant.)
AtLimitOffByOne(c) == Limit[jti[c]] # Unlimited /\ read[c] > Limit[jti[c]]
AtLimit(c) == Limit[jti[c]] # Unlimited /\ read[c] >= Limit[jti[c]]

\* The value the counter is set to: `read` may be out of date by now.
Incremented(c) == read[c] + 1
Decremented(c) == IF read[c] > 0 THEN read[c] - 1 ELSE count[jti[c]]

\* The requestId a granted call leaves on record, if it has one.
NotedAlways(c) == {rid[c]}     \* mutant: the `if (requestId)` is gone
Noted(c) == {rid[c]} \ {None}

Call(c, t, q) ==
  /\ Move(c, "idle", "called")
  /\ jti' = [jti EXCEPT ![c] = t]
  /\ rid' = [rid EXCEPT ![c] = q]
  /\ UNCHANGED <<count, seen, read>>

\* The requestId is on record: the second await only fetches the count that
\* goes into the answer.
Replay(c) ==
  /\ Move(c, "called", "replayed")
  /\ Known(c)
  /\ UNCHANGED <<count, seen, jti, rid, read>>

\* tryConsume up to `await this.get(jti)`.
BeginConsume(c) ==
  /\ Move(c, "called", "reading")
  /\ ~Known(c)
  /\ read' = [read EXCEPT ![c] = count[jti[c]]]
  /\ UNCHANGED <<count, seen, jti, rid>>

\* tryConsume after the await, at the limit.
Refuse(c) ==
  /\ Move(c, "reading", "refused")
  /\ AtLimit(c)
  /\ UNCHANGED <<count, seen, jti, rid, read>>

\* tryConsume after the await, below the limit.
Consume(c) ==
  /\ Move(c, "reading", "granted")
  /\ ~AtLimit(c)
  /\ count' = [count EXCEPT ![jti[c]] = Incremented(c)]
  /\ seen' = [seen EXCEPT ![jti[c]] = @ \cup Noted(c)]
  /\ UNCHANGED <<jti, rid, read>>

\* release up to `await this.get(jti)`.
BeginRelease(c) ==
  /\ Move(c, "granted", "releasing")
  /\ read' = [read EXCEPT ![c] = count[jti[c]]]
  /\ UNCHANGED <<count, seen, jti, rid>>

\* release after the await.
Release(c) ==
  /\ Move(c, "releasing", "released")
  /\ count' = [count EXCEPT ![jti[c]] = Decremented(c)]
  /\ seen' = [seen EXCEPT ![jti[c]] = @ \ {rid[c]}]
  /\ UNCHANGED <<jti, rid, read>>

Next ==
  \E c \in Calls :
    \/ \E t \in Tokens, q \in RequestIds \cup {None} : Call(c, t, q)
    \/ Replay(c)
    \/ BeginConsume(c)
    \/ Refuse(c)
    \/ Consume(c)
    \/ BeginRelease(c)
    \/ Release(c)

Spec == Init /\ [][Next]_vars

\* Ledger operations on the same token do not overlap: what a caller gets
\* that awaits every execute() of a token before it starts the next.
Suspended(c) == status[c] \in {"reading", "releasing"}
OneAtATime ==
  \A c, d \in Calls :
    Suspended(c) /\ Suspended(d) /\ jti[c] = jti[d] => c = d

SerialSpec == Init /\ [][Next /\ OneAtATime']_vars

-----------------------------------------------------------------------------
(* Refinement of the atomic store *)

\* An operation takes effect when it writes: until then a suspended
\* tryConsume is still a call without an answer, a suspended release a slot.
Answered(c) ==
  CASE status[c] = "reading" -> "called"
    [] status[c] = "releasing" -> "granted"
    [] OTHER -> status[c]

Store == INSTANCE ConsumptionStore WITH status <- [c \in Calls |-> Answered(c)]

\* As long as operations on a token do not overlap, the ledger is the atomic
\* store: every answer, counter and record is one the promise allows.
ImplementsStore == Store!Spec

\* With overlapping operations, no more calls hold a slot than max_actions.
QuotaSafe == Store!QuotaSafe
=============================================================================
