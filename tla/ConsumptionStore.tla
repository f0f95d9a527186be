-------------------------- MODULE ConsumptionStore --------------------------
(***************************************************************************)
(* What a consumption store promises the runtime: the quota of a token     *)
(* (max_actions) and the idempotency of a requestId, as atomic operations. *)
(*                                                                         *)
(* A call stands for one execute() of the runtime that reaches the store.  *)
(* It names a token and, optionally, a requestId; the store grants it a    *)
(* slot, refuses it or answers that the requestId was seen before.  A call *)
(* that was granted a slot gives it back at most once, when its adapter    *)
(* failed.  The in-memory ledger and the Redis store are checked against   *)
(* this module.                                                            *)
(***************************************************************************)
EXTENDS Naturals, FiniteSets

CONSTANTS
  Calls,       \* calls of tryConsume, one per execute()
  Tokens,      \* capability tokens, named by their jti
  RequestIds,  \* idempotency keys
  None,        \* an absent token or requestId
  Unlimited,   \* the limit of a token without max_actions
  Limit        \* Limit[t]: the max_actions constraint of token t

ASSUME CallsAssumption == IsFiniteSet(Calls)
ASSUME NoneAssumption == None \notin Tokens /\ None \notin RequestIds
ASSUME LimitAssumption == Limit \in [Tokens -> Nat \cup {Unlimited}]
ASSUME UnlimitedAssumption == Unlimited \notin Nat

VARIABLES
  count,   \* count[t]: slots of token t in use
  seen,    \* seen[t]: the requestIds recorded for token t
  status,  \* status[c]: what the store has answered call c
  jti,     \* jti[c]: the token call c consumes
  rid      \* rid[c]: the requestId of call c, or None

vars == <<count, seen, status, jti, rid>>

Statuses == {"idle", "called", "granted", "refused", "replayed", "released"}

TypeOK ==
  /\ count \in [Tokens -> Nat]
  /\ seen \in [Tokens -> SUBSET RequestIds]
  /\ status \in [Calls -> Statuses]
  /\ jti \in [Calls -> Tokens \cup {None}]
  /\ rid \in [Calls -> RequestIds \cup {None}]
  /\ \A c \in Calls : status[c] # "idle" => jti[c] \in Tokens

Init ==
  /\ count = [t \in Tokens |-> 0]
  /\ seen = [t \in Tokens |-> {}]
  /\ status = [c \in Calls |-> "idle"]
  /\ jti = [c \in Calls |-> None]
  /\ rid = [c \in Calls |-> None]

-----------------------------------------------------------------------------
(* Operations *)

\* A requestId given with the call is already on record for its token.
KnownNever(c) == FALSE                              \* mutant: no replay check
Known(c) == rid[c] # None /\ rid[c] \in seen[jti[c]]

\* The token has a slot left.
UnderLimitOffByOne(t) == Limit[t] # Unlimited => count[t] <= Limit[t]   \* mutant
UnderLimit(t) == Limit[t] # Unlimited => count[t] < Limit[t]

\* The requestIds on record once the one of call c is added, and once it is
\* forgotten; the counter after a release.
RecordedAlways(c) == seen[jti[c]] \cup {rid[c]}    \* mutant: a missing one too
Recorded(c) == seen[jti[c]] \cup ({rid[c]} \ {None})
ForgottenNot(c) == seen[jti[c]]                     \* mutant: no SREM
Forgotten(c) == seen[jti[c]] \ {rid[c]}
Decremented(t) == IF count[t] > 0 THEN count[t] - 1 ELSE count[t]

\* An execute() starts: from now on it may ask the store for a slot.
Call(c, t, q) ==
  /\ status[c] = "idle"
  /\ status' = [status EXCEPT ![c] = "called"]
  /\ jti' = [jti EXCEPT ![c] = t]
  /\ rid' = [rid EXCEPT ![c] = q]
  /\ UNCHANGED <<count, seen>>

Answer(c, answer) ==
  /\ status[c] = "called"
  /\ status' = [status EXCEPT ![c] = answer]
  /\ UNCHANGED <<jti, rid>>

\* The requestId was consumed before: no new slot, no second execution.
Replay(c) ==
  /\ Answer(c, "replayed")
  /\ Known(c)
  /\ UNCHANGED <<count, seen>>

\* max_actions exceeded.
Refuse(c) ==
  /\ Answer(c, "refused")
  /\ ~Known(c)
  /\ ~UnderLimit(jti[c])
  /\ UNCHANGED <<count, seen>>

\* One slot is reserved and the requestId recorded, in one step.
Grant(c) ==
  /\ Answer(c, "granted")
  /\ ~Known(c)
  /\ UnderLimit(jti[c])
  /\ count' = [count EXCEPT ![jti[c]] = @ + 1]
  /\ seen' = [seen EXCEPT ![jti[c]] = Recorded(c)]

\* The slot of a failed execution goes back, and its requestId is forgotten.
Release(c) ==
  /\ status[c] = "granted"
  /\ status' = [status EXCEPT ![c] = "released"]
  /\ count' = [count EXCEPT ![jti[c]] = Decremented(jti[c])]
  /\ seen' = [seen EXCEPT ![jti[c]] = Forgotten(c)]
  /\ UNCHANGED <<jti, rid>>

Next ==
  \E c \in Calls :
    \/ \E t \in Tokens, q \in RequestIds \cup {None} : Call(c, t, q)
    \/ Replay(c)
    \/ Refuse(c)
    \/ Grant(c)
    \/ Release(c)

Spec == Init /\ [][Next]_vars

-----------------------------------------------------------------------------
(* What the promise amounts to *)

\* The calls that hold a slot of token t.
Holders(t) == {c \in Calls : status[c] = "granted" /\ jti[c] = t}

\* The counter is exactly the number of slots held: none is lost by a release
\* and none leaks (tryConsume and release of the consumption stores).
CountIsHolders == \A t \in Tokens : count[t] = Cardinality(Holders(t))

\* A token never has more executions under way or done than its max_actions.
QuotaSafe ==
  \A t \in Tokens :
    Limit[t] # Unlimited => Cardinality(Holders(t)) <= Limit[t]

\* A requestId is on record for a token exactly while a call holds a slot
\* under it: a retry is a replay then, and a fresh execution otherwise.
RecordIsHolders ==
  \A t \in Tokens : seen[t] = {rid[c] : c \in Holders(t)} \ {None}

\* What the store keeps of a token is what the calls that hold its slots make of
\* it: no release loses or leaks a slot, or leaves a requestId behind.
StateIsHolders == CountIsHolders /\ RecordIsHolders

\* Two calls with the same token and requestId never both hold a slot.
OneHolderPerRequestId ==
  \A c, d \in Calls :
    /\ status[c] = "granted" /\ status[d] = "granted"
    /\ jti[c] = jti[d] /\ rid[c] = rid[d] /\ rid[c] # None
    => c = d
=============================================================================
