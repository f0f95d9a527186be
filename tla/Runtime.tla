------------------------------- MODULE Runtime -------------------------------
(***************************************************************************)
(* AgentCapabilityRuntime.execute (runtime.ts) over shared stores.         *)
(*                                                                         *)
(* A request is one call of execute().  Between two of its awaits a call   *)
(* runs without interruption, so one action stands for each such segment,  *)
(* and each operation of a shared store happens when the store performs    *)
(* it.  The consumption store is atomic (ConsumptionStore; the Redis store *)
(* is shown to be that).  Approvals, sessions and the audit log are kept   *)
(* by the process and change inside a segment; approvals and the audit log *)
(* are in files and outlive it; revocations do if they are kept in Redis.  *)
(*                                                                         *)
(* The adapter runs outside the event loop: its effect on the tool may     *)
(* land, or the call may break, at any time after it was started, even     *)
(* when the runtime has stopped waiting for it.                            *)
(***************************************************************************)
EXTENDS Naturals, FiniteSets, Sequences

CONSTANTS
  Requests,     \* calls of execute()
  Tokens,       \* capability tokens, named by their jti
  Payloads,     \* tool payloads
  RequestIds,   \* idempotency keys
  ApprovalIds,  \* ids of approval requests; bounds how many are created
  Sessions,     \* execution sessions
  None,         \* an optional field that is not given
  Unlimited,    \* the limit of a token without max_actions
  Inputs,       \* the inputs execute() may be called with
  Limit,        \* Limit[t]: max_actions of token t
  Verdicts,     \* Verdicts[t, p, g]: what the policy of t, max_actions aside,
                \* may say of payload p, g telling whether an approval was
                \* granted; a set because allowed_hours depends on the clock
  Perishing,    \* tokens that may be revoked or expire while the others do not;
                \* bounds what administrators and the clock do
  Malformed,    \* requests whose token fails signature, format or tool checks
  Unresolvable, \* tokens whose constraints do not match their policy version
  Sandboxed,    \* whether the sandbox is enabled
  Blocked,      \* payloads it refuses before it calls the adapter
  Faulty,       \* requests whose stores, hook or audit log may fail
  MayCrash      \* whether the process may die and be started again

Input == [token : Tokens, payload : Payloads, requestId : RequestIds \cup {None},
          approvalId : ApprovalIds \cup {None}, session : Sessions \cup {None},
          simulate : BOOLEAN]

Approval == [status : {"pending", "approved", "rejected"},
             token : Tokens, payload : Payloads]

ASSUME RequestsAssumption == IsFiniteSet(Requests)
ASSUME NoneAssumption ==
  /\ None \notin Tokens /\ None \notin RequestIds
  /\ None \notin ApprovalIds /\ None \notin Sessions
  /\ None \notin Approval /\ None \notin Input
ASSUME InputsAssumption == Inputs \subseteq Input
ASSUME PerishingAssumption == Perishing \subseteq Tokens
ASSUME LimitAssumption ==
  Unlimited \notin Nat /\ Limit \in [Tokens -> Nat \cup {Unlimited}]
ASSUME SandboxAssumption == Sandboxed \in BOOLEAN
\* The policy leaves that ask for an approval are content with one.
ASSUME VerdictsAssumption ==
  /\ Verdicts \in [Tokens \X Payloads \X BOOLEAN ->
                     SUBSET {"ALLOW", "DENY", "REQUIRE_APPROVAL"}]
  /\ \A t \in Tokens, p \in Payloads :
       "REQUIRE_APPROVAL" \notin Verdicts[<<t, p, TRUE>>]

VARIABLES
  pc,          \* pc[r]: what call r is waiting for
  input,       \* input[r]: its ExecuteInput, None before the call
  revokedSeen, \* revokedSeen[r]: the answer of isRevoked
  countSeen,   \* countSeen[r]: actionCount, as read before the policy runs
  reserve,     \* reserve[r]: the outcome of its tryConsume
  count,       \* count[t]: slots of token t in use, in the consumption store
  seen,        \* seen[t]: requestIds recorded for token t
  adapter,     \* adapter[r]: the adapter call made for r
  approvals,   \* approvals[a]: approval request a, None before it is created
  revoked,     \* tokens revoked by an administrator
  expired,     \* tokens past exp
  audit,       \* audit[r]: the events recorded for r, in order
  session,     \* session[s]: lastPhase and actionCount of session s
  barred       \* history: barred[r] if r's token was on record as revoked when
               \* r was called

call == <<input, barred, revokedSeen, countSeen>>
authority == <<approvals, revoked, expired>>
stores == <<count, seen, authority>>
vars == <<pc, call, reserve, adapter, audit, session, stores>>

Waiting == {"validating", "revocation", "gate", "counting", "policy", "notifying",
            "consuming", "consumed", "executing", "releasing", "released"}

Phases == {"APPROVAL_REQUIRED", "EXECUTING", "COMPLETED", "DENIED", "FAILED",
           "REVOKED", "SIMULATED"}

Event == [decision : {"ALLOW", "DENY", "REQUIRE_APPROVAL", "SIMULATE"},
          phase : Phases \cup {None},
          approval : ApprovalIds \cup {None}]

NoSession == [phase |-> None, actions |-> 0]

TypeOK ==
  /\ pc \in [Requests -> Waiting \cup {"idle", "returned", "threw", "crashed"}]
  /\ input \in [Requests -> Input \cup {None}]
  /\ revokedSeen \in [Requests -> BOOLEAN]
  /\ countSeen \in [Requests -> Nat]
  /\ reserve \in [Requests -> {"none", "granted", "refused", "replayed", "released"}]
  /\ count \in [Tokens -> Nat]
  /\ seen \in [Tokens -> SUBSET RequestIds]
  /\ adapter \in [Requests -> {"none", "flying", "landed", "broken"}]
  /\ approvals \in [ApprovalIds -> Approval \cup {None}]
  /\ revoked \subseteq Tokens
  /\ expired \subseteq Tokens
  /\ audit \in [Requests -> Seq(Event)]
  /\ session \in [Sessions -> [phase : Phases \cup {None}, actions : Nat]]
  /\ barred \in [Requests -> BOOLEAN]
  /\ \A r \in Requests : pc[r] # "idle" => input[r] \in Input

Init ==
  /\ pc = [r \in Requests |-> "idle"]
  /\ input = [r \in Requests |-> None]
  /\ revokedSeen = [r \in Requests |-> FALSE]
  /\ countSeen = [r \in Requests |-> 0]
  /\ reserve = [r \in Requests |-> "none"]
  /\ count = [t \in Tokens |-> 0]
  /\ seen = [t \in Tokens |-> {}]
  /\ adapter = [r \in Requests |-> "none"]
  /\ approvals = [a \in ApprovalIds |-> None]
  /\ revoked = {}
  /\ expired = {}
  /\ audit = [r \in Requests |-> <<>>]
  /\ session = [s \in Sessions |-> NoSession]
  /\ barred = [r \in Requests |-> FALSE]

-----------------------------------------------------------------------------
(* Common parts *)

Goto(r, from, to) ==
  /\ pc[r] = from
  /\ pc' = [pc EXCEPT ![r] = to]

\* A segment that only moves on to the next await.
NothingElse == UNCHANGED <<call, reserve, adapter, audit, session, stores>>

Token(r) == input[r].token

\* audit.record: the event of request r is appended to the log.
Record(r, decision, phase, approval) ==
  audit' = [audit EXCEPT ![r] =
              Append(@, [decision |-> decision, phase |-> phase, approval |-> approval])]

\* (A mutant: every touch counts as an action.)
TouchCounts(r, phase, done) ==
  session' = IF input[r].session = None
             THEN session
             ELSE [session EXCEPT ![input[r].session] =
                     [phase |-> phase, actions |-> @.actions + 1]]
\* touchSession: a request without a session touches nothing.  Two touches in
\* one segment leave what the last one wrote (APPROVED is always overwritten).
Touch(r, phase, done) ==
  session' = IF input[r].session = None
             THEN session
             ELSE [session EXCEPT ![input[r].session] =
                     [phase |-> phase, actions |-> @.actions + done]]

\* How a call ends that has recorded its event outside the try block: the file
\* audit log may fail to append what it has taken into memory.
Ends(r) == {"returned"} \cup (IF r \in Faulty THEN {"threw"} ELSE {})
End(r, from) == \E to \in Ends(r) : Goto(r, from, to)

\* execute() touches the session, records its event and returns.
Return(r, from, decision, phase) ==
  /\ End(r, from)
  /\ Record(r, decision, phase, None)
  /\ Touch(r, phase, 0)

-----------------------------------------------------------------------------
(* execute(): token, revocation, approval *)

Submit(r) ==
  /\ Goto(r, "idle", "validating")
  /\ \E i \in Inputs :
       /\ input' = [input EXCEPT ![r] = i]
       /\ barred' = [barred EXCEPT ![r] = i.token \in revoked]
  /\ UNCHANGED <<revokedSeen, countSeen, reserve, adapter, audit, session, stores>>

TokenValid(r) == r \notin Malformed /\ Token(r) \notin expired

DenyInvalid(r) ==
  /\ End(r, "validating")
  /\ ~TokenValid(r)
  /\ Record(r, "DENY", None, None)
  /\ UNCHANGED <<call, reserve, adapter, session, stores>>

AcceptToken(r) ==
  /\ Goto(r, "validating", "revocation")
  /\ TokenValid(r)
  /\ NothingElse

\* What the revocation store answers; revokedSeen keeps it across the await.
\* (NeverRevoked is a mutant: the gate is not consulted.)
NeverRevoked(r) == FALSE
IsRevoked(r) == Token(r) \in revoked

ReadRevocation(r) ==
  /\ Goto(r, "revocation", "gate")
  /\ revokedSeen' = [revokedSeen EXCEPT ![r] = IsRevoked(r)]
  /\ UNCHANGED <<input, countSeen, reserve, adapter, audit, session, barred, stores>>

\* revocations.get, awaited next, only supplies the text of the reason.
DenyRevoked(r) ==
  /\ End(r, "gate")
  /\ revokedSeen[r]
  /\ Record(r, "DENY", "REVOKED", None)
  /\ UNCHANGED <<call, reserve, adapter, session, stores>>

\* approvalMatchesExecution; the token decides the tool.  (The mutant forgets
\* the payload.)
MatchesAnyPayload(a, r) ==
  /\ approvals[a] # None
  /\ approvals[a].status = "approved"
  /\ approvals[a].token = Token(r)
Matches(a, r) ==
  /\ approvals[a] # None
  /\ approvals[a].status = "approved"
  /\ approvals[a].token = Token(r)
  /\ approvals[a].payload = input[r].payload

Resuming(r) == input[r].approvalId # None

\* approval not found, or it does not match token, tool or payload.
DenyApproval(r) ==
  /\ End(r, "gate")
  /\ ~revokedSeen[r]
  /\ Resuming(r)
  /\ ~Matches(input[r].approvalId, r)
  /\ Record(r, "DENY", None, input[r].approvalId)
  /\ UNCHANGED <<call, reserve, adapter, session, stores>>

PassGate(r) ==
  /\ Goto(r, "gate", "counting")
  /\ ~revokedSeen[r]
  /\ Resuming(r) => Matches(input[r].approvalId, r)
  /\ NothingElse

ReadCount(r) ==
  /\ Goto(r, "counting", "policy")
  /\ countSeen' = [countSeen EXCEPT ![r] = count[Token(r)]]
  /\ UNCHANGED <<input, revokedSeen, reserve, adapter, audit, session, barred, stores>>

-----------------------------------------------------------------------------
(* executeWithClaims(): policy *)

\* evaluatePolicyAst: the max_actions leaf, then the others.  An approval
\* checked at the gate is granted; a dry run turns ALLOW into SIMULATE.
OutOfActions(r) ==
  Limit[Token(r)] # Unlimited /\ countSeen[r] >= Limit[Token(r)]

Decided(r) ==
  IF OutOfActions(r) THEN {"DENY"}
  ELSE Verdicts[<<Token(r), input[r].payload, Resuming(r)>>]

DenyVersion(r) ==
  /\ End(r, "policy")
  /\ Token(r) \in Unresolvable
  /\ Record(r, "DENY", "DENIED", None)
  /\ UNCHANGED <<call, reserve, adapter, session, stores>>

Evaluates(r, decision) ==
  /\ Token(r) \notin Unresolvable
  /\ decision \in Decided(r)

DenyPolicy(r) ==
  /\ Return(r, "policy", "DENY", "DENIED")
  /\ Evaluates(r, "DENY")
  /\ UNCHANGED <<call, reserve, adapter, stores>>

CreateApproval(r) ==
  \E a \in ApprovalIds :
    /\ approvals[a] = None
    /\ approvals' = [approvals EXCEPT ![a] =
         [status |-> "pending", token |-> Token(r), payload |-> input[r].payload]]

\* The approval request is created pending, then the hook is awaited.
RequireApproval(r) ==
  /\ Goto(r, "policy", "notifying")
  /\ Evaluates(r, "REQUIRE_APPROVAL")
  /\ Touch(r, "APPROVAL_REQUIRED", 0)
  /\ Record(r, "REQUIRE_APPROVAL", "APPROVAL_REQUIRED", None)
  /\ CreateApproval(r)
  /\ UNCHANGED <<call, reserve, adapter, count, seen, revoked, expired>>

ReturnPending(r) ==
  /\ Goto(r, "notifying", "returned")
  /\ NothingElse

\* (NeverDry is a mutant: the dry run goes on to the adapter.)
NeverDry(r) == FALSE
DryRun(r) == input[r].simulate

Simulate(r) ==
  /\ Return(r, "policy", "SIMULATE", "SIMULATED")
  /\ Evaluates(r, "ALLOW")
  /\ DryRun(r)
  /\ UNCHANGED <<call, reserve, adapter, stores>>

BeginConsume(r) ==
  /\ Goto(r, "policy", "consuming")
  /\ Evaluates(r, "ALLOW")
  /\ ~DryRun(r)
  /\ Touch(r, "EXECUTING", 0)
  /\ UNCHANGED <<call, reserve, adapter, audit, stores>>

-----------------------------------------------------------------------------
(* tryConsume and release, as the store performs them *)

RequestId(r) == input[r].requestId

\* (The mutants: no replay check, and one that any token's record answers.)
KnownNever(r) == FALSE
KnownOfAny(r) == RequestId(r) # None /\ \E t \in Tokens : RequestId(r) \in seen[t]
Known(r) == RequestId(r) # None /\ RequestId(r) \in seen[Token(r)]

\* (The mutant lets one action too many through.)
UnderLimitOffByOne(t) == Limit[t] # Unlimited => count[t] <= Limit[t]
UnderLimit(t) == Limit[t] # Unlimited => count[t] < Limit[t]

\* The requestId put on record.  (The mutant also records a missing one.)
NotedAlways(r) == {RequestId(r)}
Noted(r) == {RequestId(r)} \ {None}

Answered(r, answer) == reserve' = [reserve EXCEPT ![r] = answer]

\* The three outcomes of tryConsume.
Replay(r) ==
  /\ Known(r)
  /\ Answered(r, "replayed")
  /\ UNCHANGED <<count, seen>>
Refuse(r) ==
  /\ ~Known(r)
  /\ ~UnderLimit(Token(r))
  /\ Answered(r, "refused")
  /\ UNCHANGED <<count, seen>>
Grant(r) ==
  /\ ~Known(r)
  /\ UnderLimit(Token(r))
  /\ Answered(r, "granted")
  /\ count' = [count EXCEPT ![Token(r)] = @ + 1]
  /\ seen' = [seen EXCEPT ![Token(r)] = @ \cup Noted(r)]

\* What release leaves of the record.  (The mutant keeps the requestId.)
RecordKept(r) == seen[Token(r)]
RecordLeft(r) == seen[Token(r)] \ {RequestId(r)}

\* (A mutant: the catch forgets to release.)
KeepSlot(r) == UNCHANGED <<reserve, count, seen>>
GiveBack(r) ==
  /\ Answered(r, "released")
  /\ count' = [count EXCEPT ![Token(r)] = IF @ > 0 THEN @ - 1 ELSE @]
  /\ seen' = [seen EXCEPT ![Token(r)] = RecordLeft(r)]

TryConsume(r) ==
  /\ Goto(r, "consuming", "consumed")
  /\ Replay(r) \/ Refuse(r) \/ Grant(r)
  /\ UNCHANGED <<call, adapter, audit, session, authority>>

Release(r) ==
  /\ Goto(r, "releasing", "released")
  /\ GiveBack(r)
  /\ UNCHANGED <<call, adapter, audit, session, authority>>

-----------------------------------------------------------------------------
(* executeWithClaims(): after tryConsume *)

DenyQuota(r) ==
  /\ Return(r, "consumed", "DENY", "DENIED")
  /\ reserve[r] = "refused"
  /\ UNCHANGED <<call, reserve, adapter, stores>>

AllowReplay(r) ==
  /\ Return(r, "consumed", "ALLOW", "COMPLETED")
  /\ reserve[r] = "replayed"
  /\ UNCHANGED <<call, reserve, adapter, stores>>

\* executeInSandbox: the sandbox lets the payload through, or is disabled, and
\* the call is started.
StartAdapter(r) ==
  /\ Goto(r, "consumed", "executing")
  /\ reserve[r] = "granted"
  /\ Sandboxed => input[r].payload \notin Blocked
  /\ adapter' = [adapter EXCEPT ![r] = "flying"]
  /\ UNCHANGED <<call, reserve, audit, session, stores>>

\* validateBeforeExecute throws: nothing was called, the slot goes back.
Block(r) ==
  /\ Goto(r, "consumed", "releasing")
  /\ reserve[r] = "granted"
  /\ Sandboxed /\ input[r].payload \in Blocked
  /\ NothingElse

\* (A mutant: the await of the sandbox is missing.)
CompleteEarly(r) ==
  /\ Goto(r, "executing", "returned")
  /\ Record(r, "ALLOW", "COMPLETED", None)
  /\ Touch(r, "COMPLETED", 1)
  /\ UNCHANGED <<call, reserve, adapter, stores>>
Complete(r) ==
  /\ Goto(r, "executing", "returned")
  /\ Record(r, "ALLOW", "COMPLETED", None)
  /\ Touch(r, "COMPLETED", 1)
  /\ adapter[r] = "landed"
  /\ UNCHANGED <<call, reserve, adapter, stores>>

\* The adapter's promise is rejected, or its answer is, after the effect has
\* landed (an error status, response_too_large).
AdapterThrows(r) ==
  /\ Goto(r, "executing", "releasing")
  /\ adapter[r] \in {"broken", "landed"}
  /\ NothingElse

\* (A mutant: no timer, as with the sandbox disabled.)
NoTimer(r) == FALSE
\* withTimeout rejects; the adapter call itself is not cancelled.
Timeout(r) ==
  /\ Sandboxed
  /\ Goto(r, "executing", "releasing")
  /\ adapter[r] \in {"flying", "landed"}
  /\ NothingElse

DenyFailed(r) ==
  /\ Return(r, "released", "DENY", "FAILED")
  /\ UNCHANGED <<call, reserve, adapter, stores>>

-----------------------------------------------------------------------------
(* Faults *)

\* A store call fails before the store has done anything: execute() rejects.
\* (At the gate the store is asked for the reason of a revocation.)
StoreFails(r) ==
  /\ r \in Faulty
  /\ \E here \in {"revocation", "gate", "counting", "consuming", "releasing"} :
       /\ Goto(r, here, "threw")
       /\ here = "gate" => revokedSeen[r]
  /\ NothingElse

\* tryConsume was performed, but an EXPIRE or the connection failed after it.
ConsumeReplyLost(r) ==
  /\ r \in Faulty
  /\ Goto(r, "consuming", "threw")
  /\ Replay(r) \/ Refuse(r) \/ Grant(r)
  /\ UNCHANGED <<call, adapter, audit, session, authority>>

\* The same for release.
ReleaseReplyLost(r) ==
  /\ r \in Faulty
  /\ Goto(r, "releasing", "threw")
  /\ GiveBack(r)
  /\ UNCHANGED <<call, adapter, audit, session, authority>>

\* The audit log fails before the approval request is created, or the file of
\* the approvals after it is.
ApprovalFails(r) ==
  /\ r \in Faulty
  /\ Goto(r, "policy", "threw")
  /\ Evaluates(r, "REQUIRE_APPROVAL")
  /\ Touch(r, "APPROVAL_REQUIRED", 0)
  /\ Record(r, "REQUIRE_APPROVAL", "APPROVAL_REQUIRED", None)
  /\ CreateApproval(r) \/ UNCHANGED approvals
  /\ UNCHANGED <<call, reserve, adapter, count, seen, revoked, expired>>

\* onApprovalRequired throws: the approval exists, its id is not returned.
HookThrows(r) ==
  /\ r \in Faulty
  /\ Goto(r, "notifying", "threw")
  /\ NothingElse

\* The file audit log records the ALLOW in memory and fails to append it: the
\* exception is caught with those of the adapter.
AuditFails(r) ==
  /\ r \in Faulty
  /\ Goto(r, "executing", "releasing")
  /\ adapter[r] = "landed"
  /\ Touch(r, "COMPLETED", 1)
  /\ Record(r, "ALLOW", "COMPLETED", None)
  /\ UNCHANGED <<call, reserve, adapter, stores>>

\* The process dies and is started again: the calls under way are gone, the
\* sessions with them, and the revocations if their store is the one in memory;
\* what was sent to a tool may still take effect.
Crash ==
  /\ MayCrash
  /\ \E r \in Requests : pc[r] \in Waiting
  /\ pc' = [r \in Requests |-> IF pc[r] \in Waiting THEN "crashed" ELSE pc[r]]
  /\ session' = [s \in Sessions |-> NoSession]
  /\ revoked' \in {revoked, {}}
  /\ UNCHANGED <<call, reserve, adapter, audit, count, seen, approvals, expired>>

-----------------------------------------------------------------------------
(* The tool, the administrator, the reviewer and the clock *)

EffectLands(r) ==
  /\ adapter[r] = "flying"
  /\ adapter' = [adapter EXCEPT ![r] = "landed"]
  /\ UNCHANGED <<pc, call, reserve, audit, session, stores>>

AdapterBreaks(r) ==
  /\ adapter[r] = "flying"
  /\ adapter' = [adapter EXCEPT ![r] = "broken"]
  /\ UNCHANGED <<pc, call, reserve, audit, session, stores>>

Revoke(t) ==
  /\ revoked' = revoked \cup {t}
  /\ UNCHANGED <<pc, call, reserve, adapter, audit, session, count, seen, approvals, expired>>

Expire(t) ==
  /\ expired' = expired \cup {t}
  /\ UNCHANGED <<pc, call, reserve, adapter, audit, session, count, seen, approvals, revoked>>

\* approve and reject throw unless the request is pending.  (Open is the
\* guard; its mutant forgets it.)
OpenAlways(a) == approvals[a] # None
Open(a) == approvals[a] # None /\ approvals[a].status = "pending"

Resolve(a, status) ==
  /\ Open(a)
  /\ approvals' = [approvals EXCEPT ![a].status = status]
  /\ UNCHANGED <<pc, call, reserve, adapter, audit, session, count, seen, revoked, expired>>

-----------------------------------------------------------------------------

\* What the event loop, its timers and the stores do for request r.
Progress(r) ==
  \/ DenyInvalid(r) \/ AcceptToken(r) \/ ReadRevocation(r) \/ DenyRevoked(r)
  \/ DenyApproval(r) \/ PassGate(r) \/ ReadCount(r)
  \/ DenyVersion(r) \/ DenyPolicy(r) \/ RequireApproval(r) \/ ReturnPending(r)
  \/ Simulate(r) \/ BeginConsume(r) \/ TryConsume(r) \/ DenyQuota(r)
  \/ AllowReplay(r) \/ StartAdapter(r) \/ Block(r) \/ Complete(r)
  \/ AdapterThrows(r) \/ Timeout(r) \/ Release(r) \/ DenyFailed(r)

Fault(r) ==
  \/ StoreFails(r) \/ ConsumeReplyLost(r) \/ ReleaseReplyLost(r)
  \/ ApprovalFails(r) \/ HookThrows(r) \/ AuditFails(r)

Environment ==
  \/ \E r \in Requests : Submit(r) \/ EffectLands(r) \/ AdapterBreaks(r)
  \/ \E t \in Perishing : Revoke(t) \/ Expire(t)
  \/ \E a \in ApprovalIds, status \in {"approved", "rejected"} : Resolve(a, status)

Next ==
  \/ \E r \in Requests : Progress(r) \/ Fault(r)
  \/ Crash
  \/ Environment

Spec == Init /\ [][Next]_vars

\* The event loop runs every segment that is ready, the stores answer, and the
\* timer of a sandboxed adapter call fires: so a request that can go on does.
\* Nothing is assumed of the adapter, the clients, reviewers or administrators.
FairSpec == Spec /\ \A r \in Requests : WF_vars(Progress(r))

-----------------------------------------------------------------------------
(* Safety *)

\* The requests that hold a slot of token t, and those that returned the result
\* of their adapter.
Holders(t) == {r \in Requests : reserve[r] = "granted" /\ Token(r) = t}
Succeeded(r) ==
  /\ pc[r] = "returned"
  /\ reserve[r] = "granted"

\* The calls of the consumption store the requests stand for.
Called(r) == pc[r] # "idle"
storeStatus ==
  [r \in Requests |->
     IF ~Called(r) THEN "idle" ELSE IF reserve[r] = "none" THEN "called" ELSE reserve[r]]
storeToken == [r \in Requests |-> IF Called(r) THEN Token(r) ELSE None]
storeRequestId == [r \in Requests |-> IF Called(r) THEN RequestId(r) ELSE None]

Store == INSTANCE ConsumptionStore
           WITH Calls <- Requests, status <- storeStatus,
                jti <- storeToken, rid <- storeRequestId

\* The whole pipeline uses the consumption store as its callers must: a slot is
\* asked for once per call and given back at most once, so the promise of the
\* store carries over (tryConsume and release in executeWithClaims).
ImplementsStore == Store!Spec

\* However executes, failures and crashes interleave, the calls that hold a
\* slot of a token, and so those that succeeded, never exceed its max_actions,
\* and the counter of the store is exactly the number of slots held.
QuotaSafe ==
  \A t \in Tokens :
    /\ count[t] = Cardinality(Holders(t))
    /\ Limit[t] # Unlimited => count[t] <= Limit[t]

\* Of the calls with the same token and requestId at most one succeeds with a
\* result of its own; the others are replays or failures (RFC-0002 7.2).
SucceedsOnce ==
  \A r, q \in Requests :
    /\ Succeeded(r) /\ Succeeded(q) /\ Token(r) = Token(q)
    /\ RequestId(r) = RequestId(q) /\ RequestId(r) # None
    => r = q

\* A requestId starts a second adapter call, at the same time or later, only if
\* one of the two calls has given its slot back: what is left of "prevents
\* double execution" when failures are refunded (the catch of executeWithClaims).
RunsOnceUnlessRefunded ==
  \A r, q \in Requests :
    /\ adapter[r] # "none" /\ adapter[q] # "none" /\ Token(r) = Token(q)
    /\ RequestId(r) = RequestId(q) /\ RequestId(r) # None
    => r = q \/ reserve[r] = "released" \/ reserve[q] = "released"

\* A replay is answered only to a call with an original: another call with the
\* same token and requestId that took a slot, though it may still be running,
\* or have failed since (duplicate in executeWithClaims).
ReplayHasOriginal ==
  \A r \in Requests :
    reserve[r] = "replayed" =>
      \E q \in Requests \ {r} :
        /\ reserve[q] \in {"granted", "released"}
        /\ Token(q) = Token(r) /\ RequestId(q) = RequestId(r)

\* A payload the policy does not allow by itself reaches the adapter only with
\* an approval request that a reviewer approved for this token and payload, and
\* that is still approved (approvalId handling in execute).
ApprovalGate ==
  \A r \in Requests :
    adapter[r] # "none" /\ "ALLOW" \notin Verdicts[<<Token(r), input[r].payload, FALSE>>] =>
      /\ Resuming(r)
      /\ approvals[input[r].approvalId] =
           [status |-> "approved", token |-> Token(r), payload |-> input[r].payload]

\* A call made while its token is on record as revoked never takes a slot and
\* never reaches the adapter, whatever was approved for it and whoever is
\* interrupted.  A restart may wipe the record of a store in memory.
RevokedNeverRuns ==
  \A r \in Requests : barred[r] => reserve[r] = "none" /\ adapter[r] = "none"

\* A dry run takes no slot and starts no adapter, and neither does a call that
\* ends in an approval request (RFC-0002 6).
DryRunInert ==
  \A r \in Requests :
    /\ pc[r] # "idle"
    /\ input[r].simulate \/ pc[r] = "notifying"
    => reserve[r] = "none" /\ adapter[r] = "none"

\* A request that returned left exactly one event, one that is under way left
\* none but its approval request; and an ALLOW that is no replay is recorded
\* only when the effect has landed and the slot is kept.  Requests whose audit
\* log may fail are exempt.
AuditTellsOutcome ==
  \A r \in Requests \ Faulty :
    /\ pc[r] # "crashed" =>
         Len(audit[r]) = IF pc[r] \in {"returned", "notifying"} THEN 1 ELSE 0
    /\ Len(audit[r]) > 0 /\ audit[r][1].decision = "ALLOW" /\ reserve[r] # "replayed" =>
         adapter[r] = "landed" /\ reserve[r] = "granted"

\* The actionCount of a session is the number of its requests whose own ALLOW
\* is in the audit log: replays, dry runs and failures do not count.  Only a
\* crash, which the log outlives and the session does not, leaves fewer.
SessionCounts ==
  \A s \in Sessions :
    LET logged == Cardinality({r \in Requests :
                    /\ input[r] # None /\ input[r].session = s
                    /\ reserve[r] # "replayed"
                    /\ \E i \in 1..Len(audit[r]) : audit[r][i].decision = "ALLOW"})
    IN  \/ session[s].actions = logged
        \/ session[s].actions < logged /\ \E r \in Requests : pc[r] = "crashed"

\* An approval request that was approved or rejected stays that way, and what
\* it approves never changes (approve and reject throw unless pending).
ApprovalsFinal ==
  [][\A a \in ApprovalIds :
       approvals[a] # None =>
         /\ approvals'[a] # None
         /\ approvals'[a].token = approvals[a].token
         /\ approvals'[a].payload = approvals[a].payload
         /\ approvals[a].status # "pending" => approvals'[a] = approvals[a]]_vars

-----------------------------------------------------------------------------
(* Liveness *)

\* With the sandbox every call ends, whatever the adapter does: it returns,
\* rejects or dies with its process.
Settles ==
  \A r \in Requests :
    Sandboxed /\ pc[r] = "validating" ~> pc[r] \in {"returned", "threw", "crashed"}

\* A call that failed after it had taken a slot gives it back, unless its
\* process dies before it does.
Refunds ==
  \A r \in Requests \ Faulty :
    pc[r] = "releasing" ~> reserve[r] = "released" \/ pc[r] = "crashed"

-----------------------------------------------------------------------------
(* What the documents say and the code does not do: each has a run in which *)
(* TLC finds it violated.                                                   *)

\* The requestId "prevents double execution": its effect lands once.
EffectOncePerRequestId ==
  \A r, q \in Requests :
    /\ adapter[r] = "landed" /\ adapter[q] = "landed" /\ Token(r) = Token(q)
    /\ RequestId(r) = RequestId(q) /\ RequestId(r) # None
    => r = q

\* A replay is answered only when the same requestId has completed.
ReplayMeansCompleted ==
  \A r \in Requests :
    reserve[r] = "replayed" =>
      \E q \in Requests : /\ Succeeded(q)
                          /\ Token(q) = Token(r) /\ RequestId(q) = RequestId(r)

\* Every call that returned left exactly one event.
OneEventPerReturn ==
  \A r \in Requests : pc[r] = "returned" => Len(audit[r]) = 1
=============================================================================
