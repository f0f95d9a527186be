# Agent Capability Runtime in TLA+

These modules model the Agent Capability Runtime (ACR): a runtime that stands
between an AI agent and the tools it calls, and lets a call through only under
a signed capability token, a policy, a quota, a revocation list and, where the
policy asks for it, a human approval. Paths are relative to `src/`.

## 1. Inventory

### The parts, their state and what they do

| Component | State | Operations | Where |
|---|---|---|---|
| Execute pipeline | none of its own; a call holds what it has read across its awaits | `execute`, `executeWithClaims`, `grant`, `delegate`, `revoke`, `approve`, `reject` | `packages/runtime/src/runtime.ts` |
| Consumption store | per token a counter of used actions and a set of consumed requestIds | `tryConsume`, `release`, `get`, `reset`; in memory (`ConsumptionLedger`) or Redis scripts plus two `EXPIRE`s | `packages/runtime/src/consumption/` |
| Approval store | approval requests: pending, approved, rejected; in memory, or rewritten to a JSON file after every change | `create`, `get`, `list`, `approve`, `reject`, `approvalMatchesExecution` | `approval-store.ts`, `file-approval-store.ts` |
| Session store | per session `lastPhase`, `actionCount`, last trace and approval | `touch`, `get`, `list` | `execution-state.ts` |
| Revocation store | revoked jtis; in memory or Redis keys with a TTL | `revoke`, `isRevoked`, `get`, `list` | `packages/runtime/src/revocation/` |
| Sandbox | none; a timer per adapter call | `validateBeforeExecute`, `executeInSandbox`, network and response rules | `packages/runtime/src/sandbox/` |
| Audit log | events in memory, the tip and sequence number of a hash chain; a JSONL file | `record`, `list`, `verifyChain`, load at start | `packages/audit/src/` |
| Policy engine | a registry of versioned policies | `compilePolicy`, `evaluatePolicyAst`, `evaluatePolicy`, version ids | `packages/policy-engine/src/` |
| Capability tokens | signing keys | `grantCapability`, `delegateCapability`, `validateCapability`, constraint subset rules | `packages/capability-token/src/` |
| Adapters | a registry | `execute` of HTTP, Gmail and Slack adapters | `packages/adapters/src/` |
| Gateway | the runtime above and a list of admin keys; several processes may share the stores in Redis | HTTP routes, the mapping of results to statuses and bodies | `apps/gateway/src/` |
| HTTP clients | none | `execute` and its reading of the response, `grant`, `revoke` | `packages/sdk/src/client.ts`, `packages/sdk-python/acr/client.py`, `packages/sdk-go/` |
| `LocalAcrClient` | counters, requestIds, revocations and approvals in memory, an audit file | the same calls in one Python process, without stores or adapters | `packages/sdk-python/acr/local.py` |
| MCP and LangChain guards | a token per tool, granted once and kept | `ensure`, `check`, `call_tool`, `protect` | `packages/integrations/`, `packages/sdk/src/mcp-guard.ts` |

### How they interact

`execute` runs in one event loop and calls, in this order: token validation
(await), `isRevoked` (await), the approval lookup, `consumption.get` (await), the
policy, then either a denial, an approval request plus its hook (await), a dry
run, or `tryConsume` (await), the sandbox and adapter (await), and on failure
`release` (await). Between two awaits a call runs alone; at each await any other
call, an administrator's `revoke` or a reviewer's `approve` may run. The
consumption and revocation stores may be in Redis and then are shared by several
processes; approvals, sessions and the audit log belong to a process, the first
and the last of them backed by a file.

Clients reach a gateway over HTTP: a reply may be lost while the gateway goes on,
and the same requestId may be sent again, to another gateway. The guards sit in
the agent's own process. Before a tool runs they ask a client, `LocalAcrClient`
for a real execute that is counted, or a gateway for a dry run, and run the tool
themselves; the host program may use the same client and tokens.

### What is hard

- *Interleaving*: everything read before an await (revocation, `actionCount`, the
  ledger's counter) may have changed when it is used after it.
- *Threads*: LangChain runs tools in a pool of threads over a client without locks.
- *Timeouts*: the sandbox gives up on an adapter call it cannot cancel, an HTTP
  client on a gateway.
- *Partial failure*: a store answers with an error after it did its work; the
  audit log takes an event into memory and fails to append it; the approval hook
  throws after the request was created.
- *Restarts*: the process dies between taking a slot and using it, in the middle
  of appending a line or of rewriting the approvals.
- *Resource bounds*: quotas, TTLs against token lifetimes, delegation depth.

### What makes each part correct

- *Consumption*: never more slots in use than `max_actions`; at most one holder
  per requestId; a slot given back exactly once, and only if it was taken.
- *Pipeline*: approvals, revocations and dry runs decide what reaches the
  adapter; every call ends; a failed one is refunded; the audit event tells what
  happened.
- *Approvals*: resolved once, used only for the token and payload they name.
- *Audit*: what the process has not broken verifies; the sequence has no order
  other than that of the events.
- *Tokens and policy*: a delegated token allows nothing its parent would not.
- *Revocation*: a revoked token stays out until it expires, on every process that
  can know of it.
- *Gateway and clients*: what a client is told agrees with the slot that was kept.
- *Guards*: no run beyond the limit of a tool, none without a line in the audit
  file, one call per approval.

## 2. The modules

Layers, from a promise to the code that keeps it:

| Module | Models | State and actions in the code's terms |
|---|---|---|
| `ConsumptionStore` | what every consumption store promises (`consumption/types.ts`) | `count`, `seen`: the counter and the requestIds of a token; `status`, `jti`, `rid`: the calls. `TryConsume`, `Release` are atomic |
| `ConsumptionLedger` | `consumption-ledger.ts` | an operation is two segments, before and after its `await this.get(jti)`; between them it holds the counter it read. `Spec` lets operations on one token overlap, `SerialSpec` does not |
| `RedisConsumption` | `redis-consumption-store.ts` and the TTL of `create-consumption-store.ts` | a script is one atomic step, each `EXPIRE` another that may fail; keys carry the time they expire at; a clock ticks |
| `PolicyEngine` | `compile.ts`, `evaluate-ast.ts`, the DSL's constraint object and `constraint-subset.ts` | pure operators: `Allows` is the evaluation of a compiled policy, `Within` is `assertConstraintSubset` |
| `Delegation` | `grant.ts`, `delegate.ts`, the time checks of `validate.ts` | `tokens`: the tokens signed so far, each with its constraints, `iat`, `exp`, `delegator_chain`, depth and parent; `Grant` copies the lineage its caller states, if any, `Delegate` takes it from the parent; `Tick` |
| `Runtime` | `runtime.ts`, with approvals, sessions, revocation and the sandbox as it uses them | one action per segment between two awaits; `pc[r]` names the await a call is in |
| `AuditFile` | `file-audit-log.ts`, `audit-log.ts`, `store.ts` | `events`, `tip`, `seq` in memory; `file`: complete and unfinished lines |
| `ApprovalFile` | `file-approval-store.ts` | `requests` in memory, `stored`: the file, rewritten after every change, `Broken` when a write was cut short |
| `Fleet` | gateways (`app.ts`), the HTTP clients and the revocation stores, over `ConsumptionStore` | `place`, `stage`: which process is where with a call; `answer`, `told`: the result of `execute` and what the client made of the response; `records`, `until`: revocations in memory and the deadlines of their Redis keys |
| `LocalClient` | `local.py` | `pc`, `arg`, `read`: where a thread is in `execute_sync` and what it has read; `actions`, `completed`, `approvals`, `revoked` as in the code; `file`: the ALLOW lines that can be read, `torn`: it ends in a line cut short (`Tear`) |
| `ToolGuard` | `acr_mcp/guard.py`, `mcp-guard.ts`, `acr_langchain` over `LocalClient` or a gateway | `kind`, `backend`, `mode`, `simulate`: how the guard was set up; `cache`: the tokens it keeps; `stage`, `tool`, `token`: the check under way; one action per step of `check` and of the host |
| `RuntimeFiles` | composes the two files with one process that dies and is started again | `RecordForApproval` then `CreateApproval` are the two steps of an approval request in `execute` |

`Runtime` instantiates `ConsumptionStore` for its refinement (`ImplementsStore`),
as do `ConsumptionLedger` and `RedisConsumption`. So a slot that `Runtime` takes
atomically is one that Redis gives atomically, and the ledger gives atomically
when calls of one token do not overlap. `Delegation` extends `PolicyEngine`;
`RuntimeFiles` extends `AuditFile` and `ApprovalFile`. `Fleet` extends the abstract
store and uses its actions, one gateway call of `Fleet` being the segments of
`Runtime` between receipt and answer that reach the stores. `ToolGuard` extends
`LocalClient` and only restricts who calls it: every behaviour of a guard is one of
the client (`GuardImplementsClient`). The `MC*` modules give
constants their values; the `*Proofs` modules hold the theorems.

What the models abstract:

- Payloads are values a policy has an opinion on (`Verdicts` in `Runtime`, records
  of the fields the conditions read in `PolicyEngine`); URLs are a host and the
  entries that match it. The policy sees only calls whose URL parses, since the
  sandbox refuses the others before the adapter is called.
- A signature is sound: a token in `Delegation` was issued by `grantCapability`
  or `delegateCapability`; a call whose token fails `validateCapability` for
  any reason but time is a member of `Malformed`.
- A hash names the whole history it was computed over: `AuditFile` compares the
  histories.
- Every variable that is history only (`barred`, `reported`, `tears`, `intact`,
  `told`, `ancestors`, `strict`, `runs`, `through`, `approved`, `spent`) is
  marked so where it is declared. None of them guards a step of the code; `calls`,
  `approved` and the lives of a process only bound an instance.
- `Fleet` leaves the conditions of the policy to `Runtime`: an accepted call that
  passed the revocation gate may be answered without a slot, or go on to
  `tryConsume`. In `LocalClient` expiry, tool and constraints are one outcome,
  `fits`, that may turn out either way at any call. What the file holds beside
  ALLOW lines is left out; a write that fails may leave no byte or part of a line, and
  what is written behind that part cannot be read.
- `Runtime` over a revocation store in memory or one that persists: a crash may
  or may not take the revocations along. `Fleet` tells the two apart.

## 3. The runs

| Run | Instance | What it shows |
|---|---|---|
| `fleet` | 3 calls with one requestId or none, a token with `max_actions` 2, 2 gateways, both revocation stores; lifetime, tolerance, latency 1, TTL 4, horizon 3 | the abstract store keeps its counter, its quota and one holder per requestId under lost replies, retries and dying gateways; a revoked token stays out; clients are told the truth |
| `ledger_serial` | 3 calls, 2 tokens, 2 requestIds | without overlap on a token the in-memory ledger implements the store |
| `ledger_quota` *(violation)* | 2 calls | with overlap both calls take the last slot |
| `redis_aligned` | 3 calls, 1 token; lifetime 2, tolerance 1, latency 1, TTL 5, horizon 6 | the Redis store, lost replies and failing `EXPIRE`s included, implements the store if a key outlives everything its token can still do |
| `runtime_full` | 2 calls, one of them faulty, 4 payloads, 3 tokens (`max_actions` 1, none, and one without its policy version), 2 approval requests, a session, dry runs, revocation, expiry, crashes | quota, a second adapter call for a requestId only after a refund, a replay only with an original, revocation and approval gates, inert dry runs, audit log and session counters, final approvals, use of the store; under fairness every call ends and a failed one is refunded |
| `runtime_effect_once` *(violation)* | 2 calls, quota 1 | a timed-out call and its retry both take effect |
| `runtime_replay` *(violation)* | 2 calls, quota 1 | a replay is answered while the first call is still running |
| `runtime_two_events` *(violation)* | 2 calls, quota 1 | an append that fails leaves an ALLOW and a FAILED for one attempt |
| `delegation` | 1 grant, with nothing stated of its lineage, with an unknown parent and depth 1, or with depth 3; up to 4 tokens, depth 2, lifetime 2, tolerance 1, time 3 | what a chain of delegations guarantees |
| `delegation_narrows` *(violation)* | the same | a child that leaves a limit out does not have it |
| `runtime_files` | 2 approval requests, 3 events, 2 restarts, a clock of 2 values | what the chain proves, what is lost at most, and that a reviewer's decision is kept |
| `guarded_agent` | 2 callers, 2 tokens, 2 payloads of which one needs an approval, 1 approval request that may be approved twice, 1 requestId, a listed tool with `max_actions` 2, one that is denied and one unlisted, 2 lives, 3 calls, 1 line cut short, 8 ways to set a guard up | the limit of a tool, an audit line for every run, one call per approval |

Why the bounds are enough. Every safety property of `Runtime` relates at most two
calls. With a limit of one the second finds the last slot taken, or given back;
over the token without a limit only the requestId keeps the two apart. One faulty
call suffices since a fault touches only the call it hits. A limit that more calls
compete for is in `fleet`, whose store is the one `Runtime` is shown to use
(`ImplementsStore`), and the proofs of `QuotaSafe` and `RunsOnceUnlessRefunded` are for any
number. Two calls suffice for approvals: the one that asks and the one that
resumes. Sessions do not survive their process, the audit log does: after a crash
`SessionCounts` only bounds the counter.

In `fleet` the TTL exceeds lifetime, tolerance and latency by one, and the horizon
reaches the last moment at which a gateway can still ask for a token; calls and
gateways are interchangeable (symmetry). In `guarded_agent` three calls reach the
limit of two and are refused once, or run out of it with a restart in between;
with two lives a token of the first is met by the second. Of the eight set-ups three
are over the embedded client: a Python MCP guard under a configured secret, so that
after a restart, which clears every counter, its old tokens are still good; one set up
for dry runs; and LangChain's pool of threads, both of these with a secret made at
each start. The other five are over a gateway, in each mode and language. One torn
line suffices to swallow the next; the theorems are for any number and any set-up.

In `RedisConsumption` the horizon exceeds the TTL, so that keys do expire within the
run. In `Delegation` a token of depth 2 has both a parent and a grandparent, four tokens
are a full chain and a sibling, and the clock goes past the expiry of a whole chain. A
stated depth of 1 leaves one delegation, one of 3 none. In `RuntimeFiles` two restarts
are needed: the second loads what the first wrote behind an unfinished line. The run
also passes with `MaxEvents = 4` (4 million states).

The named bounds: `ApprovalIds`, `Requests`, `Calls`, `Callers`, `Approvals` (finite
sets), `MaxLives`, `MaxCalls`, `MaxApprovals`, `MaxTears`, `Horizon`,
`Perishing` (the tokens that are revoked or expire in an instance),
`MaxTokens`, `MaxGrants`, `MaxTime`, `MaxEvents`, `MaxRestarts`, and
`Lineages` (what grants state). `MaxDepth`,
`MaxLife`, `Tolerance`, `Ttl`, `Latency` stand for numbers of the code
(`DELEGATION_MAX_DEPTH`, the largest lifetime asked for, `clockTolerance`, the
TTL, the time a call takes). The theorems hold for all values of those their
modules have.

Deadlock is not checked: when all calls of a bounded instance have ended and the
bounds are used up, the system rightly stops.

## 4. Fairness

Only `Runtime` needs any: `FairSpec` adds `WF_vars(Progress(r))` for every request. It
says that the event loop runs a segment that is ready, that a store answers (with an
answer or an error), that the approval hook finishes, and that the timer
`executeInSandbox` sets for every adapter call fires. Nothing is assumed of the adapter,
clients, reviewers, administrators or the clock: `Settles` holds although an adapter may
never answer, because of the timer alone. With the sandbox disabled (`Sandboxed` is
`FALSE`) `executeInSandbox` sets no timer; then `Timeout` is never enabled and `Settles`
claims nothing. That a hook finishes is an assumption on the embedder:
`onApprovalRequired` is awaited without a timer. `Fleet` and `ToolGuard` claim no
liveness: a client that has given up, a gateway that died and a reviewer who never
answers are all within the code's promise. A process may die in `runtime_full` too, so
`Settles` counts a call whose process died as ended, and `Refunds` does not ask for its
slot.

## 5. What is proved

For all values of the constants that satisfy the assumptions named in the modules.

**`ConsumptionStoreProofs`**. `IInv` joins the type invariant to: the counter is the
number of holders, holders of a token with a limit do not exceed it, a recorded
requestId has exactly one holder. Each conjunct needs the others: a release may
lower the counter only because the caller is one of those counted. Cardinality
facts about adding and removing one holder come from `FiniteSetTheorems`.

**`LedgerProofs`**. With overlap the counter of a token still stays within its limit
(`LedgerCounterBounded`): what an operation has read is below the limit, so what
it writes is not above it. What breaks is that the counter tells how many slots are
held. Without overlap it does: `Fresh` says that an operation resumes with
what it would read now, and under it each segment after the await is the store's
atomic operation, so `LedgerImplementsStore`, and `LedgerQuota` by the store's
theorem. Overlap on one token is therefore the whole cause of run `ledger_quota`.

**`RedisProofs`**. `KeyInv` ties the keys to the calls. Until the last script that can
ask for a slot has run, counter and set are exactly what the holders make of
them, and a key with a deadline has one beyond that moment (`Deadlines`); later
a key may be gone, and what it stood for is read from the holders. Every script is
then a step of the abstract store, every `EXPIRE`, expiry and tick a stutter. The
hypothesis `AlignedTtl` (the TTL exceeds lifetime, tolerance and latency) is a
condition on the deployment: a token without a long lifetime meets it, the longest
allowed one under the default TTL does not (section 8). `RedisTypes` needs no hypothesis.

**`RuntimeProofs`**. Over the type invariant, `Stages` ties `pc[r]` to what the call
has: no slot before `tryConsume`, a slot while the adapter runs and until `release`.
`Cleared` carries what the gate and the policy found forward to the adapter: a call
beyond them has its approval, was allowed, and is no dry run. `Barred`: a call made
after the revocation has seen it, or has not yet looked; and the crash that takes the
revocations of an in-memory store along ends every call under way. From these:
`ApprovalGate`, `DryRunInert`, `RevokedNeverRuns`, and `ApprovalsFinal` as an action
property. Every step maps to a step or a stutter of `ConsumptionStore`, so
`RuntimeImplementsStore`; `QuotaSafe` and `SucceedsOnce` are then the store's theorems
read through the mapping, rather than proved again. `SucceedsOnce` has no run of its
own: it is the store's `OneHolderPerRequestId`, which run `fleet` checks, seen from the
pipeline.

`Tells` is the argument for `AuditTellsOutcome`: a call without an injected fault
has no event until it returns or waits for the hook, then one; and an ALLOW
is written in the segment in which the call ends. The faulty calls are those of run
`runtime_two_events`, for which it is false. `Accounted` is the argument for
`SessionCounts`: an ALLOW is logged by the last segment of a call or by the one before
its release (`AtEnd`), so the same call never logs a second one, and each adds one to
the counter and one to the set of calls it is compared with.

Two theorems state what is left of the documents' claims that findings 2
and 3 of section 8 refute. `RunsOnceUnlessRefunded`: if one requestId reaches the
adapter twice, one of the calls was given its slot back; `Stages` says that both took
one and the store that only one holds it. `ReplayHasOriginal`: a replay needs
another call that took a slot for the same token and requestId, at the moment of the
answer by the store's record of the requestId, and from then on because calls
keep what they were given or release it.

**`DelegationProofs`**. `Attenuation`, a lemma about the data: if every constraint of
the parent is restated by the child and the subset rules accept, then whatever the
child's policy allows the parent's allows; proved condition by condition of the compiled
policy. `NeverWidens` is then inductive over the minting of tokens: the ancestors of a
child are its parent and the parent's ancestors, for which it held already.
`DepthCountsDelegations` is about what delegations add: a grant may state any depth, so
the depth of a token is that of any token it descends from and one for each delegation
between them. The child's case counts the parent in for its own ancestors and for those
between it and each of them. The other three are inductive in the same way, each on top
of `Shape`: the typed sequences grow together, a token descends from older ones only,
and a parent has a lifetime.

**`RuntimeFilesProofs`**. Five layers: `OrderInv` (sequence numbers and the tip
follow the events), `KeepInv` (what a reviewer was told is in memory and in
a file that parses), `LinkInv` (the events in memory are those of the complete
lines while nothing was cut short, and are linked), `LossInv` and `TraceInv`.
`LossInv` is the delicate one: an unfinished line at the end of the file will
swallow one more event, so that loss must be booked in advance, when the append
is interrupted.

`ChainBinds` is about the chain itself, whoever wrote it: two logs, sorted by time, that
both verify and end in the same hash list the same events. It asks for induction over
the log, which the provers cannot take from the library; the argument is the least index
at which a verified log differs from its hash, and `LeastNatural` gives that index from
the well-foundedness of the naturals. `FilesValidMeansFull` adds `ChainInv`: the hashes
in memory and in the file are histories that the process made, so the tip continues the
last event that verifies.

**`FleetProofs`**. A step of `Fleet` is a step of the abstract store or leaves it
alone, so the quota and idempotency of any number of gateways are the store's
theorems. `ToldIsKept` rests on `InStep`, which ties the stage of a call to its slot
and its answer, and on `ParseType`, a lemma about the two mappings: what a client
makes of the response to a result is `Allow("tool")` exactly if the result is.
`RevokedStaysOut` needs `AlignedTtl`, the relation between the TTL and the life of a
token that revocation/types.ts:26 asks for and nothing enforces:
`KeyOutlivesToken` says that the key of a revoked token is there until no gateway
can ask for it.

**`ToolGuardProofs`**. `ClientApprovals` is inductive with `OneAtATime` (without threads
at most one call is under way) and `Unspent`: approvals granted and not yet used cover
the request that is approved now or about to be spent. `GuardRunsWithinLimit` joins two
halves: `WithinLimit`, that the counter of a token never exceeds its limit while one
thread writes it, and `Kept`, that a tool has one token until its process ends and that
its runs, with a check that was allowed and not yet heard, are at most that token's
counter. `GuardRunsOnFile` holds with threads, where the counter may lose increments; so
it is about the audit file: `OnFile` counts the checks that were allowed and not yet
used (`Waiting`), and runs and those together are at most the lines of the token and the
lines cut short, less one if the file ends in such a part now: the line to be lost
behind it is booked in advance, as in `LossInv`. A restart drops the waiting ones and
keeps the file. Its hypotheses are the set-ups the code makes no promise for: no audit
file, a guard that does not enforce, and a guard that takes a dry run for a permission
(section 8).

The chain of the main argument: `TypeOK` alone is not enough anywhere, since it
does not tell which slot belongs to whom or what a call still under way has
already been told. The strengthened invariants say exactly that.

## 6. Only model-checked

- Liveness (`Settles`, `Refunds`): the proof system does not reach fairness.
- The five violations: a counterexample is a behaviour, which TLC finds.

Every other property of a run is the statement of a theorem.

## 7. Not modelled

- *DSL builders*: they build the constraint object `PolicyEngine` starts from.
- *Adapters*: what they send is I/O; that a call lands or breaks, in time or after
  the timer, is in `Runtime`.
- *Gateway*: `grant` and `delegate` are `Delegation`, the approval routes `Runtime`'s
  `Resolve`; the routes add a schema, whose refusals (400) change nothing, and the
  admin key. Reads (`/audit`, `/approvals`, `/capabilities/revoked`) change nothing.
- *TypeScript guard over an embedded runtime*: its execute is `Runtime`, whose
  adapters do the work, so there is no second run to guard.
- *Go client*: a client without state; `Fleet` has the other two, which read a
  response differently.
- *Scope guards* (`scope.ts`, `scope.py`, `scope.go`): a function of a text and lists of
  words; nothing happens over time.
- *Payload shaping of the guards* (`build_payload`, `_default_payload`): which fields
  the policy sees is data here.
- *Signatures, hashing, JSON*: taken to do what they say.
- *Examples, demos, site*: scripts that call the runtime.
- Of modelled parts: `reset` of the consumption stores (tests and demos only), the
  filters of `list`, response size and content-type rules of the sandbox (one
  outcome among those of a failing adapter call), and the boolean nodes of a policy that
  `compilePolicy` never builds.

## 8. What the models show that a reader of the documents would not expect

Five have a run in which the property taken from the document is violated:

1. `ledger_quota`: `tryConsume` of the in-memory ledger is not atomic
   (`consumption-ledger.ts:31`, against `types.ts:13`).
2. `runtime_effect_once`: the refund after a timeout lets a retry take effect twice
   (`runtime.ts:594`, against `types.ts:47`).
3. `runtime_replay`: a replay does not mean success (`runtime.ts:538`, against
   `consumption/types.ts:6`).
4. `runtime_two_events`: a failing append after success (`runtime.ts:579`, against
   RFC-0003:92).
5. `delegation_narrows`: a limit a child does not mention is dropped
   (`constraint-subset.ts:28`, against line 20 of the same file).

Others follow from the same models and are only noted here:

- `wrap_tool`, `wrap_tools` and `guarded_tool` ask for dry runs unless told otherwise
  (`tools.py:131,179,202`), over `LocalAcrClient` too, and run the tool on the answer: no
  ALLOW in the audit file, nothing counted against `limit()`. THREAT_MODEL.md:206 says
  that a dry run "Must not be mistaken for authorization to act." `protect()` and the
  MCP guard do so only when told to (`protect.py:72`), and the Python MCP guard then runs
  nothing. Without its condition on `simulate`, `RunsOnFile` is violated by the first
  such call.
- A grant carries whatever `parent_jti`, depth and chain its caller states (`grant.ts:56`,
  `POST /capabilities/grant`), though RFC-0001:125 has `parent_jti` "present only for
  delegated tokens". Delegations count on from there (`DepthCountsDelegations`).
- A child may expire after its parent (`delegate.ts:50`, against RFC-0001:275), which is
  why `LifetimeBound` is about the lineage.
- The default TTL of the Redis store is 24 hours and a token is accepted for 24 hours
  and five seconds of tolerance (`create-consumption-store.ts:26`, against
  RFC-0004:86). So `redis_aligned`'s assumption on the TTL is not met at the very end of
  a longest-lived token; nor is `AlignedTtl` for the revocation keys
  (`redis-revocation-store.ts:28`).
- Over a gateway, the TypeScript client turns `token_revoked` and `sandbox_denied`
  into `policy_denied` (`client.ts:226`; docs/threat-examples.md and the README
  promise `token_revoked`).
- The gateway gives one key prefix to both Redis stores
  (`ACR_REDIS_KEY_PREFIX`), so that listing revocations also scans the keys of the
  consumption store. The approve and reject routes do not ask for the admin key.
- The Python MCP guard refuses every listed tool over a gateway: it asks for a dry
  run, and a simulated ALLOW is an "unexpected execute result" (`guard.py:185`,
  against "Embedded or gateway" in docs/mcp-integration.md:13). The other guards take
  it for a permission, and then `max_actions` is never consumed.
- A tool that requires an approval never runs through a guard: a check passes no
  `approval_id`, and each one adds a pending request.
- In shadow mode and with `default_action: allow`, denied and unlisted tools run
  without an audit event, since no client is asked (`guard.py:119-144`).
- A guard keeps its tokens past their expiry and revocation until it is made anew.
  With LangChain, tools of one ACR tool id share the first policy's token. Two
  concurrent first checks of the TypeScript guard, without `init()`, grant two.
- `LocalAcrClient` has no locks: threads may exceed `maxActions`, both be let through
  by one approval and both run under one request_id; LangChain's README says that
  `limit()` is enforced (line 94). `RunsWithinLimit` and `ApprovalSpent` are therefore
  stated without threads.
- `approve_sync` and `reject_sync` take requests that are not pending, a consumed one
  included. A restart with a configured secret resets counters, revocations and
  approvals while tokens stay valid.
- A line of the audit file that is cut short (`local.py:528`) swallows the next one, an
  ALLOW included, and without `audit_path` there is no file; `RunsOnFile` allows for
  the first and asks for the second.
- A failing audit file makes `execute_sync` raise after the action was counted and
  the request_id noted: the retry is answered replay.
- A token revoked while a call is past `isRevoked` still reaches the adapter
  (docs/distributed-revocation.md:3); `RevokedNeverRuns` states what does hold.
- Two overlapping calls with one requestId both execute over the in-memory ledger.
- Effects may exceed `max_actions` after timeouts (RFC-0002:351), though slots never do.
- An `EXPIRE` that fails, and a process that dies between `tryConsume` and the effect,
  leave a slot taken for good. The quota is safe; the slot is lost.
- Events for invalid tokens carry no `executionPhase`
  (docs/execution-state-machine.md:35), and the ALLOW of a resumed execution no
  `approvalId` (docs/approvals-guide.md:92); a session is EXECUTING before
  `tryConsume` (docs/execution-state-machine.md:13) and concurrent calls overwrite
  its `lastPhase`.
- An approval can be resumed more than once.
- `delegate` does not ask whether the parent is revoked; siblings each have their own
  `max_actions` counter; and `delegator_chain` holds the child's own delegator, and from
  grandchildren on repeats entries (RFC-0001:127).
- The subset rule folds the case of URL entries, the policy does not.
- A lifetime of "0s" mints a token that never validates.
- A cut-short rewrite of the approvals loses all of them; an unfinished audit line
  swallows the event behind it; a clock that is set back makes `verifyChain` reject
  an intact log.
- A retry of a completed requestId is denied by the policy, rather than replayed,
  once the quota is used up.

## 9. Plan

What would add most from here:

1. `RuntimeMemory`: `Runtime` over the in-memory ledger instead of the abstract store.
2. `Delegation`: revoking a parent and its children.
3. `PolicyVersions`: the registry, version ids and what a restart does to them.
4. Proofs: that the mapping of `Runtime` and that of the Redis store compose, so that
   `runtime.ts` over Redis is one theorem with `AlignedTtl` as its hypothesis.
