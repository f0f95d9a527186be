----------------------------- MODULE LocalClient -----------------------------
(***************************************************************************)
(* LocalAcrClient, the in-process runtime of the Python SDK (acr/local.py):*)
(* tokens, action counters, revocations, approvals and an audit file in one*)
(* process, without stores or adapters.  An ALLOW consumes an action; the  *)
(* caller does the work.                                                   *)
(*                                                                         *)
(* execute_sync awaits nothing, so calls from one thread do not interleave.*)
(* LangChain runs sync tools in a pool of threads, and nothing in the      *)
(* client is locked: with `threads' the reads and writes of two calls      *)
(* interleave.  All state but the audit file is lost when the process ends;*)
(* tokens of an earlier life are accepted only with a configured secret.   *)
(* There is no clock: a token may turn out to have expired at any call.    *)
(*                                                                         *)
(* The audit file is optional.  A line is one unprotected append: it may be*)
(* cut short, and the next one is then glued behind what there is of it.   *)
(***************************************************************************)
EXTENDS Naturals

CONSTANTS
  Callers,     \* tasks and threads that call execute_sync, one call at a time
  Tokens,      \* capability tokens
  RequestIds,  \* idempotency keys
  Approvals,   \* ids of approval requests; a call that needs one when all
               \* are taken goes no further
  Payloads,    \* payloads
  Gated,       \* the payloads that need an approval (spendingLimit)
  Limits,      \* maxActions that tokens may have
  AuditPath,   \* there is an audit file
  None,        \* an absent requestId, approval or limit
  Unlimited,   \* a token without maxActions
  MaxLives,    \* bound: how often the process is started
  MaxCalls,    \* bound: how often execute_sync is called
  MaxApprovals, \* bound: how often one request is approved
  MaxTears     \* bound: how often a line of the audit file is cut short

ASSUME LimitsAssumption == Limits \subseteq Nat \cup {Unlimited} /\ Unlimited \notin Nat
ASSUME SettingsAssumption == AuditPath \in BOOLEAN
ASSUME BoundsAssumption ==
  /\ MaxLives \in Nat \ {0} /\ MaxCalls \in Nat
  /\ MaxApprovals \in Nat /\ MaxTears \in Nat

VARIABLES
  threads,    \* calls come from several threads
  stable,     \* the secret is configured, not made up at each start
  life,       \* number of the running process
  born,       \* born[t]: the life in which token t was signed, 0 before
  limit,      \* limit[t]: the maxActions constraint of token t
  revoked,    \* _revoked
  actions,    \* _actions
  completed,  \* _completed_requests
  approvals,  \* _approvals
  file,       \* file[t]: lines of the audit file that parse and are an ALLOW for
              \* an action of token t
  torn,       \* the file ends in a line that was cut short
  tears,      \* history: how often a line was cut short
  pc,         \* pc[c]: the next part of the call that c is in
  arg,        \* arg[c]: its arguments
  read,       \* read[c]: the counter it has read and not yet written
  result,     \* result[c]: what execute_sync returned to c, or "raised", until used
  calls,      \* history: how often execute_sync was called
  approved,   \* history: approved[a]: how often request a became approved
  spent       \* history: spent[a]: how many calls request a has let through

memory == <<revoked, actions, completed, approvals>>
tokens == <<born, limit>>
trail == <<file, torn, tears>>
clientVars == <<threads, stable, life, tokens, memory, trail, pc, arg, read, result,
                calls, approved, spent>>

Stages == {"idle", "gate", "spend", "note", "count"}
\* The codes of a denial are not told apart.
Answers == {"denied", "allowed", "replay", "simulated", "approval_required", "raised"}
Arguments == [jti : Tokens, rid : RequestIds \cup {None},
              approval : Approvals \cup {None}, payload : Payloads]
Requests == [jti : Tokens, payload : Payloads,
             status : {"pending", "approved", "rejected", "consumed"}]
\* The place of a request whose process has ended.
Lost == [status |-> "lost"]
ASSUME ClientNoneAssumption ==
  /\ None \notin Tokens \cup RequestIds \cup Approvals \cup Limits
  /\ None \notin Answers /\ None \notin Arguments /\ None \notin Requests /\ None # Lost

Held(a) == approvals[a] # None /\ approvals[a] # Lost

ClientTypeOK ==
  /\ threads \in BOOLEAN
  /\ stable \in BOOLEAN
  /\ life \in 1..MaxLives
  /\ born \in [Tokens -> 0..MaxLives]
  /\ limit \in [Tokens -> Limits \cup {None}]
  /\ revoked \subseteq Tokens
  /\ actions \in [Tokens -> Nat]
  /\ completed \in [Tokens -> SUBSET RequestIds]
  /\ approvals \in [Approvals -> Requests \cup {None, Lost}]
  /\ file \in [Tokens -> Nat]
  /\ torn \in BOOLEAN
  /\ tears \in 0..MaxTears
  /\ pc \in [Callers -> Stages]
  /\ arg \in [Callers -> Arguments \cup {None}]
  /\ \A c \in Callers :
       /\ arg[c] = None <=> pc[c] = "idle"
       /\ result[c] # None => pc[c] = "idle"
       /\ pc[c] = "spend" => arg[c].approval # None /\ Held(arg[c].approval)
  /\ read \in [Callers -> Nat]
  /\ result \in [Callers -> Answers \cup {None}]
  /\ calls \in 0..MaxCalls
  /\ approved \in [Approvals -> Nat]
  /\ spent \in [Approvals -> Nat]

ClientInit ==
  /\ threads \in BOOLEAN
  /\ stable \in BOOLEAN
  /\ life = 1
  /\ born = [t \in Tokens |-> 0]
  /\ limit = [t \in Tokens |-> None]
  /\ revoked = {}
  /\ actions = [t \in Tokens |-> 0]
  /\ completed = [t \in Tokens |-> {}]
  /\ approvals = [a \in Approvals |-> None]
  /\ file = [t \in Tokens |-> 0]
  /\ torn = FALSE
  /\ tears = 0
  /\ pc = [c \in Callers |-> "idle"]
  /\ arg = [c \in Callers |-> None]
  /\ read = [c \in Callers |-> 0]
  /\ result = [c \in Callers |-> None]
  /\ calls = 0
  /\ approved = [a \in Approvals |-> 0]
  /\ spent = [a \in Approvals |-> 0]

-----------------------------------------------------------------------------

\* With one thread nothing happens in the middle of a call, nor before its
\* caller has the answer.
Free == threads \/ \A c \in Callers : pc[c] = "idle" /\ result[c] = None

\* grant_sync: sign a token.
Grant(t, n) ==
  /\ Free
  /\ born[t] = 0
  /\ born' = [born EXCEPT ![t] = life]
  /\ limit' = [limit EXCEPT ![t] = n]
  /\ UNCHANGED <<threads, stable, life, memory, trail, pc, arg, read, result,
                 calls, approved, spent>>

\* The call ends with an answer.
Return(c, answer) ==
  /\ pc' = [pc EXCEPT ![c] = "idle"]
  /\ arg' = [arg EXCEPT ![c] = None]
  /\ read' = [read EXCEPT ![c] = 0]
  /\ result' = [result EXCEPT ![c] = answer]

\* Part of a line is written.
Tear ==
  /\ AuditPath /\ tears < MaxTears
  /\ torn' = TRUE
  /\ tears' = tears + 1
  /\ UNCHANGED file

\* open or write fails, before or in the line: the call raises.
Unwritten(c) ==
  /\ AuditPath
  /\ Return(c, "raised")
  /\ Tear \/ UNCHANGED trail

\* _deny and the rest record an answer, in a line that is no ALLOW for an
\* action, before they return it.
Recorded(c, answer) ==
  \/ /\ Return(c, answer)
     /\ torn' = FALSE
     /\ UNCHANGED <<file, tears>>
  \/ Unwritten(c)

\* decode_hs256: the signature is of this client's secret.
Signed(t) == born[t] > 0 /\ (born[t] = life \/ stable)

UnderLimitOffByOne(t) == limit[t] # Unlimited => actions[t] <= limit[t]   \* mutant
UnderLimit(t) == limit[t] # Unlimited => actions[t] < limit[t]

Accepted(t) == Signed(t) /\ t \notin revoked
Known(x) == x.rid # None /\ x.rid \in completed[x.jti]

\* What execute_sync makes of a call before the approval gate; "gate" if it
\* gets that far.  The call fits if the token has not expired and is for this
\* tool, and its constraints allow the payload.
Screened(x, dry, fits) ==
  IF ~(Accepted(x.jti) /\ fits) THEN "denied"
  ELSE IF dry THEN "simulated"
  ELSE IF Known(x) THEN "replay"
  ELSE IF UnderLimit(x.jti) THEN "gate" ELSE "denied"

\* execute_sync is called with arguments x and simulate = dry.
Check(c, x, dry) ==
  /\ Free
  /\ pc[c] = "idle" /\ result[c] = None
  /\ calls < MaxCalls
  /\ calls' = calls + 1
  /\ born[x.jti] > 0
  /\ \E fits \in BOOLEAN :
       LET screened == Screened(x, dry, fits) IN
       IF screened = "gate"
       THEN /\ pc' = [pc EXCEPT ![c] = "gate"]
            /\ arg' = [arg EXCEPT ![c] = x]
            /\ UNCHANGED <<read, result, trail>>
       ELSE Recorded(c, screened)
  /\ UNCHANGED <<threads, stable, life, tokens, memory, approved, spent>>

-----------------------------------------------------------------------------
(* The approval gate: _approval_gate and _resolve_approval *)

Proceed(c, stage) ==
  /\ pc' = [pc EXCEPT ![c] = stage]
  /\ UNCHANGED <<arg, read, result>>

\* A request of this token was named, and it is not the same one still pending.
Named(x) ==
  /\ x.approval # None
  /\ Held(x.approval)
  /\ approvals[x.approval].jti = x.jti
  /\ approvals[x.approval].payload = x.payload => approvals[x.approval].status # "pending"

\* No usable approval: a new pending request.
AskApproval(c) ==
  \E a \in Approvals :
    /\ approvals[a] = None
    /\ approvals' = [approvals EXCEPT ![a] =
         [jti |-> arg[c].jti, payload |-> arg[c].payload, status |-> "pending"]]
    /\ Recorded(c, "approval_required")

Gate(c) ==
  /\ pc[c] = "gate"
  /\ IF arg[c].payload \notin Gated
     THEN Proceed(c, "note") /\ UNCHANGED <<approvals, trail>>
     ELSE IF ~Named(arg[c]) THEN AskApproval(c)
     ELSE LET request == approvals[arg[c].approval] IN
          /\ IF request.payload = arg[c].payload /\ request.status = "approved"
             THEN Proceed(c, "spend") /\ UNCHANGED trail ELSE Recorded(c, "denied")
          /\ UNCHANGED approvals
  /\ UNCHANGED <<threads, stable, life, tokens, revoked, actions, completed,
                 calls, approved, spent>>

\* The approval is used up.  (StillApproved is a mutant.)
StillApproved(a) == approvals[a]
Consumed(a) == [approvals[a] EXCEPT !.status = "consumed"]
Spend(c) ==
  /\ pc[c] = "spend"
  /\ approvals' = [approvals EXCEPT ![arg[c].approval] = Consumed(arg[c].approval)]
  /\ spent' = [spent EXCEPT ![arg[c].approval] = @ + 1]
  /\ Proceed(c, "note")
  /\ UNCHANGED <<threads, stable, life, tokens, revoked, actions, completed, trail,
                 calls, approved>>

-----------------------------------------------------------------------------
(* _allow *)

NotedAlways(x) == completed[x.jti] \cup {x.rid}            \* mutant
Noted(x) == completed[x.jti] \cup ({x.rid} \ {None})
Note(c) ==
  /\ pc[c] = "note"
  /\ completed' = [completed EXCEPT ![arg[c].jti] = Noted(arg[c])]
  /\ read' = [read EXCEPT ![c] = actions[arg[c].jti]]
  /\ pc' = [pc EXCEPT ![c] = "count"]
  /\ UNCHANGED <<threads, stable, life, tokens, revoked, actions, approvals, trail, arg,
                 result, calls, approved, spent>>

\* The ALLOW is recorded: behind a line cut short it does not parse.
\* (LoggedOrNot, a mutant, swallows the error of the file.)
LoggedOrNot(c, t) ==
  /\ Return(c, "allowed")
  /\ torn' = FALSE
  /\ \E n \in {0, 1} : file' = [file EXCEPT ![t] = @ + n]
  /\ UNCHANGED tears
Logged(c, t) ==
  \/ /\ Return(c, "allowed")
     /\ torn' = FALSE
     /\ file' = IF AuditPath /\ ~torn THEN [file EXCEPT ![t] = @ + 1] ELSE file
     /\ UNCHANGED tears
  \/ Unwritten(c)

\* The counter is written, then the ALLOW.
Count(c) ==
  /\ pc[c] = "count"
  /\ actions' = [actions EXCEPT ![arg[c].jti] = read[c] + 1]
  /\ Logged(c, arg[c].jti)
  /\ UNCHANGED <<threads, stable, life, tokens, revoked, completed, approvals,
                 calls, approved, spent>>

-----------------------------------------------------------------------------
(* The other methods, the clock and the process *)

Revoke(t) ==
  /\ Free
  /\ born[t] > 0
  /\ revoked' = revoked \cup {t}
  /\ UNCHANGED <<threads, stable, life, tokens, actions, completed, approvals, trail, pc,
                 arg, read, result, calls, approved, spent>>

\* approve_sync and reject_sync ask for a request, not for a pending one.
Resolve(a, status) ==
  /\ Free
  /\ Held(a)
  /\ approvals' = [approvals EXCEPT ![a].status = status]
  /\ IF status = "approved" /\ approvals[a].status # "approved"
     THEN approved[a] < MaxApprovals /\ approved' = [approved EXCEPT ![a] = @ + 1]
     ELSE UNCHANGED approved
  /\ UNCHANGED <<threads, stable, life, tokens, revoked, actions, completed, trail, pc,
                 arg, read, result, calls, spent>>

\* The process dies, at any point, and another one starts.  A call that dies
\* with it may have left part of its line.
Restart ==
  /\ life < MaxLives
  /\ life' = life + 1
  /\ revoked' = {}
  /\ actions' = [t \in Tokens |-> 0]
  /\ completed' = [t \in Tokens |-> {}]
  /\ approvals' = [a \in Approvals |->
       IF approvals[a] = None THEN None ELSE Lost]
  /\ pc' = [c \in Callers |-> "idle"]
  /\ arg' = [c \in Callers |-> None]
  /\ read' = [c \in Callers |-> 0]
  /\ result' = [c \in Callers |-> None]
  /\ Tear \/ UNCHANGED trail
  /\ UNCHANGED <<threads, stable, tokens, calls, approved, spent>>

\* The caller has its answer.
Read(c) ==
  /\ result[c] # None
  /\ result' = [result EXCEPT ![c] = None]
  /\ UNCHANGED <<threads, stable, life, tokens, memory, trail, pc, arg, read,
                 calls, approved, spent>>

Execute(c) ==
  \/ \E x \in Arguments, dry \in BOOLEAN : Check(c, x, dry)
  \/ Gate(c) \/ Spend(c) \/ Note(c) \/ Count(c) \/ Read(c)

ClientNext ==
  \/ \E c \in Callers : Execute(c)
  \/ \E t \in Tokens : Revoke(t) \/ \E n \in Limits : Grant(t, n)
  \/ \E a \in Approvals, status \in {"approved", "rejected"} : Resolve(a, status)
  \/ Restart

ClientSpec == ClientInit /\ [][ClientNext]_clientVars

-----------------------------------------------------------------------------
(* Properties *)

\* With one thread, a request lets at most one call through each time it
\* becomes approved, whoever names it and however often, also when it is
\* rejected or approved again in between (_resolve_approval, approve_sync).
ApprovalSpent == ~threads => \A a \in Approvals : spent[a] <= approved[a]
=============================================================================
