------------------------------ MODULE ToolGuard ------------------------------
(***************************************************************************)
(* The guards that stand between an agent and its tools: McpToolGuard      *)
(* (acr_mcp/guard.py, and mcp-guard.ts over a gateway) and the wrappers of *)
(* LangChain tools (acr_langchain).  When its process starts a guard gets  *)
(* one token per tool - per ACR tool with LangChain - and keeps it.  Before*)
(* every tool call it asks its client, and then lets the tool run, or not. *)
(*                                                                         *)
(* The client is the embedded one (module LocalClient, extended) or an HTTP*)
(* gateway, which is asked for a dry run.  The host program may also call  *)
(* the embedded client itself with the tokens of the guard, to resume a    *)
(* call that was approved.                                                 *)
(***************************************************************************)
EXTENDS LocalClient, FiniteSets

CONSTANTS
  Tools,      \* names of tools
  Listed,     \* the tools that have a policy
  Forbidden,  \* the tools listed with deny: true
  MaxActions, \* MaxActions[tool]: max_actions in the policy of tool
  AcrTool,    \* AcrTool[tool]: the ACR tool the policy of tool is for
  Deployments \* the ways the guard is set up

ASSUME ToolsAssumption ==
  /\ Listed \subseteq Tools /\ Forbidden \subseteq Tools \ Listed
  /\ MaxActions \in [Listed -> Limits]
ASSUME CallersAssumption == IsFiniteSet(Callers)
\* LangChain has no modes; its tools may run in threads.  The TypeScript guard is
\* taken over a gateway, where it always asks for a dry run.  The Python guards
\* are told whether to: unless said otherwise, McpToolGuard and protect() do
\* over a gateway, wrap_tool, wrap_tools and guarded_tool over any client.
ASSUME DeploymentsAssumption ==
  \A d \in Deployments :
    /\ d \in [kind : {"python", "typescript", "langchain"},
             backend : {"embedded", "gateway"},
             mode : {"enforce", "shadow", "disabled"},
             simulate : BOOLEAN,
             threads : BOOLEAN,
             stable : BOOLEAN]
    /\ d.kind = "langchain" => d.mode = "enforce"
    /\ d.kind = "typescript" => d.backend = "gateway" /\ d.simulate
    /\ d.threads => d.kind = "langchain" /\ d.backend = "embedded"

VARIABLES
  kind,     \* "python" or "typescript" for MCP, or "langchain"
  backend,  \* "embedded" or "gateway"
  mode,     \* "enforce", "shadow" or "disabled"
  simulate, \* the guard asks for dry runs
  cache,    \* cache[k]: the token kept under key k
  tool,     \* tool[c]: the tool the guard has asked about, or None
  token,    \* token[c]: the token the guard asked with
  stage,    \* stage[c]: where the guard is with the call of c
  runs,     \* history: runs[u]: calls to tool u let through after asking the
            \* embedded client, in this life of the process
  through   \* history: through[t]: such calls with token t, in any life

config == <<kind, backend, mode, simulate>>
guarding == <<config, cache, tool, token, stage, runs, through>>
guardVars == <<clientVars, guarding>>

\* Under what a token is kept.
Key(u) == IF kind = "langchain" THEN AcrTool[u] ELSE u
Keys == Tools \cup {AcrTool[u] : u \in Listed}

GuardTypeOK ==
  /\ ClientTypeOK
  /\ kind \in {"python", "typescript", "langchain"}
  /\ backend \in {"embedded", "gateway"}
  /\ mode \in {"enforce", "shadow", "disabled"}
  /\ simulate \in BOOLEAN
  /\ cache \in [Keys -> Tokens \cup {None}]
  /\ tool \in [Callers -> Tools \cup {None}]
  /\ token \in [Callers -> Tokens \cup {None}]
  /\ stage \in [Callers -> {"none", "asking", "allowed"}]
  /\ \A c \in Callers :
       /\ stage[c] = "asking" => tool[c] \in Listed /\ token[c] \in Tokens
       /\ stage[c] = "allowed" \/ backend = "gateway" => pc[c] = "idle" /\ result[c] = None
  /\ runs \in [Listed -> Nat]
  /\ through \in [Tokens -> Nat]

GuardInit ==
  /\ ClientInit
  /\ \E d \in Deployments :
       /\ kind = d.kind /\ backend = d.backend /\ mode = d.mode
       /\ simulate = d.simulate /\ threads = d.threads /\ stable = d.stable
  /\ cache = [k \in Keys |-> None]
  /\ tool = [c \in Callers |-> None]
  /\ token = [c \in Callers |-> None]
  /\ stage = [c \in Callers |-> "none"]
  /\ runs = [u \in Listed |-> 0]
  /\ through = [t \in Tokens |-> 0]

-----------------------------------------------------------------------------

\* ensure(), for each tool in turn when the guard is made: a token for a tool
\* whose key has none.
Ensure(u, t) ==
  /\ cache[Key(u)] = None
  /\ Grant(t, MaxActions[u])
  /\ cache' = [cache EXCEPT ![Key(u)] = t]
  /\ UNCHANGED <<config, tool, token, stage, runs, through>>

\* The guard has been made.
Ready == \A u \in Listed : cache[Key(u)] # None

\* The guard is done with a call: an allowed one goes on to the tool, and in
\* shadow mode any.
Decide(c, allowed) ==
  stage' = [stage EXCEPT ![c] = IF allowed \/ mode = "shadow" THEN "allowed" ELSE "none"]

\* A call that is checked without asking the client.  The default_action for
\* unlisted tools may be either.
CheckUnasked(c, u) ==
  /\ Ready /\ Free
  /\ stage[c] = "none" /\ pc[c] = "idle" /\ result[c] = None
  /\ u \notin Listed \/ mode = "disabled"
  /\ kind = "langchain" => u \in Listed
  /\ \/ mode = "disabled" /\ Decide(c, TRUE)
     \/ mode # "disabled" /\ Decide(c, FALSE)
     \/ mode # "disabled" /\ u \notin Forbidden /\ Decide(c, TRUE)
  /\ UNCHANGED <<clientVars, config, cache, tool, token, runs, through>>

\* The client is called with the cached token, without approval or requestId.
Ask(c, u, p) ==
  /\ Ready /\ Free
  /\ stage[c] = "none" /\ pc[c] = "idle" /\ result[c] = None
  /\ u \in Listed /\ mode # "disabled"
  /\ tool' = [tool EXCEPT ![c] = u]
  /\ token' = [token EXCEPT ![c] = cache[Key(u)]]
  /\ stage' = [stage EXCEPT ![c] = "asking"]
  /\ IF backend = "embedded"
     THEN Check(c, [jti |-> cache[Key(u)], rid |-> None, approval |-> None, payload |-> p],
                simulate)
     ELSE UNCHANGED clientVars
  /\ UNCHANGED <<config, cache, runs, through>>

\* What the guards take for a permission: a dry run the policy would allow is
\* none for the Python MCP guard.
Permits(answer) ==
  \/ answer \in {"allowed", "replay"}
  \/ answer = "simulated" /\ kind # "python"

\* The client has answered.  When it raised, the tool is not called either way.
Heard(c, answer) ==
  /\ stage[c] = "asking"
  /\ IF answer = "raised" THEN stage' = [stage EXCEPT ![c] = "none"]
     ELSE Decide(c, Permits(answer))
  /\ tool' = [tool EXCEPT ![c] = None]
  /\ token' = [token EXCEPT ![c] = None]
  /\ UNCHANGED <<config, cache>>
HearClient(c) ==
  /\ backend = "embedded"
  /\ Read(c)
  /\ Heard(c, result[c])
  /\ IF stage'[c] = "allowed"
     THEN /\ runs' = [runs EXCEPT ![tool[c]] = @ + 1]
          /\ through' = [through EXCEPT ![token[c]] = @ + 1]
     ELSE UNCHANGED <<runs, through>>

\* A gateway answers with a denial, a request for approval or, if it was asked
\* for a dry run, the simulation, else what the adapter did; or it cannot be
\* reached.
HearGateway(c) ==
  /\ backend = "gateway"
  /\ \E answer \in {"denied", "approval_required", "raised",
                     IF simulate THEN "simulated" ELSE "allowed"} :
       Heard(c, answer)
  /\ UNCHANGED <<clientVars, runs, through>>

\* The tool is called.
Run(c) ==
  /\ stage[c] = "allowed"
  /\ stage' = [stage EXCEPT ![c] = "none"]
  /\ UNCHANGED <<clientVars, config, cache, tool, token, runs, through>>

-----------------------------------------------------------------------------

\* The host calls the embedded client with a token of the guard.
HostCheck(c, x, dry) ==
  /\ backend = "embedded"
  /\ stage[c] = "none"
  /\ Check(c, x, dry)
  /\ UNCHANGED guarding
HostReads(c) == stage[c] = "none" /\ Read(c) /\ UNCHANGED guarding

\* The embedded client goes on with a call; approvals, revocations, time.
ClientStep ==
  /\ backend = "embedded"
  /\ \/ \E c \in Callers : Gate(c) \/ Spend(c) \/ Note(c) \/ Count(c)
     \/ \E t \in Tokens : Revoke(t)
     \/ \E a \in Approvals, status \in {"approved", "rejected"} : Resolve(a, status)
  /\ UNCHANGED guarding

GuardRestart ==
  /\ Restart
  /\ cache' = [k \in Keys |-> None]
  /\ tool' = [c \in Callers |-> None]
  /\ token' = [c \in Callers |-> None]
  /\ stage' = [c \in Callers |-> "none"]
  /\ runs' = [u \in Listed |-> 0]
  /\ backend = "gateway" => UNCHANGED trail
  /\ UNCHANGED <<config, through>>

GuardNext ==
  \/ \E u \in Listed, t \in Tokens : Ensure(u, t)
  \/ \E c \in Callers, u \in Tools :
       CheckUnasked(c, u) \/ \E p \in Payloads : Ask(c, u, p)
  \/ \E c \in Callers :
       \/ HearClient(c) \/ HearGateway(c) \/ Run(c) \/ HostReads(c)
       \/ \E x \in Arguments, dry \in BOOLEAN : HostCheck(c, x, dry)
  \/ ClientStep
  \/ GuardRestart

GuardSpec == GuardInit /\ [][GuardNext]_guardVars

-----------------------------------------------------------------------------
(* Properties *)

\* An enforcing MCP guard over the embedded client lets a tool run at most
\* max_actions times between two starts of its process, though every check is
\* a call of its own and the host uses the same tokens (ensure, execute_sync).
RunsWithinLimit ==
  (kind = "python" /\ backend = "embedded" /\ mode = "enforce") =>
    \A u \in Listed : MaxActions[u] # Unlimited => runs[u] <= MaxActions[u]

\* Of the tool calls that got through an enforcing guard over the embedded
\* client, all but one for each line cut short have an ALLOW of their own that
\* can be read in the audit file, whatever failed or was restarted, also with
\* threads (_record, check).  There has to be such a file, and only the Python
\* MCP guard, which lets none through, may be set up for dry runs.
RunsOnFile ==
  (/\ AuditPath /\ backend = "embedded" /\ mode = "enforce"
   /\ simulate => kind = "python") =>
    \A t \in Tokens : through[t] <= file[t] + tears
=============================================================================
