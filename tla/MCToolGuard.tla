----------------------------- MODULE MCToolGuard -----------------------------
(* A small instance of ToolGuard for TLC. *)
EXTENDS ToolGuard, TLC

CONSTANTS read_file, write_file, delete_file, unknown, http

\* Two tools with policies for one ACR tool, the second without max_actions.
TwoLimits == [u \in Listed |-> IF u = read_file THEN 2 ELSE Unlimited]
OneAcrTool == [u \in Listed |-> http]
SmallLimits == {2, Unlimited}

Setup(k, b, m, sim, th, st) ==
  [kind |-> k, backend |-> b, mode |-> m, simulate |-> sim, threads |-> th, stable |-> st]
\* Over the embedded client: a Python MCP guard under a configured secret, one
\* set up for dry runs, and LangChain's pool of threads.
SmallSetups ==
  {Setup("python", "embedded", "enforce", FALSE, FALSE, TRUE),
   Setup("python", "embedded", "enforce", TRUE, FALSE, FALSE),
   Setup("langchain", "embedded", "enforce", FALSE, TRUE, FALSE),
   Setup("langchain", "gateway", "enforce", FALSE, FALSE, FALSE),
   Setup("langchain", "gateway", "enforce", TRUE, FALSE, FALSE),
   Setup("python", "gateway", "shadow", TRUE, FALSE, FALSE),
   Setup("python", "gateway", "disabled", TRUE, FALSE, FALSE),
   Setup("typescript", "gateway", "enforce", TRUE, FALSE, FALSE)}

Symmetry == Permutations(Callers) \cup Permutations(Tokens)
=============================================================================
