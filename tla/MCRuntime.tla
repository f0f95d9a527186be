------------------------------ MODULE MCRuntime ------------------------------
(***************************************************************************)
(* Small instances of Runtime for TLC.                                     *)
(***************************************************************************)
EXTENDS Runtime

CONSTANTS t1, t2, t3, p1, p2, p3, p4, q1, a1, a2, s1, r1, r2, r3

In(t, p, q, a, s, dry) ==
  [token |-> t, payload |-> p, requestId |-> q, approvalId |-> a, session |-> s,
   simulate |-> dry]

\* Quota and idempotency: any mix of calls with and without a requestId.
QuotaInputs == {In(t1, p1, q, None, None, FALSE) : q \in {q1, None}}

\* Every aspect of execute(): approvals that exist or do not yet, for p1 or
\* used with p2; a session, dry runs and a requestId for p3, which needs none;
\* p4, which the sandbox refuses; t2, which has no max_actions, so that only the
\* requestId stops a second call; and t3, which has lost its policy version.
AllInputs ==
  {In(t1, p1, None, a, None, FALSE) : a \in {None, a1}}
    \cup {In(t1, p2, None, a1, None, FALSE)}
    \cup {In(t1, p3, q1, None, s1, dry) : dry \in BOOLEAN}
    \cup {In(t1, p4, None, None, s1, FALSE), In(t2, p3, q1, None, s1, FALSE),
          In(t3, p3, None, None, None, FALSE)}

OneAction == [t \in Tokens |-> IF t = t2 THEN Unlimited ELSE 1]

AllowAll == [k \in Tokens \X Payloads \X BOOLEAN |-> {"ALLOW"}]

\* A policy that wants an approval for p1, within allowed hours, denies p2, a
\* domain that an approval opens, and allows the others.
Policies ==
  [k \in Tokens \X Payloads \X BOOLEAN |->
     CASE k[2] = p1 -> IF k[3] THEN {"ALLOW", "DENY"} ELSE {"REQUIRE_APPROVAL", "DENY"}
       [] k[2] = p2 -> IF k[3] THEN {"ALLOW"} ELSE {"DENY"}
       [] OTHER -> {"ALLOW"}]
=============================================================================
