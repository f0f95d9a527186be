----------------------------- MODULE RuntimeFiles -----------------------------
(***************************************************************************)
(* The two files a runtime keeps (stores.ts) and what its process does to  *)
(* them: it records events, it records an event and then creates the       *)
(* approval request that names it (the REQUIRE_APPROVAL branch of          *)
(* executeWithClaims), a reviewer resolves requests, and it dies at any of *)
(* these points and is started again over the same files.                  *)
(***************************************************************************)
EXTENDS AuditFile, ApprovalFile

CONSTANT MaxRestarts  \* bounds how often the process is started again

ASSUME RestartBound == MaxRestarts \in Nat

VARIABLES
  up,        \* the process is running
  restarts,  \* how often it was started again
  promised,  \* the event recorded for an approval request not created yet, or 0
  auditId    \* auditId[a]: the event approval request a names, 0 for none

vars == <<auditVars, approvalVars, up, restarts, promised, auditId>>

TypeOK ==
  /\ AuditTypeOK
  /\ ApprovalTypeOK
  /\ up \in BOOLEAN
  /\ restarts \in Nat
  /\ promised \in Nat
  /\ auditId \in [ApprovalIds -> Nat]

Init ==
  /\ AuditInit
  /\ ApprovalInit
  /\ up = TRUE
  /\ restarts = 0
  /\ promised = 0
  /\ auditId = [a \in ApprovalIds |-> 0]

Running == up /\ promised = 0

\* audit.record of any other branch of execute.
RecordEvent ==
  /\ Running
  /\ Record \/ RecordThrows
  /\ UNCHANGED <<approvalVars, up, restarts, promised, auditId>>

\* audit.record of the REQUIRE_APPROVAL branch; create follows if it returned.
\* (The mutant creates the request even if record threw.)
RecordForApprovalAnyway ==
  /\ Running
  /\ Record \/ RecordThrows
  /\ promised' = issued + 1
  /\ UNCHANGED <<approvalVars, up, restarts, auditId>>
RecordForApproval ==
  /\ Running
  /\ Record
  /\ promised' = issued + 1
  /\ UNCHANGED <<approvalVars, up, restarts, auditId>>

\* approvals.create, which returns or throws.
CreateApproval(a) ==
  /\ up /\ promised # 0
  /\ auditId[a] = 0
  /\ Create(a)
  /\ auditId' = [auditId EXCEPT ![a] = promised]
  /\ promised' = 0
  /\ UNCHANGED <<auditVars, up, restarts>>

ResolveApproval(a, status) ==
  /\ Running
  /\ ResolveRequest(a, status)
  /\ UNCHANGED <<auditVars, up, restarts, promised, auditId>>

\* The process dies: in record, in create, in approve or reject, or elsewhere.
Stops ==
  /\ up
  /\ up' = FALSE
  /\ ForgetLog
  /\ promised' = 0
  /\ UNCHANGED restarts

DiesInRecord ==
  /\ Running
  /\ Stops
  /\ DieInRecord
  /\ ForgetRequests
  /\ UNCHANGED <<stored, told, torn, auditId>>

DiesInCreate(a) ==
  /\ promised # 0
  /\ auditId[a] = 0
  /\ Stops
  /\ DieInCreate(a)
  /\ auditId' = [auditId EXCEPT ![a] = promised]
  /\ UNCHANGED <<file, clock, issued, reported, tears, intact>>

DiesInResolve(a, status) ==
  /\ Running
  /\ Stops
  /\ DieInResolve(a, status)
  /\ UNCHANGED <<file, clock, issued, reported, tears, intact, auditId>>

Dies ==
  /\ Stops
  /\ ForgetRequests
  /\ UNCHANGED <<file, clock, issued, reported, tears, intact>>
  /\ UNCHANGED <<stored, told, torn, auditId>>

\* createAuditStore and createApprovalStore over the files that are there.
Restart ==
  /\ ~up
  /\ restarts < MaxRestarts
  /\ up' = TRUE
  /\ restarts' = restarts + 1
  /\ LoadLog
  /\ LoadRequests
  /\ UNCHANGED <<promised, auditId>>

\* Time passes, or the wall clock is set back, between two segments.
ClockChanges ==
  /\ \E t \in (0..MaxTime) \ {clock} : SetClock(t)
  /\ UNCHANGED <<approvalVars, up, restarts, promised, auditId>>

Next ==
  \/ RecordEvent \/ RecordForApproval \/ DiesInRecord \/ Dies \/ Restart \/ ClockChanges
  \/ \E a \in ApprovalIds : CreateApproval(a) \/ DiesInCreate(a)
  \/ \E a \in ApprovalIds, status \in Resolution :
       ResolveApproval(a, status) \/ DiesInResolve(a, status)

Spec == Init /\ [][Next]_vars

-----------------------------------------------------------------------------

\* An answer given to a reviewer holds in memory and, if the file parses, in
\* the file (approve and reject of FileApprovalStore).
ResolutionKept == (up => Keeps(requests)) /\ (stored # Broken => Keeps(stored))

\* Every approval request, in memory or in the file, names an event whose
\* record() returned; and while no append was interrupted, the file of the
\* audit log holds that event, whenever the process died (RFC-0003: an approval
\* can be traced to the event that asked for it).
ApprovalsAudited ==
  \A a \in ApprovalIds :
    requests[a] # Absent \/ (stored # Broken /\ stored[a] # Absent) =>
      /\ auditId[a] \in reported
      /\ tears = 0 => auditId[a] \in Ids(lines)
=============================================================================
