----------------------------- MODULE ApprovalFile -----------------------------
(***************************************************************************)
(* FileApprovalStore (file-approval-store.ts): approval requests in memory *)
(* and a JSON file that is written anew, and not atomically, after every   *)
(* change.  A file that does not parse is loaded as an empty one.          *)
(***************************************************************************)

CONSTANTS
  ApprovalIds,  \* ids of approval requests, each used once
  Absent,       \* no request with this id
  Broken        \* a file that does not parse

Resolution == {"approved", "rejected"}
Request == {"pending", Absent} \cup Resolution

ASSUME ApprovalConstants ==
  /\ Absent \notin {"pending", "approved", "rejected"}
  /\ Broken \notin [ApprovalIds -> Request]

VARIABLES
  requests,  \* requests[a]: the status of a in memory
  stored,    \* what the file holds: requests as last written, or Broken
  told,      \* history: told[a] is the resolution whose caller got an answer
  torn       \* history: some write left the file broken

approvalVars == <<requests, stored, told, torn>>

ApprovalTypeOK ==
  /\ requests \in [ApprovalIds -> Request]
  /\ stored \in [ApprovalIds -> Request] \cup {Broken}
  /\ told \in [ApprovalIds -> Resolution \cup {"none"}]
  /\ torn \in BOOLEAN

NoRequests == [a \in ApprovalIds |-> Absent]

ApprovalInit ==
  /\ requests = NoRequests
  /\ stored = NoRequests
  /\ told = [a \in ApprovalIds |-> "none"]
  /\ torn = FALSE

-----------------------------------------------------------------------------
(* writeFileSync: writes the whole file, fails before it opens it, or stops  *)
(* after it truncated it.                                                    *)

WriteOK(now) == stored' = now /\ UNCHANGED torn
WriteFails ==
  \/ UNCHANGED <<stored, torn>>
  \/ stored' = Broken /\ torn' = TRUE

\* What a request becomes in memory; approve and reject throw unless pending.
\* (The mutant lets a resolved request be resolved again.)
MayResolveAgain(a) == requests[a] # Absent
MayResolve(a) == requests[a] = "pending"

Created(a) == [requests EXCEPT ![a] = "pending"]
Resolved(a, status) == [requests EXCEPT ![a] = status]

Create(a) ==
  /\ requests[a] = Absent
  /\ requests' = Created(a)
  /\ WriteOK(requests') \/ WriteFails
  /\ UNCHANGED told

ResolveRequest(a, status) ==
  /\ MayResolve(a)
  /\ requests' = Resolved(a, status)
  /\ \/ WriteOK(requests') /\ told' = [told EXCEPT ![a] = status]
     \/ WriteFails /\ UNCHANGED told

\* The process dies in the middle of sync, of a creation or of a resolution;
\* what it had in memory is gone.
ForgetRequests == requests' = NoRequests

DieInCreate(a) ==
  /\ requests[a] = Absent
  /\ WriteOK(Created(a)) \/ WriteFails
  /\ ForgetRequests
  /\ UNCHANGED told

DieInResolve(a, status) ==
  /\ MayResolve(a)
  /\ WriteOK(Resolved(a, status)) \/ WriteFails
  /\ ForgetRequests
  /\ UNCHANGED told

\* loadFromFile.  (The mutant does not catch what JSON.parse throws.)
Unparsed == stored
Parsed == IF stored = Broken THEN NoRequests ELSE stored

LoadRequests ==
  /\ requests' = Parsed
  /\ UNCHANGED <<stored, told, torn>>

-----------------------------------------------------------------------------

\* A resolution whose caller got an answer is final, across restarts and failed
\* writes: memory and file keep it, or, when a write was interrupted, lose the
\* request altogether; it never becomes pending or the opposite (approve and
\* reject of FileApprovalStore).
Keeps(table) ==
  \A a \in ApprovalIds :
    told[a] # "none" => table[a] = told[a] \/ (torn /\ table[a] = Absent)
=============================================================================
