---------------------------- MODULE RuntimeProofs ----------------------------
(***************************************************************************)
(* Runtime for any number of requests, tokens, payloads and approvals: the *)
(* types, the stages of execute(), the approval gate, the revocation gate, *)
(* the dry run, the audit log, the sessions, and the quota by refinement.  *)
(***************************************************************************)
EXTENDS Runtime, FiniteSetTheorems, TLAPS

-----------------------------------------------------------------------------
(* Types *)

AuditType == audit \in [Requests -> Seq(Event)]
SessionType == session \in [Sessions -> [phase : Phases \cup {None}, actions : Nat]]

\* audit.record appends one event of the declared shape.
LEMMA RecordType ==
  ASSUME AuditType, NEW r \in Requests,
         NEW decision \in {"ALLOW", "DENY", "REQUIRE_APPROVAL", "SIMULATE"},
         NEW phase \in Phases \cup {None}, NEW approval \in ApprovalIds \cup {None},
         Record(r, decision, phase, approval)
  PROVE  AuditType'
<1> DEFINE e == [decision |-> decision, phase |-> phase, approval |-> approval]
<1>1. e \in Event
  BY DEF Event
<1>2. Append(audit[r], e) \in Seq(Event)
  BY <1>1 DEF AuditType
<1> QED
  BY <1>2 DEF AuditType, Record

\* touchSession leaves a session with a phase and a count.
LEMMA TouchType ==
  ASSUME SessionType, NEW r \in Requests, input[r] \in Input,
         NEW phase \in Phases, NEW done \in Nat,
         Touch(r, phase, done)
  PROVE  SessionType'
<1>1. input[r].session # None => input[r].session \in Sessions
  BY DEF Input
<1>2. \A s \in Sessions : [phase |-> phase, actions |-> session[s].actions + done]
                            \in [phase : Phases \cup {None}, actions : Nat]
  BY DEF SessionType
<1> QED
  BY <1>1, <1>2 DEF Touch, SessionType

\* A segment of execute() that touches neither stores nor adapter.
LEMMA MoveType ==
  ASSUME TypeOK, NEW r \in Requests, NEW from \in Waiting,
         NEW to \in Waiting \cup {"returned", "threw", "crashed"}, Goto(r, from, to),
         UNCHANGED <<call, stores, reserve, adapter>>, AuditType', SessionType'
  PROVE  TypeOK'
BY DEF TypeOK, Goto, call, stores, authority, AuditType, SessionType, Waiting

\* A segment that only moves on.
LEMMA PlainMoveType ==
  ASSUME TypeOK, NEW r \in Requests, NEW from \in Waiting,
         NEW to \in Waiting \cup {"returned", "threw", "crashed"}, Goto(r, from, to),
         NothingElse
  PROVE  TypeOK'
BY MoveType DEF NothingElse, TypeOK, AuditType, SessionType

\* A call that ends, ends by returning or by an exception.
LEMMA EndGoto ==
  ASSUME NEW r \in Requests, NEW from \in Waiting, End(r, from)
  PROVE  \E to \in {"returned", "threw"} : Goto(r, from, to)
BY DEF End, Ends

\* A segment that records a decision and returns.
LEMMA ReturnType ==
  ASSUME TypeOK, NEW r \in Requests, NEW from \in Waiting,
         NEW decision \in {"ALLOW", "DENY", "REQUIRE_APPROVAL", "SIMULATE"},
         NEW phase \in Phases,
         Return(r, from, decision, phase),
         UNCHANGED <<call, stores, reserve, adapter>>
  PROVE  TypeOK'
<1>0. PICK to \in {"returned", "threw"} : Goto(r, from, to)
  BY EndGoto DEF Return
<1>1. input[r] \in Input
  BY <1>0 DEF Goto, TypeOK, Waiting
<1>2. AuditType'
  BY RecordType DEF Return, TypeOK, AuditType
<1>3. SessionType'
  BY <1>1, TouchType DEF Return, TypeOK, SessionType
<1> QED
  BY <1>0, <1>2, <1>3, MoveType

\* The counter and the record after one of the answers of the store.
LEMMA StoreTypes ==
  ASSUME TypeOK, NEW r \in Requests, input[r] \in Input,
         Replay(r) \/ Refuse(r) \/ Grant(r) \/ GiveBack(r)
  PROVE  /\ count' \in [Tokens -> Nat]
         /\ seen' \in [Tokens -> SUBSET RequestIds]
         /\ reserve' \in [Requests -> {"none", "granted", "refused", "replayed", "released"}]
<1>1. Token(r) \in Tokens /\ RequestId(r) \in RequestIds \cup {None}
  BY DEF Input, Token, RequestId
<1>2. CASE Replay(r)
  BY <1>2 DEF Replay, Answered, TypeOK
<1>3. CASE Refuse(r)
  BY <1>3 DEF Refuse, Answered, TypeOK
<1>4. CASE Grant(r)
  BY <1>1, <1>4 DEF Grant, Answered, Noted, TypeOK
<1>5. CASE GiveBack(r)
  BY <1>1, <1>5 DEF GiveBack, Answered, RecordLeft, TypeOK
<1> QED
  BY <1>2, <1>3, <1>4, <1>5

\* Every step keeps every variable within its type.
LEMMA TypeStep == TypeOK /\ [Next]_vars => TypeOK'
<1> SUFFICES ASSUME TypeOK, [Next]_vars
             PROVE  TypeOK'
  OBVIOUS
<1>0. AuditType /\ SessionType
  BY DEF TypeOK, AuditType, SessionType
<1>1. ASSUME NEW r \in Requests, DenyInvalid(r)
      PROVE  TypeOK'
  <2>1. AuditType'
    BY <1>0, <1>1, RecordType DEF DenyInvalid, Phases
  <2> QED
    BY <1>0, <1>1, <2>1, MoveType, EndGoto DEF DenyInvalid, SessionType, Waiting
<1>2. ASSUME NEW r \in Requests, AcceptToken(r)
      PROVE  TypeOK'
  BY <1>2, PlainMoveType DEF AcceptToken, Waiting
<1>3. ASSUME NEW r \in Requests, ReadRevocation(r)
      PROVE  TypeOK'
  BY <1>3 DEF ReadRevocation, Goto, IsRevoked, TypeOK, stores, authority, Waiting
<1>4. ASSUME NEW r \in Requests, DenyRevoked(r)
      PROVE  TypeOK'
  <2>1. AuditType'
    BY <1>0, <1>4, RecordType DEF DenyRevoked, Phases
  <2> QED
    BY <1>0, <1>4, <2>1, MoveType, EndGoto DEF DenyRevoked, SessionType, Waiting
<1>5. ASSUME NEW r \in Requests, DenyApproval(r)
      PROVE  TypeOK'
  <2>1. input[r].approvalId \in ApprovalIds \cup {None}
    BY <1>5, EndGoto DEF DenyApproval, Goto, TypeOK, Waiting, Input
  <2>2. AuditType'
    BY <1>0, <1>5, <2>1, RecordType DEF DenyApproval
  <2> QED
    BY <1>0, <1>5, <2>2, MoveType, EndGoto DEF DenyApproval, SessionType, Waiting
<1>6. ASSUME NEW r \in Requests, PassGate(r)
      PROVE  TypeOK'
  BY <1>6, PlainMoveType DEF PassGate, Waiting
<1>7. ASSUME NEW r \in Requests, ReadCount(r)
      PROVE  TypeOK'
  <2>1. Token(r) \in Tokens
    BY <1>7 DEF ReadCount, Goto, TypeOK, Waiting, Input, Token
  <2> QED
    BY <1>7, <2>1 DEF ReadCount, Goto, TypeOK, stores, authority, Waiting
<1>8. ASSUME NEW r \in Requests, DenyVersion(r)
      PROVE  TypeOK'
  <2>1. AuditType'
    BY <1>0, <1>8, RecordType DEF DenyVersion, Phases
  <2> QED
    BY <1>0, <1>8, <2>1, MoveType, EndGoto DEF DenyVersion, SessionType, Waiting
<1>9. ASSUME NEW r \in Requests, DenyPolicy(r)
      PROVE  TypeOK'
  BY <1>9, ReturnType DEF DenyPolicy, Waiting, Phases
<1>10. ASSUME NEW r \in Requests, RequireApproval(r) \/ ApprovalFails(r)
      PROVE  TypeOK'
  <2>1. input[r] \in Input /\ input[r].payload \in Payloads /\ Token(r) \in Tokens
    BY <1>10 DEF RequireApproval, ApprovalFails, Goto, TypeOK, Waiting, Input, Token
  <2>2. AuditType'
    BY <1>0, <1>10, <2>1, RecordType DEF RequireApproval, ApprovalFails, Phases
  <2>3. SessionType'
    BY <1>0, <1>10, <2>1, TouchType DEF RequireApproval, ApprovalFails, Phases
  <2>4. approvals' \in [ApprovalIds -> Approval \cup {None}]
    <3>1. CASE CreateApproval(r)
      BY <2>1, <3>1 DEF CreateApproval, TypeOK, Approval
    <3>2. CASE UNCHANGED approvals
      BY <3>2 DEF TypeOK
    <3> QED
      BY <1>10, <3>1, <3>2 DEF RequireApproval, ApprovalFails
  <2>5. PICK to \in {"notifying", "threw"} : Goto(r, "policy", to)
    BY <1>10 DEF RequireApproval, ApprovalFails
  <2>6. UNCHANGED <<call, reserve, adapter, count, seen, revoked, expired>>
    BY <1>10 DEF RequireApproval, ApprovalFails
  <2> QED
    BY <2>2, <2>3, <2>4, <2>5, <2>6 DEF Goto, TypeOK, call, Waiting, AuditType, SessionType
<1>11. ASSUME NEW r \in Requests, ReturnPending(r)
      PROVE  TypeOK'
  BY <1>11, PlainMoveType DEF ReturnPending, Waiting
<1>12. ASSUME NEW r \in Requests, Simulate(r)
      PROVE  TypeOK'
  BY <1>12, ReturnType DEF Simulate, Waiting, Phases
<1>13. ASSUME NEW r \in Requests, BeginConsume(r)
      PROVE  TypeOK'
  <2>1. input[r] \in Input
    BY <1>13 DEF BeginConsume, Goto, TypeOK, Waiting
  <2>2. SessionType'
    BY <1>0, <1>13, <2>1, TouchType DEF BeginConsume, Phases
  <2> QED
    BY <1>0, <1>13, <2>2, MoveType DEF BeginConsume, AuditType, Waiting
<1>14. ASSUME NEW r \in Requests, TryConsume(r)
      PROVE  TypeOK'
  <2>1. input[r] \in Input
    BY <1>14 DEF TryConsume, Goto, TypeOK, Waiting
  <2> QED
    BY <1>14, <2>1, StoreTypes DEF TryConsume, Goto, TypeOK, call, authority, Waiting
<1>15. ASSUME NEW r \in Requests, DenyQuota(r)
      PROVE  TypeOK'
  BY <1>15, ReturnType DEF DenyQuota, Waiting, Phases
<1>16. ASSUME NEW r \in Requests, AllowReplay(r)
      PROVE  TypeOK'
  BY <1>16, ReturnType DEF AllowReplay, Waiting, Phases
<1>17. ASSUME NEW r \in Requests, StartAdapter(r)
      PROVE  TypeOK'
  BY <1>17 DEF StartAdapter, Goto, TypeOK, call, stores, authority, Waiting
<1>18. ASSUME NEW r \in Requests, Block(r)
      PROVE  TypeOK'
  BY <1>18, PlainMoveType DEF Block, Waiting
<1>19. ASSUME NEW r \in Requests, Complete(r)
      PROVE  TypeOK'
  <2>1. input[r] \in Input
    BY <1>19 DEF Complete, Goto, TypeOK, Waiting
  <2>2. AuditType' /\ SessionType'
    BY <1>0, <1>19, <2>1, RecordType, TouchType DEF Complete, Phases
  <2> QED
    BY <1>19, <2>2, MoveType DEF Complete, Waiting
<1>20. ASSUME NEW r \in Requests, AdapterThrows(r)
      PROVE  TypeOK'
  BY <1>20, PlainMoveType DEF AdapterThrows, Waiting
<1>21. ASSUME NEW r \in Requests, Timeout(r)
      PROVE  TypeOK'
  BY <1>21, PlainMoveType DEF Timeout, Waiting
<1>22. ASSUME NEW r \in Requests, Release(r)
      PROVE  TypeOK'
  <2>1. input[r] \in Input
    BY <1>22 DEF Release, Goto, TypeOK, Waiting
  <2> QED
    BY <1>22, <2>1, StoreTypes DEF Release, Goto, TypeOK, call, authority, Waiting
<1>23. ASSUME NEW r \in Requests, DenyFailed(r)
      PROVE  TypeOK'
  BY <1>23, ReturnType DEF DenyFailed, Waiting, Phases
<1>24. ASSUME NEW r \in Requests, StoreFails(r)
      PROVE  TypeOK'
  BY <1>24, PlainMoveType DEF StoreFails, Waiting
<1>25. ASSUME NEW r \in Requests, ConsumeReplyLost(r)
      PROVE  TypeOK'
  <2>1. input[r] \in Input
    BY <1>25 DEF ConsumeReplyLost, Goto, TypeOK, Waiting
  <2> QED
    BY <1>25, <2>1, StoreTypes DEF ConsumeReplyLost, Goto, TypeOK, call, authority, Waiting
<1>26. ASSUME NEW r \in Requests, ReleaseReplyLost(r)
      PROVE  TypeOK'
  <2>1. input[r] \in Input
    BY <1>26 DEF ReleaseReplyLost, Goto, TypeOK, Waiting
  <2> QED
    BY <1>26, <2>1, StoreTypes DEF ReleaseReplyLost, Goto, TypeOK, call, authority, Waiting
<1>27. ASSUME NEW r \in Requests, HookThrows(r)
      PROVE  TypeOK'
  BY <1>27, PlainMoveType DEF HookThrows, Waiting
<1>28. ASSUME NEW r \in Requests, AuditFails(r)
      PROVE  TypeOK'
  <2>1. input[r] \in Input
    BY <1>28 DEF AuditFails, Goto, TypeOK, Waiting
  <2>2. AuditType' /\ SessionType'
    BY <1>0, <1>28, <2>1, RecordType, TouchType DEF AuditFails, Phases
  <2> QED
    BY <1>28, <2>2, MoveType DEF AuditFails, Waiting
<1>29. CASE Crash
  <2>1. SessionType'
    BY <1>29 DEF Crash, SessionType, NoSession
  <2> QED
    BY <1>29, <2>1 DEF Crash, TypeOK, SessionType, call, stores, authority, Waiting
<1>30. ASSUME NEW r \in Requests, Submit(r)
      PROVE  TypeOK'
  BY <1>30, InputsAssumption DEF Submit, Goto, TypeOK, stores, authority, Waiting
<1>31. ASSUME NEW r \in Requests, EffectLands(r) \/ AdapterBreaks(r)
      PROVE  TypeOK'
  BY <1>31 DEF EffectLands, AdapterBreaks, TypeOK, call, stores, authority
<1>32. ASSUME NEW t \in Perishing, Revoke(t) \/ Expire(t)
      PROVE  TypeOK'
  BY <1>32, PerishingAssumption DEF Revoke, Expire, TypeOK, call
<1>33. ASSUME NEW a \in ApprovalIds, NEW status \in {"approved", "rejected"},
              Resolve(a, status)
      PROVE  TypeOK'
  <2>1. approvals[a] \in Approval
    BY <1>33 DEF Resolve, Open, TypeOK
  <2>2. [approvals[a] EXCEPT !.status = status] \in Approval
    BY <2>1 DEF Approval
  <2>3. approvals' \in [ApprovalIds -> Approval \cup {None}]
    BY <1>33, <2>2 DEF Resolve, TypeOK
  <2> QED
    BY <1>33, <2>3 DEF Resolve, TypeOK, call
<1>34. CASE UNCHANGED vars
  BY <1>34 DEF vars, call, stores, authority, TypeOK
<1>35. ASSUME NEW r \in Requests, Progress(r)
       PROVE  TypeOK'
  BY <1>35, <1>1, <1>2, <1>3, <1>4, <1>5, <1>6, <1>7, <1>8, <1>9, <1>10, <1>11,
     <1>12, <1>13, <1>14, <1>15, <1>16, <1>17, <1>18, <1>19, <1>20, <1>21,
     <1>22, <1>23
  DEF Progress
<1>36. ASSUME NEW r \in Requests, Fault(r)
       PROVE  TypeOK'
  BY <1>36, <1>10, <1>24, <1>25, <1>26, <1>27, <1>28 DEF Fault
<1>37. CASE Environment
  BY <1>37, <1>30, <1>31, <1>32, <1>33 DEF Environment
<1> QED
  BY <1>29, <1>34, <1>35, <1>36, <1>37 DEF Next

\* execute() starts from nothing submitted.
LEMMA TypeInit == Init => TypeOK
BY DEF Init, TypeOK, NoSession

\* The variables of the pipeline keep their types (execute, all paths).
THEOREM RuntimeTypeOK == Spec => []TypeOK
  BY TypeInit, TypeStep, PTL DEF Spec

-----------------------------------------------------------------------------
(* Stages of execute() *)

BeforeStore == {"idle", "validating", "revocation", "gate", "counting", "policy",
                "notifying", "consuming"}

\* What the store has answered and whether the adapter was started, by the
\* place execute() has reached: no slot before tryConsume, a slot while the
\* adapter runs and until release, a slot or a refund whenever it was started.
StageOf(r) ==
  /\ pc[r] \in BeforeStore => reserve[r] = "none" /\ adapter[r] = "none"
  /\ pc[r] = "consumed" =>
       reserve[r] \in {"granted", "refused", "replayed"} /\ adapter[r] = "none"
  /\ pc[r] \in {"executing", "releasing"} => reserve[r] = "granted"
  /\ pc[r] = "executing" => adapter[r] # "none"
  /\ pc[r] = "released" => reserve[r] = "released"
  /\ adapter[r] # "none" => reserve[r] \in {"granted", "released"}

Stages == \A r \in Requests : StageOf(r)

\* Every step leaves every call in one of these stages.
LEMMA StagesStep == TypeOK /\ Stages /\ [Next]_vars => Stages'
<1> SUFFICES ASSUME TypeOK, Stages, [Next]_vars
             PROVE  Stages'
  OBVIOUS
<1> USE DEF Stages, StageOf, TypeOK, BeforeStore, Waiting
<1>1. ASSUME NEW r \in Requests, AcceptToken(r) \/ PassGate(r) \/
              ReturnPending(r) \/ Block(r) \/ AdapterThrows(r) \/ Timeout(r)
              \/ StoreFails(r) \/ HookThrows(r)
      PROVE  Stages'
  BY <1>1 DEF AcceptToken, PassGate, ReturnPending, Block, AdapterThrows,
         Timeout, StoreFails, HookThrows, Goto, NothingElse
<1>2. ASSUME NEW r \in Requests, NEW from \in BeforeStore, NEW to \in BeforeStore \cup {"returned", "threw"},
             Goto(r, from, to), UNCHANGED <<reserve, adapter>>
      PROVE  Stages'
  BY <1>2 DEF Goto
<1>3. ASSUME NEW r \in Requests,
              DenyInvalid(r) \/ DenyRevoked(r) \/ DenyApproval(r) \/ DenyVersion(r)
       PROVE  Stages'
  <2>1. PICK from \in BeforeStore \ {"idle"} : End(r, from)
    BY <1>3 DEF DenyInvalid, DenyRevoked, DenyApproval, DenyVersion
  <2>2. UNCHANGED <<reserve, adapter>>
    BY <1>3 DEF DenyInvalid, DenyRevoked, DenyApproval, DenyVersion
  <2>3. PICK to \in {"returned", "threw"} : Goto(r, from, to)
    BY <2>1, EndGoto
  <2> QED
    BY <1>2, <2>2, <2>3
<1>4. ASSUME NEW r \in Requests,
              BeginConsume(r) \/ ReadRevocation(r) \/ ReadCount(r) \/ RequireApproval(r)
              \/ ApprovalFails(r)
       PROVE  Stages'
  <2>1. CASE BeginConsume(r) \/ ReadRevocation(r)
    BY <1>2, <2>1 DEF BeginConsume, ReadRevocation
  <2>2. CASE ReadCount(r) \/ RequireApproval(r) \/ ApprovalFails(r)
    BY <1>2, <2>2 DEF ReadCount, RequireApproval, ApprovalFails
  <2> QED
    BY <1>4, <2>1, <2>2
<1>5. ASSUME NEW r \in Requests, AuditFails(r)
       PROVE  Stages'
  BY <1>5 DEF AuditFails, Goto
<1>6. ASSUME NEW r \in Requests, DenyPolicy(r) \/ Simulate(r) \/ DenyQuota(r)
              \/ AllowReplay(r) \/ Complete(r) \/ DenyFailed(r)
      PROVE  Stages'
  BY <1>6 DEF DenyPolicy, Simulate, DenyQuota, AllowReplay, Complete,
         DenyFailed, Return, End, Ends, Goto
<1>7. ASSUME NEW r \in Requests, TryConsume(r) \/ ConsumeReplyLost(r)
      PROVE  Stages'
  <2>1. PICK answer \in {"granted", "refused", "replayed"} :
          reserve' = [reserve EXCEPT ![r] = answer]
    BY <1>7 DEF TryConsume, ConsumeReplyLost, Replay, Refuse, Grant, Answered
  <2>2. adapter' = adapter /\ pc[r] = "consuming"
    BY <1>7 DEF TryConsume, ConsumeReplyLost, Goto, call
  <2>3. PICK to \in {"consumed", "threw"} : pc' = [pc EXCEPT ![r] = to]
    BY <1>7 DEF TryConsume, ConsumeReplyLost, Goto
  <2> QED
    BY <2>1, <2>2, <2>3
<1>8. ASSUME NEW r \in Requests, Release(r) \/ ReleaseReplyLost(r)
      PROVE  Stages'
  BY <1>8 DEF Release, ReleaseReplyLost, Goto, GiveBack, Answered
<1>9. ASSUME NEW r \in Requests, StartAdapter(r)
      PROVE  Stages'
  BY <1>9 DEF StartAdapter, Goto
<1>10. ASSUME NEW r \in Requests, Submit(r)
      PROVE  Stages'
  BY <1>10 DEF Submit, Goto
<1>11. ASSUME NEW r \in Requests, EffectLands(r) \/ AdapterBreaks(r)
      PROVE  Stages'
  BY <1>11 DEF EffectLands, AdapterBreaks
<1>12. CASE Crash
  BY <1>12 DEF Crash
<1>13. ASSUME NEW t \in Perishing, Revoke(t) \/ Expire(t)
      PROVE  Stages'
  BY <1>13 DEF Revoke, Expire
<1>14. ASSUME NEW a \in ApprovalIds, NEW status \in {"approved", "rejected"}, Resolve(a, status)
      PROVE  Stages'
  BY <1>14 DEF Resolve
<1>15. CASE UNCHANGED vars
  BY <1>15 DEF vars
<1> QED
  BY <1>1, <1>2, <1>3, <1>4, <1>5, <1>6, <1>7, <1>8,
     <1>9, <1>10, <1>11, <1>12, <1>13, <1>14, <1>15
  DEF Next, Progress, Fault, Environment

\* No call starts beyond the first stage.
LEMMA StagesInit == Init => Stages
BY DEF Init, Stages, StageOf, BeforeStore

\* Every call is in one of the stages (executeWithClaims around the store).
THEOREM RuntimeStages == Spec => [](TypeOK /\ Stages)
  BY TypeInit, TypeStep, StagesInit, StagesStep, PTL DEF Spec

-----------------------------------------------------------------------------
(* Approval requests *)

\* What no step may do to an approval request.
ApprovalsKept ==
  \A a \in ApprovalIds :
    approvals[a] # None =>
      /\ approvals'[a] # None
      /\ approvals'[a].token = approvals[a].token
      /\ approvals'[a].payload = approvals[a].payload
      /\ approvals[a].status # "pending" => approvals'[a] = approvals[a]

\* Only create and resolve write approval requests, the one where there was
\* none, the other where the request is pending.
LEMMA ApprovalsStep == TypeOK /\ [Next]_vars => ApprovalsKept
<1> SUFFICES ASSUME TypeOK, [Next]_vars
             PROVE  ApprovalsKept
  OBVIOUS
<1>1. ASSUME UNCHANGED approvals
      PROVE  ApprovalsKept
  BY <1>1 DEF ApprovalsKept
<1>2. ASSUME NEW r \in Requests, CreateApproval(r)
      PROVE  ApprovalsKept
  BY <1>2 DEF CreateApproval, ApprovalsKept, TypeOK
<1>3. ASSUME NEW b \in ApprovalIds, NEW status \in {"approved", "rejected"},
             Resolve(b, status)
      PROVE  ApprovalsKept
  <2>1. approvals[b] \in Approval /\ approvals[b].status = "pending"
    BY <1>3 DEF Resolve, Open, TypeOK
  <2>2. approvals' = [approvals EXCEPT ![b] = [approvals[b] EXCEPT !.status = status]]
    BY <1>3 DEF Resolve
  <2>3. /\ [approvals[b] EXCEPT !.status = status].token = approvals[b].token
        /\ [approvals[b] EXCEPT !.status = status].payload = approvals[b].payload
    BY <2>1 DEF Approval
  <2>4. [approvals[b] EXCEPT !.status = status] # None
    BY <2>1, NoneAssumption DEF Approval
  <2> QED
    BY <2>1, <2>2, <2>3, <2>4 DEF ApprovalsKept, TypeOK
<1>4. CASE \E r \in Requests : Progress(r)
  <2>1. PICK r \in Requests : Progress(r)
    BY <1>4
  <2>2. CreateApproval(r) \/ UNCHANGED approvals
    BY <2>1
    DEF Progress, RequireApproval, DenyInvalid, AcceptToken, ReadRevocation, DenyRevoked, DenyApproval,
        PassGate, ReadCount, DenyVersion, DenyPolicy, ReturnPending, Simulate,
        BeginConsume, TryConsume, DenyQuota, AllowReplay, StartAdapter, Block,
        Complete, AdapterThrows, Timeout, Release, DenyFailed,
        NothingElse, stores, authority
  <2> QED
    BY <1>1, <1>2, <2>1, <2>2
<1>5. CASE \E r \in Requests : Fault(r)
  BY <1>1, <1>2, <1>5
  DEF Fault, StoreFails, ConsumeReplyLost, ReleaseReplyLost, ApprovalFails, HookThrows, AuditFails,
      NothingElse, stores, authority
<1>6. CASE Crash \/ UNCHANGED vars
  BY <1>1, <1>6 DEF Crash, vars, stores, authority
<1>7. CASE Environment
  BY <1>1, <1>3, <1>7
  DEF Environment, Submit, EffectLands, AdapterBreaks, Revoke, Expire, stores, authority
<1> QED
  BY <1>4, <1>5, <1>6, <1>7 DEF Next

\* An approval request is final once it was resolved, and never changes what it
\* stands for (create, approve and reject of the approval store).
THEOREM RuntimeApprovalsFinal == Spec => ApprovalsFinal
<1>1. TypeOK /\ [Next]_vars => [ApprovalsKept]_vars
  BY ApprovalsStep
<1> QED
  BY RuntimeTypeOK, <1>1, PTL DEF Spec, ApprovalsFinal, ApprovalsKept

-----------------------------------------------------------------------------
(* The gates *)

AfterPolicy == {"consuming", "consumed", "executing", "releasing", "released"}
AfterGate == {"counting", "policy", "notifying"} \cup AfterPolicy

\* What a step of the system may do to one call: its input stays; it passes the
\* gate, the policy and tryConsume only from the segment before, under its
\* conditions; and the answer about its revocation is the one that was read.
StepOf(r) ==
  /\ pc[r] # "idle" => pc'[r] # "idle" /\ input'[r] = input[r] /\ barred'[r] = barred[r]
  /\ pc'[r] \in AfterGate \ AfterPolicy /\ pc[r] \notin AfterGate =>
       pc[r] = "gate" /\ ~revokedSeen[r] /\ (Resuming(r) => Matches(input[r].approvalId, r))
  /\ pc'[r] \in AfterPolicy /\ pc[r] \notin AfterPolicy =>
       pc[r] = "policy" /\ Evaluates(r, "ALLOW") /\ ~DryRun(r)
  /\ adapter'[r] # "none" /\ adapter[r] = "none" => pc[r] = "consumed"
  /\ reserve'[r] # reserve[r] => pc[r] \in AfterPolicy
  /\ pc'[r] = "gate" =>
       \/ pc[r] = "gate" /\ revokedSeen'[r] = revokedSeen[r]
       \/ pc[r] = "revocation" /\ revokedSeen'[r] = (Token(r) \in revoked)
  /\ pc[r] = "idle" /\ pc'[r] # "idle" =>
       pc'[r] = "validating" /\ barred'[r] = (input'[r].token \in revoked)
  /\ pc[r] = "idle" /\ pc'[r] = "idle" => barred'[r] = barred[r]
  /\ pc'[r] \in Waiting => pc[r] \in Waiting \cup {"idle"}

\* Every step treats every call that way.
LEMMA StepShape == TypeOK /\ [Next]_vars => \A q \in Requests : StepOf(q)
<1> SUFFICES ASSUME TypeOK, [Next]_vars
             PROVE  \A q \in Requests : StepOf(q)
  OBVIOUS
<1> USE DEF StepOf, TypeOK, Waiting, AfterGate, AfterPolicy, call
<1>1. ASSUME NEW r \in Requests, DenyInvalid(r) \/ DenyRevoked(r) \/
             DenyApproval(r) \/ DenyVersion(r) \/ RequireApproval(r) \/
             ApprovalFails(r) \/ AuditFails(r)
      PROVE  \A q \in Requests : StepOf(q)
  <2>1. CASE DenyInvalid(r) \/ DenyRevoked(r)
    BY <2>1 DEF DenyInvalid, DenyRevoked, End, Ends, Goto
  <2>2. CASE DenyApproval(r) \/ DenyVersion(r)
    BY <2>2 DEF DenyApproval, DenyVersion, End, Ends, Goto
  <2>3. CASE RequireApproval(r) \/ ApprovalFails(r)
    BY <2>3 DEF RequireApproval, ApprovalFails, Goto
  <2>4. CASE AuditFails(r)
    BY <2>4 DEF AuditFails, Goto
  <2> QED
    BY <1>1, <2>1, <2>2, <2>3, <2>4
<1>2. ASSUME NEW r \in Requests, AcceptToken(r) \/ ReturnPending(r) \/
             Block(r) \/ AdapterThrows(r) \/ Timeout(r) \/ StoreFails(r) \/
             HookThrows(r)
      PROVE  \A q \in Requests : StepOf(q)
  BY <1>2 DEF AcceptToken, ReturnPending, Block, AdapterThrows, Timeout,
         StoreFails, HookThrows, Goto, NothingElse
<1>3. ASSUME NEW r \in Requests, ReadCount(r)
      PROVE  \A q \in Requests : StepOf(q)
  BY <1>3 DEF ReadCount, Goto
<1>4. ASSUME NEW r \in Requests, PassGate(r)
      PROVE  \A q \in Requests : StepOf(q)
  BY <1>4 DEF PassGate, Goto, NothingElse
<1>5. ASSUME NEW r \in Requests, BeginConsume(r)
      PROVE  \A q \in Requests : StepOf(q)
  BY <1>5 DEF BeginConsume, Goto
<1>6. ASSUME NEW r \in Requests, ReadRevocation(r)
      PROVE  \A q \in Requests : StepOf(q)
  BY <1>6 DEF ReadRevocation, Goto, IsRevoked
<1>7. ASSUME NEW r \in Requests, StartAdapter(r)
      PROVE  \A q \in Requests : StepOf(q)
  BY <1>7 DEF StartAdapter, Goto
<1>8. ASSUME NEW r \in Requests, DenyPolicy(r) \/ Simulate(r) \/ DenyQuota(r)
             \/ AllowReplay(r) \/ Complete(r) \/ DenyFailed(r)
      PROVE  \A q \in Requests : StepOf(q)
  BY <1>8 DEF DenyPolicy, Simulate, DenyQuota, AllowReplay, Complete,
         DenyFailed, Return, End, Ends, Goto
<1>9. ASSUME NEW r \in Requests, TryConsume(r) \/ ConsumeReplyLost(r)
      PROVE  \A q \in Requests : StepOf(q)
  BY <1>9 DEF TryConsume, ConsumeReplyLost, Goto, Replay, Refuse, Grant,
         Answered
<1>10. ASSUME NEW r \in Requests, Release(r) \/ ReleaseReplyLost(r)
      PROVE  \A q \in Requests : StepOf(q)
  BY <1>10 DEF Release, ReleaseReplyLost, Goto, GiveBack, Answered
<1>11. ASSUME NEW r \in Requests, Submit(r)
      PROVE  \A q \in Requests : StepOf(q)
  BY <1>11 DEF Submit, Goto
<1>12. ASSUME NEW r \in Requests, EffectLands(r) \/ AdapterBreaks(r)
      PROVE  \A q \in Requests : StepOf(q)
  BY <1>12 DEF EffectLands, AdapterBreaks
<1>13. CASE Crash \/ UNCHANGED vars
  BY <1>13 DEF Crash, vars
<1>14. ASSUME NEW t \in Perishing, Revoke(t) \/ Expire(t)
       PROVE  \A q \in Requests : StepOf(q)
  BY <1>14 DEF Revoke, Expire
<1>15. ASSUME NEW a \in ApprovalIds, NEW status \in {"approved", "rejected"},
              Resolve(a, status)
       PROVE  \A q \in Requests : StepOf(q)
  BY <1>15 DEF Resolve
<1> QED
  BY <1>1, <1>2, <1>3, <1>4, <1>5, <1>6, <1>7, <1>8,
     <1>9, <1>10, <1>11, <1>12, <1>13, <1>14, <1>15
  DEF Next, Progress, Fault, Environment

\* A call beyond the gate has its approval, if it names one; a call beyond the
\* policy was allowed by it and is no dry run; and both stay so.
ClearedOf(r) ==
  /\ pc[r] \in AfterGate \/ adapter[r] # "none" =>
       (Resuming(r) => Matches(input[r].approvalId, r))
  /\ pc[r] \in AfterPolicy \/ adapter[r] # "none" \/ reserve[r] # "none" =>
       /\ "ALLOW" \in Verdicts[<<Token(r), input[r].payload, Resuming(r)>>]
       /\ ~DryRun(r)

Cleared == \A r \in Requests : ClearedOf(r)

\* The approval a call matched stays approved and what it was for.
LEMMA MatchStep ==
  ASSUME TypeOK, [Next]_vars, NEW r \in Requests, pc[r] # "idle",
         Resuming(r) => Matches(input[r].approvalId, r)
  PROVE  Resuming(r)' => Matches(input[r].approvalId, r)'
<1>1. input'[r] = input[r]
  BY StepShape DEF StepOf
<1>2. input[r].approvalId \in ApprovalIds \cup {None}
  BY DEF TypeOK, Input
<1>3. Resuming(r) => approvals'[input[r].approvalId] = approvals[input[r].approvalId]
  BY <1>2, ApprovalsStep DEF ApprovalsKept, Matches, Resuming
<1> QED
  BY <1>1, <1>3 DEF Matches, Resuming, Token

\* Every step keeps every call cleared.
LEMMA ClearedStep == TypeOK /\ Stages /\ Cleared /\ [Next]_vars => Cleared'
<1> SUFFICES ASSUME TypeOK, Stages, Cleared, [Next]_vars, NEW r \in Requests
             PROVE  ClearedOf(r)'
  BY DEF Cleared
<1>1. CASE pc[r] = "idle"
  <2>1. pc'[r] \notin AfterGate /\ adapter'[r] = "none" /\ reserve'[r] = "none"
    BY <1>1, StepShape DEF StepOf, Stages, StageOf, BeforeStore, AfterGate, AfterPolicy
  <2> QED
    BY <2>1 DEF ClearedOf, AfterGate, AfterPolicy
<1>2. CASE pc[r] # "idle"
  <2>1. input'[r] = input[r]
    BY <1>2, StepShape DEF StepOf
  <2>2. pc'[r] \in AfterGate \/ adapter'[r] # "none" =>
          (Resuming(r) => Matches(input[r].approvalId, r))
    BY StepShape DEF StepOf, Cleared, ClearedOf, AfterGate, AfterPolicy
  <2>3. pc'[r] \in AfterPolicy \/ adapter'[r] # "none" \/ reserve'[r] # "none" =>
          /\ "ALLOW" \in Verdicts[<<Token(r), input[r].payload, Resuming(r)>>]
          /\ ~DryRun(r)
    BY StepShape DEF StepOf, Cleared, ClearedOf, AfterPolicy, Evaluates, Decided
  <2>4. pc'[r] \in AfterGate \/ adapter'[r] # "none" =>
          (Resuming(r)' => Matches(input[r].approvalId, r)')
    BY <1>2, <2>2, MatchStep
  <2>5. pc'[r] \in AfterPolicy \/ adapter'[r] # "none" \/ reserve'[r] # "none" =>
          /\ "ALLOW" \in Verdicts[<<Token(r)', input'[r].payload, Resuming(r)'>>]
          /\ ~DryRun(r)'
    BY <2>1, <2>3 DEF Token, Resuming, DryRun
  <2> QED
    BY <2>1, <2>4, <2>5 DEF ClearedOf
<1> QED
  BY <1>1, <1>2

\* No call starts cleared or needs to be.
LEMMA ClearedInit == Init => Cleared
BY DEF Init, Cleared, ClearedOf, AfterGate, AfterPolicy

\* An adapter that was started was allowed by the policy alone, or by the policy
\* with a request a reviewer approved for this very token and payload.
THEOREM RuntimeApprovalGate == Spec => []ApprovalGate
<1>1. ASSUME TypeOK, Stages, Cleared, NEW r \in Requests, adapter[r] # "none",
             "ALLOW" \notin Verdicts[<<Token(r), input[r].payload, FALSE>>]
      PROVE  /\ Resuming(r)
             /\ approvals[input[r].approvalId] =
                  [status |-> "approved", token |-> Token(r), payload |-> input[r].payload]
  <2>1. Resuming(r) /\ Matches(input[r].approvalId, r)
    BY <1>1 DEF Cleared, ClearedOf, Resuming
  <2>2. input[r].approvalId \in ApprovalIds
    BY <1>1, <2>1 DEF Stages, StageOf, BeforeStore, TypeOK, Input, Resuming
  <2>3. approvals[input[r].approvalId] \in Approval
    BY <1>1, <2>1, <2>2 DEF TypeOK, Matches
  <2> QED
    BY <2>1, <2>3 DEF Matches, Approval
<1>2. TypeOK /\ Stages /\ Cleared => ApprovalGate
  BY <1>1 DEF ApprovalGate
<1> QED
  BY TypeInit, TypeStep, StagesInit, StagesStep, ClearedInit, ClearedStep, <1>2, PTL
  DEF Spec

\* A dry run and a call that ends in an approval request take nothing and call
\* nothing (the SIMULATE and REQUIRE_APPROVAL branches of executeWithClaims).
THEOREM RuntimeDryRunInert == Spec => []DryRunInert
<1>1. Stages /\ Cleared => DryRunInert
  BY DEF Stages, StageOf, BeforeStore, Cleared, ClearedOf, DryRunInert, DryRun
<1> QED
  BY TypeInit, TypeStep, StagesInit, StagesStep, ClearedInit, ClearedStep, <1>1, PTL
  DEF Spec

\* A token on record as revoked stays there, unless a crash ends every call.
LEMMA RevokedStep ==
  [Next]_vars => \/ revoked \subseteq revoked'
                 \/ \A r \in Requests : pc'[r] \notin Waiting
<1>1. CASE Crash
  BY <1>1 DEF Crash, Waiting
<1>2. CASE ~Crash
  BY <1>2
  DEF DenyInvalid, DenyRevoked, DenyApproval, DenyVersion, AuditFails,
       AcceptToken, ReturnPending, Block, AdapterThrows, Timeout, StoreFails,
       HookThrows, ApprovalFails, ReadCount, PassGate, BeginConsume, ReadRevocation,
       StartAdapter, DenyPolicy, Simulate, DenyQuota, AllowReplay, Complete,
       DenyFailed, RequireApproval, TryConsume, ConsumeReplyLost, Release,
       ReleaseReplyLost, Submit, EffectLands, AdapterBreaks, Revoke,
       Expire, Resolve, NothingElse, stores, authority, vars, Next, Progress,
       Fault, Environment
<1> QED
  BY <1>1, <1>2

\* A call made while its token is on record as revoked is stopped at the gate.
BarredOf(r) ==
  barred[r] =>
    /\ pc[r] \notin AfterGate \cup {"idle"}
    /\ adapter[r] = "none" /\ reserve[r] = "none"
    /\ pc[r] \in Waiting => Token(r) \in revoked
    /\ pc[r] = "gate" => revokedSeen[r]

Barred == \A r \in Requests : BarredOf(r)

\* Every step keeps such a call in front of the gate or ends it.
LEMMA BarredStep == TypeOK /\ Stages /\ Barred /\ [Next]_vars => Barred'
<1> SUFFICES ASSUME TypeOK, Stages, Barred, [Next]_vars, NEW r \in Requests, barred'[r]
             PROVE  BarredOf(r)'
  BY DEF Barred, BarredOf
<1>1. /\ StepOf(r) /\ BarredOf(r) /\ StageOf(r)
      /\ pc'[r] \in Waiting => revoked \subseteq revoked'
  BY StepShape, RevokedStep DEF Barred, Stages
<1>2. CASE pc[r] = "idle"
  <2>1. pc'[r] = "validating" /\ input'[r].token \in revoked
    BY <1>1, <1>2 DEF StepOf, BarredOf
  <2>2. adapter'[r] = "none" /\ reserve'[r] = "none"
    BY <1>1, <1>2 DEF StepOf, StageOf, BeforeStore, AfterPolicy
  <2> QED
    BY <1>1, <2>1, <2>2 DEF BarredOf, AfterGate, AfterPolicy, Token
<1>3. CASE pc[r] # "idle"
  <2>1. barred[r] /\ input'[r] = input[r] /\ pc'[r] # "idle"
    BY <1>1, <1>3 DEF StepOf
  <2>2. /\ pc'[r] \notin AfterGate
        /\ adapter'[r] = "none" /\ reserve'[r] = "none"
    BY <1>1, <2>1 DEF StepOf, BarredOf, AfterGate, AfterPolicy
  <2>3. pc'[r] = "gate" => revokedSeen'[r]
    BY <1>1, <2>1 DEF StepOf, BarredOf, Waiting
  <2>4. pc'[r] \in Waiting => Token(r)' \in revoked'
    BY <1>1, <1>3, <2>1 DEF StepOf, BarredOf, Token
  <2> QED
    BY <2>1, <2>2, <2>3, <2>4 DEF BarredOf
<1> QED
  BY <1>2, <1>3

\* No call starts barred.
LEMMA BarredInit == Init => Barred
BY DEF Init, Barred, BarredOf

\* Whatever was approved for it, a call of a token on record as revoked takes no
\* slot and reaches no adapter (the revocation gate of execute).
THEOREM RuntimeRevokedNeverRuns == Spec => []RevokedNeverRuns
<1>1. Barred => RevokedNeverRuns
  BY DEF Barred, BarredOf, RevokedNeverRuns
<1> QED
  BY TypeInit, TypeStep, StagesInit, StagesStep, BarredInit, BarredStep, <1>1, PTL
  DEF Spec
-----------------------------------------------------------------------------
(* The audit log *)

\* An ALLOW of call r is in the log.
Allowed(r) == \E i \in 1..Len(audit[r]) : audit[r][i].decision = "ALLOW"

\* audit.record adds one event of its call, at the end, and to no other call.
LEMMA RecordEffect ==
  ASSUME AuditType, NEW r \in Requests, NEW decision, NEW phase, NEW approval,
         Record(r, decision, phase, approval)
  PROVE  /\ \A q \in Requests \ {r} : audit'[q] = audit[q]
         /\ Len(audit[r]) \in Nat
         /\ Len(audit'[r]) = Len(audit[r]) + 1
         /\ Len(audit[r]) = 0 => audit'[r][1].decision = decision
         /\ Allowed(r)' <=> Allowed(r) \/ decision = "ALLOW"
<1> DEFINE e == [decision |-> decision, phase |-> phase, approval |-> approval]
<1>1. audit'[r] = Append(audit[r], e) /\ \A q \in Requests \ {r} : audit'[q] = audit[q]
  BY DEF Record, AuditType
<1>2. audit[r] \in Seq(Event)
  BY DEF AuditType
<1>3. /\ Len(Append(audit[r], e)) = Len(audit[r]) + 1 /\ Len(audit[r]) \in Nat
      /\ \A i \in 1..Len(audit[r]) : Append(audit[r], e)[i] = audit[r][i]
      /\ Append(audit[r], e)[Len(audit[r]) + 1] = e
  BY <1>2
<1>4. e.decision = decision
  OBVIOUS
<1>5. Allowed(r)' <=> Allowed(r) \/ decision = "ALLOW"
  <2>1. Allowed(r)' <=> \E i \in 1..(Len(audit[r]) + 1) :
                           Append(audit[r], e)[i].decision = "ALLOW"
    BY <1>1, <1>3 DEF Allowed
  <2>2. \A i : i \in 1..(Len(audit[r]) + 1) <=> i \in 1..Len(audit[r]) \/ i = Len(audit[r]) + 1
    BY <1>3
  <2> QED
    BY <1>3, <1>4, <2>1, <2>2 DEF Allowed
<1> QED
  BY <1>1, <1>3, <1>4, <1>5

\* What the log says of call r: one event if it returned or waits for the hook
\* to return its approval request, none before; and an ALLOW is that of a call
\* that returned, either a replay or one whose effect landed and kept its slot.
TellsOf(r) ==
  /\ pc[r] # "crashed" =>
       Len(audit[r]) = IF pc[r] \in {"returned", "notifying"} THEN 1 ELSE 0
  /\ Len(audit[r]) > 0 /\ audit[r][1].decision = "ALLOW" =>
       /\ pc[r] = "returned"
       /\ reserve[r] # "replayed" => adapter[r] = "landed" /\ reserve[r] = "granted"

Tells == \A r \in Requests \ Faulty : TellsOf(r)

\* A step leaves call q as it is.
Spared(q) ==
  pc'[q] = pc[q] /\ audit'[q] = audit[q] /\ reserve'[q] = reserve[q] /\ adapter'[q] = adapter[q]

\* What a step does to one call only shows in what the log says of that one.
LEMMA SparedTells ==
  ASSUME Tells, NEW r \in Requests, \A q \in Requests \ {r} : Spared(q),
         r \notin Faulty => TellsOf(r)'
  PROVE  Tells'
BY DEF Tells, TellsOf, Spared

\* A segment that records nothing, of a call that neither waits for the hook nor
\* returns.
LEMMA MoveTells ==
  ASSUME TypeOK, Tells, NEW r \in Requests, NEW from \in (Waiting \ {"notifying"}) \cup {"idle"},
         NEW to \in (Waiting \ {"notifying"}) \cup {"threw"}, Goto(r, from, to),
         UNCHANGED audit,
         \A q \in Requests \ {r} : reserve'[q] = reserve[q] /\ adapter'[q] = adapter[q]
  PROVE  Tells'
<1>1. \A q \in Requests \ {r} : Spared(q)
  BY DEF Spared, Goto, TypeOK
<1>2. r \notin Faulty => TellsOf(r)'
  <2>1. pc[r] = from /\ pc'[r] = to
    BY DEF Goto, TypeOK
  <2>2. r \notin Faulty => Len(audit[r]) = 0
    BY <2>1 DEF Tells, TellsOf, Waiting
  <2> QED
    BY <2>1, <2>2 DEF TellsOf, Waiting
<1> QED
  BY <1>1, <1>2, SparedTells

\* A segment that records its one event and returns, or goes on to the hook.
LEMMA RecordTells ==
  ASSUME TypeOK, Tells, NEW r \in Requests, NEW from \in Waiting \ {"notifying"},
         NEW to \in {"returned", "notifying", "threw"}, Goto(r, from, to),
         r \in Faulty \/ to # "threw",
         NEW decision, NEW phase, NEW approval, Record(r, decision, phase, approval),
         UNCHANGED <<reserve, adapter>>,
         decision = "ALLOW" =>
           /\ to # "notifying"
           /\ reserve[r] # "replayed" => adapter[r] = "landed" /\ reserve[r] = "granted"
  PROVE  Tells'
<1>0. AuditType
  BY DEF TypeOK, AuditType
<1>1. \A q \in Requests \ {r} : Spared(q)
  BY <1>0, RecordEffect DEF Spared, Goto, TypeOK
<1>2. r \notin Faulty => TellsOf(r)'
  <2>1. pc[r] = from /\ pc'[r] = to
    BY DEF Goto, TypeOK
  <2>2. r \notin Faulty => Len(audit[r]) = 0
    BY <2>1 DEF Tells, TellsOf, Waiting
  <2> QED
    BY <1>0, <2>1, <2>2, RecordEffect DEF TellsOf
<1> QED
  BY <1>1, <1>2, SparedTells

\* How a call that records its event outside the try block ends.
LEMMA EndsWell ==
  ASSUME NEW r \in Requests, NEW from \in Waiting, End(r, from)
  PROVE  \E to \in {"returned", "threw"} : Goto(r, from, to) /\ (r \in Faulty \/ to # "threw")
BY DEF End, Ends

\* The same, of a segment of the form Return.
LEMMA ReturnTells ==
  ASSUME TypeOK, Tells, NEW r \in Requests, NEW from \in Waiting \ {"notifying"},
         NEW decision, NEW phase, Return(r, from, decision, phase),
         UNCHANGED <<reserve, adapter>>,
         decision = "ALLOW" /\ reserve[r] # "replayed" =>
           adapter[r] = "landed" /\ reserve[r] = "granted"
  PROVE  Tells'
<1>1. PICK to \in {"returned", "threw"} : Goto(r, from, to) /\ (r \in Faulty \/ to # "threw")
  BY EndsWell DEF Return
<1> QED
  BY <1>1, RecordTells DEF Return

\* A call whose stores or log may fail is not spoken of.
LEMMA FaultyTells ==
  ASSUME TypeOK, Tells, NEW r \in Requests, r \in Faulty, NEW from, NEW to, Goto(r, from, to),
         \A q \in Requests \ {r} :
           audit'[q] = audit[q] /\ reserve'[q] = reserve[q] /\ adapter'[q] = adapter[q]
  PROVE  Tells'
<1>1. \A q \in Requests \ {r} : Spared(q)
  BY DEF Spared, Goto, TypeOK
<1> QED
  BY <1>1, SparedTells

\* Every step keeps the log telling what happened.
LEMMA TellsStep == TypeOK /\ Stages /\ Tells /\ [Next]_vars => Tells'
<1> SUFFICES ASSUME TypeOK, Stages, Tells, [Next]_vars
             PROVE  Tells'
  OBVIOUS
<1> USE DEF Waiting, call, stores
<1>1. ASSUME NEW r \in Requests, AcceptToken(r) \/ PassGate(r) \/ Block(r)
               \/ AdapterThrows(r) \/ Timeout(r)
      PROVE  Tells'
  BY <1>1, MoveTells
  DEF AcceptToken, PassGate, Block, AdapterThrows, Timeout, NothingElse
<1>2. ASSUME NEW r \in Requests, ReadRevocation(r) \/ ReadCount(r) \/ BeginConsume(r)
               \/ Submit(r)
      PROVE  Tells'
  BY <1>2, MoveTells DEF ReadRevocation, ReadCount, BeginConsume, Submit
<1>3. ASSUME NEW r \in Requests, StartAdapter(r)
      PROVE  Tells'
  BY <1>3, MoveTells DEF StartAdapter, TypeOK
<1>4. ASSUME NEW r \in Requests, TryConsume(r) \/ Release(r)
      PROVE  Tells'
  <2>1. \A q \in Requests \ {r} : reserve'[q] = reserve[q]
    BY <1>4 DEF TryConsume, Release, Replay, Refuse, Grant, GiveBack, Answered, TypeOK
  <2> QED
    BY <1>4, <2>1, MoveTells DEF TryConsume, Release
<1>5. ASSUME NEW r \in Requests,
             DenyInvalid(r) \/ DenyRevoked(r) \/ DenyApproval(r) \/ DenyVersion(r)
      PROVE  Tells'
  <2>1. PICK from, phase, approval :
          /\ from \in {"validating", "gate", "policy"}
          /\ End(r, from) /\ Record(r, "DENY", phase, approval)
          /\ UNCHANGED <<reserve, adapter>>
    BY <1>5 DEF DenyInvalid, DenyRevoked, DenyApproval, DenyVersion
  <2>2. PICK to \in {"returned", "threw"} : Goto(r, from, to) /\ (r \in Faulty \/ to # "threw")
    BY <2>1, EndsWell
  <2> QED
    BY <2>1, <2>2, RecordTells
<1>6. ASSUME NEW r \in Requests,
             DenyPolicy(r) \/ Simulate(r) \/ DenyQuota(r) \/ AllowReplay(r) \/ DenyFailed(r)
      PROVE  Tells'
  BY <1>6, ReturnTells DEF DenyPolicy, Simulate, DenyQuota, AllowReplay, DenyFailed
<1>7. ASSUME NEW r \in Requests, RequireApproval(r)
      PROVE  Tells'
  BY <1>7, RecordTells DEF RequireApproval
<1>8. ASSUME NEW r \in Requests, ReturnPending(r)
      PROVE  Tells'
  <2>1. /\ \A q \in Requests \ {r} : Spared(q)
        /\ pc[r] = "notifying" /\ pc'[r] = "returned" /\ UNCHANGED <<audit, reserve, adapter>>
    BY <1>8 DEF ReturnPending, NothingElse, Goto, Spared, TypeOK
  <2>2. r \notin Faulty => TellsOf(r)'
    BY <2>1 DEF Tells, TellsOf
  <2> QED
    BY <2>1, <2>2, SparedTells
<1>9. ASSUME NEW r \in Requests, Complete(r)
      PROVE  Tells'
  <2>1. reserve[r] = "granted"
    BY <1>9 DEF Complete, Goto, Stages, StageOf
  <2> QED
    BY <1>9, <2>1, RecordTells DEF Complete
<1>10. ASSUME NEW r \in Requests, StoreFails(r) \/ HookThrows(r)
       PROVE  Tells'
  BY <1>10, FaultyTells DEF StoreFails, HookThrows, NothingElse
<1>11. ASSUME NEW r \in Requests, ConsumeReplyLost(r) \/ ReleaseReplyLost(r)
       PROVE  Tells'
  <2>1. \A q \in Requests \ {r} : reserve'[q] = reserve[q]
    BY <1>11
    DEF ConsumeReplyLost, ReleaseReplyLost, Replay, Refuse, Grant, GiveBack, Answered, TypeOK
  <2> QED
    BY <1>11, <2>1, FaultyTells DEF ConsumeReplyLost, ReleaseReplyLost
<1>12. ASSUME NEW r \in Requests, ApprovalFails(r) \/ AuditFails(r)
       PROVE  Tells'
  <2>1. \A q \in Requests \ {r} : audit'[q] = audit[q]
    BY <1>12, RecordEffect DEF ApprovalFails, AuditFails, TypeOK, AuditType
  <2> QED
    BY <1>12, <2>1, FaultyTells DEF ApprovalFails, AuditFails
<1>13. CASE Crash
  BY <1>13 DEF Crash, Tells, TellsOf, TypeOK
<1>14. ASSUME NEW r \in Requests, EffectLands(r) \/ AdapterBreaks(r)
       PROVE  Tells'
  <2>1. /\ \A q \in Requests \ {r} : Spared(q)
        /\ adapter[r] = "flying" /\ UNCHANGED <<pc, audit, reserve>>
    BY <1>14 DEF EffectLands, AdapterBreaks, Spared, TypeOK
  <2>2. r \notin Faulty => TellsOf(r)'
    BY <2>1 DEF Tells, TellsOf
  <2> QED
    BY <2>1, <2>2, SparedTells
<1>15. ASSUME UNCHANGED <<pc, reserve, adapter, audit>>
       PROVE  Tells'
  BY <1>15 DEF Tells, TellsOf
<1>16. ASSUME NEW t \in Perishing, Revoke(t) \/ Expire(t)
       PROVE  Tells'
  BY <1>15, <1>16 DEF Revoke, Expire
<1>17. ASSUME NEW a \in ApprovalIds, NEW status \in {"approved", "rejected"},
              Resolve(a, status)
       PROVE  Tells'
  BY <1>15, <1>17 DEF Resolve
<1>18. CASE UNCHANGED vars
  BY <1>15, <1>18 DEF vars
<1> QED
  BY <1>1, <1>2, <1>3, <1>4, <1>5, <1>6, <1>7, <1>8, <1>9, <1>10, <1>11, <1>12, <1>13,
     <1>14, <1>16, <1>17, <1>18
  DEF Next, Progress, Fault, Environment

\* Nothing is in the log at first.
LEMMA TellsInit == Init => Tells
BY DEF Init, Tells, TellsOf

\* Every call whose log does not fail leaves the one event that says how it
\* ended, and no ALLOW without an effect and a slot but for replays
\* (audit.record in every branch of execute).
THEOREM RuntimeAuditTellsOutcome == Spec => []AuditTellsOutcome
<1>1. Tells => AuditTellsOutcome
  BY DEF Tells, TellsOf, AuditTellsOutcome
<1> QED
  BY TypeInit, TypeStep, StagesInit, StagesStep, TellsInit, TellsStep, <1>1, PTL DEF Spec
-----------------------------------------------------------------------------
(* The counts of the sessions *)

\* Call r has an ALLOW of its own in the log, and so have Logged(s) in session s.
Own(r) == reserve[r] # "replayed" /\ Allowed(r)
Logged(s) == {r \in Requests : input[r] # None /\ input[r].session = s /\ Own(r)}

\* An ALLOW is recorded by the last segment of a call, or by the one before the
\* catch releases its slot.
Ended == {"returned", "releasing", "released", "threw", "crashed"}
AtEnd == \A r \in Requests : Allowed(r) => pc[r] \in Ended

\* SessionCounts in terms of Logged.
CountsLogged ==
  \A s \in Sessions :
    \/ session[s].actions = Cardinality(Logged(s))
    \/ /\ session[s].actions < Cardinality(Logged(s))
       /\ \E r \in Requests : pc[r] = "crashed"

LEMMA CountsLoggedIsSessionCounts == CountsLogged => SessionCounts
<1>1. \A s : Logged(s) = {r \in Requests :
                            /\ input[r] # None /\ input[r].session = s
                            /\ reserve[r] # "replayed"
                            /\ \E i \in 1..Len(audit[r]) : audit[r][i].decision = "ALLOW"}
  BY DEF Logged, Own, Allowed
<1> QED
  BY <1>1 DEF SessionCounts, CountsLogged

\* The calls in the log are finitely many.
LEMMA LoggedFinite ==
  \A s : IsFiniteSet(Logged(s)) /\ Cardinality(Logged(s)) \in Nat
BY RequestsAssumption, FS_Subset, FS_CardinalityType DEF Logged

Accounted == AtEnd /\ CountsLogged

\* A step changes nothing of call q that a session counts.
QuietOn(q) ==
  /\ Allowed(q)' => pc'[q] \in Ended
  /\ Own(q)' <=> Own(q)
  /\ Own(q) => input'[q] = input[q]
  /\ pc[q] = "crashed" => pc'[q] = "crashed"

\* Such a step leaves the sessions accounted for.
LEMMA QuietCounts ==
  ASSUME Accounted, \A q \in Requests : QuietOn(q),
         \A s \in Sessions : session'[s].actions = session[s].actions
  PROVE  Accounted'
<1>1. \A s : Logged(s)' = Logged(s)
  BY DEF Logged, QuietOn
<1> QED
  BY <1>1 DEF Accounted, AtEnd, CountsLogged, QuietOn

\* A segment that records nothing changes nothing a session counts, whatever
\* the store answers it before it has recorded an ALLOW.
LEMMA MoveQuiet ==
  ASSUME TypeOK, AtEnd, NEW r \in Requests, NEW from \in Waiting \cup {"idle"}, NEW to,
         Goto(r, from, to), UNCHANGED audit,
         \A q \in Requests \ {r} : reserve'[q] = reserve[q] /\ input'[q] = input[q],
         from \in {"releasing", "released"} =>
           /\ to \in Ended /\ input'[r] = input[r]
           /\ reserve'[r] = "replayed" <=> reserve[r] = "replayed"
  PROVE  \A q \in Requests : QuietOn(q)
<1>1. pc[r] = from /\ pc'[r] = to /\ \A q \in Requests \ {r} : pc'[q] = pc[q]
  BY DEF Goto, TypeOK
<1>2. \A q \in Requests : Allowed(q)' <=> Allowed(q)
  BY DEF Allowed
<1>3. from \notin {"releasing", "released"} => ~Allowed(r)
  BY <1>1 DEF AtEnd, Ended, Waiting
<1> QED
  BY <1>1, <1>2, <1>3 DEF QuietOn, Own, AtEnd, Ended, Waiting

\* A segment that records an event changes nothing a session counts, unless the
\* event is an ALLOW of the call's own.
LEMMA RecordQuiet ==
  ASSUME TypeOK, AtEnd, NEW r \in Requests, NEW from \in Waiting, NEW to, Goto(r, from, to),
         NEW decision, NEW phase, NEW approval, Record(r, decision, phase, approval),
         UNCHANGED <<input, reserve>>,
         decision = "ALLOW" => reserve[r] = "replayed",
         decision = "ALLOW" \/ from \in {"releasing", "released"} => to \in Ended
  PROVE  \A q \in Requests : QuietOn(q)
<1>0. AuditType
  BY DEF TypeOK, AuditType
<1>1. pc[r] = from /\ pc'[r] = to /\ \A q \in Requests \ {r} : pc'[q] = pc[q]
  BY DEF Goto, TypeOK
<1>2. /\ \A q \in Requests \ {r} : Allowed(q)' <=> Allowed(q)
      /\ Allowed(r)' <=> Allowed(r) \/ decision = "ALLOW"
  BY <1>0, RecordEffect DEF Allowed
<1>3. from \notin {"releasing", "released"} => ~Allowed(r)
  BY <1>1 DEF AtEnd, Ended, Waiting
<1> QED
  BY <1>1, <1>2, <1>3 DEF QuietOn, Own, AtEnd, Ended, Waiting

\* touchSession adds done to the count of the call's session, and to no other.
LEMMA TouchActions ==
  ASSUME TypeOK, NEW r \in Requests, input[r] \in Input, NEW phase, NEW done \in Nat,
         Touch(r, phase, done), NEW s \in Sessions
  PROVE  session'[s].actions =
           IF input[r].session = s THEN session[s].actions + done ELSE session[s].actions
<1>1. input[r].session = None => input[r].session # s
  BY NoneAssumption
<1>2. session \in [Sessions -> [phase : Phases \cup {None}, actions : Nat]]
  BY DEF TypeOK
<1> QED
  BY <1>1, <1>2 DEF Touch

\* A touch that counts no action.
LEMMA TouchZero ==
  ASSUME TypeOK, NEW r \in Requests, input[r] \in Input, NEW phase, Touch(r, phase, 0)
  PROVE  \A s \in Sessions : session'[s].actions = session[s].actions
<1>1. \A s \in Sessions : session[s].actions \in Nat
  BY DEF TypeOK
<1> QED
  BY <1>1, TouchActions

\* A result of the adapter: the call is logged and its session counts it.
LEMMA ResultCounts ==
  ASSUME TypeOK, Stages, Accounted, NEW r \in Requests, NEW to \in Ended,
         Goto(r, "executing", to), NEW phase, NEW approval,
         Record(r, "ALLOW", phase, approval), Touch(r, phase, 1),
         UNCHANGED <<input, reserve>>
  PROVE  Accounted'
<1>0. AuditType
  BY DEF TypeOK, AuditType
<1>1. /\ pc[r] = "executing" /\ pc'[r] = to /\ \A q \in Requests \ {r} : pc'[q] = pc[q]
      /\ reserve[r] = "granted" /\ input[r] \in Input
  BY DEF Goto, TypeOK, Stages, StageOf
<1>2. /\ \A q \in Requests \ {r} : Allowed(q)' <=> Allowed(q)
      /\ Allowed(r)'
  BY <1>0, RecordEffect DEF Allowed
<1>3. ~Allowed(r)
  BY <1>1 DEF Accounted, AtEnd, Ended
<1>4. AtEnd'
  BY <1>1, <1>2 DEF Accounted, AtEnd
<1>5. input[r] # None
  BY <1>1, NoneAssumption
<1>6. ASSUME NEW s \in Sessions
      PROVE  \/ session'[s].actions = Cardinality(Logged(s)')
             \/ /\ session'[s].actions < Cardinality(Logged(s)')
                /\ \E q \in Requests : pc'[q] = "crashed"
  <2>1. /\ r \notin Logged(s)
        /\ Logged(s)' = IF input[r].session = s THEN Logged(s) \cup {r} ELSE Logged(s)
    BY <1>1, <1>2, <1>3, <1>5 DEF Logged, Own
  <2>2. Cardinality(Logged(s)') = IF input[r].session = s THEN Cardinality(Logged(s)) + 1
                                                          ELSE Cardinality(Logged(s))
    BY <2>1, LoggedFinite, FS_AddElement
  <2>3. session'[s].actions = IF input[r].session = s THEN session[s].actions + 1
                                                      ELSE session[s].actions
    BY <1>1, TouchActions
  <2>4. (\E q \in Requests : pc[q] = "crashed") => \E q \in Requests : pc'[q] = "crashed"
    BY <1>1
  <2>5. /\ session[s].actions \in Nat /\ Cardinality(Logged(s)) \in Nat
    BY LoggedFinite DEF TypeOK
  <2> QED
    BY <2>2, <2>3, <2>4, <2>5 DEF Accounted, CountsLogged
<1> QED
  BY <1>4, <1>6 DEF Accounted, CountsLogged

\* A crash empties the sessions and leaves the log.
LEMMA CrashCounts ==
  ASSUME TypeOK, Accounted, Crash
  PROVE  Accounted'
<1>1. /\ \A q \in Requests : pc'[q] = IF pc[q] \in Waiting THEN "crashed" ELSE pc[q]
      /\ \E q \in Requests : pc'[q] = "crashed"
      /\ UNCHANGED <<audit, reserve, input>>
  BY DEF Crash, call
<1>2. AtEnd'
  BY <1>1 DEF Accounted, AtEnd, Ended, Allowed
<1>3. \A s : Logged(s)' = Logged(s)
  BY <1>1 DEF Logged, Own, Allowed
<1>4. \A s \in Sessions : session'[s].actions = 0
  BY DEF Crash, NoSession
<1>5. \A s \in Sessions : 0 = Cardinality(Logged(s)) \/ 0 < Cardinality(Logged(s))
  BY LoggedFinite
<1> QED
  BY <1>1, <1>2, <1>3, <1>4, <1>5 DEF Accounted, CountsLogged

\* A segment of the form Return, of a call without a result of its own.
LEMMA ReturnCounts ==
  ASSUME TypeOK, Accounted, NEW r \in Requests, NEW from \in Waiting,
         NEW decision, NEW phase, Return(r, from, decision, phase),
         UNCHANGED <<input, reserve>>,
         decision = "ALLOW" => reserve[r] = "replayed"
  PROVE  Accounted'
<1>1. PICK to \in {"returned", "threw"} : Goto(r, from, to)
  BY EndGoto DEF Return
<1>2. input[r] \in Input
  BY <1>1 DEF Goto, TypeOK, Waiting
<1>3. \A q \in Requests : QuietOn(q)
  BY <1>1, RecordQuiet DEF Return, Accounted, Ended
<1> QED
  BY <1>2, <1>3, TouchZero, QuietCounts DEF Return

\* A step that neither goes on in a call nor touches what is counted.
LEMMA StillCounts ==
  ASSUME Accounted, UNCHANGED <<pc, input, reserve, audit, session>>
  PROVE  Accounted'
<1>1. \A q \in Requests : QuietOn(q)
  BY DEF QuietOn, Own, Allowed, Accounted, AtEnd
<1> QED
  BY <1>1, QuietCounts

\* Every step keeps the sessions accounted for.
LEMMA AccountedStep == TypeOK /\ Stages /\ Accounted /\ [Next]_vars => Accounted'
<1> SUFFICES ASSUME TypeOK, Stages, Accounted, [Next]_vars
             PROVE  Accounted'
  OBVIOUS
<1>0. AtEnd
  BY DEF Accounted
<1>1. ASSUME NEW r \in Requests,
             AcceptToken(r) \/ PassGate(r) \/ Block(r) \/ ReturnPending(r)
               \/ AdapterThrows(r) \/ Timeout(r) \/ StoreFails(r) \/ HookThrows(r)
      PROVE  Accounted'
  <2>1. /\ \E from \in Waiting \ {"released"}, to \in Waiting \cup {"returned", "threw"} :
             Goto(r, from, to) /\ (from = "releasing" => to = "threw")
        /\ UNCHANGED <<audit, reserve, input, session>>
    BY <1>1 DEF AcceptToken, PassGate, Block, ReturnPending, AdapterThrows, Timeout,
                StoreFails, HookThrows, NothingElse, call, Waiting
  <2>2. \A q \in Requests : QuietOn(q)
    BY <1>0, <2>1, MoveQuiet DEF Ended
  <2> QED
    BY <2>1, <2>2, QuietCounts
<1>2. ASSUME NEW r \in Requests,
             ReadRevocation(r) \/ ReadCount(r) \/ StartAdapter(r) \/ Submit(r)
      PROVE  Accounted'
  <2>1. /\ \E from \in (Waiting \ {"releasing", "released"}) \cup {"idle"}, to \in Waiting :
             Goto(r, from, to)
        /\ \A q \in Requests \ {r} : input'[q] = input[q]
        /\ UNCHANGED <<audit, reserve, session>>
    BY <1>2 DEF ReadRevocation, ReadCount, StartAdapter, Submit, call, Waiting, TypeOK
  <2>2. \A q \in Requests : QuietOn(q)
    BY <1>0, <2>1, MoveQuiet
  <2> QED
    BY <2>1, <2>2, QuietCounts
<1>3. ASSUME NEW r \in Requests, BeginConsume(r)
      PROVE  Accounted'
  <2>1. Goto(r, "policy", "consuming") /\ UNCHANGED <<audit, reserve, input>>
    BY <1>3 DEF BeginConsume, call
  <2>2. \A q \in Requests : QuietOn(q)
    BY <1>0, <2>1, MoveQuiet DEF Waiting
  <2>3. input[r] \in Input
    BY <2>1 DEF Goto, TypeOK
  <2> QED
    BY <1>3, <2>2, <2>3, TouchZero, QuietCounts DEF BeginConsume
<1>4. ASSUME NEW r \in Requests, TryConsume(r) \/ ConsumeReplyLost(r)
      PROVE  Accounted'
  <2>1. /\ \E to \in {"consumed", "threw"} : Goto(r, "consuming", to)
        /\ \A q \in Requests \ {r} : reserve'[q] = reserve[q]
        /\ UNCHANGED <<audit, input, session>>
    BY <1>4 DEF TryConsume, ConsumeReplyLost, Replay, Refuse, Grant, Answered, call, TypeOK
  <2>2. \A q \in Requests : QuietOn(q)
    BY <1>0, <2>1, MoveQuiet DEF Waiting
  <2> QED
    BY <2>1, <2>2, QuietCounts
<1>5. ASSUME NEW r \in Requests, Release(r) \/ ReleaseReplyLost(r)
      PROVE  Accounted'
  <2>1. /\ Goto(r, "releasing", "released") \/ Goto(r, "releasing", "threw")
        /\ reserve[r] = "granted" /\ reserve'[r] = "released"
        /\ \A q \in Requests \ {r} : reserve'[q] = reserve[q]
        /\ UNCHANGED <<audit, input, session>>
    BY <1>5 DEF Release, ReleaseReplyLost, GiveBack, Answered, call, TypeOK, Goto, Stages, StageOf
  <2>2. \A q \in Requests : QuietOn(q)
    BY <1>0, <2>1, MoveQuiet DEF Waiting, Ended
  <2> QED
    BY <2>1, <2>2, QuietCounts
<1>6. ASSUME NEW r \in Requests,
             DenyInvalid(r) \/ DenyRevoked(r) \/ DenyApproval(r) \/ DenyVersion(r)
      PROVE  Accounted'
  <2>1. PICK from, phase, approval :
          /\ from \in {"validating", "gate", "policy"}
          /\ End(r, from) /\ Record(r, "DENY", phase, approval)
          /\ UNCHANGED <<reserve, input, session>>
    BY <1>6 DEF DenyInvalid, DenyRevoked, DenyApproval, DenyVersion, call
  <2>2. PICK to \in {"returned", "threw"} : Goto(r, from, to)
    BY <2>1, EndGoto DEF Waiting
  <2>3. \A q \in Requests : QuietOn(q)
    BY <1>0, <2>1, <2>2, RecordQuiet DEF Waiting
  <2> QED
    BY <2>1, <2>3, QuietCounts
<1>7. ASSUME NEW r \in Requests,
             DenyPolicy(r) \/ Simulate(r) \/ DenyQuota(r) \/ AllowReplay(r) \/ DenyFailed(r)
      PROVE  Accounted'
  BY <1>7, ReturnCounts
  DEF DenyPolicy, Simulate, DenyQuota, AllowReplay, DenyFailed, Waiting, call
<1>8. ASSUME NEW r \in Requests, RequireApproval(r) \/ ApprovalFails(r)
      PROVE  Accounted'
  <2>1. /\ \E to \in {"notifying", "threw"} : Goto(r, "policy", to)
        /\ Record(r, "REQUIRE_APPROVAL", "APPROVAL_REQUIRED", None)
        /\ Touch(r, "APPROVAL_REQUIRED", 0)
        /\ UNCHANGED <<reserve, input>>
    BY <1>8 DEF RequireApproval, ApprovalFails, call
  <2>2. \A q \in Requests : QuietOn(q)
    BY <1>0, <2>1, RecordQuiet DEF Waiting
  <2>3. input[r] \in Input
    BY <2>1 DEF Goto, TypeOK
  <2> QED
    BY <2>1, <2>2, <2>3, TouchZero, QuietCounts
<1>9. ASSUME NEW r \in Requests, Complete(r) \/ AuditFails(r)
      PROVE  Accounted'
  BY <1>9, ResultCounts DEF Complete, AuditFails, call, Ended
<1>10. CASE Crash
  BY <1>10, CrashCounts
<1>11. ASSUME NEW r \in Requests, EffectLands(r) \/ AdapterBreaks(r)
       PROVE  Accounted'
  BY <1>11, StillCounts DEF EffectLands, AdapterBreaks, call
<1>12. ASSUME NEW t \in Perishing, Revoke(t) \/ Expire(t)
       PROVE  Accounted'
  BY <1>12, StillCounts DEF Revoke, Expire, call
<1>13. ASSUME NEW a \in ApprovalIds, NEW status \in {"approved", "rejected"},
              Resolve(a, status)
       PROVE  Accounted'
  BY <1>13, StillCounts DEF Resolve, call
<1>14. CASE UNCHANGED vars
  BY <1>14, StillCounts DEF vars, call
<1> QED
  BY <1>1, <1>2, <1>3, <1>4, <1>5, <1>6, <1>7, <1>8, <1>9, <1>10, <1>11, <1>12, <1>13, <1>14
  DEF Next, Progress, Fault, Environment

\* No session has an action at first, and no call an event.
LEMMA AccountedInit == Init => Accounted
<1> SUFFICES ASSUME Init
             PROVE  Accounted
  OBVIOUS
<1>1. \A r \in Requests : ~Allowed(r)
  BY DEF Init, Allowed
<1>2. \A s : Logged(s) = {}
  BY <1>1 DEF Logged, Own
<1>3. \A s \in Sessions : session[s].actions = 0
  BY DEF Init, NoSession
<1> QED
  BY <1>1, <1>2, <1>3, FS_EmptySet DEF Accounted, AtEnd, CountsLogged

\* The count of a session is the number of its results in the audit log, or,
\* once a process died, less: never more (touchSession with actionDelta 1, in
\* the same segment as the ALLOW).
THEOREM RuntimeSessionCounts == Spec => []SessionCounts
<1>1. Accounted => SessionCounts
  BY CountsLoggedIsSessionCounts DEF Accounted
<1> QED
  BY TypeInit, TypeStep, StagesInit, StagesStep, AccountedInit, AccountedStep, <1>1, PTL
  DEF Spec

-----------------------------------------------------------------------------
(* Runtime implements ConsumptionStore: whatever interleaves, fails or       *)
(* crashes, execute() asks the store for one slot per call and gives it back *)
(* at most once.  The invariants proved of the store then hold of the whole  *)
(* pipeline.                                                                 *)

StoreProofs == INSTANCE ConsumptionStoreProofs
                 WITH Calls <- Requests, status <- storeStatus,
                      jti <- storeToken, rid <- storeRequestId

\* Nothing is submitted at first, so no call has been made of the store.
LEMMA StoreInit == Init => Store!Init
BY DEF Init, Store!Init, storeStatus, storeToken, storeRequestId, Called

\* The token and the requestId of a call that was made.
LEMMA CallTypes ==
  ASSUME TypeOK, NEW r \in Requests, pc[r] # "idle"
  PROVE  /\ Token(r) \in Tokens
         /\ RequestId(r) \in RequestIds \cup {None}
BY DEF TypeOK, Input, Token, RequestId

\* A step that leaves the store, the answers it gave and the inputs alone.
LEMMA Stutter ==
  ASSUME TypeOK, UNCHANGED <<count, seen, reserve, input>>,
         \A r \in Requests : pc'[r] = "idle" <=> pc[r] = "idle"
  PROVE  UNCHANGED Store!vars
<1>1. storeStatus' = storeStatus
  BY DEF storeStatus, Called
<1>2. storeToken' = storeToken /\ storeRequestId' = storeRequestId
  BY DEF storeToken, storeRequestId, Called, Token, RequestId
<1> QED
  BY <1>1, <1>2 DEF Store!vars

\* A call that changes the answer it has: the rest of the store's view stays.
LEMMA AnswerView ==
  ASSUME TypeOK, NEW r \in Requests, NEW answer,
         pc[r] # "idle", NEW to \in Waiting \cup {"threw"},
         pc' = [pc EXCEPT ![r] = to], answer # "none",
         UNCHANGED input, Answered(r, answer)
  PROVE  /\ storeStatus' = [storeStatus EXCEPT ![r] = answer]
         /\ storeToken' = storeToken /\ storeRequestId' = storeRequestId
         /\ storeToken[r] = Token(r) /\ storeRequestId[r] = RequestId(r)
BY DEF TypeOK, Waiting, Answered, storeStatus, storeToken, storeRequestId, Called, Token, RequestId

\* tryConsume is one of the three answers of the store.
LEMMA ConsumeStep ==
  ASSUME TypeOK, Stages, NEW r \in Requests, NEW to \in {"consumed", "threw"},
         Goto(r, "consuming", to), UNCHANGED call,
         Replay(r) \/ Refuse(r) \/ Grant(r)
  PROVE  Store!Replay(r) \/ Store!Refuse(r) \/ Store!Grant(r)
<1>1. /\ pc[r] = "consuming" /\ pc[r] # "idle" /\ reserve[r] = "none"
      /\ pc' = [pc EXCEPT ![r] = to] /\ to \in Waiting \cup {"threw"}
      /\ input' = input
  BY DEF Goto, call, Stages, StageOf, BeforeStore, Waiting
<1>2. storeStatus[r] = "called" /\ storeToken[r] = Token(r) /\ storeRequestId[r] = RequestId(r)
  BY <1>1 DEF storeStatus, storeToken, storeRequestId, Called
<1>3. ASSUME NEW answer \in {"granted", "refused", "replayed"}, Answered(r, answer)
      PROVE  Store!Answer(r, answer)
  BY <1>1, <1>2, <1>3, AnswerView DEF Store!Answer
<1>4. Store!Known(r) <=> Known(r)
  BY <1>2 DEF Known, Store!Known
<1>5. Store!UnderLimit(storeToken[r]) <=> UnderLimit(Token(r))
  BY <1>2 DEF UnderLimit, Store!UnderLimit
<1>6. CASE Replay(r)
  BY <1>3, <1>4, <1>6 DEF Replay, Store!Replay
<1>7. CASE Refuse(r)
  BY <1>3, <1>4, <1>5, <1>7 DEF Refuse, Store!Refuse
<1>8. CASE Grant(r)
  <2>1. count' = [count EXCEPT ![storeToken[r]] = @ + 1]
    BY <1>2, <1>8 DEF Grant
  <2>2. seen' = [seen EXCEPT ![storeToken[r]] = Store!Recorded(r)]
    BY <1>2, <1>8 DEF Grant, Noted, Store!Recorded
  <2> QED
    BY <1>3, <1>4, <1>5, <1>8, <2>1, <2>2 DEF Grant, Store!Grant
<1> QED
  BY <1>6, <1>7, <1>8

\* release is the release of the store, by a call that holds a slot.
LEMMA ReleaseRefines ==
  ASSUME TypeOK, Stages, NEW r \in Requests, NEW to \in {"released", "threw"},
         Goto(r, "releasing", to), UNCHANGED call, GiveBack(r)
  PROVE  Store!Release(r)
<1>1. /\ pc[r] = "releasing" /\ pc[r] # "idle" /\ reserve[r] = "granted"
      /\ pc' = [pc EXCEPT ![r] = to] /\ to \in Waiting \cup {"threw"}
      /\ input' = input /\ Answered(r, "released")
  BY DEF Goto, call, Stages, StageOf, Waiting, GiveBack
<1>2. storeStatus[r] = "granted" /\ storeToken[r] = Token(r) /\ storeRequestId[r] = RequestId(r)
  BY <1>1 DEF storeStatus, storeToken, storeRequestId, Called
<1>3. /\ storeStatus' = [storeStatus EXCEPT ![r] = "released"]
      /\ storeToken' = storeToken /\ storeRequestId' = storeRequestId
  BY <1>1, AnswerView
<1>4. count' = [count EXCEPT ![storeToken[r]] = Store!Decremented(storeToken[r])]
  BY <1>2, CallTypes, <1>1 DEF GiveBack, Store!Decremented, TypeOK
<1>5. seen' = [seen EXCEPT ![storeToken[r]] = Store!Forgotten(r)]
  BY <1>2 DEF GiveBack, RecordLeft, Store!Forgotten
<1> QED
  BY <1>2, <1>3, <1>4, <1>5 DEF Store!Release

\* A submitted request is a call the store may be asked for.
LEMMA SubmitRefines ==
  ASSUME TypeOK, Stages, NEW r \in Requests, Submit(r)
  PROVE  \E t \in Tokens, q \in RequestIds \cup {None} : Store!Call(r, t, q)
<1>1. PICK i \in Inputs : input' = [input EXCEPT ![r] = i]
  BY DEF Submit
<1>2. i.token \in Tokens /\ i.requestId \in RequestIds \cup {None}
  BY InputsAssumption DEF Input
<1>3. /\ pc[r] = "idle" /\ pc' = [pc EXCEPT ![r] = "validating"]
      /\ reserve[r] = "none" /\ UNCHANGED <<reserve, count, seen>>
  BY DEF Submit, Goto, Stages, StageOf, BeforeStore, stores
<1>4. storeStatus[r] = "idle" /\ storeStatus' = [storeStatus EXCEPT ![r] = "called"]
  BY <1>3 DEF storeStatus, Called, TypeOK
<1>5. /\ storeToken' = [storeToken EXCEPT ![r] = i.token]
      /\ storeRequestId' = [storeRequestId EXCEPT ![r] = i.requestId]
  BY <1>1, <1>3 DEF storeToken, storeRequestId, Called, Token, RequestId, TypeOK
<1>6. Store!Call(r, i.token, i.requestId)
  BY <1>3, <1>4, <1>5 DEF Store!Call
<1> QED
  BY <1>2, <1>6

\* Every step of the pipeline is an operation of the store, or none.
LEMMA RefinementStep == TypeOK /\ Stages /\ [Next]_vars => [Store!Next]_(Store!vars)
<1> SUFFICES ASSUME TypeOK, Stages, [Next]_vars
             PROVE  Store!Next \/ UNCHANGED Store!vars
  OBVIOUS
<1>0. ASSUME UNCHANGED <<count, seen, reserve, input>>,
             UNCHANGED pc \/ \E r \in Requests, from \in Waiting,
                                to \in Waiting \cup {"returned", "threw"} : Goto(r, from, to)
      PROVE  UNCHANGED Store!vars
  <2>1. CASE UNCHANGED pc
    BY <1>0, <2>1, Stutter
  <2>2. ASSUME NEW r \in Requests, NEW from \in Waiting,
               NEW to \in Waiting \cup {"returned", "threw"}, Goto(r, from, to)
        PROVE  \A q \in Requests : pc[q] = "idle" <=> pc'[q] = "idle"
    BY <2>2 DEF Goto, TypeOK, Waiting
  <2> QED
    BY <1>0, <2>1, <2>2, Stutter
<1>1. ASSUME NEW r \in Requests, TryConsume(r) \/ ConsumeReplyLost(r)
      PROVE  Store!Next
  BY <1>1, ConsumeStep DEF TryConsume, ConsumeReplyLost, Store!Next
<1>2. ASSUME NEW r \in Requests, Release(r) \/ ReleaseReplyLost(r)
      PROVE  Store!Next
  BY <1>2, ReleaseRefines DEF Release, ReleaseReplyLost, Store!Next
<1>3. ASSUME NEW r \in Requests, Submit(r)
      PROVE  Store!Next
  BY <1>3, SubmitRefines DEF Store!Next
<1>4. ASSUME NEW r \in Requests,
             AcceptToken(r) \/ PassGate(r) \/ ReturnPending(r) \/ Block(r)
               \/ AdapterThrows(r) \/ Timeout(r) \/ StoreFails(r) \/ HookThrows(r)
      PROVE  UNCHANGED Store!vars
  BY <1>0, <1>4
  DEF AcceptToken, PassGate, ReturnPending, Block, AdapterThrows, Timeout,
      StoreFails, HookThrows, NothingElse, call, stores, Waiting
<1>5. ASSUME NEW r \in Requests,
             DenyInvalid(r) \/ DenyRevoked(r) \/ DenyApproval(r) \/ DenyVersion(r)
               \/ ReadRevocation(r) \/ ReadCount(r) \/ RequireApproval(r)
               \/ BeginConsume(r) \/ StartAdapter(r) \/ ApprovalFails(r)
               \/ AuditFails(r)
      PROVE  UNCHANGED Store!vars
  BY <1>0, <1>5
  DEF DenyInvalid, DenyRevoked, DenyApproval, DenyVersion, ReadRevocation, ReadCount,
      RequireApproval, BeginConsume, StartAdapter, ApprovalFails, AuditFails, End, Ends,
      call, stores, Waiting
<1>6. ASSUME NEW r \in Requests,
             DenyPolicy(r) \/ Simulate(r) \/ DenyQuota(r) \/ AllowReplay(r)
               \/ Complete(r) \/ DenyFailed(r)
      PROVE  UNCHANGED Store!vars
  BY <1>0, <1>6
  DEF DenyPolicy, Simulate, DenyQuota, AllowReplay, Complete, DenyFailed, Return,
      End, Ends, call, stores, Waiting
<1>7. CASE Crash
  BY <1>7, Stutter DEF Crash, call, stores, Waiting, TypeOK
<1>8. ASSUME NEW r \in Requests, EffectLands(r) \/ AdapterBreaks(r)
      PROVE  UNCHANGED Store!vars
  BY <1>0, <1>8 DEF EffectLands, AdapterBreaks, call, stores
<1>9. ASSUME NEW t \in Perishing, Revoke(t) \/ Expire(t)
      PROVE  UNCHANGED Store!vars
  BY <1>0, <1>9 DEF Revoke, Expire, call
<1>10. ASSUME NEW a \in ApprovalIds, NEW status \in {"approved", "rejected"},
              Resolve(a, status)
       PROVE  UNCHANGED Store!vars
  BY <1>0, <1>10 DEF Resolve, call
<1>11. CASE UNCHANGED vars
  BY <1>0, <1>11 DEF vars, call, stores
<1> QED
  BY <1>1, <1>2, <1>3, <1>4, <1>5, <1>6, <1>7, <1>8, <1>9, <1>10, <1>11
  DEF Next, Progress, Fault, Environment

\* The pipeline uses the consumption store as the store's promise demands.
THEOREM RuntimeImplementsStore == Spec => ImplementsStore
  BY RuntimeStages, StoreInit, RefinementStep, PTL
  DEF Spec, ImplementsStore, Store!Spec

-----------------------------------------------------------------------------
(* What the store promises, of the pipeline *)

\* The parameters of the store the pipeline uses are as the store assumes.
LEMMA StoreParameters ==
  /\ StoreProofs!IsFiniteSet(Requests)
  /\ None \notin Tokens /\ None \notin RequestIds
  /\ Limit \in [Tokens -> Nat \cup {Unlimited}]
  /\ Unlimited \notin Nat
<1>1. StoreProofs!IsFiniteSet(Requests)
  BY RequestsAssumption DEF IsFiniteSet, StoreProofs!IsFiniteSet
<1> QED
  BY <1>1, NoneAssumption, LimitAssumption

\* Both modules count the same way.
LEMMA SameCardinality == \A S : StoreProofs!Cardinality(S) = Cardinality(S)
BY DEF Cardinality, StoreProofs!Cardinality

\* The holders of a slot are the same, seen from the pipeline or from the store.
LEMMA SameHolders ==
  ASSUME Stages
  PROVE  /\ \A r \in Requests :
              reserve[r] = "granted" =>
                /\ storeStatus[r] = "granted"
                /\ storeToken[r] = Token(r) /\ storeRequestId[r] = RequestId(r)
         /\ \A t \in Tokens : StoreProofs!Holders(t) = Holders(t)
<1>1. \A r \in Requests : reserve[r] = "granted" => pc[r] # "idle"
  BY DEF Stages, StageOf, BeforeStore
<1>2. \A r \in Requests : storeStatus[r] = "granted" <=> reserve[r] = "granted"
  BY <1>1 DEF storeStatus, Called
<1>3. \A r \in Requests :
        reserve[r] = "granted" => storeToken[r] = Token(r) /\ storeRequestId[r] = RequestId(r)
  BY <1>1 DEF storeToken, storeRequestId, Called
<1> QED
  BY <1>2, <1>3 DEF StoreProofs!Holders, Holders

\* Every behaviour of the pipeline satisfies the invariant of the store.
LEMMA StoreIInv == Spec => []StoreProofs!IInv
<1>1. Init => StoreProofs!Init
  BY StoreInit DEF Store!Init, StoreProofs!Init
<1>2. TypeOK /\ Stages /\ [Next]_vars => [StoreProofs!Next]_(StoreProofs!vars)
  BY RefinementStep
  DEF Store!Next, Store!Call, Store!Replay, Store!Refuse, Store!Grant, Store!Release,
      Store!Answer, Store!Known, Store!UnderLimit, Store!Recorded, Store!Forgotten,
      Store!Decremented, Store!vars,
      StoreProofs!Next, StoreProofs!Call, StoreProofs!Replay, StoreProofs!Refuse,
      StoreProofs!Grant, StoreProofs!Release, StoreProofs!Answer, StoreProofs!Known,
      StoreProofs!UnderLimit, StoreProofs!Recorded, StoreProofs!Forgotten,
      StoreProofs!Decremented, StoreProofs!vars
<1>3. StoreProofs!Init => StoreProofs!IInv
  BY StoreProofs!InitIInv, StoreParameters
<1>4. StoreProofs!IInv /\ [StoreProofs!Next]_(StoreProofs!vars) => StoreProofs!IInv'
  BY StoreProofs!NextIInv, StoreParameters
<1> QED
  BY RuntimeStages, <1>1, <1>2, <1>3, <1>4, PTL DEF Spec

\* The counter of the store is exactly the number of slots held, and within
\* max_actions, whatever executes, fails or crashes in which order.
THEOREM RuntimeQuotaSafe == Spec => []QuotaSafe
<1>1. TypeOK /\ Stages /\ StoreProofs!IInv => QuotaSafe
  <2> SUFFICES ASSUME Stages, StoreProofs!IInv, NEW t \in Tokens
               PROVE  /\ count[t] = Cardinality(Holders(t))
                      /\ Limit[t] # Unlimited => count[t] <= Limit[t]
    BY DEF QuotaSafe
  <2>1. count[t] = StoreProofs!Cardinality(StoreProofs!Holders(t))
    BY DEF StoreProofs!IInv, StoreProofs!CountIsHolders
  <2>2. Limit[t] # Unlimited =>
          StoreProofs!Cardinality(StoreProofs!Holders(t)) <= Limit[t]
    BY DEF StoreProofs!IInv, StoreProofs!QuotaSafe
  <2>3. StoreProofs!Holders(t) = Holders(t)
    BY SameHolders
  <2>4. StoreProofs!Cardinality(Holders(t)) = Cardinality(Holders(t))
    BY SameCardinality
  <2> QED
    BY <2>1, <2>2, <2>3, <2>4
<1> QED
  BY RuntimeStages, StoreIInv, <1>1, PTL

\* Of the calls with one token and requestId at most one succeeds by itself.
THEOREM RuntimeSucceedsOnce == Spec => []SucceedsOnce
<1>1. Stages /\ StoreProofs!IInv => SucceedsOnce
  <2> SUFFICES ASSUME Stages, StoreProofs!IInv, NEW r \in Requests, NEW q \in Requests,
                      reserve[r] = "granted", reserve[q] = "granted", Token(r) = Token(q),
                      RequestId(r) = RequestId(q), RequestId(r) # None
               PROVE  r = q
    BY DEF SucceedsOnce, Succeeded
  <2>1. /\ storeStatus[r] = "granted" /\ storeStatus[q] = "granted"
        /\ storeToken[r] = storeToken[q]
        /\ storeRequestId[r] = storeRequestId[q] /\ storeRequestId[r] # None
    BY SameHolders
  <2> QED
    BY <2>1 DEF StoreProofs!IInv, StoreProofs!OneHolderPerRequestId
<1> QED
  BY RuntimeStages, StoreIInv, <1>1, PTL

\* Two adapter calls for one requestId mean that one was refunded: both calls
\* took a slot (Stages), and only one of them can still hold it.
THEOREM RuntimeRunsOnceUnlessRefunded == Spec => []RunsOnceUnlessRefunded
<1>1. Stages /\ StoreProofs!IInv => RunsOnceUnlessRefunded
  <2> SUFFICES ASSUME Stages, StoreProofs!IInv, NEW r \in Requests, NEW q \in Requests,
                      adapter[r] # "none", adapter[q] # "none", Token(r) = Token(q),
                      RequestId(r) = RequestId(q), RequestId(r) # None,
                      reserve[r] # "released", reserve[q] # "released"
               PROVE  r = q
    BY DEF RunsOnceUnlessRefunded
  <2>1. reserve[r] = "granted" /\ reserve[q] = "granted"
    BY DEF Stages, StageOf
  <2>2. /\ storeStatus[r] = "granted" /\ storeStatus[q] = "granted"
        /\ storeToken[r] = storeToken[q]
        /\ storeRequestId[r] = storeRequestId[q] /\ storeRequestId[r] # None
    BY <2>1, SameHolders
  <2> QED
    BY <2>2 DEF StoreProofs!IInv, StoreProofs!OneHolderPerRequestId
<1> QED
  BY RuntimeStages, StoreIInv, <1>1, PTL

-----------------------------------------------------------------------------
(* Replays *)

\* What a step may do to the answer call q has of the store.
AnswerOf(q) ==
  /\ reserve[q] \in {"granted", "released"} => reserve'[q] \in {"granted", "released"}
  /\ reserve'[q] = "replayed" =>
       \/ reserve[q] = "replayed"
       \/ pc[q] = "consuming" /\ reserve[q] = "none" /\ Known(q)

\* A slot is taken for good or given back, and a replay is of a known requestId.
LEMMA AnswerStep ==
  TypeOK /\ Stages /\ [Next]_vars => \A q \in Requests : AnswerOf(q)
<1> SUFFICES ASSUME TypeOK, Stages, [Next]_vars
             PROVE  \A q \in Requests : AnswerOf(q)
  OBVIOUS
<1>1. ASSUME NEW r \in Requests, TryConsume(r) \/ ConsumeReplyLost(r)
      PROVE  \A q \in Requests : AnswerOf(q)
  <2>1. pc[r] = "consuming" /\ reserve[r] = "none"
    BY <1>1 DEF TryConsume, ConsumeReplyLost, Goto, Stages, StageOf, BeforeStore
  <2>2. Replay(r) \/ Refuse(r) \/ Grant(r)
    BY <1>1 DEF TryConsume, ConsumeReplyLost
  <2> QED
    BY <2>1, <2>2 DEF Replay, Refuse, Grant, Answered, AnswerOf, TypeOK
<1>2. ASSUME NEW r \in Requests, Release(r) \/ ReleaseReplyLost(r)
      PROVE  \A q \in Requests : AnswerOf(q)
  BY <1>2 DEF Release, ReleaseReplyLost, GiveBack, Answered, AnswerOf, TypeOK
<1>3. ASSUME UNCHANGED reserve
      PROVE  \A q \in Requests : AnswerOf(q)
  BY <1>3 DEF AnswerOf
<1>4. (\E r \in Requests : TryConsume(r) \/ ConsumeReplyLost(r) \/ Release(r)
                             \/ ReleaseReplyLost(r)) \/ UNCHANGED reserve
  BY DEF DenyInvalid, DenyRevoked, DenyApproval, DenyVersion, AuditFails,
         AcceptToken, ReturnPending, Block, AdapterThrows, Timeout, StoreFails,
         HookThrows, ApprovalFails, ReadCount, PassGate, BeginConsume, ReadRevocation,
         StartAdapter, DenyPolicy, Simulate, DenyQuota, AllowReplay, Complete,
         DenyFailed, RequireApproval, Submit, EffectLands, AdapterBreaks, Crash, Revoke,
         Expire, Resolve, NothingElse, vars, Next, Progress, Fault, Environment
<1> QED
  BY <1>1, <1>2, <1>3, <1>4

\* When a requestId is known, a call that holds a slot has it.
LEMMA KnownHasHolder ==
  ASSUME TypeOK, Stages, StoreProofs!IInv, NEW r \in Requests, pc[r] # "idle", Known(r)
  PROVE  \E q \in Requests : /\ reserve[q] = "granted"
                             /\ Token(q) = Token(r) /\ RequestId(q) = RequestId(r)
<1>1. Token(r) \in Tokens
  BY CallTypes
<1>2. RequestId(r) \in {storeRequestId[c] : c \in StoreProofs!Holders(Token(r))} \ {None}
  BY <1>1 DEF Known, StoreProofs!IInv, StoreProofs!RecordIsHolders
<1>3. PICK q \in Holders(Token(r)) : storeRequestId[q] = RequestId(r)
  BY <1>1, <1>2, SameHolders
<1> QED
  BY <1>3, SameHolders DEF Holders

\* Every step keeps the originals of the replays.
LEMMA ReplayStep ==
  TypeOK /\ Stages /\ StoreProofs!IInv /\ ReplayHasOriginal /\ [Next]_vars
    => ReplayHasOriginal'
<1> SUFFICES ASSUME TypeOK, Stages, StoreProofs!IInv, ReplayHasOriginal, [Next]_vars,
                    NEW r \in Requests, reserve'[r] = "replayed"
             PROVE  \E q \in Requests \ {r} :
                      /\ reserve'[q] \in {"granted", "released"}
                      /\ Token(q)' = Token(r)' /\ RequestId(q)' = RequestId(r)'
  BY DEF ReplayHasOriginal
<1>1. /\ pc[r] # "idle"
      /\ \E q \in Requests \ {r} : /\ reserve[q] \in {"granted", "released"}
                                   /\ Token(q) = Token(r) /\ RequestId(q) = RequestId(r)
  <2>1. CASE reserve[r] = "replayed"
    BY <2>1 DEF ReplayHasOriginal, Stages, StageOf, BeforeStore
  <2>2. CASE pc[r] = "consuming" /\ reserve[r] = "none" /\ Known(r)
    BY <2>2, KnownHasHolder
  <2> QED
    BY <2>1, <2>2, AnswerStep DEF AnswerOf
<1>2. PICK q \in Requests \ {r} : /\ reserve[q] \in {"granted", "released"}
                                  /\ Token(q) = Token(r) /\ RequestId(q) = RequestId(r)
  BY <1>1
<1>3. pc[q] # "idle"
  BY <1>2 DEF Stages, StageOf, BeforeStore
<1>4. input'[q] = input[q] /\ input'[r] = input[r]
  BY <1>1, <1>3, StepShape DEF StepOf
<1>5. reserve'[q] \in {"granted", "released"}
  BY <1>2, AnswerStep DEF AnswerOf
<1> QED
  BY <1>2, <1>4, <1>5 DEF Token, RequestId

\* Nothing is answered by a replay without another call that took a slot under
\* the same token and requestId.
THEOREM RuntimeReplayHasOriginal == Spec => []ReplayHasOriginal
<1>1. Init => ReplayHasOriginal
  BY DEF Init, ReplayHasOriginal
<1> QED
  BY RuntimeStages, StoreIInv, <1>1, ReplayStep, PTL DEF Spec
=============================================================================
