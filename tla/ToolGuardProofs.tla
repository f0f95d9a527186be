-------------------------- MODULE ToolGuardProofs --------------------------
(***************************************************************************)
(* What holds of the embedded client and of the guards for any callers,    *)
(* tokens, limits and numbers of calls and restarts, with a configured     *)
(* secret or without.  A guard uses the client as any caller does, so what *)
(* holds of the client holds beneath a guard.                              *)
(***************************************************************************)
EXTENDS ToolGuard, FiniteSetTheorems, TLAPS

-----------------------------------------------------------------------------
(* Types of the client *)

LEMMA ClientTypeInit == ClientInit => ClientTypeOK
<1> SUFFICES ASSUME ClientInit
             PROVE  ClientTypeOK
  OBVIOUS
<1>1. torn \in BOOLEAN
  BY DEF ClientInit
<1> QED
  BY <1>1, LimitsAssumption, ClientNoneAssumption, SettingsAssumption, BoundsAssumption
  DEF ClientInit, ClientTypeOK, Stages, Held

LEMMA ReturnTypes ==
  ASSUME ClientTypeOK, NEW c \in Callers, NEW answer \in Answers, Return(c, answer)
  PROVE  /\ pc' \in [Callers -> Stages]
         /\ arg' \in [Callers -> Arguments \cup {None}]
         /\ read' \in [Callers -> Nat]
         /\ result' \in [Callers -> Answers \cup {None}]
         /\ pc'[c] = "idle" /\ arg'[c] = None /\ result'[c] = answer
         /\ \A d \in Callers \ {c} :
              pc'[d] = pc[d] /\ arg'[d] = arg[d] /\ result'[d] = result[d]
  BY DEF ClientTypeOK, Return, Stages

TrailOK == file \in [Tokens -> Nat] /\ torn \in BOOLEAN /\ tears \in 0..MaxTears

LEMMA TearTypes ==
  ASSUME TrailOK, Tear \/ UNCHANGED trail
  PROVE  TrailOK'
<1>1. CASE Tear
  <2>1. torn' \in BOOLEAN
    BY <1>1 DEF Tear
  <2> QED
    BY <1>1, <2>1, BoundsAssumption DEF TrailOK, Tear
<1>2. CASE UNCHANGED trail
  BY <1>2 DEF TrailOK, trail
<1> QED
  BY <1>1, <1>2

\* A call that is recorded, or cannot be, ends with that answer or an error.
LEMMA RecordedReturns ==
  ASSUME ClientTypeOK, NEW c \in Callers, NEW answer \in Answers,
         Recorded(c, answer) \/ Unwritten(c)
  PROVE  (\E a \in Answers : a \in {answer, "raised"} /\ Return(c, a)) /\ TrailOK'
<1>1. TrailOK
  BY DEF ClientTypeOK, TrailOK
<1>2. CASE Unwritten(c)
  BY <1>1, <1>2, TearTypes DEF Unwritten, Answers
<1>3. CASE Return(c, answer) /\ torn' = FALSE /\ UNCHANGED <<file, tears>>
  BY <1>1, <1>3 DEF TrailOK
<1> QED
  BY <1>2, <1>3 DEF Recorded

\* An action that ends a call of c, or leaves c where it is, keeps the ties
\* between the parts of a call, whatever else it does with the requests.
LEMMA CheckType ==
  ASSUME ClientTypeOK, NEW c \in Callers, NEW x \in Arguments, NEW dry \in BOOLEAN,
         Check(c, x, dry)
  PROVE  ClientTypeOK'
<1> PICK fits \in BOOLEAN :
      IF Screened(x, dry, fits) = "gate"
      THEN /\ pc' = [pc EXCEPT ![c] = "gate"]
           /\ arg' = [arg EXCEPT ![c] = x]
           /\ UNCHANGED <<read, result, trail>>
      ELSE Recorded(c, Screened(x, dry, fits))
  BY DEF Check
<1> UNCHANGED <<threads, stable, life, tokens, memory, approved, spent>>
  BY DEF Check
<1>1. calls' \in 0..MaxCalls
  BY BoundsAssumption DEF Check, ClientTypeOK
<1>0. result[c] = None
  BY DEF Check
<1>2. CASE Screened(x, dry, fits) = "gate"
  BY <1>0, <1>1, <1>2, ClientNoneAssumption
  DEF ClientTypeOK, Stages, Held, tokens, memory, trail
<1>3. CASE Screened(x, dry, fits) # "gate"
  <2>1. Screened(x, dry, fits) \in Answers
    BY <1>3 DEF Screened, Answers
  <2>2. (\E answer \in Answers : Return(c, answer)) /\ TrailOK'
    BY <1>3, <2>1, RecordedReturns
  <2> QED
    BY <1>1, <2>2, ReturnTypes DEF ClientTypeOK, Held, tokens, memory, TrailOK
<1> QED
  BY <1>2, <1>3

LEMMA GateType ==
  ASSUME ClientTypeOK, NEW c \in Callers, Gate(c)
  PROVE  ClientTypeOK'
<1> UNCHANGED <<threads, stable, life, tokens, revoked, actions, completed,
                calls, approved, spent>>
  BY DEF Gate
<1>0. pc[c] = "gate" /\ arg[c] \in Arguments
  BY DEF Gate, ClientTypeOK
<1>1. CASE Proceed(c, "note") /\ UNCHANGED <<approvals, trail>>
  BY <1>0, <1>1 DEF ClientTypeOK, Proceed, Held, tokens, trail, Stages
<1>2. CASE AskApproval(c)
  <2>1. PICK a \in Approvals :
          /\ approvals[a] = None
          /\ approvals' = [approvals EXCEPT ![a] =
               [jti |-> arg[c].jti, payload |-> arg[c].payload, status |-> "pending"]]
    BY <1>2 DEF AskApproval
  <2>2. (\E answer \in Answers : Return(c, answer)) /\ TrailOK'
    BY <1>2, RecordedReturns DEF AskApproval, Answers
  <2> DEFINE request == [jti |-> arg[c].jti, payload |-> arg[c].payload, status |-> "pending"]
  <2>3. request \in Requests /\ approvals' = [approvals EXCEPT ![a] = request]
    BY <1>0, <2>1 DEF Requests, Arguments
  <2>4. approvals' \in [Approvals -> Requests \cup {None, Lost}]
    BY <2>3 DEF ClientTypeOK
  <2>5. \A b \in Approvals : Held(b) => Held(b)'
    BY <2>1, <2>3 DEF Held, ClientTypeOK
  <2>6. \A d \in Callers : pc[d] = "spend" => arg[d].approval \in Approvals
    BY DEF ClientTypeOK, Arguments
  <2> QED
    BY <2>2, <2>4, <2>5, <2>6, ReturnTypes DEF ClientTypeOK, tokens, TrailOK
<1>3. CASE Named(arg[c]) /\ Proceed(c, "spend") /\ UNCHANGED <<approvals, trail>>
  BY <1>0, <1>3 DEF ClientTypeOK, Proceed, Named, Held, tokens, trail, Stages
<1>4. CASE Recorded(c, "denied") /\ UNCHANGED approvals
  <2>1. (\E answer \in Answers : Return(c, answer)) /\ TrailOK'
    BY <1>4, RecordedReturns DEF Answers
  <2> QED
    BY <1>4, <2>1, ReturnTypes DEF ClientTypeOK, Held, tokens, TrailOK
<1> QED
  BY <1>1, <1>2, <1>3, <1>4 DEF Gate

LEMMA SpendType ==
  ASSUME ClientTypeOK, NEW c \in Callers, Spend(c)
  PROVE  ClientTypeOK'
<1> DEFINE a == arg[c].approval
<1>1. a \in Approvals /\ approvals[a] \in Requests /\ Held(a)
  BY DEF ClientTypeOK, Spend, Arguments, Held
<1>2. Consumed(a) \in Requests /\ Consumed(a) # Lost
  BY <1>1 DEF Consumed, Requests, Lost
<1>3. approvals' = [approvals EXCEPT ![a] = Consumed(a)]
  BY DEF Spend
<1>4. approvals' \in [Approvals -> Requests \cup {None, Lost}]
  BY <1>2, <1>3 DEF ClientTypeOK
<1>5. \A b \in Approvals : Held(b) => Held(b)'
  BY <1>2, <1>3, ClientNoneAssumption DEF Held, ClientTypeOK
<1>6. \A d \in Callers : pc[d] = "spend" => arg[d].approval \in Approvals
  BY DEF ClientTypeOK, Arguments
<1>7. spent' \in [Approvals -> Nat]
  BY <1>1 DEF Spend, ClientTypeOK
<1> QED
  BY <1>4, <1>5, <1>6, <1>7 DEF ClientTypeOK, Spend, Proceed, tokens, trail, Stages

LEMMA CountType ==
  ASSUME ClientTypeOK, NEW c \in Callers, Count(c)
  PROVE  ClientTypeOK'
<1>1. arg[c] \in Arguments /\ arg[c].jti \in Tokens
  BY DEF ClientTypeOK, Count, Arguments
<1>2. (\E answer \in Answers : Return(c, answer)) /\ TrailOK'
  <2>1. CASE Unwritten(c)
    BY <2>1, RecordedReturns DEF Answers
  <2>2. CASE ~Unwritten(c)
    <3>1. /\ Return(c, "allowed") /\ torn' = FALSE /\ tears' = tears
          /\ file' \in {[file EXCEPT ![arg[c].jti] = @ + 1], file}
      BY <2>2 DEF Count, Logged
    <3>2. torn' \in BOOLEAN
      BY <3>1
    <3>3. file' \in [Tokens -> Nat] /\ tears' \in 0..MaxTears
      BY <1>1, <3>1 DEF ClientTypeOK
    <3> QED
      BY <3>1, <3>2, <3>3 DEF TrailOK, Answers
  <2> QED
    BY <2>1, <2>2
<1>3. actions' \in [Tokens -> Nat]
  BY <1>1 DEF Count, ClientTypeOK
<1> QED
  BY <1>2, <1>3, ReturnTypes DEF ClientTypeOK, Count, Held, tokens, TrailOK

LEMMA NoteType ==
  ASSUME ClientTypeOK, NEW c \in Callers, Note(c)
  PROVE  ClientTypeOK'
<1>1. arg[c] \in Arguments /\ arg[c].jti \in Tokens /\ arg[c].rid \in RequestIds \cup {None}
  BY DEF ClientTypeOK, Note, Arguments
<1>2. Noted(arg[c]) \in SUBSET RequestIds
  BY <1>1 DEF Noted, ClientTypeOK
<1>3. completed' \in [Tokens -> SUBSET RequestIds]
  BY <1>1, <1>2 DEF Note, ClientTypeOK
<1> QED
  BY <1>1, <1>3 DEF ClientTypeOK, Note, Held, tokens, trail, Stages

LEMMA ResolveType ==
  ASSUME ClientTypeOK, NEW a \in Approvals, NEW status \in {"approved", "rejected"},
         Resolve(a, status)
  PROVE  ClientTypeOK'
<1> DEFINE request == [approvals[a] EXCEPT !.status = status]
<1>1. approvals' = [approvals EXCEPT ![a] = request]
  BY DEF Resolve
<1>2. request \in Requests /\ request # Lost
  BY DEF Resolve, Held, ClientTypeOK, Requests, Lost
<1>3. approvals' \in [Approvals -> Requests \cup {None, Lost}]
  BY <1>1, <1>2 DEF ClientTypeOK
<1>4. \A b \in Approvals : Held(b) => Held(b)'
  BY <1>1, <1>2, ClientNoneAssumption DEF Held, ClientTypeOK
<1>5. \A d \in Callers : pc[d] = "spend" => arg[d].approval \in Approvals
  BY DEF ClientTypeOK, Arguments
<1>6. approved' \in [Approvals -> Nat]
  BY DEF Resolve, ClientTypeOK
<1> QED
  BY <1>3, <1>4, <1>5, <1>6 DEF ClientTypeOK, Resolve, tokens, trail

LEMMA RestartType == ClientTypeOK /\ Restart => ClientTypeOK'
<1> SUFFICES ASSUME ClientTypeOK, Restart
             PROVE  ClientTypeOK'
  OBVIOUS
<1>1. TrailOK'
  BY TearTypes DEF ClientTypeOK, Restart, TrailOK
<1> QED
  BY <1>1, ClientNoneAssumption, BoundsAssumption
  DEF ClientTypeOK, Restart, Held, tokens, Stages, TrailOK

LEMMA ClientTypeStep == ClientTypeOK /\ [ClientNext]_clientVars => ClientTypeOK'
<1> SUFFICES ASSUME ClientTypeOK, [ClientNext]_clientVars
             PROVE  ClientTypeOK'
  OBVIOUS
<1>1. ASSUME NEW c \in Callers, Read(c)
      PROVE  ClientTypeOK'
  BY <1>1 DEF ClientTypeOK, Read, Held, tokens, memory, trail
<1>2. ASSUME NEW t \in Tokens, Revoke(t)
      PROVE  ClientTypeOK'
  BY <1>2 DEF ClientTypeOK, Revoke, Held, tokens, trail
<1>3. ASSUME NEW t \in Tokens, NEW n \in Limits, Grant(t, n)
      PROVE  ClientTypeOK'
  <2>1. born' \in [Tokens -> 0..MaxLives] /\ limit' \in [Tokens -> Limits \cup {None}]
    BY <1>3, BoundsAssumption DEF ClientTypeOK, Grant
  <2> QED
    BY <1>3, <2>1 DEF ClientTypeOK, Grant, Held, memory, trail
<1>4. CASE UNCHANGED clientVars
  BY <1>4 DEF ClientTypeOK, clientVars, Held, tokens, memory, trail
<1> QED
  BY <1>1, <1>2, <1>3, <1>4, CheckType, GateType, SpendType, NoteType, CountType,
     ResolveType, RestartType DEF ClientNext, Execute

\* The state of the embedded client is what it should be after any calls,
\* approvals, revocations and restarts (LocalAcrClient).
THEOREM ClientTypes == ClientSpec => []ClientTypeOK
  BY ClientTypeInit, ClientTypeStep, PTL DEF ClientSpec

-----------------------------------------------------------------------------
(* Approvals of the client *)

\* Without threads one call is in the middle at a time.
OneAtATime ==
  ~threads => \A c, d \in Callers : pc[c] # "idle" /\ pc[d] # "idle" => c = d

\* An approved request has let fewer calls through than it was approved for,
\* and a call about to use one up still finds it approved.
Unspent ==
  ~threads =>
    /\ \A a \in Approvals :
         Held(a) /\ approvals[a].status = "approved" => spent[a] < approved[a]
    /\ \A c \in Callers :
         pc[c] = "spend" => approvals[arg[c].approval].status = "approved"

ApprovalInv == ClientTypeOK /\ OneAtATime /\ Unspent /\ ApprovalSpent

LEMMA ApprovalInit == ClientInit => ApprovalInv
  BY ClientTypeInit, ClientNoneAssumption
  DEF ClientInit, ApprovalInv, OneAtATime, Unspent, ApprovalSpent, Held

\* A step that ends calls, or moves one on, without touching the requests.
LEMMA ApprovalKept ==
  ASSUME ApprovalInv, UNCHANGED <<threads, approvals, approved, spent>>,
         \A d \in Callers : pc'[d] # "idle" => pc[d] # "idle",
         \A d \in Callers : pc'[d] = "spend" => pc[d] = "spend" /\ arg'[d] = arg[d]
  PROVE  (OneAtATime /\ Unspent /\ ApprovalSpent)'
  BY DEF ApprovalInv, OneAtATime, Unspent, ApprovalSpent, Held

LEMMA ReturnQuiet ==
  ASSUME ClientTypeOK, NEW c \in Callers, NEW answer, Return(c, answer)
  PROVE  /\ \A d \in Callers : pc'[d] # "idle" => pc[d] # "idle"
         /\ \A d \in Callers : pc'[d] = "spend" => pc[d] = "spend" /\ arg'[d] = arg[d]
  BY DEF ClientTypeOK, Return

LEMMA ApprovalCheck ==
  ASSUME ApprovalInv, NEW c \in Callers, NEW x \in Arguments, NEW dry \in BOOLEAN,
         Check(c, x, dry)
  PROVE  (OneAtATime /\ Unspent /\ ApprovalSpent)'
<1> ClientTypeOK /\ UNCHANGED <<threads, approvals, approved, spent>>
  BY DEF ApprovalInv, Check, memory
<1>1. CASE /\ pc' = [pc EXCEPT ![c] = "gate"]
           /\ arg' = [arg EXCEPT ![c] = x]
  BY <1>1 DEF ApprovalInv, Check, Free, OneAtATime, Unspent, ApprovalSpent, Held, ClientTypeOK
<1>2. CASE \E answer : Return(c, answer)
  BY <1>2, ReturnQuiet, ApprovalKept
<1> QED
  BY <1>1, <1>2 DEF Check, Recorded, Unwritten

LEMMA ApprovalGate ==
  ASSUME ApprovalInv, NEW c \in Callers, Gate(c)
  PROVE  (OneAtATime /\ Unspent /\ ApprovalSpent)'
<1> ClientTypeOK /\ UNCHANGED <<threads, approved, spent>>
  BY DEF ApprovalInv, Gate
<1>0. pc[c] = "gate" /\ arg[c] \in Arguments
  BY DEF Gate, ClientTypeOK
<1>1. CASE Proceed(c, "note") /\ UNCHANGED approvals
  BY <1>0, <1>1, ApprovalKept DEF Proceed, ClientTypeOK
<1>2. CASE AskApproval(c)
  <2>1. PICK a \in Approvals :
          /\ approvals[a] = None
          /\ approvals' = [approvals EXCEPT ![a] =
               [jti |-> arg[c].jti, payload |-> arg[c].payload, status |-> "pending"]]
    BY <1>2 DEF AskApproval
  <2>2. PICK answer : Return(c, answer)
    BY <1>2 DEF AskApproval, Recorded, Unwritten
  <2>3. OneAtATime'
    BY <2>2, ReturnQuiet DEF ApprovalInv, OneAtATime
  <2>4. ApprovalSpent'
    BY DEF ApprovalInv, ApprovalSpent
  <2>5. ~threads => \A b \in Approvals :
          Held(b)' /\ approvals'[b].status = "approved" => spent[b] < approved[b]
    BY <2>1 DEF ApprovalInv, Unspent, Held, ClientTypeOK
  <2>6. ~threads => \A d \in Callers : pc'[d] # "spend"
    BY <1>0, <2>2 DEF ApprovalInv, OneAtATime, Return, ClientTypeOK
  <2> QED
    BY <2>3, <2>4, <2>5, <2>6 DEF Unspent, Held
<1>3. CASE /\ approvals[arg[c].approval].status = "approved"
           /\ Proceed(c, "spend") /\ UNCHANGED approvals
  BY <1>0, <1>3 DEF ApprovalInv, OneAtATime, Unspent, ApprovalSpent, Proceed, Held,
     ClientTypeOK
<1>4. CASE Recorded(c, "denied") /\ UNCHANGED approvals
  BY <1>4, ReturnQuiet, ApprovalKept DEF Recorded, Unwritten
<1> QED
  BY <1>1, <1>2, <1>3, <1>4 DEF Gate

LEMMA ApprovalSpend ==
  ASSUME ApprovalInv, NEW c \in Callers, Spend(c)
  PROVE  (OneAtATime /\ Unspent /\ ApprovalSpent)'
<1> DEFINE a == arg[c].approval
<1>0. ClientTypeOK /\ UNCHANGED <<threads, approved>>
  BY DEF ApprovalInv, Spend
<1>1. a \in Approvals /\ approvals[a] \in Requests /\ Held(a)
  BY <1>0 DEF ClientTypeOK, Spend, Arguments, Held
<1>2. /\ approvals' = [approvals EXCEPT ![a] = Consumed(a)]
      /\ spent' = [spent EXCEPT ![a] = @ + 1]
      /\ pc[c] = "spend" /\ pc' = [pc EXCEPT ![c] = "note"] /\ arg' = arg
  BY DEF Spend, Proceed
<1>3. Consumed(a).status = "consumed"
  BY <1>1 DEF Consumed, Requests
<1>4. ~threads => spent[a] < approved[a]
  BY <1>1, <1>2 DEF ApprovalInv, Unspent
<1>5. spent \in [Approvals -> Nat] /\ approved \in [Approvals -> Nat] /\ pc \in [Callers -> Stages]
      /\ approvals \in [Approvals -> Requests \cup {None, Lost}]
  BY <1>0 DEF ClientTypeOK
<1> HIDE DEF a
<1>6. OneAtATime'
  BY <1>0, <1>2, <1>5 DEF ApprovalInv, OneAtATime
<1>7. ApprovalSpent'
  BY <1>0, <1>1, <1>2, <1>4, <1>5 DEF ApprovalInv, ApprovalSpent
<1>8. ~threads => \A b \in Approvals :
        Held(b)' /\ approvals'[b].status = "approved" => spent'[b] < approved'[b]
  BY <1>0, <1>1, <1>2, <1>3, <1>5 DEF ApprovalInv, Unspent, Held
<1>9. ~threads => \A d \in Callers : pc'[d] # "spend"
  BY <1>2, <1>5 DEF ApprovalInv, OneAtATime
<1> QED
  BY <1>0, <1>6, <1>7, <1>8, <1>9 DEF Unspent

LEMMA ApprovalResolve ==
  ASSUME ApprovalInv, NEW a \in Approvals, NEW status \in {"approved", "rejected"},
         Resolve(a, status)
  PROVE  (OneAtATime /\ Unspent /\ ApprovalSpent)'
<1> DEFINE request == [approvals[a] EXCEPT !.status = status]
<1>0. ClientTypeOK /\ UNCHANGED <<threads, pc, arg, spent>>
  BY DEF ApprovalInv, Resolve
<1>1. approvals' = [approvals EXCEPT ![a] = request] /\ Held(a)
  BY DEF Resolve
<1>2. request.status = status
  BY <1>0, <1>1 DEF Held, ClientTypeOK, Requests
<1>3. IF status = "approved" /\ approvals[a].status # "approved"
      THEN approved' = [approved EXCEPT ![a] = @ + 1] ELSE UNCHANGED approved
  BY DEF Resolve
<1>4. spent \in [Approvals -> Nat] /\ approved \in [Approvals -> Nat]
      /\ approvals \in [Approvals -> Requests \cup {None, Lost}]
  BY <1>0 DEF ClientTypeOK
<1> HIDE DEF request
<1>5. OneAtATime'
  BY <1>0 DEF ApprovalInv, OneAtATime
<1>6. ApprovalSpent'
  BY <1>0, <1>3, <1>4 DEF ApprovalInv, ApprovalSpent
<1>7. ~threads => \A b \in Approvals :
        Held(b)' /\ approvals'[b].status = "approved" => spent'[b] < approved'[b]
  <2> SUFFICES ASSUME ~threads, NEW b \in Approvals, Held(b)',
                      approvals'[b].status = "approved"
               PROVE  spent'[b] < approved'[b]
    OBVIOUS
  <2>1. CASE b # a
    BY <1>0, <1>1, <1>3, <1>4, <2>1 DEF ApprovalInv, Unspent, Held
  <2>2. CASE b = a
    BY <1>0, <1>1, <1>2, <1>3, <1>4, <2>2 DEF ApprovalInv, Unspent, ApprovalSpent
  <2> QED
    BY <2>1, <2>2
<1>8. ~threads => \A d \in Callers : pc'[d] # "spend"
  BY <1>0 DEF Resolve, Free, ApprovalInv
<1> QED
  BY <1>0, <1>5, <1>6, <1>7, <1>8 DEF Unspent

LEMMA ApprovalStep == ApprovalInv /\ [ClientNext]_clientVars => ApprovalInv'
<1> SUFFICES ASSUME ApprovalInv, [ClientNext]_clientVars
             PROVE  (OneAtATime /\ Unspent /\ ApprovalSpent)'
  BY ClientTypeStep DEF ApprovalInv
<1> ClientTypeOK
  BY DEF ApprovalInv
<1>1. ASSUME NEW c \in Callers, Note(c)
      PROVE  (OneAtATime /\ Unspent /\ ApprovalSpent)'
  BY <1>1, ApprovalKept DEF Note, ClientTypeOK
<1>2. ASSUME NEW c \in Callers, Count(c)
      PROVE  (OneAtATime /\ Unspent /\ ApprovalSpent)'
  BY <1>2, ApprovalKept, ReturnQuiet DEF Count, Logged, Unwritten
<1>3. ASSUME NEW c \in Callers, Read(c)
      PROVE  (OneAtATime /\ Unspent /\ ApprovalSpent)'
  BY <1>3, ApprovalKept DEF Read, memory
<1>4. ASSUME NEW t \in Tokens, Revoke(t) \/ \E n \in Limits : Grant(t, n)
      PROVE  (OneAtATime /\ Unspent /\ ApprovalSpent)'
  BY <1>4, ApprovalKept DEF Revoke, Grant, memory
<1>5. CASE Restart
  <2>1. \A a \in Approvals : ~Held(a)'
    BY <1>5 DEF Restart, Held, ClientTypeOK
  <2> QED
    BY <1>5, <2>1 DEF Restart, ApprovalInv, OneAtATime, Unspent, ApprovalSpent
<1>6. CASE UNCHANGED clientVars
  BY <1>6, ApprovalKept DEF clientVars, memory
<1> QED
  BY <1>1, <1>2, <1>3, <1>4, <1>5, <1>6, ApprovalCheck, ApprovalGate, ApprovalSpend,
     ApprovalResolve DEF ClientNext, Execute

\* A caller of one thread gets no more out of a request than the times it was
\* approved (_resolve_approval, approve_sync).
THEOREM ClientApprovals == ClientSpec => []ApprovalSpent
<1>1. ApprovalInv => ApprovalSpent
  BY DEF ApprovalInv
<1> QED
  BY <1>1, ApprovalInit, ApprovalStep, PTL DEF ClientSpec

-----------------------------------------------------------------------------
(* The guards over the client *)

LEMMA KeyInKeys == \A u \in Listed : Key(u) \in Keys
  BY ToolsAssumption DEF Key, Keys

LEMMA GuardTypeInit == GuardInit => GuardTypeOK
<1> SUFFICES ASSUME GuardInit
             PROVE  GuardTypeOK
  OBVIOUS
<1>1. PICK d \in Deployments :
        /\ kind = d.kind /\ backend = d.backend /\ mode = d.mode
        /\ simulate = d.simulate
  BY DEF GuardInit
<1>2. /\ kind \in {"python", "typescript", "langchain"}
      /\ backend \in {"embedded", "gateway"}
      /\ mode \in {"enforce", "shadow", "disabled"} /\ simulate \in BOOLEAN
  BY <1>1, DeploymentsAssumption
<1> QED
  BY <1>2, ClientTypeInit DEF GuardInit, GuardTypeOK, ClientInit

\* Every step of a guard is one of the client's or leaves the client alone.
LEMMA GuardStep == GuardTypeOK /\ [GuardNext]_guardVars => [ClientNext]_clientVars
<1> SUFFICES ASSUME GuardTypeOK, [GuardNext]_guardVars
             PROVE  [ClientNext]_clientVars
  OBVIOUS
<1>1. ASSUME NEW u \in Listed, NEW t \in Tokens, Ensure(u, t)
      PROVE  ClientNext
  BY <1>1, ToolsAssumption DEF Ensure, ClientNext
<1>2. ASSUME NEW c \in Callers, NEW u \in Tools, NEW p \in Payloads, Ask(c, u, p)
      PROVE  [ClientNext]_clientVars
  <2> DEFINE x == [jti |-> cache[Key(u)], rid |-> None, approval |-> None, payload |-> p]
  <2>1. x \in Arguments
    BY <1>2, KeyInKeys DEF Ask, Ready, GuardTypeOK, Arguments
  <2>2. simulate \in BOOLEAN
    BY DEF GuardTypeOK
  <2>3. CASE backend = "embedded"
    <3>1. Check(c, x, simulate)
      BY <1>2, <2>3 DEF Ask
    <3> QED
      BY <2>1, <2>2, <3>1 DEF ClientNext, Execute
  <2> QED
    BY <1>2, <2>3 DEF Ask
<1>3. ASSUME NEW c \in Callers, HearClient(c) \/ HostReads(c)
      PROVE  ClientNext
  BY <1>3 DEF HearClient, HostReads, ClientNext, Execute
<1>4. ASSUME NEW c \in Callers, HearGateway(c) \/ Run(c) \/ \E u \in Tools : CheckUnasked(c, u)
      PROVE  UNCHANGED clientVars
  BY <1>4 DEF HearGateway, Run, CheckUnasked
<1>5. ASSUME NEW c \in Callers, NEW x \in Arguments, NEW dry \in BOOLEAN, HostCheck(c, x, dry)
      PROVE  ClientNext
  BY <1>5 DEF HostCheck, ClientNext, Execute
<1>6. CASE ClientStep
  BY <1>6 DEF ClientStep, ClientNext, Execute
<1>7. CASE GuardRestart
  BY <1>7 DEF GuardRestart, ClientNext
<1>8. CASE UNCHANGED guardVars
  BY <1>8 DEF guardVars
<1> QED
  BY <1>1, <1>2, <1>3, <1>4, <1>5, <1>6, <1>7, <1>8 DEF GuardNext

\* A step of the client for c leaves the other callers alone.
LEMMA CheckOthers ==
  ASSUME ClientTypeOK, NEW c \in Callers, NEW x, NEW dry, Check(c, x, dry)
  PROVE  \A d \in Callers \ {c} : pc'[d] = pc[d] /\ result'[d] = result[d]
<1>1. CASE pc' = [pc EXCEPT ![c] = "gate"] /\ UNCHANGED result
  BY <1>1 DEF ClientTypeOK
<1>2. CASE \E answer : Return(c, answer)
  BY <1>2 DEF ClientTypeOK, Return
<1> QED
  BY <1>1, <1>2 DEF Check, Recorded, Unwritten

LEMMA CallOthers ==
  ASSUME ClientTypeOK, NEW c \in Callers, Gate(c) \/ Spend(c) \/ Note(c) \/ Count(c)
  PROVE  /\ pc[c] # "idle"
         /\ \A d \in Callers \ {c} : pc'[d] = pc[d] /\ result'[d] = result[d]
<1>1. pc[c] # "idle"
  BY DEF Gate, Spend, Note, Count
<1>2. CASE \E stage_ : Proceed(c, stage_)
  BY <1>1, <1>2 DEF ClientTypeOK, Proceed
<1>3. CASE \E answer : Return(c, answer)
  BY <1>1, <1>3 DEF ClientTypeOK, Return
<1>4. CASE Note(c)
  BY <1>1, <1>4 DEF ClientTypeOK, Note
<1>5. CASE Gate(c)
  BY <1>2, <1>3, <1>5 DEF Gate, AskApproval, Recorded, Unwritten
<1> QED
  BY <1>2, <1>3, <1>4, <1>5 DEF Spend, Count, Logged, Unwritten

LEMMA GuardTypeStep == GuardTypeOK /\ [GuardNext]_guardVars => GuardTypeOK'
<1> SUFFICES ASSUME GuardTypeOK, [GuardNext]_guardVars
             PROVE  GuardTypeOK'
  OBVIOUS
<1>0. ClientTypeOK /\ ClientTypeOK'
  BY GuardStep, ClientTypeStep DEF GuardTypeOK
<1>1. ASSUME NEW u \in Listed, NEW t \in Tokens, Ensure(u, t)
      PROVE  GuardTypeOK'
  BY <1>0, <1>1 DEF GuardTypeOK, Ensure, Grant, config
<1>2. ASSUME NEW c \in Callers, NEW u \in Tools, NEW p \in Payloads, Ask(c, u, p)
      PROVE  GuardTypeOK'
  <2>1. \A d \in Callers \ {c} : pc'[d] = pc[d] /\ result'[d] = result[d]
    BY <1>0, <1>2, CheckOthers DEF Ask, clientVars
  <2>2. cache[Key(u)] \in Tokens
    BY <1>2, KeyInKeys DEF Ask, Ready, GuardTypeOK
  <2>3. backend = "gateway" => UNCHANGED <<pc, result>>
    BY <1>2 DEF Ask, clientVars
  <2>4. /\ tool' = [tool EXCEPT ![c] = u] /\ u \in Listed
        /\ token' = [token EXCEPT ![c] = cache[Key(u)]]
        /\ stage' = [stage EXCEPT ![c] = "asking"]
        /\ UNCHANGED <<config, cache, runs, through>>
    BY <1>2 DEF Ask
  <2> QED
    BY <1>0, <2>1, <2>2, <2>3, <2>4 DEF GuardTypeOK, config
<1>3. ASSUME NEW c \in Callers, HearClient(c)
      PROVE  GuardTypeOK'
  <2>1. /\ pc' = pc /\ result' = [result EXCEPT ![c] = None] /\ result[c] # None
        /\ backend = "embedded" /\ stage[c] = "asking"
        /\ tool' = [tool EXCEPT ![c] = None] /\ token' = [token EXCEPT ![c] = None]
        /\ UNCHANGED <<kind, backend, mode, simulate, cache>>
    BY <1>3 DEF HearClient, Read, Heard, config
  <2>2. \E s \in {"none", "allowed"} : stage' = [stage EXCEPT ![c] = s]
    BY <1>3 DEF HearClient, Heard, Decide
  <2>3. runs' \in [Listed -> Nat] /\ through' \in [Tokens -> Nat]
    BY <1>3, <2>1 DEF HearClient, GuardTypeOK
  <2>4. pc[c] = "idle" /\ result \in [Callers -> Answers \cup {None}]
    BY <1>0, <2>1 DEF ClientTypeOK
  <2> QED
    BY <1>0, <2>1, <2>2, <2>3, <2>4 DEF GuardTypeOK
<1>4. ASSUME NEW c \in Callers, HearGateway(c)
      PROVE  GuardTypeOK'
  <2>1. /\ UNCHANGED <<pc, result, kind, backend, mode, simulate, cache, runs, through>>
        /\ backend = "gateway"
        /\ tool' = [tool EXCEPT ![c] = None] /\ token' = [token EXCEPT ![c] = None]
    BY <1>4 DEF HearGateway, Heard, config, clientVars
  <2>2. \E s \in {"none", "allowed"} : stage' = [stage EXCEPT ![c] = s]
    BY <1>4 DEF HearGateway, Heard, Decide
  <2> QED
    BY <1>0, <2>1, <2>2 DEF GuardTypeOK
<1>5. ASSUME NEW c \in Callers, Run(c)
      PROVE  GuardTypeOK'
  BY <1>0, <1>5 DEF GuardTypeOK, Run, config, clientVars
<1>6. ASSUME NEW c \in Callers, NEW u \in Tools, CheckUnasked(c, u)
      PROVE  GuardTypeOK'
  <2>1. /\ UNCHANGED <<pc, result, kind, backend, mode, simulate, cache, tool, token, runs, through>>
        /\ stage[c] = "none" /\ pc[c] = "idle" /\ result[c] = None
    BY <1>6 DEF CheckUnasked, config, clientVars
  <2>2. \E s \in {"none", "allowed"} : stage' = [stage EXCEPT ![c] = s]
    BY <1>6 DEF CheckUnasked, Decide
  <2> QED
    BY <1>0, <2>1, <2>2 DEF GuardTypeOK
<1>7. ASSUME NEW c \in Callers, NEW x \in Arguments, NEW dry \in BOOLEAN, HostCheck(c, x, dry)
      PROVE  GuardTypeOK'
  BY <1>0, <1>7, CheckOthers DEF GuardTypeOK, HostCheck, guarding, config
<1>8. ASSUME NEW c \in Callers, HostReads(c)
      PROVE  GuardTypeOK'
  BY <1>0, <1>8 DEF GuardTypeOK, HostReads, Read, guarding, config
<1>9. CASE ClientStep
  <2>1. ASSUME NEW c \in Callers, Gate(c) \/ Spend(c) \/ Note(c) \/ Count(c)
        PROVE  GuardTypeOK'
    BY <1>0, <1>9, <2>1, CallOthers DEF GuardTypeOK, ClientStep, guarding, config
  <2>2. CASE UNCHANGED <<pc, result>>
    BY <1>0, <1>9, <2>2 DEF GuardTypeOK, ClientStep, guarding, config
  <2> QED
    BY <1>9, <2>1, <2>2 DEF ClientStep, Revoke, Resolve
<1>10. CASE GuardRestart
  BY <1>0, <1>10 DEF GuardTypeOK, GuardRestart, Restart, config
<1>11. CASE UNCHANGED guardVars
  BY <1>0, <1>11 DEF GuardTypeOK, guardVars, clientVars, guarding, config
<1> QED
  BY <1>1, <1>2, <1>3, <1>4, <1>5, <1>6, <1>7, <1>8, <1>9, <1>10, <1>11 DEF GuardNext

\* The state of a guard and its client is what it should be in every setup.
THEOREM GuardTypes == GuardSpec => []GuardTypeOK
  BY GuardTypeInit, GuardTypeStep, PTL DEF GuardSpec

\* A guard and its host use the embedded client only as it may be used, so what
\* holds of the client holds beneath them (check, execute_sync).
THEOREM GuardImplementsClient == GuardSpec => ClientSpec
<1>1. GuardInit => ClientInit
  BY DEF GuardInit
<1> QED
  BY <1>1, GuardStep, GuardTypes, PTL DEF GuardSpec, ClientSpec

\* So beneath a guard of one thread an approval is used at most once each time
\* it is given.
THEOREM GuardApprovals == GuardSpec => []ApprovalSpent
  BY GuardImplementsClient, ClientApprovals, PTL

-----------------------------------------------------------------------------
(* Counters of the client *)

\* Without threads no counter passes its limit: a call in the middle has found
\* it below, and it is the only one.
WithinLimit ==
  ~threads =>
    /\ \A t \in Tokens : born[t] = 0 => actions[t] = 0
    /\ \A t \in Tokens : born[t] > 0 =>
         limit[t] \in Limits /\ (limit[t] # Unlimited => actions[t] <= limit[t])
    /\ \A c \in Callers : pc[c] # "idle" => born[arg[c].jti] > 0 /\ UnderLimit(arg[c].jti)
    /\ \A c \in Callers : pc[c] = "count" => read[c] = actions[arg[c].jti]

LimitInv == ClientTypeOK /\ OneAtATime /\ WithinLimit

LEMMA WithinLimitInit == ClientInit => WithinLimit
  BY DEF ClientInit, WithinLimit

LEMMA WithinLimitKept ==
  ASSUME LimitInv, UNCHANGED <<threads, tokens, actions>>,
         \A d \in Callers : pc'[d] # "idle" => pc[d] # "idle" /\ arg'[d] = arg[d],
         \A d \in Callers : pc'[d] = "count" =>
           \/ pc[d] = "count" /\ read'[d] = read[d]
           \/ read'[d] = actions[arg[d].jti]
  PROVE  WithinLimit'
  BY DEF LimitInv, WithinLimit, UnderLimit, tokens

LEMMA ReturnQuietRead ==
  ASSUME ClientTypeOK, NEW c \in Callers, NEW answer, Return(c, answer)
  PROVE  /\ \A d \in Callers : pc'[d] # "idle" => pc[d] # "idle" /\ arg'[d] = arg[d]
         /\ \A d \in Callers : pc'[d] = "count" => pc[d] = "count" /\ read'[d] = read[d]
  BY DEF ClientTypeOK, Return

LEMMA WithinLimitStep == LimitInv /\ [ClientNext]_clientVars => WithinLimit'
<1> SUFFICES ASSUME LimitInv, [ClientNext]_clientVars
             PROVE  WithinLimit'
  OBVIOUS
<1> ClientTypeOK
  BY DEF LimitInv
<1>1. ASSUME NEW c \in Callers, NEW x \in Arguments, NEW dry \in BOOLEAN, Check(c, x, dry)
      PROVE  WithinLimit'
  <2>0. UNCHANGED <<threads, tokens, actions>> /\ born[x.jti] > 0
    BY <1>1 DEF Check, memory
  <2>1. CASE \E answer : Return(c, answer)
    BY <2>0, <2>1, WithinLimitKept, ReturnQuietRead
  <2>2. CASE ~\E answer : Return(c, answer)
    <3>1. PICK fits \in BOOLEAN :
            /\ Screened(x, dry, fits) = "gate"
            /\ pc' = [pc EXCEPT ![c] = "gate"] /\ arg' = [arg EXCEPT ![c] = x]
            /\ UNCHANGED read
      BY <1>1, <2>2 DEF Check, Recorded, Unwritten
    <3>2. UnderLimit(x.jti)
      BY <3>1 DEF Screened
    <3> QED
      BY <2>0, <3>1, <3>2 DEF LimitInv, WithinLimit, ClientTypeOK, UnderLimit, tokens
  <2> QED
    BY <2>1, <2>2
<1>2. ASSUME NEW c \in Callers, Gate(c)
      PROVE  WithinLimit'
  <2>0. UNCHANGED <<threads, tokens, actions>> /\ pc[c] = "gate"
    BY <1>2 DEF Gate
  <2>1. CASE \E answer : Return(c, answer)
    BY <2>0, <2>1, WithinLimitKept, ReturnQuietRead
  <2>2. CASE Proceed(c, "note") \/ Proceed(c, "spend")
    BY <2>0, <2>2, WithinLimitKept DEF Proceed, ClientTypeOK
  <2> QED
    BY <1>2, <2>1, <2>2 DEF Gate, AskApproval, Recorded, Unwritten
<1>3. ASSUME NEW c \in Callers, Spend(c)
      PROVE  WithinLimit'
  BY <1>3, WithinLimitKept DEF Spend, Proceed, ClientTypeOK
<1>4. ASSUME NEW c \in Callers, Note(c)
      PROVE  WithinLimit'
  BY <1>4, WithinLimitKept DEF Note, ClientTypeOK
<1>5. ASSUME NEW c \in Callers, Count(c)
      PROVE  WithinLimit'
  <2> DEFINE t == arg[c].jti
  <2>0. UNCHANGED <<threads, born, limit>> /\ pc[c] = "count"
    BY <1>5 DEF Count, tokens
  <2>1. t \in Tokens
    BY <2>0 DEF ClientTypeOK, Arguments
  <2>2. actions' = [actions EXCEPT ![t] = read[c] + 1]
    BY <1>5 DEF Count
  <2>3. PICK answer : Return(c, answer)
    BY <1>5 DEF Count, Logged, Unwritten
  <2>4. ~threads => \A d \in Callers : pc'[d] = "idle"
    BY <2>0, <2>3 DEF LimitInv, OneAtATime, Return, ClientTypeOK
  <2>5. ~threads => /\ born[t] > 0 /\ read[c] = actions[t] /\ limit[t] \in Limits
                    /\ limit[t] # Unlimited => actions[t] < limit[t]
    BY <2>0, <2>1 DEF LimitInv, WithinLimit, UnderLimit
  <2>6. actions \in [Tokens -> Nat] /\ born \in [Tokens -> 0..MaxLives]
    BY DEF ClientTypeOK
  <2> HIDE DEF t
  <2>7. ASSUME ~threads, NEW d \in Tokens
        PROVE  /\ born'[d] = 0 => actions'[d] = 0
               /\ born'[d] > 0 => limit'[d] \in Limits
               /\ born'[d] > 0 /\ limit'[d] # Unlimited => actions'[d] <= limit'[d]
    <3>1. CASE d = t
      <4>1. /\ born[t] > 0 /\ read[c] = actions[t] /\ limit[t] \in Limits
            /\ limit[t] # Unlimited => actions[t] < limit[t]
        BY <2>5, <2>7
      <4>2. limit[t] # Unlimited => limit[t] \in Nat
        BY <4>1, LimitsAssumption
      <4>3. actions'[t] = actions[t] + 1 /\ actions[t] \in Nat /\ born[t] \in Nat
        BY <2>1, <2>2, <2>6, <4>1
      <4> QED
        BY <2>0, <3>1, <4>1, <4>2, <4>3
    <3>2. CASE d # t
      BY <2>0, <2>1, <2>2, <2>6, <2>7, <3>2 DEF LimitInv, WithinLimit
    <3> QED
      BY <3>1, <3>2
  <2> QED
    BY <2>0, <2>4, <2>7 DEF WithinLimit
<1>6. ASSUME NEW c \in Callers, Read(c)
      PROVE  WithinLimit'
  BY <1>6, WithinLimitKept DEF Read, memory
<1>7. ASSUME NEW t \in Tokens, Revoke(t)
      PROVE  WithinLimit'
  BY <1>7, WithinLimitKept DEF Revoke
<1>8. ASSUME NEW t \in Tokens, NEW n \in Limits, Grant(t, n)
      PROVE  WithinLimit'
  <2>1. /\ born[t] = 0 /\ born' = [born EXCEPT ![t] = life]
        /\ limit' = [limit EXCEPT ![t] = n]
        /\ UNCHANGED <<threads, actions, pc, arg, read>>
    BY <1>8 DEF Grant, memory
  <2>2. ~threads => \A c \in Callers : pc[c] = "idle"
    BY <1>8 DEF Grant, Free
  <2>3. actions \in [Tokens -> Nat] /\ born \in [Tokens -> 0..MaxLives]
        /\ limit \in [Tokens -> Limits \cup {None}] /\ life \in 1..MaxLives
    BY DEF ClientTypeOK
  <2>4. n # Unlimited => n \in Nat
    BY LimitsAssumption
  <2> QED
    BY <2>1, <2>2, <2>3, <2>4, BoundsAssumption DEF LimitInv, WithinLimit
<1>9. ASSUME NEW a \in Approvals, NEW status \in {"approved", "rejected"}, Resolve(a, status)
      PROVE  WithinLimit'
  BY <1>9, WithinLimitKept DEF Resolve
<1>10. CASE Restart
  <2>1. \A n \in Limits : n # Unlimited => 0 <= n
    BY LimitsAssumption
  <2>2. \A t \in Tokens : actions'[t] = 0
    BY <1>10 DEF Restart
  <2>3. \A c \in Callers : pc'[c] = "idle"
    BY <1>10 DEF Restart
  <2>4. UNCHANGED <<threads, born, limit>>
    BY <1>10 DEF Restart, tokens
  <2> QED
    BY <2>1, <2>2, <2>3, <2>4 DEF LimitInv, WithinLimit
<1>11. CASE UNCHANGED clientVars
  BY <1>11, WithinLimitKept DEF clientVars, memory
<1> QED
  BY <1>1, <1>2, <1>3, <1>4, <1>5, <1>6, <1>7, <1>8, <1>9, <1>10, <1>11
  DEF ClientNext, Execute

-----------------------------------------------------------------------------
(* What has been allowed and not yet heard *)

Waiting(t) ==
  {c \in Callers : stage[c] = "asking" /\ token[c] = t /\ result[c] = "allowed"}

\* An enforcing guard over the embedded client that asks for more than dry runs,
\* or takes none of them for a permission.
Enforced ==
  backend = "embedded" /\ mode = "enforce" /\ (simulate => kind = "python")

\* The client works on the token the guard has asked with.
Asked ==
  Enforced =>
    \A c \in Callers : stage[c] = "asking" =>
      /\ pc[c] # "idle" => arg[c].jti = token[c]
      /\ result[c] # "replay"
      /\ result[c] = "simulated" => kind = "python"

\* How many runs the file accounts for: an ALLOW behind a line cut short will
\* be lost, and is booked when that line is.
Covered(t) == file[t] + tears - (IF torn THEN 1 ELSE 0)

LEMMA CoveredTyped ==
  ASSUME ClientTypeOK
  PROVE  \A t \in Tokens : Covered(t) \in Int /\ Covered(t) <= file[t] + tears
  BY DEF Covered, ClientTypeOK

LEMMA TearCovers ==
  ASSUME ClientTypeOK, Tear \/ UNCHANGED trail
  PROVE  \A t \in Tokens : Covered(t) <= Covered(t)'
<1>1. CASE Tear
  <2> SUFFICES ASSUME NEW t \in Tokens
               PROVE  Covered(t) <= Covered(t)'
    OBVIOUS
  <2>1. /\ torn' = TRUE /\ tears' = tears + 1 /\ file' = file
        /\ tears \in Nat /\ file[t] \in Nat /\ torn \in BOOLEAN
    BY <1>1, BoundsAssumption DEF Tear, ClientTypeOK
  <2> QED
    BY <2>1 DEF Covered
<1>2. CASE UNCHANGED trail
  <2> SUFFICES ASSUME NEW t \in Tokens
               PROVE  Covered(t) <= Covered(t)'
    OBVIOUS
  <2>1. Covered(t) \in Int
    BY CoveredTyped
  <2>2. Covered(t)' = Covered(t)
    BY <1>2 DEF trail, Covered
  <2> QED
    BY <2>1, <2>2
<1> QED
  BY <1>1, <1>2

LEMMA RecordedCovers ==
  ASSUME ClientTypeOK, NEW c \in Callers, NEW answer, Recorded(c, answer)
  PROVE  \A t \in Tokens : Covered(t) <= Covered(t)'
<1>1. CASE Unwritten(c)
  BY <1>1, TearCovers DEF Unwritten
<1>2. CASE torn' = FALSE /\ UNCHANGED <<file, tears>>
  <2> SUFFICES ASSUME NEW t \in Tokens
               PROVE  Covered(t) <= Covered(t)'
    OBVIOUS
  <2>1. tears \in Nat /\ file[t] \in Nat /\ torn \in BOOLEAN
    BY BoundsAssumption DEF ClientTypeOK
  <2> QED
    BY <1>2, <2>1 DEF Covered
<1> QED
  BY <1>1, <1>2 DEF Recorded

\* A call that is checked, or moves on short of its ALLOW.
LEMMA CallCovers ==
  ASSUME ClientTypeOK, NEW c \in Callers,
         \/ \E x, dry : Check(c, x, dry)
         \/ Gate(c) \/ Spend(c) \/ Note(c)
  PROVE  \A t \in Tokens : Covered(t) <= Covered(t)'
<1>1. CASE UNCHANGED trail
  BY <1>1, TearCovers
<1>2. CASE \E answer : Recorded(c, answer)
  BY <1>2, RecordedCovers
<1> QED
  BY <1>1, <1>2 DEF Check, Gate, AskApproval, Spend, Note

\* The ALLOW of a call is on file before the call returns, and accounts for it.
LEMMA LoggedCovers ==
  ASSUME ClientTypeOK, NEW c \in Callers, NEW j \in Tokens, Logged(c, j)
  PROVE  /\ \A t \in Tokens : Covered(t) <= Covered(t)'
         /\ \/ Return(c, "raised")
            \/ /\ Return(c, "allowed")
               /\ AuditPath => \A t \in Tokens : t = j => Covered(t) + 1 <= Covered(t)'
<1>1. CASE Unwritten(c)
  BY <1>1, TearCovers DEF Unwritten
<1>2. CASE /\ Return(c, "allowed") /\ torn' = FALSE /\ tears' = tears
           /\ file' = IF AuditPath /\ ~torn THEN [file EXCEPT ![j] = @ + 1] ELSE file
  <2>1. /\ \A t \in Tokens : Covered(t) <= Covered(t)'
        /\ AuditPath => \A t \in Tokens : t = j => Covered(t) + 1 <= Covered(t)'
    <3> SUFFICES ASSUME NEW t \in Tokens
                 PROVE  /\ Covered(t) <= Covered(t)'
                        /\ AuditPath /\ t = j => Covered(t) + 1 <= Covered(t)'
      OBVIOUS
    <3>1. /\ tears \in Nat /\ file[t] \in Nat /\ torn \in BOOLEAN
          /\ file'[t] = IF AuditPath /\ ~torn /\ t = j THEN file[t] + 1 ELSE file[t]
      BY <1>2, BoundsAssumption DEF ClientTypeOK
    <3>2. CASE torn
      BY <1>2, <3>1, <3>2 DEF Covered
    <3>3. CASE ~torn
      BY <1>2, <3>1, <3>3 DEF Covered
    <3> QED
      BY <3>2, <3>3
  <2> QED
    BY <1>2, <2>1
<1> QED
  BY <1>1, <1>2 DEF Logged

LEMMA WaitingFinite ==
  \A t : IsFiniteSet(Waiting(t)) /\ Cardinality(Waiting(t)) \in Nat
<1> TAKE t
<1>1. Waiting(t) \subseteq Callers
  BY DEF Waiting
<1> QED
  BY <1>1, CallersAssumption, FS_Subset, FS_CardinalityType

\* A step of the client that only one caller takes, between asking and hearing.
LEMMA OthersKept ==
  ASSUME GuardTypeOK, Asked, NEW c \in Callers, UNCHANGED <<kind, backend, mode, simulate, stage, token>>,
         \A d \in Callers \ {c} :
           pc'[d] = pc[d] /\ result'[d] = result[d] /\ (pc[d] # "idle" => arg'[d] = arg[d]),
         stage[c] = "asking" =>
           /\ result[c] # "allowed"
           /\ result'[c] \notin {"allowed", "replay", "simulated"}
           /\ pc'[c] # "idle" => pc[c] # "idle" /\ arg'[c] = arg[c]
  PROVE  Asked' /\ \A t : Waiting(t)' = Waiting(t)
<1>1. Asked'
  BY DEF Asked, Enforced
<1>2. ASSUME NEW t, NEW d \in Callers
      PROVE  (stage[d] = "asking" /\ token[d] = t /\ result[d] = "allowed") <=>
             (stage'[d] = "asking" /\ token'[d] = t /\ result'[d] = "allowed")
  OBVIOUS
<1> QED
  BY <1>1, <1>2 DEF Waiting

LEMMA AskWaits ==
  ASSUME GuardTypeOK, Asked, Enforced, NEW c \in Callers, NEW u \in Tools, NEW p \in Payloads,
         Ask(c, u, p)
  PROVE  /\ Asked' /\ \A t : Waiting(t)' = Waiting(t)
         /\ UNCHANGED <<backend, mode, kind, simulate, threads, cache, runs, through, actions, born, limit>>
         /\ \A t \in Tokens : Covered(t) <= Covered(t)'
         /\ tool' = [tool EXCEPT ![c] = u] /\ u \in Listed
         /\ token' = [token EXCEPT ![c] = cache[Key(u)]]
         /\ stage' = [stage EXCEPT ![c] = "asking"]
<1> DEFINE x == [jti |-> cache[Key(u)], rid |-> None, approval |-> None, payload |-> p]
<1>1. Check(c, x, simulate)
  BY DEF Ask, Enforced
<1>2. /\ UNCHANGED <<backend, mode, kind, simulate, threads, cache, runs, through, actions, born, limit>>
      /\ tool' = [tool EXCEPT ![c] = u] /\ u \in Listed
      /\ token' = [token EXCEPT ![c] = cache[Key(u)]]
      /\ stage' = [stage EXCEPT ![c] = "asking"]
      /\ result[c] = None /\ stage[c] = "none"
  BY <1>1 DEF Ask, config, Check, tokens, memory
<1>3. \A fits \in BOOLEAN :
        \/ Screened(x, simulate, fits) \in {"denied", "gate"}
        \/ simulate /\ Screened(x, simulate, fits) = "simulated"
  BY DEF Screened, Known
<1>4. ClientTypeOK /\ pc \in [Callers -> Stages] /\ arg \in [Callers -> Arguments \cup {None}]
      /\ result \in [Callers -> Answers \cup {None}]
      /\ stage \in [Callers -> {"none", "asking", "allowed"}]
      /\ token \in [Callers -> Tokens \cup {None}]
  BY DEF GuardTypeOK, ClientTypeOK
<1>5. \/ /\ pc' = [pc EXCEPT ![c] = "gate"] /\ arg' = [arg EXCEPT ![c] = x]
         /\ result' = result
      \/ Return(c, "denied")
      \/ Return(c, "raised")
      \/ simulate /\ Return(c, "simulated")
  BY <1>1, <1>3 DEF Check, Recorded, Unwritten
<1>6. \A d \in Callers \ {c} :
        pc'[d] = pc[d] /\ result'[d] = result[d] /\ arg'[d] = arg[d]
  BY <1>4, <1>5 DEF Return
<1>8. None \notin {"allowed", "replay", "simulated"}
  BY ClientNoneAssumption DEF Answers
<1>7. /\ pc'[c] # "idle" => arg'[c].jti = cache[Key(u)]
      /\ result'[c] \in {None, "denied", "raised", "simulated"}
      /\ result'[c] = "simulated" => kind = "python"
  BY <1>2, <1>4, <1>5, <1>8 DEF Return, Enforced
<1> HIDE DEF x
<1>9. Asked'
  BY <1>2, <1>4, <1>6, <1>7, <1>8 DEF Asked, Enforced
<1>10. ASSUME NEW t, NEW d \in Callers
       PROVE  (stage[d] = "asking" /\ token[d] = t /\ result[d] = "allowed") <=>
              (stage'[d] = "asking" /\ token'[d] = t /\ result'[d] = "allowed")
  BY <1>2, <1>4, <1>6, <1>7, <1>8
<1>11. \A t \in Tokens : Covered(t) <= Covered(t)'
  BY <1>1, <1>4, CallCovers
<1> QED
  BY <1>2, <1>9, <1>10, <1>11 DEF Waiting

LEMMA CallWaits ==
  ASSUME GuardTypeOK, Asked, NEW c \in Callers, Gate(c) \/ Spend(c) \/ Note(c),
         UNCHANGED guarding
  PROVE  /\ Asked' /\ \A t : Waiting(t)' = Waiting(t)
         /\ UNCHANGED <<threads, actions, born, limit>>
         /\ \A t \in Tokens : Covered(t) <= Covered(t)'
<1>1. ClientTypeOK /\ UNCHANGED <<kind, backend, mode, simulate, stage, token>>
  BY DEF GuardTypeOK, guarding, config
<1>2. pc[c] # "idle" /\ result[c] = None
  BY <1>1 DEF Gate, Spend, Note, ClientTypeOK
<1>3. None \notin {"allowed", "replay", "simulated"}
  BY ClientNoneAssumption DEF Answers
<1>4. UNCHANGED <<threads, actions, born, limit>> /\ \A t \in Tokens : Covered(t) <= Covered(t)'
  BY <1>1, CallCovers DEF Gate, Spend, Note, tokens
<1>5. CASE Return(c, "denied") \/ Return(c, "raised") \/ Return(c, "approval_required")
  BY <1>1, <1>2, <1>3, <1>4, <1>5, OthersKept DEF Return, ClientTypeOK
<1>6. CASE UNCHANGED <<arg, result>> /\ \E s : pc' = [pc EXCEPT ![c] = s]
  BY <1>1, <1>2, <1>3, <1>4, <1>6, OthersKept DEF ClientTypeOK
<1> QED
  BY <1>5, <1>6 DEF Gate, Spend, Note, AskApproval, Recorded, Unwritten, Proceed

LEMMA CountWaits ==
  ASSUME GuardTypeOK, Asked, Enforced, NEW c \in Callers, Count(c), UNCHANGED guarding
  PROVE  /\ Asked' /\ arg[c].jti \in Tokens
         /\ UNCHANGED <<threads, born, limit>>
         /\ \A t \in Tokens : Covered(t) <= Covered(t)'
         /\ \A t : \/ Waiting(t)' = Waiting(t)
                   \/ /\ t = arg[c].jti /\ Waiting(t)' = Waiting(t) \cup {c} /\ c \notin Waiting(t)
                      /\ AuditPath => Covered(t) + 1 <= Covered(t)'
         /\ actions' = [actions EXCEPT ![arg[c].jti] = read[c] + 1]
         /\ pc[c] = "count"
<1> DEFINE j == arg[c].jti
<1>1. ClientTypeOK /\ UNCHANGED <<kind, backend, mode, simulate, stage, token>>
  BY DEF GuardTypeOK, guarding, config
<1>2. pc[c] = "count" /\ result[c] = None /\ j \in Tokens
  BY <1>1 DEF Count, ClientTypeOK, Arguments
<1>3. None \notin {"allowed", "replay", "simulated"}
  BY ClientNoneAssumption DEF Answers
<1>4. UNCHANGED <<threads, born, limit>> /\ actions' = [actions EXCEPT ![j] = read[c] + 1]
  BY DEF Count, tokens
<1>5. pc \in [Callers -> Stages]
      /\ arg \in [Callers -> Arguments \cup {None}] /\ result \in [Callers -> Answers \cup {None}]
  BY <1>1 DEF ClientTypeOK
<1> HIDE DEF j
<1>8. /\ \A t \in Tokens : Covered(t) <= Covered(t)'
      /\ \/ Return(c, "raised")
         \/ /\ Return(c, "allowed")
            /\ AuditPath => \A t \in Tokens : t = j => Covered(t) + 1 <= Covered(t)'
  <2>1. PICK k \in Tokens : k = j
    BY <1>2
  <2>2. Logged(c, k)
    BY <2>1 DEF Count, j
  <2>3. /\ \A t \in Tokens : Covered(t) <= Covered(t)'
        /\ \/ Return(c, "raised")
           \/ /\ Return(c, "allowed")
              /\ AuditPath => \A t \in Tokens : t = k => Covered(t) + 1 <= Covered(t)'
    BY <1>1, <2>2, LoggedCovers
  <2> QED
    BY <2>1, <2>3
<1>6. CASE Return(c, "raised")
  <2>1. Asked' /\ \A t : Waiting(t)' = Waiting(t)
    BY <1>1, <1>2, <1>3, <1>5, <1>6, OthersKept DEF Return
  <2> QED
    BY <1>2, <1>4, <1>8, <2>1 DEF j
<1>7. CASE /\ Return(c, "allowed")
           /\ AuditPath => \A t \in Tokens : t = j => Covered(t) + 1 <= Covered(t)'
  <2>1. \A d \in Callers \ {c} : pc'[d] = pc[d] /\ result'[d] = result[d] /\ arg'[d] = arg[d]
    BY <1>5, <1>7 DEF Return
  <2>2. pc'[c] = "idle" /\ result'[c] = "allowed"
    BY <1>5, <1>7 DEF Return
  <2>3. stage[c] = "asking" => token[c] = j
    BY <1>2 DEF Asked, Enforced, j
  <2>4. Asked'
    BY <1>1, <2>1, <2>2 DEF Asked, Enforced
  <2>5. ASSUME NEW t
        PROVE  \/ Waiting(t)' = Waiting(t)
               \/ /\ t = j /\ Waiting(t)' = Waiting(t) \cup {c} /\ c \notin Waiting(t)
                  /\ AuditPath => Covered(t) + 1 <= Covered(t)'
    <3>1. CASE stage[c] = "asking" /\ t = j
      <4>1. Waiting(t)' = Waiting(t) \cup {c} /\ c \notin Waiting(t)
        BY <1>1, <1>2, <1>3, <1>5, <2>1, <2>2, <2>3, <3>1 DEF Waiting
      <4>2. AuditPath => Covered(t) + 1 <= Covered(t)'
        BY <1>2, <1>7, <3>1
      <4> QED
        BY <3>1, <4>1, <4>2
    <3>2. CASE ~(stage[c] = "asking" /\ t = j)
      BY <1>1, <1>2, <1>3, <2>1, <2>2, <2>3, <3>2 DEF Waiting
    <3> QED
      BY <3>1, <3>2
  <2> QED
    BY <1>2, <1>4, <1>8, <2>4, <2>5 DEF j
<1> QED
  BY <1>6, <1>7, <1>8

LEMMA HearWaits ==
  ASSUME GuardTypeOK, Asked, Enforced, NEW c \in Callers, HearClient(c)
  PROVE  /\ Asked' /\ tool[c] \in Listed /\ token[c] \in Tokens /\ stage[c] = "asking"
         /\ UNCHANGED <<backend, mode, kind, simulate, threads, cache, trail, actions, born, limit>>
         /\ \A d \in Callers : stage'[d] = "asking" =>
              stage[d] = "asking" /\ tool'[d] = tool[d] /\ token'[d] = token[d]
         /\ \A t : t # token[c] => Waiting(t)' = Waiting(t)
         /\ \/ /\ UNCHANGED <<runs, through>>
               /\ \A t : Waiting(t)' = Waiting(t)
            \/ /\ c \in Waiting(token[c])
               /\ \A t : t = token[c] => Waiting(t)' = Waiting(t) \ {c}
               /\ runs' = [runs EXCEPT ![tool[c]] = @ + 1]
               /\ through' = [through EXCEPT ![token[c]] = @ + 1]
<1>1. /\ result[c] # None /\ result' = [result EXCEPT ![c] = None] /\ stage[c] = "asking"
      /\ UNCHANGED <<pc, arg, backend, mode, kind, simulate, threads, cache, trail, actions, born, limit>>
      /\ tool' = [tool EXCEPT ![c] = None] /\ token' = [token EXCEPT ![c] = None]
  BY DEF HearClient, Read, Heard, config, tokens, memory
<1>2. /\ result \in [Callers -> Answers \cup {None}]
      /\ stage \in [Callers -> {"none", "asking", "allowed"}]
      /\ token \in [Callers -> Tokens \cup {None}] /\ tool \in [Callers -> Tools \cup {None}]
      /\ tool[c] \in Listed /\ token[c] \in Tokens
  BY <1>1 DEF GuardTypeOK, ClientTypeOK
<1>3. result[c] # "replay" /\ (result[c] = "simulated" => kind = "python")
  BY <1>1 DEF Asked, Enforced
<1>4. /\ stage' = [stage EXCEPT ![c] = IF result[c] = "allowed" THEN "allowed" ELSE "none"]
      /\ IF result[c] = "allowed"
         THEN /\ runs' = [runs EXCEPT ![tool[c]] = @ + 1]
              /\ through' = [through EXCEPT ![token[c]] = @ + 1]
         ELSE UNCHANGED <<runs, through>>
  BY <1>2, <1>3 DEF HearClient, Heard, Decide, Permits, Enforced
<1>5. \A d \in Callers \ {c} : /\ stage'[d] = stage[d] /\ tool'[d] = tool[d]
                               /\ token'[d] = token[d] /\ result'[d] = result[d]
  BY <1>1, <1>2, <1>4
<1>6. stage'[c] # "asking"
  BY <1>2, <1>4
<1>7. Asked'
  BY <1>1, <1>5, <1>6 DEF Asked, Enforced
<1>8. \A t : Waiting(t)' = Waiting(t) \ {c}
  BY <1>5, <1>6 DEF Waiting
<1>9. \A t : c \in Waiting(t) <=> t = token[c] /\ result[c] = "allowed"
  BY <1>1 DEF Waiting
<1>10. \A t : ~(t = token[c] /\ result[c] = "allowed") => Waiting(t)' = Waiting(t)
  <2> SUFFICES ASSUME NEW t, ~(t = token[c] /\ result[c] = "allowed")
               PROVE  Waiting(t)' = Waiting(t)
    OBVIOUS
  <2>1. c \notin Waiting(t) /\ Waiting(t)' = Waiting(t) \ {c}
    BY <1>8, <1>9
  <2> QED
    BY <2>1
<1>11. \A d \in Callers : stage'[d] = "asking" =>
         stage[d] = "asking" /\ tool'[d] = tool[d] /\ token'[d] = token[d]
  BY <1>5, <1>6
<1>12. CASE result[c] = "allowed"
  BY <1>1, <1>2, <1>4, <1>7, <1>8, <1>9, <1>10, <1>11, <1>12
<1>13. CASE result[c] # "allowed"
  BY <1>1, <1>2, <1>4, <1>7, <1>10, <1>11, <1>13
<1> QED
  BY <1>12, <1>13

\* The other steps, short of a restart, leave what is waiting alone.
QuietGuard ==
  \/ \E u \in Listed, t \in Tokens : Ensure(u, t)
  \/ \E c \in Callers : Run(c) \/ HostReads(c) \/ \E u \in Tools : CheckUnasked(c, u)
  \/ \E c \in Callers, x \in Arguments, dry \in BOOLEAN : HostCheck(c, x, dry)
  \/ /\ UNCHANGED guarding
     /\ \/ \E t \in Tokens : Revoke(t)
        \/ \E a \in Approvals, status \in {"approved", "rejected"} : Resolve(a, status)
  \/ UNCHANGED guardVars

LEMMA QuietWaits ==
  ASSUME GuardTypeOK, Asked, Enforced, QuietGuard
  PROVE  /\ Asked' /\ \A t : Waiting(t)' = Waiting(t)
         /\ UNCHANGED <<backend, mode, kind, simulate, threads, runs, through, actions>>
         /\ \A t \in Tokens : Covered(t) <= Covered(t)'
         /\ \A c \in Callers : stage'[c] = "asking" =>
              stage[c] = "asking" /\ tool'[c] = tool[c] /\ token'[c] = token[c]
         /\ \/ \E u \in Listed, t \in Tokens : Ensure(u, t)
            \/ UNCHANGED <<cache, born, limit>>
<1> DEFINE Goal ==
      /\ Asked' /\ \A t : Waiting(t)' = Waiting(t)
      /\ UNCHANGED <<backend, mode, kind, simulate, threads, runs, through, actions>>
      /\ \A t \in Tokens : Covered(t) <= Covered(t)'
      /\ \A c \in Callers : stage'[c] = "asking" =>
           stage[c] = "asking" /\ tool'[c] = tool[c] /\ token'[c] = token[c]
<1>1. ClientTypeOK /\ stage \in [Callers -> {"none", "asking", "allowed"}]
  BY DEF GuardTypeOK
<1>0. UNCHANGED trail => \A t \in Tokens : Covered(t) <= Covered(t)'
  BY <1>1, TearCovers
<1>2. ASSUME NEW u \in Listed, NEW t \in Tokens, Ensure(u, t)
      PROVE  Goal
  BY <1>0, <1>2 DEF Ensure, Grant, config, memory, Asked, Waiting, Enforced
<1>3. ASSUME UNCHANGED guarding, UNCHANGED <<threads, trail, actions, pc, arg, result>>
      PROVE  Goal
  BY <1>0, <1>3 DEF guarding, config, Asked, Waiting, Enforced
<1>4. ASSUME NEW c \in Callers, Run(c) \/ \E u \in Tools : CheckUnasked(c, u)
      PROVE  Goal /\ UNCHANGED <<cache, born, limit>>
  <2>1. /\ UNCHANGED <<backend, mode, kind, simulate, cache, tool, token, runs, through, born, limit>>
        /\ UNCHANGED <<threads, trail, actions, pc, arg, result>>
        /\ stage[c] # "asking"
    BY <1>4 DEF Run, CheckUnasked, config, clientVars, tokens, memory
  <2>2. \E s \in {"none", "allowed"} : stage' = [stage EXCEPT ![c] = s]
    BY <1>4 DEF Run, CheckUnasked, Decide
  <2>3. \A d \in Callers : stage'[d] = "asking" <=> stage[d] = "asking"
    BY <1>1, <2>1, <2>2
  <2> QED
    BY <1>0, <2>1, <2>3 DEF Asked, Waiting, Enforced
<1>5. ASSUME NEW c \in Callers, stage[c] = "none", UNCHANGED guarding,
             UNCHANGED <<threads, actions>>, \A t \in Tokens : Covered(t) <= Covered(t)',
             \A d \in Callers \ {c} :
               pc'[d] = pc[d] /\ result'[d] = result[d] /\ (pc[d] # "idle" => arg'[d] = arg[d])
      PROVE  Goal
  <2>1. Asked' /\ \A t : Waiting(t)' = Waiting(t)
    BY <1>5, OthersKept DEF guarding, config
  <2> QED
    BY <1>5, <2>1 DEF guarding, config
<1>6. ASSUME NEW c \in Callers, HostReads(c)
      PROVE  Goal /\ UNCHANGED <<cache, born, limit>>
  <2>1. /\ stage[c] = "none" /\ UNCHANGED guarding /\ UNCHANGED <<threads, trail, actions, born, limit>>
        /\ pc' = pc /\ arg' = arg /\ result' = [result EXCEPT ![c] = None]
    BY <1>6 DEF HostReads, Read, tokens, memory
  <2>2. \A d \in Callers \ {c} : result'[d] = result[d]
    BY <1>1, <2>1 DEF ClientTypeOK
  <2> QED
    BY <1>0, <1>5, <2>1, <2>2 DEF guarding
<1>7. ASSUME NEW c \in Callers, NEW x \in Arguments, NEW dry \in BOOLEAN, HostCheck(c, x, dry)
      PROVE  Goal /\ UNCHANGED <<cache, born, limit>>
  <2>1. /\ stage[c] = "none" /\ UNCHANGED guarding /\ UNCHANGED <<threads, actions, born, limit>>
        /\ \A t \in Tokens : Covered(t) <= Covered(t)'
    BY <1>1, <1>7, CallCovers DEF HostCheck, Check, tokens, memory
  <2>2. \/ /\ pc' = [pc EXCEPT ![c] = "gate"] /\ arg' = [arg EXCEPT ![c] = x] /\ result' = result
        \/ \E answer : Return(c, answer)
    BY <1>7 DEF HostCheck, Check, Recorded, Unwritten
  <2>3. \A d \in Callers \ {c} : pc'[d] = pc[d] /\ result'[d] = result[d] /\ arg'[d] = arg[d]
    BY <1>1, <2>2 DEF Return, ClientTypeOK
  <2> QED
    BY <1>5, <2>1, <2>3 DEF guarding
<1>8. ASSUME UNCHANGED guarding, NEW t \in Tokens, Revoke(t)
      PROVE  Goal /\ UNCHANGED <<cache, born, limit>>
  BY <1>3, <1>8 DEF Revoke, guarding, tokens
<1>9. ASSUME UNCHANGED guarding, NEW a \in Approvals, NEW status \in {"approved", "rejected"},
             Resolve(a, status)
      PROVE  Goal /\ UNCHANGED <<cache, born, limit>>
  BY <1>3, <1>9 DEF Resolve, guarding, tokens
<1>10. ASSUME UNCHANGED guardVars
       PROVE  Goal /\ UNCHANGED <<cache, born, limit>>
  BY <1>3, <1>10 DEF guardVars, clientVars, guarding, tokens, memory
<1> QED
  BY <1>2, <1>4, <1>6, <1>7, <1>8, <1>9, <1>10 DEF QuietGuard

LEMMA RestartWaits ==
  ASSUME GuardRestart
  PROVE  /\ Asked' /\ (\A t : Waiting(t)' = {})
         /\ UNCHANGED <<backend, mode, kind, simulate, threads, through, born, limit>>
         /\ Tear \/ UNCHANGED trail
         /\ cache' = [k \in Keys |-> None] /\ runs' = [u \in Listed |-> 0]
         /\ \A c \in Callers : stage'[c] = "none"
  BY DEF GuardRestart, Restart, Asked, Waiting, config, tokens, Enforced

\* The steps of a guard over the embedded client.
LEMMA EmbeddedCases ==
  ASSUME Enforced, [GuardNext]_guardVars
  PROVE  \/ \E c \in Callers, u \in Tools, p \in Payloads : Ask(c, u, p)
         \/ \E c \in Callers : HearClient(c)
         \/ UNCHANGED guarding /\ \E c \in Callers : Gate(c) \/ Spend(c) \/ Note(c)
         \/ UNCHANGED guarding /\ \E c \in Callers : Count(c)
         \/ GuardRestart
         \/ QuietGuard
  BY DEF GuardNext, ClientStep, HearGateway, Enforced, QuietGuard

-----------------------------------------------------------------------------
(* Every run is on file *)

\* What the guard was told to let through, heard or not, is accounted for.
OnFile ==
  Enforced /\ AuditPath =>
    \A t \in Tokens : through[t] + Cardinality(Waiting(t)) <= Covered(t)

FileInv == GuardTypeOK /\ Asked /\ OnFile

LEMMA FileInit == GuardInit => FileInv
<1> SUFFICES ASSUME GuardInit
             PROVE  Asked /\ OnFile
  BY GuardTypeInit DEF FileInv
<1>1. \A t : Waiting(t) = {}
  BY DEF GuardInit, Waiting
<1>2. \A t : Cardinality(Waiting(t)) = 0
  BY <1>1, FS_EmptySet
<1>3. \A t \in Tokens : through[t] = 0 /\ Covered(t) = 0
  BY DEF GuardInit, ClientInit, Covered
<1>4. \A c \in Callers : stage[c] = "none"
  BY DEF GuardInit
<1> QED
  BY <1>2, <1>3, <1>4 DEF Asked, OnFile

LEMMA FileStep == FileInv /\ [GuardNext]_guardVars => FileInv'
<1> SUFFICES ASSUME FileInv, [GuardNext]_guardVars
             PROVE  (Asked /\ OnFile)'
  BY GuardTypeStep DEF FileInv
<1>1. GuardTypeOK /\ Asked /\ OnFile /\ through \in [Tokens -> Nat] /\ ClientTypeOK
      /\ \A t \in Tokens : Covered(t) \in Int
  BY CoveredTyped DEF FileInv, GuardTypeOK
<1>0. ClientTypeOK' /\ \A t \in Tokens : Covered(t)' \in Int
  <2>1. ClientTypeOK'
    BY <1>1, GuardTypeStep DEF GuardTypeOK
  <2>2. ClientTypeOK' => \A t \in Tokens : Covered(t)' \in Int
    BY DEF Covered, ClientTypeOK
  <2> QED
    BY <2>1, <2>2
<1>2. UNCHANGED <<kind, backend, mode, simulate>>
  BY DEF GuardNext, Ensure, CheckUnasked, Ask, HearClient, HearGateway, Heard, Run, HostReads,
     HostCheck, ClientStep, GuardRestart, guardVars, guarding, config
<1>3. CASE ~Enforced
  BY <1>2, <1>3 DEF Asked, OnFile, Enforced
<1>4. CASE Enforced
  <2>1. AuditPath => \A t \in Tokens : through[t] + Cardinality(Waiting(t)) <= Covered(t)
    BY <1>1, <1>4 DEF OnFile
  <2>2. \A t : Cardinality(Waiting(t)) \in Nat /\ IsFiniteSet(Waiting(t))
    BY WaitingFinite
  <2>3. ASSUME Asked', UNCHANGED through, \A t : Waiting(t)' = Waiting(t),
               \A t \in Tokens : Covered(t) <= Covered(t)'
        PROVE  (Asked /\ OnFile)'
    BY <1>0, <1>1, <2>1, <2>2, <2>3 DEF OnFile
  <2>4. ASSUME NEW c \in Callers, NEW u \in Tools, NEW p \in Payloads, Ask(c, u, p)
        PROVE  (Asked /\ OnFile)'
    BY <1>1, <1>4, <2>3, <2>4, AskWaits
  <2>5. ASSUME NEW c \in Callers, HearClient(c)
        PROVE  (Asked /\ OnFile)'
    <3>1. /\ Asked' /\ token[c] \in Tokens /\ \A t \in Tokens : Covered(t) <= Covered(t)'
          /\ \A t : t # token[c] => Waiting(t)' = Waiting(t)
          /\ \/ /\ UNCHANGED through
                /\ \A t : Waiting(t)' = Waiting(t)
             \/ /\ c \in Waiting(token[c])
                /\ \A t : t = token[c] => Waiting(t)' = Waiting(t) \ {c}
                /\ through' = [through EXCEPT ![token[c]] = @ + 1]
      BY <1>1, <1>4, <2>5, HearWaits, TearCovers
    <3>2. CASE UNCHANGED through /\ \A t : Waiting(t)' = Waiting(t)
      BY <2>3, <3>1, <3>2
    <3>3. CASE /\ c \in Waiting(token[c])
               /\ \A t : t = token[c] => Waiting(t)' = Waiting(t) \ {c}
               /\ through' = [through EXCEPT ![token[c]] = @ + 1]
      <4>1. ASSUME NEW t \in Tokens
            PROVE  AuditPath => through'[t] + Cardinality(Waiting(t)') <= Covered(t)'
        <5>1. CASE t # token[c]
          BY <1>0, <1>1, <2>1, <2>2, <3>1, <3>3, <5>1
        <5>2. CASE t = token[c]
          <6>1. Cardinality(Waiting(t)') = Cardinality(Waiting(t)) - 1
            BY <2>2, <3>3, <5>2, FS_RemoveElement
          <6> QED
            BY <1>0, <1>1, <2>1, <2>2, <3>1, <3>3, <5>2, <6>1
        <5> QED
          BY <5>1, <5>2
      <4> QED
        BY <3>1, <4>1 DEF OnFile
    <3> QED
      BY <3>1, <3>2, <3>3
  <2>6. ASSUME UNCHANGED guarding, NEW c \in Callers, Gate(c) \/ Spend(c) \/ Note(c)
        PROVE  (Asked /\ OnFile)'
    BY <1>1, <2>3, <2>6, CallWaits DEF guarding
  <2>7. ASSUME UNCHANGED guarding, NEW c \in Callers, Count(c)
        PROVE  (Asked /\ OnFile)'
    <3>1. /\ Asked' /\ UNCHANGED through
          /\ \A t \in Tokens : Covered(t) <= Covered(t)'
          /\ \A t : \/ Waiting(t)' = Waiting(t)
                    \/ /\ Waiting(t)' = Waiting(t) \cup {c} /\ c \notin Waiting(t)
                       /\ AuditPath => Covered(t) + 1 <= Covered(t)'
      BY <1>1, <1>4, <2>7, CountWaits DEF guarding
    <3>2. ASSUME NEW t \in Tokens
          PROVE  AuditPath => through'[t] + Cardinality(Waiting(t)') <= Covered(t)'
      <4>1. CASE Waiting(t)' = Waiting(t)
        BY <1>0, <1>1, <2>1, <2>2, <3>1, <4>1
      <4>2. CASE /\ Waiting(t)' = Waiting(t) \cup {c} /\ c \notin Waiting(t)
                 /\ AuditPath => Covered(t) + 1 <= Covered(t)'
        <5>1. Cardinality(Waiting(t)') = Cardinality(Waiting(t)) + 1
          BY <2>2, <4>2, FS_AddElement
        <5> QED
          BY <1>0, <1>1, <2>1, <2>2, <3>1, <4>2, <5>1
      <4> QED
        BY <3>1, <4>1, <4>2
    <3> QED
      BY <3>1, <3>2 DEF OnFile
  <2>8. CASE GuardRestart
    <3>1. /\ Asked' /\ UNCHANGED through /\ \A t : Waiting(t)' = {}
          /\ \A t \in Tokens : Covered(t) <= Covered(t)'
      BY <1>1, <2>8, RestartWaits, TearCovers
    <3>2. AuditPath => \A t \in Tokens : through[t] <= Covered(t)
      BY <1>1, <2>1, <2>2
    <3>3. Cardinality({}) = 0
      BY FS_EmptySet
    <3> QED
      BY <1>0, <1>1, <3>1, <3>2, <3>3 DEF OnFile
  <2>9. CASE QuietGuard
    BY <1>1, <1>4, <2>3, <2>9, QuietWaits
  <2> QED
    BY <1>4, <2>4, <2>5, <2>6, <2>7, <2>8, <2>9, EmbeddedCases
<1> QED
  BY <1>3, <1>4

\* Over the embedded client with an audit file, all tool calls that get through
\* an enforcing guard have a readable ALLOW of their own, but one for each line
\* cut short, with threads, failing writes and restarts; unless a guard that
\* takes a dry run for a permission is set up to ask for one.
THEOREM GuardRunsOnFile == GuardSpec => []RunsOnFile
<1>1. FileInv => RunsOnFile
  <2> SUFFICES ASSUME FileInv, AuditPath, Enforced, NEW t \in Tokens
               PROVE  through[t] <= file[t] + tears
    BY DEF RunsOnFile, Enforced
  <2>1. through[t] + Cardinality(Waiting(t)) <= Covered(t)
    BY DEF FileInv, OnFile
  <2>2. /\ through[t] \in Nat /\ Cardinality(Waiting(t)) \in Nat
        /\ Covered(t) \in Int /\ Covered(t) <= file[t] + tears
        /\ file[t] + tears \in Int
    BY WaitingFinite, CoveredTyped DEF FileInv, GuardTypeOK, ClientTypeOK
  <2> QED
    BY <2>1, <2>2
<1> QED
  BY <1>1, FileInit, FileStep, PTL DEF GuardSpec

-----------------------------------------------------------------------------
(* The tools of an MCP guard stay within their limits *)

PythonGuard == Enforced /\ kind = "python"

\* A tool keeps its one token until the process ends, and its counter tells of
\* every call let through.
Kept ==
  PythonGuard =>
    /\ ~threads
    /\ \A u \in Listed : cache[u] = None => runs[u] = 0
    /\ \A u \in Listed : cache[u] # None =>
         /\ born[cache[u]] > 0 /\ limit[cache[u]] = MaxActions[u]
         /\ runs[u] + Cardinality(Waiting(cache[u])) <= actions[cache[u]]
    /\ \A u, v \in Listed : cache[u] = cache[v] /\ cache[u] # None => u = v
    /\ \A c \in Callers : stage[c] = "asking" =>
         cache[tool[c]] # None /\ token[c] = cache[tool[c]]

LimitsInv == GuardTypeOK /\ Asked /\ OneAtATime /\ WithinLimit /\ Kept

LEMMA LimitsInit == GuardInit => LimitsInv
<1> SUFFICES ASSUME GuardInit
             PROVE  Kept
  BY FileInit, ApprovalInit, WithinLimitInit DEF LimitsInv, FileInv, GuardInit, ApprovalInv
<1>1. PICK d \in Deployments : kind = d.kind /\ threads = d.threads
  BY DEF GuardInit
<1>2. kind = "python" => ~threads
  BY <1>1, DeploymentsAssumption DEF GuardInit, ClientInit
<1>3. \A u \in Listed : u \in Keys
  BY ToolsAssumption DEF Keys
<1> QED
  BY <1>2, <1>3 DEF GuardInit, Kept, PythonGuard

\* Nothing changes for a guard that is kept and a counter that does not fall.
LEMMA KeptKept ==
  ASSUME LimitsInv, UNCHANGED <<kind, backend, mode, threads, cache, born, limit, runs, actions>>,
         \A t : Waiting(t)' = Waiting(t),
         \A c \in Callers : stage'[c] = "asking" =>
           stage[c] = "asking" /\ tool'[c] = tool[c] /\ token'[c] = token[c]
  PROVE  Kept'
<1>1. CASE ~PythonGuard
  BY <1>1 DEF Kept, PythonGuard, Enforced
<1>2. CASE PythonGuard
  <2>1. \A u \in Listed : Waiting(cache[u])' = Waiting(cache[u])
    OBVIOUS
  <2> QED
    BY <1>2, <2>1 DEF LimitsInv, Kept
<1> QED
  BY <1>1, <1>2

LEMMA KeptEnsure ==
  ASSUME LimitsInv, PythonGuard, NEW u \in Listed, NEW t \in Tokens, Ensure(u, t)
  PROVE  Kept'
<1>1. /\ Key(u) = u /\ u \in Keys /\ MaxActions[u] \in Limits
  BY ToolsAssumption DEF PythonGuard, Key, Keys
<1>2. /\ cache[u] = None /\ cache' = [cache EXCEPT ![u] = t]
      /\ born[t] = 0 /\ born' = [born EXCEPT ![t] = life]
      /\ limit' = [limit EXCEPT ![t] = MaxActions[u]]
      /\ UNCHANGED <<kind, backend, mode, threads, tool, token, stage, runs, actions, result>>
  BY <1>1 DEF Ensure, Grant, config, memory
<1>3. /\ born \in [Tokens -> 0..MaxLives] /\ limit \in [Tokens -> Limits \cup {None}]
      /\ life \in 1..MaxLives /\ cache \in [Keys -> Tokens \cup {None}] /\ MaxLives \in Nat
      /\ actions \in [Tokens -> Nat] /\ None \notin Tokens /\ runs \in [Listed -> Nat]
  BY ClientNoneAssumption, BoundsAssumption DEF LimitsInv, GuardTypeOK, ClientTypeOK
<1>4. \A v \in Listed : v \in Keys
  BY ToolsAssumption DEF Keys
<1>5. /\ ~threads /\ runs[u] = 0
      /\ \A v \in Listed : cache[v] = None => runs[v] = 0
      /\ \A v \in Listed : cache[v] # None =>
           /\ born[cache[v]] > 0 /\ limit[cache[v]] = MaxActions[v]
           /\ runs[v] + Cardinality(Waiting(cache[v])) <= actions[cache[v]]
      /\ \A v, w \in Listed : cache[v] = cache[w] /\ cache[v] # None => v = w
      /\ \A c \in Callers : stage[c] = "asking" =>
           cache[tool[c]] # None /\ token[c] = cache[tool[c]]
      /\ \A c \in Callers : stage[c] = "asking" => tool[c] \in Listed
  BY <1>2 DEF LimitsInv, Kept, GuardTypeOK
<1>6. \A v \in Listed : cache[v] # t
  BY <1>2, <1>3, <1>5
<1>7. \A j : Waiting(j)' = Waiting(j)
  BY <1>2 DEF Waiting
<1>8. Waiting(t) = {}
  <2>1. \A c \in Callers : ~(stage[c] = "asking" /\ token[c] = t)
    <3> SUFFICES ASSUME NEW c \in Callers, stage[c] = "asking", token[c] = t
                 PROVE  FALSE
      OBVIOUS
    <3>1. token[c] = cache[tool[c]] /\ tool[c] \in Listed
      BY <1>5
    <3> QED
      BY <1>6, <3>1
  <2> QED
    BY <2>1 DEF Waiting
<1>9. \A v \in Listed \ {u} : cache'[v] = cache[v]
  BY <1>2, <1>3, <1>4
<1>10. cache'[u] = t
  BY <1>1, <1>2, <1>3
<1>11. \A v \in Listed : cache'[v] # None =>
         /\ born'[cache'[v]] > 0 /\ limit'[cache'[v]] = MaxActions[v]
         /\ runs'[v] + Cardinality(Waiting(cache[v])') <= actions'[cache'[v]]
  <2> SUFFICES ASSUME NEW v \in Listed, cache'[v] # None
               PROVE  /\ born'[cache'[v]] > 0 /\ limit'[cache'[v]] = MaxActions[v]
                      /\ runs'[v] + Cardinality(Waiting(cache[v])') <= actions'[cache'[v]]
    OBVIOUS
  <2>1. CASE v = u
    <3>1. Cardinality(Waiting(t)) = 0
      BY <1>8, FS_EmptySet
    <3>2. Waiting(cache[v])' = Waiting(t)
      BY <1>7, <1>10, <2>1
    <3> QED
      BY <1>2, <1>3, <1>5, <1>10, <2>1, <3>1, <3>2
  <2>2. CASE v # u
    <3>1. cache'[v] = cache[v] /\ cache[v] \in Tokens /\ cache[v] # t
      BY <1>3, <1>4, <1>6, <1>9, <2>2
    <3>2. Waiting(cache[v])' = Waiting(cache[v])
      BY <1>7, <3>1
    <3> QED
      BY <1>2, <1>3, <1>5, <2>2, <3>1, <3>2
  <2> QED
    BY <2>1, <2>2
<1>12. \A v \in Listed : cache'[v] = None => runs'[v] = 0
  BY <1>2, <1>3, <1>5, <1>9, <1>10
<1>13. \A v, w \in Listed : cache'[v] = cache'[w] /\ cache'[v] # None => v = w
  BY <1>5, <1>6, <1>9, <1>10
<1>14. \A c \in Callers : stage'[c] = "asking" =>
         cache'[tool'[c]] # None /\ token'[c] = cache'[tool'[c]]
  BY <1>2, <1>5, <1>9
<1> QED
  BY <1>2, <1>5, <1>11, <1>12, <1>13, <1>14 DEF Kept

LEMMA KeptAsk ==
  ASSUME LimitsInv, PythonGuard, NEW c \in Callers, NEW u \in Tools, NEW p \in Payloads,
         Ask(c, u, p)
  PROVE  Kept'
<1>1. GuardTypeOK /\ Asked /\ Enforced /\ Key(u) = u
  BY DEF LimitsInv, PythonGuard, Key
<1>2. /\ \A t : Waiting(t)' = Waiting(t)
      /\ UNCHANGED <<backend, mode, kind, simulate, threads, cache, runs, actions, born, limit>>
      /\ tool' = [tool EXCEPT ![c] = u] /\ u \in Listed
      /\ token' = [token EXCEPT ![c] = cache[u]]
      /\ stage' = [stage EXCEPT ![c] = "asking"]
  BY <1>1, AskWaits
<1>3. cache[u] # None
  BY <1>1, <1>2 DEF Ask, Ready
<1>4. \A v \in Listed : Waiting(cache[v])' = Waiting(cache[v])
  BY <1>2
<1>5. tool \in [Callers -> Tools \cup {None}] /\ token \in [Callers -> Tokens \cup {None}]
      /\ stage \in [Callers -> {"none", "asking", "allowed"}]
  BY <1>1 DEF GuardTypeOK
<1>6. \A d \in Callers : stage'[d] = "asking" =>
        cache'[tool'[d]] # None /\ token'[d] = cache'[tool'[d]]
  BY <1>2, <1>3, <1>5 DEF LimitsInv, Kept
<1> QED
  BY <1>2, <1>4, <1>6 DEF LimitsInv, Kept

LEMMA KeptHear ==
  ASSUME LimitsInv, PythonGuard, NEW c \in Callers, HearClient(c)
  PROVE  Kept'
<1>1. GuardTypeOK /\ Asked /\ Enforced
  BY DEF LimitsInv, PythonGuard
<1>2. /\ tool[c] \in Listed /\ token[c] \in Tokens /\ stage[c] = "asking"
      /\ UNCHANGED <<backend, mode, kind, simulate, threads, cache, actions, born, limit>>
      /\ \A d \in Callers : stage'[d] = "asking" =>
           stage[d] = "asking" /\ tool'[d] = tool[d] /\ token'[d] = token[d]
      /\ \A t : t # token[c] => Waiting(t)' = Waiting(t)
      /\ \/ /\ UNCHANGED <<runs, through>>
            /\ \A t : Waiting(t)' = Waiting(t)
         \/ /\ c \in Waiting(token[c])
            /\ \A t : t = token[c] => Waiting(t)' = Waiting(t) \ {c}
            /\ runs' = [runs EXCEPT ![tool[c]] = @ + 1]
            /\ through' = [through EXCEPT ![token[c]] = @ + 1]
  BY <1>1, HearWaits
<1>3. CASE UNCHANGED runs /\ \A t : Waiting(t)' = Waiting(t)
  BY <1>2, <1>3, KeptKept
<1>4. CASE /\ c \in Waiting(token[c])
           /\ \A t : t = token[c] => Waiting(t)' = Waiting(t) \ {c}
           /\ runs' = [runs EXCEPT ![tool[c]] = @ + 1]
  <2>1. /\ cache[tool[c]] # None /\ token[c] = cache[tool[c]]
        /\ \A u \in Listed : cache[u] = None => runs[u] = 0
        /\ \A u \in Listed : cache[u] # None =>
             /\ born[cache[u]] > 0 /\ limit[cache[u]] = MaxActions[u]
             /\ runs[u] + Cardinality(Waiting(cache[u])) <= actions[cache[u]]
        /\ \A u, v \in Listed : cache[u] = cache[v] /\ cache[u] # None => u = v
    BY <1>2 DEF LimitsInv, Kept
  <2>2. runs \in [Listed -> Nat] /\ actions \in [Tokens -> Nat]
    BY <1>1 DEF GuardTypeOK, ClientTypeOK
  <2>3. ASSUME NEW u \in Listed, cache[u] # None
        PROVE  runs'[u] + Cardinality(Waiting(cache[u])') <= actions[cache[u]]
    <3>1. CASE u = tool[c]
      <4>1. Cardinality(Waiting(cache[u])') = Cardinality(Waiting(cache[u])) - 1
        <5>1. cache[u] = token[c] /\ UNCHANGED cache
          BY <1>2, <2>1, <3>1
        <5>2. Waiting(cache[u])' = Waiting(cache[u]) \ {c} /\ c \in Waiting(cache[u])
          BY <1>4, <5>1
        <5> QED
          BY <5>2, WaitingFinite, FS_RemoveElement
      <4>2. Cardinality(Waiting(cache[u])) \in Nat
        BY WaitingFinite
      <4>3. runs'[u] = runs[u] + 1 /\ runs[u] \in Nat
        BY <1>4, <2>2, <3>1
      <4> QED
        BY <2>1, <2>3, <4>1, <4>2, <4>3
    <3>2. CASE u # tool[c]
      <4>1. cache[u] # token[c]
        BY <1>2, <2>1, <2>3, <3>2
      <4>2. Waiting(cache[u])' = Waiting(cache[u])
        BY <1>2, <4>1
      <4>3. runs'[u] = runs[u]
        BY <1>4, <2>2, <3>2
      <4> QED
        BY <2>1, <2>3, <4>2, <4>3
    <3> QED
      BY <3>1, <3>2
  <2>4. \A u \in Listed : cache[u] = None => runs'[u] = 0
    BY <1>2, <1>4, <2>1, <2>2
  <2> QED
    BY <1>2, <2>1, <2>3, <2>4 DEF LimitsInv, Kept
<1> QED
  BY <1>2, <1>3, <1>4

LEMMA KeptCount ==
  ASSUME LimitsInv, PythonGuard, NEW c \in Callers, Count(c), UNCHANGED guarding
  PROVE  Kept'
<1> DEFINE j == arg[c].jti
<1>1. GuardTypeOK /\ Asked /\ Enforced
  BY DEF LimitsInv, PythonGuard
<1>2. /\ j \in Tokens /\ UNCHANGED <<threads, born, limit>>
      /\ \A t : \/ Waiting(t)' = Waiting(t)
                \/ t = j /\ Waiting(t)' = Waiting(t) \cup {c} /\ c \notin Waiting(t)
      /\ actions' = [actions EXCEPT ![j] = read[c] + 1]
      /\ pc[c] = "count"
  BY <1>1, CountWaits
<1>3. UNCHANGED <<kind, backend, mode, cache, tool, token, stage, runs>>
  BY DEF guarding, config
<1>4. ~threads
  BY DEF LimitsInv, Kept
<1>5. read[c] = actions[j]
  BY <1>2, <1>4 DEF LimitsInv, WithinLimit
<1>6. actions \in [Tokens -> Nat] /\ runs \in [Listed -> Nat]
      /\ \A u \in Listed : cache[u] # None => cache[u] \in Tokens
  BY <1>1, ToolsAssumption DEF GuardTypeOK, ClientTypeOK, Keys
<1> HIDE DEF j
<1>7. ASSUME NEW u \in Listed, cache[u] # None
      PROVE  runs[u] + Cardinality(Waiting(cache[u])') <= actions'[cache[u]]
  <2>0. runs[u] + Cardinality(Waiting(cache[u])) <= actions[cache[u]] /\ cache[u] \in Tokens
    BY <1>6, <1>7 DEF LimitsInv, Kept
  <2>1. Cardinality(Waiting(cache[u])) \in Nat /\ IsFiniteSet(Waiting(cache[u]))
    BY WaitingFinite
  <2>2. CASE Waiting(cache[u])' = Waiting(cache[u])
    <3>1. actions[cache[u]] <= actions'[cache[u]]
      BY <1>2, <1>5, <1>6, <2>0
    <3> QED
      BY <1>2, <1>5, <1>6, <2>0, <2>1, <2>2, <3>1
  <2>3. CASE /\ cache[u] = j /\ Waiting(cache[u])' = Waiting(cache[u]) \cup {c}
             /\ c \notin Waiting(cache[u])
    <3>1. Cardinality(Waiting(cache[u])') = Cardinality(Waiting(cache[u])) + 1
      BY <2>1, <2>3, FS_AddElement
    <3>2. actions'[cache[u]] = actions[cache[u]] + 1
      BY <1>2, <1>5, <1>6, <2>0, <2>3
    <3> QED
      BY <1>6, <2>0, <2>1, <3>1, <3>2
  <2> QED
    BY <1>2, <1>3, <2>2, <2>3
<1> QED
  BY <1>2, <1>3, <1>7 DEF LimitsInv, Kept

LEMMA KeptStep == LimitsInv /\ [GuardNext]_guardVars => Kept'
<1> SUFFICES ASSUME LimitsInv, [GuardNext]_guardVars
             PROVE  Kept'
  OBVIOUS
<1>1. UNCHANGED <<backend, mode, kind>>
  BY DEF GuardNext, Ensure, CheckUnasked, Ask, HearClient, HearGateway, Heard, Run, HostReads,
     HostCheck, ClientStep, GuardRestart, guardVars, guarding, config
<1>2. CASE ~PythonGuard
  BY <1>1, <1>2 DEF Kept, PythonGuard, Enforced
<1>3. CASE PythonGuard
  <2>0. GuardTypeOK /\ Asked /\ Enforced
    BY <1>3 DEF LimitsInv, PythonGuard
  <2>1. ASSUME UNCHANGED guarding, NEW c \in Callers, Gate(c) \/ Spend(c) \/ Note(c)
        PROVE  Kept'
    BY <2>0, <2>1, CallWaits, KeptKept DEF guarding, config
  <2>2. CASE QuietGuard
    BY <1>3, <2>0, <2>2, QuietWaits, KeptKept, KeptEnsure
  <2>3. CASE GuardRestart
    <3>1. /\ UNCHANGED threads /\ cache' = [k \in Keys |-> None] /\ runs' = [u \in Listed |-> 0]
          /\ \A c \in Callers : stage'[c] = "none"
      BY <2>3, RestartWaits
    <3>2. \A u \in Listed : u \in Keys
      BY ToolsAssumption DEF Keys
    <3> QED
      BY <1>3, <3>1, <3>2 DEF LimitsInv, Kept
  <2> QED
    BY <1>3, <2>0, <2>1, <2>2, <2>3, KeptAsk, KeptHear, KeptCount, EmbeddedCases
<1> QED
  BY <1>2, <1>3

LEMMA LimitsStep ==
  LimitsInv /\ FileInv' /\ ApprovalInv' /\ [GuardNext]_guardVars => LimitsInv'
<1> SUFFICES ASSUME LimitsInv, FileInv', ApprovalInv', [GuardNext]_guardVars
             PROVE  LimitsInv'
  OBVIOUS
<1>1. [ClientNext]_clientVars
  BY GuardStep DEF LimitsInv
<1>2. WithinLimit'
  BY <1>1, WithinLimitStep DEF LimitsInv, LimitInv, GuardTypeOK
<1> QED
  BY <1>2, KeptStep DEF LimitsInv, FileInv, ApprovalInv

\* An enforcing MCP guard over the embedded client lets no tool run more than
\* its max_actions in one life of the process, however many callers it has and
\* whatever the host does with its tokens.
THEOREM GuardRunsWithinLimit == GuardSpec => []RunsWithinLimit
<1>1. LimitsInv => RunsWithinLimit
  <2> SUFFICES ASSUME LimitsInv, PythonGuard, NEW u \in Listed, MaxActions[u] # Unlimited
               PROVE  runs[u] <= MaxActions[u]
    BY DEF RunsWithinLimit, PythonGuard, Enforced
  <2>1. /\ MaxActions[u] \in Nat /\ runs[u] \in Nat
        /\ cache[u] # None => cache[u] \in Tokens
        /\ actions \in [Tokens -> Nat]
    <3>1. u \in Keys
      BY ToolsAssumption DEF Keys
    <3>2. MaxActions[u] \in Limits
      BY ToolsAssumption
    <3>3. /\ runs \in [Listed -> Nat] /\ actions \in [Tokens -> Nat]
          /\ cache \in [Keys -> Tokens \cup {None}]
      BY DEF LimitsInv, GuardTypeOK, ClientTypeOK
    <3> QED
      BY <3>1, <3>2, <3>3, LimitsAssumption
  <2>2. CASE cache[u] = None
    BY <2>1, <2>2 DEF LimitsInv, Kept
  <2>3. CASE cache[u] # None
    <3>1. /\ ~threads /\ born[cache[u]] > 0 /\ limit[cache[u]] = MaxActions[u]
          /\ runs[u] + Cardinality(Waiting(cache[u])) <= actions[cache[u]]
      BY <2>3 DEF LimitsInv, Kept
    <3>2. actions[cache[u]] <= MaxActions[u]
      BY <2>1, <2>3, <3>1 DEF LimitsInv, WithinLimit
    <3>3. Cardinality(Waiting(cache[u])) \in Nat
      BY WaitingFinite
    <3> QED
      BY <2>1, <2>3, <3>1, <3>2, <3>3
  <2> QED
    BY <2>2, <2>3
<1>2. GuardSpec => []FileInv
  BY FileInit, FileStep, PTL DEF GuardSpec
<1>3. GuardSpec => []ApprovalInv
  BY GuardImplementsClient, ApprovalInit, ApprovalStep, PTL DEF ClientSpec
<1> QED
  BY <1>1, <1>2, <1>3, LimitsInit, LimitsStep, PTL DEF GuardSpec
=============================================================================
