-------------------------- MODULE RuntimeFilesProofs --------------------------
(***************************************************************************)
(* Proofs about RuntimeFiles: types, what a reviewer was told, the order   *)
(* and the validity of the hash chain, the loss an interrupted append can  *)
(* cause, the event behind every approval request, and the completeness of *)
(* a log that verifies.                                                    *)
(***************************************************************************)
EXTENDS RuntimeFiles, FiniteSetTheorems, SequenceTheorems, TLAPS

-----------------------------------------------------------------------------
(* Types *)

LEMMA NextEventType ==
  ASSUME AuditTypeOK
  PROVE  /\ NextEvent \in AuditEvent
         /\ NextBody \in Body
         /\ NextEvent.seq = sequence + 1 /\ NextEvent.time = clock
         /\ NextEvent.id = issued + 1 /\ NextEvent.prev = tip
         /\ NextEvent.hash = EventHash(tip, BodyOf(NextEvent))
  BY DEF AuditTypeOK, NextEvent, NextBody, AuditEvent, Body, Hash, EventHash, BodyOf

LEMMA EventsTyped ==
  ASSUME NEW s \in Seq(AuditEvent)
  PROVE  \A i \in 1..Len(s) :
           /\ s[i] \in AuditEvent
           /\ s[i].id \in Nat /\ s[i].time \in Nat /\ s[i].seq \in Nat
           /\ s[i].prev \in Hash /\ s[i].hash \in Hash
<1> SUFFICES ASSUME NEW i \in 1..Len(s)
             PROVE  /\ s[i] \in AuditEvent
                    /\ s[i].id \in Nat /\ s[i].time \in Nat /\ s[i].seq \in Nat
                    /\ s[i].prev \in Hash /\ s[i].hash \in Hash
  OBVIOUS
<1>1. s[i] \in AuditEvent
  OBVIOUS
<1> QED
  BY <1>1 DEF AuditEvent

\* Newest names an event of a log that is not empty.
LEMMA NewestIn ==
  ASSUME NEW s \in Seq(AuditEvent), Increasing(s), s # <<>>
  PROVE  Newest(s) = Len(s) /\ Len(s) \in 1..Len(s)
<1>1. Len(s) \in Nat /\ Len(s) # 0 /\ Len(s) \in 1..Len(s)
  OBVIOUS
<1>2. \A i \in 1..Len(s) : s[i].seq \in Nat
  BY EventsTyped
<1>3. \A j \in 1..Len(s) :
        s[j].seq < s[Len(s)].seq \/ (s[j].seq = s[Len(s)].seq /\ j <= Len(s))
  BY <1>1, <1>2 DEF Increasing
<1>4. \A i \in 1..Len(s) :
        (\A j \in 1..Len(s) : s[j].seq < s[i].seq \/ (s[j].seq = s[i].seq /\ j <= i))
          => i = Len(s)
  <2> SUFFICES ASSUME NEW i \in 1..Len(s), i # Len(s),
                      s[Len(s)].seq < s[i].seq \/ (s[Len(s)].seq = s[i].seq /\ Len(s) <= i)
               PROVE  FALSE
    BY <1>1
  <2>1. s[i].seq < s[Len(s)].seq
    BY <1>1 DEF Increasing
  <2> QED
    BY <2>1, <1>1, <1>2
<1> QED
  BY <1>1, <1>3, <1>4 DEF Newest

\* A log without its last event.
LEMMA KeptType ==
  ASSUME AuditTypeOK
  PROVE  /\ Kept \in Seq(AuditEvent)
         /\ Len(Kept) <= Len(lines)
         /\ \A i \in 1..Len(Kept) : i \in 1..Len(lines) /\ Kept[i] = lines[i]
         /\ tail # "whole" => Kept = lines
         /\ tail = "whole" => Len(Kept) = Len(lines) - 1 /\ Len(lines) \in 1..Len(lines)
<1>1. lines \in Seq(AuditEvent) /\ (tail = "whole" => lines # <<>>)
  BY DEF AuditTypeOK
<1>2. CASE tail = "whole"
  <2>1. Kept = SubSeq(lines, 1, Len(lines) - 1)
    BY <1>2 DEF Kept
  <2>2. Len(lines) \in Nat /\ Len(lines) >= 1
    BY <1>1, <1>2
  <2>3. \A i \in 1..(Len(lines) - 1) : lines[i] \in AuditEvent
    BY <1>1, <2>2
  <2>4. /\ SubSeq(lines, 1, Len(lines) - 1) \in Seq(AuditEvent)
        /\ Len(SubSeq(lines, 1, Len(lines) - 1))
             = IF 1 <= Len(lines) - 1 THEN Len(lines) - 1 - 1 + 1 ELSE 0
        /\ \A i \in 1..(Len(lines) - 1 - 1 + 1) :
             SubSeq(lines, 1, Len(lines) - 1)[i] = lines[1 + i - 1]
    <3>1. 1 \in Int /\ Len(lines) - 1 \in Int
      BY <2>2
    <3> HIDE DEF AuditEvent
    <3> QED
      BY <2>3, <3>1, SubSeqProperties
  <2>5. Len(Kept) = Len(lines) - 1
    <3>1. \A n \in Nat : n >= 1 => (IF 1 <= n - 1 THEN n - 1 - 1 + 1 ELSE 0) = n - 1
      OBVIOUS
    <3>2. (IF 1 <= Len(lines) - 1 THEN Len(lines) - 1 - 1 + 1 ELSE 0) = Len(lines) - 1
      BY <2>2, <3>1
    <3>3. Len(SubSeq(lines, 1, Len(lines) - 1)) = Len(lines) - 1
      BY <2>4, <3>2
    <3> QED
      BY <2>1, <3>3
  <2>6. \A i \in 1..Len(Kept) : i \in 1..Len(lines) /\ Kept[i] = lines[i]
    <3> SUFFICES ASSUME NEW i \in 1..Len(Kept)
                 PROVE  i \in 1..Len(lines) /\ Kept[i] = lines[i]
      OBVIOUS
    <3>1. i \in 1..(Len(lines) - 1 - 1 + 1) /\ 1 + i - 1 = i
      BY <2>2, <2>5
    <3>2. Kept[i] = lines[1 + i - 1]
      BY <3>1, <2>1, <2>4
    <3> QED
      BY <2>2, <3>1, <3>2
  <2> QED
    BY <1>2, <2>1, <2>2, <2>4, <2>5, <2>6
<1>3. CASE tail # "whole"
  BY <1>1, <1>3 DEF Kept
<1> QED
  BY <1>2, <1>3

\* What the order of the log has to do with its tip.
Tipped ==
  /\ log = <<>> => tip = Genesis /\ sequence = 0
  /\ log # <<>> => tip = log[Len(log)].hash /\ sequence = log[Len(log)].seq
  /\ up => \A i \in 1..Len(lines) : lines[i].seq <= sequence
  /\ \A i \in 1..Len(log) : log[i].seq <= sequence
  /\ Increasing(log)
  /\ Increasing(lines)

OrderInv == TypeOK /\ Tipped

LEMMA AppendIncreasing ==
  ASSUME NEW s \in Seq(AuditEvent), NEW e \in AuditEvent, Increasing(s),
         \A i \in 1..Len(s) : s[i].seq < e.seq
  PROVE  /\ Increasing(Append(s, e))
         /\ Append(s, e) \in Seq(AuditEvent)
         /\ Append(s, e) # <<>>
         /\ Append(s, e)[Len(Append(s, e))] = e
         /\ \A i \in 1..Len(Append(s, e)) : Append(s, e)[i].seq <= e.seq
<1>1. /\ Append(s, e) \in Seq(AuditEvent) /\ Append(s, e) # <<>>
      /\ Len(Append(s, e)) = Len(s) + 1 /\ Append(s, e)[Len(s) + 1] = e
      /\ \A i \in 1..Len(s) : Append(s, e)[i] = s[i]
  BY AppendProperties
<1>2. Len(s) \in Nat /\ e.seq \in Nat /\ \A i \in 1..Len(s) : s[i].seq \in Nat
  <2>1. e.seq \in Nat
    BY DEF AuditEvent
  <2>2. Len(s) \in Nat
    OBVIOUS
  <2> QED
    BY <2>1, <2>2, EventsTyped
<1>3. \A i \in 1..Len(Append(s, e)) : i \in 1..Len(s) \/ i = Len(s) + 1
  BY <1>1, <1>2
<1>4. Increasing(Append(s, e))
  BY <1>1, <1>2, <1>3 DEF Increasing
<1>5. \A i \in 1..Len(Append(s, e)) : Append(s, e)[i].seq <= e.seq
  BY <1>1, <1>2, <1>3
<1> QED
  BY <1>1, <1>4, <1>5

LEMMA OrderInit == Init => OrderInv
<1> SUFFICES ASSUME Init PROVE OrderInv
  OBVIOUS
<1>1. <<>> \in Seq(AuditEvent) /\ <<>> \in Seq(Body) /\ Len(<<>>) = 0
  BY EmptySeq
<1>2. AuditTypeOK /\ ApprovalTypeOK
  BY <1>1 DEF Init, AuditInit, ApprovalInit, AuditTypeOK, ApprovalTypeOK,
         NoRequests, Request, Resolution, Genesis, Hash
<1> QED
  BY <1>1, <1>2 DEF Init, OrderInv, TypeOK, AuditInit, ApprovalInit, AuditTypeOK, ApprovalTypeOK,
         NoRequests, Request, Resolution, Tipped, Genesis, Hash, Increasing

\* An append that succeeds, is torn or does not happen leaves a file in order.
LEMMA FileOrder ==
  ASSUME OrderInv, up, Written \/ Torn \/ Unwritten
  PROVE  /\ lines' \in Seq(AuditEvent)
         /\ tail' \in {"closed", "garbled", "whole"}
         /\ tail' = "whole" => lines' # <<>>
         /\ tears' \in Nat
         /\ Increasing(lines')
         /\ \A i \in 1..Len(lines') : lines'[i].seq <= sequence + 1
<1>1. AuditTypeOK /\ sequence \in Nat /\ lines \in Seq(AuditEvent) /\ Increasing(lines)
      /\ \A i \in 1..Len(lines) : lines[i].seq <= sequence
  BY DEF OrderInv, TypeOK, Tipped, AuditTypeOK
<1>2. \A i \in 1..Len(lines) : lines[i].seq \in Nat
  BY <1>1, EventsTyped
<1>3. NextEvent \in AuditEvent /\ NextEvent.seq = sequence + 1
  BY <1>1, NextEventType
<1>4. ASSUME lines' = Append(lines, NextEvent)
      PROVE  /\ lines' \in Seq(AuditEvent) /\ lines' # <<>> /\ Increasing(lines')
             /\ \A i \in 1..Len(lines') : lines'[i].seq <= sequence + 1
  <2>1. \A i \in 1..Len(lines) : lines[i].seq < NextEvent.seq
    BY <1>1, <1>2, <1>3
  <2> QED
    BY <2>1, <1>1, <1>3, <1>4, AppendIncreasing
<1>5. ASSUME lines' = Kept
      PROVE  /\ lines' \in Seq(AuditEvent) /\ Increasing(lines')
             /\ \A i \in 1..Len(lines') : lines'[i].seq <= sequence + 1
  <2>1. /\ Kept \in Seq(AuditEvent) /\ Len(Kept) <= Len(lines)
        /\ \A i \in 1..Len(Kept) : i \in 1..Len(lines) /\ Kept[i] = lines[i]
    BY <1>1, KeptType
  <2>2. Increasing(Kept)
    BY <1>1, <2>1 DEF Increasing
  <2>3. \A i \in 1..Len(Kept) : Kept[i].seq <= sequence + 1
    BY <1>1, <1>2, <2>1
  <2> HIDE DEF Increasing
  <2> QED
    BY <1>5, <2>1, <2>2, <2>3
<1>6. CASE Written
  BY <1>1, <1>4, <1>5, <1>6 DEF Written, AuditTypeOK
<1>7. CASE Torn
  BY <1>1, <1>4, <1>5, <1>7 DEF Torn, AuditTypeOK
<1>8. CASE Unwritten
  BY <1>1, <1>2, <1>8 DEF Unwritten, file, AuditTypeOK, Increasing
<1> QED
  BY <1>6, <1>7, <1>8

\* record(), whether it returns or throws: memory is a step ahead either way.
LEMMA RecordOrder ==
  ASSUME OrderInv, up, up' = up, Record \/ RecordThrows
  PROVE  AuditTypeOK' /\ Tipped'
<1>1. /\ AuditTypeOK /\ Tipped /\ log \in Seq(AuditEvent) /\ sequence \in Nat
      /\ issued \in Nat /\ clock \in Nat
  BY DEF OrderInv, TypeOK, AuditTypeOK
<1>2. NextEvent \in AuditEvent /\ NextEvent.seq = sequence + 1 /\ NextEvent.hash \in Hash
  <2>1. NextEvent \in AuditEvent /\ NextEvent.seq = sequence + 1
    BY <1>1, NextEventType
  <2> QED
    BY <2>1 DEF AuditEvent
<1>3. /\ log' = Append(log, NextEvent) /\ tip' = NextEvent.hash
      /\ sequence' = NextEvent.seq /\ issued' = issued + 1
      /\ Written \/ Torn \/ Unwritten
      /\ reported' \in {reported, reported \cup {issued + 1}}
      /\ intact' \in {FALSE, intact /\ tail = "closed"} /\ clock' = clock
  BY DEF Record, RecordThrows, Remember, Build, StillReported
<1>4. /\ log' \in Seq(AuditEvent) /\ log' # <<>> /\ Increasing(log')
      /\ log'[Len(log')] = NextEvent
      /\ \A i \in 1..Len(log') : log'[i].seq <= NextEvent.seq
  <2>1. \A i \in 1..Len(log) : log[i].seq < NextEvent.seq
    <3>1. \A i \in 1..Len(log) : log[i].seq \in Nat
      BY <1>1, EventsTyped
    <3> QED
      BY <3>1, <1>1, <1>2 DEF Tipped
  <2> QED
    BY <1>1, <1>2, <1>3, <2>1, AppendIncreasing DEF Tipped
<1>5. /\ lines' \in Seq(AuditEvent) /\ tail' \in {"closed", "garbled", "whole"}
      /\ tail' = "whole" => lines' # <<>>
      /\ tears' \in Nat /\ Increasing(lines')
      /\ \A i \in 1..Len(lines') : lines'[i].seq <= sequence + 1
  BY <1>3, FileOrder
<1>6. reported' \in SUBSET (1..issued') /\ intact' \in BOOLEAN
  <2>1. (intact /\ tail = "closed") \in BOOLEAN
    OBVIOUS
  <2>2. intact' \in BOOLEAN
    BY <1>3, <2>1
  <2>3. \A n \in reported : n \in 1..issued
    BY <1>1 DEF AuditTypeOK
  <2>4. \A n \in reported' : n \in reported \/ n = issued + 1
    BY <1>3
  <2>5. \A n \in reported' : n \in 1..(issued + 1)
    BY <1>1, <2>3, <2>4
  <2> QED
    BY <1>3, <2>2, <2>5
<1>7. AuditTypeOK'
  <2> HIDE DEF AuditEvent, Hash
  <2>1. sequence' \in Nat /\ issued' \in Nat /\ clock' \in Nat /\ tip' \in Hash
    BY <1>1, <1>2, <1>3
  <2> QED
    BY <1>4, <1>5, <1>6, <2>1 DEF AuditTypeOK
<1>8. Tipped'
  BY <1>2, <1>3, <1>4, <1>5 DEF Tipped
<1> QED
  BY <1>7, <1>8

\* Every way in which the approval file changes keeps its types.
LEMMA ApprovalTypes ==
  ASSUME ApprovalTypeOK, NEW a \in ApprovalIds, NEW status \in Resolution,
         \/ Create(a) \/ ResolveRequest(a, status)
         \/ DieInCreate(a) \/ DieInResolve(a, status)
         \/ LoadRequests \/ (ForgetRequests /\ UNCHANGED <<stored, told, torn>>)
         \/ UNCHANGED approvalVars
  PROVE  ApprovalTypeOK'
<1>1. Created(a) \in [ApprovalIds -> Request] /\ Resolved(a, status) \in [ApprovalIds -> Request]
  BY DEF ApprovalTypeOK, Created, Resolved, Request, Resolution
<1>2. NoRequests \in [ApprovalIds -> Request]
  BY DEF NoRequests, Request
<1>3. told' \in {told, [told EXCEPT ![a] = status]}
  BY DEF Create, ResolveRequest, DieInCreate, DieInResolve, LoadRequests, approvalVars
<1>4. told' \in [ApprovalIds -> Resolution \cup {"none"}]
  BY <1>3 DEF ApprovalTypeOK
<1>5. requests' \in [ApprovalIds -> Request]
  BY <1>1, <1>2 DEF ApprovalTypeOK, Create, ResolveRequest, DieInCreate, DieInResolve,
     LoadRequests, Parsed, ForgetRequests, approvalVars
<1>6. /\ stored' \in [ApprovalIds -> Request] \cup {Broken}
      /\ torn' \in BOOLEAN
  BY <1>1, <1>5 DEF ApprovalTypeOK, Create, ResolveRequest, DieInCreate, DieInResolve,
     LoadRequests, WriteOK, WriteFails, approvalVars
<1> QED
  BY <1>4, <1>5, <1>6 DEF ApprovalTypeOK

LEMMA OrderNext == OrderInv /\ [Next]_vars => OrderInv'
<1> SUFFICES ASSUME OrderInv, [Next]_vars PROVE OrderInv'
  OBVIOUS
<1>0. /\ AuditTypeOK /\ ApprovalTypeOK /\ Tipped
      /\ up \in BOOLEAN /\ restarts \in Nat /\ promised \in Nat
      /\ auditId \in [ApprovalIds -> Nat]
  BY DEF OrderInv, TypeOK
<1>1. ASSUME UNCHANGED auditVars, up' = up
      PROVE  AuditTypeOK' /\ Tipped'
  BY <1>0, <1>1 DEF auditVars, memory, file, AuditTypeOK, Tipped, Increasing
<1>2. ASSUME ForgetLog, up' = FALSE, lines' \in Seq(AuditEvent), Increasing(lines'),
             tail' \in {"closed", "garbled", "whole"}, tail' = "whole" => lines' # <<>>,
             tears' \in Nat, clock' = clock, reported' = reported, intact' = intact,
             issued' \in {issued, issued + 1}
      PROVE  AuditTypeOK' /\ Tipped'
  <2>1. log' = <<>> /\ tip' = Genesis /\ sequence' = 0
    BY <1>2 DEF ForgetLog
  <2>2. <<>> \in Seq(AuditEvent) /\ <<>> \in Seq(Body) /\ Len(<<>>) = 0
    BY EmptySeq
  <2>3. AuditTypeOK'
    BY <1>0, <1>2, <2>1, <2>2 DEF AuditTypeOK, Genesis, Hash
  <2> QED
    BY <1>2, <2>1, <2>2, <2>3 DEF Tipped, Increasing
<1>3. ASSUME approvalVars' = approvalVars
      PROVE  ApprovalTypeOK'
  BY <1>0, <1>3 DEF ApprovalTypeOK, approvalVars
<1>4. ASSUME ForgetRequests, UNCHANGED <<stored, told, torn>>
      PROVE  ApprovalTypeOK'
  BY <1>0, <1>4 DEF ApprovalTypeOK, ForgetRequests, NoRequests, Request
<1>5. CASE RecordEvent
  BY <1>0, <1>3, <1>5, RecordOrder DEF RecordEvent, Running, OrderInv, TypeOK
<1>6. CASE RecordForApproval
  <2>1. promised' \in Nat
    BY <1>0, <1>6 DEF RecordForApproval, AuditTypeOK
  <2> QED
    BY <1>0, <1>3, <1>6, <2>1, RecordOrder DEF RecordForApproval, Running, OrderInv, TypeOK
<1>7. CASE DiesInRecord
  <2>1. up /\ (Written \/ Torn \/ Unwritten)
    BY <1>7 DEF DiesInRecord, Running, DieInRecord
  <2>2. AuditTypeOK' /\ Tipped'
    BY <1>2, <1>7, <2>1, FileOrder DEF DiesInRecord, Stops, DieInRecord, Build
  <2> QED
    BY <1>0, <1>4, <1>7, <2>2 DEF DiesInRecord, Stops, OrderInv, TypeOK
<1>8. CASE Dies
  <2>1. AuditTypeOK' /\ Tipped'
    BY <1>0, <1>2, <1>8 DEF Dies, Stops, file, AuditTypeOK, Tipped
  <2> QED
    BY <1>0, <1>4, <1>8, <2>1 DEF Dies, Stops, OrderInv, TypeOK
<1>9. CASE Restart
  <2>1. /\ log' = lines /\ tip' = RestoredTip(lines) /\ sequence' = RestoredSequence(lines)
        /\ UNCHANGED <<lines, tail, clock, issued, reported, tears, intact>>
        /\ LoadRequests /\ up' = TRUE /\ restarts' = restarts + 1
        /\ UNCHANGED <<promised, auditId>>
    BY <1>9 DEF Restart, LoadLog, file
  <2>2. lines \in Seq(AuditEvent) /\ Increasing(lines)
    BY <1>0 DEF AuditTypeOK, Tipped
  <2>3. ApprovalTypeOK'
    BY <1>0, <2>1 DEF ApprovalTypeOK, LoadRequests, Parsed, NoRequests, Request
  <2>4. CASE lines = <<>>
    <3>1. tip' = Genesis /\ sequence' = 0 /\ Genesis \in Hash
      BY <2>1, <2>4, EmptySeq DEF RestoredTip, RestoredSequence, Genesis, Hash
    <3>2. AuditTypeOK' /\ Tipped'
      BY <1>0, <2>1, <2>2, <2>4, <3>1 DEF AuditTypeOK, Tipped, Increasing
    <3> QED
      BY <1>0, <2>1, <2>3, <3>2 DEF OrderInv, TypeOK
  <2>5. CASE lines # <<>>
    <3>1. Newest(lines) = Len(lines) /\ Len(lines) \in 1..Len(lines)
      BY <2>2, <2>5, NewestIn
    <3>2. tip' = lines[Len(lines)].hash /\ sequence' = lines[Len(lines)].seq
      BY <2>1, <2>5, <3>1 DEF RestoredTip, RestoredSequence
    <3>3. /\ lines[Len(lines)].hash \in Hash
          /\ \A i \in 1..Len(lines) : lines[i].seq \in Nat
      BY <2>2, <3>1, EventsTyped
    <3>4. \A i \in 1..Len(lines) : lines[i].seq <= lines[Len(lines)].seq
      <4> SUFFICES ASSUME NEW i \in 1..Len(lines), i # Len(lines)
                   PROVE  lines[i].seq <= lines[Len(lines)].seq
        BY <3>1, <3>3
      <4>1. i < Len(lines)
        BY <3>1
      <4> QED
        BY <2>2, <3>1, <3>3, <4>1 DEF Increasing
    <3>5. AuditTypeOK' /\ Tipped'
      BY <1>0, <2>1, <2>2, <2>5, <3>1, <3>2, <3>3, <3>4 DEF AuditTypeOK, Tipped, Increasing
    <3> QED
      BY <1>0, <2>1, <2>3, <3>5 DEF OrderInv, TypeOK
  <2> QED
    BY <2>4, <2>5
<1>10. CASE ClockChanges
  <2>1. PICK t \in (0..MaxTime) \ {clock} : SetClock(t)
    BY <1>10 DEF ClockChanges
  <2>2. /\ UNCHANGED <<log, tip, sequence, lines, tail, issued, reported, tears>>
        /\ clock' = t /\ intact' = (intact /\ t >= clock) /\ t \in Nat
    BY <2>1, AuditBounds DEF SetClock, memory, file
  <2>3. AuditTypeOK' /\ Tipped'
    BY <1>0, <1>10, <2>2 DEF ClockChanges, AuditTypeOK, Tipped, Increasing
  <2> QED
    BY <1>0, <1>3, <1>10, <2>3 DEF ClockChanges, OrderInv, TypeOK
<1>11. ASSUME NEW a \in ApprovalIds, CreateApproval(a) PROVE OrderInv'
  <2>1. ApprovalTypeOK'
    BY <1>0, <1>11, ApprovalTypes DEF CreateApproval, Resolution
  <2> QED
    BY <1>0, <1>1, <1>11, <2>1 DEF CreateApproval, OrderInv, TypeOK
<1>12. ASSUME NEW a \in ApprovalIds, DiesInCreate(a) PROVE OrderInv'
  <2>1. ApprovalTypeOK'
    BY <1>0, <1>12, ApprovalTypes DEF DiesInCreate, Resolution
  <2>2. AuditTypeOK' /\ Tipped'
    BY <1>0, <1>2, <1>12 DEF DiesInCreate, Stops, file, AuditTypeOK, Tipped
  <2> QED
    BY <1>0, <1>12, <2>1, <2>2 DEF DiesInCreate, Stops, OrderInv, TypeOK
<1>13. ASSUME NEW a \in ApprovalIds, NEW status \in Resolution, ResolveApproval(a, status)
       PROVE  OrderInv'
  <2>1. ApprovalTypeOK'
    BY <1>0, <1>13, ApprovalTypes DEF ResolveApproval
  <2> QED
    BY <1>0, <1>1, <1>13, <2>1 DEF ResolveApproval, OrderInv, TypeOK
<1>14. ASSUME NEW a \in ApprovalIds, NEW status \in Resolution, DiesInResolve(a, status)
       PROVE  OrderInv'
  <2>1. ApprovalTypeOK'
    BY <1>0, <1>14, ApprovalTypes DEF DiesInResolve
  <2>2. AuditTypeOK' /\ Tipped'
    BY <1>0, <1>2, <1>14 DEF DiesInResolve, Stops, file, AuditTypeOK, Tipped
  <2> QED
    BY <1>0, <1>14, <2>1, <2>2 DEF DiesInResolve, Stops, OrderInv, TypeOK
<1>15. CASE UNCHANGED vars
  BY <1>0, <1>1, <1>3, <1>15 DEF vars, OrderInv, TypeOK
<1> QED
  BY <1>5, <1>6, <1>7, <1>8, <1>9, <1>10, <1>11, <1>12, <1>13, <1>14, <1>15 DEF Next

\* The variables keep their types through every failure and restart.
THEOREM FilesTypeOK == Spec => []TypeOK
<1>1. OrderInv => TypeOK
  BY DEF OrderInv
<1> QED
  BY <1>1, OrderInit, OrderNext, PTL DEF Spec

\* Sequence numbers increase, however many appends failed (restoreChainTip).
THEOREM FilesSequenceOrder == Spec => []SequenceOrder
<1>1. OrderInv => SequenceOrder
  BY DEF OrderInv, Tipped, SequenceOrder
<1> QED
  BY <1>1, OrderInit, OrderNext, PTL DEF Spec

-----------------------------------------------------------------------------
(* What a reviewer was told *)

\* Keeps, for any history.
Holds(table, answers, broke) ==
  \A a \in ApprovalIds :
    answers[a] # "none" => table[a] = answers[a] \/ (broke /\ table[a] = Absent)

\* A request that is somewhere, or was resolved, was created: never again.
Named ==
  \A a \in ApprovalIds :
    \/ requests[a] # Absent
    \/ stored # Broken /\ stored[a] # Absent
    \/ told[a] # "none"
    => auditId[a] # 0

KeepInv ==
  /\ TypeOK
  /\ Named
  /\ up => Holds(requests, told, torn)
  /\ stored # Broken => Holds(stored, told, torn)
  /\ stored = Broken => torn

\* A request that had no answer becomes pending or is resolved.
LEMMA TableKeeps ==
  ASSUME TypeOK, Holds(requests, told, torn), NEW a \in ApprovalIds,
         NEW status \in Resolution,
         Named
  PROVE  /\ auditId[a] = 0 => Holds(Created(a), told, torn)
         /\ MayResolve(a) => /\ told[a] = "none"
                             /\ Holds(Resolved(a, status), told, torn)
                             /\ Holds(Resolved(a, status), [told EXCEPT ![a] = status], torn)
<1>1. /\ requests \in [ApprovalIds -> Request] /\ told \in [ApprovalIds -> Resolution \cup {"none"}]
  BY DEF TypeOK, ApprovalTypeOK
<1>2. ASSUME auditId[a] = 0 PROVE Holds(Created(a), told, torn)
  BY <1>1, <1>2 DEF Holds, Created, Named
<1>3. ASSUME MayResolve(a) PROVE told[a] = "none"
  BY <1>1, <1>3, ApprovalConstants DEF MayResolve, Holds, Resolution
<1>4. ASSUME MayResolve(a)
      PROVE  /\ Holds(Resolved(a, status), told, torn)
             /\ Holds(Resolved(a, status), [told EXCEPT ![a] = status], torn)
  BY <1>1, <1>3, <1>4 DEF Holds, Resolved
<1> QED
  BY <1>2, <1>3, <1>4

\* More broken writes only weaken what a table has to hold.
LEMMA HoldsWeaker ==
  ASSUME NEW table, NEW answers, NEW b1, NEW b2, Holds(table, answers, b1), b1 => b2
  PROVE  Holds(table, answers, b2)
  BY DEF Holds

LEMMA KeepInit == Init => KeepInv
<1> SUFFICES ASSUME Init PROVE KeepInv
  OBVIOUS
<1>1. TypeOK
  BY OrderInit DEF OrderInv
<1>2. /\ requests = NoRequests /\ stored = NoRequests
      /\ \A a \in ApprovalIds : told[a] = "none"
  BY DEF Init, ApprovalInit
<1>3. stored # Broken
  BY <1>2, ApprovalConstants DEF NoRequests, Request
<1> QED
  BY <1>1, <1>2, <1>3 DEF KeepInv, Holds, Named, NoRequests

LEMMA KeepNext == KeepInv /\ TypeOK' /\ [Next]_vars => KeepInv'
<1> SUFFICES ASSUME KeepInv, TypeOK', [Next]_vars PROVE KeepInv'
  OBVIOUS
<1>0. /\ TypeOK
      /\ up => Holds(requests, told, torn)
      /\ stored # Broken => Holds(stored, told, torn)
      /\ stored = Broken => torn
      /\ Named
      /\ torn \in BOOLEAN /\ up \in BOOLEAN
  BY DEF KeepInv, TypeOK, ApprovalTypeOK
\* A write of a table that keeps the answers, complete, failed or torn.
<1>1. ASSUME NEW table \in [ApprovalIds -> Request], Holds(table, told, torn),
             WriteOK(table) \/ WriteFails, UNCHANGED told
      PROVE  /\ torn => torn'
             /\ stored' # Broken => Holds(stored', told', torn')
             /\ stored' = Broken => torn'
             /\ Holds(table, told', torn')
  <2>1. torn => torn'
    BY <1>1 DEF WriteOK, WriteFails
  <2>2. stored' = Broken => torn'
    BY <1>0, <1>1, ApprovalConstants DEF WriteOK, WriteFails
  <2>3. Holds(table, told', torn')
    BY <1>1, <2>1, HoldsWeaker
  <2>4. ASSUME stored' # Broken PROVE Holds(stored', told', torn')
    BY <1>0, <1>1, <2>1, <2>3, <2>4 DEF WriteOK, WriteFails
  <2> QED
    BY <2>1, <2>2, <2>3, <2>4
<1>2. ASSUME UNCHANGED <<stored, told, torn, auditId>>, up' => Holds(requests', told', torn'),
             requests' \in {requests, NoRequests, Parsed}
      PROVE  KeepInv'
  <2>1. Named'
    BY <1>0, <1>2 DEF Named, NoRequests, Parsed
  <2> QED
    BY <1>0, <1>2, <2>1 DEF KeepInv
<1>3. ASSUME approvalVars' = approvalVars, up' = up, auditId' = auditId PROVE KeepInv'
  BY <1>0, <1>2, <1>3 DEF approvalVars
<1>4. ASSUME NEW a \in ApprovalIds
      PROVE  /\ Created(a) \in [ApprovalIds -> Request]
             /\ \A status \in Resolution : Resolved(a, status) \in [ApprovalIds -> Request]
  BY <1>0 DEF TypeOK, ApprovalTypeOK, Created, Resolved, Request, Resolution
<1>5. ASSUME RecordEvent \/ RecordForApproval \/ ClockChanges PROVE KeepInv'
  BY <1>3, <1>5 DEF RecordEvent, RecordForApproval, ClockChanges
<1>6. ASSUME DiesInRecord \/ Dies PROVE KeepInv'
  BY <1>2, <1>6 DEF DiesInRecord, Dies, Stops, ForgetRequests
<1>7. CASE Restart
  <2>1. requests' = Parsed /\ UNCHANGED <<stored, told, torn, auditId>>
    BY <1>7 DEF Restart, LoadRequests
  <2>2. CASE stored # Broken
    BY <1>0, <1>2, <2>1, <2>2 DEF Parsed
  <2>3. CASE stored = Broken
    <3>1. \A a \in ApprovalIds : requests'[a] = Absent
      BY <2>1, <2>3 DEF Parsed, NoRequests
    <3>2. Holds(requests', told', torn')
      BY <1>0, <2>1, <2>3, <3>1 DEF Holds
    <3> QED
      BY <1>2, <2>1, <3>2
  <2> QED
    BY <2>2, <2>3
<1>8. ASSUME NEW a \in ApprovalIds, CreateApproval(a) PROVE KeepInv'
  <2>1. /\ up /\ auditId[a] = 0 /\ promised # 0 /\ up' = up
        /\ auditId' = [auditId EXCEPT ![a] = promised]
        /\ requests' = Created(a) /\ (WriteOK(Created(a)) \/ WriteFails) /\ told' = told
    BY <1>8 DEF CreateApproval, Create
  <2>2. Holds(Created(a), told, torn)
    BY <1>0, <2>1, TableKeeps DEF Resolution
  <2>3. Named'
    BY <1>0, <2>1 DEF Named, TypeOK, ApprovalTypeOK, Created, WriteOK, WriteFails
  <2> QED
    BY <1>0, <1>1, <1>4, <2>1, <2>2, <2>3 DEF KeepInv
<1>9. ASSUME NEW a \in ApprovalIds, DiesInCreate(a) PROVE KeepInv'
  <2>1. /\ up /\ auditId[a] = 0 /\ promised # 0 /\ up' = FALSE
        /\ auditId' = [auditId EXCEPT ![a] = promised]
        /\ (WriteOK(Created(a)) \/ WriteFails) /\ told' = told /\ requests' = NoRequests
    BY <1>9 DEF DiesInCreate, DieInCreate, Stops, ForgetRequests
  <2>2. Holds(Created(a), told, torn)
    BY <1>0, <2>1, TableKeeps DEF Resolution
  <2>3. Named'
    BY <1>0, <2>1 DEF Named, TypeOK, ApprovalTypeOK, Created, WriteOK, WriteFails, NoRequests
  <2> QED
    BY <1>0, <1>1, <1>4, <2>1, <2>2, <2>3 DEF KeepInv
<1>10. ASSUME NEW a \in ApprovalIds, NEW status \in Resolution, ResolveApproval(a, status)
       PROVE  KeepInv'
  <2>1. /\ up /\ up' = up /\ auditId' = auditId /\ MayResolve(a)
        /\ requests' = Resolved(a, status)
        /\ \/ WriteOK(Resolved(a, status)) /\ told' = [told EXCEPT ![a] = status]
           \/ WriteFails /\ told' = told
    BY <1>10 DEF ResolveApproval, ResolveRequest, Running
  <2>2. /\ told[a] = "none" /\ Holds(Resolved(a, status), told, torn)
        /\ Holds(Resolved(a, status), [told EXCEPT ![a] = status], torn)
    BY <1>0, <2>1, TableKeeps
  <2>5. auditId[a] # 0
    BY <1>0, <2>1, ApprovalConstants DEF MayResolve, Named
  <2>6. Named'
    BY <1>0, <2>1, <2>5 DEF Named, TypeOK, ApprovalTypeOK, Resolved, WriteOK, WriteFails
  <2>3. CASE WriteFails /\ told' = told
    BY <1>0, <1>1, <1>4, <2>1, <2>2, <2>3, <2>6 DEF KeepInv
  <2>4. CASE WriteOK(Resolved(a, status)) /\ told' = [told EXCEPT ![a] = status]
    <3>1. stored' = Resolved(a, status) /\ torn' = torn
      BY <2>4 DEF WriteOK
    <3>2. stored' # Broken
      BY <1>4, <3>1, ApprovalConstants
    <3> QED
      BY <1>0, <2>1, <2>2, <2>4, <2>6, <3>1, <3>2 DEF KeepInv
  <2> QED
    BY <2>1, <2>3, <2>4
<1>11. ASSUME NEW a \in ApprovalIds, NEW status \in Resolution, DiesInResolve(a, status)
       PROVE  KeepInv'
  <2>1. /\ up /\ up' = FALSE /\ auditId' = auditId /\ MayResolve(a)
        /\ (WriteOK(Resolved(a, status)) \/ WriteFails) /\ told' = told
        /\ requests' = NoRequests
    BY <1>11 DEF DiesInResolve, DieInResolve, Stops, ForgetRequests
  <2>2. Holds(Resolved(a, status), told, torn)
    BY <1>0, <2>1, TableKeeps
  <2>3. auditId[a] # 0
    BY <1>0, <2>1, ApprovalConstants DEF MayResolve, Named
  <2>4. Named'
    BY <1>0, <2>1, <2>3 DEF Named, TypeOK, ApprovalTypeOK, Resolved, WriteOK, WriteFails, NoRequests
  <2> QED
    BY <1>0, <1>1, <1>4, <2>1, <2>2, <2>4 DEF KeepInv
<1>12. CASE UNCHANGED vars
  BY <1>3, <1>12 DEF vars
<1> QED
  BY <1>5, <1>6, <1>7, <1>8, <1>9, <1>10, <1>11, <1>12 DEF Next

\* What a reviewer was told holds in memory and in a file that parses.
THEOREM FilesResolutionKept == Spec => []ResolutionKept
<1>1. OrderInv => TypeOK
  BY DEF OrderInv
<1>2. KeepInv => ResolutionKept
  BY DEF KeepInv, ResolutionKept, Keeps, Holds
<1> QED
  BY <1>1, <1>2, OrderInit, OrderNext, KeepInit, KeepNext, PTL DEF Spec

-----------------------------------------------------------------------------
(* The hash chain *)

\* Every event continues the one listed before it, and time does not go back.
PrevHash(s, i) == IF i = 1 THEN Genesis ELSE s[i - 1].hash
Linked(s) ==
  \A i \in 1..Len(s) :
    s[i].prev = PrevHash(s, i) /\ s[i].hash = EventHash(s[i].prev, BodyOf(s[i]))
Monotone(s) == \A i, j \in 1..Len(s) : i < j => s[i].time <= s[j].time

LinkInv ==
  /\ OrderInv
  /\ intact => /\ Linked(lines)
               /\ Monotone(lines)
               /\ \A i \in 1..Len(lines) : lines[i].time <= clock
  /\ up /\ intact => log = lines
  /\ ~up => log = <<>>

\* In a log in order, sorting by time changes nothing.
LEMMA PreviousIsPredecessor ==
  ASSUME NEW s \in Seq(AuditEvent), Monotone(s), NEW i \in 1..Len(s)
  PROVE  Previous(s, i) = i - 1
<1>1. Len(s) \in Nat /\ \A k \in 1..Len(s) : s[k].time \in Nat
  BY EventsTyped
<1>2. \A j, k \in 1..Len(s) : Before(s, j, k) <=> j < k
  BY <1>1 DEF Before, Monotone
<1>3. \A k \in 1..Len(s) : Before(s, k, i) <=> k < i
  BY <1>2
<1>4. /\ i - 1 \in 0..Len(s)
      /\ i - 1 # 0 => Before(s, i - 1, i)
      /\ \A k \in 1..Len(s) : Before(s, k, i) => i - 1 # 0 /\ ~Before(s, i - 1, k)
  <2>1. i - 1 \in 0..Len(s) /\ (i - 1 # 0 => i - 1 \in 1..Len(s) /\ i - 1 < i)
    BY <1>1
  <2>2. ASSUME NEW k \in 1..Len(s), k < i PROVE i - 1 # 0 /\ ~(i - 1 < k)
    BY <1>1, <2>2
  <2> QED
    BY <1>2, <1>3, <2>1, <2>2
<1>5. ASSUME NEW j \in 0..Len(s), j # 0 => Before(s, j, i),
             \A k \in 1..Len(s) : Before(s, k, i) => j # 0 /\ ~Before(s, j, k)
      PROVE  j = i - 1
  <2>1. CASE i = 1
    BY <1>1, <1>3, <1>5, <2>1
  <2>2. CASE i # 1
    <3>1. i - 1 \in 1..Len(s) /\ i - 1 < i
      BY <1>1, <2>2
    <3>2. j # 0 /\ ~Before(s, j, i - 1)
      BY <1>3, <1>5, <3>1
    <3>3. j \in 1..Len(s) /\ j < i
      BY <1>1, <1>3, <1>5, <3>2
    <3>4. ~(j < i - 1)
      BY <1>2, <3>1, <3>2, <3>3
    <3> QED
      BY <1>1, <3>3, <3>4
  <2> QED
    BY <2>1, <2>2
<1> QED
  BY <1>4, <1>5 DEF Previous

LEMMA LinkedVerifies ==
  ASSUME NEW s \in Seq(AuditEvent), Linked(s), Monotone(s)
  PROVE  Verifies(s)
<1> SUFFICES ASSUME NEW i \in 1..Len(s) PROVE LinkOK(s, i)
  BY DEF Verifies
<1>1. Previous(s, i) = i - 1
  BY PreviousIsPredecessor
<1>2. ExpectedPrev(s, i) = PrevHash(s, i)
  <2>1. i - 1 = 0 <=> i = 1
    OBVIOUS
  <2> QED
    BY <1>1, <2>1 DEF ExpectedPrev, PrevHash
<1> QED
  BY <1>2 DEF LinkOK, Linked

\* One more event, built on the tip of the log.
LEMMA AppendLinked ==
  ASSUME OrderInv, Linked(log), Monotone(log), \A i \in 1..Len(log) : log[i].time <= clock
  PROVE  /\ Linked(Append(log, NextEvent))
         /\ Monotone(Append(log, NextEvent))
         /\ \A i \in 1..Len(Append(log, NextEvent)) : Append(log, NextEvent)[i].time <= clock
<1> DEFINE more == Append(log, NextEvent)
<1>1. AuditTypeOK /\ Tipped /\ log \in Seq(AuditEvent) /\ clock \in Nat
  BY DEF OrderInv, TypeOK, AuditTypeOK
<1>2. /\ NextEvent \in AuditEvent /\ NextEvent.time = clock /\ NextEvent.prev = tip
      /\ NextEvent.hash = EventHash(tip, BodyOf(NextEvent))
  BY <1>1, NextEventType
<1>3. /\ Len(log) \in Nat /\ Len(more) = Len(log) + 1 /\ more[Len(log) + 1] = NextEvent
      /\ \A i \in 1..Len(log) : more[i] = log[i]
      /\ \A i \in 1..Len(more) : i \in 1..Len(log) \/ i = Len(log) + 1
  <2>1. /\ Len(log) \in Nat /\ Len(more) = Len(log) + 1 /\ more[Len(log) + 1] = NextEvent
        /\ \A i \in 1..Len(log) : more[i] = log[i]
    BY <1>1, <1>2, AppendProperties
  <2> QED
    BY <2>1
<1>4. \A i \in 1..Len(log) : log[i].time \in Nat
  BY <1>1, EventsTyped
<1> HIDE DEF more
<1>5. \A i \in 1..Len(more) : more[i].time <= clock
  BY <1>1, <1>2, <1>3
<1>6. Monotone(more)
  BY <1>1, <1>2, <1>3, <1>4 DEF Monotone
<1>7. tip = PrevHash(more, Len(log) + 1)
  <2>1. CASE log = <<>>
    <3>1. Len(log) + 1 = 1
      BY <2>1, EmptySeq
    <3> QED
      BY <1>1, <2>1, <3>1 DEF PrevHash, Tipped
  <2>2. CASE log # <<>>
    <3>1. Len(log) \in 1..Len(log) /\ Len(log) + 1 # 1 /\ Len(log) + 1 - 1 = Len(log)
      BY <1>1, <1>3, <2>2
    <3>2. more[Len(log)] = log[Len(log)]
      BY <1>3, <3>1
    <3> QED
      BY <1>1, <2>2, <3>1, <3>2 DEF PrevHash, Tipped
  <2> QED
    BY <2>1, <2>2
<1>8. ASSUME NEW i \in 1..Len(log) PROVE PrevHash(more, i) = PrevHash(log, i)
  <2>1. CASE i = 1
    BY <2>1 DEF PrevHash
  <2>2. CASE i # 1
    <3>1. i - 1 \in 1..Len(log)
      BY <1>3, <2>2
    <3> QED
      BY <1>3, <2>2, <3>1 DEF PrevHash
  <2> QED
    BY <2>1, <2>2
<1>9. Linked(more)
  <2> SUFFICES ASSUME NEW i \in 1..Len(more)
               PROVE  /\ more[i].prev = PrevHash(more, i)
                      /\ more[i].hash = EventHash(more[i].prev, BodyOf(more[i]))
    BY DEF Linked
  <2>1. CASE i = Len(log) + 1
    BY <1>2, <1>3, <1>7, <2>1
  <2>2. CASE i \in 1..Len(log)
    BY <1>3, <1>8, <2>2 DEF Linked
  <2> QED
    BY <1>3, <2>1, <2>2
<1> QED
  BY <1>5, <1>6, <1>9 DEF more

\* A prefix of a linked log is linked.
LEMMA KeptLinked ==
  ASSUME AuditTypeOK, Linked(lines), Monotone(lines),
         \A i \in 1..Len(lines) : lines[i].time <= clock
  PROVE  /\ Linked(Kept) /\ Monotone(Kept)
         /\ \A i \in 1..Len(Kept) : Kept[i].time <= clock
<1>1. /\ Kept \in Seq(AuditEvent) /\ Len(Kept) \in Nat
      /\ \A i \in 1..Len(Kept) : i \in 1..Len(lines) /\ Kept[i] = lines[i]
  <2>1. Kept \in Seq(AuditEvent)
    BY KeptType
  <2> QED
    BY <2>1, KeptType
<1>2. ASSUME NEW i \in 1..Len(Kept) PROVE PrevHash(Kept, i) = PrevHash(lines, i)
  <2>1. CASE i = 1
    BY <2>1 DEF PrevHash
  <2>2. CASE i # 1
    <3>1. i - 1 \in 1..Len(Kept)
      BY <1>1, <2>2
    <3> QED
      BY <1>1, <2>2, <3>1 DEF PrevHash
  <2> QED
    BY <2>1, <2>2
<1>3. Linked(Kept)
  BY <1>1, <1>2 DEF Linked
<1>4. Monotone(Kept) /\ \A i \in 1..Len(Kept) : Kept[i].time <= clock
  BY <1>1 DEF Monotone
<1> QED
  BY <1>3, <1>4

LEMMA LinkInit == Init => LinkInv
<1> SUFFICES ASSUME Init PROVE LinkInv
  OBVIOUS
<1>1. OrderInv
  BY OrderInit
<1>2. lines = <<>> /\ log = <<>> /\ Len(<<>>) = 0 /\ up
  BY EmptySeq DEF Init, AuditInit
<1> QED
  BY <1>1, <1>2 DEF LinkInv, Linked, Monotone

LEMMA LinkNext == LinkInv /\ OrderInv' /\ [Next]_vars => LinkInv'
<1> SUFFICES ASSUME LinkInv, OrderInv', [Next]_vars PROVE LinkInv'
  OBVIOUS
<1>0. /\ OrderInv /\ AuditTypeOK /\ clock \in Nat /\ intact \in BOOLEAN
      /\ lines \in Seq(AuditEvent)
  BY DEF LinkInv, OrderInv, TypeOK, AuditTypeOK
<1>1. ASSUME UNCHANGED <<lines, clock, intact>>,
             up' /\ intact' => log' = lines,
             ~up' => log' = <<>>
      PROVE  LinkInv'
  <2>1. (intact' => Linked(lines)' /\ Monotone(lines)')
    BY <1>1 DEF LinkInv, Linked, Monotone, PrevHash
  <2>2. intact' => \A i \in 1..Len(lines') : lines'[i].time <= clock'
    BY <1>1 DEF LinkInv
  <2>3. /\ up' /\ intact' => log' = lines'
        /\ ~up' => log' = <<>>
    BY <1>1
  <2> QED
    BY <2>1, <2>2, <2>3 DEF LinkInv
<1>2. ASSUME UNCHANGED <<log, lines, clock, intact, up>> PROVE LinkInv'
  BY <1>1, <1>2 DEF LinkInv
<1>3. ASSUME up, intact
      PROVE  /\ Linked(Append(lines, NextEvent)) /\ Monotone(Append(lines, NextEvent))
             /\ \A i \in 1..Len(Append(lines, NextEvent)) :
                  Append(lines, NextEvent)[i].time <= clock
  <2>1. log = lines
    BY <1>3 DEF LinkInv
  <2> QED
    BY <1>0, <1>3, <2>1, AppendLinked DEF LinkInv
<1>4. ASSUME up, up' = up, Record \/ RecordThrows PROVE LinkInv'
  <2>1. CASE intact'
    <3>1. /\ intact /\ tail = "closed" /\ clock' = clock
          /\ log' = Append(log, NextEvent) /\ lines' = Append(lines, NextEvent)
      BY <1>4, <2>1 DEF Record, RecordThrows, Remember, Written
    <3>2. log' = lines'
      BY <1>4, <3>1 DEF LinkInv
    <3>3. /\ Linked(lines') /\ Monotone(lines')
          /\ \A i \in 1..Len(lines') : lines'[i].time <= clock'
      BY <1>3, <1>4, <3>1
    <3>4. Linked(lines)' /\ Monotone(lines)'
      BY <3>3 DEF Linked, Monotone, PrevHash
    <3> QED
      BY <1>4, <3>2, <3>3, <3>4 DEF LinkInv
  <2>2. CASE ~intact'
    BY <1>4, <2>2 DEF LinkInv
  <2> QED
    BY <2>1, <2>2
<1>5. ASSUME up, up' = FALSE, DieInRecord, log' = <<>> PROVE LinkInv'
  <2>1. /\ lines' \in {Append(lines, NextEvent), Kept}
        /\ clock' = clock /\ intact' = intact
    BY <1>5 DEF DieInRecord, Written, Torn
  <2>2. CASE intact
    <3>1. /\ Linked(lines') /\ Monotone(lines')
          /\ \A i \in 1..Len(lines') : lines'[i].time <= clock'
      <4>1. CASE lines' = Append(lines, NextEvent)
        BY <1>3, <1>5, <2>1, <2>2, <4>1
      <4>2. CASE lines' = Kept
        BY <1>0, <2>1, <2>2, <4>2, KeptLinked DEF LinkInv
      <4> QED
        BY <2>1, <4>1, <4>2
    <3>2. Linked(lines)' /\ Monotone(lines)'
      BY <3>1 DEF Linked, Monotone, PrevHash
    <3> QED
      BY <1>5, <3>1, <3>2 DEF LinkInv
  <2>3. CASE ~intact
    BY <1>0, <1>5, <2>1, <2>3 DEF LinkInv
  <2> QED
    BY <2>2, <2>3
<1>6. CASE RecordEvent
  BY <1>4, <1>6 DEF RecordEvent, Running
<1>7. CASE RecordForApproval
  BY <1>4, <1>7 DEF RecordForApproval, Running
<1>8. CASE DiesInRecord
  BY <1>5, <1>8 DEF DiesInRecord, Running, Stops, ForgetLog
<1>9. CASE Dies
  BY <1>1, <1>9 DEF Dies, Stops, file, ForgetLog
<1>10. CASE Restart
  BY <1>1, <1>10 DEF Restart, LoadLog, file
<1>11. CASE ClockChanges
  <2>1. PICK t \in 0..MaxTime : SetClock(t)
    BY <1>11 DEF ClockChanges
  <2>2. /\ UNCHANGED <<log, lines, up>> /\ clock' = t /\ t \in Nat
        /\ intact' = (intact /\ t >= clock)
    BY <1>11, <2>1, AuditBounds DEF SetClock, ClockChanges, memory, file
  <2>3. CASE intact'
    <3>1. intact /\ t >= clock
      BY <2>2, <2>3
    <3>2. \A i \in 1..Len(lines) : lines[i].time \in Nat /\ lines[i].time <= clock
      BY <1>0, <3>1, EventsTyped DEF LinkInv
    <3>3. \A i \in 1..Len(lines') : lines'[i].time <= clock'
      BY <1>0, <2>2, <3>1, <3>2
    <3>4. Linked(lines)' /\ Monotone(lines)' /\ (up' => log' = lines')
      BY <2>2, <3>1 DEF LinkInv, Linked, Monotone, PrevHash
    <3> QED
      BY <2>2, <3>3, <3>4 DEF LinkInv
  <2>4. CASE ~intact'
    BY <2>2, <2>4 DEF LinkInv
  <2> QED
    BY <2>3, <2>4
<1>12. ASSUME NEW a \in ApprovalIds, CreateApproval(a) PROVE LinkInv'
  BY <1>2, <1>12 DEF CreateApproval, auditVars, memory, file
<1>13. ASSUME NEW a \in ApprovalIds, DiesInCreate(a) PROVE LinkInv'
  BY <1>1, <1>13 DEF DiesInCreate, Stops, file, ForgetLog
<1>14. ASSUME NEW a \in ApprovalIds, NEW status \in Resolution, ResolveApproval(a, status)
       PROVE  LinkInv'
  BY <1>2, <1>14 DEF ResolveApproval, auditVars, memory, file
<1>15. ASSUME NEW a \in ApprovalIds, NEW status \in Resolution, DiesInResolve(a, status)
       PROVE  LinkInv'
  BY <1>1, <1>15 DEF DiesInResolve, Stops, file, ForgetLog
<1>16. CASE UNCHANGED vars
  BY <1>2, <1>16 DEF vars, auditVars, memory, file
<1> QED
  BY <1>6, <1>7, <1>8, <1>9, <1>10, <1>11, <1>12, <1>13, <1>14, <1>15, <1>16 DEF Next

\* A log that no failed append and no clock set back disturbed verifies, after
\* any crashes and restarts (verifyChain).
LEMMA LinkChain == LinkInv => ChainVerifies
<1> SUFFICES ASSUME LinkInv, intact PROVE Verifies(log) /\ Verifies(lines)
  BY DEF ChainVerifies
<1>1. lines \in Seq(AuditEvent) /\ Verifies(lines)
  BY LinkedVerifies DEF LinkInv, OrderInv, TypeOK, AuditTypeOK
<1>2. CASE up
  BY <1>1, <1>2 DEF LinkInv
<1>3. CASE ~up
  BY <1>1, <1>3, EmptySeq DEF LinkInv, Verifies
<1> QED
  BY <1>2, <1>3

THEOREM FilesChainVerifies == Spec => []ChainVerifies
  BY OrderInit, OrderNext, LinkInit, LinkNext, LinkChain, PTL DEF Spec

-----------------------------------------------------------------------------
(* What an interrupted append can cost *)

Missing == reported \ Ids(lines)
Open == IF tail = "closed" THEN 0 ELSE 1

\* An unfinished line is paid for in advance: it swallows the next event.
LossInv ==
  /\ TypeOK
  /\ tail = "whole" => lines[Len(lines)].id \notin reported
  /\ Cardinality(Missing) + Open <= tears

LEMMA MissingFinite ==
  ASSUME TypeOK
  PROVE  IsFiniteSet(Missing) /\ Cardinality(Missing) \in Nat
<1>1. IsFiniteSet(1..issued)
  BY FS_Interval DEF TypeOK, AuditTypeOK
<1>2. IsFiniteSet(Missing)
  BY <1>1, FS_Subset DEF TypeOK, AuditTypeOK, Missing
<1> QED
  BY <1>2, FS_CardinalityType

\* A file that loses none of the reported events, and one that loses one.
LEMMA MissingLess ==
  ASSUME TypeOK, NEW S, S \subseteq Missing
  PROVE  Cardinality(S) \in Nat /\ Cardinality(S) <= Cardinality(Missing)
<1>1. IsFiniteSet(Missing)
  BY MissingFinite
<1> QED
  BY <1>1, FS_Subset, FS_CardinalityType

LEMMA MissingMore ==
  ASSUME TypeOK, NEW n, NEW S, S \subseteq Missing \cup {n}
  PROVE  Cardinality(S) \in Nat /\ Cardinality(S) <= Cardinality(Missing) + 1
<1>1. IsFiniteSet(Missing) /\ Cardinality(Missing) \in Nat
  BY MissingFinite
<1>2. /\ IsFiniteSet(Missing \cup {n})
      /\ Cardinality(Missing \cup {n}) \in {Cardinality(Missing), Cardinality(Missing) + 1}
  BY <1>1, FS_AddElement
<1>3. /\ Cardinality(S) <= Cardinality(Missing \cup {n})
      /\ IsFiniteSet(S) /\ Cardinality(S) \in Nat
  BY <1>2, FS_Subset, FS_CardinalityType
<1> QED
  BY <1>1, <1>2, <1>3

\* The ids that an appended, a kept and an untouched file hold.
LEMMA AppendIds ==
  ASSUME TypeOK
  PROVE  /\ Ids(Append(lines, NextEvent)) = Ids(lines) \cup {issued + 1}
         /\ Append(lines, NextEvent)[Len(Append(lines, NextEvent))].id = issued + 1
<1>1. /\ lines \in Seq(AuditEvent) /\ NextEvent \in AuditEvent /\ NextEvent.id = issued + 1
  BY NextEventType DEF TypeOK, AuditTypeOK
<1>2. /\ Len(lines) \in Nat /\ Len(Append(lines, NextEvent)) = Len(lines) + 1
      /\ Append(lines, NextEvent)[Len(lines) + 1] = NextEvent
      /\ \A i \in 1..Len(lines) : Append(lines, NextEvent)[i] = lines[i]
  BY <1>1, AppendProperties
<1>3. \A i \in 1..(Len(lines) + 1) : i \in 1..Len(lines) \/ i = Len(lines) + 1
  BY <1>2
<1>4. \A i \in 1..Len(lines) : i \in 1..(Len(lines) + 1)
  BY <1>2
<1>5. Len(lines) + 1 \in 1..(Len(lines) + 1)
  BY <1>2
<1> QED
  BY <1>1, <1>2, <1>3, <1>4, <1>5 DEF Ids

LEMMA KeptIds ==
  ASSUME LossInv
  PROVE  \A n \in reported : n \in Ids(lines) => n \in Ids(Kept)
<1>1. AuditTypeOK
  BY DEF LossInv, TypeOK
<1>2. CASE tail = "whole"
  <2>1. /\ Len(lines) \in Nat /\ Len(Kept) = Len(lines) - 1
        /\ \A i \in 1..Len(Kept) : Kept[i] = lines[i]
    BY <1>1, <1>2, KeptType DEF AuditTypeOK
  <2>2. \A i \in 1..Len(lines) : i \in 1..Len(Kept) \/ i = Len(lines)
    BY <2>1
  <2>3. lines[Len(lines)].id \notin reported
    BY <1>2 DEF LossInv
  <2> QED
    BY <2>1, <2>2, <2>3 DEF Ids
<1>3. CASE tail # "whole"
  BY <1>1, <1>3, KeptType
<1> QED
  BY <1>2, <1>3

\* An append for an event not yet reported: what the file may lose by it.
LEMMA AppendLoss ==
  ASSUME LossInv, TypeOK'
  PROVE  /\ Written => Cardinality(reported \ Ids(lines')) <= tears' /\ tail' = "closed"
         /\ Written /\ reported' = reported \cup {issued + 1}
              => Cardinality(Missing') <= tears'
         /\ Torn /\ reported' = reported
              => /\ Cardinality(Missing') + Open' <= tears'
                 /\ tail' = "whole" => lines'[Len(lines')].id \notin reported'
<1>1. /\ TypeOK /\ tears \in Nat /\ Cardinality(Missing) \in Nat
      /\ Cardinality(Missing) + Open <= tears /\ Open \in {0, 1} /\ Open' \in {0, 1}
      /\ issued + 1 \notin reported
  <2>1. issued \in Nat /\ reported \in SUBSET (1..issued) /\ tears \in Nat
    BY DEF LossInv, TypeOK, AuditTypeOK
  <2>2. issued + 1 \notin reported
    BY <2>1
  <2> QED
    BY <2>1, <2>2, MissingFinite DEF LossInv, Open
<1>2. reported \ Ids(Kept) \subseteq Missing
  BY KeptIds DEF Missing
<1>3. reported \ Ids(Append(lines, NextEvent)) \subseteq Missing
  BY <1>1, AppendIds DEF Missing
<1>4. ASSUME Written
      PROVE  /\ Cardinality(reported \ Ids(lines')) <= tears' /\ tail' = "closed"
             /\ reported' = reported \cup {issued + 1} => Cardinality(Missing') <= tears'
  <2>1. tail' = "closed" /\ tears' = tears
    BY <1>4 DEF Written
  <2>2. CASE tail = "closed"
    <3>1. lines' = Append(lines, NextEvent)
      BY <1>4, <2>2 DEF Written
    <3>2. Cardinality(reported \ Ids(lines')) <= tears'
      BY <1>1, <1>3, <2>1, <2>2, <3>1, MissingLess DEF Open
    <3>3. ASSUME reported' = reported \cup {issued + 1} PROVE Missing' = reported \ Ids(lines')
      BY <1>1, <3>1, <3>3, AppendIds DEF Missing, Ids
    <3> QED
      BY <2>1, <3>2, <3>3
  <2>3. CASE tail # "closed"
    <3>1. lines' = Kept /\ Cardinality(Missing) + 1 <= tears
      BY <1>1, <1>4, <2>3 DEF Written, Open
    <3>2. Cardinality(reported \ Ids(lines')) <= tears'
      BY <1>1, <1>2, <2>1, <3>1, MissingLess
    <3>3. ASSUME reported' = reported \cup {issued + 1}
          PROVE  Cardinality(Missing') <= tears'
      <4>1. Missing' \subseteq Missing \cup {issued + 1}
        BY <1>2, <3>1, <3>3 DEF Missing, Ids
      <4>2. Cardinality(Missing') \in Nat /\ Cardinality(Missing') <= Cardinality(Missing) + 1
        BY <1>1, <4>1, MissingMore
      <4> QED
        BY <1>1, <2>1, <3>1, <4>2
    <3> QED
      BY <2>1, <3>2, <3>3
  <2> QED
    BY <2>2, <2>3
<1>5. ASSUME Torn, reported' = reported
      PROVE  /\ Cardinality(Missing') + Open' <= tears'
             /\ tail' = "whole" => lines'[Len(lines')].id \notin reported'
  <2>1. tears' = tears + 1
    BY <1>5 DEF Torn
  <2>2. Missing' \subseteq Missing
    BY <1>2, <1>3, <1>5 DEF Torn, Missing, Ids
  <2>3. Cardinality(Missing') + Open' <= tears'
    BY <1>1, <2>1, <2>2, MissingLess
  <2>4. ASSUME tail' = "whole" PROVE lines'[Len(lines')].id \notin reported'
    BY <1>1, <1>5, <2>4, AppendIds DEF Torn
  <2> QED
    BY <2>3, <2>4
<1> QED
  BY <1>4, <1>5

LEMMA LossInit == Init => LossInv
<1> SUFFICES ASSUME Init PROVE LossInv
  OBVIOUS
<1>1. TypeOK
  BY OrderInit DEF OrderInv
<1>2. reported = {} /\ tail = "closed" /\ tears = 0
  BY DEF Init, AuditInit
<1>3. Missing = {}
  BY <1>2 DEF Missing
<1> QED
  BY <1>1, <1>2, <1>3, FS_EmptySet DEF LossInv, Open

LEMMA LossNext == LossInv /\ TypeOK' /\ [Next]_vars => LossInv'
<1> SUFFICES ASSUME LossInv, TypeOK', [Next]_vars PROVE LossInv'
  OBVIOUS
<1>0. Cardinality(Missing') \in Nat
  <2>1. issued' \in Nat /\ reported' \in SUBSET (1..issued')
    BY DEF TypeOK, AuditTypeOK
  <2>2. 1 \in Int /\ issued' \in Int
    BY <2>1
  <2>3. IsFiniteSet(1..issued')
    BY <2>2, FS_Interval
  <2>4. Missing' = reported' \ Ids(lines)'
    BY DEF Missing
  <2>5. Missing' \in SUBSET (1..issued')
    BY <2>1, <2>4
  <2> QED
    BY <2>3, <2>5, FS_Subset, FS_CardinalityType
<1>1. ASSUME UNCHANGED <<lines, tail, reported, tears>> PROVE LossInv'
  BY <1>1 DEF LossInv, Missing, Ids, Open
<1>2. ASSUME Record PROVE LossInv'
  <2>1. Cardinality(Missing') <= tears' /\ tail' = "closed"
    BY <1>2, AppendLoss DEF Record
  <2>2. Open' = 0 /\ Cardinality(Missing') \in Nat
    BY <1>0, <2>1 DEF Open
  <2> QED
    BY <2>1, <2>2 DEF LossInv
<1>3. ASSUME Torn, reported' = reported PROVE LossInv'
  BY <1>3, AppendLoss DEF LossInv
<1>4. ASSUME RecordThrows PROVE LossInv'
  <2>1. CASE Torn
    BY <1>3, <1>4, <2>1 DEF RecordThrows, StillReported
  <2>2. CASE Unwritten
    BY <1>1, <1>4, <2>2 DEF RecordThrows, StillReported, Unwritten, file
  <2> QED
    BY <1>4, <2>1, <2>2 DEF RecordThrows
<1>5. ASSUME DieInRecord PROVE LossInv'
  <2>1. reported' = reported
    BY <1>5 DEF DieInRecord
  <2>2. CASE Torn
    BY <1>3, <2>1, <2>2
  <2>3. CASE Written
    <3>1. Cardinality(reported \ Ids(lines')) <= tears' /\ tail' = "closed"
      BY <2>3, AppendLoss
    <3>2. Missing' = reported \ Ids(lines')
      BY <2>1 DEF Missing, Ids
    <3>3. Open' = 0 /\ Cardinality(Missing') \in Nat
      BY <1>0, <3>1 DEF Open
    <3> QED
      BY <3>1, <3>2, <3>3 DEF LossInv
  <2> QED
    BY <1>5, <2>2, <2>3 DEF DieInRecord
<1>6. CASE RecordEvent
  BY <1>2, <1>4, <1>6 DEF RecordEvent
<1>7. CASE RecordForApproval
  BY <1>2, <1>7 DEF RecordForApproval
<1>8. CASE DiesInRecord
  BY <1>5, <1>8 DEF DiesInRecord
<1>9. CASE Dies
  BY <1>1, <1>9 DEF Dies, file
<1>10. CASE Restart
  BY <1>1, <1>10 DEF Restart, LoadLog, file
<1>11. CASE ClockChanges
  <2>1. UNCHANGED <<lines, tail, reported, tears>>
    BY <1>11 DEF ClockChanges, SetClock, file
  <2> QED
    BY <1>1, <2>1
<1>12. ASSUME NEW a \in ApprovalIds, CreateApproval(a) PROVE LossInv'
  BY <1>1, <1>12 DEF CreateApproval, auditVars, file
<1>13. ASSUME NEW a \in ApprovalIds, DiesInCreate(a) PROVE LossInv'
  BY <1>1, <1>13 DEF DiesInCreate, file
<1>14. ASSUME NEW a \in ApprovalIds, NEW status \in Resolution, ResolveApproval(a, status)
       PROVE  LossInv'
  BY <1>1, <1>14 DEF ResolveApproval, auditVars, file
<1>15. ASSUME NEW a \in ApprovalIds, NEW status \in Resolution, DiesInResolve(a, status)
       PROVE  LossInv'
  BY <1>1, <1>15 DEF DiesInResolve, file
<1>16. CASE UNCHANGED vars
  BY <1>1, <1>16 DEF vars, auditVars, file
<1> QED
  BY <1>6, <1>7, <1>8, <1>9, <1>10, <1>11, <1>12, <1>13, <1>14, <1>15, <1>16 DEF Next

LEMMA LossBounded == LossInv => BoundedLoss
<1> SUFFICES ASSUME LossInv PROVE BoundedLoss
  OBVIOUS
<1>1. Cardinality(Missing) \in Nat /\ Open \in {0, 1} /\ tears \in Nat
  BY MissingFinite DEF LossInv, Open, TypeOK, AuditTypeOK
<1> QED
  BY <1>1 DEF LossInv, BoundedLoss, Missing

\* Each interrupted append costs the file at most one event whose record()
\* returned (loadEventsFromFile).
THEOREM FilesBoundedLoss == Spec => []BoundedLoss
<1>1. OrderInv => TypeOK
  BY DEF OrderInv
<1> QED
  BY <1>1, OrderInit, OrderNext, LossInit, LossNext, LossBounded, PTL DEF Spec

-----------------------------------------------------------------------------
(* The event behind every approval request *)

Present(a) == requests[a] # Absent \/ (stored # Broken /\ stored[a] # Absent)

TraceInv ==
  /\ LossInv
  /\ promised # 0 => promised \in reported
  /\ \A a \in ApprovalIds : Present(a) => auditId[a] \in reported

LEMMA TraceInit == Init => TraceInv
<1> SUFFICES ASSUME Init PROVE TraceInv
  OBVIOUS
<1>1. /\ requests = NoRequests /\ stored = NoRequests /\ promised = 0
  BY DEF Init, ApprovalInit
<1>2. LossInv
  BY LossInit
<1> QED
  BY <1>1, <1>2 DEF TraceInv, Present, NoRequests

LEMMA TraceNext == TraceInv /\ LossInv' /\ [Next]_vars => TraceInv'
<1> SUFFICES ASSUME TraceInv, LossInv', [Next]_vars PROVE TraceInv'
  OBVIOUS
<1>0. /\ requests \in [ApprovalIds -> Request]
      /\ stored \in [ApprovalIds -> Request] \cup {Broken}
      /\ auditId \in [ApprovalIds -> Nat]
  BY DEF TraceInv, LossInv, TypeOK, ApprovalTypeOK
\* No request appears that was not present.
<1>1. ASSUME reported \subseteq reported', auditId' = auditId,
             promised' # 0 => promised' \in reported',
             \A a \in ApprovalIds : Present(a)' => Present(a)
      PROVE  TraceInv'
  BY <1>1 DEF TraceInv
<1>2. ASSUME UNCHANGED <<stored, auditId>>, promised' # 0 => promised' \in reported',
             reported \subseteq reported', requests' \in {requests, NoRequests, Parsed}
      PROVE  TraceInv'
  <2>1. \A a \in ApprovalIds : Present(a)' => Present(a)
    BY <1>2 DEF Present, NoRequests, Parsed
  <2> QED
    BY <1>1, <1>2, <2>1
\* One request appears, and names an event that was reported.
<1>3. ASSUME NEW a \in ApprovalIds, promised # 0, promised' = 0, reported' = reported,
             auditId' = [auditId EXCEPT ![a] = promised],
             requests' \in {Created(a), NoRequests}, WriteOK(Created(a)) \/ WriteFails
      PROVE  TraceInv'
  <2>1. ASSUME NEW b \in ApprovalIds, Present(b)' PROVE auditId'[b] \in reported'
    <3>1. CASE b = a
      BY <1>0, <1>3, <3>1 DEF TraceInv
    <3>2. CASE b # a
      <4>1. Created(a)[b] = requests[b] /\ auditId'[b] = auditId[b]
        BY <1>0, <1>3, <3>2 DEF Created
      <4>2. Present(b)
        BY <1>3, <2>1, <4>1 DEF Present, NoRequests, WriteOK, WriteFails
      <4> QED
        BY <1>3, <4>1, <4>2 DEF TraceInv
    <3> QED
      BY <3>1, <3>2
  <2> QED
    BY <1>3, <2>1 DEF TraceInv
\* A request that is present is resolved.
<1>4. ASSUME NEW a \in ApprovalIds, NEW status \in Resolution, MayResolve(a),
             UNCHANGED <<reported, auditId>>, promised' = 0,
             requests' \in {Resolved(a, status), NoRequests},
             WriteOK(Resolved(a, status)) \/ WriteFails
      PROVE  TraceInv'
  <2>1. ASSUME NEW b \in ApprovalIds, Present(b)' PROVE Present(b)
    <3>1. CASE b = a
      BY <1>4, <3>1, ApprovalConstants DEF MayResolve, Present
    <3>2. CASE b # a
      <4>1. Resolved(a, status)[b] = requests[b]
        BY <1>0, <3>2 DEF Resolved
      <4> QED
        BY <1>4, <2>1, <4>1 DEF Present, NoRequests, WriteOK, WriteFails
    <3> QED
      BY <3>1, <3>2
  <2> QED
    BY <1>1, <1>4, <2>1
<1>5. CASE RecordEvent
  BY <1>2, <1>5 DEF RecordEvent, Running, Record, RecordThrows, StillReported, approvalVars
<1>6. CASE RecordForApproval
  BY <1>2, <1>6 DEF RecordForApproval, Record, approvalVars
<1>7. CASE DiesInRecord
  BY <1>2, <1>7 DEF DiesInRecord, Stops, DieInRecord, ForgetRequests
<1>8. CASE Dies
  BY <1>2, <1>8 DEF Dies, Stops, ForgetRequests
<1>9. CASE Restart
  BY <1>2, <1>9 DEF Restart, LoadLog, LoadRequests, TraceInv
<1>10. CASE ClockChanges
  BY <1>2, <1>10 DEF ClockChanges, SetClock, approvalVars, TraceInv
<1>11. ASSUME NEW a \in ApprovalIds, CreateApproval(a) PROVE TraceInv'
  BY <1>3, <1>11 DEF CreateApproval, Create, auditVars
<1>12. ASSUME NEW a \in ApprovalIds, DiesInCreate(a) PROVE TraceInv'
  BY <1>3, <1>12 DEF DiesInCreate, DieInCreate, Stops, ForgetRequests
<1>13. ASSUME NEW a \in ApprovalIds, NEW status \in Resolution, ResolveApproval(a, status)
       PROVE  TraceInv'
  BY <1>4, <1>13 DEF ResolveApproval, ResolveRequest, Running, auditVars
<1>14. ASSUME NEW a \in ApprovalIds, NEW status \in Resolution, DiesInResolve(a, status)
       PROVE  TraceInv'
  BY <1>4, <1>14 DEF DiesInResolve, DieInResolve, Stops, ForgetRequests
<1>15. CASE UNCHANGED vars
  BY <1>2, <1>15 DEF vars, approvalVars, auditVars, TraceInv
<1> QED
  BY <1>5, <1>6, <1>7, <1>8, <1>9, <1>10, <1>11, <1>12, <1>13, <1>14, <1>15 DEF Next

LEMMA TraceAudited == TraceInv => ApprovalsAudited
<1> SUFFICES ASSUME TraceInv, NEW a \in ApprovalIds, Present(a)
             PROVE  /\ auditId[a] \in reported
                    /\ tears = 0 => auditId[a] \in Ids(lines)
  BY DEF ApprovalsAudited, Present
<1>1. auditId[a] \in reported
  BY DEF TraceInv
<1>2. ASSUME tears = 0 PROVE auditId[a] \in Ids(lines)
  <2>1. IsFiniteSet(Missing) /\ Cardinality(Missing) \in Nat /\ Open \in {0, 1}
    BY MissingFinite DEF TraceInv, LossInv, Open
  <2>2. Cardinality(Missing) = 0
    BY <1>2, <2>1 DEF TraceInv, LossInv
  <2>3. Missing = {}
    BY <2>1, <2>2, FS_EmptySet
  <2> QED
    BY <1>1, <2>3 DEF Missing
<1> QED
  BY <1>1, <1>2

\* Every approval request, wherever it is kept, names an event that was
\* recorded, and that the file holds unless an append was interrupted.
THEOREM FilesApprovalsAudited == Spec => []ApprovalsAudited
<1>1. OrderInv => TypeOK
  BY DEF OrderInv
<1> QED
  BY <1>1, OrderInit, OrderNext, LossInit, LossNext, TraceInit, TraceNext, TraceAudited,
     PTL DEF Spec

-----------------------------------------------------------------------------
(* A log that verifies is complete *)

\* Every set of natural numbers that is not empty has a least element.
LEMMA LeastNatural ==
  ASSUME NEW T \in SUBSET Nat, T # {}
  PROVE  \E m \in T : \A k \in T : m <= k
<1> DEFINE R == OpToRel(<, Nat)
<1>1. IsWellFoundedOn(R, Nat)
  BY NatLessThanWellFounded
<1>2. \A x, y \in Nat : x < y => <<x, y>> \in R
  BY DEF OpToRel
<1> HIDE DEF R
<1>3. PICK m \in T : \A y \in T : ~(<<y, m>> \in R)
  BY <1>1, WFMin
<1>4. ASSUME NEW k \in T
      PROVE  m <= k
  <2>1. ~(k < m)
    BY <1>2, <1>3
  <2> QED
    BY <2>1
<1> QED
  BY <1>4

\* The hash an event carries covers the event, and what it continues is older.
Continues(e) ==
  /\ e.hash = EventHash(e.prev, BodyOf(e))
  /\ e.prev # Genesis => e.prev[Len(e.prev)].seq < e.seq

Chained(s) == \A i \in 1..Len(s) : Continues(s[i])

\* If some event comes before s[i], by time, Previous names the last that does.
LEMMA PreviousIsLatest ==
  ASSUME NEW s \in Seq(AuditEvent), NEW i \in 1..Len(s),
         NEW b \in 1..Len(s), Before(s, b, i)
  PROVE  /\ Previous(s, i) \in 1..Len(s)
         /\ \A k \in 1..Len(s) : Before(s, k, i) => ~Before(s, Previous(s, i), k)
<1>1. Len(s) \in Nat /\ \A k \in 1..Len(s) : s[k].time \in Nat
  BY EventsTyped
<1> DEFINE B == {k \in 1..Len(s) : Before(s, k, i)}
           Ages == {s[i].time - s[k].time : k \in B}
<1>2. Ages \subseteq Nat /\ Ages # {}
  BY <1>1 DEF Before
<1>3. PICK age \in Ages : \A a \in Ages : age <= a
  BY <1>2, LeastNatural
<1>4. PICK top \in B : age = s[i].time - s[top].time
  OBVIOUS
<1>5. \A k \in B : s[k].time <= s[top].time
  <2> SUFFICES ASSUME NEW k \in B
               PROVE  s[k].time <= s[top].time
    OBVIOUS
  <2>1. s[i].time - s[top].time <= s[i].time - s[k].time
    BY <1>3, <1>4
  <2> QED
    BY <1>1, <2>1
<1> DEFINE Gaps == {Len(s) - k : k \in {k \in B : s[k].time = s[top].time}}
<1>6. Gaps \subseteq Nat /\ Gaps # {}
  BY <1>1
<1>7. PICK gap \in Gaps : \A g \in Gaps : gap <= g
  BY <1>6, LeastNatural
<1>8. PICK j \in B : s[j].time = s[top].time /\ gap = Len(s) - j
  OBVIOUS
<1>9. \A k \in B : s[k].time = s[top].time => k <= j
  <2> SUFFICES ASSUME NEW k \in B, s[k].time = s[top].time
               PROVE  k <= j
    OBVIOUS
  <2>1. Len(s) - j <= Len(s) - k
    BY <1>7, <1>8
  <2> QED
    BY <1>1, <2>1
<1> HIDE DEF Ages, Gaps
<1>10. \A k \in B : ~Before(s, j, k)
  BY <1>1, <1>5, <1>8, <1>9 DEF Before
<1>11. /\ j \in 0..Len(s) /\ j # 0 /\ Before(s, j, i)
       /\ \A k \in 1..Len(s) : Before(s, k, i) => ~Before(s, j, k)
  BY <1>1, <1>10
<1>12. /\ Previous(s, i) \in 0..Len(s)
       /\ \A k \in 1..Len(s) : Before(s, k, i) =>
            Previous(s, i) # 0 /\ ~Before(s, Previous(s, i), k)
  BY <1>11 DEF Previous
<1> QED
  BY <1>1, <1>12

\* In a log that verifies, the clock was never set back between two events:
\* sorting it by time leaves it as it is.
LEMMA VerifiedMonotone ==
  ASSUME NEW s \in Seq(AuditEvent), Chained(s), Increasing(s), Verifies(s)
  PROVE  Monotone(s)
<1>1. /\ Len(s) \in Nat
      /\ \A k \in 1..Len(s) : s[k].time \in Nat /\ s[k].seq \in Nat /\ s[k].prev \in Hash
                              /\ BodyOf(s[k]) \in Body /\ BodyOf(s[k]).seq = s[k].seq
  BY EventsTyped DEF BodyOf, Body
<1> DEFINE Inverted == {i \in 1..Len(s) : \E j \in 1..Len(s) : i < j /\ Before(s, j, i)}
<1>2. Inverted \subseteq Nat
  BY <1>1
<1>3. Inverted = {} => Monotone(s)
  BY <1>1 DEF Monotone, Before
<1>4. ASSUME Inverted # {}
      PROVE  FALSE
  <2>1. PICK i \in Inverted : \A k \in Inverted : i <= k
    BY <1>2, <1>4, LeastNatural
  <2>2. PICK j \in 1..Len(s) : i < j /\ Before(s, j, i)
    OBVIOUS
  <2> DEFINE p == Previous(s, i)
  <2>3. p \in 1..Len(s) /\ ~Before(s, p, j)
    BY <2>2, PreviousIsLatest
  <2> HIDE DEF p
  <2>4. s[i].prev = s[p].hash
    BY <2>3 DEF Verifies, LinkOK, ExpectedPrev, p
  <2>5. s[p].hash = Append(s[p].prev, BodyOf(s[p]))
    BY <2>3 DEF Chained, Continues, EventHash
  <2>6. /\ s[p].hash # Genesis
        /\ s[p].hash[Len(s[p].hash)].seq = s[p].seq
    <3>1. s[p].prev \in Seq(Body) /\ BodyOf(s[p]) \in Body /\ BodyOf(s[p]).seq = s[p].seq
      BY <1>1, <2>3 DEF Hash
    <3>2. /\ s[p].hash # <<>> /\ Len(s[p].hash) = Len(s[p].prev) + 1
          /\ s[p].hash[Len(s[p].prev) + 1] = BodyOf(s[p])
      BY <2>5, <3>1, AppendProperties
    <3> QED
      BY <3>1, <3>2 DEF Genesis
  <2>7. s[p].seq < s[i].seq
    BY <2>4, <2>6 DEF Chained, Continues
  <2>8. p < i
    BY <1>1, <2>3, <2>7 DEF Increasing
  <2>9. p < j /\ Before(s, j, p)
    BY <1>1, <2>2, <2>3, <2>8 DEF Before
  <2> QED
    BY <1>1, <2>1, <2>3, <2>8, <2>9
<1> QED
  BY <1>3, <1>4

\* The bodies of the first n events of a log.
Covered(s, n) == [k \in 1..n |-> BodyOf(s[k])]

\* In a log that verifies, each hash covers the events up to its own.
LEMMA VerifiedCovers ==
  ASSUME NEW s \in Seq(AuditEvent), Monotone(s), Verifies(s)
  PROVE  \A n \in 1..Len(s) : s[n].hash = Covered(s, n)
<1>1. Len(s) \in Nat /\ \A k \in 1..Len(s) : BodyOf(s[k]) \in Body
  BY EventsTyped DEF BodyOf, Body
<1> DEFINE Wrong == {n \in 1..Len(s) : s[n].hash # Covered(s, n)}
<1>2. Wrong \subseteq Nat
  BY <1>1
<1>3. ASSUME NEW n \in 1..Len(s), n # 1 => s[n - 1].hash = Covered(s, n - 1)
      PROVE  s[n].hash = Covered(s, n)
  <2>1. Previous(s, n) = n - 1
    BY PreviousIsPredecessor
  <2>2. ExpectedPrev(s, n) = Covered(s, n - 1)
    <3>1. CASE n = 1
      BY <2>1, <3>1 DEF ExpectedPrev, Covered, Genesis
    <3>2. CASE n # 1
      BY <1>3, <2>1, <3>2 DEF ExpectedPrev
    <3> QED
      BY <3>1, <3>2
  <2>3. s[n].hash = Append(Covered(s, n - 1), BodyOf(s[n]))
    BY <2>2 DEF Verifies, LinkOK, EventHash
  <2>4. /\ Covered(s, n - 1) \in Seq(Body) /\ Len(Covered(s, n - 1)) = n - 1
        /\ Covered(s, n) \in Seq(Body) /\ Len(Covered(s, n)) = n
    BY <1>1 DEF Covered
  <2>5. /\ s[n].hash \in Seq(Body) /\ Len(s[n].hash) = n
        /\ \A k \in 1..(n - 1) : s[n].hash[k] = Covered(s, n - 1)[k]
        /\ s[n].hash[n] = BodyOf(s[n])
    BY <1>1, <2>3, <2>4, AppendProperties
  <2>6. \A k \in 1..n : s[n].hash[k] = Covered(s, n)[k]
    BY <2>5 DEF Covered
  <2> QED
    BY <2>4, <2>5, <2>6, SeqEqual
<1>4. ASSUME Wrong # {}
      PROVE  FALSE
  <2>1. PICK n \in Wrong : \A k \in Wrong : n <= k
    BY <1>2, <1>4, LeastNatural
  <2>2. n # 1 => s[n - 1].hash = Covered(s, n - 1)
    BY <1>1, <2>1
  <2> QED
    BY <1>3, <2>2
<1> QED
  BY <1>4

\* A hash binds the log: of two logs sorted by time that verify and end in the
\* same hash, whoever wrote them, one lists the same events as the other, in the
\* same order (verifyAuditChain after sortAuditEvents).
THEOREM ChainBinds ==
  ASSUME NEW s \in Seq(AuditEvent), NEW t \in Seq(AuditEvent), s # <<>>, t # <<>>,
         Monotone(s), Monotone(t), Verifies(s), Verifies(t),
         s[Len(s)].hash = t[Len(t)].hash
  PROVE  /\ Len(s) = Len(t)
         /\ \A k \in 1..Len(s) : BodyOf(s[k]) = BodyOf(t[k])
<1>1. Len(s) \in 1..Len(s) /\ Len(t) \in 1..Len(t)
  BY EmptySeq
<1>2. Covered(s, Len(s)) = Covered(t, Len(t))
  BY <1>1, VerifiedCovers
<1>3. 1..Len(s) = 1..Len(t) /\ \A k \in 1..Len(s) : BodyOf(s[k]) = BodyOf(t[k])
  BY <1>2 DEF Covered
<1> QED
  BY <1>1, <1>3

\* Every event continues what it says it does, and the tip is not ahead.
ChainInv ==
  /\ Chained(log) /\ Chained(lines)
  /\ tip # Genesis => tip[Len(tip)].seq <= sequence

\* The next event continues the tip.
LEMMA NextContinues ==
  ASSUME OrderInv, ChainInv
  PROVE  /\ Continues(NextEvent)
         /\ NextEvent.hash # Genesis
         /\ NextEvent.hash[Len(NextEvent.hash)].seq = NextEvent.seq
<1>1. AuditTypeOK /\ tip \in Seq(Body) /\ sequence \in Nat
  BY DEF OrderInv, TypeOK, AuditTypeOK, Hash
<1>2. /\ NextEvent.seq = sequence + 1 /\ NextEvent.prev = tip
      /\ NextEvent.hash = Append(tip, BodyOf(NextEvent))
      /\ BodyOf(NextEvent) \in Body /\ BodyOf(NextEvent).seq = NextEvent.seq
  BY <1>1, NextEventType DEF EventHash, BodyOf, Body, AuditEvent
<1>3. tip # Genesis => tip[Len(tip)].seq < sequence + 1
  <2>1. ASSUME tip # Genesis
        PROVE  tip[Len(tip)].seq \in Nat
    <3>1. Len(tip) \in 1..Len(tip)
      BY <1>1, <2>1, EmptySeq DEF Genesis
    <3>2. tip[Len(tip)] \in Body
      BY <1>1, <3>1
    <3> QED
      BY <3>2 DEF Body
  <2> QED
    BY <1>1, <2>1 DEF ChainInv
<1>4. /\ NextEvent.hash # <<>> /\ Len(NextEvent.hash) = Len(tip) + 1
      /\ NextEvent.hash[Len(tip) + 1] = BodyOf(NextEvent)
  BY <1>1, <1>2, AppendProperties
<1> QED
  BY <1>2, <1>3, <1>4 DEF Continues, EventHash, Genesis

\* A log of chained events takes one more.
LEMMA AppendChained ==
  ASSUME NEW s \in Seq(AuditEvent), NEW e \in AuditEvent, Chained(s), Continues(e)
  PROVE  Chained(Append(s, e))
<1>1. /\ Len(s) \in Nat /\ Len(Append(s, e)) = Len(s) + 1
      /\ Append(s, e)[Len(s) + 1] = e /\ \A i \in 1..Len(s) : Append(s, e)[i] = s[i]
  BY AppendProperties
<1>2. \A i \in 1..Len(Append(s, e)) : i \in 1..Len(s) \/ i = Len(s) + 1
  BY <1>1
<1> QED
  BY <1>1, <1>2 DEF Chained

\* Whatever an append leaves of the file, the events in it are chained.
LEMMA FileChained ==
  ASSUME OrderInv, ChainInv, Written \/ Torn \/ Unwritten
  PROVE  Chained(lines)'
<1>1. AuditTypeOK /\ lines \in Seq(AuditEvent) /\ Chained(lines)
  BY DEF OrderInv, TypeOK, AuditTypeOK, ChainInv
<1>2. Chained(Kept)
  BY <1>1, KeptType DEF Chained
<1>3. Chained(Append(lines, NextEvent))
  BY <1>1, AppendChained, NextContinues, NextEventType
<1>4. lines' \in {lines, Kept, Append(lines, NextEvent)}
  BY DEF Written, Torn, Unwritten, file
<1>5. Chained(lines')
  BY <1>1, <1>2, <1>3, <1>4
<1> QED
  BY <1>5 DEF Chained

\* After a load the tip is the hash of the last line.
LEMMA LoadChained ==
  ASSUME OrderInv, ChainInv, LoadLog
  PROVE  ChainInv'
<1>1. /\ lines \in Seq(AuditEvent) /\ Increasing(lines) /\ Chained(lines)
      /\ log' = lines /\ lines' = lines
      /\ tip' = RestoredTip(lines) /\ sequence' = RestoredSequence(lines)
  BY DEF OrderInv, TypeOK, AuditTypeOK, Tipped, ChainInv, LoadLog, file
<1>2. tip' # Genesis => tip'[Len(tip')].seq <= sequence'
  <2>1. CASE lines = <<>>
    BY <1>1, <2>1 DEF RestoredTip
  <2>2. CASE lines # <<>>
    <3> DEFINE e == lines[Len(lines)]
    <3>1. /\ Len(lines) \in 1..Len(lines)
          /\ tip' = e.hash /\ sequence' = e.seq
      BY <1>1, <2>2, NewestIn DEF RestoredTip, RestoredSequence
    <3>2. /\ e.prev \in Seq(Body) /\ e.seq \in Nat
          /\ BodyOf(e) \in Body /\ BodyOf(e).seq = e.seq
      BY <1>1, <3>1, EventsTyped DEF BodyOf, Body, Hash
    <3>3. e.hash = Append(e.prev, BodyOf(e))
      BY <1>1, <3>1 DEF Chained, Continues, EventHash
    <3> HIDE DEF e
    <3>4. /\ Len(e.hash) = Len(e.prev) + 1
          /\ e.hash[Len(e.prev) + 1] = BodyOf(e)
      BY <3>2, <3>3, AppendProperties
    <3> QED
      BY <3>1, <3>2, <3>4
  <2> QED
    BY <2>1, <2>2
<1>3. Chained(log)' /\ Chained(lines)'
  BY <1>1 DEF Chained
<1> QED
  BY <1>2, <1>3 DEF ChainInv

LEMMA ChainInit == Init => ChainInv
<1> SUFFICES ASSUME Init
             PROVE  ChainInv
  OBVIOUS
<1>1. log = <<>> /\ lines = <<>> /\ tip = Genesis /\ Len(<<>>) = 0
  BY EmptySeq DEF Init, AuditInit
<1> QED
  BY <1>1 DEF ChainInv, Chained

\* Every step keeps every event chained.
LEMMA ChainNext == OrderInv /\ ChainInv /\ [Next]_vars => ChainInv'
<1> SUFFICES ASSUME OrderInv, ChainInv, [Next]_vars
             PROVE  ChainInv'
  OBVIOUS
<1>1. ASSUME Record \/ RecordThrows
      PROVE  ChainInv'
  <2>1. /\ log' = Append(log, NextEvent) /\ tip' = NextEvent.hash
        /\ sequence' = NextEvent.seq
        /\ Written \/ Torn \/ Unwritten
    BY <1>1 DEF Record, RecordThrows, Remember
  <2>2. Chained(lines)'
    BY <2>1, FileChained
  <2>3. log \in Seq(AuditEvent) /\ NextEvent \in AuditEvent /\ NextEvent.seq \in Nat
    BY NextEventType DEF OrderInv, TypeOK, AuditTypeOK
  <2>4. Chained(Append(log, NextEvent))
    BY <2>3, AppendChained, NextContinues DEF ChainInv
  <2>5. Chained(log)'
    BY <2>1, <2>4 DEF Chained
  <2>6. tip'[Len(tip')].seq <= sequence'
    <3>1. NextEvent.hash[Len(NextEvent.hash)].seq = NextEvent.seq
      BY NextContinues
    <3> QED
      BY <2>1, <2>3, <3>1
  <2> QED
    BY <2>2, <2>5, <2>6 DEF ChainInv
<1>2. ASSUME ForgetLog, Written \/ Torn \/ Unwritten
      PROVE  ChainInv'
  <2>1. Chained(log)'
    BY <1>2, EmptySeq DEF ForgetLog, Chained
  <2> QED
    BY <1>2, <2>1, FileChained DEF ForgetLog, ChainInv
<1>3. ASSUME ForgetLog, UNCHANGED <<file, tears>>
      PROVE  ChainInv'
  BY <1>2, <1>3 DEF Unwritten
<1>4. ASSUME UNCHANGED <<memory, file>>
      PROVE  ChainInv'
  BY <1>4 DEF ChainInv, Chained, memory, file
<1>5. CASE RecordEvent \/ RecordForApproval
  BY <1>1, <1>5 DEF RecordEvent, RecordForApproval
<1>6. CASE DiesInRecord
  BY <1>2, <1>6 DEF DiesInRecord, Stops, DieInRecord
<1>7. CASE Dies
  BY <1>3, <1>7 DEF Dies, Stops
<1>8. CASE Restart
  BY <1>8, LoadChained DEF Restart
<1>9. CASE ClockChanges
  BY <1>4, <1>9 DEF ClockChanges, SetClock
<1>10. ASSUME NEW a \in ApprovalIds, CreateApproval(a)
       PROVE  ChainInv'
  BY <1>4, <1>10 DEF CreateApproval, auditVars
<1>11. ASSUME NEW a \in ApprovalIds, DiesInCreate(a)
       PROVE  ChainInv'
  BY <1>3, <1>11 DEF DiesInCreate, Stops
<1>12. ASSUME NEW a \in ApprovalIds, NEW status \in Resolution, ResolveApproval(a, status)
       PROVE  ChainInv'
  BY <1>4, <1>12 DEF ResolveApproval, auditVars
<1>13. ASSUME NEW a \in ApprovalIds, NEW status \in Resolution, DiesInResolve(a, status)
       PROVE  ChainInv'
  BY <1>3, <1>13 DEF DiesInResolve, Stops
<1>14. CASE UNCHANGED vars
  BY <1>4, <1>14 DEF vars, auditVars
<1> QED
  BY <1>5, <1>6, <1>7, <1>8, <1>9, <1>10, <1>11, <1>12, <1>13, <1>14 DEF Next

LEMMA ChainFull == OrderInv /\ ChainInv => ValidMeansFull
<1> SUFFICES ASSUME OrderInv, ChainInv, Verifies(log)
             PROVE  tip = [i \in 1..Len(log) |-> BodyOf(log[i])]
  BY DEF ValidMeansFull
<1>1. log \in Seq(AuditEvent) /\ Increasing(log) /\ Chained(log)
  BY DEF OrderInv, TypeOK, AuditTypeOK, Tipped, ChainInv
<1>2. \A n \in 1..Len(log) : log[n].hash = Covered(log, n)
  BY <1>1, VerifiedMonotone, VerifiedCovers
<1>3. CASE log = <<>>
  BY <1>3, EmptySeq DEF OrderInv, Tipped, Genesis
<1>4. CASE log # <<>>
  <2>1. Len(log) \in 1..Len(log)
    BY <1>1, <1>4, EmptySeq
  <2> QED
    BY <1>2, <1>4, <2>1 DEF OrderInv, Tipped, Covered
<1> QED
  BY <1>3, <1>4

\* A log that verifies lists exactly the events its newest hash covers, in their
\* order, whatever was torn, lost or recorded with a clock that was set back
\* (verifyAuditChain over restoreChainTip).
THEOREM FilesValidMeansFull == Spec => []ValidMeansFull
  BY OrderInit, OrderNext, ChainInit, ChainNext, ChainFull, PTL DEF Spec
=============================================================================
