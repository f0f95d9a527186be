------------------------------ MODULE AuditFile ------------------------------
(***************************************************************************)
(* FileAuditLog (file-audit-log.ts) over AuditLog (audit-log.ts): events   *)
(* are linked into a hash chain in memory and appended to a file of lines, *)
(* from which a new process loads them.                                    *)
(*                                                                         *)
(* A hash is the sequence of the bodies it covers, so two hashes are equal *)
(* only if they cover the same events.  Of the file the model keeps what a *)
(* load finds in it: the lines that parse, and what follows the last       *)
(* newline.  A line that an interrupted append left unfinished swallows    *)
(* the next append, and a load skips the result.                           *)
(***************************************************************************)
EXTENDS Integers, Sequences, FiniteSets

CONSTANTS
  MaxEvents,  \* bounds the calls of record
  MaxTime     \* bounds the clock

ASSUME AuditBounds == MaxEvents \in Nat /\ MaxTime \in Nat

VARIABLES
  log,       \* the events in memory, in the order of the Map
  tip,       \* tipHash
  sequence,  \* the sequence number of the newest event
  lines,     \* the events a load finds in the file
  tail,      \* what follows the last newline: nothing ("closed"), part of an
             \* event ("garbled") or an event, the last of lines ("whole")
  clock,     \* the wall clock, which may be set back
  issued,    \* how many events were ever built; the n-th has id n
  reported,  \* history: events whose record() returned
  tears,     \* history: appends that stopped in the middle
  intact     \* history: no append failed or met an unfinished line, and the
             \* clock was never set back

memory == <<log, tip, sequence>>
file == <<lines, tail>>
auditVars == <<memory, file, clock, issued, reported, tears, intact>>

Body == [id : Nat, time : Nat, seq : Nat]
Hash == Seq(Body)
AuditEvent == [id : Nat, time : Nat, seq : Nat, prev : Hash, hash : Hash]

Genesis == <<>>

AuditTypeOK ==
  /\ log \in Seq(AuditEvent)
  /\ tip \in Hash
  /\ sequence \in Nat
  /\ lines \in Seq(AuditEvent)
  /\ tail \in {"closed", "garbled", "whole"}
  /\ tail = "whole" => lines # <<>>
  /\ clock \in Nat
  /\ issued \in Nat
  /\ reported \in SUBSET (1..issued)
  /\ tears \in Nat
  /\ intact \in BOOLEAN

AuditInit ==
  /\ log = <<>>
  /\ tip = Genesis
  /\ sequence = 0
  /\ lines = <<>>
  /\ tail = "closed"
  /\ clock = 0
  /\ issued = 0
  /\ reported = {}
  /\ tears = 0
  /\ intact = TRUE

-----------------------------------------------------------------------------
(* hash-chain.ts *)

BodyOf(e) == [id |-> e.id, time |-> e.time, seq |-> e.seq]

\* computeEventHash: covers the previous hash and the body with its sequence.
EventHash(prev, body) == Append(prev, body)

\* sortAuditEvents sorts by timestamp and is stable: whether s[j] comes before
\* s[i], and the place right before s[i], 0 for the first.
Before(s, j, i) == s[j].time < s[i].time \/ (s[j].time = s[i].time /\ j < i)
Previous(s, i) ==
  CHOOSE j \in 0..Len(s) :
    /\ j # 0 => Before(s, j, i)
    /\ \A k \in 1..Len(s) : Before(s, k, i) => j # 0 /\ ~Before(s, j, k)

\* expectedPrev when verifyAuditChain reaches s[i].
ExpectedPrev(s, i) == IF Previous(s, i) = 0 THEN Genesis ELSE s[Previous(s, i)].hash

\* (The mutant trusts the hashPrev an event carries.)
LinkOKBySelf(s, i) == s[i].hash = EventHash(s[i].prev, BodyOf(s[i]))
LinkOK(s, i) ==
  /\ s[i].prev = ExpectedPrev(s, i)
  /\ s[i].hash = EventHash(ExpectedPrev(s, i), BodyOf(s[i]))

\* verifyAuditChain(sortAuditEvents(events)).valid
Verifies(s) == \A i \in 1..Len(s) : LinkOK(s, i)

\* restoreChainTip: the last of the events with the highest sequence number.
Newest(s) ==
  CHOOSE i \in 1..Len(s) :
    \A j \in 1..Len(s) : s[j].seq < s[i].seq \/ (s[j].seq = s[i].seq /\ j <= i)

\* (The mutants forget the tip, and count the events.)
TipForgotten(s) == Genesis
RestoredTip(s) == IF s = <<>> THEN Genesis ELSE s[Newest(s)].hash
SequenceCounted(s) == Len(s)
RestoredSequence(s) == IF s = <<>> THEN 0 ELSE s[Newest(s)].seq

-----------------------------------------------------------------------------
(* AuditLog.record, then appendFileSync *)

NextBody == [id |-> issued + 1, time |-> clock, seq |-> sequence + 1]
NextEvent == [id |-> issued + 1, time |-> clock, seq |-> sequence + 1,
              prev |-> tip, hash |-> EventHash(tip, NextBody)]

Build == issued < MaxEvents /\ issued' = issued + 1

Remember ==
  /\ Build
  /\ log' = Append(log, NextEvent)
  /\ tip' = NextEvent.hash
  /\ sequence' = NextEvent.seq

\* The lines that still parse when an append meets an unfinished line.
Kept == IF tail = "whole" THEN SubSeq(lines, 1, Len(lines) - 1) ELSE lines

\* The append succeeds, on a line of its own or behind an unfinished one.
Written ==
  /\ lines' = IF tail = "closed" THEN Append(lines, NextEvent) ELSE Kept
  /\ tail' = "closed"
  /\ UNCHANGED tears

\* The append stops after some bytes, or just before the newline.
Torn ==
  /\ \/ lines' = Kept /\ tail' = "garbled"
     \/ tail = "closed" /\ lines' = Append(lines, NextEvent) /\ tail' = "whole"
  /\ tears' = tears + 1

Unwritten == UNCHANGED <<file, tears>>

Record ==
  /\ Remember
  /\ Written
  /\ reported' = reported \cup {issued + 1}
  /\ intact' = (intact /\ tail = "closed")
  /\ UNCHANGED clock

\* What record() tells its caller when the append throws.  (The mutant
\* swallows the error.)
ReportedAnyway == reported \cup {issued + 1}
StillReported == reported

RecordThrows ==
  /\ Remember
  /\ Torn \/ Unwritten
  /\ reported' = StillReported
  /\ intact' = FALSE
  /\ UNCHANGED clock

\* The process dies in record, with any part of the line written.
DieInRecord ==
  /\ Build
  /\ Written \/ Torn
  /\ UNCHANGED <<reported, intact, clock>>

\* A process that is down has no memory; a new one loads the file.
ForgetLog == log' = <<>> /\ tip' = Genesis /\ sequence' = 0

LoadLog ==
  /\ log' = lines
  /\ tip' = RestoredTip(lines)
  /\ sequence' = RestoredSequence(lines)
  /\ UNCHANGED <<file, clock, issued, reported, tears, intact>>

SetClock(t) ==
  /\ clock' = t
  /\ intact' = (intact /\ t >= clock)
  /\ UNCHANGED <<memory, file, issued, reported, tears>>

-----------------------------------------------------------------------------

Ids(s) == {s[i].id : i \in 1..Len(s)}

\* A log that was not disturbed verifies after any number of restarts, crashes
\* in the middle of an append included (verifyChain of FileAuditLog).
ChainVerifies == intact => Verifies(log) /\ Verifies(lines)

\* Sequence numbers increase along the log and along the file, whatever
\* appends failed and whatever lines were lost (restoreChainTip).
Increasing(s) == \A i, j \in 1..Len(s) : i < j => s[i].seq < s[j].seq
SequenceOrder == Increasing(log) /\ Increasing(lines)

\* What an interrupted append can cost: each makes the file lose at most one
\* event whose record() had returned (loadEventsFromFile skips corrupt lines).
BoundedLoss == Cardinality(reported \ Ids(lines)) <= tears

\* A log that verifies is complete: the newest hash covers exactly the events
\* that are listed, in their order (verifyAuditChain).
ValidMeansFull ==
  Verifies(log) => tip = [i \in 1..Len(log) |-> BodyOf(log[i])]
=============================================================================
