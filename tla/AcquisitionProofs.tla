------------------------- MODULE AcquisitionProofs -------------------------
(***************************************************************************)
(* Theorems about Acquisition, for every set of pages, hosts, cycles and   *)
(* workers and every value of the limits.                                  *)
(***************************************************************************)
EXTENDS Acquisition, FiniteSetTheorems, TLAPS

LEMMA ConstantTypes ==
    /\ LeaseTicks \in Nat /\ RateLimitTicks \in Nat /\ DnsTicks \in Nat
    /\ RetryAfterCap \in Nat /\ MaxAttempts \in Nat \ {0} /\ StrikeLimit \in Nat \ {0}
    /\ RetryAfters \cup {0} \subseteq Nat
    /\ \A s \in Sources : HostOf[s] \in Hosts
    /\ Outcomes \subseteq RunStatuses
  BY ConstantsAssumption DEF RunStatuses

LEMMA AttemptParts ==
    ASSUME NEW a \in Attempts
    PROVE  /\ SourceOf(a) \in Sources /\ CycleOf(a) \in Cycles
           /\ NumberOf(a) \in 1..MaxAttempts
           /\ a = <<SourceOf(a), CycleOf(a), NumberOf(a)>>
  BY DEF Attempts, SourceOf, CycleOf, NumberOf

LEMMA AttemptOfParts ==
    ASSUME NEW s \in Sources, NEW c \in Cycles, NEW n \in 1..MaxAttempts
    PROVE  /\ <<s, c, n>> \in Attempts
           /\ SourceOf(<<s, c, n>>) = s /\ CycleOf(<<s, c, n>>) = c /\ NumberOf(<<s, c, n>>) = n
  BY DEF Attempts, SourceOf, CycleOf, NumberOf

LEMMA BackoffType ==
    ASSUME NEW n \in 1..MaxAttempts, NEW r \in RetryAfters \cup {0}
    PROVE  Backoff(n, r) \in Nat
  <1>1. CASE r = 0
    BY <1>1, BackoffAssumption
  <1>2. CASE r > 0
    <2>1. r \in Nat /\ RetryAfterCap \in Nat
      BY ConstantTypes
    <2> QED
      BY <1>2, <2>1 DEF Backoff, Greatest, Least
  <1> QED
    BY <1>1, <1>2, ConstantTypes

(* A row is inserted into, or taken out of, the order of the queued rows.    *)
LEMMA SpliceType ==
    ASSUME NEW S, NEW s \in Seq(S), NEW new \in Seq(S), NEW k \in 0..Len(s)
    PROVE  SubSeq(s, 1, k) \o new \o SubSeq(s, k + 1, Len(s)) \in Seq(S)
  OBVIOUS

LEMMA RemoveType ==
    ASSUME NEW S, NEW s \in Seq(S), NEW i \in 1..Len(s)
    PROVE  SubSeq(s, 1, i - 1) \o SubSeq(s, i + 1, Len(s)) \in Seq(S)
  OBVIOUS

LEMMA LineUpType ==
    ASSUME NEW new \in Seq(Attempts), NEW delay \in Nat, line \in Seq(Attempts),
           LineUp(new, delay)
    PROVE  line' \in Seq(Attempts)
  BY SpliceType DEF LineUp

Rows == [state : AttemptStates, wait : Nat, ttl : Nat, gen : Nat, token : Nat]

LEMMA RowTypes ==
    /\ Absent \in Rows
    /\ \A row \in Rows : Taken(row) \in Rows
    /\ \A delay \in Nat : Queued(delay) \in Rows
    /\ \A row \in Rows, state \in AttemptStates : Close(row, state) \in Rows
  <1>1. /\ Absent \in Rows
        /\ \A delay \in Nat : Queued(delay) \in Rows
        /\ \A row \in Rows, state \in AttemptStates : Close(row, state) \in Rows
    BY DEF Rows, Absent, Queued, Close, AttemptStates
  <1>2. ASSUME NEW row \in Rows
        PROVE  Taken(row) \in Rows
    <2>1. row.gen + 1 \in Nat /\ LeaseTicks \in Nat /\ "RUNNING" \in AttemptStates
      BY ConstantTypes DEF Rows, AttemptStates
    <2> QED
      BY <2>1 DEF Taken, Rows
  <1> QED
    BY <1>1, <1>2

----------------------------------------------------------------------------
(* Type correctness *)

LEMMA PageDoneType ==
    ASSUME TypeOK, NEW w \in Workers, PageDone(w)
    PROVE  /\ pc' \in [Workers -> {"off", "ready", "leased"}]
           /\ cyc' \in [Workers -> Cycles \cup {NoCycle}]
           /\ lease' \in [Workers -> Leases \cup {NoLease}]
           /\ \A v \in Workers : pc'[v] = "leased" =>
                 v # w /\ pc[v] = "leased" /\ lease'[v] = lease[v]
           /\ \A v \in Workers : pc'[v] = "leased" => lease'[v] \in Leases
  BY DEF PageDone, TypeOK

LEMMA FinaliseType ==
    ASSUME TypeOK, NEW a \in Attempts, NEW status \in RunStatuses, NEW token \in Nat,
           Finalise(a, status, token)
    PROVE  /\ att' \in [Attempts -> Rows]
           /\ runs' \subseteq [attempt : Attempts, status : RunStatuses, token : Nat]
  <1>1. Close(att[a], "FINALIZED") \in Rows
    BY RowTypes DEF TypeOK, Rows, AttemptStates
  <1>2. att' \in [Attempts -> Rows]
    BY <1>1 DEF Finalise, TypeOK, Rows
  <1>3. runs' \subseteq [attempt : Attempts, status : RunStatuses, token : Nat]
    BY DEF Finalise, RunOf, TypeOK
  <1> QED
    BY <1>2, <1>3

LEMMA FinaliseAndRetryType ==
    ASSUME TypeOK, NEW a \in Attempts, NEW status \in RunStatuses, NEW token \in Nat,
           NEW delay \in Nat, FinaliseAndRetry(a, status, token, delay)
    PROVE  /\ att' \in [Attempts -> Rows]
           /\ runs' \subseteq [attempt : Attempts, status : RunStatuses, token : Nat]
           /\ line' \in Seq(Attempts)
  <1>1. PICK highest \in 1..MaxAttempts :
           IF highest = MaxAttempts
             THEN Finalise(a, status, token) /\ UNCHANGED line
             ELSE /\ att' = [att EXCEPT ![a] = Close(@, "FINALIZED"),
                                        ![<<SourceOf(a), CycleOf(a), highest + 1>>] = Queued(delay)]
                  /\ runs' = runs \cup {RunOf(a, status, token)}
                  /\ LineUp(<<<<SourceOf(a), CycleOf(a), highest + 1>>>>, delay)
    BY DEF FinaliseAndRetry
  <1>2. CASE highest = MaxAttempts
    BY <1>1, <1>2, FinaliseType DEF TypeOK
  <1>3. CASE highest # MaxAttempts
    <2> DEFINE next == <<SourceOf(a), CycleOf(a), highest + 1>>
    <2>1. next \in Attempts
      BY <1>3, AttemptParts, AttemptOfParts, ConstantTypes
    <2>2. Close(att[a], "FINALIZED") \in Rows /\ Queued(delay) \in Rows
      BY RowTypes DEF TypeOK, Rows, AttemptStates
    <2>3. att' \in [Attempts -> Rows]
      <3> HIDE DEF next
      <3>1. att' = [att EXCEPT ![a] = Close(@, "FINALIZED"), ![next] = Queued(delay)]
        BY <1>1, <1>3 DEF next
      <3>2. att \in [Attempts -> Rows]
        BY DEF TypeOK, Rows
      <3> QED
        BY <2>1, <2>2, <3>1, <3>2
    <2>4. runs' \subseteq [attempt : Attempts, status : RunStatuses, token : Nat]
      BY <1>1, <1>3 DEF RunOf, TypeOK
    <2>5. line' \in Seq(Attempts)
      <3>1. <<next>> \in Seq(Attempts)
        BY <2>1
      <3> QED
        BY <1>1, <1>3, <3>1, LineUpType DEF TypeOK
    <2> QED
      BY <2>3, <2>4, <2>5
  <1> QED
    BY <1>2, <1>3

LEMMA RecordType ==
    ASSUME TypeOK, NEW w \in Workers, NEW o \in Outcomes, NEW r \in RetryAfters \cup {0},
           Record(w, o, r)
    PROVE  TypeOK'
  <1> DEFINE a == lease[w].attempt
             s == SourceOf(a)
  <1>1. /\ a \in Attempts /\ lease[w].token \in Nat /\ s \in Sources
        /\ NumberOf(a) \in 1..MaxAttempts /\ HostOf[s] \in Hosts
    BY AttemptParts, ConstantTypes DEF Record, TypeOK, Leases
  <1>2. o \in RunStatuses /\ r \in Nat
    BY ConstantTypes
  <1>3. /\ pc' \in [Workers -> {"off", "ready", "leased"}]
        /\ cyc' \in [Workers -> Cycles \cup {NoCycle}]
        /\ lease' \in [Workers -> Leases \cup {NoLease}]
        /\ \A v \in Workers : pc'[v] = "leased" => lease'[v] \in Leases
        /\ audits' \in Nat
    BY PageDoneType DEF Record, TypeOK
  <1>4. /\ Backoff(NumberOf(a), r) \in Nat
        /\ Greatest(Backoff(NumberOf(a), 0), DnsTicks) \in Nat
    <2>1. Backoff(NumberOf(a), 0) \in Nat /\ Backoff(NumberOf(a), r) \in Nat
      BY <1>1, BackoffType
    <2> QED
      BY <2>1, ConstantTypes DEF Greatest
  <1>5. /\ att' \in [Attempts -> Rows]
        /\ runs' \subseteq [attempt : Attempts, status : RunStatuses, token : Nat]
        /\ line' \in Seq(Attempts)
    <2>1. CASE RecordSuccess(w, o)
      BY <1>1, <1>2, <2>1, FinaliseType DEF RecordSuccess, TypeOK
    <2>2. CASE RecordRateLimited(w, o, r)
      <3>1. CASE Finalise(a, o, lease[w].token) /\ UNCHANGED line
        BY <1>1, <1>2, <3>1, FinaliseType DEF TypeOK
      <3>2. CASE \E delay \in Nat : FinaliseAndRetry(a, o, lease[w].token, delay)
        BY <1>1, <1>2, <3>2, FinaliseAndRetryType
      <3> QED
        BY <2>2, <3>1, <3>2, <1>2, ConstantTypes DEF RecordRateLimited
    <2>3. CASE RecordDnsTemporary(w, o)
      BY <1>1, <1>2, <1>4, <2>3, FinaliseAndRetryType DEF RecordDnsTemporary
    <2>4. CASE RecordParking(w, o)
      BY <1>1, <1>2, <2>4, FinaliseType DEF RecordParking, TypeOK
    <2>5. CASE RecordFailure(w, o, r)
      <3>1. CASE Finalise(a, o, lease[w].token) /\ UNCHANGED line
        BY <1>1, <1>2, <3>1, FinaliseType DEF TypeOK
      <3>2. CASE FinaliseAndRetry(a, o, lease[w].token, Backoff(NumberOf(a), r))
        BY <1>1, <1>2, <1>4, <3>2, FinaliseAndRetryType
      <3> QED
        BY <2>5, <3>1, <3>2 DEF RecordFailure
    <2> QED
      BY <2>1, <2>2, <2>3, <2>4, <2>5 DEF Record
  <1>6. /\ elig' \in [Sources -> Eligibilities]
        /\ access' \in [Sources -> {"OK", "BLOCKED"}]
    BY <1>1 DEF Record, RecordSuccess, RecordRateLimited, RecordDnsTemporary, RecordParking,
                RecordFailure, Judge, TypeOK, Eligibilities
  <1>7. /\ cool' \in [Sources -> Nat]
        /\ strikes' \in [Sources -> Nat]
        /\ hostCool' \in [Hosts -> Nat]
    <2>1. CASE RecordSuccess(w, o)
      BY <2>1, <1>1 DEF RecordSuccess, TypeOK
    <2>2. CASE RecordRateLimited(w, o, r)
      <3> DEFINE delay == IF r > 0 THEN r ELSE RateLimitTicks
      <3>1. delay \in Nat
        BY <1>2, ConstantTypes
      <3>2. Greatest(hostCool[HostOf[s]], delay) \in Nat
        BY <3>1, <1>1 DEF Greatest, TypeOK
      <3>3. /\ strikes'  = [strikes EXCEPT ![s] = @ + 1]
            /\ cool'     = [cool EXCEPT ![s] = delay]
            /\ hostCool' = [hostCool EXCEPT ![HostOf[s]] = Greatest(@, delay)]
        BY <2>2 DEF RecordRateLimited
      <3> HIDE DEF delay
      <3> QED
        BY <3>1, <3>2, <3>3, <1>1 DEF TypeOK
    <2>3. CASE RecordDnsTemporary(w, o)
      BY <2>3, <1>1, <1>4 DEF RecordDnsTemporary, TypeOK
    <2>4. CASE RecordParking(w, o)
      BY <2>4 DEF RecordParking, TypeOK
    <2>5. CASE RecordFailure(w, o, r)
      BY <2>5 DEF RecordFailure, TypeOK
    <2> QED
      BY <2>1, <2>2, <2>3, <2>4, <2>5 DEF Record
  <1> QED
    BY <1>3, <1>5, <1>6, <1>7 DEF TypeOK, Rows

LEMMA EnqueueType ==
    ASSUME TypeOK, NEW c \in Cycles, NEW pages \in SUBSET Sources, Enqueue(c, pages)
    PROVE  TypeOK'
  <1>1. Cardinality(pages) \in Nat
    BY ConstantsAssumption, FS_Subset, FS_CardinalityType
  <1>2. {<<s, c, 1>> : s \in pages} \subseteq Attempts
    BY ConstantTypes DEF Attempts
  <1>3. line' \in Seq(Attempts)
    <2>1. PICK order \in [1..Cardinality(pages) -> {<<s, c, 1>> : s \in pages}] :
             LineUp(order, 0)
      BY DEF Enqueue
    <2>2. order \in Seq(Attempts)
      BY <1>1, <1>2
    <2> QED
      BY <2>1, <2>2, LineUpType DEF TypeOK
  <1>4. att' \in [Attempts -> Rows]
    BY RowTypes DEF Enqueue, TypeOK, Rows
  <1> QED
    BY <1>3, <1>4 DEF Enqueue, TypeOK, Rows, sourceVars, workerVars

LEMMA ClaimType ==
    ASSUME TypeOK, NEW w \in Workers, Claim(w)
    PROVE  TypeOK'
  <1>1. PICK i \in 1..Len(line) :
           /\ att' = [att EXCEPT ![line[i]] = Taken(att[line[i]])]
           /\ lease' = [lease EXCEPT ![w] = [attempt |-> line[i], token |-> att[line[i]].gen + 1]]
           /\ line' = SubSeq(line, 1, i - 1) \o SubSeq(line, i + 1, Len(line))
    BY DEF Claim
  <1>2. line[i] \in Attempts
    BY DEF TypeOK
  <1>3. att' \in [Attempts -> Rows]
    <2>1. att \in [Attempts -> Rows] /\ att[line[i]] \in Rows
      BY <1>2 DEF TypeOK, Rows
    <2>2. Taken(att[line[i]]) \in Rows
      BY <2>1, RowTypes
    <2> QED
      BY <1>1, <2>1, <2>2
  <1>4. line' \in Seq(Attempts)
    BY <1>1, RemoveType DEF TypeOK
  <1>5. [attempt |-> line[i], token |-> att[line[i]].gen + 1] \in Leases
    BY <1>2 DEF TypeOK, Leases
  <1>6. /\ lease' \in [Workers -> Leases \cup {NoLease}]
        /\ \A v \in Workers : pc'[v] = "leased" => lease'[v] \in Leases
    BY <1>1, <1>5 DEF Claim, TypeOK
  <1> QED
    BY <1>3, <1>4, <1>6 DEF Claim, TypeOK, Rows, sourceVars

(* The steps that end an attempt otherwise, or touch one row of the queue.   *)
LEMMA ContainType ==
    ASSUME TypeOK, NEW w \in Workers, ContainInternalError(w)
    PROVE  TypeOK'
  <1>1. lease[w].attempt \in Attempts /\ lease[w].token \in Nat
    BY DEF ContainInternalError, TypeOK, Leases
  <1>2. "INTERNAL_ERROR" \in RunStatuses
    BY DEF RunStatuses
  <1> QED
    BY <1>1, <1>2, FinaliseType, PageDoneType
       DEF ContainInternalError, TypeOK, Rows, sourceVars

LEMMA ReleaseType ==
    ASSUME TypeOK, NEW w \in Workers, Release(w)
    PROVE  TypeOK'
  <1> DEFINE a == lease[w].attempt
  <1>1. a \in Attempts /\ att \in [Attempts -> Rows] /\ att[a].gen \in Nat
    BY DEF Release, TypeOK, Rows, Leases
  <1>2. [Queued(0) EXCEPT !.gen = att[a].gen] \in Rows
    BY <1>1, RowTypes DEF Rows
  <1>3. att' \in [Attempts -> Rows]
    BY <1>1, <1>2 DEF Release
  <1>4. <<a>> \in Seq(Attempts)
    BY <1>1
  <1>5. line' \in Seq(Attempts)
    BY <1>4, LineUpType DEF Release, TypeOK
  <1> QED
    BY <1>3, <1>5 DEF Release, TypeOK, Rows, sourceVars, workerVars

LEMMA HeartbeatType ==
    ASSUME TypeOK, NEW w \in Workers, Heartbeat(w)
    PROVE  TypeOK'
  <1>1. lease[w].attempt \in Attempts /\ att \in [Attempts -> Rows]
    BY DEF Heartbeat, TypeOK, Rows, Leases
  <1>2. att' \in [Attempts -> Rows]
    BY <1>1, ConstantTypes DEF Heartbeat, Rows
  <1> QED
    BY <1>2 DEF Heartbeat, TypeOK, Rows, sourceVars, workerVars

LEMMA SweepType ==
    ASSUME TypeOK, NEW swept \in SUBSET Expired, Sweep(swept)
    PROVE  TypeOK'
  <1>1. \A a \in Attempts : Close(att[a], "ABANDONED") \in Rows
    BY RowTypes DEF TypeOK, Rows, AttemptStates
  <1>2. att' \in [Attempts -> Rows]
    BY <1>1 DEF Sweep, TypeOK, Rows
  <1>3. runs' \subseteq [attempt : Attempts, status : RunStatuses, token : Nat]
    BY DEF Sweep, RunOf, RunStatuses, Expired, TypeOK
  <1> QED
    BY <1>2, <1>3 DEF Sweep, TypeOK, Rows, sourceVars, workerVars

LEMMA TickType ==
    ASSUME TypeOK, Tick
    PROVE  TypeOK'
  <1>1. \A n \in Nat : Elapse(n) \in Nat
    BY DEF Elapse
  <1>2. att' \in [Attempts -> Rows]
    <2>1. \A a \in Attempts :
             [att[a] EXCEPT !.wait = Elapse(@), !.ttl = Elapse(@)] \in Rows
      BY <1>1 DEF TypeOK, Rows
    <2> QED
      BY <2>1 DEF Tick
  <1>3. cool' \in [Sources -> Nat] /\ hostCool' \in [Hosts -> Nat]
    BY <1>1 DEF Tick, TypeOK
  <1> QED
    BY <1>2, <1>3 DEF Tick, TypeOK, Rows, workerVars

LEMMA OperatorType ==
    ASSUME TypeOK, NEW s \in Sources, Operator(s)
    PROVE  TypeOK'
  <1>1. /\ UNCHANGED <<att, line, runs, pc, cyc, lease>>
        /\ audits' \in Nat
    BY DEF Operator, Reenable, Disable, MarkNeedsReview, ClearCooldown, Audited, TypeOK,
           attemptVars, workerVars
  <1>2. elig' \in [Sources -> Eligibilities] /\ access' \in [Sources -> {"OK", "BLOCKED"}]
    BY DEF Operator, Reenable, Disable, MarkNeedsReview, ClearCooldown, TypeOK, Eligibilities
  <1>3. CASE Reenable(s)
    BY <1>1, <1>2, <1>3 DEF Reenable, TypeOK
  <1>4. CASE Disable(s) \/ MarkNeedsReview(s)
    BY <1>1, <1>2, <1>4 DEF Disable, MarkNeedsReview, TypeOK
  <1>5. CASE \E includeHost \in BOOLEAN : ClearCooldown(s, includeHost)
    <2>1. strikes' = strikes /\ cool' = [cool EXCEPT ![s] = 0]
      BY <1>5 DEF ClearCooldown
    <2>2. hostCool' = hostCool \/ hostCool' = [hostCool EXCEPT ![HostOf[s]] = 0]
      BY <1>5 DEF ClearCooldown
    <2>3. cool' \in [Sources -> Nat] /\ strikes' \in [Sources -> Nat]
      BY <2>1 DEF TypeOK
    <2>4. hostCool' \in [Hosts -> Nat]
      BY <2>2 DEF TypeOK
    <2> QED
      BY <1>1, <1>2, <2>3, <2>4 DEF TypeOK
  <1> QED
    BY <1>3, <1>4, <1>5 DEF Operator

LEMMA WorkerType ==
    ASSUME TypeOK, NEW w \in Workers,
           \/ \E c \in Cycles : StartRun(w, c)
           \/ EndRun(w) \/ LoseLease(w) \/ LeaveUnrecorded(w) \/ Crash(w)
    PROVE  TypeOK'
  <1>1. CASE \E c \in Cycles : StartRun(w, c)
    BY <1>1 DEF StartRun, TypeOK, attemptVars, sourceVars
  <1>2. CASE EndRun(w)
    BY <1>2 DEF EndRun, TypeOK, attemptVars, sourceVars
  <1>3. CASE LoseLease(w) \/ LeaveUnrecorded(w)
    BY <1>3, PageDoneType DEF LoseLease, LeaveUnrecorded, TypeOK, attemptVars, sourceVars
  <1>4. CASE Crash(w)
    BY <1>4 DEF Crash, TypeOK, attemptVars, sourceVars
  <1> QED
    BY <1>1, <1>2, <1>3, <1>4

LEMMA TypeStep == TypeOK /\ [Next]_vars => TypeOK'
  <1> SUFFICES ASSUME TypeOK, [Next]_vars PROVE TypeOK'
    OBVIOUS
  <1>1. CASE \E c \in Cycles, pages \in SUBSET Sources : Enqueue(c, pages)
    BY <1>1, EnqueueType
  <1>2. ASSUME NEW w \in Workers,
               \/ \E c \in Cycles : StartRun(w, c)
               \/ Claim(w) \/ EndRun(w)
               \/ Heartbeat(w) \/ Release(w)
               \/ Answer(w) \/ ContainInternalError(w)
               \/ LoseLease(w) \/ LeaveUnrecorded(w) \/ Crash(w)
        PROVE  TypeOK'
    BY <1>2, ClaimType, HeartbeatType, ReleaseType, RecordType, ContainType, WorkerType
       DEF Answer
  <1>3. CASE \E swept \in SUBSET Expired : Sweep(swept)
    BY <1>3, SweepType
  <1>4. CASE \E s \in Sources : Operator(s)
    BY <1>4, OperatorType
  <1>5. CASE Tick
    BY <1>5, TickType
  <1>6. CASE UNCHANGED vars
    BY <1>6 DEF vars, attemptVars, sourceVars, workerVars, TypeOK
  <1> QED
    BY <1>1, <1>2, <1>3, <1>4, <1>5, <1>6 DEF Next

(* Every variable keeps its type, whatever the pages, workers and limits.    *)
THEOREM TypeCorrect == Spec => []TypeOK
  <1>1. Init => TypeOK
    BY DEF Init, TypeOK, Absent, AttemptStates, Eligibilities
  <1> QED
    BY <1>1, TypeStep, PTL DEF Spec

----------------------------------------------------------------------------
(* The fence: one terminal run per attempt, written by nobody but the holder *)
(* of its last lease or the sweeper.  A fence alone is not inductive: a      *)
(* freshly minted token must be known to be nobody's, which TokensOK says.   *)

FenceInv == TypeOK /\ TokensOK /\ OneTerminalRun /\ NoStaleWriter

(* What a step may do to a row it does not end: leave what the fence reads,  *)
(* or open it.                                                               *)
Kept(a) == /\ att'[a].state = att[a].state
           /\ att'[a].gen = att[a].gen
           /\ att'[a].token = att[a].token

Opened(a) == /\ ~Exists(a)
             /\ att'[a].state = "QUEUED" /\ att'[a].gen = 0 /\ att'[a].token = 0

(* A step that only keeps rows or opens them, and gives nobody a lease.      *)
LEMMA KeepingStep ==
    ASSUME FenceInv, TypeOK', UNCHANGED runs,
           \A a \in Attempts : Kept(a) \/ Opened(a),
           \A w \in Workers : pc'[w] = "leased" => pc[w] = "leased" /\ lease'[w] = lease[w]
    PROVE  FenceInv'
  <1>1. \A w \in Workers : pc[w] = "leased" => lease[w].attempt \in Attempts
                                             /\ lease[w].token \in Nat
    BY DEF FenceInv, TypeOK, Leases
  <1>2. TokensOK'
    <2>1. ASSUME NEW a \in Attempts
          PROVE  /\ ~Exists(a)' => att'[a].gen = 0
                 /\ att'[a].state = "QUEUED" => att'[a].token = 0
                 /\ att'[a].state \in Terminal \cup {"RUNNING"}
                       => att'[a].gen > 0 /\ att'[a].token = att'[a].gen
      BY DEF FenceInv, TokensOK, Kept, Opened, Exists, Terminal
    <2>2. ASSUME NEW w \in Workers, pc'[w] = "leased"
          PROVE  lease'[w].token > 0 /\ lease'[w].token <= att'[lease'[w].attempt].gen
      BY <2>2, <1>1 DEF FenceInv, TokensOK, Kept, Opened
    <2>3. ASSUME NEW v \in Workers, NEW w \in Workers,
                 pc'[v] = "leased", pc'[w] = "leased", lease'[v] = lease'[w]
          PROVE  v = w
      BY <2>3 DEF FenceInv, TokensOK
    <2> QED
      BY <2>1, <2>2, <2>3 DEF TokensOK
  <1>3. OneTerminalRun'
    BY DEF FenceInv, OneTerminalRun, Kept, Opened, Exists, Terminal
  <1>4. NoStaleWriter'
    <2> SUFFICES ASSUME NEW r \in runs, r.status # "ABANDONED"
                 PROVE  r.token > 0 /\ r.token = att'[r.attempt].token
      BY DEF NoStaleWriter
    <2>1. r.attempt \in Attempts
      BY DEF FenceInv, TypeOK
    <2>2. att[r.attempt].state \in Terminal
      BY <2>1 DEF FenceInv, OneTerminalRun
    <2>3. Kept(r.attempt)
      BY <2>1, <2>2 DEF Opened, Exists, Terminal
    <2> QED
      BY <2>3 DEF Kept, FenceInv, NoStaleWriter
  <1> QED
    BY <1>2, <1>3, <1>4 DEF FenceInv

(* A holder ends its attempt, and may open the next one. *)
LEMMA EndingFacts ==
    ASSUME TypeOK, NEW a \in Attempts, NEW status \in RunStatuses, NEW token \in Nat,
           \/ Finalise(a, status, token)
           \/ \E delay \in Nat : FinaliseAndRetry(a, status, token, delay),
           Exists(a)
    PROVE  /\ att'[a].state = "FINALIZED"
           /\ att'[a].gen = att[a].gen /\ att'[a].token = att[a].token
           /\ \A b \in Attempts \ {a} : Kept(b) \/ Opened(b)
           /\ runs' = runs \cup {RunOf(a, status, token)}
  <1>1. att \in [Attempts -> Rows]
    BY DEF TypeOK, Rows
  <1>2. CASE Finalise(a, status, token)
    BY <1>1, <1>2 DEF Finalise, Close, Kept, Rows
  <1>3. ASSUME NEW delay \in Nat, FinaliseAndRetry(a, status, token, delay),
               ~Finalise(a, status, token)
        PROVE  /\ att'[a].state = "FINALIZED"
               /\ att'[a].gen = att[a].gen /\ att'[a].token = att[a].token
               /\ \A b \in Attempts \ {a} : Kept(b) \/ Opened(b)
               /\ runs' = runs \cup {RunOf(a, status, token)}
    <2>1. PICK next \in Attempts :
             /\ ~Exists(next)
             /\ att' = [att EXCEPT ![a] = Close(@, "FINALIZED"), ![next] = Queued(delay)]
             /\ runs' = runs \cup {RunOf(a, status, token)}
      <3>1. PICK highest \in 1..MaxAttempts :
               /\ highest # MaxAttempts
               /\ \A n \in (highest + 1)..MaxAttempts :
                      ~Exists(<<SourceOf(a), CycleOf(a), n>>)
               /\ att' = [att EXCEPT ![a] = Close(@, "FINALIZED"),
                                     ![<<SourceOf(a), CycleOf(a), highest + 1>>] = Queued(delay)]
               /\ runs' = runs \cup {RunOf(a, status, token)}
        BY <1>3 DEF FinaliseAndRetry
      <3>2. highest + 1 \in (highest + 1)..MaxAttempts /\ highest + 1 \in 1..MaxAttempts
        BY <3>1, ConstantTypes
      <3>3. <<SourceOf(a), CycleOf(a), highest + 1>> \in Attempts
        BY <3>2, AttemptParts, AttemptOfParts
      <3> QED
        BY <3>1, <3>2, <3>3
    <2>2. next # a
      BY <2>1 DEF Exists
    <2>3. \A b \in Attempts :
             att'[b] = IF b = next THEN Queued(delay)
                       ELSE IF b = a THEN Close(att[a], "FINALIZED") ELSE att[b]
      BY <2>1, <2>2, <1>1
    <2>4. /\ Close(att[a], "FINALIZED").state = "FINALIZED"
          /\ Close(att[a], "FINALIZED").gen = att[a].gen
          /\ Close(att[a], "FINALIZED").token = att[a].token
      BY <1>1 DEF Close, Rows
    <2>5. Queued(delay).state = "QUEUED" /\ Queued(delay).gen = 0 /\ Queued(delay).token = 0
      BY DEF Queued, Absent
    <2> QED
      BY <2>1, <2>2, <2>3, <2>4, <2>5 DEF Kept, Opened
  <1> QED
    BY <1>2, <1>3

LEMMA EndingStep ==
    ASSUME FenceInv, TypeOK', NEW w \in Workers, pc[w] = "leased", Fence(lease[w]),
           NEW status \in RunStatuses \ {"ABANDONED"},
           \/ Finalise(lease[w].attempt, status, lease[w].token)
           \/ \E delay \in Nat : FinaliseAndRetry(lease[w].attempt, status, lease[w].token, delay),
           PageDone(w)
    PROVE  FenceInv'
  <1> DEFINE a == lease[w].attempt
  <1>1. /\ a \in Attempts /\ lease[w].token \in Nat
        /\ att[a].state = "RUNNING" /\ att[a].token = lease[w].token
    BY DEF FenceInv, TypeOK, Leases, Fence
  <1>2. /\ att'[a].state = "FINALIZED"
        /\ att'[a].gen = att[a].gen /\ att'[a].token = att[a].token
        /\ \A b \in Attempts \ {a} : Kept(b) \/ Opened(b)
        /\ runs' = runs \cup {RunOf(a, status, lease[w].token)}
    BY <1>1, EndingFacts DEF FenceInv, Exists
  <1>3. \A v \in Workers : pc'[v] = "leased" =>
           v # w /\ pc[v] = "leased" /\ lease'[v] = lease[v]
    BY PageDoneType DEF FenceInv
  <1>4. TokensOK'
    <2>1. ASSUME NEW b \in Attempts
          PROVE  /\ ~Exists(b)' => att'[b].gen = 0
                 /\ att'[b].state = "QUEUED" => att'[b].token = 0
                 /\ att'[b].state \in Terminal \cup {"RUNNING"}
                       => att'[b].gen > 0 /\ att'[b].token = att'[b].gen
      BY <1>1, <1>2 DEF FenceInv, TokensOK, Kept, Opened, Exists, Terminal
    <2>2. ASSUME NEW v \in Workers, pc'[v] = "leased"
          PROVE  lease'[v].token > 0 /\ lease'[v].token <= att'[lease'[v].attempt].gen
      <3>1. lease[v].attempt \in Attempts /\ lease[v].token \in Nat
        BY <1>3, <2>2 DEF FenceInv, TypeOK, Leases
      <3> QED
        BY <1>2, <1>3, <2>2, <3>1 DEF FenceInv, TokensOK, Kept, Opened
    <2>3. ASSUME NEW u \in Workers, NEW v \in Workers,
                 pc'[u] = "leased", pc'[v] = "leased", lease'[u] = lease'[v]
          PROVE  u = v
      BY <1>3, <2>3 DEF FenceInv, TokensOK
    <2> QED
      BY <2>1, <2>2, <2>3 DEF TokensOK
  <1>5. OneTerminalRun'
    <2> DEFINE new == RunOf(a, status, lease[w].token)
    <2>1. new.attempt = a /\ new.status # "ABANDONED"
      BY DEF RunOf
    <2>2. {r \in runs : r.attempt = a} = {}
      BY <1>1 DEF FenceInv, OneTerminalRun, Terminal
    <2>3. {r \in runs' : r.attempt = a} = {new}
      BY <1>2, <2>1, <2>2
    <2>4. \A b \in Attempts \ {a} :
             {r \in runs' : r.attempt = b} = {r \in runs : r.attempt = b}
      BY <1>2, <2>1
    <2>5. ASSUME NEW b \in Attempts \ {a}
          PROVE  IF att'[b].state \in Terminal
                   THEN \E r \in {q \in runs' : q.attempt = b} :
                           /\ {q \in runs' : q.attempt = b} = {r}
                           /\ r.status = "ABANDONED" <=> att'[b].state = "ABANDONED"
                   ELSE {q \in runs' : q.attempt = b} = {}
      BY <1>2, <2>4 DEF FenceInv, OneTerminalRun, Kept, Opened, Exists, Terminal
    <2>6. /\ att'[a].state \in Terminal /\ att'[a].state # "ABANDONED"
          /\ new \in {r \in runs' : r.attempt = a}
      BY <1>2, <2>3 DEF Terminal
    <2> QED
      BY <2>1, <2>3, <2>5, <2>6 DEF OneTerminalRun
  <1>6. NoStaleWriter'
    <2> SUFFICES ASSUME NEW r \in runs', r.status # "ABANDONED"
                 PROVE  r.token > 0 /\ r.token = att'[r.attempt].token
      BY DEF NoStaleWriter
    <2>1. CASE r = RunOf(a, status, lease[w].token)
      BY <1>1, <1>2, <2>1 DEF RunOf, FenceInv, TokensOK
    <2>2. CASE r \in runs
      <3>1. r.attempt \in Attempts
        BY <2>2 DEF FenceInv, TypeOK
      <3>2. att[r.attempt].state \in Terminal
        BY <2>2, <3>1 DEF FenceInv, OneTerminalRun
      <3>3. r.attempt # a /\ Kept(r.attempt)
        BY <1>1, <1>2, <3>1, <3>2 DEF Opened, Exists, Terminal
      <3> QED
        BY <2>2, <3>3 DEF Kept, FenceInv, NoStaleWriter
    <2> QED
      BY <1>2, <2>1, <2>2
  <1> QED
    BY <1>4, <1>5, <1>6 DEF FenceInv

(* The claim mints a token newer than anybody's. *)
LEMMA ClaimStep ==
    ASSUME FenceInv, TypeOK', NEW w \in Workers, NEW a \in Attempts,
           pc[w] = "ready", att[a].state = "QUEUED", UNCHANGED runs,
           att' = [att EXCEPT ![a] = Taken(att[a])],
           lease' = [lease EXCEPT ![w] = [attempt |-> a, token |-> att[a].gen + 1]],
           pc' = [pc EXCEPT ![w] = "leased"]
    PROVE  FenceInv'
  <1>1. att \in [Attempts -> Rows] /\ lease \in [Workers -> Leases \cup {NoLease}]
        /\ pc \in [Workers -> {"off", "ready", "leased"}]
    BY DEF FenceInv, TypeOK, Rows
  <1>2. /\ att'[a].state = "RUNNING"
        /\ att'[a].gen = att[a].gen + 1 /\ att'[a].token = att[a].gen + 1
        /\ \A b \in Attempts \ {a} : att'[b] = att[b]
        /\ \A b \in Attempts : att[b].gen \in Nat
    BY <1>1 DEF Taken, Rows
  <1>3. /\ lease'[w].attempt = a /\ lease'[w].token = att[a].gen + 1
        /\ \A v \in Workers \ {w} : lease'[v] = lease[v] /\ pc'[v] = pc[v]
    BY <1>1
  <1>4. \A v \in Workers : pc[v] = "leased" => lease[v].attempt \in Attempts
                                             /\ lease[v].token \in Nat
    BY DEF FenceInv, TypeOK, Leases
  <1>5. TokensOK'
    <2>1. ASSUME NEW b \in Attempts
          PROVE  /\ ~Exists(b)' => att'[b].gen = 0
                 /\ att'[b].state = "QUEUED" => att'[b].token = 0
                 /\ att'[b].state \in Terminal \cup {"RUNNING"}
                       => att'[b].gen > 0 /\ att'[b].token = att'[b].gen
      <3>1. CASE b = a
        BY <1>2, <3>1 DEF Exists
      <3>2. CASE b # a
        BY <1>2, <3>2 DEF FenceInv, TokensOK, Exists
      <3> QED
        BY <3>1, <3>2
    <2>2. ASSUME NEW v \in Workers, pc'[v] = "leased"
          PROVE  lease'[v].token > 0 /\ lease'[v].token <= att'[lease'[v].attempt].gen
      <3>1. CASE v = w
        BY <1>2, <1>3, <3>1
      <3>2. CASE v # w
        <4>1. pc[v] = "leased" /\ lease'[v] = lease[v] /\ lease[v].attempt \in Attempts
              /\ lease[v].token \in Nat
          BY <1>3, <1>4, <2>2, <3>2
        <4>2. lease[v].token > 0 /\ lease[v].token <= att[lease[v].attempt].gen
          BY <4>1 DEF FenceInv, TokensOK
        <4>3. att[lease[v].attempt].gen <= att'[lease[v].attempt].gen
              /\ att'[lease[v].attempt].gen \in Nat
          BY <1>2, <4>1
        <4> QED
          BY <1>2, <4>1, <4>2, <4>3
      <3> QED
        BY <3>1, <3>2
    <2>3. ASSUME NEW v \in Workers, v # w, pc'[v] = "leased"
          PROVE  lease'[v] # lease'[w]
      <3>1. pc[v] = "leased" /\ lease'[v] = lease[v] /\ lease[v].attempt \in Attempts
            /\ lease[v].token \in Nat
        BY <1>3, <1>4, <2>3
      <3>2. lease[v].token <= att[lease[v].attempt].gen
        BY <3>1 DEF FenceInv, TokensOK
      <3>3. lease[v].attempt = a => lease[v].token # att[a].gen + 1
        BY <1>2, <3>1, <3>2
      <3> QED
        BY <1>3, <3>1, <3>3
    <2>4. ASSUME NEW u \in Workers, NEW v \in Workers,
                 pc'[u] = "leased", pc'[v] = "leased", lease'[u] = lease'[v]
          PROVE  u = v
      <3>1. CASE u = w \/ v = w
        BY <2>3, <2>4, <3>1
      <3>2. CASE u # w /\ v # w
        BY <1>3, <2>4, <3>2 DEF FenceInv, TokensOK
      <3> QED
        BY <3>1, <3>2
    <2> QED
      BY <2>1, <2>2, <2>4 DEF TokensOK
  <1>6. OneTerminalRun'
    <2> SUFFICES ASSUME NEW b \in Attempts
                 PROVE  IF att'[b].state \in Terminal
                          THEN \E r \in {q \in runs : q.attempt = b} :
                                  /\ {q \in runs : q.attempt = b} = {r}
                                  /\ r.status = "ABANDONED" <=> att'[b].state = "ABANDONED"
                          ELSE {q \in runs : q.attempt = b} = {}
      BY DEF OneTerminalRun
    <2>1. CASE b = a
      BY <1>2, <2>1 DEF FenceInv, OneTerminalRun, Terminal
    <2>2. CASE b # a
      BY <1>2, <2>2 DEF FenceInv, OneTerminalRun
    <2> QED
      BY <2>1, <2>2
  <1>7. NoStaleWriter'
    <2> SUFFICES ASSUME NEW r \in runs, r.status # "ABANDONED"
                 PROVE  r.token > 0 /\ r.token = att'[r.attempt].token
      BY DEF NoStaleWriter
    <2>1. r.attempt \in Attempts
      BY DEF FenceInv, TypeOK
    <2>2. att[r.attempt].state \in Terminal
      BY <2>1 DEF FenceInv, OneTerminalRun
    <2>3. att'[r.attempt] = att[r.attempt]
      BY <1>2, <2>1, <2>2 DEF Terminal
    <2> QED
      BY <2>3 DEF FenceInv, NoStaleWriter
  <1> QED
    BY <1>5, <1>6, <1>7 DEF FenceInv

(* A release takes the token away, and keeps the generation. *)
LEMMA ReleaseStep ==
    ASSUME FenceInv, TypeOK', NEW w \in Workers, Release(w)
    PROVE  FenceInv'
  <1> DEFINE a == lease[w].attempt
  <1>1. a \in Attempts /\ att \in [Attempts -> Rows] /\ att[a].state = "RUNNING"
    BY DEF FenceInv, TypeOK, Leases, Rows, Release, Fence
  <1>2. /\ att'[a].state = "QUEUED" /\ att'[a].gen = att[a].gen /\ att'[a].token = 0
        /\ \A b \in Attempts \ {a} : att'[b] = att[b]
    BY <1>1 DEF Release, Queued, Absent
  <1>3. UNCHANGED <<runs, pc, cyc, lease>>
    BY DEF Release, workerVars
  <1>4. TokensOK'
    <2>1. \A b \in Attempts : att'[b].gen = att[b].gen
      BY <1>2
    <2>2. \A v \in Workers : pc[v] = "leased" => lease[v].attempt \in Attempts
      BY DEF FenceInv, TypeOK, Leases
    <2>3. ASSUME NEW b \in Attempts
          PROVE  /\ ~Exists(b)' => att'[b].gen = 0
                 /\ att'[b].state = "QUEUED" => att'[b].token = 0
                 /\ att'[b].state \in Terminal \cup {"RUNNING"}
                       => att'[b].gen > 0 /\ att'[b].token = att'[b].gen
      BY <1>2 DEF FenceInv, TokensOK, Exists, Terminal
    <2> QED
      BY <1>3, <2>1, <2>2, <2>3 DEF FenceInv, TokensOK
  <1>5. OneTerminalRun'
    BY <1>1, <1>2, <1>3 DEF FenceInv, OneTerminalRun, Terminal
  <1>6. NoStaleWriter'
    <2> SUFFICES ASSUME NEW r \in runs, r.status # "ABANDONED"
                 PROVE  r.token > 0 /\ r.token = att'[r.attempt].token
      BY <1>3 DEF NoStaleWriter
    <2>1. r.attempt \in Attempts
      BY DEF FenceInv, TypeOK
    <2>2. att[r.attempt].state \in Terminal
      BY <2>1 DEF FenceInv, OneTerminalRun
    <2>3. att'[r.attempt] = att[r.attempt]
      BY <1>1, <1>2, <2>1, <2>2 DEF Terminal
    <2> QED
      BY <2>3 DEF FenceInv, NoStaleWriter
  <1> QED
    BY <1>4, <1>5, <1>6 DEF FenceInv

(* The sweeper ends rows that have no run yet, and writes one for each. *)
LEMMA SweepStep ==
    ASSUME FenceInv, TypeOK', NEW swept \in SUBSET Expired, Sweep(swept)
    PROVE  FenceInv'
  <1>1. /\ swept \subseteq Attempts /\ att \in [Attempts -> Rows]
        /\ \A a \in swept : att[a].state = "RUNNING"
    BY DEF FenceInv, TypeOK, Rows, Expired
  <1>2. /\ \A a \in swept : /\ att'[a].state = "ABANDONED"
                            /\ att'[a].gen = att[a].gen /\ att'[a].token = att[a].token
        /\ \A a \in Attempts \ swept : att'[a] = att[a]
    BY <1>1 DEF Sweep, Close, Rows
  <1>3. UNCHANGED <<pc, cyc, lease>>
    BY DEF Sweep, workerVars
  <1>4. runs' = runs \cup {RunOf(a, "ABANDONED", 0) : a \in swept}
    BY DEF Sweep
  <1>5. TokensOK'
    <2>1. \A b \in Attempts : att'[b].gen = att[b].gen /\ att'[b].token = att[b].token
      BY <1>2
    <2>2. \A v \in Workers : pc[v] = "leased" => lease[v].attempt \in Attempts
      BY DEF FenceInv, TypeOK, Leases
    <2>3. ASSUME NEW b \in Attempts
          PROVE  /\ ~Exists(b)' => att'[b].gen = 0
                 /\ att'[b].state = "QUEUED" => att'[b].token = 0
                 /\ att'[b].state \in Terminal \cup {"RUNNING"}
                       => att'[b].gen > 0 /\ att'[b].token = att'[b].gen
      BY <1>1, <1>2, <2>1 DEF FenceInv, TokensOK, Exists, Terminal
    <2> QED
      BY <1>3, <2>1, <2>2, <2>3 DEF FenceInv, TokensOK
  <1>6. OneTerminalRun'
    <2> SUFFICES ASSUME NEW b \in Attempts
                 PROVE  IF att'[b].state \in Terminal
                          THEN \E r \in {q \in runs' : q.attempt = b} :
                                  /\ {q \in runs' : q.attempt = b} = {r}
                                  /\ r.status = "ABANDONED" <=> att'[b].state = "ABANDONED"
                          ELSE {q \in runs' : q.attempt = b} = {}
      BY DEF OneTerminalRun
    <2>1. CASE b \in swept
      <3> DEFINE new == RunOf(b, "ABANDONED", 0)
      <3>1. {q \in runs : q.attempt = b} = {}
        BY <1>1, <2>1 DEF FenceInv, OneTerminalRun, Terminal
      <3>2. {q \in runs' : q.attempt = b} = {new}
        BY <1>4, <2>1, <3>1 DEF RunOf
      <3>3. new.status = "ABANDONED" /\ att'[b].state = "ABANDONED"
        BY <1>2, <2>1 DEF RunOf
      <3> QED
        BY <3>2, <3>3 DEF Terminal
    <2>2. CASE b \notin swept
      <3>1. {q \in runs' : q.attempt = b} = {q \in runs : q.attempt = b}
        BY <1>4, <2>2 DEF RunOf
      <3> QED
        BY <1>2, <2>2, <3>1 DEF FenceInv, OneTerminalRun
    <2> QED
      BY <2>1, <2>2
  <1>7. NoStaleWriter'
    <2> SUFFICES ASSUME NEW r \in runs', r.status # "ABANDONED"
                 PROVE  r.token > 0 /\ r.token = att'[r.attempt].token
      BY DEF NoStaleWriter
    <2>1. r \in runs
      BY <1>4 DEF RunOf
    <2>2. r.attempt \in Attempts
      BY <2>1 DEF FenceInv, TypeOK
    <2> QED
      BY <1>2, <2>1, <2>2 DEF FenceInv, NoStaleWriter
  <1> QED
    BY <1>5, <1>6, <1>7 DEF FenceInv

(* What an answer writes, seen from the fence. *)
LEMMA RecordStep ==
    ASSUME FenceInv, TypeOK', NEW w \in Workers, NEW o \in Outcomes,
           NEW r \in RetryAfters \cup {0}, Record(w, o, r)
    PROVE  FenceInv'
  <1> DEFINE a == lease[w].attempt
  <1>1. a \in Attempts /\ NumberOf(a) \in 1..MaxAttempts
    BY AttemptParts DEF Record, FenceInv, TypeOK, Leases
  <1>2. o \in RunStatuses \ {"ABANDONED"} /\ r \in Nat
    BY ConstantTypes, ConstantsAssumption DEF AllOutcomes
  <1>3. /\ Backoff(NumberOf(a), r) \in Nat
        /\ Greatest(Backoff(NumberOf(a), 0), DnsTicks) \in Nat
    <2>1. Backoff(NumberOf(a), 0) \in Nat /\ Backoff(NumberOf(a), r) \in Nat
      BY <1>1, BackoffType
    <2> QED
      BY <2>1, ConstantTypes DEF Greatest
  <1>4. \/ Finalise(a, o, lease[w].token)
        \/ \E delay \in Nat : FinaliseAndRetry(a, o, lease[w].token, delay)
    <2>1. CASE RecordSuccess(w, o)
      BY <2>1 DEF RecordSuccess
    <2>2. CASE RecordRateLimited(w, o, r)
      BY <2>2, <1>2, ConstantTypes DEF RecordRateLimited
    <2>3. CASE RecordDnsTemporary(w, o)
      BY <2>3, <1>3 DEF RecordDnsTemporary
    <2>4. CASE RecordParking(w, o)
      BY <2>4 DEF RecordParking
    <2>5. CASE RecordFailure(w, o, r)
      BY <2>5, <1>3 DEF RecordFailure
    <2> QED
      BY <2>1, <2>2, <2>3, <2>4, <2>5 DEF Record
  <1> QED
    BY <1>2, <1>4, EndingStep DEF Record

LEMMA FenceStep == FenceInv /\ [Next]_vars => FenceInv'
  <1> SUFFICES ASSUME FenceInv, [Next]_vars PROVE FenceInv'
    OBVIOUS
  <1>0. TypeOK'
    BY TypeStep DEF FenceInv
  <1>1. CASE \E c \in Cycles, pages \in SUBSET Sources : Enqueue(c, pages)
    <2>1. PICK c \in Cycles, pages \in SUBSET Sources : Enqueue(c, pages)
      BY <1>1
    <2>2. ASSUME NEW a \in Attempts
          PROVE  Kept(a) \/ Opened(a)
      <3>1. CASE CycleOf(a) = c /\ NumberOf(a) = 1 /\ SourceOf(a) \in pages
        <4>1. att'[a] = Queued(0)
          BY <2>1, <3>1 DEF Enqueue
        <4>2. a = <<SourceOf(a), c, 1>> /\ 1 \in 1..MaxAttempts
          BY <3>1, AttemptParts, ConstantTypes
        <4>3. ~Exists(a)
          BY <2>1, <3>1, <4>2 DEF Enqueue, Enqueueable
        <4> QED
          BY <4>1, <4>3 DEF Opened, Queued, Absent
      <3>2. CASE ~(CycleOf(a) = c /\ NumberOf(a) = 1 /\ SourceOf(a) \in pages)
        BY <2>1, <3>2 DEF Enqueue, Kept
      <3> QED
        BY <3>1, <3>2
    <2>3. UNCHANGED <<runs, pc, lease>>
      BY <2>1 DEF Enqueue, workerVars
    <2> QED
      BY <1>0, <2>2, <2>3, KeepingStep
  <1>2. ASSUME NEW w \in Workers, \/ \E c \in Cycles : StartRun(w, c)
                                  \/ EndRun(w) \/ LoseLease(w) \/ LeaveUnrecorded(w) \/ Crash(w)
        PROVE  FenceInv'
    <2>1. UNCHANGED <<att, runs>>
      BY <1>2 DEF StartRun, EndRun, LoseLease, LeaveUnrecorded, Crash, attemptVars
    <2>2. \A v \in Workers : pc'[v] = "leased" => pc[v] = "leased" /\ lease'[v] = lease[v]
      BY <1>2, PageDoneType
         DEF StartRun, EndRun, LoseLease, LeaveUnrecorded, Crash, FenceInv, TypeOK
    <2>3. \A a \in Attempts : Kept(a)
      BY <2>1 DEF Kept
    <2> QED
      BY <1>0, <2>1, <2>2, <2>3, KeepingStep
  <1>3. ASSUME NEW w \in Workers, Claim(w)
        PROVE  FenceInv'
    <2>1. PICK i \in 1..Len(line) :
             /\ InRun(w, i)
             /\ att' = [att EXCEPT ![line[i]] = Taken(att[line[i]])]
             /\ lease' = [lease EXCEPT ![w] = [attempt |-> line[i], token |-> att[line[i]].gen + 1]]
      BY <1>3 DEF Claim
    <2>2. line[i] \in Attempts /\ att[line[i]].state = "QUEUED"
      BY <2>1 DEF InRun, Claimable, FenceInv, TypeOK
    <2>3. UNCHANGED runs /\ pc[w] = "ready" /\ pc' = [pc EXCEPT ![w] = "leased"]
      BY <1>3 DEF Claim
    <2> QED
      BY <1>0, <2>1, <2>2, <2>3, ClaimStep
  <1>4. ASSUME NEW w \in Workers, Heartbeat(w)
        PROVE  FenceInv'
    <2>1. \A a \in Attempts : Kept(a)
      BY <1>4 DEF Heartbeat, Kept, FenceInv, TypeOK
    <2> QED
      BY <1>0, <1>4, <2>1, KeepingStep DEF Heartbeat, workerVars
  <1>5. ASSUME NEW w \in Workers, ContainInternalError(w)
        PROVE  FenceInv'
    <2>1. "INTERNAL_ERROR" \in RunStatuses \ {"ABANDONED"}
      BY DEF RunStatuses
    <2> QED
      BY <1>0, <1>5, <2>1, EndingStep DEF ContainInternalError
  <1>6. ASSUME NEW s \in Sources, Operator(s)
        PROVE  FenceInv'
    <2>1. UNCHANGED <<att, runs, pc, lease>>
      BY <1>6 DEF Operator, Reenable, Disable, MarkNeedsReview, ClearCooldown, Audited,
                  attemptVars, workerVars
    <2> QED
      BY <1>0, <2>1, KeepingStep DEF Kept
  <1>7. CASE Tick
    <2>1. \A a \in Attempts : Kept(a)
      BY <1>7 DEF Tick, Kept, FenceInv, TypeOK
    <2> QED
      BY <1>0, <1>7, <2>1, KeepingStep DEF Tick, workerVars
  <1>8. CASE UNCHANGED vars
    BY <1>0, <1>8, KeepingStep DEF vars, attemptVars, workerVars, Kept
  <1> QED
    BY <1>0, <1>1, <1>2, <1>3, <1>4, <1>5, <1>6, <1>7, <1>8, ReleaseStep, RecordStep, SweepStep
       DEF Next, Answer

LEMMA FenceInit == Init => FenceInv
  <1> SUFFICES ASSUME Init PROVE FenceInv
    OBVIOUS
  <1>1. TypeOK
    BY DEF Init, TypeOK, Absent, AttemptStates, Eligibilities
  <1>2. TokensOK
    BY DEF Init, TokensOK, Absent, Exists, Terminal
  <1>3. OneTerminalRun /\ NoStaleWriter
    BY DEF Init, OneTerminalRun, NoStaleWriter, Absent, Terminal
  <1> QED
    BY <1>1, <1>2, <1>3 DEF FenceInv

LEMMA FenceInvariant == Spec => []FenceInv
  BY FenceInit, FenceStep, PTL DEF Spec

(* Every attempt that is over has exactly one run, whoever raced to end it   *)
(* (lease.py:27-36).                                                         *)
THEOREM EveryAttemptEndsOnce == Spec => []OneTerminalRun
  <1>1. FenceInv => OneTerminalRun
    BY DEF FenceInv
  <1> QED
    BY <1>1, FenceInvariant, PTL

(* A worker that lost its lease writes nothing (lease.py:11-25). *)
THEOREM StaleWorkersWriteNothing == Spec => []NoStaleWriter
  <1>1. FenceInv => NoStaleWriter
    BY DEF FenceInv
  <1> QED
    BY <1>1, FenceInvariant, PTL

(* At most one worker holds a lease of an attempt that passes the fence. *)
THEOREM AtMostOneHolder == Spec => []OneHolder
  <1>1. FenceInv => OneHolder
    <2> SUFFICES ASSUME FenceInv, NEW v \in Workers, NEW w \in Workers,
                        pc[v] = "leased", Fence(lease[v]), pc[w] = "leased", Fence(lease[w]),
                        lease[v].attempt = lease[w].attempt
                 PROVE  v = w
      BY DEF OneHolder
    <2>1. lease[v] \in Leases /\ lease[w] \in Leases
      BY DEF FenceInv, TypeOK
    <2>2. lease[v].token = lease[w].token
      BY DEF Fence
    <2>3. lease[v] = lease[w]
      BY <2>1, <2>2 DEF Leases
    <2> QED
      BY <2>3 DEF FenceInv, TokensOK
  <1> QED
    BY <1>1, FenceInvariant, PTL

----------------------------------------------------------------------------
(* Judgements: what people and machines may do to a source *)

LEMMA ParkedStep == TypeOK /\ ParkedStaysParked /\ [Next]_vars => ParkedStaysParked'
  <1> SUFFICES ASSUME TypeOK, ParkedStaysParked, [Next]_vars PROVE ParkedStaysParked'
    OBVIOUS
  <1>1. ASSUME UNCHANGED <<elig, access, strikes>>
        PROVE  ParkedStaysParked'
    BY <1>1 DEF ParkedStaysParked
  <1>2. ASSUME NEW w \in Workers, NEW o \in Outcomes, NEW r \in RetryAfters \cup {0},
               Record(w, o, r)
        PROVE  ParkedStaysParked'
    <2> DEFINE s == SourceOf(lease[w].attempt)
    <2>1. s \in Sources
      BY <1>2, AttemptParts DEF Record, TypeOK, Leases
    <2>2. CASE RecordSuccess(w, o)
      BY <2>1, <2>2, ConstantTypes DEF RecordSuccess, ParkedStaysParked, TypeOK
    <2>3. CASE RecordRateLimited(w, o, r)
      <3>1. strikes' = [strikes EXCEPT ![s] = @ + 1] /\ access' = access
        BY <2>3 DEF RecordRateLimited
      <3>2. CASE strikes[s] + 1 >= StrikeLimit
        <4>1. Judge(s, "NEEDS_MANUAL_REVIEW")
          BY <2>3, <3>2 DEF RecordRateLimited
        <4> QED
          BY <2>1, <3>1, <4>1 DEF Judge, ParkedStaysParked, TypeOK
      <3>3. CASE ~(strikes[s] + 1 >= StrikeLimit)
        <4>1. elig' = elig
          BY <2>3, <3>3 DEF RecordRateLimited
        <4> QED
          BY <2>1, <3>1, <3>3, <4>1 DEF ParkedStaysParked, TypeOK
      <3> QED
        BY <3>2, <3>3
    <2>4. CASE RecordParking(w, o)
      BY <2>1, <2>4 DEF RecordParking, Judge, ParkedStaysParked, TypeOK
    <2>5. CASE RecordDnsTemporary(w, o) \/ RecordFailure(w, o, r)
      BY <1>1, <2>5 DEF RecordDnsTemporary, RecordFailure
    <2> QED
      BY <1>2, <2>2, <2>3, <2>4, <2>5 DEF Record
  <1>3. ASSUME NEW s \in Sources, Operator(s)
        PROVE  ParkedStaysParked'
    <2>1. CASE Reenable(s)
      BY <2>1, ConstantTypes DEF Reenable, ParkedStaysParked, TypeOK
    <2>2. CASE Disable(s) \/ MarkNeedsReview(s)
      BY <2>2 DEF Disable, MarkNeedsReview, ParkedStaysParked, TypeOK
    <2>3. CASE \E includeHost \in BOOLEAN : ClearCooldown(s, includeHost)
      BY <1>1, <2>3 DEF ClearCooldown
    <2> QED
      BY <1>3, <2>1, <2>2, <2>3 DEF Operator
  <1>4. CASE \E c \in Cycles, pages \in SUBSET Sources : Enqueue(c, pages)
    BY <1>1, <1>4 DEF Enqueue, sourceVars
  <1>5. ASSUME NEW w \in Workers,
               \/ \E c \in Cycles : StartRun(w, c)
               \/ Claim(w) \/ EndRun(w) \/ Heartbeat(w) \/ Release(w)
               \/ ContainInternalError(w) \/ LoseLease(w) \/ LeaveUnrecorded(w) \/ Crash(w)
        PROVE  ParkedStaysParked'
    BY <1>1, <1>5 DEF StartRun, Claim, EndRun, Heartbeat, Release, ContainInternalError,
                      LoseLease, LeaveUnrecorded, Crash, sourceVars
  <1>6. CASE \E swept \in SUBSET Expired : Sweep(swept)
    BY <1>1, <1>6 DEF Sweep, sourceVars
  <1>7. CASE Tick \/ UNCHANGED vars
    BY <1>1, <1>7 DEF Tick, vars, sourceVars
  <1> QED
    BY <1>2, <1>3, <1>4, <1>5, <1>6, <1>7 DEF Next, Answer

(* A refusal, or too many strikes, keeps a source out of the queue until a   *)
(* person re-enables it, and a re-enable leaves nothing of the refusal.      *)
THEOREM ParkedUntilReenabled == Spec => []ParkedStaysParked
  <1>1. Init => ParkedStaysParked
    BY ConstantTypes DEF Init, ParkedStaysParked
  <1> QED
    BY <1>1, ParkedStep, TypeCorrect, PTL DEF Spec

(* No step but an audited command moves a source somebody has judged. *)
THEOREM MachinesNeverOverride == Spec => OnlyPeopleOverride
  <1>1. ASSUME TypeOK, [Next]_vars
        PROVE  [\A s \in Sources :
                  elig[s] # "FETCHABLE" /\ <<elig[s], access[s]>>' # <<elig[s], access[s]>>
                  => audits' = audits + 1]_vars
    <2>1. CASE \E w \in Workers, o \in Outcomes, r \in RetryAfters \cup {0} : Record(w, o, r)
      BY <1>1, <2>1 DEF Record, RecordSuccess, RecordRateLimited, RecordDnsTemporary,
                        RecordParking, RecordFailure, Judge, TypeOK
    <2>2. CASE \E s \in Sources : Operator(s)
      BY <2>2 DEF Operator, Reenable, Disable, MarkNeedsReview, ClearCooldown, Audited
    <2>3. CASE UNCHANGED <<elig, access>>
      BY <2>3
    <2>4. CASE \E c \in Cycles, pages \in SUBSET Sources : Enqueue(c, pages)
      BY <2>3, <2>4 DEF Enqueue, sourceVars
    <2>5. ASSUME NEW w \in Workers,
                 \/ \E c \in Cycles : StartRun(w, c)
                 \/ Claim(w) \/ EndRun(w) \/ Heartbeat(w) \/ Release(w)
                 \/ ContainInternalError(w) \/ LoseLease(w) \/ LeaveUnrecorded(w) \/ Crash(w)
          PROVE  UNCHANGED <<elig, access>>
      BY <2>5 DEF StartRun, Claim, EndRun, Heartbeat, Release, ContainInternalError,
                  LoseLease, LeaveUnrecorded, Crash, sourceVars
    <2>6. CASE \/ \E swept \in SUBSET Expired : Sweep(swept)
               \/ Tick \/ UNCHANGED vars
      BY <2>3, <2>6 DEF Sweep, Tick, vars, sourceVars
    <2> QED
      BY <1>1, <2>1, <2>2, <2>3, <2>4, <2>5, <2>6 DEF Next, Answer
  <1> QED
    BY <1>1, TypeCorrect, PTL DEF Spec, OnlyPeopleOverride

(* An answer never shortens the pause of a host. *)
THEOREM PausesOnlyExtend == Spec => HostPauseOnlyExtends
  <1>1. ASSUME TypeOK, [Next]_vars
        PROVE  [\A h \in Hosts : hostCool'[h] < hostCool[h]
                   => Tick \/ audits' = audits + 1]_vars
    <2> DEFINE Extended == \A h \in Hosts : hostCool'[h] < hostCool[h]
                                          => Tick \/ audits' = audits + 1
    <2>1. ASSUME UNCHANGED hostCool PROVE Extended
      BY <1>1, <2>1 DEF TypeOK
    <2>2. ASSUME NEW w \in Workers, NEW o \in Outcomes, NEW r \in RetryAfters \cup {0},
                 Record(w, o, r)
          PROVE  Extended
      <3>1. r \in Nat /\ RateLimitTicks \in Nat /\ hostCool \in [Hosts -> Nat]
        BY <1>1, ConstantTypes DEF TypeOK
      <3>2. CASE RecordRateLimited(w, o, r)
        BY <3>1, <3>2 DEF RecordRateLimited, Greatest
      <3>3. CASE UNCHANGED hostCool
        BY <3>1, <3>3
      <3> QED
        BY <2>2, <3>2, <3>3 DEF Record, RecordSuccess, RecordDnsTemporary, RecordParking,
                                RecordFailure
    <2>3. ASSUME NEW s \in Sources, Operator(s) PROVE Extended
      BY <2>3 DEF Operator, Reenable, Disable, MarkNeedsReview, ClearCooldown, Audited
    <2>4. ASSUME NEW c \in Cycles, NEW pages \in SUBSET Sources, Enqueue(c, pages)
          PROVE  Extended
      BY <2>1, <2>4 DEF Enqueue, sourceVars
    <2>5. ASSUME NEW w \in Workers,
                 \/ \E c \in Cycles : StartRun(w, c)
                 \/ Claim(w) \/ EndRun(w) \/ Heartbeat(w) \/ Release(w)
                 \/ ContainInternalError(w) \/ LoseLease(w) \/ LeaveUnrecorded(w) \/ Crash(w)
          PROVE  Extended
      BY <2>1, <2>5 DEF StartRun, Claim, EndRun, Heartbeat, Release, ContainInternalError,
                  LoseLease, LeaveUnrecorded, Crash, sourceVars
    <2>6. ASSUME NEW swept \in SUBSET Expired, Sweep(swept) PROVE Extended
      BY <2>1, <2>6 DEF Sweep, sourceVars
    <2>7. Next => Extended
      BY <2>2, <2>3, <2>4, <2>5, <2>6 DEF Next, Answer
    <2> QED
      BY <1>1, <2>7
  <1> QED
    BY <1>1, TypeCorrect, PTL DEF Spec, HostPauseOnlyExtends

----------------------------------------------------------------------------
(* The core implements the fetch ledger                                     *)

(* One try at a time: only the last try of a page in a cycle is not over.   *)
(* The retry takes the number after the highest, so this is what makes it   *)
(* the number after the try that ended.                                     *)
InOrder ==
    \A s \in Sources, c \in Cycles : \A m, n \in 1..MaxAttempts :
        n < m /\ Exists(<<s, c, m>>) => att[<<s, c, n>>].state \in Terminal

(* What a step does to the rows as the ledger sees them: it ends `over` and  *)
(* opens `new`.                                                              *)
Moves(over, new) ==
    /\ over \subseteq Attempts /\ new \subseteq Attempts
    /\ \A a \in over : att[a].state = "RUNNING" /\ att'[a].state \in Terminal
    /\ \A a \in new : ~Exists(a) /\ att'[a].state = "QUEUED"
    /\ \A a \in Attempts \ (over \cup new) :
          \/ att'[a].state = att[a].state
          \/ {att[a].state, att'[a].state} = {"QUEUED", "RUNNING"}

LEMMA StateNames ==
    /\ Terminal = {"FINALIZED", "ABANDONED"}
    /\ \A a \in Attempts : TypeOK => att[a].state \in AttemptStates
    /\ AttemptStates = {"ABSENT", "QUEUED", "RUNNING"} \cup Terminal
  BY DEF Terminal, AttemptStates, TypeOK

(* A number that was not used is opened only when all the numbers below are  *)
(* over.                                                                     *)
LEMMA InOrderStep ==
    ASSUME TypeOK, InOrder, NEW over, NEW new, Moves(over, new),
           \A a \in new : \A n \in 1..(NumberOf(a) - 1) :
              att'[<<SourceOf(a), CycleOf(a), n>>].state \in Terminal
    PROVE  InOrder'
  <1> SUFFICES ASSUME NEW s \in Sources, NEW c \in Cycles, NEW m \in 1..MaxAttempts,
                      NEW n \in 1..MaxAttempts, n < m, Exists(<<s, c, m>>)'
               PROVE  att'[<<s, c, n>>].state \in Terminal
    BY DEF InOrder
  <1>1. <<s, c, m>> \in Attempts /\ <<s, c, n>> \in Attempts
    BY AttemptOfParts
  <1>2. CASE <<s, c, m>> \in new
    <2>1. n \in 1..(NumberOf(<<s, c, m>>) - 1)
      BY AttemptOfParts, ConstantTypes
    <2> QED
      BY <1>2, <2>1, AttemptOfParts
  <1>3. CASE <<s, c, m>> \notin new
    <2>1. Exists(<<s, c, m>>)
      BY <1>1, <1>3 DEF Moves, Exists
    <2>2. att[<<s, c, n>>].state \in Terminal
      BY <2>1 DEF InOrder
    <2> QED
      BY <1>1, <2>2 DEF Moves, Terminal, Exists
  <1> QED
    BY <1>2, <1>3

(* Every step, as the ledger sees it.                                        *)
LEMMA EnqueueMoves ==
    ASSUME TypeOK, NEW c \in Cycles, NEW pages \in SUBSET Sources, Enqueue(c, pages)
    PROVE  /\ Moves({}, {<<s, c, 1>> : s \in pages}) /\ UNCHANGED runs
           /\ \A s \in pages : ~Exists(<<s, c, 1>>)
           /\ \A a \in {<<s, c, 1>> : s \in pages} : NumberOf(a) = 1
  <1> DEFINE new == {<<s, c, 1>> : s \in pages}
  <1>1. 1 \in 1..MaxAttempts
    BY ConstantTypes
  <1>2. new \subseteq Attempts /\ \A a \in new : NumberOf(a) = 1
    BY <1>1 DEF Attempts, NumberOf
  <1>3. \A a \in Attempts : a \in new <=> CycleOf(a) = c /\ NumberOf(a) = 1 /\ SourceOf(a) \in pages
    BY DEF Attempts, CycleOf, NumberOf, SourceOf
  <1>4. \A a \in Attempts : att'[a] = IF a \in new THEN Queued(0) ELSE att[a]
    BY <1>3 DEF Enqueue
  <1>5. \A s \in pages : ~Exists(<<s, c, 1>>)
    BY <1>1 DEF Enqueue, Enqueueable
  <1>6. Queued(0).state = "QUEUED"
    BY DEF Queued, Absent
  <1> HIDE DEF new
  <1>7. Moves({}, new)
    <2>1. \A a \in new : ~Exists(a)
      BY <1>5 DEF new
    <2> QED
      BY <1>2, <1>4, <1>6, <2>1 DEF Moves
  <1> QED
    BY <1>2, <1>5, <1>7 DEF Enqueue, new

LEMMA EndMoves ==
    ASSUME TypeOK, InOrder, NEW a \in Attempts, att[a].state = "RUNNING",
           NEW status \in RunStatuses, NEW token \in Nat, NEW delay \in Nat,
           \/ Finalise(a, status, token)
           \/ FinaliseAndRetry(a, status, token, delay)
    PROVE  /\ runs' = runs \cup {RunOf(a, status, token)}
           /\ \/ Moves({a}, {})
              \/ /\ NumberOf(a) < MaxAttempts
                 /\ ~Finalise(a, status, token)
                 /\ Moves({a}, {<<SourceOf(a), CycleOf(a), NumberOf(a) + 1>>})
  <1>1. att \in [Attempts -> Rows] /\ Close(att[a], "FINALIZED").state = "FINALIZED"
    BY DEF TypeOK, Rows, Close
  <1>2. CASE Finalise(a, status, token)
    <2>1. att' = [att EXCEPT ![a] = Close(att[a], "FINALIZED")]
      BY <1>2 DEF Finalise
    <2>2. Moves({a}, {})
      BY <1>1, <2>1 DEF Moves, Terminal
    <2> QED
      BY <1>2, <2>2 DEF Finalise
  <1>3. CASE FinaliseAndRetry(a, status, token, delay) /\ ~Finalise(a, status, token)
    <2> DEFINE s == SourceOf(a)
               c == CycleOf(a)
               n == NumberOf(a)
    <2>0. s \in Sources /\ c \in Cycles /\ n \in 1..MaxAttempts /\ a = <<s, c, n>>
      BY AttemptParts
    <2> HIDE DEF s, c, n
    <2>1. PICK highest \in 1..MaxAttempts :
             /\ highest # MaxAttempts
             /\ Exists(<<s, c, highest>>)
             /\ \A k \in (highest + 1)..MaxAttempts : ~Exists(<<s, c, k>>)
             /\ att' = [att EXCEPT ![a] = Close(@, "FINALIZED"),
                                   ![<<s, c, highest + 1>>] = Queued(delay)]
             /\ runs' = runs \cup {RunOf(a, status, token)}
      BY <1>3 DEF FinaliseAndRetry, s, c
    <2>2. highest = n
      <3>1. ~(highest > n)
        BY <2>0, <2>1 DEF InOrder, Terminal
      <3>2. ~(highest < n)
        <4>1. Exists(<<s, c, n>>)
          BY <2>0 DEF Exists
        <4> QED
          BY <4>1, <2>0, <2>1, ConstantTypes
      <3> QED
        BY <2>0, <2>1, <3>1, <3>2
    <2>3. n < MaxAttempts /\ n + 1 \in 1..MaxAttempts
      BY <2>0, <2>1, <2>2, ConstantTypes
    <2> DEFINE next == <<s, c, n + 1>>
    <2>4. next \in Attempts /\ ~Exists(next)
      BY <2>0, <2>1, <2>2, <2>3, AttemptOfParts, ConstantTypes
    <2>5. next # a
      BY <2>4 DEF Exists
    <2>6. att' = [att EXCEPT ![a] = Close(@, "FINALIZED"), ![next] = Queued(delay)]
      BY <2>1, <2>2
    <2> HIDE DEF next
    <2>7. \A b \in Attempts :
             att'[b] = IF b = next THEN Queued(delay)
                       ELSE IF b = a THEN Close(att[a], "FINALIZED") ELSE att[b]
      BY <1>1, <2>4, <2>5, <2>6
    <2>8. Queued(delay).state = "QUEUED"
      BY DEF Queued, Absent
    <2>9. Moves({a}, {next})
      BY <1>1, <2>4, <2>5, <2>7, <2>8 DEF Moves, Terminal
    <2> QED
      BY <1>3, <2>1, <2>3, <2>9 DEF next, s, c, n
  <1> QED
    BY <1>2, <1>3

LEMMA ClaimMoves ==
    ASSUME TypeOK, NEW w \in Workers, Claim(w)
    PROVE  Moves({}, {}) /\ UNCHANGED runs
  <1>1. PICK i \in 1..Len(line) : InRun(w, i) /\ att' = [att EXCEPT ![line[i]] = Taken(att[line[i]])]
    BY DEF Claim
  <1>2. line[i] \in Attempts /\ att[line[i]].state = "QUEUED"
    BY <1>1 DEF InRun, Claimable, TypeOK
  <1>3. att \in [Attempts -> Rows] /\ Taken(att[line[i]]).state = "RUNNING"
    BY <1>2 DEF TypeOK, Rows, Taken
  <1> QED
    BY <1>1, <1>2, <1>3 DEF Moves, Claim

LEMMA SweepMoves ==
    ASSUME TypeOK, NEW swept \in SUBSET Expired, Sweep(swept)
    PROVE  Moves(swept, {}) /\ runs' = runs \cup {RunOf(a, "ABANDONED", 0) : a \in swept}
  <1>1. \A a \in Attempts : Close(att[a], "ABANDONED").state = "ABANDONED"
    BY DEF TypeOK, Close
  <1> QED
    BY <1>1 DEF Sweep, Expired, Moves, Terminal

LEMMA QuietMoves ==
    ASSUME TypeOK,
           \/ UNCHANGED att
           \/ \E w \in Workers : Heartbeat(w) \/ Release(w)
           \/ Tick
    PROVE  Moves({}, {})
  <1>1. att \in [Attempts -> Rows]
    BY DEF TypeOK, Rows
  <1>2. CASE UNCHANGED att
    BY <1>2 DEF Moves
  <1>3. ASSUME NEW w \in Workers, Heartbeat(w)
        PROVE  Moves({}, {})
    BY <1>1, <1>3 DEF Heartbeat, Moves, TypeOK, Leases, Rows
  <1>4. ASSUME NEW w \in Workers, Release(w)
        PROVE  Moves({}, {})
    <2>1. lease[w].attempt \in Attempts /\ att[lease[w].attempt].state = "RUNNING"
      BY <1>4 DEF Release, Fence, TypeOK, Leases
    <2>2. \A g : [Queued(0) EXCEPT !.gen = g].state = "QUEUED"
      BY DEF Queued, Absent
    <2> QED
      BY <1>1, <1>4, <2>1, <2>2 DEF Release, Moves
  <1>5. CASE Tick
    BY <1>1, <1>5 DEF Tick, Moves, Rows
  <1> QED
    BY <1>2, <1>3, <1>4, <1>5

(* An answer ends the attempt, and opens another one only if asking again    *)
(* may change it.                                                            *)
LEMMA AnswerEnds ==
    ASSUME TypeOK, NEW w \in Workers, NEW o \in Outcomes, NEW r \in RetryAfters \cup {0},
           Record(w, o, r)
    PROVE  LET a == lease[w].attempt IN
           /\ a \in Attempts /\ lease[w].token \in Nat /\ att[a].state = "RUNNING"
           /\ o \in RunStatuses \ {"INTERNAL_ERROR", "ABANDONED"}
           /\ \/ Finalise(a, o, lease[w].token)
              \/ /\ o \in {"RATE_LIMITED", "DNS_TEMPORARY", "HTTP_ERROR", "TIMEOUT"}
                 /\ \E delay \in Nat : FinaliseAndRetry(a, o, lease[w].token, delay)
  <1> DEFINE a == lease[w].attempt
  <1>1. a \in Attempts /\ NumberOf(a) \in 1..MaxAttempts /\ lease[w].token \in Nat
        /\ att[a].state = "RUNNING"
    BY AttemptParts DEF Record, TypeOK, Leases, Fence
  <1>2. o \in RunStatuses \ {"INTERNAL_ERROR", "ABANDONED"} /\ r \in Nat
    BY ConstantTypes, ConstantsAssumption DEF AllOutcomes
  <1>3. /\ Backoff(NumberOf(a), r) \in Nat
        /\ Greatest(Backoff(NumberOf(a), 0), DnsTicks) \in Nat
    <2>1. Backoff(NumberOf(a), 0) \in Nat /\ Backoff(NumberOf(a), r) \in Nat
      BY <1>1, BackoffType
    <2> QED
      BY <2>1, ConstantTypes DEF Greatest
  <1>4. \/ Finalise(a, o, lease[w].token)
        \/ /\ o \in {"RATE_LIMITED", "DNS_TEMPORARY", "HTTP_ERROR", "TIMEOUT"}
           /\ \E delay \in Nat : FinaliseAndRetry(a, o, lease[w].token, delay)
    <2>1. CASE RecordSuccess(w, o)
      BY <2>1 DEF RecordSuccess
    <2>2. CASE RecordRateLimited(w, o, r)
      BY <2>2, <1>2, ConstantTypes DEF RecordRateLimited
    <2>3. CASE RecordDnsTemporary(w, o)
      BY <2>3, <1>3 DEF RecordDnsTemporary
    <2>4. CASE RecordParking(w, o)
      BY <2>4 DEF RecordParking
    <2>5. CASE RecordFailure(w, o, r)
      BY <2>5, <1>3 DEF RecordFailure
    <2> QED
      BY <2>1, <2>2, <2>3, <2>4, <2>5 DEF Record
  <1> QED
    BY <1>1, <1>2, <1>4

LedgerInv == FenceInv /\ InOrder

LEMMA OrderedEnd ==
    ASSUME TypeOK, InOrder, NEW a \in Attempts, att[a].state = "RUNNING",
           NEW new \in SUBSET {<<SourceOf(a), CycleOf(a), NumberOf(a) + 1>>}, Moves({a}, new)
    PROVE  InOrder'
  <1> DEFINE s == SourceOf(a)
             c == CycleOf(a)
             n == NumberOf(a)
  <1>1. s \in Sources /\ c \in Cycles /\ n \in 1..MaxAttempts /\ a = <<s, c, n>>
    BY AttemptParts
  <1> HIDE DEF s, c, n
  <1>2. ASSUME NEW k \in 1..n
        PROVE  att'[<<s, c, k>>].state \in Terminal
    <2>0. k \in 1..MaxAttempts /\ <<s, c, k>> \in Attempts
      BY <1>1, AttemptOfParts, ConstantTypes
    <2>1. CASE k = n
      BY <1>1, <2>1 DEF Moves
    <2>2. CASE k # n
      <3>1. k < n /\ Exists(<<s, c, n>>)
        BY <1>1, <2>2 DEF Exists
      <3>2. att[<<s, c, k>>].state \in Terminal
        BY <1>1, <2>0, <3>1 DEF InOrder
      <3> QED
        BY <2>0, <3>2 DEF Moves, Terminal, Exists
    <2> QED
      BY <2>1, <2>2
  <1>3. \A b \in new : SourceOf(b) = s /\ CycleOf(b) = c /\ NumberOf(b) - 1 = n
    BY <1>1 DEF SourceOf, CycleOf, NumberOf, s, c, n
  <1> QED
    BY <1>2, <1>3, InOrderStep

LEMMA LedgerInvStep == LedgerInv /\ [Next]_vars => LedgerInv'
  <1> SUFFICES ASSUME LedgerInv, [Next]_vars PROVE InOrder'
    BY FenceStep DEF LedgerInv
  <1>0. TypeOK /\ InOrder
    BY DEF LedgerInv, FenceInv
  <1>1. ASSUME Moves({}, {}) PROVE InOrder'
    BY <1>0, <1>1, InOrderStep
  <1>2. ASSUME NEW c \in Cycles, NEW pages \in SUBSET Sources, Enqueue(c, pages)
        PROVE  InOrder'
    <2> DEFINE new == {<<s, c, 1>> : s \in pages}
    <2>1. Moves({}, new) /\ \A a \in new : NumberOf(a) = 1
      BY <1>0, <1>2, EnqueueMoves
    <2> HIDE DEF new
    <2>2. \A a \in new : 1..(NumberOf(a) - 1) = {}
      BY <2>1
    <2> QED
      BY <1>0, <2>1, <2>2, InOrderStep
  <1>3. ASSUME NEW w \in Workers, NEW o \in Outcomes, NEW r \in RetryAfters \cup {0},
               Record(w, o, r)
        PROVE  InOrder'
    BY <1>0, <1>3, AnswerEnds, EndMoves, OrderedEnd
  <1>4. ASSUME NEW w \in Workers, ContainInternalError(w)
        PROVE  InOrder'
    <2>1. lease[w].attempt \in Attempts /\ lease[w].token \in Nat
          /\ att[lease[w].attempt].state = "RUNNING" /\ "INTERNAL_ERROR" \in RunStatuses
          /\ Finalise(lease[w].attempt, "INTERNAL_ERROR", lease[w].token)
      BY <1>0, <1>4 DEF ContainInternalError, TypeOK, Leases, Fence, RunStatuses
    <2> QED
      BY <1>0, <2>1, EndMoves, OrderedEnd
  <1>5. ASSUME NEW swept \in SUBSET Expired, Sweep(swept)
        PROVE  InOrder'
    BY <1>0, <1>5, SweepMoves, InOrderStep
  <1>6. ASSUME NEW w \in Workers, Claim(w) PROVE InOrder'
    BY <1>0, <1>1, <1>6, ClaimMoves
  <1>7. ASSUME NEW w \in Workers, Heartbeat(w) \/ Release(w) PROVE InOrder'
    BY <1>0, <1>1, <1>7, QuietMoves
  <1>8. ASSUME NEW w \in Workers,
               \/ \E c \in Cycles : StartRun(w, c)
               \/ EndRun(w) \/ LoseLease(w) \/ LeaveUnrecorded(w) \/ Crash(w)
        PROVE  InOrder'
    <2>1. UNCHANGED att
      BY <1>8 DEF StartRun, EndRun, LoseLease, LeaveUnrecorded, Crash, attemptVars
    <2> QED
      BY <1>0, <1>1, <2>1, QuietMoves
  <1>9. ASSUME NEW s \in Sources, Operator(s) PROVE InOrder'
    <2>1. UNCHANGED att
      BY <1>9 DEF Operator, Reenable, Disable, MarkNeedsReview, ClearCooldown, Audited,
                  attemptVars
    <2> QED
      BY <1>0, <1>1, <2>1, QuietMoves
  <1>10. CASE Tick \/ UNCHANGED vars
    BY <1>0, <1>1, <1>10, QuietMoves DEF vars, attemptVars
  <1> QED
    BY <1>2, <1>3, <1>4, <1>5, <1>6, <1>7, <1>8, <1>9, <1>10 DEF Next, Answer

(* What the ledger says of a try, before and after a step.                   *)
LEMMA LedgerValue ==
    ASSUME OneTerminalRun, NEW a \in Attempts
    PROVE  /\ att[a].state = "ABSENT" => LedgerOf[a] = "absent"
           /\ att[a].state \in {"QUEUED", "RUNNING"} => LedgerOf[a] = "open"
           /\ att[a].state \in Terminal =>
                 \A r \in runs : r.attempt = a => LedgerOf[a] = r.status
  <1>1. ASSUME att[a].state \in Terminal, NEW r \in runs, r.attempt = a
        PROVE  LedgerOf[a] = r.status
    <2>1. \A q \in runs : q.attempt = a => q = r
      BY <1>1 DEF OneTerminalRun
    <2>2. (CHOOSE q \in runs : q.attempt = a) = r
      BY <1>1, <2>1
    <2> QED
      BY <1>1, <2>2 DEF LedgerOf, Outcome, Terminal
  <1> QED
    BY <1>1 DEF LedgerOf

LEMMA LedgerValueNext ==
    ASSUME OneTerminalRun', NEW a \in Attempts
    PROVE  /\ att'[a].state = "ABSENT" => LedgerOf'[a] = "absent"
           /\ att'[a].state \in {"QUEUED", "RUNNING"} => LedgerOf'[a] = "open"
           /\ att'[a].state \in Terminal =>
                 \A r \in runs' : r.attempt = a => LedgerOf'[a] = r.status
  <1>1. ASSUME att'[a].state \in Terminal, NEW r \in runs', r.attempt = a
        PROVE  LedgerOf'[a] = r.status
    <2>1. \A q \in runs' : q.attempt = a => q = r
      BY <1>1 DEF OneTerminalRun
    <2>2. (CHOOSE q \in runs' : q.attempt = a) = r
      BY <1>1, <2>1
    <2> QED
      BY <1>1, <2>2 DEF LedgerOf, Outcome, Terminal
  <1> QED
    BY <1>1 DEF LedgerOf

LEMMA LedgerEffect ==
    ASSUME FenceInv, FenceInv', NEW over, NEW new, Moves(over, new), runs \subseteq runs'
    PROVE  /\ \A a \in over : LedgerOf[a] = "open" /\
                 \A r \in runs' : r.attempt = a => LedgerOf'[a] = r.status
           /\ \A a \in new : LedgerOf[a] = "absent" /\ LedgerOf'[a] = "open"
           /\ \A a \in Attempts \ (over \cup new) : LedgerOf'[a] = LedgerOf[a]
  <1>0. OneTerminalRun /\ OneTerminalRun'
    BY DEF FenceInv
  <1>1. ASSUME NEW a \in over
        PROVE  LedgerOf[a] = "open" /\ \A r \in runs' : r.attempt = a => LedgerOf'[a] = r.status
    BY <1>0, LedgerValue, LedgerValueNext DEF Moves
  <1>2. ASSUME NEW a \in new
        PROVE  LedgerOf[a] = "absent" /\ LedgerOf'[a] = "open"
    BY <1>0, LedgerValue, LedgerValueNext DEF Moves, Exists
  <1>3. ASSUME NEW a \in Attempts \ (over \cup new)
        PROVE  LedgerOf'[a] = LedgerOf[a]
    <2>1. CASE {att[a].state, att'[a].state} = {"QUEUED", "RUNNING"}
      BY <1>0, <2>1, LedgerValue, LedgerValueNext
    <2>2. CASE att'[a].state = att[a].state
      <3>1. CASE att[a].state \in Terminal
        <4>1. PICK r \in runs : r.attempt = a
          BY <1>0, <3>1 DEF OneTerminalRun
        <4>2. LedgerOf[a] = r.status
          BY <1>0, <3>1, <4>1, LedgerValue
        <4>3. LedgerOf'[a] = r.status
          BY <1>0, <2>2, <3>1, <4>1, LedgerValueNext
        <4> QED
          BY <4>2, <4>3
      <3>2. CASE att[a].state \notin Terminal
        <4>1. att[a].state \in {"ABSENT", "QUEUED", "RUNNING"}
          BY <3>2, StateNames DEF FenceInv
        <4> QED
          BY <1>0, <2>2, <4>1, LedgerValue, LedgerValueNext
      <3> QED
        BY <3>1, <3>2
    <2> QED
      BY <2>1, <2>2 DEF Moves
  <1> QED
    BY <1>1, <1>2, <1>3

LEMMA LedgerNames ==
    /\ Ledger!Entries = Attempts
    /\ Ledger!Retryable = {"RATE_LIMITED", "DNS_TEMPORARY", "HTTP_ERROR", "TIMEOUT"}
    /\ Ledger!Ended = RunStatuses
    /\ LedgerOf = [a \in Attempts |-> LedgerOf[a]]
    /\ LedgerOf' = [a \in Attempts |-> LedgerOf'[a]]
  BY DEF Ledger!Entries, Attempts, Ledger!Retryable, Ledger!Ended, RunStatuses, AllOutcomes, LedgerOf

(* The end of one try, by an answer or by a contained failure of our own.    *)
LEMMA EndRefines ==
    ASSUME LedgerInv, FenceInv', NEW a \in Attempts, att[a].state = "RUNNING",
           NEW status \in RunStatuses, NEW token \in Nat,
           \/ Finalise(a, status, token)
           \/ status \in Ledger!Retryable /\ \E delay \in Nat : FinaliseAndRetry(a, status, token, delay)
    PROVE  Ledger!Next
  <1>0. FenceInv /\ TypeOK /\ InOrder
    BY DEF LedgerInv, FenceInv
  <1>1. /\ runs' = runs \cup {RunOf(a, status, token)}
        /\ \/ Moves({a}, {})
           \/ /\ NumberOf(a) < MaxAttempts /\ status \in Ledger!Retryable
              /\ Moves({a}, {<<SourceOf(a), CycleOf(a), NumberOf(a) + 1>>})
    <2>1. CASE Finalise(a, status, token)
      <3>1. 0 \in Nat
        OBVIOUS
      <3> QED
        BY <1>0, <2>1, <3>1, EndMoves
    <2>2. CASE status \in Ledger!Retryable /\ \E delay \in Nat : FinaliseAndRetry(a, status, token, delay)
      BY <1>0, <2>2, EndMoves
    <2> QED
      BY <2>1, <2>2
  <1>2. RunOf(a, status, token) \in runs' /\ RunOf(a, status, token).attempt = a
        /\ RunOf(a, status, token).status = status /\ runs \subseteq runs'
    BY <1>1 DEF RunOf
  <1>3. CASE Moves({a}, {})
    <2>1. /\ LedgerOf[a] = "open" /\ LedgerOf'[a] = status
          /\ \A b \in Attempts \ {a} : LedgerOf'[b] = LedgerOf[b]
      BY <1>0, <1>2, <1>3, LedgerEffect
    <2>2. LedgerOf' = [LedgerOf EXCEPT ![a] = status]
      BY <2>1, LedgerNames
    <2>3. Ledger!End(a, status)
      BY <2>1, <2>2 DEF Ledger!End
    <2> QED
      BY <2>3, LedgerNames DEF Ledger!Next
  <1>4. CASE /\ NumberOf(a) < MaxAttempts /\ status \in Ledger!Retryable
             /\ Moves({a}, {<<SourceOf(a), CycleOf(a), NumberOf(a) + 1>>})
    <2> DEFINE next == <<SourceOf(a), CycleOf(a), NumberOf(a) + 1>>
    <2>0. next = <<a[1], a[2], a[3] + 1>> /\ a[3] < MaxAttempts
      BY <1>4 DEF SourceOf, CycleOf, NumberOf
    <2> HIDE DEF next
    <2>1. Moves({a}, {next})
      BY <1>4 DEF next
    <2>2. /\ LedgerOf[a] = "open" /\ LedgerOf'[a] = status
          /\ LedgerOf'[next] = "open"
          /\ \A b \in Attempts \ {a, next} : LedgerOf'[b] = LedgerOf[b]
      BY <1>0, <1>2, <2>1, LedgerEffect
    <2>3. next \in Attempts /\ next # a
      BY <2>1 DEF Moves, Exists
    <2>4. LedgerOf' = [LedgerOf EXCEPT ![a] = status, ![next] = "open"]
      BY <2>2, <2>3, LedgerNames
    <2>5. Ledger!EndAndRetry(a, status)
      BY <1>4, <2>0, <2>2, <2>4 DEF Ledger!EndAndRetry
    <2> QED
      BY <2>5, LedgerNames DEF Ledger!Next
  <1> QED
    BY <1>1, <1>3, <1>4

(* Every step of the core is a step of the ledger or leaves it alone.        *)
LEMMA LedgerStep == LedgerInv /\ [Next]_vars => [Ledger!Next]_LedgerOf
  <1> SUFFICES ASSUME LedgerInv, [Next]_vars PROVE [Ledger!Next]_LedgerOf
    OBVIOUS
  <1>0. TypeOK /\ InOrder /\ FenceInv /\ FenceInv'
    BY FenceStep DEF LedgerInv, FenceInv
  <1>1. ASSUME Moves({}, {}), UNCHANGED runs PROVE LedgerOf' = LedgerOf
    <2>1. \A a \in Attempts : LedgerOf'[a] = LedgerOf[a]
      BY <1>0, <1>1, LedgerEffect
    <2> QED
      BY <2>1, LedgerNames
  <1>2. ASSUME NEW c \in Cycles, NEW pages \in SUBSET Sources, Enqueue(c, pages)
        PROVE  Ledger!Next
    <2> DEFINE new == {<<s, c, 1>> : s \in pages}
    <2>1. Moves({}, new) /\ UNCHANGED runs
      BY <1>0, <1>2, EnqueueMoves
    <2>2. \A a \in Attempts : a \in new <=> a[2] = c /\ a[3] = 1 /\ a[1] \in pages
      BY DEF Attempts
    <2>3. \A s \in pages : <<s, c, 1>> \in new
      OBVIOUS
    <2> HIDE DEF new
    <2>4. /\ \A a \in new : LedgerOf[a] = "absent" /\ LedgerOf'[a] = "open"
          /\ \A a \in Attempts \ new : LedgerOf'[a] = LedgerOf[a]
      BY <1>0, <2>1, LedgerEffect
    <2>5. LedgerOf' = [e \in Ledger!Entries |-> IF e[2] = c /\ e[3] = 1 /\ e[1] \in pages
                                                THEN "open" ELSE LedgerOf[e]]
      BY <2>1, <2>2, <2>4, LedgerNames
    <2>6. Ledger!Open(c, pages)
      BY <2>3, <2>4, <2>5 DEF Ledger!Open
    <2> QED
      BY <2>6 DEF Ledger!Next
  <1>3. ASSUME NEW w \in Workers, NEW o \in Outcomes, NEW r \in RetryAfters \cup {0},
               Record(w, o, r)
        PROVE  Ledger!Next
    BY <1>0, <1>3, AnswerEnds, EndRefines, LedgerNames DEF LedgerInv
  <1>4. ASSUME NEW w \in Workers, ContainInternalError(w)
        PROVE  Ledger!Next
    <2>1. lease[w].attempt \in Attempts /\ lease[w].token \in Nat
          /\ att[lease[w].attempt].state = "RUNNING" /\ "INTERNAL_ERROR" \in RunStatuses
          /\ Finalise(lease[w].attempt, "INTERNAL_ERROR", lease[w].token)
      BY <1>0, <1>4 DEF ContainInternalError, TypeOK, Leases, Fence, RunStatuses
    <2> QED
      BY <1>0, <2>1, EndRefines DEF LedgerInv
  <1>5. ASSUME NEW swept \in SUBSET Expired, Sweep(swept)
        PROVE  Ledger!Next
    <2>1. Moves(swept, {}) /\ runs' = runs \cup {RunOf(a, "ABANDONED", 0) : a \in swept}
      BY <1>0, <1>5, SweepMoves
    <2>2. \A a \in swept : RunOf(a, "ABANDONED", 0) \in runs' /\ RunOf(a, "ABANDONED", 0).attempt = a
                           /\ RunOf(a, "ABANDONED", 0).status = "ABANDONED"
      BY <2>1 DEF RunOf
    <2>3. /\ \A a \in swept : LedgerOf[a] = "open" /\ LedgerOf'[a] = "ABANDONED"
          /\ \A a \in Attempts \ swept : LedgerOf'[a] = LedgerOf[a]
      BY <1>0, <2>1, <2>2, LedgerEffect
    <2>4. LedgerOf' = [e \in Ledger!Entries |-> IF e \in swept THEN "ABANDONED" ELSE LedgerOf[e]]
      BY <2>3, LedgerNames
    <2>5. Ledger!Abandon(swept) /\ swept \in SUBSET Ledger!Entries
      BY <2>1, <2>3, <2>4, LedgerNames DEF Ledger!Abandon, Moves
    <2> QED
      BY <2>5 DEF Ledger!Next
  <1>6. ASSUME NEW w \in Workers, Claim(w) PROVE LedgerOf' = LedgerOf
    BY <1>0, <1>1, <1>6, ClaimMoves
  <1>7. ASSUME NEW w \in Workers, Heartbeat(w) \/ Release(w) PROVE LedgerOf' = LedgerOf
    BY <1>0, <1>1, <1>7, QuietMoves DEF Heartbeat, Release
  <1>8. ASSUME NEW w \in Workers,
               \/ \E c \in Cycles : StartRun(w, c)
               \/ EndRun(w) \/ LoseLease(w) \/ LeaveUnrecorded(w) \/ Crash(w)
        PROVE  LedgerOf' = LedgerOf
    <2>1. UNCHANGED <<att, runs>>
      BY <1>8 DEF StartRun, EndRun, LoseLease, LeaveUnrecorded, Crash, attemptVars
    <2> QED
      BY <1>0, <1>1, <2>1, QuietMoves
  <1>9. ASSUME NEW s \in Sources, Operator(s) PROVE LedgerOf' = LedgerOf
    <2>1. UNCHANGED <<att, runs>>
      BY <1>9 DEF Operator, Reenable, Disable, MarkNeedsReview, ClearCooldown, Audited,
                  attemptVars
    <2> QED
      BY <1>0, <1>1, <2>1, QuietMoves
  <1>10. CASE Tick
    BY <1>0, <1>1, <1>10, QuietMoves DEF Tick, attemptVars
  <1>11. CASE UNCHANGED vars
    BY <1>0, <1>1, <1>11, QuietMoves DEF vars, attemptVars
  <1> QED
    BY <1>2, <1>3, <1>4, <1>5, <1>6, <1>7, <1>8, <1>9, <1>10, <1>11 DEF Next, Answer

(* The queue with its workers, leases, sweeper, retries and operators, for   *)
(* any number of them, keeps the history that FetchLedger promises (the      *)
(* header of lease.py: one terminal run per attempt, retries are new         *)
(* attempts).                                                                *)
THEOREM CoreKeepsTheLedger == Spec => RefinesLedger
  <1>1. Init => LedgerInv
    <2> SUFFICES ASSUME Init PROVE LedgerInv
      OBVIOUS
    <2>1. FenceInv
      BY FenceInit
    <2>2. \A a \in Attempts : ~Exists(a)
      BY DEF Init, Exists, Absent
    <2>3. InOrder
      BY <2>2, AttemptOfParts DEF InOrder
    <2> QED
      BY <2>1, <2>3 DEF LedgerInv
  <1>2. Init => Ledger!Init
    BY LedgerNames DEF Init, Ledger!Init, LedgerOf, Absent
  <1>3. LedgerInv /\ [Next]_vars => [Ledger!Next]_LedgerOf
    BY LedgerStep
  <1> QED
    BY <1>1, <1>2, <1>3, LedgerInvStep, PTL DEF Spec, RefinesLedger, Ledger!Spec

----------------------------------------------------------------------------
(* What holds of every fetch ledger, and so of the one the core keeps *)

(* An entry of the ledger is absent, open or ended. *)
LedgerShape == LedgerOf \in [Ledger!Entries -> Ledger!Ended \cup {"absent", "open"}]

LEMMA LedgerEndings == /\ "absent" \notin Ledger!Ended /\ "open" \notin Ledger!Ended
                     /\ Ledger!Retryable \subseteq Ledger!Ended
  BY DEF Ledger!Ended, Ledger!Retryable

LEMMA LedgerShapeStep == ASSUME LedgerShape, [Ledger!Next]_LedgerOf PROVE LedgerShape'
  <1>1. ASSUME NEW c \in Cycles, NEW pages \in SUBSET Sources, Ledger!Open(c, pages)
        PROVE  LedgerShape'
    BY <1>1 DEF Ledger!Open, LedgerShape
  <1>2. ASSUME NEW e \in Ledger!Entries, NEW how \in Ledger!Ended, Ledger!End(e, how)
        PROVE  LedgerShape'
    BY <1>2 DEF Ledger!End, LedgerShape
  <1>3. ASSUME NEW e \in Ledger!Entries, NEW how \in Ledger!Ended, Ledger!EndAndRetry(e, how)
        PROVE  LedgerShape'
    BY <1>3 DEF Ledger!EndAndRetry, LedgerShape
  <1>4. ASSUME NEW lost \in SUBSET Ledger!Entries, Ledger!Abandon(lost)
        PROVE  LedgerShape'
    BY <1>4 DEF Ledger!Abandon, LedgerShape, Ledger!Ended
  <1> QED
    BY <1>1, <1>2, <1>3, <1>4 DEF Ledger!Next, LedgerShape
----------------------------------------------------------------------------
(* Retries *)

(* RetriesAreJustified is inductive once entries have a shape: an entry that *)
(* is open or absent has no successor, so opening, ending or abandoning it   *)
(* unsettles nothing.                                                        *)
LEMMA LedgerRetryStep ==
  ASSUME MaxAttempts \in Nat, LedgerShape, Ledger!RetriesAreJustified, [Ledger!Next]_LedgerOf
  PROVE  Ledger!RetriesAreJustified'
  <1> SUFFICES ASSUME NEW s \in Sources, NEW c \in Cycles, NEW n \in 1..(MaxAttempts - 1),
                      LedgerOf'[<<s, c, n + 1>>] # "absent"
               PROVE  LedgerOf'[<<s, c, n>>] \in Ledger!Retryable
    BY DEF Ledger!RetriesAreJustified
  <1> DEFINE this == <<s, c, n>>
             next == <<s, c, n + 1>>
  <1>e. this \in Ledger!Entries /\ next \in Ledger!Entries /\ this # next
    BY DEF Ledger!Entries
  <1>s. LedgerOf[next] # "absent" => LedgerOf[this] \in Ledger!Retryable
    BY DEF Ledger!RetriesAreJustified
  <1>r. "open" \notin Ledger!Retryable /\ "absent" \notin Ledger!Retryable
    BY DEF Ledger!Retryable
  <1>1. ASSUME NEW d \in Cycles, NEW pages \in SUBSET Sources, Ledger!Open(d, pages)
        PROVE  LedgerOf'[this] \in Ledger!Retryable
    <2>1. next[3] = n + 1 /\ n + 1 # 1
      OBVIOUS
    <2>2. LedgerOf'[next] = LedgerOf[next]
      BY <1>1, <1>e, <2>1 DEF Ledger!Open
    <2>3. this[1] = s /\ this[2] = c /\ this[3] = n
      OBVIOUS
    <2>4. ASSUME this[2] = d, this[3] = 1, this[1] \in pages
          PROVE  FALSE
      <3>1. LedgerOf[<<s, d, 1>>] = "absent" /\ this = <<s, d, 1>>
        BY <1>1, <2>3, <2>4 DEF Ledger!Open
      <3> QED
        BY <3>1, <2>2, <1>s, <1>r
    <2>5. LedgerOf'[this] = LedgerOf[this]
      BY <1>1, <1>e, <2>4 DEF Ledger!Open
    <2> QED
      BY <2>2, <2>5, <1>s
  <1>2. ASSUME NEW e \in Ledger!Entries, NEW how \in Ledger!Ended, Ledger!End(e, how)
        PROVE  LedgerOf'[this] \in Ledger!Retryable
    <2>1. LedgerOf[e] = "open" /\ LedgerOf' = [LedgerOf EXCEPT ![e] = how]
      BY <1>2 DEF Ledger!End
    <2>2. LedgerOf[next] # "absent"
      BY <2>1, <1>e DEF LedgerShape
    <2>3. this # e
      BY <2>1, <2>2, <1>s, <1>r
    <2> QED
      BY <2>1, <2>2, <2>3, <1>s, <1>e DEF LedgerShape
  <1>3. ASSUME NEW e \in Ledger!Entries, NEW how \in Ledger!Ended, Ledger!EndAndRetry(e, how)
        PROVE  LedgerOf'[this] \in Ledger!Retryable
    <2> DEFINE further == <<e[1], e[2], e[3] + 1>>
    <2>1. /\ LedgerOf[e] = "open" /\ how \in Ledger!Retryable
          /\ LedgerOf' = [LedgerOf EXCEPT ![e] = how, ![further] = "open"]
      BY <1>3 DEF Ledger!EndAndRetry
    <2>0. further \in Ledger!Entries /\ further # e /\ e = <<e[1], e[2], e[3]>> /\ e[3] \in Nat
      BY <1>3 DEF Ledger!EndAndRetry, Ledger!Entries
    <2>2. CASE next = further
      <3>1. e[1] = s /\ e[2] = c /\ e[3] + 1 = n + 1
        BY <2>2
      <3>2. e = this
        BY <3>1, <2>0
      <3> QED
        BY <3>2, <2>0, <2>1, <1>e DEF LedgerShape
    <2>3. CASE next # further
      <3>1. LedgerOf[next] # "absent"
        BY <2>1, <2>3, <1>e DEF LedgerShape
      <3>2. LedgerOf[this] \in Ledger!Retryable /\ this # e
        BY <3>1, <2>1, <1>s, <1>r
      <3>3. CASE this = further
        <4>1. e[1] = s /\ e[2] = c /\ e[3] + 1 = n
          BY <3>3
        <4>2. e[3] \in 1..(MaxAttempts - 1) /\ s \in Sources /\ c \in Cycles /\ e = <<s, c, e[3]>>
          BY <4>1, <2>0 DEF Ledger!Entries
        <4>3. LedgerOf[<<s, c, e[3] + 1>>] # "absent" => LedgerOf[e] \in Ledger!Retryable
          BY <4>2 DEF Ledger!RetriesAreJustified
        <4> QED
          BY <4>1, <4>3, <3>2, <2>1, <1>r
      <3> QED
        BY <3>2, <3>3, <2>1, <1>e DEF LedgerShape
    <2> QED
      BY <2>2, <2>3
  <1>4. ASSUME NEW lost \in SUBSET Ledger!Entries, Ledger!Abandon(lost)
        PROVE  LedgerOf'[this] \in Ledger!Retryable
    <2>1. /\ \A e \in lost : LedgerOf[e] = "open"
          /\ LedgerOf' = [e \in Ledger!Entries |-> IF e \in lost THEN "ABANDONED" ELSE LedgerOf[e]]
      BY <1>4 DEF Ledger!Abandon
    <2>2. LedgerOf[next] # "absent"
      BY <2>1, <1>e
    <2> QED
      BY <2>1, <2>2, <1>s, <1>r, <1>e
  <1>5. CASE UNCHANGED LedgerOf
    BY <1>5, <1>s
  <1> QED
    BY <1>1, <1>2, <1>3, <1>4, <1>5 DEF Ledger!Next

(* A try after the first exists only because the try before it ended in a    *)
(* way that asking again may change (lease.schedule_retry).                  *)
LEMMA RetriesAreEarned ==
  Ledger!Spec => []Ledger!RetriesAreJustified
  <1> USE ConstantTypes
  <1>1. Ledger!Init => LedgerShape /\ Ledger!RetriesAreJustified
    BY DEF Ledger!Init, LedgerShape, Ledger!RetriesAreJustified, Ledger!Entries
  <1>2. LedgerShape /\ Ledger!RetriesAreJustified /\ [Ledger!Next]_LedgerOf
           => (LedgerShape /\ Ledger!RetriesAreJustified)'
    BY LedgerShapeStep, LedgerRetryStep
  <1> QED
    BY <1>1, <1>2, PTL DEF Ledger!Spec
----------------------------------------------------------------------------
(* History *)

(* How a try ended is never rewritten, and no try that was opened vanishes.  *)
HistoryKept ==
  \A e \in Ledger!Entries :
    /\ LedgerOf[e] \in Ledger!Ended => LedgerOf'[e] = LedgerOf[e]
    /\ LedgerOf[e] # "absent" => LedgerOf'[e] # "absent"

(* An attempt that is over is history: whatever workers, the sweeper and     *)
(* operators do later leaves how it ended as it was (lease.py:27-36).        *)
LEMMA EndingsAreFinal ==
  Ledger!Spec => [][HistoryKept]_LedgerOf
  <1> USE ConstantTypes
  <1>1. Ledger!Init => LedgerShape /\ Ledger!RetriesAreJustified
    BY DEF Ledger!Init, LedgerShape, Ledger!RetriesAreJustified, Ledger!Entries
  <1>2. LedgerShape /\ Ledger!RetriesAreJustified /\ [Ledger!Next]_LedgerOf
           => (LedgerShape /\ Ledger!RetriesAreJustified)'
    BY LedgerShapeStep, LedgerRetryStep
  <1>3. ASSUME LedgerShape, Ledger!RetriesAreJustified, Ledger!Next PROVE HistoryKept
    <2>1. ASSUME NEW c \in Cycles, NEW pages \in SUBSET Sources, Ledger!Open(c, pages)
          PROVE  HistoryKept
      <3> SUFFICES ASSUME NEW e \in Ledger!Entries, LedgerOf[e] # "absent"
                   PROVE  LedgerOf'[e] = LedgerOf[e]
        BY LedgerEndings DEF HistoryKept
      <3>1. e = <<e[1], e[2], e[3]>>
        BY DEF Ledger!Entries
      <3>2. ~(e[2] = c /\ e[3] = 1 /\ e[1] \in pages)
        BY <2>1, <3>1 DEF Ledger!Open
      <3> QED
        BY <2>1, <3>2 DEF Ledger!Open
    <2>2. ASSUME NEW e \in Ledger!Entries, NEW how \in Ledger!Ended, Ledger!End(e, how)
          PROVE  HistoryKept
      BY <2>2, LedgerEndings DEF Ledger!End, HistoryKept, LedgerShape
    <2>3. ASSUME NEW e \in Ledger!Entries, NEW how \in Ledger!Ended, Ledger!EndAndRetry(e, how)
          PROVE  HistoryKept
      <3> DEFINE further == <<e[1], e[2], e[3] + 1>>
      <3>1. /\ LedgerOf[e] = "open"
            /\ LedgerOf' = [LedgerOf EXCEPT ![e] = how, ![further] = "open"]
        BY <2>3 DEF Ledger!EndAndRetry
      <3>2. /\ e[1] \in Sources /\ e[2] \in Cycles /\ e[3] \in 1..(MaxAttempts - 1)
            /\ e = <<e[1], e[2], e[3]>>
        BY <2>3 DEF Ledger!EndAndRetry, Ledger!Entries
      <3>3. LedgerOf[further] = "absent"
        BY <1>3, <3>1, <3>2 DEF Ledger!RetriesAreJustified, Ledger!Retryable
      <3>4. ASSUME NEW f \in Ledger!Entries
            PROVE  /\ LedgerOf[f] \in Ledger!Ended => LedgerOf'[f] = LedgerOf[f]
                   /\ LedgerOf[f] # "absent" => LedgerOf'[f] # "absent"
        <4>1. how # "absent" /\ "open" # "absent"
          BY LedgerEndings
        <4>2. CASE f = e
          BY <4>1, <4>2, <3>1, <1>3, LedgerEndings DEF LedgerShape
        <4>3. CASE f = further
          BY <4>1, <4>3, <3>1, <3>3, <1>3, LedgerEndings DEF LedgerShape
        <4>4. CASE f # e /\ f # further
          BY <4>4, <3>1, <1>3 DEF LedgerShape
        <4> QED
          BY <4>2, <4>3, <4>4
      <3> QED
        BY <3>4 DEF HistoryKept
    <2>4. ASSUME NEW lost \in SUBSET Ledger!Entries, Ledger!Abandon(lost)
          PROVE  HistoryKept
      BY <2>4, LedgerEndings DEF Ledger!Abandon, HistoryKept
    <2> QED
      BY <1>3, <2>1, <2>2, <2>3, <2>4 DEF Ledger!Next
  <1> QED
    BY <1>1, <1>2, <1>3, PTL DEF Ledger!Spec

(* A page is tried again in a cycle only because the try before ended in a   *)
(* way that asking again may change: lease.schedule_retry, seen through      *)
(* every crash, release, sweep and race of workers.                          *)
THEOREM CoreRetriesAreEarned == Spec => []Ledger!RetriesAreJustified
  BY CoreKeepsTheLedger, RetriesAreEarned, PTL DEF RefinesLedger

(* How an attempt ended is history: no worker, sweep, release or operator    *)
(* changes it or makes the attempt vanish (lease.py:27-36).                  *)
THEOREM CoreEndingsAreFinal == Spec => [][HistoryKept]_LedgerOf
  BY CoreKeepsTheLedger, EndingsAreFinal, PTL DEF RefinesLedger

============================================================================
