---------------------------- MODULE Acquisition ----------------------------
(***************************************************************************)
(* The acquisition core: the queue of fetch attempts, the workers that     *)
(* lease them, the sweeper, the retry policy, the cooldowns and the        *)
(* operator's recovery commands (domains/acquisition/lease.py, runner.py,  *)
(* recorder.py, recovery.py, scripts/acquisition.py).                      *)
(*                                                                         *)
(* Every database transaction of the code is one action: they commit or    *)
(* leave nothing.  Between the claim of an attempt and the transaction     *)
(* that records its outcome no transaction is open, so everything else may *)
(* happen there.  Times are counted in ticks that remain, not in           *)
(* timestamps: a deadline that has passed is 0.                            *)
(***************************************************************************)
EXTENDS Integers, FiniteSets, Sequences

CONSTANTS
    Sources,        \* physical pages (rows of acquisition_target)
    Hosts,          \* host names
    HostOf,         \* the host name of each source's URL
    PortedSources,  \* sources whose URL names a port (8080 and 8443 are allowed)
    Cycles,         \* cycle keys
    ExplicitCycles, \* the cycles somebody names (--cycle, or the Celery task)
    Workers,        \* worker processes
    Outcomes,       \* the fetch outcomes the web is allowed to produce
    RetryAfters,    \* the Retry-After values a server may send, in ticks
    MaxAttempts,    \* MAX_ATTEMPTS_PER_CYCLE
    StrikeLimit,    \* RATE_LIMIT_STRIKE_LIMIT
    LeaseTicks,     \* DEFAULT_LEASE_SECONDS
    RateLimitTicks, \* DEFAULT_RATE_LIMIT_COOLDOWN_SECONDS
    DnsTicks,       \* DEFAULT_DNS_COOLDOWN_SECONDS
    BackoffBase,    \* the 15 seconds of backoff_seconds
    BackoffCap,     \* its ceiling of 300 seconds
    RetryAfterCap,  \* its ceiling of 3600 seconds on a Retry-After
    MaxGeneration,  \* bound: claims of one attempt (only a release allows a second)
    MaxDecisions,   \* bound: operator commands
    NoLease, NoCycle

(* FetchStatus, with HTTP_ERROR split: GONE is one of PERMANENT_STATUSES.    *)
AllOutcomes == {"OK", "UNCHANGED", "RATE_LIMITED", "DNS_TEMPORARY", "NAME_NOT_RESOLVED",
                "BLOCKED", "HTTP_ERROR", "GONE", "TIMEOUT"}

ASSUME ConstantsAssumption ==
    /\ IsFiniteSet(Sources)
    /\ HostOf \in [Sources -> Hosts]
    /\ PortedSources \subseteq Sources
    /\ ExplicitCycles \subseteq Cycles
    /\ Outcomes \subseteq AllOutcomes
    /\ RetryAfters \subseteq Nat \ {0}
    /\ MaxAttempts \in Nat \ {0}
    /\ StrikeLimit \in Nat \ {0}
    /\ {LeaseTicks, RateLimitTicks, DnsTicks, BackoffBase, BackoffCap, RetryAfterCap}
          \subseteq Nat \ {0}
    /\ MaxGeneration \in Nat \ {0}
    /\ MaxDecisions \in Nat
    /\ NoCycle \notin Cycles

Least(m, n)    == IF m <= n THEN m ELSE n
Greatest(m, n) == IF m >= n THEN m ELSE n

(* backoff_seconds, retry_after = 0 standing for None. *)
Backoff(n, retryAfter) ==
    IF retryAfter > 0 THEN Greatest(1, Least(retryAfter, RetryAfterCap))
                      ELSE Least(BackoffCap, BackoffBase * 2^(n - 1))

(* Doubling, which tlapm knows nothing about, stays within the numbers.       *)
ASSUME BackoffAssumption == \A n \in 1..MaxAttempts : Backoff(n, 0) \in Nat

(* A row of fetch_attempt is named by uq_fetch_attempt_source_cycle_attempt. *)
Attempts == Sources \X Cycles \X (1..MaxAttempts)
SourceOf(a) == a[1]
CycleOf(a)  == a[2]
NumberOf(a) == a[3]

(* A lease as the worker remembers it: the attempt and the token of the      *)
(* claim. A token is a fresh UUID; the generation of the claim stands for it *)
(* and 0 for NULL.                                                           *)
Leases == [attempt : Attempts, token : Nat]
ASSUME NoLeaseAssumption == NoLease \notin Leases

VARIABLES
    att,       \* fetch_attempt
    line,      \* its QUEUED rows in the order (scheduled_for, created_at)
    runs,      \* fetch_run
    elig,      \* source.fetch_eligibility
    access,    \* source.access_state
    cool,      \* source.cooldown_until, ticks left
    strikes,   \* source.rate_limit_strikes
    hostCool,  \* host_cooldown, ticks left (0: no row, or one that has passed)
    audits,    \* audit_log rows appended by recovery.py
    pc, cyc, lease   \* the workers

attemptVars == <<att, line, runs>>
sourceVars  == <<elig, access, cool, strikes, hostCool>>
workerVars  == <<pc, cyc, lease>>
vars == <<attemptVars, sourceVars, audits, workerVars>>

AttemptStates == {"ABSENT", "QUEUED", "RUNNING", "FINALIZED", "ABANDONED"}
Eligibilities == {"FETCHABLE", "BLOCKED", "NEEDS_MANUAL_REVIEW", "DISABLED"}
RunStatuses   == AllOutcomes \cup {"INTERNAL_ERROR", "ABANDONED"}
Successes     == {"OK", "UNCHANGED"}
Terminal      == {"FINALIZED", "ABANDONED"}

Absent == [state |-> "ABSENT", wait |-> 0, ttl |-> 0, gen |-> 0, token |-> 0]

Init ==
    /\ att  = [a \in Attempts |-> Absent]
    /\ line = <<>>
    /\ runs = {}
    /\ elig       = [s \in Sources |-> "FETCHABLE"]
    /\ access     = [s \in Sources |-> "OK"]
    /\ cool       = [s \in Sources |-> 0]
    /\ strikes    = [s \in Sources |-> 0]
    /\ hostCool   = [h \in Hosts |-> 0]
    /\ audits = 0
    /\ pc    = [w \in Workers |-> "off"]
    /\ cyc   = [w \in Workers |-> NoCycle]
    /\ lease = [w \in Workers |-> NoLease]

----------------------------------------------------------------------------
(* Scheduling *)

Exists(a) == att[a].state # "ABSENT"

Schedulable(s) == elig[s] = "FETCHABLE" /\ access[s] = "OK"

(* source_health.schedule_state = 'COOLDOWN'; the view strips the port. *)
InCooldown(s) == Schedulable(s) /\ (cool[s] > 0 \/ hostCool[HostOf[s]] > 0)

(* A row enters the order after every row that is due no later, all of `new` *)
(* being inserted by one statement's now().                                  *)
LineUp(new, delay) ==
    \E k \in 0..Len(line) :
        /\ \A i \in 1..Len(line) : (i <= k) <=> (att[line[i]].wait <= delay)
        /\ line' = SubSeq(line, 1, k) \o new \o SubSeq(line, k + 1, Len(line))

Queued(delay) == [Absent EXCEPT !.state = "QUEUED", !.wait = delay]

(* enqueue_cycle skips what may not be fetched, what is in cooldown and any  *)
(* page that already has an attempt of this cycle, whatever became of it.    *)
Enqueueable(s, c) ==
    /\ Schedulable(s)
    /\ ~InCooldown(s)
    /\ \A n \in 1..MaxAttempts : ~Exists(<<s, c, n>>)

(* One transaction; the filters and the limit make `pages` any selection.    *)
Enqueue(c, pages) ==
    /\ pages # {}
    /\ \A s \in pages : Enqueueable(s, c)
    /\ \E order \in [1..Cardinality(pages) -> {<<s, c, 1>> : s \in pages}] :
          /\ \A i, j \in DOMAIN order : order[i] = order[j] => i = j
          /\ LineUp(order, 0)
    /\ att' = [a \in Attempts |-> IF CycleOf(a) = c /\ NumberOf(a) = 1 /\ SourceOf(a) \in pages
                                  THEN Queued(0) ELSE att[a]]
    /\ UNCHANGED <<runs, sourceVars, audits, workerVars>>

(* claim_next joins host_cooldown on the authority as it is spelled in the   *)
(* URL, port included; _pause_host wrote the bare host name.                 *)
HostPauseSeenByClaim(s) == s \notin PortedSources /\ hostCool[HostOf[s]] > 0

Claimable(a) ==
    /\ att[a].state = "QUEUED"
    /\ att[a].wait = 0
    /\ Schedulable(SourceOf(a))
    /\ cool[SourceOf(a)] = 0
    /\ ~HostPauseSeenByClaim(SourceOf(a))

----------------------------------------------------------------------------
(* A worker's run of one cycle *)

(* Mutant: the worker assumes the newest cycle, as the Celery task does. *)
StartRunNewestCycle(w, c) ==
    /\ pc[w] = "off"
    /\ \A d \in Cycles : d <= c
    /\ pc'  = [pc EXCEPT ![w] = "ready"]
    /\ cyc' = [cyc EXCEPT ![w] = c]
    /\ UNCHANGED <<attemptVars, sourceVars, audits, lease>>

(* `worker` without --cycle asks oldest_open_cycle: the cycle of the first   *)
(* QUEUED row, claimable or not.                                             *)
StartRun(w, c) ==
    /\ pc[w] = "off"
    /\ c \in ExplicitCycles \/ (line # <<>> /\ c = CycleOf(line[1]))
    /\ pc'  = [pc EXCEPT ![w] = "ready"]
    /\ cyc' = [cyc EXCEPT ![w] = c]
    /\ UNCHANGED <<attemptVars, sourceVars, audits, lease>>

InRun(w, i) == CycleOf(line[i]) = cyc[w] /\ Claimable(line[i])

(* The row under a lease with a token of its own. *)
Taken(row) == [row EXCEPT !.state = "RUNNING", !.ttl = LeaseTicks,
                          !.gen = @ + 1, !.token = row.gen + 1]

Claim(w) ==
    /\ pc[w] = "ready"
    /\ \E i \in 1..Len(line) :
          /\ InRun(w, i)
          /\ \A j \in 1..(i - 1) : ~InRun(w, j)
          /\ LET a == line[i] IN
                /\ att' = [att EXCEPT ![a] = Taken(att[a])]
                /\ lease' = [lease EXCEPT ![w] = [attempt |-> a, token |-> att[a].gen + 1]]
          /\ line' = SubSeq(line, 1, i - 1) \o SubSeq(line, i + 1, Len(line))
    /\ pc' = [pc EXCEPT ![w] = "leased"]
    /\ UNCHANGED <<runs, sourceVars, audits, cyc>>

(* claim_next found nothing: run_cycle returns. *)
EndRun(w) ==
    /\ pc[w] = "ready"
    /\ \A i \in 1..Len(line) : ~InRun(w, i)
    /\ pc'  = [pc EXCEPT ![w] = "off"]
    /\ cyc' = [cyc EXCEPT ![w] = NoCycle]
    /\ UNCHANGED <<attemptVars, sourceVars, audits, lease>>

(* The page is done with; the run goes on, or max_pages ends it.             *)
PageDone(w) ==
    /\ lease' = [lease EXCEPT ![w] = NoLease]
    /\ \/ pc' = [pc EXCEPT ![w] = "ready"] /\ UNCHANGED cyc
       \/ pc' = [pc EXCEPT ![w] = "off"]   /\ cyc' = [cyc EXCEPT ![w] = NoCycle]

(* Mutants: the fence without its token, and without its state. *)
FenceOnState(l) == att[l.attempt].state = "RUNNING"
FenceOnToken(l) == att[l.attempt].token = l.token

(* The fence of every conditional write: state = 'RUNNING' AND lease_token. *)
Fence(l) == att[l.attempt].state = "RUNNING" /\ att[l.attempt].token = l.token

Close(row, state) == [row EXCEPT !.state = state, !.ttl = 0]

RunOf(a, status, token) == [attempt |-> a, status |-> status, token |-> token]

(* heartbeat: the fenced extension. The runner itself never calls it. *)
Heartbeat(w) ==
    /\ pc[w] = "leased"
    /\ Fence(lease[w])
    /\ att' = [att EXCEPT ![lease[w].attempt].ttl = LeaseTicks]
    /\ UNCHANGED <<line, runs, sourceVars, audits, workerVars>>

(* release_lease gives the row back; it does not stop a fetch in flight.     *)
Release(w) ==
    /\ pc[w] = "leased"
    /\ Fence(lease[w])
    /\ att[lease[w].attempt].gen < MaxGeneration
    /\ att' = [att EXCEPT ![lease[w].attempt] =
                  [Queued(0) EXCEPT !.gen = att[lease[w].attempt].gen]]
    /\ LineUp(<<lease[w].attempt>>, 0)
    /\ UNCHANGED <<runs, sourceVars, audits, workerVars>>

----------------------------------------------------------------------------
(* Finalisation: record_outcome and _react, in one transaction *)

Finalise(a, status, token) ==
    /\ att'  = [att EXCEPT ![a] = Close(@, "FINALIZED")]
    /\ runs' = runs \cup {RunOf(a, status, token)}

(* The finalisation together with schedule_retry: the next number after the  *)
(* highest, or nothing once the cap is reached.                              *)
FinaliseAndRetry(a, status, token, delay) ==
    \E highest \in 1..MaxAttempts :
        LET next == <<SourceOf(a), CycleOf(a), highest + 1>> IN
        /\ Exists(<<SourceOf(a), CycleOf(a), highest>>)
        /\ \A n \in (highest + 1)..MaxAttempts : ~Exists(<<SourceOf(a), CycleOf(a), n>>)
        /\ IF highest = MaxAttempts
             THEN Finalise(a, status, token) /\ UNCHANGED line
             ELSE /\ att'  = [att EXCEPT ![a] = Close(@, "FINALIZED"), ![next] = Queued(delay)]
                  /\ runs' = runs \cup {RunOf(a, status, token)}
                  /\ LineUp(<<next>>, delay)

(* Mutant: the machine's judgement without its WHERE clause. *)
JudgeAlways(s, state) == elig' = [elig EXCEPT ![s] = state]

(* _set_eligibility_if_unjudged *)
Judge(s, state) ==
    elig' = IF elig[s] = "FETCHABLE" THEN [elig EXCEPT ![s] = state] ELSE elig

(* OK, UNCHANGED: _clear_cooldown; eligibility is not touched. *)
RecordSuccess(w, o) ==
    LET a == lease[w].attempt  s == SourceOf(a) IN
    /\ o \in Successes
    /\ Finalise(a, o, lease[w].token)
    /\ cool'    = [cool EXCEPT ![s] = 0]
    /\ strikes' = [strikes EXCEPT ![s] = 0]
    /\ UNCHANGED <<line, elig, access, hostCool>>

(* Mutant: the newest pause wins over a longer one. *)
RateLimitedLastPauseWins(w, o, retryAfter) ==
    LET a == lease[w].attempt  s == SourceOf(a)
        delay == IF retryAfter > 0 THEN retryAfter ELSE RateLimitTicks IN
    /\ o = "RATE_LIMITED"
    /\ strikes'  = [strikes EXCEPT ![s] = @ + 1]
    /\ cool'     = [cool EXCEPT ![s] = delay]
    /\ hostCool' = [hostCool EXCEPT ![HostOf[s]] = delay]
    /\ FinaliseAndRetry(a, o, lease[w].token, delay)
    /\ UNCHANGED <<elig, access>>

(* RATE_LIMITED: a strike, a source cooldown, a host pause that only ever    *)
(* extends, and a retry unless the strikes call for a person.                *)
RecordRateLimited(w, o, retryAfter) ==
    LET a == lease[w].attempt  s == SourceOf(a)
        delay == IF retryAfter > 0 THEN retryAfter ELSE RateLimitTicks IN
    /\ o = "RATE_LIMITED"
    /\ strikes'  = [strikes EXCEPT ![s] = @ + 1]
    /\ cool'     = [cool EXCEPT ![s] = delay]
    /\ hostCool' = [hostCool EXCEPT ![HostOf[s]] = Greatest(@, delay)]
    /\ IF strikes[s] + 1 >= StrikeLimit
         THEN /\ Judge(s, "NEEDS_MANUAL_REVIEW")
              /\ Finalise(a, o, lease[w].token)
              /\ UNCHANGED line
         ELSE /\ FinaliseAndRetry(a, o, lease[w].token, delay)
              /\ UNCHANGED elig
    /\ UNCHANGED access

RecordDnsTemporary(w, o) ==
    LET a == lease[w].attempt  s == SourceOf(a)
        delay == Greatest(Backoff(NumberOf(a), 0), DnsTicks) IN
    /\ o = "DNS_TEMPORARY"
    /\ cool' = [cool EXCEPT ![s] = delay]
    /\ FinaliseAndRetry(a, o, lease[w].token, delay)
    /\ UNCHANGED <<elig, access, strikes, hostCool>>

(* NAME_NOT_RESOLVED and BLOCKED park the source unless somebody already     *)
(* judged it; only a refusal moves access_state.                             *)
RecordParking(w, o) ==
    LET a == lease[w].attempt  s == SourceOf(a) IN
    /\ \/ o = "NAME_NOT_RESOLVED" /\ Judge(s, "NEEDS_MANUAL_REVIEW") /\ UNCHANGED access
       \/ /\ o = "BLOCKED"
          /\ Judge(s, "BLOCKED")
          /\ access' = IF elig[s] = "FETCHABLE" THEN [access EXCEPT ![s] = "BLOCKED"] ELSE access
    /\ Finalise(a, o, lease[w].token)
    /\ UNCHANGED <<line, cool, strikes, hostCool>>

(* HTTP_ERROR (GONE stands for 404 and 410) and TIMEOUT. *)
RecordFailure(w, o, retryAfter) ==
    LET a == lease[w].attempt IN
    /\ \/ o = "GONE" /\ Finalise(a, o, lease[w].token) /\ UNCHANGED line
       \/ /\ o \in {"HTTP_ERROR", "TIMEOUT"}
          /\ FinaliseAndRetry(a, o, lease[w].token, Backoff(NumberOf(a), retryAfter))
    /\ UNCHANGED <<elig, access, cool, strikes, hostCool>>

Record(w, o, retryAfter) ==
    /\ pc[w] = "leased"
    /\ Fence(lease[w])
    /\ \/ RecordSuccess(w, o)
       \/ RecordRateLimited(w, o, retryAfter)
       \/ RecordDnsTemporary(w, o)
       \/ RecordParking(w, o)
       \/ RecordFailure(w, o, retryAfter)
    /\ PageDone(w)
    /\ UNCHANGED audits

(* Mutant: our own failure earns the page a retry. *)
ContainAndRetry(w) ==
    /\ pc[w] = "leased"
    /\ Fence(lease[w])
    /\ FinaliseAndRetry(lease[w].attempt, "INTERNAL_ERROR", lease[w].token, 0)
    /\ PageDone(w)
    /\ UNCHANGED <<sourceVars, audits>>

(* An exception while the page was processed, contained: record_internal_error. *)
ContainInternalError(w) ==
    /\ pc[w] = "leased"
    /\ Fence(lease[w])
    /\ Finalise(lease[w].attempt, "INTERNAL_ERROR", lease[w].token)
    /\ PageDone(w)
    /\ UNCHANGED <<line, sourceVars, audits>>

(* LeaseLostError: nothing is written. *)
LoseLease(w) ==
    /\ pc[w] = "leased"
    /\ ~Fence(lease[w])
    /\ PageDone(w)
    /\ UNCHANGED <<attemptVars, sourceVars, audits>>

(* The containment could not write either; the row is left to the sweeper.   *)
LeaveUnrecorded(w) ==
    /\ pc[w] = "leased"
    /\ PageDone(w)
    /\ UNCHANGED <<attemptVars, sourceVars, audits>>

(* The process dies, or Ctrl-C ends it. *)
Crash(w) ==
    /\ pc[w] # "off"
    /\ pc'    = [pc EXCEPT ![w] = "off"]
    /\ cyc'   = [cyc EXCEPT ![w] = NoCycle]
    /\ lease' = [lease EXCEPT ![w] = NoLease]
    /\ UNCHANGED <<attemptVars, sourceVars, audits>>

----------------------------------------------------------------------------
(* The sweeper, the clock and the operator *)

(* Mutant: the deadline is compared a tick too late. *)
ExpiredLate == {a \in Attempts : att[a].state = "RUNNING" /\ att[a].ttl < 0}

Expired == {a \in Attempts : att[a].state = "RUNNING" /\ att[a].ttl = 0}

(* sweep_expired. LIMIT and SKIP LOCKED make it any part of the expired rows. *)
Sweep(swept) ==
    /\ swept # {}
    /\ att'  = [a \in Attempts |-> IF a \in swept THEN Close(att[a], "ABANDONED") ELSE att[a]]
    /\ runs' = runs \cup {RunOf(a, "ABANDONED", 0) : a \in swept}
    /\ UNCHANGED <<line, sourceVars, audits, workerVars>>

Elapse(n) == IF n > 0 THEN n - 1 ELSE 0

Tick ==
    /\ \/ \E a \in Attempts : att[a].wait + att[a].ttl > 0
       \/ \E s \in Sources : cool[s] > 0
       \/ \E h \in Hosts : hostCool[h] > 0
    /\ att' = [a \in Attempts |-> [att[a] EXCEPT !.wait = Elapse(@), !.ttl = Elapse(@)]]
    /\ cool'     = [s \in Sources |-> Elapse(cool[s])]
    /\ hostCool' = [h \in Hosts |-> Elapse(hostCool[h])]
    /\ UNCHANGED <<line, runs, elig, access, strikes, audits, workerVars>>

(* Every recovery command ends by appending its audit row. *)
Audited ==
    /\ audits < MaxDecisions
    /\ audits' = audits + 1
    /\ UNCHANGED <<attemptVars, workerVars>>

(* Mutant: the re-enable forgets access_state. *)
ReenableEligibilityOnly(s) ==
    /\ elig'    = [elig EXCEPT ![s] = "FETCHABLE"]
    /\ cool'    = [cool EXCEPT ![s] = 0]
    /\ strikes' = [strikes EXCEPT ![s] = 0]
    /\ Audited
    /\ UNCHANGED <<access, hostCool>>

Reenable(s) ==
    /\ elig'    = [elig EXCEPT ![s] = "FETCHABLE"]
    /\ access'  = [access EXCEPT ![s] = "OK"]
    /\ cool'    = [cool EXCEPT ![s] = 0]
    /\ strikes' = [strikes EXCEPT ![s] = 0]
    /\ Audited
    /\ UNCHANGED hostCool

Disable(s) ==
    /\ elig' = [elig EXCEPT ![s] = "DISABLED"]
    /\ Audited
    /\ UNCHANGED <<access, cool, strikes, hostCool>>

MarkNeedsReview(s) ==
    /\ elig' = [elig EXCEPT ![s] = "NEEDS_MANUAL_REVIEW"]
    /\ Audited
    /\ UNCHANGED <<access, cool, strikes, hostCool>>

(* include_host deletes the row of the authority as spelled in the URL.      *)
ClearCooldown(s, includeHost) ==
    /\ InCooldown(s)
    /\ cool' = [cool EXCEPT ![s] = 0]
    /\ hostCool' = IF includeHost /\ s \notin PortedSources
                     THEN [hostCool EXCEPT ![HostOf[s]] = 0] ELSE hostCool
    /\ Audited
    /\ UNCHANGED <<elig, access, strikes>>

Operator(s) ==
    \/ Reenable(s) \/ Disable(s) \/ MarkNeedsReview(s)
    \/ \E includeHost \in BOOLEAN : ClearCooldown(s, includeHost)

Answer(w) == \E o \in Outcomes, r \in RetryAfters \cup {0} : Record(w, o, r)

Next ==
    \/ \E c \in Cycles, pages \in SUBSET Sources : Enqueue(c, pages)
    \/ \E w \in Workers :
          \/ \E c \in Cycles : StartRun(w, c)
          \/ Claim(w) \/ EndRun(w)
          \/ Heartbeat(w) \/ Release(w)
          \/ Answer(w) \/ ContainInternalError(w)
          \/ LoseLease(w) \/ LeaveUnrecorded(w) \/ Crash(w)
    \/ \E swept \in SUBSET Expired : Sweep(swept)
    \/ \E s \in Sources : Operator(s)
    \/ Tick

Spec == Init /\ [][Next]_vars

(* docs/deploy-crawler.md: the services crawler-worker (hourly) and          *)
(* crawler-sweep (every 15 minutes) keep running and time passes. A worker   *)
(* may be killed again and again, but not for ever before its first claim:   *)
(* the claim follows the start of the run at once (strong fairness). Nothing *)
(* obliges a heartbeat, a release, an operator or a crash.                   *)
Fairness ==
    /\ \A w \in Workers :
          /\ WF_vars(\E c \in Cycles : StartRun(w, c))
          /\ SF_vars(Claim(w))
          /\ WF_vars(EndRun(w) \/ Answer(w) \/ LoseLease(w))
    /\ WF_vars(\E swept \in SUBSET Expired : Sweep(swept))
    /\ WF_vars(Tick)

FairSpec == Spec /\ Fairness
----------------------------------------------------------------------------
(* Properties *)

(* The history kept in fetch_attempt and fetch_run, read as a fetch ledger.  *)
Outcome(a) == (CHOOSE r \in runs : r.attempt = a).status

LedgerOf == [a \in Attempts |->
                IF att[a].state = "ABSENT" THEN "absent"
                ELSE IF att[a].state \in {"QUEUED", "RUNNING"} THEN "open"
                ELSE Outcome(a)]

Ledger == INSTANCE FetchLedger WITH ledger <- LedgerOf

(* Every variable holds a value of its type. *)
TypeOK ==
    /\ att \in [Attempts -> [state : AttemptStates, wait : Nat, ttl : Nat,
                             gen : Nat, token : Nat]]
    /\ line \in Seq(Attempts)
    /\ runs \subseteq [attempt : Attempts, status : RunStatuses, token : Nat]
    /\ elig \in [Sources -> Eligibilities]
    /\ access \in [Sources -> {"OK", "BLOCKED"}]
    /\ cool \in [Sources -> Nat]
    /\ strikes \in [Sources -> Nat]
    /\ hostCool \in [Hosts -> Nat]
    /\ audits \in Nat
    /\ pc \in [Workers -> {"off", "ready", "leased"}]
    /\ cyc \in [Workers -> Cycles \cup {NoCycle}]
    /\ lease \in [Workers -> Leases \cup {NoLease}]
    /\ \A w \in Workers : pc[w] = "leased" => lease[w] \in Leases

(* The tokens behind the fence: a row that has been claimed carries the token *)
(* of its latest claim until it is released, and what a worker remembers is  *)
(* never newer, and never what another worker remembers. The prover needs    *)
(* this to know that a freshly minted token is nobody's yet.                 *)
TokensOK ==
    /\ \A a \in Attempts :
          /\ ~Exists(a) => att[a].gen = 0
          /\ att[a].state = "QUEUED" => att[a].token = 0
          /\ att[a].state \in Terminal \cup {"RUNNING"} => att[a].gen > 0 /\ att[a].token = att[a].gen
    /\ \A w \in Workers : pc[w] = "leased" =>
          lease[w].token > 0 /\ lease[w].token <= att[lease[w].attempt].gen
    /\ \A v, w \in Workers :
          pc[v] = "leased" /\ pc[w] = "leased" /\ lease[v] = lease[w] => v = w

(* Every attempt that is over has exactly one run, an abandoned one the      *)
(* sweeper's, and an attempt that is not over has none, although a worker    *)
(* and the sweeper may race to end it: the fenced update and the run share a *)
(* transaction, so uq_fetch_run_attempt_id is never needed (lease.py:27-36). *)
OneTerminalRun ==
    \A a \in Attempts :
        LET mine == {r \in runs : r.attempt = a} IN
        IF att[a].state \in Terminal
          THEN \E r \in mine : /\ mine = {r}
                               /\ r.status = "ABANDONED" <=> att[a].state = "ABANDONED"
          ELSE mine = {}

(* What a worker wrote was written under the last lease of the attempt: a    *)
(* worker whose lease was released, swept or given to another writes nothing *)
(* however late it wakes up (lease.py:11-25).                                *)
NoStaleWriter ==
    \A r \in runs : r.status # "ABANDONED" => r.token > 0 /\ r.token = att[r.attempt].token

(* Two workers never both hold a lease that would pass the fence.            *)
OneHolder ==
    \A v, w \in Workers :
        /\ pc[v] = "leased" /\ Fence(lease[v])
        /\ pc[w] = "leased" /\ Fence(lease[w])
        /\ lease[v].attempt = lease[w].attempt
        => v = w

(* A source that was refused, or that was rate limited as often as a         *)
(* schedule should ignore, is not fetchable: neither a late success, nor a   *)
(* re-enable that leaves half of the refusal behind, reopens it              *)
(* (runner._react, recovery.reenable).                                       *)
ParkedStaysParked ==
    \A s \in Sources :
        access[s] = "BLOCKED" \/ strikes[s] >= StrikeLimit => elig[s] # "FETCHABLE"

(* A worker never overrides a judgement, a person's or an earlier one: only  *)
(* an audited command moves a source that is not FETCHABLE, even when an     *)
(* answer arrives that was asked for before the judgement was made           *)
(* (_set_eligibility_if_unjudged).                                           *)
OnlyPeopleOverride ==
    [][\A s \in Sources :
          elig[s] # "FETCHABLE" /\ <<elig[s], access[s]>>' # <<elig[s], access[s]>>
          => audits' = audits + 1]_vars

(* A host's pause runs out with the clock or is cut short by an operator; an *)
(* answer that arrives later, of another page and naming a shorter time,     *)
(* never shortens it (_pause_host).                                          *)
HostPauseOnlyExtends ==
    [][\A h \in Hosts : hostCool'[h] < hostCool[h] => Tick \/ audits' = audits + 1]_vars

(* Every attempt a worker has claimed is eventually over or back in the      *)
(* queue, even if its worker dies, loses its database or stalls.             *)
NothingStaysRunning ==
    \A a \in Attempts : att[a].state = "RUNNING" ~> att[a].state # "RUNNING"

(* Every attempt that may be claimed is eventually claimed, or stops being   *)
(* claimable: the queue is drained whatever cycles its rows belong to.       *)
NothingClaimableStarves ==
    \A a \in Attempts : Claimable(a) ~> ~Claimable(a)

(* The core keeps the promises of FetchLedger: at most MaxAttempts tries of  *)
(* a page in a cycle, one at a time, each ended once, and every further try  *)
(* opened by the step that ended the one before.                             *)
RefinesLedger == Ledger!Spec

----------------------------------------------------------------------------
(* What the documentation says and the code does not do *)

(* scripts/acquisition.py:496 "Sweeping turns each one into an ABANDONED     *)
(* attempt ... so the crash becomes a queryable fact and the page is         *)
(* eligible again": a page whose last attempt of a cycle was abandoned may   *)
(* be queued again, by the enqueue of that cycle or by a retry.              *)
SweptPageIsEligibleAgain ==
    \A s \in Sources, c \in Cycles :
        /\ att[<<s, c, 1>>].state = "ABANDONED"
        /\ Schedulable(s) /\ ~InCooldown(s)
        /\ MaxAttempts > 1
        => Enqueueable(s, c) \/ Exists(<<s, c, 2>>)
============================================================================
