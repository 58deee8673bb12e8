------------------------------ MODULE HostGate ------------------------------
(***************************************************************************)
(* Politeness against the clock: what a worker remembers of a host in its  *)
(* own HostGate, what the table host_cooldown says to all of them, and the *)
(* lease that runs while a worker waits and fetches (runner.py HostGate,   *)
(* _attempt_one, _pause_host; lease.py claim_next, sweep_expired).         *)
(*                                                                         *)
(* Acquisition lets a fetch last as long as it likes. Here time counts: a  *)
(* worker leaves the gate when its wait is over, a fetch ends within the   *)
(* fetcher's total budget, and the database transactions take no time. A   *)
(* retry is an attempt like any other and is not told apart from one.      *)
(***************************************************************************)
EXTENDS Integers

CONSTANTS
    Attempts,      \* rows of fetch_attempt, of any page and cycle
    Hosts,
    HostOf,        \* the host name of each attempt's URL
    Ported,        \* attempts whose URL names a port
    Workers,       \* worker processes, each with a HostGate of its own
    Pauses,        \* the pauses a 429 earns, in ticks
    FloorTicks,    \* min_interval_seconds
    FetchTicks,    \* FetchPolicy.total_timeout_seconds
    LeaseTicks,    \* DEFAULT_LEASE_SECONDS
    Mishaps        \* which of "clear" (an operator clears a host's pause) and
                   \* "fail" (the recording transaction fails) may happen

ASSUME TimesAssumption ==
    /\ HostOf \in [Attempts -> Hosts]
    /\ Ported \subseteq Attempts
    /\ Pauses \subseteq Nat \ {0}
    /\ {FloorTicks, FetchTicks, LeaseTicks} \subseteq Nat
    /\ Mishaps \subseteq {"clear", "fail"}

(* The lease outlasts the floor of the gate and the budget of the fetcher:   *)
(* 180 seconds against 2 and 60.                                             *)
ASSUME LeaseAssumption == FloorTicks + FetchTicks < LeaseTicks

VARIABLES
    state,     \* fetch_attempt.state
    ttl,       \* fetch_attempt.lease_expires_at, ticks left
    cooldown,  \* host_cooldown.cooldown_until, ticks left
    pc,        \* each worker: "idle", "gate", "fetching" or "answered"
    work,      \* the attempt it has leased
    paused,    \* its gate's _paused_until, ticks left
    floor,     \* its gate's _last_request + min_interval_seconds, ticks left
    budget,    \* what is left of the fetcher's total timeout
    asked,     \* the pause the answer in hand asks for, 0 for none
    late,      \* history: its requests to a host since the pause was recorded
    unshared   \* history: hosts a pause of which a gate may remember alone

attempts == <<state, ttl>>
memory   == <<paused, floor>>
history  == <<late, unshared>>
vars == <<attempts, cooldown, pc, work, memory, budget, asked, history>>

None == [h \in Hosts |-> 0]

Init ==
    /\ state = [a \in Attempts |-> "QUEUED"]
    /\ ttl   = [a \in Attempts |-> 0]
    /\ cooldown = None
    /\ pc     = [w \in Workers |-> "idle"]
    /\ work   \in {[w \in Workers |-> a] : a \in Attempts}
    /\ paused = [w \in Workers |-> None]
    /\ floor  = [w \in Workers |-> None]
    /\ budget = [w \in Workers |-> 0]
    /\ asked  = [w \in Workers |-> 0]
    /\ late   = [w \in Workers |-> None]
    /\ unshared = {}

Greatest(m, n) == IF m >= n THEN m ELSE n

Elapse(n) == IF n > 0 THEN n - 1 ELSE 0

Host(w) == HostOf[work[w]]
----------------------------------------------------------------------------
(* One page of a worker's run *)

(* Mutant: the claim does not ask host_cooldown. *)
ClaimUnasked(w, a) ==
    /\ pc[w] = "idle"
    /\ state[a] = "QUEUED"
    /\ state' = [state EXCEPT ![a] = "RUNNING"]
    /\ ttl'   = [ttl EXCEPT ![a] = LeaseTicks]
    /\ pc'    = [pc EXCEPT ![w] = "gate"]
    /\ work'  = [work EXCEPT ![w] = a]
    /\ UNCHANGED <<cooldown, memory, budget, asked, history>>

(* claim_next; the order of the queue is left out. *)
Claim(w, a) ==
    /\ pc[w] = "idle"
    /\ state[a] = "QUEUED"
    /\ a \in Ported \/ cooldown[HostOf[a]] = 0
    /\ state' = [state EXCEPT ![a] = "RUNNING"]
    /\ ttl'   = [ttl EXCEPT ![a] = LeaseTicks]
    /\ pc'    = [pc EXCEPT ![w] = "gate"]
    /\ work'  = [work EXCEPT ![w] = a]
    /\ UNCHANGED <<cooldown, memory, budget, asked, history>>

MayAsk(w) == /\ pc[w] = "gate"
             /\ paused[w][Host(w)] = 0
             /\ floor[w][Host(w)] = 0

(* HostGate.acquire has slept off the pause and the floor. *)
Fetch(w) ==
    /\ MayAsk(w)
    /\ pc' = [pc EXCEPT ![w] = "fetching"]
    /\ budget' = [budget EXCEPT ![w] = FetchTicks]
    /\ late' = IF cooldown[Host(w)] > 0 /\ work[w] \notin Ported
                 THEN [late EXCEPT ![w][Host(w)] = @ + 1] ELSE late
    /\ UNCHANGED <<attempts, cooldown, work, memory, asked, unshared>>

(* The gate is left: _last_request is set and, in the same step of the event *)
(* loop, a 429 pauses the host in the gate.                                  *)
Answer(w, pause) ==
    /\ pc[w] = "fetching"
    /\ pc'     = [pc EXCEPT ![w] = "answered"]
    /\ floor'  = [floor EXCEPT ![w][Host(w)] = FloorTicks]
    /\ paused' = [paused EXCEPT ![w][Host(w)] = Greatest(@, pause)]
    /\ asked'  = [asked EXCEPT ![w] = pause]
    /\ budget' = [budget EXCEPT ![w] = 0]
    /\ UNCHANGED <<attempts, cooldown, work, history>>

(* The page is done with. *)
Drop(w) ==
    /\ pc'    = [pc EXCEPT ![w] = "idle"]
    /\ asked' = [asked EXCEPT ![w] = 0]

(* Mutant: the newest pause wins over a longer one. *)
RecordLastPauseWins(w) ==
    /\ pc[w] = "answered"
    /\ state[work[w]] = "RUNNING"
    /\ state' = [state EXCEPT ![work[w]] = "FINALIZED"]
    /\ cooldown' = IF asked[w] > 0 THEN [cooldown EXCEPT ![Host(w)] = asked[w]] ELSE cooldown
    /\ Drop(w)
    /\ UNCHANGED <<ttl, work, memory, budget, history>>

(* record_outcome and _react: under the fence, a 429 extends the pause of    *)
(* the host for everybody.                                                   *)
Record(w) ==
    /\ pc[w] = "answered"
    /\ state[work[w]] = "RUNNING"
    /\ state' = [state EXCEPT ![work[w]] = "FINALIZED"]
    /\ cooldown' = [cooldown EXCEPT ![Host(w)] = Greatest(@, asked[w])]
    /\ Drop(w)
    /\ UNCHANGED <<ttl, work, memory, budget, history>>

(* The fence is lost: nothing is written, the pause is not recorded. *)
LoseLease(w) ==
    /\ pc[w] = "answered"
    /\ state[work[w]] # "RUNNING"
    /\ Drop(w)
    /\ unshared' = IF asked[w] > 0 THEN unshared \cup {Host(w)} ELSE unshared
    /\ UNCHANGED <<attempts, cooldown, work, memory, budget, late>>

(* The recording transaction fails; _contain_internal_error ends the attempt *)
(* instead, or cannot: the pause stays in the gate alone.                    *)
RecordFails(w) ==
    /\ "fail" \in Mishaps
    /\ pc[w] = "answered"
    /\ state[work[w]] = "RUNNING"
    /\ state' = [state EXCEPT ![work[w]] = "FINALIZED"] \/ UNCHANGED state
    /\ Drop(w)
    /\ unshared' = IF asked[w] > 0 THEN unshared \cup {Host(w)} ELSE unshared
    /\ UNCHANGED <<ttl, cooldown, work, memory, budget, late>>

(* The process ends or dies, and another starts with an empty gate. *)
Restart(w) ==
    /\ Drop(w)
    /\ paused' = [paused EXCEPT ![w] = None]
    /\ floor'  = [floor EXCEPT ![w] = None]
    /\ budget' = [budget EXCEPT ![w] = 0]
    /\ UNCHANGED <<attempts, cooldown, work, history>>

----------------------------------------------------------------------------
(* Everybody else *)

(* sweep_expired *)
Sweep(a) ==
    /\ state[a] = "RUNNING"
    /\ ttl[a] = 0
    /\ state' = [state EXCEPT ![a] = "ABANDONED"]
    /\ UNCHANGED <<ttl, cooldown, pc, work, memory, budget, asked, history>>

(* recovery.clear_cooldown with include_host *)
ClearHostPause(h) ==
    /\ "clear" \in Mishaps
    /\ cooldown[h] > 0
    /\ cooldown' = [cooldown EXCEPT ![h] = 0]
    /\ late' = [w \in Workers |-> [late[w] EXCEPT ![h] = 0]]
    /\ unshared' = unshared \cup {h}
    /\ UNCHANGED <<attempts, pc, work, memory, budget, asked>>

(* A worker that may go on does: time passes only while every worker is idle, *)
(* waits for its gate or is within the budget of its fetch.                  *)
Tick ==
    /\ \A w \in Workers :
          /\ ~MayAsk(w)
          /\ pc[w] = "fetching" => budget[w] > 0
          /\ pc[w] # "answered"
    /\ ttl'      = [a \in Attempts |-> Elapse(ttl[a])]
    /\ cooldown' = [h \in Hosts |-> Elapse(cooldown[h])]
    /\ paused'   = [w \in Workers |-> [h \in Hosts |-> Elapse(paused[w][h])]]
    /\ floor'    = [w \in Workers |-> [h \in Hosts |-> Elapse(floor[w][h])]]
    /\ budget'   = [w \in Workers |-> Elapse(budget[w])]
    /\ late'     = [w \in Workers |-> [h \in Hosts |-> IF cooldown[h] > 1 THEN late[w][h] ELSE 0]]
    /\ UNCHANGED <<state, pc, work, asked, unshared>>

Next ==
    \/ \E w \in Workers :
          \/ \E a \in Attempts : Claim(w, a)
          \/ Fetch(w)
          \/ \E pause \in Pauses \cup {0} : Answer(w, pause)
          \/ Record(w) \/ LoseLease(w) \/ RecordFails(w) \/ Restart(w)
    \/ \E a \in Attempts : Sweep(a)
    \/ \E h \in Hosts : ClearHostPause(h)
    \/ Tick

Spec == Init /\ [][Next]_vars
----------------------------------------------------------------------------
(* Properties *)

(* Every variable holds a value of its type. *)
TypeOK ==
    /\ state \in [Attempts -> {"QUEUED", "RUNNING", "FINALIZED", "ABANDONED"}]
    /\ ttl \in [Attempts -> Nat]
    /\ cooldown \in [Hosts -> Nat]
    /\ pc \in [Workers -> {"idle", "gate", "fetching", "answered"}]
    /\ work \in [Workers -> Attempts]
    /\ paused \in [Workers -> [Hosts -> Nat]] /\ floor \in [Workers -> [Hosts -> Nat]]
    /\ budget \in [Workers -> Nat] /\ asked \in [Workers -> Nat]
    /\ late \in [Workers -> [Hosts -> Nat]] /\ unshared \subseteq Hosts

(* A request is never in flight under a lease that the sweeper may reap, as  *)
(* long as the table tells what the gates remember: no pause of the host was *)
(* cleared under a gate or failed to be recorded, and the URL names no port. *)
(* It takes pauses that only extend, or a worker sleeps off a pause of its   *)
(* own under a lease nobody extends.                                         *)
LeaseCoversRequest ==
    \A w \in Workers :
        pc[w] = "fetching" /\ work[w] \notin Ported /\ Host(w) \notin unshared
        => state[work[w]] = "RUNNING" /\ ttl[work[w]] > 0

(* Once a 429 has been recorded, a worker starts at most the one request     *)
(* whose attempt it had already claimed: it reads host_cooldown at every     *)
(* claim, and nothing between claim and request (docs/ACQUISITION.md:457).   *)
AtMostOneLateRequest == \A w \in Workers, h \in Hosts : late[w][h] <= 1

----------------------------------------------------------------------------
(* What the documentation says and the code does not do *)

(* lease.py:59-60 "Comfortably longer than the fetcher's total budget, so a  *)
(* slow-but-alive fetch is never reaped mid-request."                        *)
NeverReapedMidRequest == \A w \in Workers : pc[w] = "fetching" => state[work[w]] = "RUNNING"
============================================================================
