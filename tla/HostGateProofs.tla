--------------------------- MODULE HostGateProofs ---------------------------
(***************************************************************************)
(* Theorems about HostGate, for any attempts, hosts and workers and any    *)
(* times of which the lease is longer than the floor and the budget.       *)
(***************************************************************************)
EXTENDS HostGate, TLAPS

WorkerStep(w) ==
    \/ \E a \in Attempts : Claim(w, a)
    \/ Fetch(w)
    \/ \E pause \in Pauses \cup {0} : Answer(w, pause)
    \/ Record(w) \/ LoseLease(w) \/ RecordFails(w) \/ Restart(w)

Busy(w) == pc[w] # "idle"

(* A worker's attempt is nobody else's and has been claimed. *)
OwnWork ==
    /\ \A w \in Workers : Busy(w) => state[work[w]] # "QUEUED"
    /\ \A v, w \in Workers : Busy(v) /\ Busy(w) /\ v # w => work[v] # work[w]

(* What a gate remembers of a host the table says too, except for the answer *)
(* that is about to be recorded.                                             *)
Remembered ==
    \A w \in Workers, h \in Hosts \ unshared :
        paused[w][h] <= cooldown[h] \/ (pc[w] = "answered" /\ Host(w) = h /\ paused[w][h] <= asked[w])

ShortFloor == \A w \in Workers, h \in Hosts : floor[w][h] <= FloorTicks

(* The lease of a worker outlasts what is left of its wait and its fetch. *)
Covered(w) ==
    /\ pc[w] = "gate" => /\ paused[w][Host(w)] = 0
                         /\ state[work[w]] = "RUNNING"
                         /\ ttl[work[w]] > floor[w][Host(w)] + FetchTicks
    /\ pc[w] = "fetching" => state[work[w]] = "RUNNING" /\ ttl[work[w]] > budget[w]

LeaseInv ==
    /\ TypeOK /\ OwnWork /\ Remembered /\ ShortFloor
    /\ \A w \in Workers : work[w] \notin Ported /\ Host(w) \notin unshared => Covered(w)

(* No late request outlives the pause it was late for, and none is on record *)
(* against a worker that has yet to ask.                                     *)
LateInv ==
    /\ TypeOK
    /\ \A w \in Workers, h \in Hosts : /\ late[w][h] <= 1
                                       /\ cooldown[h] = 0 => late[w][h] = 0
    /\ \A w \in Workers : pc[w] = "gate" /\ work[w] \notin Ported => late[w][Host(w)] = 0

----------------------------------------------------------------------------
(* Types *)

LEMMA TypeInit == Init => TypeOK
  BY TimesAssumption DEF Init, TypeOK, None

LEMMA TypeStep == ASSUME TypeOK, [Next]_vars PROVE TypeOK'
  <1> USE TimesAssumption
  <1>1. ASSUME NEW w \in Workers, NEW a \in Attempts, Claim(w, a)
        PROVE  TypeOK'
    BY <1>1 DEF Claim, TypeOK, memory, history
  <1>2. ASSUME NEW w \in Workers, Fetch(w)
        PROVE  TypeOK'
    <2>1. Host(w) \in Hosts
      BY DEF TypeOK, Host
    <2>2. late' \in [Workers -> [Hosts -> Nat]]
      BY <1>2, <2>1 DEF Fetch, TypeOK
    <2> QED
      BY <1>2, <2>2 DEF Fetch, TypeOK, attempts, memory
  <1>3. ASSUME NEW w \in Workers, NEW pause \in Pauses \cup {0}, Answer(w, pause)
        PROVE  TypeOK'
    <2>1. Host(w) \in Hosts /\ pause \in Nat
      BY DEF TypeOK, Host
    <2>2. paused' \in [Workers -> [Hosts -> Nat]]
      BY <1>3, <2>1 DEF Answer, TypeOK, Greatest
    <2>3. floor' \in [Workers -> [Hosts -> Nat]]
      BY <1>3, <2>1 DEF Answer, TypeOK
    <2> QED
      BY <1>3, <2>1, <2>2, <2>3 DEF Answer, TypeOK, attempts, history
  <1>4. ASSUME NEW w \in Workers, Record(w) \/ LoseLease(w) \/ RecordFails(w)
        PROVE  TypeOK'
    <2>1. Host(w) \in Hosts /\ work[w] \in Attempts
      BY DEF TypeOK, Host
    <2>2. CASE Record(w)
      BY <2>2, <2>1 DEF Record, Drop, TypeOK, Greatest, memory, history
    <2>3. CASE LoseLease(w)
      BY <2>3, <2>1 DEF LoseLease, Drop, TypeOK, attempts, memory
    <2>4. CASE RecordFails(w)
      <3>1. state' \in [Attempts -> {"QUEUED", "RUNNING", "FINALIZED", "ABANDONED"}]
        BY <2>4, <2>1 DEF RecordFails, TypeOK
      <3>2. unshared' \subseteq Hosts
        BY <2>4, <2>1 DEF RecordFails, TypeOK
      <3> QED
        BY <2>4, <3>1, <3>2 DEF RecordFails, Drop, TypeOK, memory
    <2> QED
      BY <1>4, <2>2, <2>3, <2>4
  <1>5. ASSUME NEW w \in Workers, Restart(w)
        PROVE  TypeOK'
    BY <1>5 DEF Restart, Drop, None, TypeOK, attempts, history
  <1>6. ASSUME NEW a \in Attempts, Sweep(a)
        PROVE  TypeOK'
    BY <1>6 DEF Sweep, TypeOK, memory, history
  <1>7. ASSUME NEW h \in Hosts, ClearHostPause(h)
        PROVE  TypeOK'
    BY <1>7 DEF ClearHostPause, TypeOK, attempts, memory
  <1>8. CASE Tick
    BY <1>8 DEF Tick, Elapse, TypeOK
  <1>9. CASE UNCHANGED vars
    BY <1>9 DEF vars, attempts, memory, history, TypeOK
  <1> QED
    BY <1>1, <1>2, <1>3, <1>4, <1>5, <1>6, <1>7, <1>8, <1>9 DEF Next

(* Every variable keeps its type; no deadline counts below zero. *)
THEOREM TypeCorrect == Spec => []TypeOK
  <1>1. TypeOK /\ [Next]_vars => TypeOK'
    BY TypeStep
  <1> QED
    BY TypeInit, <1>1, PTL DEF Spec

----------------------------------------------------------------------------
(* The lease covers the request *)

LEMMA OwnWorkStep == ASSUME TypeOK, OwnWork, [Next]_vars PROVE OwnWork'
  <1>1. ASSUME NEW w \in Workers, NEW a \in Attempts, Claim(w, a)
        PROVE  OwnWork'
    BY <1>1 DEF Claim, OwnWork, Busy, TypeOK
  <1>2. ASSUME NEW w \in Workers, Fetch(w)
        PROVE  OwnWork'
    BY <1>2 DEF Fetch, MayAsk, OwnWork, Busy, TypeOK, attempts
  <1>3. ASSUME NEW w \in Workers, NEW pause \in Pauses \cup {0}, Answer(w, pause)
        PROVE  OwnWork'
    BY <1>3 DEF Answer, OwnWork, Busy, TypeOK, attempts
  <1>4. ASSUME NEW w \in Workers, Record(w) \/ LoseLease(w) \/ RecordFails(w)
        PROVE  OwnWork'
    <2>1. CASE Record(w)
      BY <2>1 DEF Record, Drop, OwnWork, Busy, TypeOK
    <2>2. CASE LoseLease(w)
      BY <2>2 DEF LoseLease, Drop, OwnWork, Busy, TypeOK, attempts
    <2>3. CASE RecordFails(w)
      BY <2>3 DEF RecordFails, Drop, OwnWork, Busy, TypeOK
    <2> QED
      BY <1>4, <2>1, <2>2, <2>3
  <1>5. ASSUME NEW w \in Workers, Restart(w)
        PROVE  OwnWork'
    BY <1>5 DEF Restart, Drop, OwnWork, Busy, TypeOK, attempts
  <1>6. ASSUME NEW a \in Attempts, Sweep(a)
        PROVE  OwnWork'
    BY <1>6 DEF Sweep, OwnWork, Busy, TypeOK
  <1>7. ASSUME NEW h \in Hosts, ClearHostPause(h)
        PROVE  OwnWork'
    BY <1>7 DEF ClearHostPause, OwnWork, Busy, attempts
  <1>8. CASE Tick
    BY <1>8 DEF Tick, OwnWork, Busy
  <1>9. CASE UNCHANGED vars
    BY <1>9 DEF vars, attempts, OwnWork, Busy
  <1> QED
    BY <1>1, <1>2, <1>3, <1>4, <1>5, <1>6, <1>7, <1>8, <1>9 DEF Next

LEMMA ShortFloorStep == ASSUME TypeOK, ShortFloor, [Next]_vars PROVE ShortFloor'
  <1> USE TimesAssumption
  <1>1. ASSUME NEW w \in Workers, NEW pause \in Pauses \cup {0}, Answer(w, pause)
        PROVE  ShortFloor'
    <2>1. Host(w) \in Hosts
      BY DEF TypeOK, Host
    <2> QED
      BY <1>1, <2>1 DEF Answer, ShortFloor, TypeOK
  <1>2. ASSUME NEW w \in Workers, Restart(w)
        PROVE  ShortFloor'
    BY <1>2 DEF Restart, None, ShortFloor, TypeOK
  <1>3. CASE Tick
    BY <1>3 DEF Tick, Elapse, ShortFloor, TypeOK
  <1>4. ASSUME UNCHANGED floor
        PROVE  ShortFloor'
    BY <1>4 DEF ShortFloor
  <1>5. \/ Tick \/ UNCHANGED floor
        \/ \E w \in Workers : Restart(w) \/ \E pause \in Pauses \cup {0} : Answer(w, pause)
    BY DEF Next, Claim, Fetch, Record, LoseLease, RecordFails, Sweep, ClearHostPause, vars, memory
  <1> QED
    BY <1>1, <1>2, <1>3, <1>4, <1>5

LEMMA RememberedStep == ASSUME TypeOK, Remembered, [Next]_vars PROVE Remembered'
  <1> USE TimesAssumption
  <1>1. ASSUME NEW w \in Workers, NEW a \in Attempts, Claim(w, a)
        PROVE  Remembered'
    BY <1>1 DEF Claim, Remembered, Host, TypeOK, memory, history
  <1>2. ASSUME NEW w \in Workers, Fetch(w)
        PROVE  Remembered'
    BY <1>2 DEF Fetch, MayAsk, Remembered, Host, TypeOK, memory
  <1>3. ASSUME NEW w \in Workers, NEW pause \in Pauses \cup {0}, Answer(w, pause)
        PROVE  Remembered'
    BY <1>3 DEF Answer, Remembered, Host, Greatest, TypeOK, history
  <1>4. ASSUME NEW w \in Workers, Record(w) \/ LoseLease(w) \/ RecordFails(w)
        PROVE  Remembered'
    <2>1. CASE Record(w)
      BY <2>1 DEF Record, Drop, Remembered, Host, Greatest, TypeOK, memory, history
    <2>2. CASE LoseLease(w)
      BY <2>2 DEF LoseLease, Drop, Remembered, Host, TypeOK, memory
    <2>3. CASE RecordFails(w)
      BY <2>3 DEF RecordFails, Drop, Remembered, Host, TypeOK, memory
    <2> QED
      BY <1>4, <2>1, <2>2, <2>3
  <1>5. ASSUME NEW w \in Workers, Restart(w)
        PROVE  Remembered'
    BY <1>5 DEF Restart, Drop, None, Remembered, Host, TypeOK, history
  <1>6. ASSUME NEW a \in Attempts, Sweep(a)
        PROVE  Remembered'
    BY <1>6 DEF Sweep, Remembered, Host, memory, history
  <1>7. ASSUME NEW g \in Hosts, ClearHostPause(g)
        PROVE  Remembered'
    BY <1>7 DEF ClearHostPause, Remembered, Host, TypeOK, memory
  <1>8. CASE Tick
    BY <1>8 DEF Tick, Elapse, Remembered, Host, TypeOK
  <1>9. CASE UNCHANGED vars
    BY <1>9 DEF vars, memory, history, Remembered, Host
  <1> QED
    BY <1>1, <1>2, <1>3, <1>4, <1>5, <1>6, <1>7, <1>8, <1>9 DEF Next

LEMMA CoveredStep ==
    ASSUME LeaseInv, [Next]_vars, NEW v \in Workers, work'[v] \notin Ported, Host(v)' \notin unshared'
    PROVE  Covered(v)'
  <1> USE TimesAssumption, LeaseAssumption
  <1>0. /\ TypeOK /\ OwnWork /\ Remembered /\ ShortFloor
        /\ work[v] \notin Ported /\ Host(v) \notin unshared => Covered(v)
    BY DEF LeaseInv
  <1>1. ASSUME NEW w \in Workers, NEW a \in Attempts, Claim(w, a)
        PROVE  Covered(v)'
    <2>1. CASE v = w
      <3>1. work'[v] = a /\ Host(v)' = HostOf[a] /\ pc'[v] = "gate" /\ HostOf[a] \in Hosts \ unshared
        BY <1>0, <1>1, <2>1 DEF Claim, TypeOK, Host, history
      <3>2. paused[v][HostOf[a]] = 0 /\ floor[v][HostOf[a]] <= FloorTicks
        <4>1. cooldown[HostOf[a]] = 0 /\ pc[v] # "answered"
          BY <1>1, <2>1, <3>1 DEF Claim
        <4>2. paused[v][HostOf[a]] <= cooldown[HostOf[a]]
          BY <1>0, <3>1, <4>1 DEF Remembered
        <4>3. paused[v][HostOf[a]] \in Nat
          BY <1>0, <3>1 DEF TypeOK
        <4>4. floor[v][HostOf[a]] <= FloorTicks
          BY <1>0, <3>1 DEF ShortFloor
        <4> QED
          BY <4>1, <4>2, <4>3, <4>4
      <3>3. /\ state'[a] = "RUNNING" /\ ttl'[a] = LeaseTicks
            /\ paused' = paused /\ floor' = floor
        BY <1>0, <1>1 DEF Claim, TypeOK, memory
      <3>4. floor[v][HostOf[a]] \in Nat /\ FloorTicks \in Nat /\ FetchTicks \in Nat /\ LeaseTicks \in Nat
        BY <1>0, <3>1 DEF TypeOK
      <3> QED
        BY <3>1, <3>2, <3>3, <3>4 DEF Covered
    <2>2. CASE v # w
      <3>1. work'[v] = work[v] /\ Host(v)' = Host(v) /\ pc'[v] = pc[v] /\ unshared' = unshared
        BY <1>0, <1>1, <2>2 DEF Claim, TypeOK, Host, history
      <3> QED
        BY <1>0, <1>1, <2>2, <3>1 DEF Claim, TypeOK, Covered, OwnWork, Busy, memory
    <2> QED
      BY <2>1, <2>2
  <1>2. ASSUME NEW w \in Workers, Fetch(w)
        PROVE  Covered(v)'
    <2>1. Host(v)' = Host(v) /\ work' = work /\ unshared' = unshared
      BY <1>2 DEF Fetch, Host
    <2>2. Covered(v)
      BY <1>0, <2>1
    <2> QED
      BY <1>0, <1>2, <2>1, <2>2 DEF Fetch, MayAsk, TypeOK, Covered, attempts, memory
  <1>3. ASSUME NEW w \in Workers, NEW pause \in Pauses \cup {0}, Answer(w, pause)
        PROVE  Covered(v)'
    <2>1. Host(v)' = Host(v) /\ work' = work /\ unshared' = unshared
      BY <1>3 DEF Answer, Host, history
    <2>2. Covered(v)
      BY <1>0, <2>1
    <2> QED
      BY <1>0, <1>3, <2>1, <2>2 DEF Answer, TypeOK, Covered, attempts
  <1>4. ASSUME NEW w \in Workers, Record(w) \/ LoseLease(w) \/ RecordFails(w)
        PROVE  Covered(v)'
    <2>1. /\ Host(v)' = Host(v) /\ work' = work /\ memory' = memory /\ budget' = budget /\ ttl' = ttl
          /\ pc' = [pc EXCEPT ![w] = "idle"] /\ pc[w] = "answered" /\ unshared \subseteq unshared'
          /\ \A a \in Attempts : a # work[w] => state'[a] = state[a]
      BY <1>0, <1>4 DEF Record, LoseLease, RecordFails, Drop, Host, TypeOK, attempts, history
    <2>2. Covered(v)
      BY <1>0, <2>1
    <2>3. v # w /\ Busy(v) => work[v] # work[w] /\ state'[work[v]] = state[work[v]]
      BY <1>0, <2>1 DEF OwnWork, Busy, TypeOK
    <2>4. CASE v = w
      BY <1>0, <2>1, <2>4 DEF TypeOK, Covered
    <2>5. CASE v # w
      <3>1. pc'[v] = pc[v] /\ work'[v] = work[v]
        BY <1>0, <2>1, <2>5 DEF TypeOK
      <3> QED
        BY <2>1, <2>2, <2>3, <2>5, <3>1 DEF Covered, Busy, memory
    <2> QED
      BY <2>4, <2>5
  <1>5. ASSUME NEW w \in Workers, Restart(w)
        PROVE  Covered(v)'
    <2>1. Host(v)' = Host(v) /\ work' = work /\ unshared' = unshared
      BY <1>5 DEF Restart, Host, history
    <2>2. Covered(v)
      BY <1>0, <2>1
    <2> QED
      BY <1>0, <1>5, <2>1, <2>2 DEF Restart, Drop, TypeOK, Covered, attempts
  <1>6. ASSUME NEW a \in Attempts, Sweep(a)
        PROVE  Covered(v)'
    <2>1. Host(v)' = Host(v) /\ work' = work /\ unshared' = unshared
      BY <1>6 DEF Sweep, Host, history
    <2>2. Covered(v)
      BY <1>0, <2>1
    <2>3. /\ Host(v) \in Hosts /\ floor[v][Host(v)] \in Nat /\ budget[v] \in Nat
      BY <1>0 DEF TypeOK, Host
    <2>4. pc[v] \in {"gate", "fetching"} => work[v] # a
      BY <1>6, <2>2, <2>3 DEF Sweep, Covered
    <2> QED
      BY <1>0, <1>6, <2>1, <2>2, <2>4 DEF Sweep, TypeOK, Covered, memory
  <1>7. ASSUME NEW h \in Hosts, ClearHostPause(h)
        PROVE  Covered(v)'
    BY <1>0, <1>7 DEF ClearHostPause, Covered, Host, attempts, memory
  <1>8. CASE Tick
    <2>1. Host(v)' = Host(v) /\ work' = work /\ unshared' = unshared /\ pc' = pc /\ state' = state
      BY <1>8 DEF Tick, Host
    <2>2. Covered(v) /\ Host(v) \in Hosts /\ work[v] \in Attempts
      BY <1>0, <2>1 DEF TypeOK, Host
    <2>3. /\ floor[v][Host(v)] \in Nat /\ paused[v][Host(v)] \in Nat /\ budget[v] \in Nat
          /\ ttl[work[v]] \in Nat
      BY <1>0, <2>2 DEF TypeOK
    <2>4. /\ floor'[v][Host(v)] = Elapse(floor[v][Host(v)])
          /\ paused'[v][Host(v)] = Elapse(paused[v][Host(v)])
          /\ budget'[v] = Elapse(budget[v])
          /\ ttl'[work[v]] = Elapse(ttl[work[v]])
      BY <1>8, <2>2 DEF Tick
    <2>5. CASE pc[v] = "gate"
      BY <1>8, <2>1, <2>2, <2>3, <2>4, <2>5 DEF Tick, MayAsk, Covered, Elapse
    <2>6. CASE pc[v] = "fetching"
      BY <1>8, <2>1, <2>2, <2>3, <2>4, <2>6 DEF Tick, Covered, Elapse
    <2> QED
      BY <2>1, <2>5, <2>6 DEF Covered
  <1>9. CASE UNCHANGED vars
    BY <1>0, <1>9 DEF vars, attempts, memory, history, Covered, Host
  <1> QED
    BY <1>1, <1>2, <1>3, <1>4, <1>5, <1>6, <1>7, <1>8, <1>9 DEF Next

(* A request in flight is covered by its lease, unless its URL names a port  *)
(* or a pause of its host was cleared or not recorded (lease.py:59-60).      *)
THEOREM LeasesOutlastRequests == Spec => []LeaseCoversRequest
  <1>1. Init => LeaseInv
    <2> SUFFICES ASSUME Init PROVE LeaseInv
      OBVIOUS
    <2>1. TypeOK
      BY TypeInit
    <2> QED
      BY <2>1, TimesAssumption
      DEF Init, None, LeaseInv, OwnWork, Busy, Remembered, ShortFloor, Covered, TypeOK, Host
  <1>2. LeaseInv /\ [Next]_vars => LeaseInv'
    <2> SUFFICES ASSUME LeaseInv, [Next]_vars PROVE LeaseInv'
      OBVIOUS
    <2>1. TypeOK' /\ OwnWork' /\ Remembered' /\ ShortFloor'
      BY TypeStep, OwnWorkStep, RememberedStep, ShortFloorStep DEF LeaseInv
    <2>2. ASSUME NEW v \in Workers, work'[v] \notin Ported, Host(v)' \notin unshared'
          PROVE  Covered(v)'
      BY <2>2, CoveredStep
    <2> QED
      BY <2>1, <2>2 DEF LeaseInv
  <1>3. LeaseInv => LeaseCoversRequest
    <2> SUFFICES ASSUME LeaseInv, NEW w \in Workers, pc[w] = "fetching",
                        work[w] \notin Ported, Host(w) \notin unshared
                 PROVE  state[work[w]] = "RUNNING" /\ ttl[work[w]] > 0
      BY DEF LeaseCoversRequest
    <2>1. Covered(w) /\ budget[w] \in Nat /\ ttl[work[w]] \in Nat
      BY DEF LeaseInv, TypeOK
    <2> QED
      BY <2>1 DEF Covered
  <1> QED
    BY <1>1, <1>2, <1>3, PTL DEF Spec

----------------------------------------------------------------------------
(* One late request at most *)

LEMMA LateStep == ASSUME LateInv, [Next]_vars PROVE LateInv'
  <1> USE TimesAssumption
  <1>0. TypeOK /\ TypeOK'
    BY TypeStep DEF LateInv
  <1>1. ASSUME NEW w \in Workers, NEW a \in Attempts, Claim(w, a)
        PROVE  LateInv'
    <2>1. late' = late /\ cooldown' = cooldown
      BY <1>1 DEF Claim, history
    <2>2. ASSUME NEW v \in Workers, pc'[v] = "gate", work'[v] \notin Ported
          PROVE  late'[v][Host(v)'] = 0
      BY <1>0, <1>1, <2>1, <2>2 DEF Claim, LateInv, TypeOK, Host
    <2> QED
      BY <1>0, <2>1, <2>2 DEF LateInv
  <1>2. ASSUME NEW w \in Workers, Fetch(w)
        PROVE  LateInv'
    <2>1. work' = work /\ cooldown' = cooldown /\ Host(w) \in Hosts /\ pc[w] = "gate"
          /\ pc' = [pc EXCEPT ![w] = "fetching"]
      BY <1>0, <1>2 DEF Fetch, MayAsk, TypeOK, Host
    <2>2. CASE cooldown[Host(w)] > 0 /\ work[w] \notin Ported
      <3>1. late' = [late EXCEPT ![w][Host(w)] = @ + 1] /\ late[w][Host(w)] = 0
        BY <1>2, <2>1, <2>2 DEF Fetch, LateInv
      <3>2. \A v \in Workers, h \in Hosts :
               late'[v][h] = IF v = w /\ h = Host(w) THEN 1 ELSE late[v][h]
        BY <1>0, <2>1, <3>1 DEF TypeOK
      <3>3. \A v \in Workers : Host(v)' = Host(v) /\ Host(v) \in Hosts
        BY <1>0, <2>1 DEF TypeOK, Host
      <3>4. \A v \in Workers : pc'[v] = "gate" => v # w /\ pc[v] = "gate"
        BY <1>0, <2>1 DEF TypeOK
      <3> QED
        BY <1>0, <2>1, <2>2, <3>2, <3>3, <3>4 DEF LateInv
    <2>3. CASE ~(cooldown[Host(w)] > 0 /\ work[w] \notin Ported)
      BY <1>0, <1>2, <2>1, <2>3 DEF Fetch, LateInv, TypeOK, Host
    <2> QED
      BY <2>2, <2>3
  <1>3. ASSUME NEW w \in Workers, NEW pause \in Pauses \cup {0}, Answer(w, pause)
        PROVE  LateInv'
    BY <1>0, <1>3 DEF Answer, LateInv, TypeOK, Host, history
  <1>4. ASSUME NEW w \in Workers, Record(w) \/ LoseLease(w) \/ RecordFails(w)
        PROVE  LateInv'
    <2>1. late' = late /\ work' = work /\ pc' = [pc EXCEPT ![w] = "idle"]
      BY <1>4 DEF Record, LoseLease, RecordFails, Drop, history
    <2>2. \A h \in Hosts : cooldown'[h] = 0 => cooldown[h] = 0
      BY <1>0, <1>4 DEF Record, LoseLease, RecordFails, Greatest, TypeOK
    <2> QED
      BY <1>0, <2>1, <2>2 DEF LateInv, TypeOK, Host
  <1>5. ASSUME NEW w \in Workers, Restart(w)
        PROVE  LateInv'
    BY <1>0, <1>5 DEF Restart, Drop, LateInv, TypeOK, Host, history
  <1>6. ASSUME NEW a \in Attempts, Sweep(a)
        PROVE  LateInv'
    BY <1>0, <1>6 DEF Sweep, LateInv, Host, history
  <1>7. ASSUME NEW h \in Hosts, ClearHostPause(h)
        PROVE  LateInv'
    <2>1. \A v \in Workers, g \in Hosts : late'[v][g] = IF g = h THEN 0 ELSE late[v][g]
      BY <1>0, <1>7 DEF ClearHostPause, TypeOK
    <2>2. pc' = pc /\ work' = work /\ \A g \in Hosts : cooldown'[g] = 0 => g = h \/ cooldown[g] = 0
      BY <1>0, <1>7 DEF ClearHostPause, TypeOK
    <2>3. \A v \in Workers : Host(v)' = Host(v) /\ Host(v) \in Hosts
      BY <1>0, <2>2 DEF TypeOK, Host
    <2> QED
      BY <1>0, <2>1, <2>2, <2>3 DEF LateInv
  <1>8. CASE Tick
    <2>1. \A v \in Workers, g \in Hosts :
             late'[v][g] = IF cooldown[g] > 1 THEN late[v][g] ELSE 0
      BY <1>8 DEF Tick
    <2>2. pc' = pc /\ work' = work /\ \A g \in Hosts : cooldown'[g] = 0 => ~(cooldown[g] > 1)
      BY <1>0, <1>8 DEF Tick, Elapse, TypeOK
    <2>3. \A v \in Workers : Host(v)' = Host(v) /\ Host(v) \in Hosts
      BY <1>0, <2>2 DEF TypeOK, Host
    <2> QED
      BY <1>0, <2>1, <2>2, <2>3 DEF LateInv
  <1>9. CASE UNCHANGED vars
    BY <1>0, <1>9 DEF vars, history, LateInv, Host
  <1> QED
    BY <1>1, <1>2, <1>3, <1>4, <1>5, <1>6, <1>7, <1>8, <1>9 DEF Next

(* After a 429 has been recorded a worker asks its host once more at most,   *)
(* for the attempt it had claimed before (docs/ACQUISITION.md:457).          *)
THEOREM PausesAreHeeded == Spec => []AtMostOneLateRequest
  <1>1. Init => LateInv
    <2> SUFFICES ASSUME Init PROVE LateInv
      OBVIOUS
    <2>1. TypeOK
      BY TypeInit
    <2>2. \A w \in Workers, h \in Hosts : late[w][h] = 0
      BY DEF Init, None
    <2> QED
      BY <2>1, <2>2 DEF Init, LateInv
  <1>2. LateInv /\ [Next]_vars => LateInv'
    BY LateStep
  <1>3. LateInv => AtMostOneLateRequest
    BY DEF LateInv, AtMostOneLateRequest
  <1> QED
    BY <1>1, <1>2, <1>3, PTL DEF Spec
============================================================================
