-------------------------- MODULE Scheduler_proofs --------------------------
(***************************************************************************)
(* Theorems about Scheduler, for every number of engines, schedules, ticks, *)
(* runs and every scenario.                                                 *)
(***************************************************************************)
EXTENDS Scheduler, FiniteSetTheorems, TLAPS

(* An engine that acts as the leader, or is about to hear that it is one.   *)
Claims(n) ==
  electing[n] /\ (isLeader[n] \/ reply[n] = "acquired" \/ Ticking(n))

(* The heart of the matter: a claim is backed by the lease.                 *)
ClaimsBacked == ~lapsed => \A n \in Nodes : Claims(n) => lease = n

(* start() has run before the tick timer exists, and no tick before it.     *)
TimersFollowElection ==
  \A n \in Nodes : /\ engine[n] \in {"up", "disabled"} => electing[n]
                   /\ engine[n] \in {"new", "boot"} => ~Ticking(n)

(* As much of the types as the argument needs.                              *)
Shape ==
  /\ isLeader \in [Nodes -> BOOLEAN] /\ electing \in [Nodes -> BOOLEAN]
  /\ reply \in [Nodes -> {"none", "acquired", "lost"}]
  /\ DOMAIN engine = Nodes
  /\ DOMAIN tick = Ticks
  /\ \A t \in Ticks : "node" \in DOMAIN tick[t]

LeaseInv == Shape /\ ClaimsBacked /\ TimersFollowElection

(* What a step of a tick does to the engines that tick: it keeps its engine *)
(* or goes idle.                                                            *)
LEMMA DropKeepsNode ==
  ASSUME NEW tk, NEW s
  PROVE  /\ "node" \in DOMAIN Drop(tk, s)
         /\ Drop(tk, s).node \in {tk.node, Nobody}
BY DEF Drop, Idle

(* The variables of ticks change, the engines that tick do not grow.        *)
LEMMA StepsOfATick ==
  ASSUME Shape, NEW t \in Ticks, TickStep(t),
         ~\E n \in Nodes : TickStart(t, n)
  PROVE  /\ DOMAIN tick' = Ticks
         /\ \A u \in Ticks : /\ "node" \in DOMAIN tick'[u]
                             /\ tick'[u].node \in {tick[u].node, Nobody}
         /\ UNCHANGED engine
  <1> DEFINE Goal(e) == "node" \in DOMAIN e /\ e.node \in {tick[t].node, Nobody}
             Done == /\ DOMAIN tick' = Ticks
                     /\ \A u \in Ticks : /\ "node" \in DOMAIN tick'[u]
                                         /\ tick'[u].node \in {tick[u].node, Nobody}
                     /\ UNCHANGED engine
  <1>1. ASSUME NEW e, tick' = [tick EXCEPT ![t] = e], Goal(e), UNCHANGED engine
        PROVE  Done
    BY <1>1 DEF Shape
  <1>2. ASSUME NEW s, tick' = [tick EXCEPT ![t] = Drop(tick[t], s)], UNCHANGED engine
        PROVE  Done
    BY <1>1, <1>2, DropKeepsNode
  <1>3. CASE RecoverList(t)
    BY <1>1, <1>3 DEF RecoverList, Shape
  <1>4. CASE TickList(t)
    BY <1>1, <1>4 DEF TickList, Shape, Idle
  <1>5. CASE TickLaunches(t)
    BY <1>2, <1>5 DEF TickLaunches
  <1>6. ASSUME NEW s \in Schedules, TickAdvances(t, s) PROVE Done
    BY <1>1, <1>6 DEF TickAdvances, Shape
  <1>7. ASSUME NEW s \in Schedules,
               \/ RecoverNothing(t, s) \/ RecoverSkip(t, s) \/ RecoverFire(t, s)
               \/ TickSkips(t, s) \/ TickAdvancesOnly(t, s)
        PROVE  Done
    BY <1>2, <1>7 DEF RecoverNothing, RecoverSkip, RecoverFire, TickSkips, TickAdvancesOnly
  <1> QED BY <1>3, <1>4, <1>5, <1>6, <1>7 DEF TickStep

(* A step that leaves election, processes and ticks alone keeps LeaseInv.   *)
LEMMA OtherSteps ==
  ASSUME LeaseInv, UNCHANGED <<lease, isLeader, reply, electing, lapsed, engine, tick>>
  PROVE  LeaseInv'
BY DEF LeaseInv, Shape, ClaimsBacked, TimersFollowElection, Claims, Ticking

(* The election's own steps: what one engine gains, no other one claims.    *)
LEMMA ElectionSteps ==
  ASSUME LeaseInv, Elections
  PROVE  LeaseInv'
  <1> USE DEF LeaseInv, Shape, ClaimsBacked, Claims
  <1>1. UNCHANGED <<engine, tick>> /\ (\A n \in Nodes : Ticking(n)' = Ticking(n))
    BY DEF Elections, tickVars, Ticking
  <1>2. Nobody \notin Nodes BY ElectionAssumption DEF ElectionAssumption
  <1>3. electing' = electing /\ Shape'
    <2>1. CASE LeaseExpires BY <1>1, <2>1 DEF LeaseExpires
    <2>2. CASE LeaseLapses BY <1>1, <2>2 DEF LeaseLapses
    <2>3. ASSUME NEW n \in Nodes, ElectionStep(n) PROVE electing' = electing /\ Shape'
      <3>1. CASE Campaign(n) BY <1>1, <3>1 DEF Campaign
      <3>2. CASE RenewFails(n) BY <1>1, <3>2 DEF RenewFails
      <3>3. CASE CampaignReply(n) BY <1>1, <3>3 DEF CampaignReply
      <3>4. CASE CampaignError(n) BY <1>1, <3>4 DEF CampaignError
      <3>5. CASE LeakedCampaign(n) BY <1>1, <3>5 DEF LeakedCampaign
      <3>6. CASE Resigned(n) BY <1>1, <3>6 DEF Resigned
      <3> QED BY <2>3, <3>1, <3>2, <3>3, <3>4, <3>5, <3>6 DEF ElectionStep
    <2> HIDE DEF LeaseInv, Shape, ClaimsBacked, Claims
    <2> QED BY <2>1, <2>2, <2>3 DEF Elections
  <1>4. TimersFollowElection' BY <1>1, <1>3 DEF TimersFollowElection
  <1>5. ClaimsBacked'
    <2>1. CASE LeaseExpires BY <1>1, <1>2, <2>1 DEF LeaseExpires
    <2>2. CASE LeaseLapses BY <2>2 DEF LeaseLapses
    <2>3. ASSUME NEW n \in Nodes, Campaign(n) PROVE ClaimsBacked'
      BY <1>1, <1>2, <2>3 DEF Campaign, Acquirable
    <2>4. ASSUME NEW n \in Nodes, RenewFails(n) PROVE ClaimsBacked'
      BY <1>1, <2>4 DEF RenewFails
    <2>5. ASSUME NEW n \in Nodes, CampaignReply(n) PROVE ClaimsBacked'
      BY <1>1, <2>5 DEF CampaignReply
    <2>6. ASSUME NEW n \in Nodes, CampaignError(n) PROVE ClaimsBacked'
      BY <1>1, <1>2, <2>6 DEF CampaignError, Acquirable
    <2>7. ASSUME NEW n \in Nodes, LeakedCampaign(n) PROVE ClaimsBacked'
      BY <1>1, <1>2, <2>7 DEF LeakedCampaign
    <2>8. ASSUME NEW n \in Nodes, Resigned(n) PROVE ClaimsBacked'
      BY <1>1, <2>8 DEF Resigned
    <2> QED BY <2>1, <2>2, <2>3, <2>4, <2>5, <2>6, <2>7, <2>8
            DEF Elections, ElectionStep
  <1> QED BY <1>3, <1>4, <1>5

(* A tick begins on an engine that leads, and stays on it.                  *)
LEMMA TickSteps ==
  ASSUME LeaseInv, NEW t \in Ticks, TickLoop(t)
  PROVE  LeaseInv'
  <1> USE DEF LeaseInv, Shape, ClaimsBacked, TimersFollowElection, Claims
  <1>0. Nobody \notin Nodes BY ElectionAssumption DEF ElectionAssumption
  <1>1. UNCHANGED <<lease, isLeader, reply, electing, lapsed>>
    BY DEF TickLoop, electionVars
  <1>2. CASE ~\E n \in Nodes : TickStart(t, n)
    <2>1. /\ DOMAIN tick' = Ticks /\ UNCHANGED engine
          /\ \A u \in Ticks : /\ "node" \in DOMAIN tick'[u]
                              /\ tick'[u].node \in {tick[u].node, Nobody}
      BY <1>2, StepsOfATick DEF TickLoop
    <2>2. \A n \in Nodes : Ticking(n)' => Ticking(n)
      BY <1>0, <2>1 DEF Ticking
    <2> QED BY <1>1, <2>1, <2>2
  <1>3. ASSUME NEW n \in Nodes, TickStart(t, n)
        PROVE  LeaseInv'
    <2>1. /\ DOMAIN tick' = Ticks /\ UNCHANGED engine
          /\ engine[n] = "up" /\ isLeader[n] /\ tick'[t].node = n
          /\ \A u \in Ticks : "node" \in DOMAIN tick'[u]
          /\ \A u \in Ticks \ {t} : tick'[u] = tick[u]
      BY <1>3 DEF TickStart, Idle
    <2>2. \A m \in Nodes : Ticking(m)' => (Ticking(m) \/ m = n)
      BY <2>1 DEF Ticking
    <2>3. engine[n] = "up" /\ isLeader[n] /\ electing[n] BY <2>1
    <2> QED BY <1>1, <2>1, <2>2, <2>3
  <1> QED BY <1>2, <1>3

(* A process boots without ticks and starts with an election of its own.    *)
LEMMA BootSteps ==
  ASSUME LeaseInv, NEW n \in Nodes, Boot(n) \/ Enable(n)
  PROVE  LeaseInv'
  <1> USE DEF LeaseInv, Shape, ClaimsBacked, TimersFollowElection, Claims
  <1>1. CASE BootStart(n)
    <2>1. UNCHANGED <<lease, isLeader, reply, electing, lapsed, tick>>
      BY <1>1 DEF BootStart, electionVars
    <2>2. \A m \in Nodes : Ticking(m)' = Ticking(m) BY <2>1 DEF Ticking
    <2>3. engine' = [engine EXCEPT ![n] = "boot"] /\ engine[n] = "new"
      BY <1>1 DEF BootStart
    <2> QED BY <2>1, <2>2, <2>3
  <1>2. CASE Start(n) \/ Enable(n)
    <2>1. /\ UNCHANGED <<lease, lapsed, tick>>
          /\ electing' = [electing EXCEPT ![n] = TRUE]
          /\ isLeader' = [isLeader EXCEPT ![n] = FALSE]
          /\ reply' = [reply EXCEPT ![n] = "none"]
          /\ engine' = [engine EXCEPT ![n] = "up"]
          /\ engine[n] \in {"boot", "disabled"}
      BY <1>2 DEF Start, Enable, StartElection, tickVars
    <2>2. \A m \in Nodes : Ticking(m)' = Ticking(m) BY <2>1 DEF Ticking
    <2>3. Shape' BY <2>1
    <2>4. ClaimsBacked' BY <2>1, <2>2
    <2>5. TimersFollowElection' BY <2>1, <2>2
    <2> QED BY <2>3, <2>4, <2>5
  <1>3. ASSUME NEW s \in Schedules, BootRead(n, s) \/ BootSave(n, s) \/ BootSeed(n, s)
        PROVE  LeaseInv'
    BY <1>3, OtherSteps DEF BootRead, BootSave, BootSeed, electionVars, tickVars
  <1> QED BY <1>1, <1>2, <1>3 DEF Boot

(* A process that is disabled keeps its claim; one that stops or dies gives *)
(* it up before the lease is free for another.                              *)
LEMMA EndSteps ==
  ASSUME LeaseInv, NEW n \in Nodes,
         Disable(n) \/ Stop(n) \/ Stopped(n) \/ Exit(n) \/ Crash(n)
  PROVE  LeaseInv'
  <1> USE DEF LeaseInv, Shape, ClaimsBacked, TimersFollowElection, Claims
  <1>0. Nobody \notin Nodes BY ElectionAssumption DEF ElectionAssumption
  <1>1. CASE Disable(n) \/ Stopped(n)
    <2>1. /\ UNCHANGED <<lease, isLeader, reply, electing, lapsed, tick>>
          /\ \/ engine' = [engine EXCEPT ![n] = "disabled"] /\ engine[n] = "up"
             \/ engine' = [engine EXCEPT ![n] = "stopped"]
      BY <1>1 DEF Disable, Stopped, electionVars, tickVars
    <2>2. \A m \in Nodes : Ticking(m)' = Ticking(m) BY <2>1 DEF Ticking
    <2> QED BY <2>1, <2>2
  <1>2. CASE Stop(n)
    <2>1. /\ UNCHANGED <<isLeader, reply, lapsed, tick>>
          /\ electing[n] /\ electing' = [electing EXCEPT ![n] = FALSE]
          /\ lease' = IF isLeader[n] /\ lease = n THEN Nobody ELSE lease
          /\ engine' = [engine EXCEPT ![n] = "stopping"]
      BY <1>2 DEF Stop, Resign, tickVars
    <2>2. \A m \in Nodes : Ticking(m)' = Ticking(m) BY <2>1 DEF Ticking
    <2>3. Shape' BY <2>1
    <2>4. ClaimsBacked' BY <2>1, <2>2
    <2>5. TimersFollowElection' BY <2>1, <2>2
    <2> QED BY <2>3, <2>4, <2>5
  <1>3. CASE Exit(n) \/ Crash(n)
    <2>1. /\ UNCHANGED <<lease, lapsed>>
          /\ electing' = [electing EXCEPT ![n] = FALSE]
          /\ isLeader' = [isLeader EXCEPT ![n] = FALSE]
          /\ reply' = [reply EXCEPT ![n] = "none"]
          /\ engine' = [engine EXCEPT ![n] = "down"]
          /\ tick' = [t \in Ticks |-> IF tick[t].node = n THEN Idle ELSE tick[t]]
      BY <1>3 DEF Exit, Crash, Down, LoseElection, LoseTicks
    <2>2. \A m \in Nodes : Ticking(m)' => Ticking(m)
      BY <1>0, <2>1 DEF Ticking, Idle
    <2>3. Shape' BY <2>1 DEF Idle
    <2>4. ClaimsBacked' BY <2>1, <2>2
    <2>5. TimersFollowElection' BY <2>1, <2>2
    <2> QED BY <2>3, <2>4, <2>5
  <1> QED BY <1>1, <1>2, <1>3

(* Before anything boots nobody claims anything.                            *)
LEMMA InitLease == Init => LeaseInv
  <1> SUFFICES ASSUME Init PROVE LeaseInv OBVIOUS
  <1>0. Nobody \notin Nodes BY ElectionAssumption DEF ElectionAssumption
  <1>1. Shape BY DEF Init, ElectionInit, Shape, Idle
  <1>2. \A n \in Nodes : ~electing[n] /\ ~Ticking(n) /\ engine[n] = "new"
    BY <1>0 DEF Init, ElectionInit, Ticking, Idle
  <1> QED BY <1>1, <1>2 DEF LeaseInv, ClaimsBacked, Claims, TimersFollowElection

(* Every step of the cluster keeps claims backed by the lease.              *)
LEMMA LeaseInductive == LeaseInv /\ [Next]_vars => LeaseInv'
  <1> SUFFICES ASSUME LeaseInv, [Next]_vars PROVE LeaseInv' OBVIOUS
  <1>1. CASE UNCHANGED vars BY <1>1, OtherSteps DEF vars
  <1>2. CASE Elapse \/ Locks \/ AdminWrite
    BY <1>2, OtherSteps DEF Elapse, Locks, AdminWrite, RunLockExpires, RunLockLapses,
                            electionVars, tickVars
  <1>3. ASSUME NEW r \in Runs, RunProgress(r) \/ RunLoss(r) PROVE LeaseInv'
    BY <1>3, OtherSteps
    DEF RunProgress, RunLoss, RunRegister, RunEnds, EnrichRead, EnrichWrite,
        HeartbeatLost, StallDetected, CancelRun, DetectClusterStalls,
        electionVars, tickVars
  <1>4. ASSUME NEW n \in Nodes, NEW s \in Schedules,
               \/ Remove(n, s) \/ Trigger(n, s)
               \/ \E op \in {"pause", "resume", "upsert"} : AdminRead(n, s, op)
        PROVE  LeaseInv'
    BY <1>4, OtherSteps DEF Remove, Trigger, AdminRead, electionVars, tickVars
  <1>5. CASE Elections BY <1>5, ElectionSteps
  <1>6. ASSUME NEW t \in Ticks, TickLoop(t) PROVE LeaseInv' BY <1>6, TickSteps
  <1>7. ASSUME NEW n \in Nodes,
               \/ Boot(n) \/ Disable(n) \/ Enable(n) \/ Stop(n)
               \/ Stopped(n) \/ Exit(n) \/ Crash(n)
        PROVE  LeaseInv'
    BY <1>7, BootSteps, EndSteps
  <1>8. CASE Next
    BY <1>2, <1>3, <1>4, <1>5, <1>6, <1>7, <1>8 DEF Next
  <1> QED BY <1>1, <1>8

-----------------------------------------------------------------------------
(* LeaderElection's promise: without an expired lease there are never two   *)
(* leaders, in clusters of any size.                                        *)
THEOREM LeadersAreUnique == Spec => []OneLeader
  <1>1. LeaseInv => OneLeader
    BY DEF LeaseInv, ClaimsBacked, Claims, OneLeader, Leads
  <1> QED BY <1>1, InitLease, LeaseInductive, PTL DEF Spec

(* What the election is for: without an expired lease the tick loop runs on *)
(* one engine at a time, not counting what an engine past stop() finishes.  *)
THEOREM TickLoopIsExclusive == Spec => []OneTickLoop
  <1>1. LeaseInv => OneTickLoop
    BY DEF LeaseInv, ClaimsBacked, Claims, OneTickLoop
  <1> QED BY <1>1, InitLease, LeaseInductive, PTL DEF Spec

-----------------------------------------------------------------------------
(* Types.                                                                   *)

(* The next occurrence of a schedule is a timestamp, and later than "from". *)
LEMMA NextRunIsLater ==
  ASSUME def \in [Schedules -> Definitions], NEW s \in Schedules, NEW from \in 0..MaxTime
  PROVE  NextRun(s, from) \in Times /\ NextRun(s, from) > from
  <1>1. Period \in Nat \ {0} /\ MaxTime \in Nat BY RunsAssumption DEF RunsAssumption
  <1>2. def[s].timing \in Timings /\ def[s].runAt \in 0..MaxTime
    BY RunsAssumption DEF RunsAssumption
  <1> DEFINE q == from \div Period
  <1>3. q \in Nat /\ q * Period <= from /\ from < q * Period + Period BY <1>1
  <1>4. (q + 1) * Period = q * Period + Period BY <1>1, <1>3
  <1>5. (q + 1) * Period \in Times /\ (q + 1) * Period > from
    <2> HIDE DEF q
    <2>1. (q + 1) * Period \in Nat BY <1>1, <1>3
    <2> QED BY <1>1, <1>3, <1>4, <2>1 DEF Times, Never
  <1>6. CASE def[s].timing = "expression" BY <1>5, <1>6 DEF NextRun
  <1>7. CASE def[s].timing = "interval" BY <1>1, <1>7 DEF NextRun, Times, Never
  <1>8. CASE def[s].timing = "runAt" BY <1>1, <1>2, <1>8 DEF NextRun, Times, Never
  <1> QED BY <1>2, <1>6, <1>7, <1>8 DEF Timings

(* A missed occurrence lies in the past.                                    *)
LEMMA MissedIsPast ==
  ASSUME def \in [Schedules -> Definitions], NEW s \in Schedules, NEW snap \in Records,
         NEW now \in 0..MaxTime
  PROVE  Recovered(s, snap, now) \subseteq 0..MaxTime
  <1>1. Period \in Nat \ {0} /\ MaxTime \in Nat BY RunsAssumption DEF RunsAssumption
  <1>2. snap.last \in Times \cup {Unset} BY DEF Records
  <1>3. Missed(s, snap.last, now) \subseteq 0..MaxTime
    <2>1. CASE snap.last = Unset BY <2>1 DEF Missed
    <2>2. CASE snap.last # Unset
      <3>1. snap.last \in Nat /\ (snap.last + 1)..now \subseteq 0..MaxTime
        BY <1>1, <1>2, <2>2 DEF Times, Never
      <3> QED BY <3>1 DEF Missed, Earliest
    <2> QED BY <2>1, <2>2
  <1> QED BY <1>3 DEF Recovered

(* The record type of an activation.                                        *)
RunType == [pc : RunPcs, node : Nodes, key : Keys, active : BOOLEAN,
            aborted : BOOLEAN, snap : Records]

(* The record of a schedule that is not there has the type of one.          *)
LEMMA NoRecordIsRecord == NoRecord \in Records
  <1>1. Period \in Nat \ {0} /\ MaxTime \in Nat BY RunsAssumption DEF RunsAssumption
  <1> QED BY <1>1 DEF NoRecord, Records, Never, Times, Unset

(* What a burst of fires does: free activations become granted ones, under   *)
(* a lock that was free or the process's own, and unless the schedule is     *)
(* raced, each under a lock no other fire of this process is waiting for.   *)
Granted(n, s, at) == [NoRun EXCEPT !.pc = "granted", !.node = n, !.key = KeyOf(s, at)]

(* Every activation after a burst of fires is as before or was               *)
(* granted by it, and a lock that changed hands is the process's own.       *)
LEMMA FireGrants ==
  ASSUME def \in [Schedules -> Definitions], run \in [Runs -> {NoRun} \cup RunType],
         runLock \in [Keys -> Nodes \cup {Nobody}], raced \subseteq Schedules,
         NEW n \in Nodes, NEW s \in Schedules, NEW dates \in SUBSET (0..MaxTime),
         Fire(n, s, dates)
  PROVE  /\ run' \in [Runs -> {NoRun} \cup RunType]
         /\ runLock' \in [Keys -> Nodes \cup {Nobody}]
         /\ raced' \subseteq Schedules /\ raced \subseteq raced'
         /\ \A k \in Keys :
              \/ runLock'[k] = runLock[k]
              \/ runLock'[k] = n /\ runLock[k] = Nobody
         /\ \A r \in Runs :
              \/ run'[r] = run[r]
              \/ \E at \in dates :
                   /\ run[r].pc = "off" /\ run'[r] = Granted(n, s, at)
                   /\ ~Busy(n, s, at) /\ runLock[KeyOf(s, at)] \in {Nobody, n}
                   /\ runLock'[KeyOf(s, at)] = n
                   /\ \/ s \in raced'
                      \/ \A q \in Runs : run[q].node = n /\ run[q].pc = "granted"
                                           => run[q].key # KeyOf(s, at)
         /\ \/ s \in raced'
            \/ \A r, q \in Runs : /\ run'[r] # run[r] /\ run'[q] # run[q]
                                  /\ run'[r].key = run'[q].key
                                  => r = q
  <1> DEFINE granted == {at \in dates : /\ ~Busy(n, s, at)
                                        /\ runLock[KeyOf(s, at)] \in {Nobody, n}}
             free == {r \in Runs : run[r].pc = "off"}
             clash == \/ \E at \in granted : \E r \in Runs :
                            /\ run[r].node = n /\ run[r].pc = "granted"
                            /\ run[r].key = KeyOf(s, at)
                      \/ \E a, b \in granted : a # b /\ KeyOf(s, a) = KeyOf(s, b)
  <1>1. PICK started \in {f \in [granted -> free] : \A a, b \in granted : f[a] = f[b] => a = b} :
          /\ run' = [r \in Runs |->
               IF \E at \in granted : started[at] = r
               THEN [NoRun EXCEPT !.pc = "granted", !.node = n,
                       !.key = KeyOf(s, CHOOSE at \in granted : started[at] = r)]
               ELSE run[r]]
          /\ runLock' = [k \in Keys |->
               IF \E at \in granted : KeyOf(s, at) = k THEN n ELSE runLock[k]]
          /\ raced' = IF clash THEN raced \cup {s} ELSE raced
    BY Zenon DEF Fire
  <1>2. \A at \in granted : KeyOf(s, at) \in Keys BY DEF KeyOf, Keys
  <1>3. ASSUME NEW at \in granted
        PROVE  Granted(n, s, at) \in RunType
    BY <1>2, NoRecordIsRecord DEF NoRun, RunType, RunPcs, Granted
  <1>4. ASSUME NEW r \in Runs
        PROVE  \/ run'[r] = run[r]
               \/ \E at \in granted : started[at] = r /\ run'[r] = Granted(n, s, at)
    <2> HIDE DEF granted
    <2>1. CASE \E at \in granted : started[at] = r
      <3>1. PICK at \in granted : at = CHOOSE a \in granted : started[a] = r BY <2>1
      <3>2. started[at] = r BY <2>1, <3>1
      <3> QED BY <1>1, <2>1, <3>1, <3>2 DEF Granted
    <2>2. CASE ~\E at \in granted : started[at] = r BY <1>1, <2>2
    <2> QED BY <2>1, <2>2
  <1>5. run' \in [Runs -> {NoRun} \cup RunType]
    <2> HIDE DEF granted
    <2>1. \A r \in Runs : run'[r] \in {NoRun} \cup RunType BY <1>3, <1>4
    <2>2. run' = [r \in Runs |-> run'[r]] BY <1>1
    <2> QED BY <2>1, <2>2
  <1>6. runLock' \in [Keys -> Nodes \cup {Nobody}] BY <1>1
  <1>7. raced' \subseteq Schedules /\ raced \subseteq raced' /\ (s \in raced' \/ ~clash)
    <2> HIDE DEF clash
    <2> QED BY <1>1
  <1>8. ASSUME NEW k \in Keys
        PROVE  runLock'[k] = runLock[k] \/ (runLock'[k] = n /\ runLock[k] = Nobody)
    BY <1>1
  <1>9. \A at \in granted : runLock'[KeyOf(s, at)] = n BY <1>1, <1>2
  <1>10. ASSUME NEW r \in Runs, run'[r] # run[r]
         PROVE  \E at \in dates :
                  /\ run[r].pc = "off" /\ run'[r] = Granted(n, s, at)
                  /\ ~Busy(n, s, at) /\ runLock[KeyOf(s, at)] \in {Nobody, n}
                  /\ runLock'[KeyOf(s, at)] = n
                  /\ \/ s \in raced'
                     \/ \A q \in Runs : run[q].node = n /\ run[q].pc = "granted"
                                          => run[q].key # KeyOf(s, at)
    <2>1. PICK at \in granted : started[at] = r /\ run'[r] = Granted(n, s, at)
      BY <1>4, <1>10
    <2>2. run[r].pc = "off"
      <3> HIDE DEF granted
      <3>1. started[at] \in free BY <1>1, <2>1
      <3> QED BY <2>1, <3>1
    <2> QED BY <1>7, <1>9, <2>1, <2>2
  <1>11. ASSUME s \notin raced', NEW r \in Runs, NEW q \in Runs, run'[r] # run[r], run'[q] # run[q],
                run'[r].key = run'[q].key
         PROVE  r = q
    <2>1. PICK a \in granted : started[a] = r /\ run'[r] = Granted(n, s, a) BY <1>4, <1>11
    <2>2. PICK b \in granted : started[b] = q /\ run'[q] = Granted(n, s, b) BY <1>4, <1>11
    <2>3. KeyOf(s, a) = KeyOf(s, b) BY <1>11, <2>1, <2>2 DEF Granted, NoRun
    <2>4. a = b BY <1>7, <1>11, <2>3
    <2> QED BY <2>1, <2>2, <2>4
  <1> HIDE DEF granted, free, clash
  <1> QED BY <1>5, <1>6, <1>7, <1>8, <1>10, <1>11

-----------------------------------------------------------------------------
(* What is left of a scenario only shrinks.                                 *)
LEMMA SpendTypes ==
  ASSUME NEW k \in BudgetKinds, budget \in [BudgetKinds -> Nat], Spend(k)
  PROVE  budget' \in [BudgetKinds -> Nat]
BY DEF Spend

(* The budget of every step.                                                *)
LEMMA BudgetTypes ==
  ASSUME TypeOK, Next
  PROVE  budget' \in [BudgetKinds -> Nat]
  <1>1. budget \in [BudgetKinds -> Nat] BY DEF TypeOK, ElectionTypeOK
  <1>2. UNCHANGED budget \/ \E k \in BudgetKinds : Spend(k)
    <2>1. CASE Elapse BY <2>1 DEF Elapse, BudgetKinds
    <2>2. CASE Elections
      BY <2>2 DEF Elections, LeaseExpires, LeaseLapses, ElectionStep, Campaign, RenewFails,
                  CampaignReply, CampaignError, LeakedCampaign, Resigned, BudgetKinds
    <2>3. CASE Locks BY <2>3 DEF Locks, RunLockLapses, BudgetKinds
    <2>4. CASE AdminWrite BY <2>4 DEF AdminWrite
    <2>5. ASSUME NEW r \in Runs, RunProgress(r) \/ RunLoss(r)
          PROVE  UNCHANGED budget \/ \E k \in BudgetKinds : Spend(k)
      BY <2>5 DEF RunProgress, RunLoss, CancelRun, BudgetKinds
    <2>6. ASSUME NEW t \in Ticks, TickLoop(t) PROVE UNCHANGED budget
      BY <2>6 DEF TickLoop
    <2>7. ASSUME NEW n \in Nodes,
                 \/ Boot(n) \/ Disable(n) \/ Enable(n) \/ Stop(n)
                 \/ Stopped(n) \/ Exit(n) \/ Crash(n)
          PROVE  UNCHANGED budget \/ \E k \in BudgetKinds : Spend(k)
      BY <2>7 DEF Boot, BootStart, BootRead, BootSave, BootSeed, Start, Disable, Enable, Stop,
                  Stopped, Exit, Crash, BudgetKinds
    <2>8. ASSUME NEW n \in Nodes, NEW s \in Schedules,
                 \/ Remove(n, s) \/ Trigger(n, s)
                 \/ \E op \in {"pause", "resume", "upsert"} : AdminRead(n, s, op)
          PROVE  \E k \in BudgetKinds : Spend(k)
      BY <2>8 DEF Remove, Trigger, AdminRead, BudgetKinds
    <2> QED BY <2>1, <2>2, <2>3, <2>4, <2>5, <2>6, <2>7, <2>8 DEF Next
  <1> QED BY <1>1, <1>2, SpendTypes

(* The election.                                                            *)
LEMMA ElectionTypes ==
  ASSUME TypeOK, Next
  PROVE  ElectionTypeOK'
  <1>1. budget' \in [BudgetKinds -> Nat] BY BudgetTypes
  <1> USE <1>1 DEF TypeOK, ElectionTypeOK
  <1>2. CASE UNCHANGED electionVars BY <1>2 DEF electionVars
  <1>3. CASE Elections
    BY <1>3 DEF Elections, LeaseExpires, LeaseLapses, ElectionStep, Campaign, RenewFails,
                CampaignReply, CampaignError, LeakedCampaign, Resigned
  <1>4. ASSUME NEW n \in Nodes,
               \/ Boot(n) \/ Disable(n) \/ Enable(n) \/ Stop(n)
               \/ Stopped(n) \/ Exit(n) \/ Crash(n)
        PROVE  ElectionTypeOK'
    <2>1. CASE StartElection(n) BY <2>1 DEF StartElection
    <2>2. CASE Resign(n) BY <2>2 DEF Resign
    <2>3. CASE LoseElection(n) BY <2>3 DEF LoseElection
    <2> QED BY <1>2, <1>4, <2>1, <2>2, <2>3
            DEF Boot, BootStart, BootRead, BootSave, BootSeed, Start, Disable, Enable, Stop,
                Stopped, Exit, Crash, Down
  <1>5. UNCHANGED electionVars \/ Elections
        \/ \E n \in Nodes : \/ Boot(n) \/ Disable(n) \/ Enable(n) \/ Stop(n)
                            \/ Stopped(n) \/ Exit(n) \/ Crash(n)
    BY DEF Next, Elapse, Locks, AdminWrite, RunProgress, RunLoss, TickLoop, Remove, Trigger,
           AdminRead
  <1> QED BY <1>2, <1>3, <1>4, <1>5

(* Unlocking keeps the locks well typed; so does losing them.               *)
LEMMA UnlockTypes ==
  ASSUME runLock \in [Keys -> Nodes \cup {Nobody}], NEW n, NEW ks, Unlock(n, ks)
  PROVE  runLock' \in [Keys -> Nodes \cup {Nobody}]
BY DEF Unlock

(* The schedules whose running activations lose their lock by an unlock.    *)
LEMMA RobsTypes ==
  ASSUME run \in [Runs -> {NoRun} \cup RunType], NEW n, NEW ks, NEW gone
  PROVE  Robs(n, ks, gone) \subseteq Schedules
  <1>1. ASSUME NEW x \in Runs, Holds(x) PROVE run[x].key[1] \in Schedules
    BY <1>1 DEF Holds, RunType, NoRun, Keys
  <1> QED BY <1>1 DEF Robs

(* The activations and their locks.                                         *)
RunsPart ==
  /\ run \in [Runs -> {NoRun} \cup RunType]
  /\ runLock \in [Keys -> Nodes \cup {Nobody}]
  /\ raced \subseteq Schedules /\ robbed \subseteq Schedules

(* No step breaks the types of the activations and their locks.             *)
LEMMA RunsPartTypes ==
  ASSUME TypeOK, Next
  PROVE  RunsPart'
  <1>1. RunsPart /\ def \in [Schedules -> Definitions] /\ clock \in 0..MaxTime
        /\ record \in [Schedules -> Records]
    BY DEF TypeOK, RunsTypeOK, RunsPart, RunType
  <1> USE <1>1 DEF RunsPart
  <1>2. CASE UNCHANGED runVars BY <1>2 DEF runVars
  <1>3. ASSUME NEW r \in Runs, RunProgress(r) PROVE RunsPart'
    <2>1. CASE RunRegister(r)
      <3>1. run[r] \in RunType BY <2>1 DEF RunRegister, NoRun
      <3> QED BY <2>1, <3>1 DEF RunRegister, RunType, RunPcs
    <2>2. CASE RunEnds(r)
      <3>1. run[r] \in RunType BY <2>2 DEF RunEnds, NoRun
      <3>2. run' \in [Runs -> {NoRun} \cup RunType]
        BY <2>2, <3>1 DEF RunEnds, RunType, RunPcs
      <3> QED BY <2>2, <3>2, UnlockTypes, RobsTypes DEF RunEnds
    <2>3. CASE EnrichRead(r)
      <3>1. run[r] \in RunType BY <2>3 DEF EnrichRead, NoRun
      <3>2. record[run[r].key[1]] \in Records BY <3>1 DEF RunType, Keys
      <3> QED BY <2>3, <3>1, <3>2 DEF EnrichRead, RunType, RunPcs
    <2>4. CASE EnrichWrite(r) BY <2>4 DEF EnrichWrite
    <2> QED BY <1>3, <2>1, <2>2, <2>3, <2>4 DEF RunProgress
  <1>4. ASSUME NEW r \in Runs, RunLoss(r) PROVE RunsPart'
    <2>1. CASE HeartbeatLost(r)
      <3>1. run[r] \in RunType BY <2>1 DEF HeartbeatLost, NoRun
      <3> QED BY <2>1, <3>1 DEF HeartbeatLost, RunType, RunPcs
    <2>2. CASE StallDetected(r)
      <3>1. run[r] \in RunType BY <2>2 DEF StallDetected, NoRun
      <3> QED BY <2>2, <3>1 DEF StallDetected, RunType, RunPcs
    <2>3. CASE CancelRun(r)
      <3>1. run[r] \in RunType BY <2>3 DEF CancelRun, NoRun
      <3>2. run' \in [Runs -> {NoRun} \cup RunType]
        BY <2>3, <3>1 DEF CancelRun, RunType, RunPcs
      <3> QED BY <2>3, <3>2, UnlockTypes, RobsTypes DEF CancelRun
    <2>4. ASSUME NEW n \in Nodes, DetectClusterStalls(n, r) PROVE RunsPart'
      BY <2>4 DEF DetectClusterStalls
    <2> QED BY <1>4, <2>1, <2>2, <2>3, <2>4 DEF RunLoss
  <1>5. CASE Locks
    BY <1>5 DEF Locks, RunLockExpires, RunLockLapses, Keys
  <1>6. ASSUME NEW n \in Nodes, NEW s \in Schedules, Remove(n, s) PROVE RunsPart'
    <2>1. run' \in [Runs -> {NoRun} \cup RunType]
      <3>1. \A r \in Registered(n) : run[r] \in RunType BY DEF Registered, NoRun
      <3>2. \A r \in Runs : run'[r] = run[r] \/ (r \in Registered(n)
              /\ run'[r] = [run[r] EXCEPT !.active = FALSE, !.aborted = TRUE])
        BY <1>6 DEF Remove
      <3>3. \A r \in Registered(n) : [run[r] EXCEPT !.active = FALSE, !.aborted = TRUE] \in RunType
        BY <3>1 DEF RunType
      <3>4. run' = [r \in Runs |-> run'[r]] BY <1>6 DEF Remove
      <3>5. \A r \in Runs : run'[r] \in {NoRun} \cup RunType BY <3>2, <3>3
      <3> HIDE DEF RunsPart
      <3> QED BY <3>4, <3>5
    <2> QED BY <1>6, <2>1, UnlockTypes, RobsTypes DEF Remove
  <1>7. ASSUME NEW n \in Nodes, Stopped(n) PROVE RunsPart'
    <2>1. run' \in [Runs -> {NoRun} \cup RunType]
      <3>1. \A r \in Registered(n) : run[r] \in RunType BY DEF Registered, NoRun
      <3>2. \A r \in Runs : run'[r] = run[r] \/ (r \in Registered(n)
              /\ run'[r] = [run[r] EXCEPT !.active = FALSE, !.aborted = TRUE])
        BY <1>7 DEF Stopped
      <3>3. \A r \in Registered(n) : [run[r] EXCEPT !.active = FALSE, !.aborted = TRUE] \in RunType
        BY <3>1 DEF RunType
      <3>4. run' = [r \in Runs |-> run'[r]] BY <1>7 DEF Stopped
      <3>5. \A r \in Runs : run'[r] \in {NoRun} \cup RunType BY <3>2, <3>3
      <3> HIDE DEF RunsPart
      <3> QED BY <3>4, <3>5
    <2> QED BY <1>7, <2>1, UnlockTypes, RobsTypes DEF Stopped
  <1>8. ASSUME NEW n \in Nodes, Exit(n) \/ Crash(n) PROVE RunsPart'
    <2>1. LoseRuns(n) /\ UNCHANGED <<runLock, raced, robbed>> BY <1>8 DEF Exit, Crash, Down
    <2>2. ASSUME NEW r \in Runs PROVE run'[r] \in {NoRun} \cup RunType
      <3>1. CASE run'[r] \in {run[r], NoRun} BY <3>1
      <3>2. CASE run[r].pc = "running"
                 /\ run'[r] = [run[r] EXCEPT !.pc = "orphan", !.active = FALSE, !.aborted = TRUE]
        <4>1. run[r] \in RunType BY <3>2 DEF NoRun
        <4> QED BY <3>2, <4>1 DEF RunType, RunPcs
      <3> QED BY <2>1, <3>1, <3>2 DEF LoseRuns
    <2>3. run' = [r \in Runs |-> run'[r]] BY <2>1 DEF LoseRuns
    <2> QED BY <2>1, <2>2, <2>3
  <1>9. ASSUME NEW n \in Nodes, NEW s \in Schedules, NEW dates \in SUBSET (0..MaxTime),
               Fire(n, s, dates), UNCHANGED robbed
        PROVE  RunsPart'
    BY <1>9, FireGrants
  <1>10. ASSUME NEW n \in Nodes, NEW s \in Schedules, Trigger(n, s) PROVE RunsPart'
    BY <1>9, <1>10 DEF Trigger
  <1>11. ASSUME NEW t \in Ticks, TickLoop(t) PROVE RunsPart'
    <2>1. tick[t] \in {Idle} \cup [pc : TickPcs, node : Nodes, now : 0..MaxTime,
                        todo : SUBSET Schedules, snap : [Schedules -> Records],
                        item : SUBSET Schedules]
      BY DEF TypeOK, TicksTypeOK
    <2>2. CASE TickLaunches(t)
      <3>1. tick[t].node \in Nodes /\ tick[t].now \in 0..MaxTime /\ tick[t].item \subseteq Schedules
        BY <2>1, <2>2 DEF TickLaunches, Idle
      <3> QED BY <1>9, <2>2, <3>1 DEF TickLaunches
    <2>3. ASSUME NEW s \in Schedules, RecoverFire(t, s) PROVE RunsPart'
      <3>1. tick[t].node \in Nodes /\ tick[t].now \in 0..MaxTime /\ tick[t].snap[s] \in Records
        BY <2>1, <2>3 DEF RecoverFire, Idle
      <3>2. Recovered(s, tick[t].snap[s], tick[t].now) \in SUBSET (0..MaxTime)
        BY <3>1, MissedIsPast
      <3> QED BY <1>9, <2>3, <3>1, <3>2 DEF RecoverFire
    <2> QED BY <1>2, <1>11, <2>2, <2>3
            DEF TickLoop, TickStep, TickStart, RecoverList, TickList, RecoverNothing, RecoverSkip,
                TickSkips, TickAdvancesOnly, TickAdvances
  <1>12. \/ UNCHANGED runVars \/ Locks
         \/ \E r \in Runs : RunProgress(r) \/ RunLoss(r)
         \/ \E t \in Ticks : TickLoop(t)
         \/ \E n \in Nodes : Stopped(n) \/ Exit(n) \/ Crash(n)
         \/ \E n \in Nodes, s \in Schedules : Remove(n, s) \/ Trigger(n, s)
    BY DEF Next, Elapse, Elections, AdminWrite, Boot, BootStart, BootRead, BootSave, BootSeed,
           Start, Disable, Enable, Stop, AdminRead
  <1> QED BY <1>2, <1>3, <1>4, <1>5, <1>6, <1>7, <1>8, <1>10, <1>11, <1>12

(* Saving a record, and advancing the one a tick listed.                    *)
LEMMA SaveTypes ==
  ASSUME record \in [Schedules -> Records], rewound \subseteq Schedules,
         NEW s \in Schedules, NEW rec \in Records, Save(s, rec)
  PROVE  record' \in [Schedules -> Records] /\ rewound' \subseteq Schedules
BY DEF Save

TickType == [pc : TickPcs, node : Nodes, now : 0..MaxTime, todo : SUBSET Schedules,
             snap : [Schedules -> Records], item : SUBSET Schedules]

(* A schedule moved past its occurrence has the type of a record.           *)
LEMMA AdvancedTypes ==
  ASSUME def \in [Schedules -> Definitions], NEW s \in Schedules, NEW snap \in Records,
         NEW now \in 0..MaxTime
  PROVE  Advanced(s, snap, now) \in Records
  <1>1. NextRun(s, now) \in Times BY NextRunIsLater
  <1>2. now \in Times BY RunsAssumption DEF RunsAssumption, Times, Never
  <1> QED BY <1>1, <1>2 DEF Advanced, Records

(* A tick that is under way has an engine, a time and a list.               *)
LEMMA TickUnderWay ==
  ASSUME TypeOK, NEW t \in Ticks, tick[t].pc # "off"
  PROVE  tick[t] \in TickType
BY DEF TypeOK, TicksTypeOK, TickType, Idle

(* The steps that write a schedule's record.                                *)
LEMMA RecordWriters ==
  ASSUME Next
  PROVE  \/ UNCHANGED <<record, rewound>> \/ AdminWrite
         \/ \E r \in Runs : EnrichWrite(r)
         \/ \E n \in Nodes : Boot(n)
         \/ \E n \in Nodes, s \in Schedules : Remove(n, s)
         \/ \E t \in Ticks, s \in Schedules :
              RecoverSkip(t, s) \/ RecoverFire(t, s) \/ TickAdvancesOnly(t, s) \/ TickAdvances(t, s)
  <1>1. ASSUME NEW r \in Runs, RunProgress(r) \/ RunLoss(r)
        PROVE  UNCHANGED <<record, rewound>> \/ EnrichWrite(r)
    BY <1>1 DEF RunProgress, RunLoss, RunRegister, RunEnds, EnrichRead, HeartbeatLost,
                StallDetected, CancelRun, DetectClusterStalls
  <1>2. ASSUME NEW t \in Ticks, TickLoop(t)
        PROVE  \/ UNCHANGED <<record, rewound>>
               \/ \E s \in Schedules : RecoverSkip(t, s) \/ RecoverFire(t, s)
                                       \/ TickAdvancesOnly(t, s) \/ TickAdvances(t, s)
    BY <1>2 DEF TickLoop, TickStep, TickStart, RecoverList, TickList, TickLaunches,
                RecoverNothing, TickSkips
  <1> QED BY <1>1, <1>2
          DEF Next, Elapse, Elections, Locks, RunLockExpires, RunLockLapses, Disable, Enable,
              Stop, Stopped, Exit, Crash, Down, Trigger, AdminRead

(* The schedule records.  An operator call that is not under way names no   *)
(* schedule to write.                                                       *)
CallNamed == admin.op = "none" => admin.item = {}

(* Neither a tick, an activation nor an operator call breaks the types of   *)
(* the records.                                                             *)
LEMMA RecordTypes ==
  ASSUME TypeOK, CallNamed, Next
  PROVE  record' \in [Schedules -> Records] /\ rewound' \subseteq Schedules
  <1> DEFINE Goal == record' \in [Schedules -> Records] /\ rewound' \subseteq Schedules
  <1>1. /\ record \in [Schedules -> Records] /\ rewound \subseteq Schedules
        /\ def \in [Schedules -> Definitions] /\ clock \in 0..MaxTime
        /\ run \in [Runs -> {NoRun} \cup RunType]
    BY DEF TypeOK, RunsTypeOK, RunType
  <1>2. CASE UNCHANGED <<record, rewound>> BY <1>1, <1>2
  <1>3. ASSUME NEW n \in Nodes, Boot(n) PROVE Goal
    <2>1. boot[n] \in [todo : SUBSET Schedules, item : SUBSET Schedules,
                       snap : Records, seeds : SUBSET Schedules]
      BY DEF TypeOK
    <2>2. ASSUME NEW s \in Schedules, BootSave(n, s) PROVE Goal
      <3>1. [boot[n].snap EXCEPT !.kept = TRUE] \in Records BY <2>1 DEF Records
      <3> QED BY <1>1, <2>2, <3>1, SaveTypes DEF BootSave
    <2>3. ASSUME NEW s \in Schedules, BootSeed(n, s) PROVE Goal
      <3>1. NextRun(s, clock) \in Times BY <1>1, NextRunIsLater
      <3>2. [record[s] EXCEPT !.next = NextRun(s, clock)] \in Records
        BY <1>1, <3>1 DEF Records
      <3> QED BY <1>1, <2>3, <3>2 DEF BootSeed
    <2> QED BY <1>2, <1>3, <2>2, <2>3 DEF Boot, BootStart, BootRead, Start
  <1>4. ASSUME NEW r \in Runs, EnrichWrite(r) PROVE Goal
    <2>1. run[r] \in RunType BY <1>1, <1>4 DEF EnrichWrite, NoRun
    <2>2. run[r].key[1] \in Schedules /\ run[r].snap \in Records BY <2>1 DEF RunType, Keys
    <2> QED BY <1>1, <1>4, <2>2, SaveTypes DEF EnrichWrite
  <1>5. ASSUME NEW t \in Ticks, NEW s \in Schedules,
               RecoverSkip(t, s) \/ RecoverFire(t, s) \/ TickAdvancesOnly(t, s) \/ TickAdvances(t, s)
        PROVE  Goal
    <2>1. tick[t].pc # "off" BY <1>5 DEF RecoverSkip, RecoverFire, TickAdvancesOnly, TickAdvances
    <2>2. tick[t].snap[s] \in Records /\ tick[t].now \in 0..MaxTime
      BY <2>1, TickUnderWay DEF TickType
    <2>3. Advanced(s, tick[t].snap[s], tick[t].now) \in Records BY <1>1, <2>2, AdvancedTypes
    <2>4. Save(s, Advanced(s, tick[t].snap[s], tick[t].now))
      BY <1>5 DEF RecoverSkip, RecoverFire, TickAdvancesOnly, TickAdvances
    <2> QED BY <1>1, <2>3, <2>4, SaveTypes
  <1>6. CASE AdminWrite
    <2>1. admin.snap \in Records /\ admin.item \subseteq Schedules BY DEF TypeOK
    <2>2. PICK s \in admin.item :
            CASE admin.op = "pause"  -> Save(s, [admin.snap EXCEPT !.paused = TRUE])
              [] admin.op = "resume" -> Save(s, [admin.snap EXCEPT !.paused = FALSE])
              [] admin.op = "upsert" ->
                   /\ record' = [record EXCEPT ![s] =
                        [admin.snap EXCEPT !.kept = TRUE, !.next = NextRun(s, clock)]]
                   /\ UNCHANGED rewound
      BY <1>6 DEF AdminWrite
    <2>3. s \in Schedules /\ NextRun(s, clock) \in Times BY <1>1, <2>1, NextRunIsLater
    <2>4. /\ [admin.snap EXCEPT !.paused = TRUE] \in Records
          /\ [admin.snap EXCEPT !.paused = FALSE] \in Records
          /\ [admin.snap EXCEPT !.kept = TRUE, !.next = NextRun(s, clock)] \in Records
      BY <2>1, <2>3 DEF Records
    <2>5. admin.op \in {"pause", "resume", "upsert"}
      <3>1. admin.op \in {"none", "pause", "resume", "upsert"} BY DEF TypeOK
      <3> QED BY <3>1 DEF CallNamed
    <2> QED BY <1>1, <2>2, <2>3, <2>4, <2>5, SaveTypes
  <1>7. ASSUME NEW n \in Nodes, NEW s \in Schedules, Remove(n, s) PROVE Goal
    BY <1>1, <1>7, NoRecordIsRecord DEF Remove
  <1> QED BY <1>2, <1>3, <1>4, <1>5, <1>6, <1>7, RecordWriters

(* Serving an occurrence.                                                   *)
LEMMA ServeTypes ==
  ASSUME served \subseteq Schedules \X Times, repeated \subseteq served,
         NEW s \in Schedules, NEW at \in Times, Serve(s, at)
  PROVE  served' \subseteq Schedules \X Times /\ repeated' \subseteq served'
BY DEF Serve

(* A tick that is done with a schedule.                                     *)
LEMMA DropTypes ==
  ASSUME NEW tk \in TickType, NEW s \in Schedules
  PROVE  Drop(tk, s) \in {Idle} \cup TickType
  <1>1. [tk.snap EXCEPT ![s] = NoRecord] \in [Schedules -> Records]
    BY NoRecordIsRecord DEF TickType
  <1> QED BY <1>1 DEF Drop, TickType, TickPcs

(* The ticks and what they served.                                          *)
LEMMA TickTypes ==
  ASSUME TypeOK, Next
  PROVE  TicksTypeOK'
  <1>1. /\ tick \in [Ticks -> {Idle} \cup TickType]
        /\ initDone \in [Nodes -> BOOLEAN] /\ known \in [Nodes -> SUBSET Schedules]
        /\ served \subseteq Schedules \X Times /\ repeated \subseteq served
        /\ crowded \subseteq Schedules /\ clock \in 0..MaxTime
        /\ record \in [Schedules -> Records]
    BY DEF TypeOK, TicksTypeOK, TickType, RunsTypeOK
  <1>2. CASE UNCHANGED tickVars BY <1>1, <1>2 DEF tickVars, TicksTypeOK, TickType
  <1>3. ASSUME NEW t \in Ticks, TickLoop(t) PROVE TicksTypeOK'
    <2> SUFFICES /\ tick' \in [Ticks -> {Idle} \cup TickType]
                 /\ initDone' \in [Nodes -> BOOLEAN] /\ known' \in [Nodes -> SUBSET Schedules]
                 /\ served' \subseteq Schedules \X Times /\ repeated' \subseteq served'
                 /\ crowded' \subseteq Schedules
      BY DEF TicksTypeOK, TickType
    <2>1. ASSUME NEW n \in Nodes, TickStart(t, n) PROVE tick' \in [Ticks -> {Idle} \cup TickType]
      <3>1. MaxTime \in Nat BY RunsAssumption DEF RunsAssumption
      <3>2. ASSUME NEW pc \in {"list", "init"}
            PROVE  [Idle EXCEPT !.pc = pc, !.node = n] \in TickType
        <4>1. [s \in Schedules |-> NoRecord] \in [Schedules -> Records] BY NoRecordIsRecord
        <4>2. Idle \in [pc : {"off"}, node : {Nobody}, now : 0..MaxTime, todo : SUBSET Schedules,
                        snap : [Schedules -> Records], item : SUBSET Schedules]
          BY <3>1, <4>1 DEF Idle
        <4> QED BY <4>2 DEF TickType, TickPcs
      <3>3. PICK pc \in {"list", "init"} :
              tick' = [tick EXCEPT ![t] = [Idle EXCEPT !.pc = pc, !.node = n]]
        BY <2>1 DEF TickStart
      <3> QED BY <1>1, <3>2, <3>3
    <2>2. CASE RecoverList(t) \/ TickList(t)
      <3>1. tick[t] \in TickType BY <2>2, TickUnderWay DEF RecoverList, TickList
      <3>2. /\ tick' \in [Ticks -> {Idle} \cup TickType]
            /\ UNCHANGED <<initDone, known, served, repeated>>
        <4>1. CASE RecoverList(t) BY <1>1, <3>1, <4>1 DEF RecoverList, TickType, TickPcs
        <4>2. CASE TickList(t) BY <1>1, <3>1, <4>2 DEF TickList, TickType, TickPcs
        <4> QED BY <2>2, <4>1, <4>2
      <3>3. crowded' \subseteq Schedules BY <1>1, <2>2 DEF RecoverList, TickList, Overlapping
      <3> QED BY <1>1, <3>2, <3>3
    <2>3. ASSUME NEW s \in Schedules, TickAdvances(t, s) PROVE tick' \in [Ticks -> {Idle} \cup TickType]
      <3>1. tick[t] \in TickType BY <2>3, TickUnderWay DEF TickAdvances
      <3> QED BY <1>1, <2>3, <3>1 DEF TickAdvances, TickType, TickPcs
    <2>4. ASSUME NEW s \in Schedules, tick[t].pc # "off", tick' = [tick EXCEPT ![t] = Drop(tick[t], s)]
          PROVE  tick' \in [Ticks -> {Idle} \cup TickType]
      <3>1. Drop(tick[t], s) \in {Idle} \cup TickType BY <2>4, TickUnderWay, DropTypes
      <3> QED BY <1>1, <2>4, <3>1
    <2>5. ASSUME NEW s \in Schedules, tick[t].pc # "off", Serve(s, tick[t].snap[s].next)
          PROVE  served' \subseteq Schedules \X Times /\ repeated' \subseteq served'
      <3>1. tick[t].snap[s].next \in Times BY <2>5, TickUnderWay DEF TickType, Records
      <3> QED BY <1>1, <2>5, <3>1, ServeTypes
    <2>6. CASE TickLaunches(t)
      <3>1. tick[t] \in TickType BY <2>6, TickUnderWay DEF TickLaunches
      <3>2. \A s \in tick[t].item : s \in Schedules BY <3>1 DEF TickType
      <3> QED BY <1>1, <2>4, <2>6, <3>2 DEF TickLaunches
    <2>7. ASSUME NEW s \in Schedules, RecoverNothing(t, s) \/ RecoverSkip(t, s) \/ TickSkips(t, s)
                                      \/ TickAdvancesOnly(t, s)
          PROVE  /\ tick[t].pc # "off" /\ tick' = [tick EXCEPT ![t] = Drop(tick[t], s)]
                 /\ UNCHANGED <<initDone, known, served, repeated, crowded>>
      BY <2>7 DEF RecoverNothing, RecoverSkip, TickSkips, TickAdvancesOnly
    <2>8. ASSUME NEW s \in Schedules, RecoverFire(t, s)
          PROVE  /\ tick[t].pc # "off" /\ tick' = [tick EXCEPT ![t] = Drop(tick[t], s)]
                 /\ UNCHANGED <<initDone, known, crowded>>
                 /\ Serve(s, tick[t].snap[s].next) \/ UNCHANGED <<served, repeated>>
      BY <2>8 DEF RecoverFire, NotServing
    <2>9. ASSUME NEW s \in Schedules, TickAdvances(t, s)
          PROVE  /\ tick[t].pc # "off" /\ UNCHANGED <<initDone, known, crowded>>
                 /\ Serve(s, tick[t].snap[s].next)
      BY <2>9 DEF TickAdvances
    <2>10. ASSUME NEW n \in Nodes, TickStart(t, n)
           PROVE  /\ initDone' \in [Nodes -> BOOLEAN]
                  /\ UNCHANGED <<known, served, repeated, crowded>>
      BY <1>1, <2>10 DEF TickStart
    <2> QED BY <1>1, <1>3, <2>1, <2>2, <2>3, <2>4, <2>5, <2>6, <2>7, <2>8, <2>9, <2>10
            DEF TickLoop, TickStep
  <1>4. ASSUME NEW n \in Nodes, Exit(n) \/ Crash(n) PROVE TicksTypeOK'
    BY <1>1, <1>4 DEF Exit, Crash, Down, LoseTicks, TicksTypeOK, TickType
  <1>5. ASSUME NEW n \in Nodes, BootStart(n) PROVE TicksTypeOK'
    BY <1>1, <1>5 DEF BootStart, TicksTypeOK, TickType
  <1>6. ASSUME NEW n \in Nodes, NEW s \in Schedules,
               Remove(n, s) \/ \E op \in {"pause", "resume", "upsert"} : AdminRead(n, s, op)
        PROVE  TicksTypeOK'
    <2>1. /\ \E set \in SUBSET Schedules : known' = [known EXCEPT ![n] = set]
          /\ UNCHANGED <<tick, initDone, served, repeated, crowded>>
      <3>1. CASE Remove(n, s)
        <4>1. known' = [known EXCEPT ![n] = @ \ {s}] /\ UNCHANGED <<tick, initDone, served, repeated, crowded>>
          BY <3>1 DEF Remove
        <4> QED BY <1>1, <4>1
      <3>2. ASSUME NEW op \in {"pause", "resume", "upsert"}, AdminRead(n, s, op)
            PROVE  /\ \E set \in SUBSET Schedules : known' = [known EXCEPT ![n] = set]
                   /\ UNCHANGED <<tick, initDone, served, repeated, crowded>>
        <4>1. /\ known' = [known EXCEPT ![n] = IF op = "upsert" THEN @ \cup {s} ELSE @]
              /\ UNCHANGED <<tick, initDone, served, repeated, crowded>>
          BY <3>2 DEF AdminRead
        <4> QED BY <1>1, <4>1
      <3> QED BY <1>6, <3>1, <3>2
    <2> QED BY <1>1, <2>1 DEF TicksTypeOK, TickType
  <1>7. \/ UNCHANGED tickVars
        \/ \E t \in Ticks : TickLoop(t)
        \/ \E n \in Nodes : Exit(n) \/ Crash(n) \/ BootStart(n)
        \/ \E n \in Nodes, s \in Schedules :
             Remove(n, s) \/ \E op \in {"pause", "resume", "upsert"} : AdminRead(n, s, op)
    BY DEF Next, Elapse, Elections, Locks, AdminWrite, RunProgress, RunLoss, Boot, BootRead,
           BootSave, BootSeed, Start, Disable, Enable, Stop, Stopped, Trigger
  <1> QED BY <1>2, <1>3, <1>4, <1>5, <1>6, <1>7

(* Booting processes and the operator's call.                               *)
LEMMA BootAdminTypes ==
  ASSUME TypeOK, CallNamed, Next
  PROVE  /\ boot' \in [Nodes -> [todo : SUBSET Schedules, item : SUBSET Schedules,
                                 snap : Records, seeds : SUBSET Schedules]]
         /\ admin' \in [op : {"none", "pause", "resume", "upsert"}, node : Nodes \cup {Nobody},
                        item : SUBSET Schedules, snap : Records]
         /\ CallNamed'
  <1> DEFINE BootType == [todo : SUBSET Schedules, item : SUBSET Schedules,
                          snap : Records, seeds : SUBSET Schedules]
             AdminType == [op : {"none", "pause", "resume", "upsert"}, node : Nodes \cup {Nobody},
                           item : SUBSET Schedules, snap : Records]
             Goal == boot' \in [Nodes -> BootType] /\ admin' \in AdminType /\ CallNamed'
  <1> SUFFICES Goal OBVIOUS
  <1>1. /\ boot \in [Nodes -> BootType] /\ admin \in AdminType
        /\ record \in [Schedules -> Records] /\ NoRecord \in Records
    BY NoRecordIsRecord DEF TypeOK, RunsTypeOK
  <1>2. Booted \in BootType /\ NoCall \in AdminType BY <1>1 DEF Booted, NoCall
  <1>3. CASE UNCHANGED <<boot, admin>> BY <1>1, <1>3 DEF CallNamed
  <1>4. ASSUME NEW n \in Nodes, Boot(n) PROVE Goal
    <2>1. UNCHANGED admin BY <1>4 DEF Boot, BootStart, BootRead, BootSave, BootSeed, Start
    <2>2. boot' \in [Nodes -> BootType]
      <3>0. boot[n] \in BootType BY <1>1
      <3>1. CASE BootStart(n) BY <1>1, <3>1 DEF BootStart
      <3>2. ASSUME NEW s \in Schedules, BootRead(n, s) PROVE boot' \in [Nodes -> BootType]
        <4>1. boot' = [boot EXCEPT ![n] = [boot[n] EXCEPT !.todo = @ \ {s}, !.item = {s},
                                                          !.snap = record[s]]]
          BY <3>2 DEF BootRead
        <4>2. [boot[n] EXCEPT !.todo = @ \ {s}, !.item = {s}, !.snap = record[s]] \in BootType
          BY <1>1, <3>0
        <4> QED BY <1>1, <4>1, <4>2
      <3>3. ASSUME NEW s \in Schedules, BootSave(n, s) PROVE boot' \in [Nodes -> BootType]
        <4>1. PICK set \in {boot[n].seeds, boot[n].seeds \cup {s}} :
                boot' = [boot EXCEPT ![n] = [boot[n] EXCEPT !.item = {}, !.snap = NoRecord,
                                                            !.seeds = set]]
          BY <3>3 DEF BootSave
        <4>2. [boot[n] EXCEPT !.item = {}, !.snap = NoRecord, !.seeds = set] \in BootType
          BY <1>1, <3>0, <4>1
        <4> QED BY <1>1, <4>1, <4>2
      <3>4. ASSUME NEW s \in Schedules, BootSeed(n, s) PROVE boot' \in [Nodes -> BootType]
        BY <1>1, <3>4 DEF BootSeed
      <3>5. CASE Start(n) BY <1>1, <3>5 DEF Start
      <3> QED BY <1>4, <3>1, <3>2, <3>3, <3>4, <3>5 DEF Boot
    <2> QED BY <1>1, <2>1, <2>2 DEF CallNamed
  <1>5. ASSUME NEW n \in Nodes, Exit(n) \/ Crash(n) PROVE Goal
    <2>1. boot' = [boot EXCEPT ![n] = Booted] /\ admin' \in {admin, NoCall}
      BY <1>5 DEF Exit, Crash, Down
    <2>2. boot' \in [Nodes -> BootType] BY <1>1, <1>2, <2>1
    <2>3. CallNamed' BY <2>1 DEF CallNamed, NoCall
    <2> QED BY <1>1, <1>2, <2>1, <2>2, <2>3
  <1>6. CASE AdminWrite
    <2>1. UNCHANGED boot /\ admin' = NoCall BY <1>6 DEF AdminWrite
    <2>2. CallNamed' BY <2>1 DEF CallNamed, NoCall
    <2> QED BY <1>1, <1>2, <2>1, <2>2
  <1>7. ASSUME NEW n \in Nodes, NEW s \in Schedules, NEW op \in {"pause", "resume", "upsert"},
               AdminRead(n, s, op)
        PROVE  Goal
    BY <1>1, <1>7 DEF AdminRead, CallNamed
  <1>8. \/ UNCHANGED <<boot, admin>> \/ AdminWrite
        \/ \E n \in Nodes : Boot(n) \/ Exit(n) \/ Crash(n)
        \/ \E n \in Nodes, s \in Schedules, op \in {"pause", "resume", "upsert"} : AdminRead(n, s, op)
    <2> HIDE DEF BootType, AdminType, Goal
    <2>1. ASSUME Elapse \/ Elections \/ Locks PROVE UNCHANGED <<boot, admin>>
      BY <2>1 DEF Elapse, Elections, Locks
    <2>2. ASSUME NEW r \in Runs, RunProgress(r) \/ RunLoss(r) PROVE UNCHANGED <<boot, admin>>
      BY <2>2 DEF RunProgress, RunLoss
    <2>3. ASSUME NEW t \in Ticks, TickLoop(t) PROVE UNCHANGED <<boot, admin>>
      BY <2>3 DEF TickLoop
    <2>4. ASSUME NEW n \in Nodes, Disable(n) \/ Enable(n) \/ Stop(n) \/ Stopped(n)
          PROVE  UNCHANGED <<boot, admin>>
      BY <2>4 DEF Disable, Enable, Stop, Stopped
    <2>5. ASSUME NEW n \in Nodes, NEW s \in Schedules, Remove(n, s) \/ Trigger(n, s)
          PROVE  UNCHANGED <<boot, admin>>
      BY <2>5 DEF Remove, Trigger
    <2> QED BY <2>1, <2>2, <2>3, <2>4, <2>5 DEF Next
  <1> HIDE DEF Goal
  <1> QED BY <1>3, <1>4, <1>5, <1>6, <1>7, <1>8

(* Engines, definitions and the clock.                                      *)
LEMMA ProcessTypes ==
  ASSUME TypeOK, Next
  PROVE  /\ engine' \in [Nodes -> {"new", "boot", "up", "disabled", "stopping", "stopped", "down"}]
         /\ def' = def /\ clock' \in 0..MaxTime
  <1>1. /\ engine \in [Nodes -> {"new", "boot", "up", "disabled", "stopping", "stopped", "down"}]
        /\ clock \in 0..MaxTime
    BY DEF TypeOK, RunsTypeOK
  <1>2. CASE Elapse BY <1>1, <1>2, RunsAssumption DEF Elapse, RunsAssumption
  <1>3. ASSUME NEW n \in Nodes,
               \/ Boot(n) \/ Disable(n) \/ Enable(n) \/ Stop(n)
               \/ Stopped(n) \/ Exit(n) \/ Crash(n)
        PROVE  /\ engine' \in [Nodes -> {"new", "boot", "up", "disabled", "stopping", "stopped", "down"}]
               /\ UNCHANGED <<def, clock>>
    BY <1>1, <1>3 DEF Boot, BootStart, BootRead, BootSave, BootSeed, Start, Disable, Enable, Stop,
                      Stopped, Exit, Crash, Down
  <1>4. ASSUME NEW t \in Ticks, TickLoop(t) PROVE UNCHANGED <<engine, def, clock>>
    BY <1>4 DEF TickLoop, TickStep, TickStart, RecoverList, TickList, TickLaunches,
                RecoverNothing, RecoverSkip, RecoverFire, TickSkips, TickAdvancesOnly, TickAdvances
  <1>5. ASSUME NEW r \in Runs, RunProgress(r) \/ RunLoss(r) PROVE UNCHANGED <<engine, def, clock>>
    BY <1>5 DEF RunProgress, RunLoss, RunRegister, RunEnds, EnrichRead, EnrichWrite, HeartbeatLost,
                StallDetected, CancelRun, DetectClusterStalls
  <1> QED BY <1>1, <1>2, <1>3, <1>4, <1>5
          DEF Next, Elections, Locks, RunLockExpires, RunLockLapses, AdminWrite, Remove, Trigger,
              AdminRead

(* Type correctness is inductive, given that a call under way is named.     *)
Typed == TypeOK /\ CallNamed

(* The types hold initially and are kept by every step.                     *)
LEMMA TypesInductive ==
  /\ Init => Typed
  /\ Typed /\ [Next]_vars => Typed'
  <1>1. Init => Typed
    <2> SUFFICES ASSUME Init PROVE Typed OBVIOUS
    <2>1. /\ MaxTime \in Nat /\ Period \in Nat \ {0} /\ NoRecord \in Records
          /\ Scenarios \subseteq Budgets \X [Schedules -> Definitions]
          /\ Budgets \subseteq [BudgetKinds -> Nat]
      BY NoRecordIsRecord, RunsAssumption, ScenarioAssumption, ElectionAssumption
      DEF RunsAssumption, ScenarioAssumption, ElectionAssumption
    <2>2. ElectionTypeOK BY <2>1 DEF Init, ElectionInit, ElectionTypeOK
    <2>3. RunsTypeOK
      <3>1. [kept |-> TRUE, next |-> Period, last |-> 0, paused |-> FALSE] \in Records
        BY <2>1 DEF Records, Times, Never
      <3>2. record \in [Schedules -> Records] BY <2>1, <3>1 DEF Init
      <3>3. def \in [Schedules -> Definitions] BY <2>1 DEF Init
      <3> QED BY <2>1, <3>2, <3>3 DEF Init, RunsTypeOK
    <2>4. TicksTypeOK BY DEF Init, TicksTypeOK
    <2>5. /\ boot \in [Nodes -> [todo : SUBSET Schedules, item : SUBSET Schedules,
                                 snap : Records, seeds : SUBSET Schedules]]
          /\ admin \in [op : {"none", "pause", "resume", "upsert"}, node : Nodes \cup {Nobody},
                        item : SUBSET Schedules, snap : Records]
          /\ CallNamed
      BY <2>1 DEF Init, Booted, NoCall, CallNamed
    <2> QED BY <2>2, <2>3, <2>4, <2>5 DEF Typed, TypeOK
  <1>2. Typed /\ [Next]_vars => Typed'
    <2> SUFFICES ASSUME Typed, [Next]_vars PROVE Typed' OBVIOUS
    <2>1. CASE UNCHANGED vars
      BY <2>1 DEF vars, Typed, TypeOK, CallNamed, ElectionTypeOK, RunsTypeOK, TicksTypeOK
    <2>2. CASE Next
      <3>1. ElectionTypeOK' BY <2>2, ElectionTypes DEF Typed
      <3>2. RunsTypeOK'
        BY <2>2, RunsPartTypes, RecordTypes, ProcessTypes
        DEF Typed, TypeOK, RunsTypeOK, RunsPart, RunType
      <3>3. TicksTypeOK' BY <2>2, TickTypes DEF Typed
      <3> QED BY <2>2, <3>1, <3>2, <3>3, BootAdminTypes DEF Typed, TypeOK
    <2> QED BY <2>1, <2>2
  <1> QED BY <1>1, <1>2

(* Every step of the schedulers keeps every variable in its type.           *)
THEOREM SchedulerTypes == Spec => []TypeOK
  <1>1. Typed => TypeOK BY DEF Typed
  <1> QED BY <1>1, TypesInductive, PTL DEF Spec

-----------------------------------------------------------------------------
(***************************************************************************)
(* Theorems about what the schedulers fire: a schedule whose runs must not  *)
(* overlap has one at a time, and no occurrence is served twice.  Both      *)
(* speak of what several engines do to the same schedule, through its lock  *)
(* and through its record.                                                  *)
(***************************************************************************)

-----------------------------------------------------------------------------
(* Runs of a schedule that must not overlap.  A live run holds the lock of  *)
(* its schedule, and whoever fires again needs that lock or already knows   *)
(* of the run.                                                              *)
Live(r) == Holds(r) /\ ~run[r].aborted
Exclusive(r) == /\ def[run[r].key[1]].overlap = "skip"
                /\ run[r].key[1] \notin raced \cup robbed

(* What a run carries: a live one that is registered is in activeJobs, and  *)
(* a schedule with overlap "skip" has one lock for all its occurrences.     *)
RunShape ==
  \A r \in Runs :
    /\ Live(r) /\ run[r].pc = "running" => run[r].active
    /\ Holds(r) /\ def[run[r].key[1]].overlap = "skip" => run[r].key[2] = Whole

LockBacked ==
  \A r \in Runs : Live(r) /\ Exclusive(r) => runLock[run[r].key] = run[r].node

LiveAlone ==
  \A r, q \in Runs :
    /\ Live(r) /\ Live(q) /\ run[r].key[1] = run[q].key[1] /\ Exclusive(r)
    => r = q

RunInv == Typed /\ RunShape /\ LockBacked /\ LiveAlone

(* Steps that start no run and take no lock away from a live one.           *)
LEMMA RunsLeave ==
  ASSUME RunInv, UNCHANGED def, raced \subseteq raced', robbed \subseteq robbed',
         \A r \in Runs : Holds(r)' =>
           /\ Holds(r) /\ run'[r].key = run[r].key /\ run'[r].node = run[r].node
           /\ Live(r)' => Live(r) /\ (run'[r].pc = "running" => run'[r].active),
         \A r \in Runs : /\ Live(r)' /\ runLock[run[r].key] = run[r].node
                         /\ run[r].key[1] \notin robbed'
                         => runLock'[run[r].key] = run[r].node
  PROVE  RunShape' /\ LockBacked' /\ LiveAlone'
  <1>2. \A r \in Runs : Live(r)' => Holds(r)' BY DEF Live
  <1>3. RunShape' BY <1>2 DEF RunInv, RunShape
  <1>4. LockBacked'
    <2> SUFFICES ASSUME NEW r \in Runs, Live(r)', Exclusive(r)'
                 PROVE  runLock'[run'[r].key] = run'[r].node
      BY DEF LockBacked
    <2>1. Live(r) /\ run'[r].key = run[r].key /\ run'[r].node = run[r].node BY <1>2
    <2>2. runLock[run[r].key] = run[r].node BY <2>1 DEF RunInv, LockBacked, Exclusive
    <2>3. run[r].key[1] \notin robbed' BY <2>1 DEF Exclusive
    <2> QED BY <2>1, <2>2, <2>3
  <1>5. LiveAlone'
    <2> SUFFICES ASSUME NEW r \in Runs, NEW q \in Runs, Live(r)', Live(q)',
                        run'[r].key[1] = run'[q].key[1], Exclusive(r)'
                 PROVE  r = q
      BY DEF LiveAlone
    <2>1. Live(r) /\ Live(q) /\ run'[r].key = run[r].key /\ run'[q].key = run[q].key BY <1>2
    <2>2. Exclusive(r) BY <2>1 DEF Exclusive
    <2> QED BY <2>1, <2>2 DEF RunInv, LiveAlone
  <1> QED BY <1>3, <1>4, <1>5

(* What a process unlocks was its own run's, or another live run's, which   *)
(* then counts as robbed.                                                   *)
LEMMA UnlockingLeaves ==
  ASSUME RunInv, UNCHANGED <<def, raced>>, NEW n \in Nodes, NEW ks, NEW gone \in SUBSET Runs,
         Unlock(n, ks), robbed' = robbed \cup Robs(n, ks, gone),
         \A r \in Runs \ gone : run'[r] = run[r],
         \A r \in gone : /\ ~Live(r)'
                         /\ Holds(r)' => Holds(r) /\ run'[r].key = run[r].key
                                         /\ run'[r].node = run[r].node
  PROVE  RunShape' /\ LockBacked' /\ LiveAlone'
  <1>0. run \in [Runs -> {NoRun} \cup RunType]
    BY DEF RunInv, Typed, TypeOK, RunsTypeOK, RunType
  <1>1. ASSUME NEW r \in Runs, Live(r)', runLock[run[r].key] = run[r].node,
               run[r].key[1] \notin robbed'
        PROVE  runLock'[run[r].key] = run[r].node
    <2>1. r \notin gone /\ run'[r] = run[r] BY <1>1
    <2>2. Live(r) BY <1>1, <2>1 DEF Live, Holds
    <2>3. run[r].key \in Keys /\ run[r].key[1] \in Schedules
      BY <1>0, <2>2 DEF Live, Holds, RunType, NoRun, Keys
    <2>4. ~(run[r].node = n /\ run[r].key \in ks)
      BY <1>1, <2>1, <2>2 DEF Robs, Live
    <2> QED BY <1>1, <2>3, <2>4 DEF Unlock
  <1>2. ASSUME NEW r \in Runs, Holds(r)'
        PROVE  /\ Holds(r) /\ run'[r].key = run[r].key /\ run'[r].node = run[r].node
               /\ Live(r)' => Live(r) /\ (run'[r].pc = "running" => run'[r].active)
    <2>1. CASE r \in gone BY <1>2, <2>1
    <2>2. CASE r \notin gone
      <3>1. run'[r] = run[r] BY <2>2
      <3> QED BY <1>2, <3>1 DEF Holds, Live, RunInv, RunShape
    <2> QED BY <2>1, <2>2
  <1> HIDE DEF RunInv
  <1> QED BY <1>1, <1>2, RunsLeave

(* A burst of fires: the lock was free or this process's own; a live run of *)
(* the schedule would be known here, or holds the lock elsewhere.           *)
LEMMA FiringAlone ==
  ASSUME RunInv, UNCHANGED <<def, robbed>>, NEW n \in Nodes, NEW s \in Schedules,
         NEW dates \in SUBSET (0..MaxTime), Fire(n, s, dates)
  PROVE  RunShape' /\ LockBacked' /\ LiveAlone'
  <1>0. /\ run \in [Runs -> {NoRun} \cup RunType] /\ def \in [Schedules -> Definitions]
        /\ runLock \in [Keys -> Nodes \cup {Nobody}] /\ raced \subseteq Schedules
        /\ Nobody \notin Nodes
    BY ElectionAssumption
    DEF RunInv, Typed, TypeOK, RunsTypeOK, RunType, ElectionAssumption
  <1>1. /\ raced \subseteq raced'
        /\ \A k \in Keys : runLock'[k] = runLock[k] \/ (runLock'[k] = n /\ runLock[k] = Nobody)
        /\ \A r \in Runs :
              \/ run'[r] = run[r]
              \/ \E at \in dates :
                   /\ run[r].pc = "off" /\ run'[r] = Granted(n, s, at)
                   /\ ~Busy(n, s, at) /\ runLock[KeyOf(s, at)] \in {Nobody, n}
                   /\ runLock'[KeyOf(s, at)] = n
                   /\ \/ s \in raced'
                      \/ \A q \in Runs : run[q].node = n /\ run[q].pc = "granted"
                                           => run[q].key # KeyOf(s, at)
        /\ \/ s \in raced'
           \/ \A r, q \in Runs : /\ run'[r] # run[r] /\ run'[q] # run[q]
                                 /\ run'[r].key = run'[q].key
                                 => r = q
    <2> HIDE DEF Granted, Busy
    <2> QED BY <1>0, FireGrants
  <1>2. ASSUME NEW r \in Runs, run'[r] # run[r]
        PROVE  /\ run'[r].pc = "granted" /\ run'[r].node = n /\ run'[r].key[1] = s
               /\ def[s].overlap = "skip" => run'[r].key[2] = Whole
               /\ runLock'[run'[r].key] = n
    <2>1. PICK at \in dates : run'[r] = Granted(n, s, at) /\ runLock'[KeyOf(s, at)] = n
      BY <1>1, <1>2
    <2>2. /\ run'[r].pc = "granted" /\ run'[r].node = n /\ run'[r].key = KeyOf(s, at)
      BY <2>1 DEF Granted, NoRun
    <2> QED BY <2>1, <2>2 DEF KeyOf
  <1>3. ASSUME NEW r \in Runs, Live(r) PROVE run[r].key \in Keys /\ run[r].node \in Nodes
    BY <1>0, <1>3 DEF Live, Holds, NoRun, RunType
  <1>4. RunShape'
    <2> SUFFICES ASSUME NEW r \in Runs
                 PROVE  /\ Live(r)' /\ run'[r].pc = "running" => run'[r].active
                        /\ Holds(r)' /\ def[run'[r].key[1]].overlap = "skip" => run'[r].key[2] = Whole
      BY DEF RunShape
    <2>1. CASE run'[r] = run[r] BY <2>1 DEF RunInv, RunShape, Live, Holds
    <2>2. CASE run'[r] # run[r] BY <1>2, <2>2
    <2> QED BY <2>1, <2>2
  <1>5. LockBacked'
    <2> SUFFICES ASSUME NEW r \in Runs, Live(r)', Exclusive(r)'
                 PROVE  runLock'[run'[r].key] = run'[r].node
      BY DEF LockBacked
    <2>1. CASE run'[r] # run[r] BY <1>2, <2>1
    <2>2. CASE run'[r] = run[r]
      <3>1. Live(r) /\ Exclusive(r)
        BY <1>1, <2>2 DEF Live, Holds, Exclusive
      <3>2. runLock[run[r].key] = run[r].node BY <3>1 DEF RunInv, LockBacked
      <3> QED BY <1>0, <1>1, <1>3, <2>2, <3>1, <3>2
    <2> QED BY <2>1, <2>2
  <1>6. ASSUME NEW r \in Runs, run'[r] # run[r], NEW q \in Runs, run'[q] = run[q], Live(q)',
               run'[q].key[1] = s, Exclusive(q)'
        PROVE  FALSE
    <2>1. Live(q) /\ Exclusive(q) /\ run[q].key[1] = s BY <1>1, <1>6 DEF Live, Holds, Exclusive
    <2>2. PICK at \in dates :
            /\ run[r].pc = "off" /\ run'[r] = Granted(n, s, at)
            /\ ~Busy(n, s, at) /\ runLock[KeyOf(s, at)] \in {Nobody, n}
            /\ \A x \in Runs : run[x].node = n /\ run[x].pc = "granted"
                                 => run[x].key # KeyOf(s, at)
      BY <1>1, <1>6 DEF Exclusive
    <2>3. run[q].key = KeyOf(s, at)
      <3>1. run[q].key[2] = Whole /\ def[s].overlap = "skip"
        BY <2>1 DEF RunInv, RunShape, Live, Exclusive
      <3>2. run[q].key = <<s, Whole>> BY <1>3, <2>1, <3>1 DEF Keys
      <3> QED BY <3>1, <3>2 DEF KeyOf
    <2>4. run[q].node = n
      <3>1. runLock[run[q].key] = run[q].node BY <2>1 DEF RunInv, LockBacked
      <3> QED BY <1>0, <1>3, <2>1, <2>2, <2>3, <3>1
    <2>5. run[q].pc = "running" /\ run[q].active
      BY <2>1, <2>2, <2>3, <2>4 DEF Live, Holds, RunInv, RunShape
    <2>6. Busy(n, s, at)
      BY <2>1, <2>3, <2>4, <2>5 DEF Busy, Registered, Exclusive
    <2> QED BY <2>2, <2>6
  <1>7. LiveAlone'
    <2> SUFFICES ASSUME NEW r \in Runs, NEW q \in Runs, Live(r)', Live(q)',
                        run'[r].key[1] = run'[q].key[1], Exclusive(r)'
                 PROVE  r = q
      BY DEF LiveAlone
    <2>1. CASE run'[r] = run[r] /\ run'[q] = run[q]
      <3>1. Live(r) /\ Live(q) /\ Exclusive(r)
        BY <1>1, <2>1 DEF Live, Holds, Exclusive
      <3> QED BY <2>1, <3>1 DEF RunInv, LiveAlone
    <2>2. CASE run'[r] # run[r] /\ run'[q] = run[q]
      <3>1. run'[q].key[1] = s /\ Exclusive(q)' BY <1>2, <2>2 DEF Exclusive
      <3> QED BY <1>6, <2>2, <3>1
    <2>3. CASE run'[r] = run[r] /\ run'[q] # run[q] BY <1>2, <1>6, <2>3
    <2>4. CASE run'[r] # run[r] /\ run'[q] # run[q]
      <3>1. run'[r].key[1] = s /\ s \notin raced' BY <1>2, <2>4 DEF Exclusive
      <3>2. PICK a \in dates : run'[r] = Granted(n, s, a) BY <1>1, <2>4
      <3>3. PICK b \in dates : run'[q] = Granted(n, s, b) BY <1>1, <2>4
      <3>4. run'[r].key = KeyOf(s, a) /\ run'[q].key = KeyOf(s, b)
        BY <3>2, <3>3 DEF Granted, NoRun
      <3>5. def[s].overlap = "skip" BY <3>1 DEF Exclusive
      <3>6. run'[r].key = run'[q].key BY <3>4, <3>5 DEF KeyOf
      <3> QED BY <1>1, <2>4, <3>1, <3>6
    <2> QED BY <2>1, <2>2, <2>3, <2>4
  <1> QED BY <1>4, <1>5, <1>7

(* The invariant of the runs holds initially and is kept by every step.     *)
LEMMA RunsInductive ==
  /\ Init => RunInv
  /\ RunInv /\ [Next]_vars => RunInv'
  <1>1. Init => RunInv
    BY TypesInductive DEF Init, RunInv, RunShape, LockBacked, LiveAlone, Live, Holds, NoRun
  <1>2. RunInv /\ [Next]_vars => RunInv'
    <2> SUFFICES ASSUME RunInv, [Next]_vars PROVE RunInv' OBVIOUS
    <2>1. Typed' BY TypesInductive DEF RunInv
    <2> DEFINE Goal == RunShape' /\ LockBacked' /\ LiveAlone'
    <2> SUFFICES Goal BY <2>1 DEF RunInv
    <2>2. CASE UNCHANGED <<def, run, runLock, raced, robbed>>
      BY <2>2 DEF RunInv, RunShape, LockBacked, LiveAlone, Live, Holds, Exclusive
    <2>3. UNCHANGED def BY ProcessTypes DEF RunInv, Typed, vars
    <2>4. run \in [Runs -> {NoRun} \cup RunType] BY DEF RunInv, Typed, TypeOK, RunsTypeOK, RunType
    <2>5. ASSUME NEW r \in Runs, RunProgress(r) PROVE Goal
      <3>1. CASE RunRegister(r)
        BY <2>4, <3>1, RunsLeave DEF RunRegister, Holds, Live, RunInv, RunShape
      <3>2. CASE RunEnds(r)
        <4>0. run[r] \in RunType BY <2>4, <3>2 DEF RunEnds, NoRun
        <4>1. PICK n0 \in Nodes, gone0 \in SUBSET Runs, ks0 \in {{run[r].key}} :
                n0 = run[r].node /\ gone0 = {r}
          BY <4>0 DEF RunType
        <4>2. /\ UNCHANGED <<def, raced>> /\ Unlock(n0, ks0)
              /\ robbed' = robbed \cup Robs(n0, ks0, gone0)
          BY <3>2, <4>1 DEF RunEnds
        <4>3. \A q \in Runs \ gone0 : run'[q] = run[q] BY <2>4, <3>2, <4>1 DEF RunEnds
        <4>4. \A q \in gone0 : /\ ~Live(q)'
                               /\ Holds(q)' => Holds(q) /\ run'[q].key = run[q].key
                                               /\ run'[q].node = run[q].node
          <5>1. \A q \in gone0 : run[q] \in RunType BY <2>4, <3>2, <4>1 DEF RunEnds, NoRun, Registered
          <5> QED BY <2>4, <3>2, <4>1, <5>1 DEF RunEnds, RunType, Live, Holds, Registered
        <4> QED BY <4>2, <4>3, <4>4, UnlockingLeaves
      <3>3. CASE EnrichRead(r)
        BY <2>4, <3>3, RunsLeave DEF EnrichRead, Holds, Live, NoRun, RunInv, RunShape
      <3>4. CASE EnrichWrite(r)
        BY <2>4, <3>4, RunsLeave DEF EnrichWrite, Holds, Live, NoRun, RunInv, RunShape
      <3> QED BY <2>5, <3>1, <3>2, <3>3, <3>4 DEF RunProgress
    <2>6. ASSUME NEW r \in Runs, RunLoss(r) PROVE Goal
      <3>1. CASE HeartbeatLost(r)
        BY <2>4, <3>1, RunsLeave DEF HeartbeatLost, Holds, Live, RunInv, RunShape
      <3>2. CASE StallDetected(r)
        BY <2>4, <3>2, RunsLeave DEF StallDetected, Holds, Live, RunInv, RunShape
      <3>3. CASE CancelRun(r)
        <4>0. run[r] \in RunType BY <2>4, <3>3 DEF CancelRun, NoRun
        <4>1. PICK n0 \in Nodes, gone0 \in SUBSET Runs, ks0 \in {{run[r].key}} :
                n0 = run[r].node /\ gone0 = {r}
          BY <4>0 DEF RunType
        <4>2. /\ UNCHANGED <<def, raced>> /\ Unlock(n0, ks0)
              /\ robbed' = robbed \cup Robs(n0, ks0, gone0)
          BY <3>3, <4>1 DEF CancelRun
        <4>3. \A q \in Runs \ gone0 : run'[q] = run[q] BY <2>4, <3>3, <4>1 DEF CancelRun
        <4>4. \A q \in gone0 : /\ ~Live(q)'
                               /\ Holds(q)' => Holds(q) /\ run'[q].key = run[q].key
                                               /\ run'[q].node = run[q].node
          <5>1. \A q \in gone0 : run[q] \in RunType BY <2>4, <3>3, <4>1 DEF CancelRun, NoRun, Registered
          <5> QED BY <2>4, <3>3, <4>1, <5>1 DEF CancelRun, RunType, Live, Holds, Registered
        <4> QED BY <4>2, <4>3, <4>4, UnlockingLeaves
      <3>4. ASSUME NEW n \in Nodes, DetectClusterStalls(n, r) PROVE Goal
        BY <2>4, <3>4, RunsLeave DEF DetectClusterStalls, Holds, Live, NoRun, RunInv, RunShape
      <3> QED BY <2>6, <3>1, <3>2, <3>3, <3>4 DEF RunLoss
    <2>7. ASSUME NEW k \in Keys, RunLockExpires(k) PROVE Goal
      BY <2>4, <2>7, RunsLeave DEF RunLockExpires, Held, Holds, Live, RunInv, RunShape, Typed, TypeOK, RunsTypeOK
    <2>8. ASSUME NEW k \in Keys, RunLockLapses(k) PROVE Goal
      BY <2>4, <2>8, RunsLeave DEF RunLockLapses, Holds, Live, RunInv, RunShape, Typed, TypeOK, RunsTypeOK
    <2>9. ASSUME NEW t \in Ticks, TickLoop(t) PROVE Goal
      <3>1. CASE UNCHANGED runVars BY <2>2, <2>3, <3>1 DEF runVars
      <3>2. CASE TickLaunches(t)
        <4>1. tick[t] \in TickType BY <3>2, TickUnderWay DEF TickLaunches, RunInv, Typed
        <4>2. PICK s \in Schedules : Fire(tick[t].node, s, {tick[t].now})
          BY <3>2, <4>1 DEF TickLaunches, TickType
        <4>3. UNCHANGED <<def, robbed>> BY <3>2 DEF TickLaunches
        <4>4. tick[t].node \in Nodes /\ {tick[t].now} \in SUBSET (0..MaxTime)
          BY <4>1 DEF TickType
        <4> QED BY <4>2, <4>3, <4>4, FiringAlone
      <3>3. ASSUME NEW s \in Schedules, RecoverFire(t, s) PROVE Goal
        <4>1. tick[t] \in TickType BY <3>3, TickUnderWay DEF RecoverFire, RunInv, Typed
        <4>2. PICK dates : /\ dates = Recovered(s, tick[t].snap[s], tick[t].now)
                           /\ Fire(tick[t].node, s, dates)
          BY <3>3 DEF RecoverFire
        <4>3. UNCHANGED <<def, robbed>> BY <3>3 DEF RecoverFire
        <4>4. tick[t].node \in Nodes /\ tick[t].now \in 0..MaxTime /\ tick[t].snap[s] \in Records
          BY <4>1 DEF TickType
        <4>5. dates \in SUBSET (0..MaxTime)
          BY <4>2, <4>4, MissedIsPast DEF RunInv, Typed, TypeOK, RunsTypeOK
        <4> QED BY <4>2, <4>3, <4>4, <4>5, FiringAlone
      <3> QED BY <2>9, <3>1, <3>2, <3>3
              DEF TickLoop, TickStep, TickStart, RecoverList, TickList, RecoverNothing,
                  RecoverSkip, TickSkips, TickAdvancesOnly, TickAdvances
    <2>10. ASSUME NEW n \in Nodes, Stopped(n) PROVE Goal
        <3>1. PICK n0 \in Nodes, gone0 \in SUBSET Runs, ks0 \in {{run[r].key : r \in Registered(n)}} :
                n0 = n /\ gone0 = Registered(n)
          BY DEF Registered
        <3>2. /\ UNCHANGED <<def, raced>> /\ Unlock(n0, ks0)
              /\ robbed' = robbed \cup Robs(n0, ks0, gone0)
          BY <2>10, <3>1 DEF Stopped
        <3>3. \A q \in Runs \ gone0 : run'[q] = run[q] BY <2>4, <2>10, <3>1 DEF Stopped
        <3>4. \A q \in gone0 : /\ ~Live(q)'
                               /\ Holds(q)' => Holds(q) /\ run'[q].key = run[q].key
                                               /\ run'[q].node = run[q].node
          <4>1. \A q \in gone0 : run[q] \in RunType BY <2>4, <3>1 DEF NoRun, Registered
          <4> QED BY <2>4, <2>10, <3>1, <4>1 DEF Stopped, RunType, Live, Holds, Registered
        <3> QED BY <3>2, <3>3, <3>4, UnlockingLeaves
    <2>11. ASSUME NEW n \in Nodes, Exit(n) \/ Crash(n) PROVE Goal
      <3>1. UNCHANGED <<runLock, raced, robbed>> /\ LoseRuns(n)
        BY <2>11 DEF Exit, Crash, Down
      <3>2. \A r \in Runs : run'[r] = run[r] \/ run'[r] = NoRun \/ run'[r].pc = "orphan"
        <4> SUFFICES ASSUME NEW r \in Runs
                     PROVE  run'[r] = run[r] \/ run'[r] = NoRun \/ run'[r].pc = "orphan"
          OBVIOUS
        <4>1. run[r].pc = "running" => run[r] \in RunType BY <2>4 DEF NoRun
        <4> QED BY <3>1, <4>1 DEF LoseRuns, RunType
      <3>3. \A r \in Runs : Holds(r)' => run'[r] = run[r] BY <3>2 DEF Holds, NoRun
      <3>4. \A r \in Runs : Holds(r)' =>
              /\ Holds(r) /\ run'[r].key = run[r].key /\ run'[r].node = run[r].node
              /\ Live(r)' => Live(r) /\ (run'[r].pc = "running" => run'[r].active)
        BY <3>3 DEF Holds, Live, RunInv, RunShape
      <3> QED BY <2>3, <3>1, <3>4, RunsLeave
    <2>12. ASSUME NEW n \in Nodes, NEW s \in Schedules, Remove(n, s) PROVE Goal
        <3>1. PICK n0 \in Nodes, gone0 \in SUBSET Runs, ks0 \in {{run[r].key : r \in {x \in {y \in Registered(n) : run[y].key[1] = s} : def[s].guaranteed}}} :
                n0 = n /\ gone0 = {r \in Registered(n) : run[r].key[1] = s}
          BY DEF Registered
        <3>2. /\ UNCHANGED <<def, raced>> /\ Unlock(n0, ks0)
              /\ robbed' = robbed \cup Robs(n0, ks0, gone0)
          BY <2>12, <3>1 DEF Remove
        <3>3. \A q \in Runs \ gone0 : run'[q] = run[q] BY <2>4, <2>12, <3>1 DEF Remove
        <3>4. \A q \in gone0 : /\ ~Live(q)'
                               /\ Holds(q)' => Holds(q) /\ run'[q].key = run[q].key
                                               /\ run'[q].node = run[q].node
          <4>1. \A q \in gone0 : run[q] \in RunType BY <2>4, <3>1 DEF NoRun, Registered
          <4> QED BY <2>4, <2>12, <3>1, <4>1 DEF Remove, RunType, Live, Holds, Registered
        <3> QED BY <3>2, <3>3, <3>4, UnlockingLeaves
    <2>13. ASSUME NEW n \in Nodes, NEW s \in Schedules, Trigger(n, s) PROVE Goal
      <3>1. UNCHANGED <<def, robbed>> /\ Fire(n, s, {clock}) BY <2>13 DEF Trigger
      <3>2. {clock} \in SUBSET (0..MaxTime) BY DEF RunInv, Typed, TypeOK, RunsTypeOK
      <3> QED BY <3>1, <3>2, FiringAlone
    <2>14. \/ UNCHANGED runVars
           \/ \E r \in Runs : RunProgress(r) \/ RunLoss(r)
           \/ \E k \in Keys : RunLockExpires(k) \/ RunLockLapses(k)
           \/ \E t \in Ticks : TickLoop(t)
           \/ \E n \in Nodes : Stopped(n) \/ Exit(n) \/ Crash(n)
           \/ \E n \in Nodes, s \in Schedules : Remove(n, s) \/ Trigger(n, s)
      <3> HIDE DEF Goal
      <3>1. CASE UNCHANGED vars BY <3>1 DEF vars, runVars
      <3>2. CASE Next
        <4>1. ASSUME Elapse \/ Elections \/ AdminWrite PROVE UNCHANGED runVars
          BY <4>1 DEF Elapse, Elections, AdminWrite
        <4>2. ASSUME Locks PROVE \E k \in Keys : RunLockExpires(k) \/ RunLockLapses(k)
          BY <4>2 DEF Locks
        <4>3. ASSUME NEW n \in Nodes, Boot(n) \/ Disable(n) \/ Enable(n) \/ Stop(n)
              PROVE  UNCHANGED runVars
          BY <4>3 DEF Boot, BootStart, BootRead, BootSave, BootSeed, Start, Disable, Enable, Stop
        <4>4. ASSUME NEW n \in Nodes, NEW s \in Schedules,
                     NEW op \in {"pause", "resume", "upsert"}, AdminRead(n, s, op)
              PROVE  UNCHANGED runVars
          BY <4>4 DEF AdminRead
        <4> QED BY <3>2, <4>1, <4>2, <4>3, <4>4 DEF Next
      <3> QED BY <3>1, <3>2
    <2> HIDE DEF Goal
    <2> QED BY <2>2, <2>3, <2>5, <2>6, <2>7, <2>8, <2>9, <2>10, <2>11, <2>12, <2>13, <2>14
            DEF runVars
  <1> QED BY <1>1, <1>2

(* A schedule with overlap "skip" has one run at a time in the whole        *)
(* cluster, however many processes believe to be the leader and however     *)
(* often one of them fires it, as long as it was not fired twice before the *)
(* first fire registered and no live run lost its lock.                     *)
THEOREM SkippedRunsAreAlone == Spec => []SkipRunsAlone
  <1>1. RunInv => SkipRunsAlone
    <2> SUFFICES ASSUME RunInv, NEW s \in Schedules,
                        def[s].overlap = "skip", s \notin raced \cup robbed
                 PROVE  Cardinality(Executing(s)) <= 1
      BY DEF SkipRunsAlone
    <2>1. \A r, q \in Executing(s) : r = q
      BY DEF Executing, RunInv, LiveAlone, Live, Holds, Exclusive
    <2>2. CASE Executing(s) = {} BY <2>2, FS_EmptySet
    <2>3. CASE Executing(s) # {}
      <3>1. PICK r : Executing(s) = {r} BY <2>1, <2>3
      <3>2. Cardinality({r}) = 1 BY FS_Singleton
      <3> QED BY <3>1, <3>2
    <2> QED BY <2>2, <2>3
  <1> QED BY <1>1, RunsInductive, PTL DEF Spec

-----------------------------------------------------------------------------
(* Occurrences that are served once.  What was served lies behind the       *)
(* schedule's pointer; a tick that has an occurrence in hand took it from   *)
(* the pointer, so nobody served it before, and no other tick has the same. *)
Clean(s) == s \notin rewound \cup crowded

Due(t, s) == s \in tick[t].todo /\ tick[t].snap[s].next <= tick[t].now

TickShape ==
  \A t \in Ticks :
    /\ tick[t].now <= clock
    /\ tick[t].pc \in {"off", "init", "list"} => tick[t].todo = {}
    /\ tick[t].pc # "launch" => tick[t].item = {}
    /\ tick[t].pc = "launch" => \E s \in Schedules : tick[t].item = {s}
    /\ tick[t].pc \in {"work", "launch"} => \A s \in tick[t].todo : Due(t, s)

ServedPast ==
  \A p \in served : /\ p[2] <= clock
                    /\ Clean(p[1]) => p[2] < record[p[1]].next

Unserved ==
  \A t \in Ticks, s \in Schedules :
    Clean(s) /\ Due(t, s) /\ s \notin tick[t].item => <<s, tick[t].snap[s].next>> \notin served

Apart ==
  \A t, u \in Ticks, s \in Schedules :
    Clean(s) /\ Due(t, s) /\ Due(u, s) /\ t # u => tick[t].snap[s].next # tick[u].snap[s].next

FireInv == Typed /\ TickShape /\ ServedPast /\ Unserved /\ Apart /\ FiredOnce

(* No step turns the clock back; a pointer goes back only to a time that is *)
(* still to come, or the schedule counts as rewound.                        *)
PointersMove ==
  /\ clock <= clock' /\ rewound \subseteq rewound' /\ crowded \subseteq crowded'
  /\ \A s \in Schedules : \/ record'[s].next >= record[s].next
                          \/ record'[s].next > clock
                          \/ s \in rewound'

(* A record that is saved moves its pointer forward, or the schedule counts *)
(* as rewound.                                                              *)
LEMMA SaveMoves ==
  ASSUME record \in [Schedules -> Records], NEW s \in Schedules, NEW rec \in Records, Save(s, rec)
  PROVE  /\ rewound \subseteq rewound'
         /\ \A x \in Schedules : record'[x].next >= record[x].next \/ x \in rewound'
  <1>1. \A x \in Schedules : record[x].next \in Int /\ rec.next \in Int
    BY RunsAssumption DEF Records, Times, Never, RunsAssumption
  <1> QED BY <1>1 DEF Save

(* So does every step of the system.                                        *)
LEMMA EveryPointerMoves ==
  ASSUME Typed, Next
  PROVE  PointersMove
  <1>1. /\ record \in [Schedules -> Records] /\ clock \in 0..MaxTime
        /\ def \in [Schedules -> Definitions] /\ run \in [Runs -> {NoRun} \cup RunType]
        /\ MaxTime \in Nat /\ Period \in Nat \ {0}
    BY RunsAssumption DEF Typed, TypeOK, RunsTypeOK, RunType, RunsAssumption
  <1>2. \A s \in Schedules : record[s].next \in Int
    BY <1>1 DEF Records, Times, Never
  <1>3. clock <= clock' /\ crowded \subseteq crowded'
    <2>1. CASE Elapse BY <1>1, <2>1 DEF Elapse, tickVars
    <2>2. ASSUME NEW t \in Ticks, TickLoop(t) PROVE UNCHANGED clock /\ crowded \subseteq crowded'
      BY <2>2 DEF TickLoop, TickStep, TickStart, RecoverList, TickList, TickLaunches,
                  RecoverNothing, RecoverSkip, RecoverFire, TickSkips, TickAdvancesOnly, TickAdvances
    <2>3. ASSUME NEW n \in Nodes,
                 \/ Boot(n) \/ Disable(n) \/ Enable(n) \/ Stop(n)
                 \/ Stopped(n) \/ Exit(n) \/ Crash(n)
          PROVE  UNCHANGED <<clock, crowded>>
      BY <2>3 DEF Boot, BootStart, BootRead, BootSave, BootSeed, Start, Disable, Enable, Stop,
                  Stopped, Exit, Crash, Down, tickVars
    <2>4. ASSUME NEW r \in Runs, RunProgress(r) \/ RunLoss(r) PROVE UNCHANGED <<clock, crowded>>
      BY <2>4 DEF RunProgress, RunLoss, RunRegister, RunEnds, EnrichRead, EnrichWrite, HeartbeatLost,
                  StallDetected, CancelRun, DetectClusterStalls, tickVars
    <2>5. ASSUME Elections \/ Locks \/ AdminWrite PROVE UNCHANGED <<clock, crowded>>
      BY <2>5 DEF Elections, Locks, RunLockExpires, RunLockLapses, AdminWrite, tickVars
    <2>6. ASSUME NEW n \in Nodes, NEW s \in Schedules,
                 \/ Remove(n, s) \/ Trigger(n, s)
                 \/ \E op \in {"pause", "resume", "upsert"} : AdminRead(n, s, op)
          PROVE  UNCHANGED <<clock, crowded>>
      BY <2>6 DEF Remove, Trigger, AdminRead, tickVars
    <2> QED BY <1>1, <2>1, <2>2, <2>3, <2>4, <2>5, <2>6 DEF Next
  <1> DEFINE Goal == PointersMove
  <1>4. CASE UNCHANGED <<record, rewound>> BY <1>2, <1>3, <1>4 DEF PointersMove
  <1>5. ASSUME NEW s \in Schedules, NEW rec \in Records, Save(s, rec) PROVE Goal
    BY <1>1, <1>3, <1>5, SaveMoves DEF PointersMove
  <1>6. ASSUME NEW s \in Schedules, UNCHANGED rewound, NEW rec, rec.next > clock,
               record' = [record EXCEPT ![s] = rec]
        PROVE  Goal
    BY <1>1, <1>2, <1>3, <1>6 DEF PointersMove
  <1>7. ASSUME NEW n \in Nodes, Boot(n) PROVE Goal
    <2>1. boot[n] \in [todo : SUBSET Schedules, item : SUBSET Schedules,
                       snap : Records, seeds : SUBSET Schedules]
      BY DEF Typed, TypeOK
    <2>2. ASSUME NEW s \in Schedules, BootSave(n, s) PROVE Goal
      <3>1. [boot[n].snap EXCEPT !.kept = TRUE] \in Records BY <2>1 DEF Records
      <3> QED BY <2>2, <3>1, <1>5 DEF BootSave
    <2>3. ASSUME NEW s \in Schedules, BootSeed(n, s) PROVE Goal
      <3>1. NextRun(s, clock) > clock BY <1>1, NextRunIsLater
      <3>2. record[s] \in Records BY <1>1
      <3>3. [record[s] EXCEPT !.next = NextRun(s, clock)].next > clock BY <3>1, <3>2 DEF Records
      <3>4. /\ UNCHANGED rewound
            /\ \/ record' = [record EXCEPT ![s] = record[s]]
               \/ record' = [record EXCEPT ![s] = [record[s] EXCEPT !.next = NextRun(s, clock)]]
        BY <2>3 DEF BootSeed
      <3>5. CASE record' = [record EXCEPT ![s] = record[s]]
        <4>1. UNCHANGED record BY <1>1, <3>5
        <4> QED BY <1>4, <3>4, <4>1
      <3> QED BY <1>6, <3>3, <3>4, <3>5
    <2> QED BY <1>4, <1>7, <2>2, <2>3 DEF Boot, BootStart, BootRead, Start
  <1>8. ASSUME NEW r \in Runs, EnrichWrite(r) PROVE Goal
    <2>1. run[r] \in RunType BY <1>1, <1>8 DEF EnrichWrite, NoRun
    <2>2. run[r].key[1] \in Schedules /\ run[r].snap \in Records BY <2>1 DEF RunType, Keys
    <2> QED BY <1>5, <1>8, <2>2 DEF EnrichWrite
  <1>9. ASSUME NEW t \in Ticks, NEW s \in Schedules,
               RecoverSkip(t, s) \/ RecoverFire(t, s) \/ TickAdvancesOnly(t, s) \/ TickAdvances(t, s)
        PROVE  Goal
    <2>1. tick[t].pc # "off" BY <1>9 DEF RecoverSkip, RecoverFire, TickAdvancesOnly, TickAdvances
    <2>2. tick[t].snap[s] \in Records /\ tick[t].now \in 0..MaxTime
      BY <2>1, TickUnderWay DEF TickType, Typed
    <2>3. Advanced(s, tick[t].snap[s], tick[t].now) \in Records BY <1>1, <2>2, AdvancedTypes
    <2>4. Save(s, Advanced(s, tick[t].snap[s], tick[t].now))
      BY <1>9 DEF RecoverSkip, RecoverFire, TickAdvancesOnly, TickAdvances
    <2> QED BY <1>5, <2>3, <2>4
  <1>10. CASE AdminWrite
    <2>1. admin.snap \in Records /\ admin.item \subseteq Schedules BY DEF Typed, TypeOK
    <2>2. PICK s \in admin.item :
            CASE admin.op = "pause"  -> Save(s, [admin.snap EXCEPT !.paused = TRUE])
              [] admin.op = "resume" -> Save(s, [admin.snap EXCEPT !.paused = FALSE])
              [] admin.op = "upsert" ->
                   /\ record' = [record EXCEPT ![s] =
                        [admin.snap EXCEPT !.kept = TRUE, !.next = NextRun(s, clock)]]
                   /\ UNCHANGED rewound
      BY <1>10 DEF AdminWrite
    <2>3. s \in Schedules /\ NextRun(s, clock) > clock BY <1>1, <2>1, NextRunIsLater
    <2>4. /\ [admin.snap EXCEPT !.paused = TRUE] \in Records
          /\ [admin.snap EXCEPT !.paused = FALSE] \in Records
          /\ [admin.snap EXCEPT !.kept = TRUE, !.next = NextRun(s, clock)].next > clock
      BY <2>1, <2>3 DEF Records
    <2>5. admin.op \in {"pause", "resume", "upsert"}
      <3>1. admin.op \in {"none", "pause", "resume", "upsert"} BY DEF Typed, TypeOK
      <3> QED BY <2>2, <3>1 DEF CallNamed, Typed
    <2>6. \/ Save(s, [admin.snap EXCEPT !.paused = TRUE])
          \/ Save(s, [admin.snap EXCEPT !.paused = FALSE])
          \/ /\ record' = [record EXCEPT ![s] =
                  [admin.snap EXCEPT !.kept = TRUE, !.next = NextRun(s, clock)]]
             /\ UNCHANGED rewound
      BY <2>2, <2>5
    <2>7. CASE Save(s, [admin.snap EXCEPT !.paused = TRUE]) BY <1>5, <2>3, <2>4, <2>7
    <2>8. CASE Save(s, [admin.snap EXCEPT !.paused = FALSE]) BY <1>5, <2>3, <2>4, <2>8
    <2>9. CASE /\ record' = [record EXCEPT ![s] =
                    [admin.snap EXCEPT !.kept = TRUE, !.next = NextRun(s, clock)]]
               /\ UNCHANGED rewound
      BY <1>6, <2>3, <2>4, <2>9
    <2> QED BY <2>6, <2>7, <2>8, <2>9
  <1>11. ASSUME NEW n \in Nodes, NEW s \in Schedules, Remove(n, s) PROVE Goal
    <2>1. NoRecord.next > clock BY <1>1 DEF NoRecord, Never
    <2> QED BY <1>6, <1>11, <2>1 DEF Remove
  <1> QED BY <1>4, <1>7, <1>8, <1>9, <1>10, <1>11, RecordWriters

(* What a tick that drops a schedule still has in hand it had before.       *)
LEMMA DropKeeps ==
  ASSUME NEW tk \in TickType, NEW s \in Schedules, NEW x \in Drop(tk, s).todo
  PROVE  /\ x \in tk.todo /\ x # s
         /\ Drop(tk, s).snap[x] = tk.snap[x] /\ Drop(tk, s).now = tk.now
BY DEF Drop, Idle, TickType

(* What is left of a tick that has dealt with one schedule of its list.     *)
LEMMA DropShape ==
  ASSUME NEW tk \in TickType, NEW s \in Schedules
  PROVE  /\ Drop(tk, s).now \in {0, tk.now} /\ Drop(tk, s).item = {}
         /\ Drop(tk, s).pc # "launch"
         /\ Drop(tk, s).pc = "work" => tk.pc # "recover"
         /\ Drop(tk, s).pc \in {"off", "init", "list"} => Drop(tk, s).todo = {}
BY DEF Drop, Idle

(* Steps that serve nothing and give no tick an occurrence it did not have. *)
Shrinks(t) ==
  \A x \in Schedules : Due(t, x)' =>
    /\ Due(t, x) /\ tick'[t].snap[x].next = tick[t].snap[x].next
    /\ x \notin tick'[t].item => x \notin tick[t].item

(* What was served stays in the past of the clock and of the pointer of its *)
(* schedule.                                                                *)
LEMMA PastStays ==
  ASSUME FireInv, PointersMove, Typed', UNCHANGED served
  PROVE  ServedPast'
  <1>1. /\ served \subseteq Schedules \X Times /\ clock \in Int /\ clock' \in Int
        /\ \A s \in Schedules : record[s].next \in Int /\ record'[s].next \in Int
    BY RunsAssumption
    DEF FireInv, Typed, TypeOK, TicksTypeOK, RunsTypeOK, Records, Times, Never, RunsAssumption
  <1> SUFFICES ASSUME NEW p \in served
               PROVE  p[2] <= clock' /\ (Clean(p[1])' => p[2] < record'[p[1]].next)
    BY DEF ServedPast, Clean
  <1>2. p[1] \in Schedules /\ p[2] \in Int BY <1>1, RunsAssumption DEF Times, Never, RunsAssumption
  <1>3. p[2] <= clock /\ (Clean(p[1]) => p[2] < record[p[1]].next)
    BY DEF FireInv, ServedPast
  <1>4. Clean(p[1])' => Clean(p[1]) /\ p[1] \notin rewound' BY DEF Clean, PointersMove
  <1>5. /\ clock <= clock'
        /\ \/ record'[p[1]].next >= record[p[1]].next
           \/ record'[p[1]].next > clock \/ p[1] \in rewound'
    BY <1>2 DEF PointersMove
  <1> QED BY <1>1, <1>2, <1>3, <1>4, <1>5

(* A step that only takes occurrences from the ticks keeps what FiredOnce   *)
(* rests on.                                                                *)
LEMMA ShrinkingLeaves ==
  ASSUME FireInv, PointersMove, Typed', UNCHANGED <<served, repeated>>,
         \A t \in Ticks : Shrinks(t)
  PROVE  ServedPast' /\ Unserved' /\ Apart' /\ FiredOnce'
  <1>1. \A s \in Schedules : Clean(s)' => Clean(s) BY DEF Clean, PointersMove
  <1>2. ServedPast' BY PastStays
  <1>3. Unserved' BY <1>1 DEF Unserved, FireInv, Shrinks
  <1>4. Apart' BY <1>1 DEF Apart, FireInv, Shrinks
  <1>5. FiredOnce' BY DEF FiredOnce, FireInv, PointersMove
  <1> QED BY <1>2, <1>3, <1>4, <1>5

(* A tick serves an occurrence it has in hand, and advances the pointer.    *)
LEMMA ServingOnce ==
  ASSUME FireInv, PointersMove, Typed', \A u \in Ticks : Shrinks(u),
         NEW t \in Ticks, NEW s \in Schedules, Due(t, s), s \notin tick[t].item,
         Serve(s, tick[t].snap[s].next), \A u \in Ticks \ {t} : tick'[u] = tick[u],
         Due(t, s)' => s \in tick'[t].item,
         record'[s].next > tick[t].snap[s].next \/ s \in rewound'
  PROVE  ServedPast' /\ Unserved' /\ Apart' /\ FiredOnce'
  <1>1. \A x \in Schedules : Clean(x)' => Clean(x) BY DEF Clean, PointersMove
  <1>2. Apart' BY <1>1 DEF Apart, FireInv, Shrinks
  <1> DEFINE at == tick[t].snap[s].next
  <1>3. served' = served \cup {<<s, at>>} BY DEF Serve
  <1>4. FiredOnce'
    <2>1. Clean(s) => <<s, at>> \notin served BY DEF FireInv, Unserved
    <2>2. repeated' = repeated \/ (~Clean(s) /\ repeated' = repeated \cup {<<s, at>>})
      BY <2>1 DEF Serve
    <2> QED BY <2>2 DEF FiredOnce, FireInv, PointersMove, Clean
  <1>5. Unserved'
    <2> SUFFICES ASSUME NEW u \in Ticks, NEW x \in Schedules, Clean(x)', Due(u, x)',
                        x \notin tick'[u].item
                 PROVE  <<x, tick'[u].snap[x].next>> \notin served'
      BY DEF Unserved
    <2>1. /\ Clean(x) /\ Due(u, x) /\ x \notin tick[u].item
          /\ tick'[u].snap[x].next = tick[u].snap[x].next
      BY <1>1 DEF Shrinks
    <2>2. <<x, tick[u].snap[x].next>> \notin served BY <2>1 DEF FireInv, Unserved
    <2>3. x = s => tick[u].snap[x].next # at BY <2>1 DEF FireInv, Apart
    <2> QED BY <1>3, <2>1, <2>2, <2>3
  <1>6. ServedPast'
    <2>1. /\ served \subseteq Schedules \X Times /\ clock \in Int /\ clock' \in Int
          /\ \A x \in Schedules : record[x].next \in Int /\ record'[x].next \in Int
      BY RunsAssumption
      DEF FireInv, Typed, TypeOK, TicksTypeOK, RunsTypeOK, Records, Times, Never, RunsAssumption
    <2>2. tick[t] \in TickType
      BY DEF FireInv, Typed, TypeOK, TicksTypeOK, TickType, Idle, Due
    <2>3. at \in Int /\ tick[t].now \in Int /\ at <= tick[t].now /\ tick[t].now <= clock
      BY <2>2, RunsAssumption
      DEF TickType, Records, Times, Never, RunsAssumption, Due, FireInv, TickShape
    <2> SUFFICES ASSUME NEW p \in served'
                 PROVE  p[2] <= clock' /\ (Clean(p[1])' => p[2] < record'[p[1]].next)
      BY DEF ServedPast, Clean
    <2>4. CASE p \in served
      <3>2. p[1] \in Schedules /\ p[2] \in Int
        BY <2>1, <2>4, RunsAssumption DEF Times, Never, RunsAssumption
      <3>3. p[2] <= clock /\ (Clean(p[1]) => p[2] < record[p[1]].next)
        BY <2>4 DEF FireInv, ServedPast
      <3>4. Clean(p[1])' => Clean(p[1]) /\ p[1] \notin rewound' BY DEF Clean, PointersMove
      <3>5. /\ clock <= clock'
            /\ \/ record'[p[1]].next >= record[p[1]].next
               \/ record'[p[1]].next > clock \/ p[1] \in rewound'
        BY <3>2 DEF PointersMove
      <3> QED BY <2>1, <3>2, <3>3, <3>4, <3>5
    <2>5. CASE p = <<s, at>>
      <3>1. clock <= clock' BY DEF PointersMove
      <3> QED BY <2>1, <2>3, <2>5, <3>1 DEF Clean
    <2> QED BY <1>3, <2>4, <2>5
  <1> QED BY <1>2, <1>4, <1>5, <1>6

(* A tick lists the records: what it takes in hand the pointer still shows. *)
LEMMA ListingFresh ==
  ASSUME FireInv, PointersMove, Typed', UNCHANGED <<served, repeated>>,
         NEW t \in Ticks, \A u \in Ticks \ {t} : tick'[u] = tick[u],
         NEW due \in SUBSET Schedules, crowded' = crowded \cup Overlapping(t, due),
         \A s \in Schedules : Due(t, s)' =>
           s \in due /\ tick'[t].snap[s].next = record[s].next
  PROVE  ServedPast' /\ Unserved' /\ Apart' /\ FiredOnce'
  <1>1. \A s \in Schedules : Clean(s)' => Clean(s) BY DEF Clean, PointersMove
  <1>2. ServedPast' BY PastStays
  <1>3. FiredOnce' BY DEF FiredOnce, FireInv, PointersMove
  <1>4. Unserved'
    <2> SUFFICES ASSUME NEW u \in Ticks, NEW s \in Schedules, Clean(s)', Due(u, s)',
                        s \notin tick'[u].item
                 PROVE  <<s, tick'[u].snap[s].next>> \notin served
      BY DEF Unserved
    <2>1. CASE u # t
      <3>1. Clean(s) /\ Due(u, s) /\ tick'[u] = tick[u] BY <1>1, <2>1 DEF Due
      <3> QED BY <3>1 DEF FireInv, Unserved
    <2>2. CASE u = t
      <3>1. tick'[u].snap[s].next = record[s].next /\ Clean(s) BY <1>1, <2>2
      <3>2. record[s].next \in Int
        BY RunsAssumption
        DEF FireInv, Typed, TypeOK, RunsTypeOK, Records, Times, Never, RunsAssumption
      <3>3. ASSUME <<s, record[s].next>> \in served PROVE record[s].next < record[s].next
        BY <3>1, <3>3 DEF FireInv, ServedPast
      <3> QED BY <3>1, <3>2, <3>3
    <2> QED BY <2>1, <2>2
  <1>5. ASSUME NEW u \in Ticks, u # t, NEW s \in Schedules, Clean(s)', Due(t, s)', Due(u, s)'
        PROVE  tick'[t].snap[s].next # tick'[u].snap[s].next
    <2>1. tick'[u] = tick[u] /\ Due(u, s) BY <1>5 DEF Due
    <2>2. s \in due /\ tick'[t].snap[s].next = record[s].next BY <1>5
    <2>3. tick[u].snap[s].next = record[s].next => s \in Overlapping(t, due)
      BY <1>5, <2>1, <2>2 DEF Overlapping, Due
    <2> QED BY <1>5, <2>1, <2>2, <2>3 DEF Clean
  <1>6. Apart'
    <2> SUFFICES ASSUME NEW u \in Ticks, NEW v \in Ticks, NEW s \in Schedules, Clean(s)',
                        Due(u, s)', Due(v, s)', u # v
                 PROVE  tick'[u].snap[s].next # tick'[v].snap[s].next
      BY DEF Apart
    <2>1. CASE u = t BY <1>5, <2>1
    <2>2. CASE v = t BY <1>5, <2>2
    <2>3. CASE u # t /\ v # t
      <3>1. /\ Clean(s) /\ Due(u, s) /\ Due(v, s) /\ tick'[u] = tick[u] /\ tick'[v] = tick[v]
        BY <1>1, <2>3 DEF Due
      <3> QED BY <3>1 DEF FireInv, Apart
    <2> QED BY <2>1, <2>2, <2>3
  <1> QED BY <1>2, <1>3, <1>4, <1>6

(* A tick that is done with a schedule keeps its shape.                     *)
LEMMA DroppingShrinks ==
  ASSUME FireInv, PointersMove, Typed', NEW t \in Ticks, NEW s \in Schedules,
         tick[t].pc # "off", tick[t].pc = "launch" => tick[t].item = {s},
         tick' = [tick EXCEPT ![t] = Drop(tick[t], s)]
  PROVE  TickShape' /\ (\A u \in Ticks : Shrinks(u)) /\ ~Due(t, s)'
  <1>1. tick[t] \in TickType BY TickUnderWay DEF FireInv, Typed
  <1>2. /\ tick'[t] = Drop(tick[t], s) /\ \A u \in Ticks \ {t} : tick'[u] = tick[u]
    BY DEF FireInv, Typed, TypeOK, TicksTypeOK
  <1>3. \A x \in tick'[t].todo : /\ x \in tick[t].todo /\ x # s
                                 /\ tick'[t].snap[x] = tick[t].snap[x]
                                 /\ tick'[t].now = tick[t].now
    BY <1>1, <1>2, DropKeeps
  <1>4. /\ tick'[t].now \in {0, tick[t].now} /\ tick'[t].item = {} /\ tick'[t].pc # "launch"
        /\ tick'[t].pc = "work" => tick[t].pc # "recover"
        /\ tick'[t].pc \in {"off", "init", "list"} => tick'[t].todo = {}
    BY <1>1, <1>2, DropShape
  <1>5. ~Due(t, s)' BY <1>3 DEF Due
  <1>6. ASSUME NEW u \in Ticks PROVE Shrinks(u)
    <2>1. CASE u # t BY <1>2, <2>1 DEF Shrinks, Due
    <2>2. CASE u = t
      <3>1. \A x \in Schedules : x # s => x \notin tick[t].item
        BY DEF FireInv, TickShape
      <3> QED BY <1>3, <2>2, <3>1 DEF Shrinks, Due
    <2> QED BY <2>1, <2>2
  <1>7. clock <= clock' /\ clock \in Nat /\ clock' \in Nat
    BY RunsAssumption DEF PointersMove, FireInv, Typed, TypeOK, RunsTypeOK, RunsAssumption
  <1>8. TickShape'
    <2> SUFFICES ASSUME NEW u \in Ticks
                 PROVE  /\ tick'[u].now <= clock'
                        /\ tick'[u].pc \in {"off", "init", "list"} => tick'[u].todo = {}
                        /\ tick'[u].pc # "launch" => tick'[u].item = {}
                        /\ tick'[u].pc = "launch" => \E x \in Schedules : tick'[u].item = {x}
                        /\ tick'[u].pc \in {"work", "launch"} => \A x \in tick'[u].todo : Due(u, x)'
      BY DEF TickShape
    <2>1. tick[u].now <= clock /\ tick[u].now \in Int
      BY RunsAssumption
      DEF FireInv, TickShape, Typed, TypeOK, TicksTypeOK, Idle, RunsAssumption
    <2>2. CASE u # t BY <1>2, <1>7, <2>1, <2>2 DEF FireInv, TickShape, Due
    <2>3. CASE u = t
      <3>1. tick'[u].now <= clock' BY <1>4, <1>7, <2>1, <2>3
      <3>2. ASSUME tick'[u].pc = "work", NEW x \in tick'[u].todo PROVE Due(u, x)'
        <4>1. tick[t].pc \in {"work", "launch"}
          BY <1>1, <1>3, <1>4, <2>3, <3>2 DEF FireInv, TickShape, TickType, TickPcs
        <4>2. Due(t, x) BY <1>3, <2>3, <3>2, <4>1 DEF FireInv, TickShape
        <4> QED BY <1>3, <2>3, <3>2, <4>2 DEF Due
      <3> QED BY <1>4, <2>3, <3>1, <3>2
    <2> QED BY <2>2, <2>3
  <1> QED BY <1>5, <1>6, <1>8

(* One tick.                                                                *)
LEMMA TickKeepsFires ==
  ASSUME FireInv, PointersMove, Typed', NEW t \in Ticks, TickLoop(t)
  PROVE  TickShape' /\ ServedPast' /\ Unserved' /\ Apart' /\ FiredOnce'
  <1> DEFINE Goal == TickShape' /\ ServedPast' /\ Unserved' /\ Apart' /\ FiredOnce'
  <1> SUFFICES Goal OBVIOUS
  <1>0. /\ tick \in [Ticks -> {Idle} \cup TickType] /\ clock \in 0..MaxTime /\ MaxTime \in Nat
        /\ record \in [Schedules -> Records] /\ def \in [Schedules -> Definitions]
        /\ TickShape
        /\ \A r \in Records : r.next \in Int
    BY RunsAssumption
    DEF FireInv, Typed, TypeOK, TicksTypeOK, TickType, RunsTypeOK, RunsAssumption, Records,
        Times, Never
  <1>1. ASSUME NEW s \in Schedules, tick[t].pc # "off", tick[t].pc = "launch" => tick[t].item = {s},
               tick' = [tick EXCEPT ![t] = Drop(tick[t], s)], UNCHANGED <<served, repeated>>
        PROVE  Goal
    BY <1>1, DroppingShrinks, ShrinkingLeaves
  <1>2. ASSUME NEW s \in Schedules, RecoverNothing(t, s) \/ RecoverSkip(t, s) \/ TickSkips(t, s)
                                    \/ TickAdvancesOnly(t, s)
        PROVE  Goal
    <2>1. /\ tick[t].pc \notin {"off", "launch"} /\ UNCHANGED <<served, repeated>>
          /\ tick' = [tick EXCEPT ![t] = Drop(tick[t], s)]
      BY <1>2 DEF RecoverNothing, RecoverSkip, TickSkips, TickAdvancesOnly
    <2> QED BY <1>1, <2>1
  <1>3. CASE TickLaunches(t)
    <2>1. PICK s \in tick[t].item : /\ tick[t].pc = "launch" /\ UNCHANGED <<served, repeated>>
                                    /\ tick' = [tick EXCEPT ![t] = Drop(tick[t], s)]
      BY <1>3 DEF TickLaunches
    <2>2. s \in Schedules /\ tick[t].item = {s} BY <1>0, <2>1 DEF TickShape
    <2> QED BY <1>1, <2>1, <2>2
  <1>4. ASSUME NEW n \in Nodes, TickStart(t, n) PROVE Goal
    <2>1. /\ UNCHANGED <<served, repeated, clock>> /\ tick[t] = Idle
          /\ \E pc \in {"init", "list"} : tick' = [tick EXCEPT ![t] = [Idle EXCEPT !.pc = pc, !.node = n]]
      BY <1>4 DEF TickStart
    <2>2. /\ tick'[t].todo = {} /\ tick'[t].item = {} /\ tick'[t].now = 0
          /\ tick'[t].pc \in {"init", "list"} /\ \A u \in Ticks \ {t} : tick'[u] = tick[u]
      BY <1>0, <2>1 DEF Idle
    <2>3. \A u \in Ticks : Shrinks(u) BY <2>2 DEF Shrinks, Due
    <2>4. TickShape' BY <1>0, <2>1, <2>2 DEF TickShape, Due
    <2> QED BY <2>1, <2>3, <2>4, ShrinkingLeaves
  <1>5. CASE TickList(t)
    <2>1. tick[t] \in TickType BY <1>5, TickUnderWay DEF TickList, FireInv, Typed
    <2>2. PICK due \in SUBSET Schedules :
            /\ \A s \in due : record[s].next <= clock
            /\ tick[t].pc = "list" /\ UNCHANGED <<served, repeated, clock>>
            /\ tick' = [tick EXCEPT ![t] =
                 IF due = {} THEN Idle
                 ELSE [@ EXCEPT !.pc = "work", !.now = clock, !.todo = due, !.snap = record]]
            /\ crowded' = crowded \cup Overlapping(t, due)
      BY <1>5 DEF TickList
    <2>3. \A u \in Ticks \ {t} : tick'[u] = tick[u] BY <1>0, <2>2
    <2>4. \/ tick'[t] = Idle
          \/ /\ tick'[t].pc = "work" /\ tick'[t].now = clock /\ tick'[t].todo = due
             /\ tick'[t].snap = record /\ tick'[t].item = tick[t].item
      BY <1>0, <2>1, <2>2 DEF TickType
    <2>5. \A s \in Schedules : Due(t, s)' => s \in due /\ tick'[t].snap[s].next = record[s].next
      BY <2>4 DEF Due, Idle
    <2>6. ServedPast' /\ Unserved' /\ Apart' /\ FiredOnce' BY <2>2, <2>3, <2>5, ListingFresh
    <2>7. tick[t].item = {} BY <1>0, <2>2 DEF TickShape
    <2>8. TickShape' BY <1>0, <2>2, <2>3, <2>4, <2>7 DEF TickShape, Due, Idle
    <2> QED BY <2>6, <2>8
  <1>6. CASE RecoverList(t)
    <2>1. tick[t] \in TickType BY <1>6, TickUnderWay DEF RecoverList, FireInv, Typed
    <2>2. PICK all \in SUBSET Schedules :
            /\ tick[t].pc = "init" /\ UNCHANGED <<served, repeated, clock>>
            /\ tick' = [tick EXCEPT ![t] =
                 IF all = {} THEN [@ EXCEPT !.pc = "list"]
                 ELSE [@ EXCEPT !.pc = "recover", !.now = clock, !.todo = all, !.snap = record]]
            /\ crowded' = crowded \cup Overlapping(t, all)
      BY <1>6 DEF RecoverList
    <2>3. \A u \in Ticks \ {t} : tick'[u] = tick[u] BY <1>0, <2>2
    <2>4. /\ tick[t].todo = {} /\ tick[t].item = {} /\ tick[t].now <= clock
      BY <1>0, <2>2 DEF TickShape
    <2>5. \/ /\ tick'[t].pc = "list" /\ tick'[t].todo = {} /\ tick'[t].item = {}
             /\ tick'[t].now <= clock
          \/ /\ tick'[t].pc = "recover" /\ tick'[t].now = clock /\ tick'[t].todo = all
             /\ tick'[t].snap = record /\ tick'[t].item = {}
      BY <1>0, <2>1, <2>2, <2>4 DEF TickType
    <2>6. \A s \in Schedules : Due(t, s)' => s \in all /\ tick'[t].snap[s].next = record[s].next
      BY <2>5 DEF Due
    <2>7. ServedPast' /\ Unserved' /\ Apart' /\ FiredOnce' BY <2>2, <2>3, <2>6, ListingFresh
    <2>8. TickShape' BY <1>0, <2>2, <2>3, <2>5 DEF TickShape, Due
    <2> QED BY <2>7, <2>8
  <1>7. ASSUME NEW s \in Schedules, tick[t].pc # "off",
               Save(s, Advanced(s, tick[t].snap[s], tick[t].now)), Due(t, s)
        PROVE  record'[s].next > tick[t].snap[s].next
    <2>1. tick[t] \in TickType BY <1>7, TickUnderWay DEF FireInv, Typed
    <2>2. tick[t].snap[s] \in Records /\ tick[t].now \in 0..MaxTime BY <2>1 DEF TickType
    <2>3. /\ NextRun(s, tick[t].now) > tick[t].now /\ NextRun(s, tick[t].now) \in Times
      BY <1>0, <2>2, NextRunIsLater
    <2>4. record'[s] = Advanced(s, tick[t].snap[s], tick[t].now) BY <1>0, <1>7 DEF Save
    <2>5. record'[s].next = NextRun(s, tick[t].now) BY <2>2, <2>4 DEF Advanced, Records
    <2>6. tick[t].snap[s].next \in Int /\ tick[t].snap[s].next <= tick[t].now
      BY <1>0, <1>7, <2>2 DEF Due
    <2> QED BY <1>0, <2>2, <2>3, <2>5, <2>6, RunsAssumption DEF Times, Never, RunsAssumption
  <1>8. ASSUME NEW s \in Schedules, RecoverFire(t, s) PROVE Goal
    <2>1. /\ tick[t].pc = "recover" /\ s \in tick[t].todo
          /\ tick' = [tick EXCEPT ![t] = Drop(tick[t], s)]
          /\ Save(s, Advanced(s, tick[t].snap[s], tick[t].now))
          /\ IF tick[t].snap[s].next <= tick[t].now THEN Serve(s, tick[t].snap[s].next) ELSE NotServing
      BY <1>8 DEF RecoverFire
    <2>2. CASE ~Due(t, s)
      <3>1. UNCHANGED <<served, repeated>> BY <2>1, <2>2 DEF Due, NotServing
      <3> QED BY <1>1, <2>1, <3>1
    <2>3. CASE Due(t, s)
      <3>1. Serve(s, tick[t].snap[s].next) /\ tick[t].item = {}
        BY <1>0, <2>1, <2>3 DEF Due, TickShape
      <3>2. record'[s].next > tick[t].snap[s].next BY <1>7, <2>1, <2>3
      <3>3. TickShape' /\ (\A u \in Ticks : Shrinks(u)) /\ ~Due(t, s)' BY <2>1, DroppingShrinks
      <3>4. \A u \in Ticks \ {t} : tick'[u] = tick[u] BY <1>0, <2>1
      <3> QED BY <2>3, <3>1, <3>2, <3>3, <3>4, ServingOnce
    <2> QED BY <2>2, <2>3
  <1>9. ASSUME NEW s \in Schedules, TickAdvances(t, s) PROVE Goal
    <2>1. /\ tick[t].pc = "work" /\ s \in tick[t].todo /\ UNCHANGED clock
          /\ Save(s, Advanced(s, tick[t].snap[s], tick[t].now))
          /\ Serve(s, tick[t].snap[s].next)
          /\ tick' = [tick EXCEPT ![t] = [tick[t] EXCEPT !.pc = "launch", !.item = {s}]]
      BY <1>9 DEF TickAdvances
    <2>2. tick[t] \in TickType BY <2>1, TickUnderWay DEF FireInv, Typed
    <2>3. /\ tick'[t].pc = "launch" /\ tick'[t].item = {s} /\ tick'[t].todo = tick[t].todo
          /\ tick'[t].now = tick[t].now /\ tick'[t].snap = tick[t].snap
      BY <1>0, <2>1, <2>2 DEF TickType
    <2>4. \A u \in Ticks \ {t} : tick'[u] = tick[u] BY <1>0, <2>1
    <2>5. Due(t, s) /\ tick[t].item = {} BY <1>0, <2>1 DEF TickShape
    <2>6. \A u \in Ticks : Shrinks(u) BY <2>3, <2>4, <2>5 DEF Shrinks, Due
    <2>7. record'[s].next > tick[t].snap[s].next BY <1>7, <2>1, <2>5
    <2>8. ServedPast' /\ Unserved' /\ Apart' /\ FiredOnce'
      BY <2>1, <2>3, <2>4, <2>5, <2>6, <2>7, ServingOnce
    <2>9. TickShape' BY <1>0, <2>1, <2>3, <2>4 DEF TickShape, Due
    <2> QED BY <2>8, <2>9
  <1> HIDE DEF Goal
  <1> QED BY <1>2, <1>3, <1>4, <1>5, <1>6, <1>8, <1>9 DEF TickLoop, TickStep

(* The invariant is inductive.                                              *)
LEMMA FiresInductive ==
  /\ Init => FireInv
  /\ FireInv /\ [Next]_vars => FireInv'
  <1>1. Init => FireInv
    <2> SUFFICES ASSUME Init PROVE FireInv OBVIOUS
    <2>1. Typed BY TypesInductive
    <2> QED BY <2>1 DEF Init, FireInv, TickShape, ServedPast, Unserved, Apart, FiredOnce, Idle, Due
  <1>2. FireInv /\ [Next]_vars => FireInv'
    <2> SUFFICES ASSUME FireInv, [Next]_vars PROVE FireInv' OBVIOUS
    <2>1. Typed' BY TypesInductive DEF FireInv
    <2> DEFINE Goal == TickShape' /\ ServedPast' /\ Unserved' /\ Apart' /\ FiredOnce'
    <2> SUFFICES Goal BY <2>1 DEF FireInv
    <2>2. PointersMove
      <3>1. CASE Next BY <3>1, EveryPointerMoves DEF FireInv
      <3>2. CASE UNCHANGED vars
        <4>1. /\ UNCHANGED <<clock, rewound, crowded, record>>
              /\ clock \in Int /\ \A s \in Schedules : record[s].next \in Int
          BY <3>2, RunsAssumption
          DEF vars, FireInv, Typed, TypeOK, RunsTypeOK, Records, Times, Never, RunsAssumption
        <4> QED BY <4>1 DEF PointersMove
      <3> QED BY <3>1, <3>2
    <2>3. /\ clock <= clock' /\ clock \in Int /\ clock' \in Int /\ 0 <= clock'
          /\ \A t \in Ticks : tick[t].now \in Int
      BY <2>1, <2>2, RunsAssumption
      DEF PointersMove, FireInv, Typed, TypeOK, RunsTypeOK, TicksTypeOK, Idle, RunsAssumption
    <2>4. ASSUME UNCHANGED <<served, repeated>>, \A t \in Ticks : tick'[t] \in {tick[t], Idle}
          PROVE  Goal
      <3>1. \A t \in Ticks : Shrinks(t) BY <2>4 DEF Shrinks, Due, Idle
      <3>2. TickShape'
        <4> SUFFICES ASSUME NEW t \in Ticks
                     PROVE  /\ tick'[t].now <= clock'
                            /\ tick'[t].pc \in {"off", "init", "list"} => tick'[t].todo = {}
                            /\ tick'[t].pc # "launch" => tick'[t].item = {}
                            /\ tick'[t].pc = "launch" => \E x \in Schedules : tick'[t].item = {x}
                            /\ tick'[t].pc \in {"work", "launch"} =>
                                 \A x \in tick'[t].todo : Due(t, x)'
          BY DEF TickShape
        <4>1. CASE tick'[t] = Idle BY <2>3, <4>1 DEF Idle
        <4>2. CASE tick'[t] = tick[t] BY <2>3, <4>2 DEF FireInv, TickShape, Due
        <4> QED BY <2>4, <4>1, <4>2
      <3> QED BY <2>1, <2>2, <2>4, <3>1, <3>2, ShrinkingLeaves
    <2>5. \/ UNCHANGED <<served, repeated>> /\ \A t \in Ticks : tick'[t] \in {tick[t], Idle}
          \/ \E t \in Ticks : TickLoop(t)
      <3> HIDE DEF Goal
      <3>1. CASE UNCHANGED vars BY <3>1 DEF vars
      <3>2. CASE Next
        <4>1. ASSUME Elapse \/ Elections \/ AdminWrite \/ Locks
              PROVE  UNCHANGED <<tick, served, repeated>>
          BY <4>1 DEF Elapse, Elections, AdminWrite, Locks, tickVars
        <4>2. ASSUME NEW r \in Runs, RunProgress(r) \/ RunLoss(r)
              PROVE  UNCHANGED <<tick, served, repeated>>
          BY <4>2 DEF RunProgress, RunLoss, tickVars
        <4>3. ASSUME NEW n \in Nodes, Boot(n) \/ Disable(n) \/ Enable(n) \/ Stop(n) \/ Stopped(n)
              PROVE  UNCHANGED <<tick, served, repeated>>
          BY <4>3 DEF Boot, BootStart, BootRead, BootSave, BootSeed, Start, Disable, Enable, Stop,
                      Stopped, tickVars
        <4>4. ASSUME NEW n \in Nodes, Exit(n) \/ Crash(n)
              PROVE  /\ UNCHANGED <<served, repeated>>
                     /\ \A t \in Ticks : tick'[t] \in {tick[t], Idle}
          BY <4>4 DEF Exit, Crash, Down, LoseTicks
        <4>5. ASSUME NEW n \in Nodes, NEW s \in Schedules,
                     \/ Remove(n, s) \/ Trigger(n, s)
                     \/ \E op \in {"pause", "resume", "upsert"} : AdminRead(n, s, op)
              PROVE  UNCHANGED <<tick, served, repeated>>
          BY <4>5 DEF Remove, Trigger, AdminRead, tickVars
        <4> QED BY <3>2, <4>1, <4>2, <4>3, <4>4, <4>5 DEF Next
      <3> QED BY <3>1, <3>2
    <2>6. ASSUME NEW t \in Ticks, TickLoop(t) PROVE Goal
      BY <2>1, <2>2, <2>6, TickKeepsFires
    <2> HIDE DEF Goal
    <2> QED BY <2>4, <2>5, <2>6
  <1> QED BY <1>1, <1>2

(* No occurrence is served twice, by whatever ticks, recoveries, crashes    *)
(* and failovers, unless a stale copy of the record moved the pointer back  *)
(* or two ticks had listed the same pointer.                                *)
THEOREM OccurrencesFireOnce == Spec => []FiredOnce
  <1>1. FireInv => FiredOnce BY DEF FireInv
  <1> QED BY <1>1, FiresInductive, PTL DEF Spec
=============================================================================
