---------------------------- MODULE ScheduleTicks ----------------------------
(***************************************************************************)
(* The tick loop of BaseSchedulerEngine.  The interval timer does not wait  *)
(* for a tick to finish, so several ticks of one engine may be under way;   *)
(* each works on the records it listed and writes them back as a whole.     *)
(***************************************************************************)
EXTENDS ScheduleRuns

CONSTANTS
  Ticks,             \* ticks (budget.ticks of them at the same time)
  MaxMissed,         \* maxMissedRuns
  MisfireThreshold   \* misfireThresholdMs of the schedule engine

ASSUME TicksAssumption ==
  /\ IsFiniteSet(Ticks)
  /\ MaxMissed \in Nat \ {0} /\ MisfireThreshold \in Nat

VARIABLES
  tick,      \* the ticks
  initDone,  \* _hasRunLeaderInit of each process
  known,     \* the definitions in each process's memory
  served,    \* <<schedule, occurrence>> a tick or a recovery served (history)
  repeated,  \* those served more than once (history)
  crowded    \* schedules two ticks worked on for one occurrence (history)

tickVars == <<tick, initDone, known, served, repeated, crowded>>

Idle == [pc |-> "off", node |-> Nobody, now |-> 0, todo |-> {},
         snap |-> [s \in Schedules |-> NoRecord], item |-> {}]

TickPcs == {"init", "recover", "list", "work", "launch"}

TicksTypeOK ==
  /\ tick \in [Ticks -> {Idle} \cup
                 [pc : TickPcs, node : Nodes, now : 0..MaxTime,
                  todo : SUBSET Schedules, snap : [Schedules -> Records],
                  item : SUBSET Schedules]]
  /\ initDone \in [Nodes -> BOOLEAN]
  /\ known \in [Nodes -> SUBSET Schedules]
  /\ served \subseteq Schedules \X Times
  /\ repeated \subseteq served
  /\ crowded \subseteq Schedules

(* Serving the occurrence the listed record points at.                      *)
Serve(s, at) ==
  /\ served' = served \cup {<<s, at>>}
  /\ repeated' = IF <<s, at>> \in served
                 THEN repeated \cup {<<s, at>>} ELSE repeated

NotServing == UNCHANGED <<served, repeated>>

(***************************************************************************)
(* The start of a tick                                                     *)
(***************************************************************************)

(* Mutant: the tick does not ask whether this engine is the leader.         *)
TickStartAnywhere(t, n) ==
  /\ tick[t] = Idle
  /\ Cardinality({u \in Ticks : tick[u] # Idle}) < budget["ticks"]
  /\ engine[n] = "up"
  /\ tick' = [tick EXCEPT ![t].pc = IF initDone[n] THEN "list" ELSE "init",
                          ![t].node = n]
  /\ initDone' = [initDone EXCEPT ![n] = TRUE]
  /\ UNCHANGED <<known, served, repeated, crowded, engine, def, clock, record,
                 rewound>>
  /\ UNCHANGED runVars

(* The interval timer fires on an engine that believes to be the leader.    *)
TickStart(t, n) ==
  /\ tick[t] = Idle
  /\ Cardinality({u \in Ticks : tick[u] # Idle}) < budget["ticks"]
  /\ engine[n] = "up" /\ isLeader[n]
  /\ tick' = [tick EXCEPT ![t].pc = IF initDone[n] THEN "list" ELSE "init",
                          ![t].node = n]
  /\ initDone' = [initDone EXCEPT ![n] = TRUE]
  /\ UNCHANGED <<known, served, repeated, crowded, engine, def, clock, record,
                 rewound>>
  /\ UNCHANGED runVars

(* Two ticks that will serve the same occurrence.                           *)
Overlapping(t, due) ==
  {s \in due : \E u \in Ticks \ {t} :
                 /\ s \in tick[u].todo /\ record[s].next <= tick[u].now
                 /\ tick[u].snap[s].next = record[s].next}

(* storage.list of the due records.                                         *)
TickList(t) ==
  LET due == {s \in Schedules : record[s].kept /\ record[s].next <= clock} IN
  /\ tick[t].pc = "list"
  /\ tick' = [tick EXCEPT ![t] =
       IF due = {} THEN Idle
       ELSE [@ EXCEPT !.pc = "work", !.now = clock, !.todo = due,
                      !.snap = record]]
  /\ crowded' = crowded \cup Overlapping(t, due)
  /\ UNCHANGED <<initDone, known, served, repeated, engine, def, clock, record,
                 rewound>>
  /\ UNCHANGED runVars

(* The tick is done with schedule s: the record it listed is forgotten.     *)
Drop(tk, s) ==
  LET rest == tk.todo \ {s}
      phase == IF tk.pc # "recover" THEN "work"
               ELSE IF rest = {} THEN "list" ELSE "recover"
  IN IF rest = {} /\ phase = "work" THEN Idle
     ELSE [pc |-> phase, node |-> tk.node, now |-> tk.now, todo |-> rest,
           snap |-> [tk.snap EXCEPT ![s] = NoRecord], item |-> {}]

(***************************************************************************)
(* handleLeaderInit(), once in the life of a process                       *)
(***************************************************************************)

RecoverList(t) ==
  LET all == {s \in Schedules : record[s].kept} IN
  /\ tick[t].pc = "init"
  /\ tick' = [tick EXCEPT ![t] =
       IF all = {} THEN [@ EXCEPT !.pc = "list"]
       ELSE [@ EXCEPT !.pc = "recover", !.now = clock, !.todo = all,
                      !.snap = record]]
  /\ crowded' = crowded \cup Overlapping(t, all)
  /\ UNCHANGED <<initDone, known, served, repeated, engine, def, clock, record,
                 rewound>>
  /\ UNCHANGED runVars

(* The first MaxMissed elements of a set of timestamps.                     *)
Earliest(dates) ==
  {d \in dates : Cardinality({e \in dates : e < d}) < MaxMissed}

(* MissedFireHandler.checkMissed().                                         *)
Missed(s, last, now) ==
  LET policy == def[s].missedFire
      grid == {d \in (last + 1)..now : d % Period = 0}
      hops == {d \in (last + 1)..now : (d - last) % Period = 0}
      past == {d \in grid : d < now}
  IN IF policy = "skip" \/ last = Unset THEN {}
     ELSE CASE def[s].timing = "expression" /\ policy = "run-all" -> Earliest(grid)
            [] def[s].timing = "expression" /\ policy = "run-once" ->
                 {d \in past : \A e \in past : e <= d}
            [] def[s].timing = "interval" /\ now - last > Period ->
                 IF policy = "run-all" THEN Earliest(hops) ELSE {now}
            [] OTHER -> {}

(* The times handleLeaderInit fires schedule s at.  The schedule engine     *)
(* hands checkMissed a cron expression and an interval its definitions do   *)
(* not have, so its "run-all" always falls back to one fire.                *)
Recovered(s, snap, now) ==
  IF def[s].engine = "cron" THEN Missed(s, snap.last, now)
  ELSE IF /\ def[s].timing # "runAt" /\ def[s].missedFire # "skip"
          /\ ~snap.paused /\ snap.next < now
          /\ now - snap.next >= MisfireThreshold
       THEN {now} ELSE {}

(* Only the schedule engine moves the pointer past a miss it ignores.       *)
SkipsMiss(s, snap, now) ==
  /\ def[s].engine = "schedule" /\ def[s].timing # "runAt"
  /\ def[s].missedFire = "skip" /\ ~snap.paused
  /\ snap.next < now /\ now - snap.next >= MisfireThreshold

Advanced(s, snap, now) ==
  [snap EXCEPT !.next = NextRun(s, now), !.last = now]

(* Nothing missed, or no definition.                                        *)
RecoverNothing(t, s) ==
  LET tk == tick[t]  snap == tk.snap[s] IN
  /\ tk.pc = "recover" /\ s \in tk.todo
  /\ \/ s \notin known[tk.node]
     \/ /\ Recovered(s, snap, tk.now) = {}
        /\ ~SkipsMiss(s, snap, tk.now)
  /\ tick' = [tick EXCEPT ![t] = Drop(tk, s)]
  /\ UNCHANGED <<initDone, known, served, repeated, crowded, engine, def, clock,
                 record, rewound>>
  /\ UNCHANGED runVars

RecoverSkip(t, s) ==
  LET tk == tick[t]  snap == tk.snap[s] IN
  /\ tk.pc = "recover" /\ s \in tk.todo /\ s \in known[tk.node]
  /\ SkipsMiss(s, snap, tk.now)
  /\ Save(s, Advanced(s, snap, tk.now))
  /\ tick' = [tick EXCEPT ![t] = Drop(tk, s)]
  /\ UNCHANGED <<initDone, known, served, repeated, crowded, engine, def, clock>>
  /\ UNCHANGED runVars

(* Every missed date is fired, and then the pointer is moved.               *)
RecoverFire(t, s) ==
  LET tk == tick[t]  snap == tk.snap[s]  dates == Recovered(s, snap, tk.now) IN
  /\ tk.pc = "recover" /\ s \in tk.todo /\ s \in known[tk.node]
  /\ dates # {}
  /\ Fire(tk.node, s, dates)
  /\ Save(s, Advanced(s, snap, tk.now))
  /\ IF snap.next <= tk.now THEN Serve(s, snap.next) ELSE NotServing
  /\ tick' = [tick EXCEPT ![t] = Drop(tk, s)]
  /\ UNCHANGED <<initDone, known, crowded, engine, def, clock, robbed>>

(***************************************************************************)
(* The loop over the due records                                           *)
(***************************************************************************)

(* A definition this process does not have, or a leader demoted mid-tick.   *)
(* A runAt that fires for the last time does not look at the leadership.    *)
TickSkips(t, s) ==
  LET tk == tick[t] IN
  /\ tk.pc = "work" /\ s \in tk.todo
  /\ \/ s \notin known[tk.node]
     \/ /\ ~isLeader[tk.node] /\ ~tk.snap[s].paused
        /\ NextRun(s, tk.now) # Never
  /\ tick' = [tick EXCEPT ![t] = Drop(tk, s)]
  /\ UNCHANGED <<initDone, known, served, repeated, crowded, engine, def, clock,
                 record, rewound>>
  /\ UNCHANGED runVars

(* The record is saved with its pointer advanced and nothing is fired: it   *)
(* was listed as paused, or the condition or the rate limiter said no.      *)
TickAdvancesOnly(t, s) ==
  LET tk == tick[t] IN
  /\ tk.pc = "work" /\ s \in tk.todo /\ s \in known[tk.node]
  /\ tk.snap[s].paused \/ def[s].guarded
  /\ Save(s, Advanced(s, tk.snap[s], tk.now))
  /\ tick' = [tick EXCEPT ![t] = Drop(tk, s)]
  /\ UNCHANGED <<initDone, known, served, repeated, crowded, engine, def, clock>>
  /\ UNCHANGED runVars

(* The pointer is advanced before the fire.                                 *)
TickAdvances(t, s) ==
  LET tk == tick[t] IN
  /\ tk.pc = "work" /\ s \in tk.todo /\ s \in known[tk.node]
  /\ ~tk.snap[s].paused
  /\ isLeader[tk.node] \/ NextRun(s, tk.now) = Never
  /\ Save(s, Advanced(s, tk.snap[s], tk.now))
  /\ Serve(s, tk.snap[s].next)
  /\ tick' = [tick EXCEPT ![t].pc = "launch", ![t].item = {s}]
  /\ UNCHANGED <<initDone, known, crowded, engine, def, clock>>
  /\ UNCHANGED runVars

(* The save answered: void this.fire(def, now).                             *)
TickLaunches(t) ==
  LET tk == tick[t] IN
  /\ tk.pc = "launch"
  /\ \E s \in tk.item :
       /\ Fire(tk.node, s, {tk.now})
       /\ tick' = [tick EXCEPT ![t] = Drop(tk, s)]
  /\ UNCHANGED <<initDone, known, served, repeated, crowded, engine, def, clock,
                 record, rewound, robbed>>

(***************************************************************************)
(* detectClusterStalls(), every few ticks of a leader                      *)
(***************************************************************************)

(* Mutant: a leader looks only for jobs of its own.                         *)
DetectOwnStalls(n, r) ==
  /\ engine[n] = "up" /\ isLeader[n]
  /\ run[r].pc = "orphan" /\ run[r].node = n
  /\ run[r].key[1] \in known[n]
  /\ run' = [run EXCEPT ![r] = NoRun]
  /\ UNCHANGED <<engine, def, clock, record, runLock, rewound, raced, robbed>>

(* The leader fails the old "running" jobs of schedules it knows.           *)
DetectClusterStalls(n, r) ==
  /\ engine[n] = "up" /\ isLeader[n]
  /\ run[r].pc = "orphan"
  /\ run[r].key[1] \in known[n]
  /\ run' = [run EXCEPT ![r] = NoRun]
  /\ UNCHANGED <<engine, def, clock, record, runLock, rewound, raced, robbed>>

LoseTicks(n) ==
  tick' = [t \in Ticks |-> IF tick[t].node = n THEN Idle ELSE tick[t]]

TickStep(t) ==
  \/ \E n \in Nodes : TickStart(t, n)
  \/ RecoverList(t) \/ TickList(t) \/ TickLaunches(t)
  \/ \E s \in Schedules :
       \/ RecoverNothing(t, s) \/ RecoverSkip(t, s) \/ RecoverFire(t, s)
       \/ TickSkips(t, s) \/ TickAdvancesOnly(t, s) \/ TickAdvances(t, s)
=============================================================================
