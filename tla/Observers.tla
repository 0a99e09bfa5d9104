------------------------------- MODULE Observers -------------------------------
(***************************************************************************)
(* What listens to the event bus: TelemetryManager, the metrics of queues, *)
(* workers and schedules with their ring of durations, and the log behind  *)
(* GET /events.  Attempts at jobs emit the events; a metric is emitted      *)
(* after a read of the job, when other attempts may have moved it on.      *)
(***************************************************************************)
EXTENDS Naturals, FiniteSets, SequencesExt

CONSTANTS
  Jobs,     \* their topic is their queue, or their schedule
  Attempts, \* claims of a job: a bound
  Cap,      \* of the ring of durations; 1000 in the code
  LogCap,   \* of the event log; 500
  Settings  \* engine, outcomes and restarts of the collectors to explore

Unknown == "_unknown"
Topics == {"t1", Unknown}
Assumption ==
  /\ Cap \in Nat \ {0} /\ LogCap \in Nat \ {0}
  /\ Settings \subseteq [engine : {"queue", "worker", "schedule"},
                         listening : BOOLEAN, \* from the start
                         retries : Nat, stalls : Nat, toggles : Nat, resets : Nat]

VARIABLES
  setting,   \* the member of Settings in force, its counts going down
  attempt,   \* of a job: stage, how it ended, how long it took
  status,    \* of the stored job
  tally,     \* QueueMetrics, WorkerMetrics or SchedulerMetrics: the accumulator
  telemetry, \* TelemetryManager
  log,       \* recentEvents, newest first
  spans,     \* history: durations pushed, oldest first
  emitted,   \* history: events appended, newest first
  heard,     \* history: attempts whose claim the accumulator counted
  missed     \* history: attempts whose job another one moved on before the read, or
             \* that ended while nobody listened

vars == <<setting, attempt, status, tally, telemetry, log, spans, emitted, heard, missed>>

NoAttempt == [job |-> "none", stage |-> "free", ended |-> "none"]
Stages == {"free", "claimed", "running", "stalled", "settled", "done"}
NoTally == [known |-> FALSE, processed |-> 0, completed |-> 0, failed |-> 0, stalled |-> 0,
            ring |-> [i \in 0 .. Cap - 1 |-> 0], writePos |-> 0, count |-> 0]
Zero == [t \in Topics |-> 0]
NoTelemetry == [on |-> FALSE, started |-> Zero, completed |-> Zero, failed |-> Zero,
                active |-> Zero, startTimes |-> {}, durations |-> 0]

TypeOK ==
  /\ \A a \in Attempts : attempt[a].stage \in Stages /\ attempt[a].ended \in {"none", "completed", "failed"}
  /\ status \in [Jobs -> {"waiting", "active", "completed", "failed"}]
  /\ tally.writePos \in 0 .. Cap - 1 /\ tally.count \in 0 .. Cap
  /\ telemetry.active \in [Topics -> Nat] /\ telemetry.startTimes \subseteq Jobs
  /\ Len(log) <= LogCap /\ heard \subseteq Attempts /\ missed \subseteq Attempts

InitWith(settings) ==
  /\ setting \in settings
  /\ attempt = [a \in Attempts |-> NoAttempt] /\ status = [j \in Jobs |-> "waiting"]
  /\ tally = [on |-> setting.listening] @@ NoTally
  /\ telemetry = [NoTelemetry EXCEPT !.on = setting.listening]
  /\ log = <<>> /\ spans = <<>> /\ emitted = <<>> /\ heard = {} /\ missed = {}
Init == InitWith(Settings)

Spend(what) == setting[what] > 0 /\ setting' = [setting EXCEPT ![what] = @ - 1]
Took(a) == 1 + (Cardinality({b \in Attempts : attempt[b].stage = "done"}) % 3) \* durations that differ

-----------------------------------------------------------------------------
(* TelemetryManager: start times by job id; the gauge floors at zero.       *)
Ends(tel, j) == IF j \in tel.startTimes THEN "t1" ELSE Unknown
HandleStart(tel, j) ==
  [tel EXCEPT !.started["t1"] = @ + 1, !.active["t1"] = @ + 1, !.startTimes = @ \cup {j}]
DecrementUnfloored(n) == n - 1 \* Mutant: the gauge goes below zero.
Decrement(n) == IF n = 0 THEN 0 ELSE n - 1
HandleEnd(tel, j, ok) ==
  [tel EXCEPT !.completed[Ends(tel, j)] = IF ok THEN @ + 1 ELSE @,
              !.failed[Ends(tel, j)] = IF ok THEN @ ELSE @ + 1,
              !.active[Ends(tel, j)] = Decrement(@), !.startTimes = @ \ {j},
              !.durations = IF j \in tel.startTimes THEN @ + 1 ELSE @]
Hear(tel) == telemetry' = IF telemetry.on THEN tel ELSE telemetry

(* appendEvent(): unshift, pop beyond the cap.                              *)
Trimmed(events) == SubSeq(events, 1, IF Len(events) < LogCap THEN Len(events) ELSE LogCap)
Append1(event) ==
  log' = Trimmed(<<event>> \o log) /\ emitted' = <<event>> \o emitted

(* DurationRingBuffer.                                                      *)
Push(acc, span) ==
  [acc EXCEPT !.ring[acc.writePos] = span, !.writePos = (@ + 1) % Cap,
              !.count = IF @ < Cap THEN @ + 1 ELSE @]
Buffered(acc) == [i \in 1 .. acc.count |-> acc.ring[i - 1]]
Sorted(acc) == SortSeq(Buffered(acc), <)
GetStats(acc) == \* p95 here: the index is floored
  [min |-> Sorted(acc)[1], max |-> Last(Sorted(acc)),
   p95 |-> Sorted(acc)[1 + (acc.count * 95) \div 100],
   last |-> acc.ring[(acc.writePos + Cap - 1) % Cap]]

(* The accumulators: a claim creates one, an outcome without one is dropped.*)
Claimed(acc) == [acc EXCEPT !.known = TRUE, !.processed = @ + 1]
Counted(acc, outcome, span) ==
  IF ~acc.known THEN acc
  ELSE Push(IF outcome = "completed" THEN [acc EXCEPT !.completed = @ + 1]
            ELSE [acc EXCEPT !.failed = @ + 1], span)
Stalled(acc) ==
  IF acc.known /\ setting.engine = "queue" THEN [acc EXCEPT !.stalled = @ + 1] ELSE acc
Note(acc) == tally' = IF tally.on THEN acc ELSE tally
Claims(a) == Note(Claimed(tally)) /\ heard' = IF tally.on THEN heard \cup {a} ELSE heard
Counts(a, outcome) ==
  /\ Note(Counted(tally, outcome, Took(a)))
  /\ spans' = IF tally.on /\ tally.known THEN Append(spans, Took(a)) ELSE spans

-----------------------------------------------------------------------------
(* Attempts: claimed, started (or turned away: the lock is taken), ended.   *)
(* A schedule's run emits its metrics itself, at its start and its end.     *)
Scheduled == setting.engine = "schedule"
Moves(j, a) == missed' = missed
  \cup (IF Scheduled /\ attempt[a].stage = "running" /\ ~tally.on THEN {a} ELSE {})
  \cup {b \in Attempts \ {a} : attempt[b].job = j /\ attempt[b].stage \in {"stalled", "settled"}}
Claim(a, j) ==
  /\ attempt[a].stage = "free" /\ (\A b \in Attempts : attempt[b].stage = "free" => b >= a)
  /\ status[j] = "waiting"
  /\ ~\E b \in Attempts : attempt[b].job = j /\ attempt[b].stage = "claimed"
  /\ attempt' = [attempt EXCEPT ![a] = [NoAttempt EXCEPT !.job = j, !.stage = "claimed"]]
  /\ IF Scheduled THEN UNCHANGED <<tally, heard>> ELSE Claims(a)
  /\ UNCHANGED <<setting, status, telemetry, log, emitted, spans, missed>>
Start(a) ==
  LET j == attempt[a].job
  IN /\ attempt[a].stage = "claimed"
     /\ attempt' = [attempt EXCEPT ![a].stage = "running"]
     /\ status' = [status EXCEPT ![j] = "active"]
     /\ Hear(HandleStart(telemetry, j)) /\ Append1(<<"job:start", j>>)
     /\ IF Scheduled THEN Claims(a) ELSE UNCHANGED <<tally, heard>>
     /\ Moves(j, a) /\ UNCHANGED <<setting, spans>>
End(a, outcome) ==
  LET j == attempt[a].job
  IN /\ attempt[a].stage = "running"
     /\ attempt' = [attempt EXCEPT ![a].stage = IF Scheduled THEN "done" ELSE "settled",
                                   ![a].ended = outcome]
     /\ status' = [status EXCEPT ![j] = outcome]
     /\ Hear(HandleEnd(telemetry, j, outcome = "completed"))
     /\ Append1(<<IF outcome = "completed" THEN "job:success" ELSE "job:fail", j>>)
     /\ IF Scheduled THEN Counts(a, outcome) ELSE UNCHANGED <<tally, spans>>
     /\ Moves(j, a) /\ UNCHANGED <<setting, heard>>
(* A retry stores the job as waiting and emits nothing here; so does an     *)
(* attempt that a stalled one's heartbeat gave back meanwhile.              *)
Retry(a) ==
  /\ attempt[a].stage = "running" /\ ~Scheduled /\ Spend("retries")
  /\ attempt' = [attempt EXCEPT ![a].stage = "settled"]
  /\ status' = [status EXCEPT ![attempt[a].job] = "waiting"] /\ Moves(attempt[a].job, a)
  /\ UNCHANGED <<tally, telemetry, log, emitted, spans, heard>>
Stall(a) ==
  /\ attempt[a].stage = "running" /\ ~Scheduled /\ Spend("stalls")
  /\ attempt' = [attempt EXCEPT ![a].stage = "stalled"]
  /\ status' = [status EXCEPT ![attempt[a].job] = "waiting"] /\ Note(Stalled(tally))
  /\ Moves(attempt[a].job, a) /\ UNCHANGED <<telemetry, log, emitted, spans, heard>>
Resolves(a) ==
  /\ attempt[a].stage = "stalled" /\ attempt' = [attempt EXCEPT ![a].stage = "settled"]
  /\ UNCHANGED <<setting, status, tally, telemetry, log, emitted, spans, heard, missed>>

(* emitExecutionMetric: the job is read once the attempt's promise resolved.*)
OutcomeUnlessDone(state) == \* Mutant: what is not completed failed, a retry as well.
  IF state = "completed" THEN "completed" ELSE "failed"
Outcome(state) == IF state \in {"completed", "failed"} THEN state ELSE "none"
EmitMetric(a) ==
  LET outcome == Outcome(status[attempt[a].job])
  IN /\ attempt[a].stage = "settled"
     /\ attempt' = [attempt EXCEPT ![a].stage = "done"]
     /\ IF outcome = "none" THEN UNCHANGED <<tally, spans>> ELSE Counts(a, outcome)
     /\ missed' = IF tally.on THEN missed ELSE missed \cup {a}
     /\ UNCHANGED <<setting, status, telemetry, log, emitted, heard>>

(* start() and stop() of the collectors, and resetMetrics(). TelemetryManager *)
(* forgets what it counted, the others keep it.                             *)
Toggle ==
  /\ Spend("toggles")
  /\ telemetry' = [NoTelemetry EXCEPT !.on = ~telemetry.on]
  /\ tally' = [tally EXCEPT !.on = ~@]
  /\ UNCHANGED <<attempt, status, log, emitted, spans, heard, missed>>
Reset ==
  /\ Spend("resets") /\ tally' = [on |-> tally.on] @@ NoTally
  /\ spans' = <<>> /\ heard' = {}
  /\ UNCHANGED <<attempt, status, telemetry, log, emitted, missed>>

Next ==
  \/ \E a \in Attempts :
       \/ \E j \in Jobs : Claim(a, j)
       \/ Start(a) \/ Retry(a) \/ Stall(a) \/ Resolves(a) \/ EmitMetric(a)
       \/ \E outcome \in {"completed", "failed"} : End(a, outcome)
  \/ Toggle \/ Reset

Spec == Init /\ [][Next]_vars

-----------------------------------------------------------------------------
(* With every claim heard since the last reset, an attempt is counted as    *)
(* what it came to: a retried or stalled one as neither - but for attempts  *)
(* whose job another one moved on before the metric read it.                *)
TalliesAreTrue ==
  LET seen(outcome) == {a \in heard : attempt[a].stage = "done" /\ attempt[a].ended = outcome}
      whole == heard = {a \in Attempts : attempt[a].stage # "free" /\ ~(Scheduled /\ attempt[a].stage = "claimed")}
  IN tally.on /\ whole /\ heard \cap missed = {} =>
       /\ tally.processed = Cardinality(heard)
       /\ tally.completed = Cardinality(seen("completed"))
       /\ tally.failed = Cardinality(seen("failed"))

(* The ring holds the last durations that were pushed, whatever wrapped, and *)
(* the statistics are theirs.                                               *)
RingKeepsLast ==
  LET kept == IF Len(spans) <= Cap THEN spans ELSE SubSeq(spans, Len(spans) - Cap + 1, Len(spans))
  IN /\ tally.count = Len(kept)
     /\ SortSeq(kept, <) = Sorted(tally)
     /\ kept # <<>> => /\ GetStats(tally).last = Last(kept) /\ GetStats(tally).max = Max(ToSet(kept))
                       /\ GetStats(tally).p95 \in ToSet(kept)

(* A job that started since telemetry did, and has not ended, is in the     *)
(* gauge of its topic: ends nobody saw start take nothing from it.          *)
GaugeCoversRunning == telemetry.active["t1"] >= Cardinality(telemetry.startTimes)
(* "Current number of jobs in-flight" (telemetry/manager.ts).               *)
GaugeIsInFlight ==
  telemetry.on => telemetry.active["t1"] <= Cardinality({a \in Attempts : attempt[a].stage = "running"})

(* GET /events shows the latest events, newest first.                       *)
LogIsRecent ==
  log = SubSeq(emitted, 1, IF Len(emitted) < LogCap THEN Len(emitted) ELSE LogCap)

(* What the operator reads is what happened.                                *)
MetricsAreTrue == TalliesAreTrue /\ RingKeepsLast /\ GaugeCoversRunning /\ LogIsRecent
=============================================================================
