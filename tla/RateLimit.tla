------------------------------ MODULE RateLimit ------------------------------
(***************************************************************************)
(* RateLimitEngine: check() and peek() over the tiers of one limiter, the  *)
(* administrative calls, and the garbage collection of RateLimitModule.    *)
(* A check runs under the limiter's write lock (a lease with an owner per  *)
(* call); peek() and the administrative calls take no lock.                *)
(***************************************************************************)
EXTENDS RateAlgorithms, Sequences, FiniteSets

CONSTANTS
  Slots,        \* check and peek calls that may be under way at once (a bound)
  Tiers,        \* a tier with the key its key() resolves to
  BurstWindows, \* circuitBreaker.consecutiveFullWindows
  Multiplier,   \* circuitBreaker.burstMultiplier
  Cooldown,     \* circuitBreaker.cooldownWindow
  Threshold,    \* penalty.threshold
  PenaltyWindow, \* penalty.penaltyWindow
  BanTime,      \* penalty.banDuration and the duration of ban()
  DefaultWindow, \* the windowMs _updateStats falls back on for a banned tier
  Settings      \* configurations, calls offered and faults to explore

NoSlot == "no slot"
NoTier == "no tier"
Offers == {"check", "peek", "reset", "override", "ban", "unban", "collect"}
Faults == {"lapse", "crash", "timeout", "fail"}

Assumption ==
  /\ AlgorithmAssumption /\ NoSlot \notin Slots /\ NoTier \notin Tiers
  /\ {BurstWindows, Multiplier, Cooldown, Threshold, PenaltyWindow, BanTime, DefaultWindow} \subseteq Nat \ {0}
  /\ Settings \subseteq
       [algorithm : Algorithms, tiers : Seq(Tiers), max : Nat \ {0},
        burst : BOOLEAN,   \* circuitBreaker is configured
        penalty : BOOLEAN, \* penalty is configured
        dryRun : BOOLEAN,
        offers : [Offers -> Nat], budget : [Faults -> Nat]]

VARIABLES
  setting,    \* the member of Settings in force, budgets counting down
  clock,
  usage,      \* the algorithm's record of each tier
  bans,       \* "ratelimit:bans": expiresAt, 0 for no record
  violations, \* "ratelimit:violations": refusals by time
  override,   \* "ratelimit:overrides": max, 0 for no record
  circuit,    \* "ratelimit:circuit"
  writeLock,  \* owner of "ratelimit:<name>:write"
  call,       \* calls under way
  admitted,   \* history: admissions of each tier by time, since its reset
  allowance,  \* history: the largest effective max a check went by
  fullWindows, \* history: windows in which a check found 95% in use
  disturbed   \* history: "lapse", "crash", "fail", "reset" once they happened

vars == <<setting, clock, usage, bans, violations, override, circuit, writeLock,
          call, admitted, allowance, fullWindows, disturbed>>

Counts == 0 .. MaxTime * 4 + 8
Eval == [max : Counts, current : Counts, ok : BOOLEAN, banned : BOOLEAN]
NoEval == [max |-> 0, current |-> 0, ok |-> TRUE, banned |-> FALSE]
Pcs == {"acquire", "ban", "unban", "peek", "punish", "consume", "save", "track", "release"}
NoCall == [pc |-> "idle", kind |-> "none", next |-> 1, blocker |-> NoTier,
           evals |-> [t \in Tiers |-> NoEval], seen |-> NoState,
           at |-> [t \in Tiers |-> 0], allowed |-> FALSE, barred |-> {}]
NoCircuit == [exists |-> FALSE, full |-> 0, last |-> -1, until |-> 0, expires |-> Never]
NoStamps == [t \in Times |-> 0]

TypeOK ==
  /\ clock \in Times
  /\ DOMAIN usage = Tiers /\ DOMAIN circuit = Tiers /\ DOMAIN violations = Tiers
  /\ \A t \in Tiers :
       /\ usage[t].count \in Counts /\ usage[t].id \in Counts /\ usage[t].until \in Counts
       /\ circuit[t].full \in Counts /\ circuit[t].until \in Counts
       /\ violations[t] \in [Times -> Counts]
       /\ bans[t] \in Counts /\ override[t] \in Counts
       /\ admitted[t] \in [Times -> Counts] /\ allowance[t] \in Counts
  /\ writeLock \in Slots \cup {NoSlot}
  /\ \A c \in Slots : call[c].pc \in Pcs \cup {"idle"}
                      /\ call[c].evals \in [Tiers -> Eval \cup {NoEval}]

InitWith(settings) ==
  /\ setting \in settings /\ clock = 0
  /\ usage = [t \in Tiers |-> NoState] /\ bans = [t \in Tiers |-> 0]
  /\ violations = [t \in Tiers |-> NoStamps]
  /\ override = [t \in Tiers |-> 0] /\ circuit = [t \in Tiers |-> NoCircuit]
  /\ writeLock = NoSlot /\ call = [c \in Slots |-> NoCall]
  /\ admitted = [t \in Tiers |-> NoStamps] /\ allowance = [t \in Tiers |-> 0]
  /\ fullWindows = [t \in Tiers |-> {}] /\ disturbed = {}
Init == InitWith(Settings)

records == <<usage, bans, violations, override, circuit>>
histories == <<admitted, allowance, fullWindows, disturbed>>
Offered(kind) ==
  /\ setting.offers[kind] > 0
  /\ setting' = [setting EXCEPT !.offers[kind] = @ - 1]
Spend(fault) ==
  /\ setting.budget[fault] > 0
  /\ setting' = [setting EXCEPT !.budget[fault] = @ - 1]
At(c, pc) == call[c].pc = pc
Tier(c) == setting.tiers[call[c].next]
IsLast(c) == call[c].next = Len(setting.tiers)
InUse == {setting.tiers[i] : i \in DOMAIN setting.tiers}
IdleSlots == {c \in Slots : At(c, "idle")}

-----------------------------------------------------------------------------
(* check() and peek(); the instance is enabled and nothing is depended on.  *)
InForce(t) == bans[t] > clock
Begin(c, kind) ==
  /\ IdleSlots # {} /\ c = CHOOSE d \in IdleSlots : TRUE
  /\ Offered(kind)
  /\ call' = [call EXCEPT ![c] =
       [NoCall EXCEPT !.pc = IF kind = "check" THEN "acquire" ELSE "ban",
                      !.kind = kind, !.barred = {t \in InUse : InForce(t)}]]
  /\ UNCHANGED <<clock, records, writeLock, histories>>

(* withWriteLock: a polling loop with a deadline.                           *)
AcquireHeld(c) == \* Mutant: the answer of acquire is ignored.
  /\ At(c, "acquire")
  /\ writeLock' = c
  /\ call' = [call EXCEPT ![c].pc = "ban"]
  /\ UNCHANGED <<setting, clock, records, histories>>
Acquire(c) ==
  /\ At(c, "acquire") /\ writeLock = NoSlot
  /\ writeLock' = c
  /\ call' = [call EXCEPT ![c].pc = "ban"]
  /\ UNCHANGED <<setting, clock, records, histories>>
(* The storage throws: the limiter's withWriteLock still releases, and what  *)
(* was charged stays charged.  Under failOpen the caller is admitted all    *)
(* the same, uncounted.                                                     *)
Fails(c) ==
  /\ ~At(c, "idle") /\ ~At(c, "acquire") /\ ~At(c, "release") /\ Spend("fail")
  /\ call' = [call EXCEPT ![c] = IF @.kind = "check" THEN [@ EXCEPT !.pc = "release"] ELSE NoCall]
  /\ disturbed' = disturbed \cup {"fail"}
  /\ UNCHANGED <<clock, records, writeLock, admitted, allowance, fullWindows>>
(* The deadline: check throws, or admits without counting under failOpen.   *)
AcquireTimesOut(c) ==
  /\ At(c, "acquire") /\ writeLock # NoSlot /\ Spend("timeout")
  /\ call' = [call EXCEPT ![c] = NoCall]
  /\ UNCHANGED <<clock, records, writeLock, histories>>
Release(c) ==
  /\ At(c, "release")
  /\ writeLock' = IF writeLock = c THEN NoSlot ELSE writeLock
  /\ call' = [call EXCEPT ![c] = NoCall]
  /\ UNCHANGED <<setting, clock, records, histories>>

(* The decision once every tier has been looked at.                         *)
Decided(c, rec) ==
  LET blocked == rec.blocker # NoTier
      banned == blocked /\ rec.evals[rec.blocker].banned
  IN IF rec.kind = "peek" THEN NoCall
     ELSE [rec EXCEPT !.next = 1,
             !.pc = IF ~blocked THEN "consume"
                    ELSE IF setting.penalty /\ ~banned THEN "punish"
                    ELSE IF setting.dryRun THEN "consume" ELSE "track"]
Evaluated(c, eval) ==
  LET rec == [call[c] EXCEPT !.evals[Tier(c)] = eval,
                !.blocker = IF @ = NoTier /\ ~eval.ok THEN Tier(c) ELSE @]
  IN call' = [call EXCEPT ![c] =
       IF IsLast(c) THEN Decided(c, rec) ELSE [rec EXCEPT !.next = @ + 1, !.pc = "ban"]]

(* _isBanned: an expired ban is deleted in a second call.                   *)
CheckBan(c) ==
  LET t == Tier(c)
  IN /\ At(c, "ban")
     /\ IF InForce(t)
        THEN Evaluated(c, [max |-> setting.max, current |-> setting.max,
                           ok |-> FALSE, banned |-> TRUE])
        ELSE call' = [call EXCEPT ![c].pc = IF bans[t] = 0 THEN "peek" ELSE "unban"]
     /\ UNCHANGED <<setting, clock, records, writeLock, histories>>
DropBan(c) ==
  /\ At(c, "unban")
  /\ bans' = [bans EXCEPT ![Tier(c)] = 0]
  /\ call' = [call EXCEPT ![c].pc = "peek"]
  /\ UNCHANGED <<setting, clock, usage, violations, override, circuit, writeLock, histories>>

(* _resolveCircuitMax and the peek of the algorithm; a burst that is over   *)
(* closes the circuit.                                                      *)
Bursting(t) == circuit[t].until > clock
EffectiveMax(t) ==
  LET max == IF override[t] # 0 THEN override[t] ELSE setting.max
  IN IF setting.burst /\ Bursting(t) THEN max * Multiplier ELSE max
PeekTier(c) ==
  LET t == Tier(c)
      max == EffectiveMax(t)
      current == Current(setting.algorithm, usage[t], max, clock)
  IN /\ At(c, "peek")
     /\ circuit' = IF setting.burst /\ circuit[t].until # 0 /\ ~Bursting(t)
                   THEN [circuit EXCEPT ![t].until = 0, ![t].full = 0, ![t].expires = clock]
                   ELSE circuit
     /\ Evaluated(c, [max |-> max, current |-> IF current < max THEN current + 1 ELSE current,
                      ok |-> current < max, banned |-> FALSE])
     /\ allowance' = IF max > allowance[t] THEN [allowance EXCEPT ![t] = max] ELSE allowance
     /\ UNCHANGED <<setting, clock, usage, bans, violations, override, writeLock,
                    admitted, fullWindows, disturbed>>

(* _recordViolation: the threshold turns refusals into a ban.               *)
Punish(c) ==
  LET t == call[c].blocker
      recent == [s \in Times |-> IF s + PenaltyWindow > clock THEN violations[t][s] ELSE 0]
      noted == [recent EXCEPT ![clock] = @ + 1]
      banned == Total(noted, Times) >= Threshold
  IN /\ At(c, "punish")
     /\ violations' = [violations EXCEPT ![t] = IF banned THEN NoStamps ELSE noted]
     /\ bans' = IF banned THEN [bans EXCEPT ![t] = clock + BanTime] ELSE bans
     /\ call' = [call EXCEPT ![c].pc = IF setting.dryRun THEN "consume" ELSE "track"]
     /\ UNCHANGED <<setting, clock, usage, override, circuit, writeLock, histories>>

-----------------------------------------------------------------------------
(* consume for one tier after the other: get, then save.  A refusal in the  *)
(* second look leaves the tiers before it charged.                          *)
Proceed(c, rec) ==
  call' = [call EXCEPT ![c] =
    IF IsLast(c) THEN [rec EXCEPT !.pc = "track", !.allowed = call[c].blocker = NoTier]
    ELSE [rec EXCEPT !.next = @ + 1, !.pc = "consume"]]
Consume(c) ==
  LET t == Tier(c)
      max == call[c].evals[t].max
      fits == Current(setting.algorithm, usage[t], max, clock) + 1 <= max
  IN /\ At(c, "consume")
     /\ IF call[c].evals[t].banned THEN Proceed(c, call[c])
        ELSE IF fits
        THEN call' = [call EXCEPT ![c].pc = "save", ![c].seen = usage[t], ![c].at[t] = clock]
        ELSE IF call[c].blocker # NoTier THEN Proceed(c, call[c])
        ELSE call' = [call EXCEPT ![c].pc = "track", ![c].evals[t].ok = FALSE]
     /\ UNCHANGED <<setting, clock, records, writeLock, histories>>
Save(c) ==
  LET t == Tier(c)
      at == call[c].at
      max == call[c].evals[t].max
      charged == Charged(setting.algorithm, call[c].seen, max, at[t])
      current == Current(setting.algorithm, charged, max, at[t])
  IN /\ At(c, "save")
     /\ usage' = [usage EXCEPT ![t] = charged]
     /\ Proceed(c, [call[c] EXCEPT !.evals[t].current = current, !.seen = NoState])
     /\ admitted' = IF IsLast(c) /\ call[c].blocker = NoTier
                    THEN [u \in Tiers |-> IF u \in InUse THEN [admitted[u] EXCEPT ![at[u]] = @ + 1]
                                          ELSE admitted[u]]
                    ELSE admitted
     /\ UNCHANGED <<setting, clock, bans, violations, override, circuit, writeLock,
                    allowance, fullWindows, disturbed>>

(* _updateStats: _trackCircuit for every tier of the breakdown.             *)
Full(eval) == eval.current * 20 >= eval.max * 19
SpanOf(eval) == IF eval.banned THEN DefaultWindow ELSE Window
Tracked(rec, eval) ==
  LET id == clock \div SpanOf(eval)
      full == IF rec.last # id THEN rec.full + 1 ELSE rec.full
      until == IF full >= BurstWindows THEN clock + Cooldown ELSE rec.until
      soon == clock + SpanOf(eval)
      later == IF until > soon THEN until ELSE soon
  IN IF rec.until > clock THEN rec
     ELSE IF Full(eval)
     THEN [exists |-> TRUE, full |-> full, last |-> id, until |-> until, expires |-> later]
     ELSE IF ~rec.exists THEN rec
     ELSE [rec EXCEPT !.full = 0, !.last = id, !.expires = soon]
Track(c) ==
  /\ At(c, "track")
  /\ circuit' = IF setting.burst
                THEN [t \in Tiers |-> IF t \in InUse THEN Tracked(circuit[t], call[c].evals[t])
                                      ELSE circuit[t]]
                ELSE circuit
  /\ fullWindows' = [t \in Tiers |-> IF t \in InUse /\ Full(call[c].evals[t])
                                     THEN fullWindows[t] \cup {clock \div SpanOf(call[c].evals[t])} ELSE fullWindows[t]]
  /\ call' = [call EXCEPT ![c].pc = "release"]
  /\ UNCHANGED <<setting, clock, usage, bans, violations, override, writeLock,
                 admitted, allowance, disturbed>>

-----------------------------------------------------------------------------
(* Administration, without the write lock; garbage collection.              *)
Reset(t) ==
  /\ Offered("reset")
  /\ usage' = [usage EXCEPT ![t] = Cleared(setting.algorithm, setting.max, clock)]
  /\ violations' = [violations EXCEPT ![t] = NoStamps]
  /\ circuit' = IF circuit[t].exists THEN [circuit EXCEPT ![t].last = -1] ELSE circuit
  /\ admitted' = [admitted EXCEPT ![t] = NoStamps]
  /\ disturbed' = disturbed \cup {"reset"}
  /\ UNCHANGED <<clock, bans, override, writeLock, call, allowance, fullWindows>>
SetOverride(t, max) ==
  /\ Offered("override")
  /\ override' = [override EXCEPT ![t] = max]
  /\ UNCHANGED <<clock, usage, bans, violations, circuit, writeLock, call, histories>>
Ban(t) ==
  /\ Offered("ban")
  /\ bans' = [bans EXCEPT ![t] = clock + BanTime]
  /\ UNCHANGED <<clock, usage, violations, override, circuit, writeLock, call, histories>>
Unban(t) ==
  /\ Offered("unban")
  /\ bans' = [bans EXCEPT ![t] = 0]
  /\ UNCHANGED <<clock, usage, violations, override, circuit, writeLock, call, histories>>

(* RateLimitModule._tick: prune deletes what has createdAt in the past; the *)
(* record of ban() has none and may stay.                                   *)
Collect ==
  /\ Offered("collect")
  /\ usage' = [t \in Tiers |-> IF usage[t].until < clock THEN NoState ELSE usage[t]]
  /\ \E kept \in SUBSET Tiers :
       bans' = [t \in Tiers |-> IF bans[t] < clock /\ t \notin kept THEN 0 ELSE bans[t]]
  /\ circuit' = [t \in Tiers |-> IF circuit[t].expires < clock THEN NoCircuit ELSE circuit[t]]
  /\ violations' = [t \in Tiers |->
       IF \A s \in Times : violations[t][s] > 0 => s + PenaltyWindow < clock
       THEN NoStamps ELSE violations[t]]
  /\ UNCHANGED <<clock, override, writeLock, call, histories>>

Tick ==
  /\ clock < MaxTime /\ clock' = clock + 1
  /\ UNCHANGED <<setting, records, writeLock, call, histories>>

(* The lease runs out under a holder that waits for a hook or the storage.  *)
LockLapses ==
  /\ writeLock # NoSlot /\ Spend("lapse")
  /\ writeLock' = NoSlot /\ disturbed' = disturbed \cup {"lapse"}
  /\ UNCHANGED <<clock, records, call, admitted, allowance, fullWindows>>
(* A process dies in a check: its lock runs out in time.                    *)
Crash(c) ==
  /\ ~At(c, "idle") /\ Spend("crash")
  /\ call' = [call EXCEPT ![c] = NoCall]
  /\ disturbed' = disturbed \cup {"crash"}
  /\ UNCHANGED <<clock, records, writeLock, admitted, allowance, fullWindows>>
OrphanExpires ==
  /\ writeLock # NoSlot
  /\ call[writeLock].kind # "check" \/ At(writeLock, "acquire")
  /\ writeLock' = NoSlot
  /\ UNCHANGED <<setting, clock, records, call, histories>>

Step(c) ==
  \/ Acquire(c) \/ CheckBan(c) \/ DropBan(c) \/ PeekTier(c) \/ Punish(c)
  \/ Consume(c) \/ Save(c) \/ Track(c) \/ Release(c)
Next ==
  \/ \E c \in Slots : \/ Begin(c, "check") \/ Begin(c, "peek")
                      \/ Step(c) \/ AcquireTimesOut(c) \/ Fails(c) \/ Crash(c)
  \/ \E t \in InUse : Reset(t) \/ SetOverride(t, setting.max + 1) \/ Ban(t) \/ Unban(t)
  \/ Collect \/ Tick \/ LockLapses \/ OrphanExpires

-----------------------------------------------------------------------------
(* What is admitted stays within the largest limit in force, as each        *)
(* algorithm counts it: over every span of the window's length, over every  *)
(* window of the grid, or over every span plus what is refilled in it - as  *)
(* long as the write lock does not expire under a check.                    *)
WithinLimit ==
  "lapse" \notin disturbed /\ ~setting.dryRun =>
    \A t \in InUse :
      CASE setting.algorithm = "sliding-window" ->
             \A now \in Times : Total(admitted[t], Within(now)) <= allowance[t]
        [] setting.algorithm = "fixed-window" ->
             \A id \in 0 .. WindowId(MaxTime) :
               Total(admitted[t], {s \in Times : WindowId(s) = id}) <= allowance[t]
        [] setting.algorithm = "token-bucket" ->
             \A a, b \in Times :
               a <= b => Total(admitted[t], a .. b)
                           <= allowance[t] + RefillRate * ((b - a) \div RefillInterval + 1)

(* A refused request costs nothing and an admitted one costs each tier      *)
(* once: with no call under way, the stored usage of every tier is the      *)
(* number of admissions in the current window.                              *)
UsageIsCharged ==
  /\ disturbed = {} /\ ~setting.dryRun /\ \A c \in Slots : At(c, "idle")
  => \A t \in InUse :
       /\ setting.algorithm = "sliding-window" =>
            Total(usage[t].stamps, Within(clock)) = Total(admitted[t], Within(clock))
       /\ setting.algorithm = "fixed-window" =>
            Current("fixed-window", usage[t], setting.max, clock)
              = Total(admitted[t], {s \in Times : WindowId(s) = WindowId(clock)})

(* A key that was banned when a check began, and still is when the check    *)
(* settles, was refused by it.                                              *)
BannedIsRefused ==
  \A c \in Slots : At(c, "release") /\ call[c].allowed =>
    \A t \in call[c].barred : ~InForce(t)

(* The limit is only inflated after the configured number of windows, each  *)
(* of them found full.                                                      *)
BurstIsEarned ==
  "reset" \notin disturbed =>
    \A t \in InUse : Bursting(t) => Cardinality(fullWindows[t]) >= BurstWindows

(* circuitBreaker: "auto-increase max after N consecutive full-utilization  *)
(* windows": the check that finds the N-th window in a row full opens it.   *)
FullWindowsBurst ==
  [][\A t \in Tiers :
       /\ setting.burst /\ ~setting.penalty /\ disturbed = {}
       /\ fullWindows'[t] # fullWindows[t]
       /\ \E id \in 0 .. WindowId(MaxTime) : fullWindows'[t] = id .. id + BurstWindows - 1
       => circuit'[t].until > clock]_vars

(* The limiter keeps its word: the limit and when it is raised, what a      *)
(* request costs, the bans.                                                 *)
LimitIsKept == WithinLimit /\ BurstIsEarned /\ UsageIsCharged /\ BannedIsRefused
=============================================================================
