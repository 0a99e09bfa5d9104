------------------------------ MODULE Services ------------------------------
(***************************************************************************)
(* The parts of the package that share no state in these models: cache,    *)
(* rate limiter, webhook engine, pub/sub, broker and storage adapters,     *)
(* dependency flow, start and stop, HTTP and manager, metrics and sandbox, *)
(* side by side. An initial state puts one of them to work with one of its *)
(* settings and leaves the others with nothing to do, so a run explores    *)
(* the union of their state spaces and not the product. Every variable     *)
(* carries the prefix of its part. A part with a proof module of its own   *)
(* is instantiated with it, so that its theorems are at hand here; those   *)
(* of Parts_proofs and Deliveries_proofs are there already.                *)
(***************************************************************************)
EXTENDS Naturals, Sequences, Parts_proofs, Deliveries_proofs
CONSTANTS n1, n2, s1, s2, k1, k2, t1, t2, j1, j2, g1, g2, p1, p2,
  CacheSettings, LimitSettings, TopicSettings, SeenSettings, BoxSettings
VARIABLE service \* the service at work

VARIABLES cacheSetting, cacheSource, cacheL1, cacheL2, cacheTagIndex,
  cacheInflight, cacheFetchLock, cacheCircuit, cacheListening, cacheInbox,
  cacheCall, cacheFloor, cacheTainted, cacheLapsed
cacheVars == <<cacheSetting, cacheSource, cacheL1, cacheL2, cacheTagIndex,
  cacheInflight, cacheFetchLock, cacheCircuit, cacheListening, cacheInbox,
  cacheCall, cacheFloor, cacheTainted, cacheLapsed>>
C == INSTANCE Cache_proofs WITH
  Settings <- CacheSettings, Nodes <- {n1, n2}, Slots <- {s1, s2},
  Keys <- {k1, k2}, MaxVersion <- 1, FailuresThreshold <- 2,
  setting <- cacheSetting, source <- cacheSource, l1 <- cacheL1,
  l2 <- cacheL2, tagIndex <- cacheTagIndex, inflight <- cacheInflight,
  fetchLock <- cacheFetchLock, circuit <- cacheCircuit,
  listening <- cacheListening, inbox <- cacheInbox, call <- cacheCall,
  floor <- cacheFloor, tainted <- cacheTainted, lapsed <- cacheLapsed

VARIABLES limitSetting, limitClock, limitUsage, limitBans, limitViolations,
  limitOverride, limitCircuit, limitWriteLock, limitCall, limitAdmitted,
  limitAllowance, limitFullWindows, limitDisturbed
limitVars == <<limitSetting, limitClock, limitUsage, limitBans, limitViolations,
  limitOverride, limitCircuit, limitWriteLock, limitCall, limitAdmitted,
  limitAllowance, limitFullWindows, limitDisturbed>>
R == INSTANCE RateLimit WITH
  Settings <- LimitSettings, Slots <- {s1, s2}, Tiers <- {t1, t2},
  MaxTime <- 4, Window <- 2, RefillRate <- 1, RefillInterval <- 2,
  BurstWindows <- 2, Multiplier <- 2, Cooldown <- 2, Threshold <- 2,
  PenaltyWindow <- 2, BanTime <- 2, DefaultWindow <- 60,
  setting <- limitSetting, clock <- limitClock, usage <- limitUsage,
  bans <- limitBans, violations <- limitViolations,
  override <- limitOverride, circuit <- limitCircuit,
  writeLock <- limitWriteLock, call <- limitCall, admitted <- limitAdmitted,
  allowance <- limitAllowance, fullWindows <- limitFullWindows,
  disturbed <- limitDisturbed

VARIABLES topicSetting, topicHead, topicMessages, topicKeyStored,
  topicGroup, topicDelivery, topicDead, topicQueue, topicClaim, topicHalted,
  topicClient, topicSubscribed, topicActor, topicDeliverer, topicRepair,
  topicStart, topicEnded, topicQuiet
topicVars == <<topicSetting, topicHead, topicMessages, topicKeyStored,
  topicGroup, topicDelivery, topicDead, topicQueue, topicClaim, topicHalted,
  topicClient, topicSubscribed, topicActor, topicDeliverer, topicRepair,
  topicStart, topicEnded, topicQuiet>>
P == INSTANCE PubSub_proofs WITH
  Settings <- TopicSettings, Nodes <- {n1, n2}, Groups <- {g1, g2},
  Publishes <- {p1, p2}, Deliverers <- {s1, s2}, MaxAttempts <- 2,
  setting <- topicSetting, head <- topicHead, messages <- topicMessages,
  keyStored <- topicKeyStored, group <- topicGroup,
  delivery <- topicDelivery, dead <- topicDead, queue <- topicQueue,
  claim <- topicClaim, halted <- topicHalted, client <- topicClient,
  subscribed <- topicSubscribed, actor <- topicActor,
  deliverer <- topicDeliverer, repair <- topicRepair, start <- topicStart,
  ended <- topicEnded, quiet <- topicQuiet

VARIABLES seenSetting, seenAttempt, seenStatus, seenTally, seenTelemetry,
  seenLog, seenSpans, seenEmitted, seenHeard, seenMissed
seenVars == <<seenSetting, seenAttempt, seenStatus, seenTally,
  seenTelemetry, seenLog, seenSpans, seenEmitted, seenHeard, seenMissed>>
O == INSTANCE Observers WITH
  Settings <- SeenSettings, Jobs <- {j1, j2}, Attempts <- 1..3, Cap <- 2,
  LogCap <- 3, setting <- seenSetting, attempt <- seenAttempt, status <-
  seenStatus, tally <- seenTally, telemetry <- seenTelemetry, log <-
  seenLog, spans <- seenSpans, emitted <- seenEmitted, heard <- seenHeard,
  missed <- seenMissed

VARIABLES boxSetting, boxThread, boxInbox, boxTimer, boxAnswer, boxEnded,
  boxKilled
boxVars == <<boxSetting, boxThread, boxInbox, boxTimer, boxAnswer, boxEnded,
  boxKilled>>
X == INSTANCE Sandbox WITH
  Settings <- BoxSettings, setting <- boxSetting, thread <- boxThread, inbox
  <- boxInbox, timer <- boxTimer, answer <- boxAnswer, ended <- boxEnded,
  killed <- boxKilled

ServicesAssumption ==
  /\ C!Assumption /\ R!Assumption /\ W!Assumption /\ P!Assumption
  /\ B!Assumption /\ F!Assumption /\ K!Assumption /\ S!Assumption
  /\ A!Assumption /\ O!Assumption /\ X!Assumption
  /\ \A s \in BrokerSettings : B!Fits(s)
  /\ \A s \in FlowSettings : F!ResumesFit(s)
ASSUME ServicesAssumption

NoneOf(kinds) == [kind \in kinds |-> 0]
CacheIdle ==
  [fleet |-> {}, keys |-> {}, maxItems |-> 0, tagged |-> FALSE,
   clusterLock |-> FALSE, followerFetch |-> FALSE,
   offers |-> NoneOf(C!Kinds), budget |-> NoneOf(C!Faults)]
LimitIdle ==
  [algorithm |-> "fixed-window", tiers |-> <<>>, max |-> 1, burst |-> FALSE,
   penalty |-> FALSE, dryRun |-> FALSE,
   offers |-> NoneOf(R!Offers), budget |-> NoneOf(R!Faults)]
HookIdle ==
  [fleet |-> {}, concurrency |-> 1, shared |-> TRUE, reclaims |-> FALSE,
   offers |-> NoneOf(W!Offers), budget |-> NoneOf(W!Faults)]
TopicIdle ==
  [fleet |-> {}, groups |-> {}, joined |-> FALSE, fromHead |-> TRUE,
   keyed |-> FALSE, reclaims |-> FALSE, publishes |-> 0,
   offers |-> NoneOf(P!Calls), budget |-> NoneOf(P!Faults)]
BrokerIdle ==
  [kind |-> "memory", strategy |-> "fifo", priced |-> FALSE, callers |-> {},
   offers |-> NoneOf(B!Calls)]
FlowIdle ==
  [todo |-> {}, spare |-> {}, dependsOn |-> [j \in FlowJobs |-> {}],
   later |-> {}, policy |-> "block", size |-> 1, retries |-> 0, engines |-> {},
   results |-> {"ok"}, gated |-> FALSE, pruned |-> FALSE, held |-> FALSE,
   built |-> FALSE, offers |-> NoneOf(F!Calls)]

KitIdle ==
  [modules |-> <<>>, flagged |-> {}, boots |-> <<>>,
   offers |-> NoneOf(K!Calls), budget |-> NoneOf(K!Faults)]
StoreIdle == [adapter |-> "memory", offers |-> NoneOf(S!Ops), crashes |-> 0]
ApiIdle ==
  [auth |-> FALSE, manager |-> FALSE, engines |-> {}, local |-> {},
   stored |-> {}, off |-> {}, jobs |-> {}, fires |-> {}, maxHeld |-> 1,
   requests |-> {}, calls |-> 0, holds |-> 0, ends |-> 0, crashes |-> 0]
SeenIdle ==
  [engine |-> "queue", listening |-> FALSE, retries |-> 0, stalls |-> 0,
   toggles |-> 0, resets |-> 0]
BoxIdle == [endings |-> {}, lingers |-> FALSE, runs |-> 0]

Init ==
  /\ service \in {"cache", "limit", "hook", "topic", "broker", "flow",
                  "kit", "store", "api", "seen", "box"}
  /\ C!InitWith(IF service = "cache" THEN CacheSettings ELSE {CacheIdle})
  /\ R!InitWith(IF service = "limit" THEN LimitSettings ELSE {LimitIdle})
  /\ W!InitWith(IF service = "hook" THEN HookSettings ELSE {HookIdle})
  /\ P!InitWith(IF service = "topic" THEN TopicSettings ELSE {TopicIdle})
  /\ B!InitWith(IF service = "broker" THEN BrokerSettings ELSE {BrokerIdle})
  /\ F!InitWith(IF service = "flow" THEN FlowSettings ELSE {FlowIdle})
  /\ K!InitWith(IF service = "kit" THEN KitSettings ELSE {KitIdle})
  /\ S!InitWith(IF service = "store" THEN StoreSettings ELSE {StoreIdle})
  /\ A!InitWith(IF service = "api" THEN ApiSettings ELSE {ApiIdle})
  /\ O!InitWith(IF service = "seen" THEN SeenSettings ELSE {SeenIdle})
  /\ X!InitWith(IF service = "box" THEN BoxSettings ELSE {BoxIdle})

CacheStep ==
  /\ service = "cache" /\ C!Next
  /\ UNCHANGED <<service, limitVars, hookVars, topicVars, brokerVars, flowVars,
                 kitVars, storeVars, apiVars, seenVars, boxVars>>
LimitStep ==
  /\ service = "limit" /\ R!Next
  /\ UNCHANGED <<service, cacheVars, hookVars, topicVars, brokerVars, flowVars,
                 kitVars, storeVars, apiVars, seenVars, boxVars>>
HookStep ==
  /\ service = "hook" /\ W!Next
  /\ UNCHANGED <<service, cacheVars, limitVars, topicVars, brokerVars, flowVars,
                 kitVars, storeVars, apiVars, seenVars, boxVars>>
TopicStep ==
  /\ service = "topic" /\ P!Next
  /\ UNCHANGED <<service, cacheVars, limitVars, hookVars, brokerVars, flowVars,
                 kitVars, storeVars, apiVars, seenVars, boxVars>>
BrokerStep ==
  /\ service = "broker" /\ B!Next
  /\ UNCHANGED <<service, cacheVars, limitVars, hookVars, topicVars, flowVars,
                 kitVars, storeVars, apiVars, seenVars, boxVars>>
FlowStep ==
  /\ service = "flow" /\ F!Next
  /\ UNCHANGED <<service, cacheVars, limitVars, hookVars, topicVars, brokerVars,
                 kitVars, storeVars, apiVars, seenVars, boxVars>>
KitStep ==
  /\ service = "kit" /\ K!Next
  /\ UNCHANGED <<service, cacheVars, limitVars, hookVars, topicVars, brokerVars,
                 flowVars, storeVars, apiVars, seenVars, boxVars>>
StoreStep ==
  /\ service = "store" /\ S!Next
  /\ UNCHANGED <<service, cacheVars, limitVars, hookVars, topicVars, brokerVars,
                 flowVars, kitVars, apiVars, seenVars, boxVars>>
ApiStep ==
  /\ service = "api" /\ A!Next
  /\ UNCHANGED <<service, cacheVars, limitVars, hookVars, topicVars, brokerVars,
                 flowVars, kitVars, storeVars, seenVars, boxVars>>
SeenStep ==
  /\ service = "seen" /\ O!Next
  /\ UNCHANGED <<service, cacheVars, limitVars, hookVars, topicVars, brokerVars,
                 flowVars, kitVars, storeVars, apiVars, boxVars>>
BoxStep ==
  /\ service = "box" /\ X!Next
  /\ UNCHANGED <<service, cacheVars, limitVars, hookVars, topicVars, brokerVars,
                 flowVars, kitVars, storeVars, apiVars, seenVars>>
Next ==
  \/ CacheStep \/ LimitStep \/ HookStep \/ TopicStep \/ BrokerStep \/ FlowStep
  \/ KitStep \/ StoreStep \/ ApiStep \/ SeenStep \/ BoxStep

vars == <<service, cacheVars, limitVars, hookVars, topicVars, brokerVars,
          flowVars, kitVars, storeVars, apiVars, seenVars, boxVars>>
Spec == Init /\ [][Next]_vars
(* The promises and timers of the engines, and of an application that       *)
(* called publish().                                                        *)
Fairness ==
  /\ C!Fairness /\ W!Fairness /\ P!Fairness
  /\ \A p \in {p1, p2} : WF_topicVars(P!PublishStep(p))
FairSpec == Spec /\ Fairness

-----------------------------------------------------------------------------
(* The states of every service are well formed.                             *)
TypeOK ==
  CASE service = "cache" -> C!TypeOK
    [] service = "limit" -> R!TypeOK
    [] service = "hook" -> W!TypeOK
    [] service = "topic" -> P!TypeOK
    [] service = "broker" -> B!TypeOK
    [] service = "flow" -> F!TypeOK
    [] service = "kit" -> K!TypeOK
    [] service = "store" -> S!TypeOK
    [] service = "api" -> A!TypeOK
    [] service = "seen" -> O!TypeOK
    [] service = "box" -> X!TypeOK

(* Cache: one fetcher per key and process, whoever calls getOrFetch; no     *)
(* tier keeps what an invalidation should have removed; every call returns, *)
(* also when the process that held the fetch lock died.                     *)
FetchOnce == service = "cache" => C!FetchOnce
InvalidatedStaysGone == service = "cache" => C!InvalidatedStaysGone
CallsAreAnswered == C!CallsAreAnswered

(* Rate limiter: what is admitted stays within the limit as each algorithm  *)
(* counts it; a refusal costs nothing and an admission costs once; a check  *)
(* that began under a ban refuses.                                          *)
LimitIsKept == service = "limit" => R!LimitIsKept

(* Webhooks: requests stay within the retries, plus one per crash; every    *)
(* delivery ends, whatever breaker, limiter and pauses do in between.       *)
SendsWithinBudget == service = "hook" => W!SendsWithinBudget
DeliveriesEnd == W!DeliveriesEnd

(* Pub/sub: a message is there once, every group gets a delivery of it and  *)
(* no cursor passes one that is open; pause() holds until resume(); every   *)
(* published message ends in every subscribed group.                        *)
NoMessageIsSkipped == service = "topic" => P!NoMessageIsSkipped
PauseHolds == P!PauseHolds
DeliveredAtLeastOnce == P!DeliveredAtLeastOnce

(* "PubSub is an at-least-once delivery system" (pubsub.mdx), for a message *)
(* published while its group was paused.                                    *)
ResumedIsDelivered == P!ResumedIsDelivered

(* Broker adapters: an id that is owed can be claimed, is delayed, locked   *)
(* or in a call's hands.                                                    *)
EveryIdIsSomewhere == service = "broker" => B!EveryIdIsSomewhere

(* Flow: no job runs before its parents completed; no unfinished job drops  *)
(* out of every list or waits for parents that have all completed.          *)
ParentsFirst == service = "flow" => F!ParentsFirst
JobsAreKept == service = "flow" => F!JobsAreKept

(* Start and stop: after stop() no connection, module or listener of the    *)
(* process is left, and the client it was given is open; the adapters of a  *)
(* running job are open until it ends.                                      *)
StopIsOrderly == service = "kit" => K!StopIsOrderly

(* Storage adapters: one saveIfAbsent wins, and pages tile the list.        *)
StoreIsConsistent == service = "store" => S!StoreIsConsistent

(* HTTP and manager: a job moves on order only, the last 200 of a switch    *)
(* stands, a chain lists a job's retries in order.                          *)
OrdersAreKept == service = "api" => A!OrdersAreKept

(* Metrics: the tallies are the events that happened, the durations the     *)
(* last ones, the gauge covers what runs, the log the newest events.        *)
MetricsAreTrue == service = "seen" => O!MetricsAreTrue

(* Sandbox: execute() answers what became of the handler.                   *)
AnswerTellsWhatHappened == service = "box" => X!AnswerTellsWhatHappened

(* What a step may never do: hand an id to a second caller (broker), prune  *)
(* a record whose time is not past (storage), or drop the newest held job   *)
(* of a queue or dispatcher (manager).                                      *)
NeverInOneStep == B!OneHolder /\ S!PruneSparesFresh /\ A!NewestIsHeld
=============================================================================
