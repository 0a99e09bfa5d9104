----------------------------- MODULE MCServices -----------------------------
EXTENDS Services, TLC
CONSTANTS m1, m2, q1, q2, j3 \* modules, queues, a third job

(* The names each component gives its calls and faults. *)
CacheCalls ==
  {"get", "fetch", "refresh", "set", "delete", "tags", "all", "clean"}
CacheFaults ==
  {"fail", "fetchError", "age", "lapse", "crash", "stop"}
LimitCalls ==
  {"check", "peek", "reset", "override", "ban", "unban", "collect"}
LimitFaults ==
  {"lapse", "crash", "timeout", "fail"}
HookCalls ==
  {"fire", "pause", "resume", "disable", "cancel", "resend"}
HookFaults ==
  {"retry", "reject", "error", "refuse", "lapse", "crash", "stop"}
TopicCalls ==
  {"subscribe", "unsubscribe", "pause", "resume", "earliest", "latest", "revive"}
TopicFaults ==
  {"nack", "discard", "filter", "overdue", "rescan", "crash", "expire"}
BrokerCalls ==
  {"publish", "later", "claim", "block", "nack", "defer", "remove", "pause", "resume", "lapse"}
FlowCalls ==
  {"pause", "resume", "publisherResume", "impatient", "scan", "retry", "rerun"}
KitCalls == {"stop", "disable", "enable", "reinit"}
KitFaults == {"boot", "module", "stopFails", "timeout", "job"}
StoreOps ==
  {"save", "insert", "update", "increment", "set", "delete", "bulkSave", "bulkDelete", "prune"}

Counts(kinds, given) ==
  [kind \in kinds |-> IF kind \in DOMAIN given THEN given[kind] ELSE 0]
None == [kind \in {} |-> 0]

Cache(offers, faults) ==
  [fleet |-> {n1, n2}, keys |-> {k1}, maxItems |-> 2, tagged |-> FALSE,
   clusterLock |-> FALSE, followerFetch |-> FALSE,
   offers |-> Counts(CacheCalls, offers), budget |-> Counts(CacheFaults, faults)]
CacheSmall ==
  {Cache([fetch |-> 2], None),
   [Cache([fetch |-> 2], [crash |-> 1]) EXCEPT !.clusterLock = TRUE, !.followerFetch = TRUE],
   [Cache([fetch |-> 1, delete |-> 1], [fail |-> 1, fetchError |-> 1]) EXCEPT !.fleet = {n1}]}
CacheAll == CacheSmall \cup
  {Cache([fetch |-> 2, delete |-> 1], None),
   Cache([fetch |-> 1, delete |-> 1], [stop |-> 1]),
   [Cache([fetch |-> 1, get |-> 1, delete |-> 1], [age |-> 1]) EXCEPT !.fleet = {n1}],
   [Cache([fetch |-> 1, refresh |-> 1], [lapse |-> 1, crash |-> 1, fetchError |-> 1])
      EXCEPT !.clusterLock = TRUE],
   [Cache([fetch |-> 2], [fail |-> 3, age |-> 1]) EXCEPT !.fleet = {n1}],
   [Cache([fetch |-> 1, clean |-> 1, get |-> 1], [age |-> 2, fail |-> 1])
      EXCEPT !.fleet = {n1}, !.tagged = TRUE],
   [Cache([set |-> 1, all |-> 1, fetch |-> 1], None)
      EXCEPT !.fleet = {n1}, !.keys = {k1, k2}, !.maxItems = 1],
   [Cache([set |-> 1, tags |-> 1], None) EXCEPT !.tagged = TRUE],
   [Cache([set |-> 1, all |-> 1], [fail |-> 1]) EXCEPT !.tagged = TRUE]}

Limit(algorithm, max, offers, faults) ==
  [algorithm |-> algorithm, tiers |-> <<t1>>, max |-> max, burst |-> FALSE,
   penalty |-> FALSE, dryRun |-> FALSE,
   offers |-> Counts(LimitCalls, offers), budget |-> Counts(LimitFaults, faults)]
LimitAll ==
  {Limit("sliding-window", 1, [check |-> 3, collect |-> 1], None),
   [Limit("fixed-window", 1, [check |-> 2, collect |-> 1], None) EXCEPT !.tiers = <<t1, t2>>],
   Limit("token-bucket", 2, [check |-> 4, collect |-> 1], None),
   [Limit("sliding-window", 1, [check |-> 2, reset |-> 1], None) EXCEPT !.tiers = <<t1, t2>>],
   [Limit("fixed-window", 1, [check |-> 1, ban |-> 1], None) EXCEPT !.tiers = <<t1, t2>>],
   [Limit("fixed-window", 1, [unban |-> 1, ban |-> 1, peek |-> 1], None) EXCEPT !.penalty = TRUE],
   [Limit("fixed-window", 1, [check |-> 3, collect |-> 1], None) EXCEPT !.penalty = TRUE],
   [Limit("sliding-window", 1, [check |-> 3], None) EXCEPT !.penalty = TRUE, !.dryRun = TRUE],
   [Limit("fixed-window", 1, [check |-> 4], None) EXCEPT !.burst = TRUE],
   Limit("sliding-window", 1, [check |-> 2], [lapse |-> 1]),
   Limit("sliding-window", 1, [check |-> 2, override |-> 1], [timeout |-> 1]),
   [Limit("sliding-window", 1, [check |-> 2], [crash |-> 1]) EXCEPT !.tiers = <<t1, t2>>],
   [Limit("sliding-window", 1, [check |-> 2], [fail |-> 1]) EXCEPT !.tiers = <<t1, t2>>]}

Hook(fleet, offers, faults) ==
  [fleet |-> fleet, concurrency |-> 1, shared |-> TRUE, reclaims |-> FALSE,
   offers |-> Counts(HookCalls, offers), budget |-> Counts(HookFaults, faults)]
HookSmall ==
  {Hook({n1}, [fire |-> 1], [retry |-> 1, refuse |-> 1]),
   Hook({n1}, [fire |-> 1, pause |-> 1, resume |-> 1], [retry |-> 1])}
HookAll == HookSmall \cup
  {Hook({n1, n2}, [fire |-> 2], [error |-> 1]),
   Hook({n1}, [fire |-> 2], [retry |-> 2, error |-> 1, refuse |-> 1]),
   [Hook({n1}, [fire |-> 2], [retry |-> 1]) EXCEPT !.shared = FALSE, !.concurrency = 2],
   Hook({n1}, [fire |-> 2, pause |-> 1, resume |-> 1], None),
   Hook({n1, n2}, [fire |-> 1], [lapse |-> 1]),
   [Hook({n1, n2}, [fire |-> 1], [crash |-> 1, retry |-> 1]) EXCEPT !.reclaims = TRUE],
   Hook({n1}, [fire |-> 1, cancel |-> 1, resend |-> 1], None),
   Hook({n1}, [fire |-> 1, resend |-> 1, disable |-> 1], [reject |-> 1]),
   Hook({n1, n2}, [fire |-> 1], [stop |-> 1, retry |-> 1])}

Topic(fleet, publishes, offers, faults) ==
  [fleet |-> fleet, groups |-> {g1}, joined |-> TRUE, fromHead |-> TRUE,
   keyed |-> FALSE, reclaims |-> FALSE, publishes |-> publishes,
   offers |-> Counts(TopicCalls, offers), budget |-> Counts(TopicFaults, faults)]
Unjoined(fleet, groups, publishes, offers) ==
  [Topic(fleet, publishes, offers, None) EXCEPT !.joined = FALSE, !.groups = groups]
TopicPaused == {Topic({n1}, 1, [pause |-> 1, resume |-> 1], None)}
TopicSmall ==
  {Topic({n1}, 1, None, [nack |-> 2, overdue |-> 1]),
   Topic({n1}, 1, None, [nack |-> 1, rescan |-> 1]),
   [Topic({n1, n2}, 1, None, [crash |-> 1]) EXCEPT !.reclaims = TRUE],
   Unjoined({n1}, {g1}, 1, [subscribe |-> 1])}
TopicAll == TopicPaused \cup TopicSmall \cup
  {Topic({n1}, 2, None, [nack |-> 1]),
   Topic({n1, n2}, 2, None, None),
   Topic({n1, n2}, 1, None, [overdue |-> 1, discard |-> 1, filter |-> 1]),
   [Topic({n1, n2}, 1, None, [crash |-> 1, nack |-> 1]) EXCEPT !.reclaims = TRUE],
   [Topic({n1}, 1, [subscribe |-> 1], [crash |-> 1, nack |-> 1]) EXCEPT !.reclaims = TRUE],
   Topic({n1}, 1, [revive |-> 1], [nack |-> 2]),
   Topic({n1}, 2, [pause |-> 1], None),
   Topic({n1}, 1, [earliest |-> 1], None),
   Topic({n1}, 1, [latest |-> 1], [expire |-> 1]),
   Topic({n1}, 1, [unsubscribe |-> 1, subscribe |-> 1], None),
   [Topic({n1}, 2, None, None) EXCEPT !.keyed = TRUE],
   Unjoined({n1, n2}, {g1}, 1, [subscribe |-> 2]),
   [Unjoined({n1}, {g1, g2}, 1, [subscribe |-> 2]) EXCEPT !.fromHead = FALSE],
   [Topic({n1}, 1, [subscribe |-> 1], [expire |-> 1]) EXCEPT !.joined = FALSE, !.fromHead = FALSE]}

BrokerOf(kind, strategy, callers, offers) ==
  [kind |-> kind, strategy |-> strategy, priced |-> strategy = "priority",
   callers |-> callers, offers |-> Counts(BrokerCalls, offers)]
BrokerAll ==
  {BrokerOf("memory", "fifo", {s1, s2}, [publish |-> 2, block |-> 2, nack |-> 1]),
   BrokerOf("memory", "lifo", {s1, s2},
     [publish |-> 1, later |-> 1, block |-> 1, claim |-> 1, defer |-> 1, remove |-> 1]),
   BrokerOf("memory", "priority", {s1, s2}, [publish |-> 2, later |-> 1, claim |-> 3, defer |-> 1]),
   BrokerOf("memory", "fifo", {s1},
     [publish |-> 1, block |-> 1, lapse |-> 1, pause |-> 1, resume |-> 1]),
   BrokerOf("redis", "fifo", {s1, s2}, [publish |-> 1, later |-> 1, claim |-> 2, block |-> 1]),
   BrokerOf("redis", "lifo", {s1, s2},
     [publish |-> 1, block |-> 2, nack |-> 1, pause |-> 1, resume |-> 1]),
   BrokerOf("redis", "priority", {s1, s2}, [publish |-> 1, later |-> 1, block |-> 2, defer |-> 1]),
   BrokerOf("redis", "fifo", {s1, s2}, [publish |-> 2, claim |-> 2, lapse |-> 1, remove |-> 1]),
   BrokerOf("postgres", "priority", {s1, s2},
     [publish |-> 1, later |-> 1, claim |-> 3, nack |-> 1, lapse |-> 1]),
   BrokerOf("postgres", "fifo", {s1, s2}, [publish |-> 2, claim |-> 3, defer |-> 1, remove |-> 1])}

Chain == (j2 :> {j1} @@ j3 :> {j2})
Fork == (j2 :> {j1} @@ j3 :> {j1})
Join == (j3 :> {j1, j2})
Pair == (j2 :> {j1})
Flow(todo, deps, offers) ==
  [todo |-> todo,
   spare |-> IF DOMAIN offers \cap {"retry", "rerun"} = {} THEN {} ELSE {j3},
   dependsOn |-> [j \in {j1, j2, j3} |-> IF j \in DOMAIN deps THEN deps[j] ELSE {}],
   later |-> {}, policy |-> "block", size |-> 2, retries |-> 0,
   engines |-> {n1}, results |-> {"ok"}, gated |-> FALSE, pruned |-> FALSE,
   held |-> FALSE, built |-> FALSE, offers |-> Counts(FlowCalls, offers)]
Built(deps, later, offers) ==
  [Flow({j1, j2, j3}, deps, offers) EXCEPT !.built = TRUE, !.later = later]
FlowAll ==
  {[Built(Fork, {j1}, None) EXCEPT !.engines = {n1, n2}],
   [Built(Join, {j1, j2}, None) EXCEPT !.engines = {n1, n2}],
   [Built(Chain, {}, [resume |-> 1])
      EXCEPT !.held = TRUE, !.policy = "cascade-fail", !.results = {"ok", "bad"}],
   [Built(Join, {}, [resume |-> 1])
      EXCEPT !.held = TRUE, !.policy = "ignore", !.results = {"ok", "bad"}, !.retries = 1],
   Flow({j1, j2, j3}, Join, [impatient |-> 1]),
   [Flow({j1, j2}, None, [pause |-> 1, publisherResume |-> 1]) EXCEPT !.gated = TRUE],
   [Flow({j1, j2}, Pair, [retry |-> 1, rerun |-> 1]) EXCEPT !.results = {"ok", "bad"}],
   [Flow({j1, j2}, Pair, None)
      EXCEPT !.results = {"ok", "bad", "drop"}, !.pruned = TRUE, !.retries = 1],
   [Flow({j1, j2}, None, [scan |-> 1]) EXCEPT !.engines = {n1, n2}]}

Of(mode) == [mode |-> mode, custom |-> FALSE, supplied |-> FALSE]
Supplied(mode) == [Of(mode) EXCEPT !.supplied = TRUE]
Made(mode) == [Of(mode) EXCEPT !.custom = TRUE]
KitOf(boots, offers, faults) ==
  [modules |-> <<m1, m2>>, flagged |-> {m1}, boots |-> boots,
   offers |-> Counts(KitCalls, offers), budget |-> Counts(KitFaults, faults)]
KitAll ==
  {KitOf(<<Of("hybrid-db"), Made("db")>>, [stop |-> 3], [job |-> 2]),
   KitOf(<<Of("db"), Supplied("redis"), Made("redis")>>, [stop |-> 3], [job |-> 1]),
   KitOf(<<Of("redis"), Of("default")>>, [stop |-> 2], [job |-> 2, timeout |-> 1, stopFails |-> 1]),
   KitOf(<<Of("hybrid-db"), Of("redis")>>, [stop |-> 2, reinit |-> 1], [boot |-> 1, module |-> 1]),
   KitOf(<<Made("hybrid-db")>>, [stop |-> 1, disable |-> 2, enable |-> 1], [job |-> 2]),
   KitOf(<<Of("redis"), Of("db")>>, [stop |-> 2, reinit |-> 1], [job |-> 1, module |-> 1]),
   KitOf(<<Of("redis"), Of("db")>>, [stop |-> 1, disable |-> 1, enable |-> 1], [job |-> 1, module |-> 1])}

StoreOf(adapter, offers, crashes) == [adapter |-> adapter, offers |-> Counts(StoreOps, offers), crashes |-> crashes]
StoreAll ==
  {StoreOf("redis", [insert |-> 2, delete |-> 1], 1),
   StoreOf("redis", [save |-> 2, prune |-> 1, increment |-> 1], 0),
   StoreOf("redis", [bulkSave |-> 1, bulkDelete |-> 1, update |-> 1, set |-> 1, prune |-> 1], 1),
   StoreOf("redis", [insert |-> 1, save |-> 1, prune |-> 1], 0),
   StoreOf("postgres", [insert |-> 2, save |-> 1, prune |-> 2], 0),
   StoreOf("postgres", [bulkSave |-> 1, bulkDelete |-> 1, increment |-> 2, set |-> 1, prune |-> 1], 0),
   StoreOf("memory", [save |-> 2, insert |-> 1, prune |-> 2, update |-> 1, increment |-> 1], 0)}

Req(verb, path) == [verb |-> verb, path |-> path, good |-> TRUE, body |-> TRUE]
Admin(verb, more) == Req(verb, <<"admin">> \o more)
Bare(req) == [req EXCEPT !.body = FALSE]
Open(req) == [req EXCEPT !.good = FALSE]
ApiOf(stored, off, requests, calls) ==
  [auth |-> FALSE, manager |-> TRUE, engines |-> {"queue", "batch", "hook"}, local |-> {q1},
   stored |-> stored, off |-> off, jobs |-> {}, fires |-> {}, maxHeld |-> 1,
   requests |-> requests, calls |-> calls, holds |-> 0, ends |-> 0, crashes |-> 0]
Both(family, name) == {Admin("POST", <<family, name, act>>) : act \in {"pause", "resume"}}
Switch(family, name) == {Admin("POST", <<family, name, act>>) : act \in {"enable", "disable"}}
Instance(type, name) == {Admin("POST", <<"instances", type, name, act>>) : act \in {"enable", "disable"}}
JobCalls(j) == {Admin(verb, <<"jobs", j, act>>) : verb \in {"GET", "POST"}, act \in {"retry", "rerun"}}
               \cup {Admin("DELETE", <<"jobs", j>>), Admin("POST", <<"jobs", j, "chain">>), Admin("GET", <<"jobs", j>>)}
ApiAll ==
  {[ApiOf({<<"queue", q1>>}, {<<"queue", q1>>}, Both("queues", q1), 3) EXCEPT !.holds = 2],
   [ApiOf({<<"queue", q1>>}, {}, Both("queues", q1), 3) EXCEPT !.engines = {}, !.holds = 1, !.crashes = 1],
   [ApiOf({}, {}, Both("webhooks", q1) \cup Instance("task", q1), 2) EXCEPT !.holds = 2],
   [ApiOf({<<"batch", q1>>, <<"batch", q2>>}, {<<"batch", q1>>},
          Both("batches", q1) \cup Both("batches", q2) \cup Instance("batch", q1), 3) EXCEPT !.crashes = 1],
   [ApiOf({<<"batch", q2>>}, {}, Both("batches", q2), 2) EXCEPT !.engines = {}],
   [ApiOf({<<"cron", q1>>, <<"schedule", q2>>}, {<<"cron", q1>>},
          Instance("cron", q1) \cup Instance("cron", q2) \cup Instance("schedule", q1), 2) EXCEPT !.holds = 1],
   ApiOf({<<"limit", q1>>, <<"cache", q1>>, <<"module", q1>>}, {<<"cache", q1>>},
         Switch("ratelimiters", q1) \cup Switch("caches", q1) \cup Switch("modules", q1)
         \cup Switch("modules", q2) \cup Instance("ratelimit", q1), 3),
   [ApiOf({}, {}, JobCalls(j1) \cup {Admin("POST", <<"queues", q1, "retry-failed">>),
                                     Admin("POST", <<"webhooks", "jobs", j2, "resend">>)}, 2)
      EXCEPT !.jobs = {j1, j2}, !.ends = 2],
   [ApiOf({<<"cron", q1>>}, {}, JobCalls(j1) \cup {Req("POST", <<"jobs", q1>>), Req("POST", <<"jobs", q2>>)}, 2)
      EXCEPT !.jobs = {j1}, !.fires = {j1}, !.ends = 1],
   ApiOf({<<"limit", q1>>}, {},
     {Admin("POST", <<"ratelimiters", q1, "keys", q2, act>>) : act \in {"reset", "ban", "unban", "override"}}
     \cup {Admin("DELETE", <<"ratelimiters", q1, "keys", q2, "override">>),
           Bare(Admin("POST", <<"ratelimiters", q1, "keys", q2, "override">>)),
           Admin("POST", <<"caches", q1, "clear">>), Admin("POST", <<"caches", q2, "clear">>),
           Bare(Admin("POST", <<"caches", q1, "tags", "invalidate">>)),
           Admin("POST", <<"caches", q1, "keys", q2, "invalidate">>)}, 3),
   [ApiOf({<<"cron", q1>>}, {}, {Open(req) : req \in JobCalls(j1) \cup Instance("cron", q1)}
         \cup {Admin("POST", <<"jobs", j1, "retry">>), Open(Req("GET", <<"health">>)), Req("GET", <<"events">>)}, 2)
      EXCEPT !.jobs = {j1}, !.auth = TRUE, !.ends = 1],
   [ApiOf({<<"cron", q1>>}, {}, JobCalls(j1) \cup Instance("cron", q1), 2)
      EXCEPT !.jobs = {j1}, !.manager = FALSE, !.ends = 1]}

Seen(engine, retries, stalls, toggles, resets) ==
  [engine |-> engine, listening |-> TRUE, retries |-> retries, stalls |-> stalls,
   toggles |-> toggles, resets |-> resets]
SeenAll == {Seen("queue", 1, 1, 0, 0), Seen("worker", 0, 0, 0, 1), Seen("schedule", 0, 0, 1, 0), Seen("queue", 0, 0, 2, 0),
  [Seen("queue", 0, 0, 1, 0) EXCEPT !.listening = FALSE]}

BoxAll ==
  {[endings |-> {"result", "throw", "crash", "exit 0", "exit 1", "hang"}, lingers |-> l, runs |-> 2] :
     l \in BOOLEAN}

NoSettings == {}
=============================================================================
