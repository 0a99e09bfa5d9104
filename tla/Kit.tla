---------------------------------- MODULE Kit ----------------------------------
(***************************************************************************)
(* OqronKit.init() and stop() in one process: the adapters and connections *)
(* of each storage mode and who owns them, the container and the registry, *)
(* booting module by module, enabling and disabling modules, and the       *)
(* shutdown with its drain and its timeout.  An init() is called when no   *)
(* other call is under way, a stop() may overlap another (two signals).    *)
(***************************************************************************)
EXTENDS Naturals, FiniteSets, SequencesExt

CONSTANTS
  Names,    \* modules of the configuration
  Callers,  \* of stop(): the application and signals
  MaxBoots, \* bound on calls of init()
  Settings  \* configurations, calls and faults to explore

Boots == 1..MaxBoots
Calls == {"stop", "disable", "enable", "reinit"}
Faults == {"boot", "module", "stopFails", "timeout", "job"}
Modes == {"default", "db", "redis", "hybrid-db"}

Assumption ==
  /\ MaxBoots \in Nat
  /\ \A s \in Settings : Len(s.boots) <= MaxBoots
  /\ Settings \subseteq
       [modules : Seq(Names), \* in order
        flagged : SUBSET Names, \* disable() sets the flag and stops nothing: queue, worker, webhook
        boots : Seq([mode : Modes,
                     custom : BOOLEAN,  \* the caller creates the adapters: mode "custom"
                     supplied : BOOLEAN]), \* the Redis client is the caller's own
        offers : [Calls -> Nat], budget : [Faults -> Nat]]

VARIABLES
  setting,   \* the member of Settings in force, offers and budget counting down
  config,    \* _config: the boot it came from, 0 for null
  client,    \* _redisClient
  owned,     \* _redisClientOwned
  pools,     \* _pgAdapters
  container, \* the boot whose adapters OqronContainer holds, 0 when it is reset
  open,      \* connections open
  registry,  \* OqronRegistry: module instances in order
  module,    \* of each boot and name: phase, enabled, busy with a job of which container
  signals,   \* signal handlers are installed
  telemetry, \* TelemetryManager listens
  boot,      \* the init() under way
  halt,      \* the stop() each caller is in
  gaveUp,    \* history: instances a stop() did not wait for: timeout or a failure
  skipped,   \* history: instances a stop() passed over, being disabled, or that were enabled under it
  orphaned   \* history: connections an init() on top of another let go of

vars == <<setting, config, client, owned, pools, container, open, registry, module,
          signals, telemetry, boot, halt, gaveUp, skipped, orphaned>>

NoConn == <<0, "none">>
Parts == {"storage", "broker", "lock", "redis"}
Conns == ((0..MaxBoots) \X Parts)
Instances == Boots \X Names
Unborn == [phase |-> "new", enabled |-> TRUE, busy |-> FALSE, at |-> 0]
NoBoot == [pc |-> "idle", k |-> 0, left |-> <<>>]
NoHalt == [pc |-> "idle", waits |-> {}, failed |-> FALSE, left |-> {}]

TypeOK ==
  /\ config \in 0..MaxBoots /\ client \in Conns \cup {NoConn} /\ owned \in BOOLEAN
  /\ pools \subseteq Conns /\ container \in 0..MaxBoots /\ open \subseteq Conns
  /\ ToSet(registry) \subseteq Instances /\ signals \in BOOLEAN /\ telemetry \in BOOLEAN
  /\ module \in [Instances -> [phase : {"new", "ready", "running", "stopping", "stopped"},
                               enabled : BOOLEAN, busy : BOOLEAN, at : 0..MaxBoots]]
  /\ boot.pc \in {"idle", "adapters", "engine", "register", "init", "start", "wire"}
  /\ \A h \in Callers : /\ halt[h].pc \in {"idle", "drain", "pools", "quit"}
                        /\ halt[h].waits \subseteq Instances /\ halt[h].left \subseteq Conns
  /\ gaveUp \subseteq Instances /\ skipped \subseteq Instances /\ orphaned \subseteq Conns

InitWith(settings) ==
  /\ setting \in settings
  /\ config = 0 /\ client = NoConn /\ owned = FALSE /\ pools = {} /\ container = 0
  /\ open = {<<0, "redis">>} /\ registry = <<>> /\ module = [i \in Instances |-> Unborn]
  /\ signals = FALSE /\ telemetry = FALSE /\ boot = NoBoot
  /\ halt = [h \in Callers |-> NoHalt] /\ gaveUp = {} /\ skipped = {} /\ orphaned = {}
Init == InitWith(Settings)

Offered(call) ==
  setting.offers[call] > 0 /\ setting' = [setting EXCEPT !.offers[call] = @ - 1]
Suffered(fault) ==
  setting.budget[fault] > 0 /\ setting' = [setting EXCEPT !.budget[fault] = @ - 1]
Engine == <<client, owned, pools, container, open>>
Process == <<config, registry, signals, telemetry>>
Histories == <<gaveUp, skipped, orphaned>>

-----------------------------------------------------------------------------
(* The connections of a mode: Postgres pools, one per adapter, and one      *)
(* Redis client, created from a URL or handed in by the caller.             *)
Choice(k) == setting.boots[k]
Pooled(k) ==
  {k} \X (IF Choice(k).mode = "db" THEN {"storage", "broker", "lock"}
          ELSE IF Choice(k).mode = "hybrid-db" THEN {"storage"} ELSE {})
Redis(k) ==
  IF Choice(k).mode \notin {"redis", "hybrid-db"} THEN NoConn
  ELSE IF Choice(k).supplied THEN <<0, "redis">> ELSE <<k, "redis">>
Uses(k) == (Pooled(k) \cup {Redis(k)}) \ {NoConn}
Created(k) == Uses(k) \ {<<0, "redis">>}

(* createAdapters() by the caller, and the close() it returns: it quits the *)
(* client only when the factory created it.                                 *)
CreateAdapters ==
  /\ boot.pc = "adapters"
  /\ open' = open \cup Created(boot.k)
  /\ boot' = [boot EXCEPT !.pc = "engine"]
  /\ UNCHANGED <<setting, client, owned, pools, container, Process, module, halt, Histories>>
CloseAdapters(k) ==
  /\ k \in 1..Len(setting.boots) /\ Choice(k).custom /\ Created(k) \cap open # {}
  /\ boot.pc = "idle" /\ container = 0 /\ \A h \in Callers : halt[h].pc = "idle"
  /\ open' = open \ Created(k)
  /\ UNCHANGED <<setting, client, owned, pools, container, Process, module, boot, halt, Histories>>

(* init(): the configuration, then initEngine.  Calling it again without a  *)
(* stop() is what a caller does after an init() that failed.                *)
Begin ==
  /\ boot.pc = "idle" /\ boot.k < Len(setting.boots)
  /\ \A h \in Callers : halt[h].pc = "idle"
  /\ IF config = 0 THEN UNCHANGED setting ELSE Offered("reinit")
  /\ config' = boot.k + 1
  /\ boot' = [pc |-> IF Choice(boot.k + 1).custom THEN "adapters" ELSE "engine",
              k |-> boot.k + 1, left |-> setting.modules]
  /\ UNCHANGED <<Engine, registry, signals, telemetry, module, halt, Histories>>

Held == pools \cup (IF owned THEN {client} ELSE {})
BootEngine ==
  /\ boot.pc = "engine" /\ UNCHANGED setting
  /\ IF Choice(boot.k).custom
     THEN UNCHANGED <<client, owned, pools, open, orphaned>>
     ELSE /\ client' = Redis(boot.k)
          /\ owned' = (Redis(boot.k) # NoConn /\ ~Choice(boot.k).supplied)
          /\ pools' = Pooled(boot.k)
          /\ open' = open \cup Created(boot.k)
          /\ orphaned' = orphaned \cup Held
  /\ container' = boot.k
  /\ signals' = TRUE
  /\ boot' = [boot EXCEPT !.pc = "register"]
  /\ UNCHANGED <<config, registry, telemetry, module, halt, gaveUp, skipped>>
BootFails ==
  /\ boot.pc = "engine" /\ Suffered("boot")
  /\ boot' = [boot EXCEPT !.pc = "idle"]
  /\ UNCHANGED <<Engine, Process, module, halt, Histories>>

(* A module is created and registered per definition; a name that is        *)
(* already in the registry ends the init().                                 *)
Registered(n) == \E i \in ToSet(registry) : i[2] = n
Register ==
  /\ boot.pc = "register" /\ UNCHANGED setting
  /\ IF boot.left = <<>>
     THEN boot' = [boot EXCEPT !.pc = "init", !.left = registry] /\ UNCHANGED registry
     ELSE IF Registered(Head(boot.left))
     THEN boot' = [boot EXCEPT !.pc = "idle"] /\ UNCHANGED registry
     ELSE /\ registry' = Append(registry, <<boot.k, Head(boot.left)>>)
          /\ boot' = [boot EXCEPT !.left = Tail(@)]
  /\ UNCHANGED <<Engine, config, signals, telemetry, module, halt, Histories>>

(* mod.init() of every module, then mod.start() of every module; one that   *)
(* throws leaves the others as they are.  init() stops no loop that an      *)
(* enable() has started.                                                    *)
Awake(i) == module[i].phase \in {"running", "stopping"}
Moves(i, phase) == phase = "running" \/ ~Awake(i)
Bring(from, phase, then) ==
  /\ boot.pc = from
  /\ IF boot.left = <<>>
     THEN /\ boot' = [boot EXCEPT !.pc = then, !.left = registry]
          /\ UNCHANGED module
     ELSE /\ boot' = [boot EXCEPT !.left = Tail(@)]
          /\ module' = IF module[Head(boot.left)].enabled /\ Moves(Head(boot.left), phase)
                       THEN [module EXCEPT ![Head(boot.left)].phase = phase] ELSE module
  /\ UNCHANGED <<setting, Engine, Process, halt, Histories>>
InitModules == Bring("init", "ready", "start")
StartModules == Bring("start", "running", "wire")
ModuleFails ==
  /\ boot.pc \in {"init", "start"} /\ boot.left # <<>> /\ Suffered("module")
  /\ boot' = [boot EXCEPT !.pc = "idle"]
  /\ UNCHANGED <<Engine, Process, module, halt, Histories>>
Wire ==
  /\ boot.pc = "wire"
  /\ telemetry' = TRUE
  /\ boot' = [boot EXCEPT !.pc = "idle"]
  /\ UNCHANGED <<setting, Engine, config, registry, signals, module, halt, Histories>>

-----------------------------------------------------------------------------
(* A module at work: a job is claimed, and settled, through whatever the    *)
(* container holds at that moment.                                          *)
TakeJob(i) ==
  /\ i \in ToSet(registry) /\ module[i].phase = "running" /\ module[i].enabled
  /\ ~module[i].busy /\ container # 0 /\ Suffered("job")
  /\ module' = [module EXCEPT ![i].busy = TRUE, ![i].at = container]
  /\ UNCHANGED <<Engine, Process, boot, halt, Histories>>
JobEnds(i) ==
  /\ module[i].busy
  /\ module' = [module EXCEPT ![i].busy = FALSE, ![i].at = 0]
  /\ UNCHANGED <<setting, Engine, Process, boot, halt, Histories>>

(* enableModule and disableModule of the manager.                           *)
Disable(i) ==
  /\ i \in ToSet(registry) /\ module[i].enabled /\ Offered("disable")
  /\ module' = [module EXCEPT ![i].enabled = FALSE,
                              ![i].phase = IF i[2] \notin setting.flagged /\ @ = "running"
                                           THEN "stopping" ELSE @]
  /\ UNCHANGED <<Engine, Process, boot, halt, Histories>>
Enable(i) ==
  /\ i \in ToSet(registry) /\ ~module[i].enabled /\ Offered("enable")
  /\ module' = [module EXCEPT ![i].enabled = TRUE, ![i].phase = "running"]
  /\ skipped' = IF \E h \in Callers : halt[h].pc # "idle" THEN skipped \cup {i} ELSE skipped
  /\ UNCHANGED <<Engine, Process, boot, halt, gaveUp, orphaned>>

-----------------------------------------------------------------------------
(* stop(): every enabled module stops; disabled ones are passed over.       *)
Asked(i) == module[i].enabled
Stop(h) ==
  /\ boot.pc = "idle" /\ boot.k > 0 /\ halt[h].pc = "idle" /\ Offered("stop")
  /\ LET stops == {i \in ToSet(registry) : Asked(i) /\ Awake(i)} IN
     /\ module' = [i \in Instances |->
                     IF i \in stops THEN [module[i] EXCEPT !.phase = "stopping"] ELSE module[i]]
     /\ halt' = [halt EXCEPT ![h] = [NoHalt EXCEPT !.pc = "drain", !.waits = stops]]
     /\ skipped' = skipped \cup {i \in ToSet(registry) : ~module[i].enabled}
  /\ UNCHANGED <<Engine, Process, boot, gaveUp, orphaned>>

(* A module's stop() drains its job, gives up on it after its own timeout,  *)
(* or rejects, which ends the wait for all the others.                      *)
Drained(i) ==
  /\ module[i].phase = "stopping" /\ ~module[i].busy
  /\ module' = [module EXCEPT ![i].phase = "stopped"]
  /\ UNCHANGED <<setting, Engine, Process, boot, halt, Histories>>
DrainLapses(i) ==
  /\ module[i].phase = "stopping" /\ module[i].busy /\ Suffered("timeout")
  /\ module' = [module EXCEPT ![i].phase = "stopped"]
  /\ gaveUp' = gaveUp \cup {i}
  /\ UNCHANGED <<Engine, Process, boot, halt, skipped, orphaned>>
StopFails(i) ==
  /\ module[i].phase = "stopping" /\ Suffered("stopFails")
  /\ module' = [module EXCEPT ![i].phase = "stopped"]
  /\ halt' = [h \in Callers |-> IF i \in halt[h].waits
                                THEN [halt[h] EXCEPT !.failed = TRUE] ELSE halt[h]]
  /\ gaveUp' = gaveUp \cup {i}
  /\ UNCHANGED <<Engine, Process, boot, skipped, orphaned>>

(* The race of the drain with the shutdown timeout, then stopEngine.        *)
WaitedAny(h) == \* Mutant: one module that has stopped ends the wait.
  halt[h].waits = {} \/ \E i \in halt[h].waits : module[i].phase # "stopping"
Waited(h) == halt[h].failed \/ \A i \in halt[h].waits : module[i].phase # "stopping"
StopEngine(h) ==
  /\ telemetry' = FALSE
  /\ halt' = [halt EXCEPT ![h].pc = "pools", ![h].left = pools]
  /\ UNCHANGED <<Engine, config, registry, signals, module, boot, skipped, orphaned>>
Undrained(h) == {i \in halt[h].waits : module[i].phase = "stopping"}
Proceed(h) ==
  /\ halt[h].pc = "drain" /\ Waited(h) /\ UNCHANGED setting /\ StopEngine(h)
  /\ gaveUp' = IF halt[h].failed THEN gaveUp \cup Undrained(h) ELSE gaveUp
ShutdownTimeout(h) ==
  /\ halt[h].pc = "drain" /\ ~Waited(h) /\ Suffered("timeout") /\ StopEngine(h)
  /\ gaveUp' = gaveUp \cup Undrained(h)
ClosePool(h) ==
  /\ halt[h].pc = "pools" /\ halt[h].left # {}
  /\ \E c \in halt[h].left :
       open' = open \ {c} /\ halt' = [halt EXCEPT ![h].left = @ \ {c}]
  /\ UNCHANGED <<setting, client, owned, pools, container, Process, module, boot, Histories>>
Quit(h) ==
  /\ halt[h].pc = "pools" /\ halt[h].left = {}
  /\ pools' = {}
  /\ open' = IF owned THEN open \ {client} ELSE open
  /\ halt' = [halt EXCEPT ![h].pc = "quit"]
  /\ UNCHANGED <<setting, client, owned, container, Process, module, boot, Histories>>
Finish(h) ==
  /\ halt[h].pc = "quit"
  /\ client' = NoConn /\ owned' = FALSE /\ container' = 0
  /\ registry' = <<>> /\ signals' = FALSE /\ config' = 0
  /\ halt' = [halt EXCEPT ![h] = NoHalt]
  /\ UNCHANGED <<setting, pools, open, telemetry, module, boot, Histories>>

Next ==
  \/ Begin \/ CreateAdapters \/ BootEngine \/ BootFails \/ Register
  \/ InitModules \/ StartModules \/ ModuleFails \/ Wire
  \/ \E k \in Boots : CloseAdapters(k)
  \/ \E i \in Instances :
       \/ TakeJob(i) \/ JobEnds(i) \/ Disable(i) \/ Enable(i)
       \/ Drained(i) \/ DrainLapses(i) \/ StopFails(i)
  \/ \E h \in Callers :
       \/ Stop(h) \/ Proceed(h) \/ ShutdownTimeout(h) \/ ClosePool(h) \/ Quit(h) \/ Finish(h)

Spec == Init /\ [][Next]_vars

-----------------------------------------------------------------------------
(* Down: no call is under way and the container is reset.                   *)
Down == boot.pc = "idle" /\ container = 0 /\ \A h \in Callers : halt[h].pc = "idle"

(* Once a stop() is over, also one after an init() that failed half way,    *)
(* the process holds no connection init() made, no module of it works on,   *)
(* nothing is registered, and the client the caller supplied is still open. *)
(* Excused: what a later init() dropped, what was given up or disabled.     *)
StoppedIsQuiet ==
  Down =>
    /\ \A c \in open : \/ c[1] = 0 \/ c \in orphaned \/ Choice(c[1]).custom
    /\ <<0, "redis">> \in open
    /\ registry = <<>> /\ ~telemetry /\ ~signals /\ pools = {} /\ client = NoConn
    /\ \A i \in Instances : Awake(i) => i \in skipped \cup gaveUp

(* The adapters outlive the jobs: while a job runs, the container it was    *)
(* claimed from, or one that an init() on top of it put in its place, is    *)
(* there and the connections of both are open, unless stop() gave the       *)
(* module up or passed it over.                                             *)
Attached(i) ==
  module[i].busy =>
    container >= module[i].at /\ Uses(module[i].at) \cup Uses(container) \subseteq open
DrainedBeforeClose == \A i \in Instances \ (gaveUp \cup skipped) : Attached(i)

(* "Waits for active jobs to drain" (crash-safety.mdx), for every module,   *)
(* disabled or not, that did not run into a timeout or fail to stop.        *)
EveryDrainIsAwaited == \A i \in Instances \ gaveUp : Attached(i)

(* stop() leaves nothing behind and closes nothing under a running job.     *)
StopIsOrderly == StoppedIsQuiet /\ DrainedBeforeClose
=============================================================================
