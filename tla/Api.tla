---------------------------------- MODULE Api ----------------------------------
(***************************************************************************)
(* The monitoring API: dispatch() and its handlers, the manager behind     *)
(* them, and the calls that hold jobs of a disabled instance.  A call runs *)
(* step by step, one per await; other calls run in between.                *)
(***************************************************************************)
EXTENDS Naturals, FiniteSets, SequencesExt

CONSTANTS
  Names,    \* of queues, schedules, limiters, caches, batches, dispatchers, modules
  Jobs,     \* ids, of jobs and of the copies made of them
  Callers,  \* calls that may be under way at once
  NoOne,
  Settings  \* configuration, requests and faults to explore

Kinds == {"queue", "batch", "hook", "limit", "cache", "cron", "schedule", "module"}
Verbs == {"GET", "POST", "DELETE"}
Statuses == {"none", "waiting", "failed", "completed", "cancelled", "gone"}

Assumption ==
  /\ NoOne \notin Names \cup Jobs
  /\ \A s \in Settings :
       /\ s.auth \in BOOLEAN       \* ui.auth is configured
       /\ s.manager \in BOOLEAN    \* configureHandlers() was given the configuration
       /\ s.engines \subseteq {"queue", "batch", "hook"} \* modules of this process
       /\ s.local \subseteq Names  \* defined in this process
       /\ s.stored \subseteq Kinds \X Names \* instance records at the start
       /\ s.off \subseteq s.stored \* of these, disabled or paused
       /\ s.jobs \subseteq Jobs /\ s.fires \subseteq s.jobs \* stored; runs of a schedule
       /\ s.maxHeld \in Nat \ {0}
       /\ \A req \in s.requests :
            /\ req.verb \in Verbs /\ req.good \in BOOLEAN \* credentials
            /\ req.body \in BOOLEAN                       \* with the field it asks for
       /\ {s.calls, s.holds, s.ends, s.crashes} \subseteq Nat \* bounds

VARIABLES
  setting, \* the member of Settings in force, calls, holds, ends, crashes counting down
  record,  \* instance records: enabled or not, as every process reads them
  paused,  \* names the engines of this process keep as paused
  gate,    \* queues the broker has paused
  held,    \* jobs of each instance held while it is off, oldest first, numbered
  born,    \* number of the last one
  status, from, queued, \* jobs: status, retriedFromId, ids published
  fired,   \* manual triggers
  keyed,   \* limiter and cache names with a ban, an override, cached entries
  call,    \* calls under way
  asked,   \* history: what the last 200 for an instance asked
  muddled  \* history: instances two calls met at, or a crash

vars == <<setting, record, paused, gate, held, born, status, from, queued, fired, keyed,
          call, asked, muddled>>

Targets == Kinds \X Names
Gated == {"queue", "batch", "hook"}
NoTarget == <<"module", NoOne>>
NoRequest == [verb |-> "GET", path |-> <<>>, good |-> FALSE, body |-> FALSE]
NoCall == [todo |-> <<>>, req |-> NoRequest, target |-> NoTarget, on |-> FALSE,
           jobs |-> <<>>, seen |-> "none", copy |-> NoOne]
Steps == {"read", "save", "gate", "release", "copy", "publish", "cancel", "fire", "key",
          "hold", "prune"}

TypeOK ==
  /\ record \in [Targets -> {"none", "on", "off"}] /\ gate \subseteq Targets
  /\ paused \subseteq Targets /\ DOMAIN held = Targets /\ queued \subseteq Jobs
  /\ status \in [Jobs -> Statuses] /\ from \in [Jobs -> Jobs \cup {NoOne}]
  /\ asked \in [Targets -> {"none", "on", "off"}] /\ muddled \subseteq Targets
  /\ \A s \in Callers : /\ ToSet(call[s].todo) \subseteq Steps
                        /\ call[s].target \in Targets \cup {NoTarget}

InitWith(settings) ==
  /\ setting \in settings
  /\ record = [t \in Targets |-> IF t \notin setting.stored THEN "none"
                                 ELSE IF t \in setting.off THEN "off" ELSE "on"]
  /\ gate = {t \in setting.off : t[1] \in Gated} /\ paused = gate
  /\ held = [t \in Targets |-> <<>>] /\ born = 0
  /\ status = [j \in Jobs |-> IF j \in setting.jobs THEN "waiting" ELSE "none"]
  /\ from = [j \in Jobs |-> NoOne] /\ queued = setting.jobs /\ fired = 0
  /\ keyed = {} /\ call = [s \in Callers |-> NoCall]
  /\ asked = [t \in Targets |-> "none"] /\ muddled = {}
Init == InitWith(Settings)

-----------------------------------------------------------------------------
(* The routes, by verbs and segments of the path; no two overlap.           *)
Segment == Names \cup Jobs
Route(verbs, path, to) == [verbs |-> verbs, path |-> path, to |-> to]
Get == {"GET"}
Post == {"POST"}
Under(kind, more) == <<{"admin"}, {kind}, Segment>> \o more
CoreRoutes ==
  {Route(Get, <<{"events"}>>, "events"), Route(Post, <<{"jobs"}, Segment>>, "trigger"),
   Route(Get, <<{"admin"}, {"system", "jobs", "schedules", "ratelimiters", "batches",
                            "caches", "webhooks"}>>, "look")}
JobRoutes ==
  {Route(Verbs, Under("queues", <<>>), "look"),
   Route(Post, Under("queues", <<{"pause", "resume"}>>), "toggle"),
   Route(Post, Under("queues", <<{"retry-failed"}>>), "retryAll"),
   Route(Post, Under("modules", <<{"enable", "disable"}>>), "toggle"),
   Route(Post, <<{"admin"}, {"instances"}, Kinds \cup {"task", "ratelimit"}, Segment,
                 {"enable", "disable"}>>, "toggle"),
   Route(Get, Under("schedules", <<>>), "look"),
   Route(Get, Under("schedules", <<{"history"}>>), "look"),
   Route(Verbs, Under("jobs", <<>>), "job"),
   Route(Verbs, Under("jobs", <<{"retry", "rerun", "chain"}>>), "job")}
LimiterRoutes ==
  {Route(Get, Under("ratelimiters", <<>>), "look"),
   Route(Get, Under("ratelimiters", <<{"events", "snapshot"}>>), "look"),
   Route(Get, Under("ratelimiters", <<{"keys"}, Segment>>), "look"),
   Route(Post, Under("ratelimiters", <<{"enable", "disable"}>>), "toggle"),
   Route(Post, Under("ratelimiters", <<{"keys"}, Segment, {"reset", "ban", "unban", "override"}>>), "key"),
   Route({"DELETE"}, Under("ratelimiters", <<{"keys"}, Segment, {"override"}>>), "key")}
InstanceRoutes ==
  {Route(Post, Under("batches", <<{"pause", "resume", "drain"}>>), "toggle"),
   Route(Get, Under("batches", <<>>), "look"),
   Route(Get, Under("caches", <<{"stats", "snapshot"}>>), "look"),
   Route(Post, Under("caches", <<{"enable", "disable"}>>), "toggle"),
   Route(Post, Under("caches", <<{"clear"}>>), "key"),
   Route(Post, Under("caches", <<{"keys"}, Segment, {"invalidate"}>>), "key"),
   Route(Post, Under("caches", <<{"prefix", "tags"}, {"invalidate"}>>), "key"),
   Route(Get, Under("caches", <<>>), "look"), Route(Get, Under("webhooks", <<>>), "look"),
   Route(Get, Under("webhooks", <<{"deliveries"}>>), "look"),
   Route(Post, Under("webhooks", <<{"pause", "resume"}>>), "toggle"),
   Route(Post, <<{"admin"}, {"webhooks"}, {"jobs"}, Segment, {"resend"}>>, "resend")}
Routes == CoreRoutes \cup JobRoutes \cup LimiterRoutes \cup InstanceRoutes
Fits(route, req) ==
  /\ req.verb \in route.verbs /\ Len(req.path) = Len(route.path)
  /\ \A i \in DOMAIN req.path : req.path[i] \in route.path[i]

(* The instance a toggle is about. A schedule is looked up in both          *)
(* namespaces; "task" is a queue.                                           *)
KindOf(word) ==
  CASE word \in {"queues", "task"} -> "queue" [] word = "batches" -> "batch"
    [] word = "webhooks" -> "hook" [] word \in {"ratelimiters", "ratelimit"} -> "limit"
    [] word = "caches" -> "cache" [] word = "modules" -> "module" [] OTHER -> word
Named(path) ==
  IF path[2] = "instances" THEN <<KindOf(path[3]), path[4]>> ELSE <<KindOf(path[2]), path[3]>>
Twin(t) == <<IF t[1] = "cron" THEN "schedule" ELSE "cron", t[2]>>
Found(t) ==
  IF t[1] \in {"cron", "schedule"} /\ record[t] = "none" THEN Twin(t) ELSE t

(* GET before the action, the action before DELETE.                         *)
JobOrder(req) ==
  LET act == Last(req.path)
  IN IF req.verb = "GET" \/ act = "chain" THEN "look"
     ELSE IF act \in {"retry", "rerun"} THEN act
     ELSE IF req.verb = "DELETE" THEN "cancel" ELSE "look"

(* dispatch(): health, then credentials, then the route, then the manager.  *)
Authorized(req) == setting.auth => req.good
Dispatched(req) ==
  LET route == CHOOSE r \in Routes : Fits(r, req)
  IN IF ~Authorized(req) \/ ~\E r \in Routes : Fits(r, req) THEN "refused"
     ELSE IF route.to \in {"events", "trigger"} THEN route.to
     ELSE IF ~setting.manager THEN "refused"
     ELSE IF route.to = "job" THEN JobOrder(req) ELSE route.to

-----------------------------------------------------------------------------
(* What is left to do once the handler has read what it needs: the steps of *)
(* enableInstance and the engines' pause and resume.                        *)
Toggled(t, on) ==
  CASE t[1] = "queue" /\ on /\ "queue" \in setting.engines -> <<"save", "release", "gate">>
    [] t[1] = "hook" /\ on -> <<"save", "gate", "release">>
    [] t[1] = "batch" /\ "batch" \in setting.engines -> <<"gate", "save">>
    [] t[1] \in Gated -> <<"save", "gate">>
    [] t[1] \in {"cron", "schedule"} /\ on -> <<"save", "release">>
    [] OTHER -> <<"save">>
(* Unknown names: a queue or dispatcher gets a record, the others a 404.    *)
Known(t) ==
  CASE t[1] = "queue" -> TRUE
    [] t[1] = "hook" -> "hook" \in setting.engines
    [] t[1] = "batch" /\ "batch" \in setting.engines -> t[2] \in setting.local
    [] OTHER -> record[t] # "none"

Looks == {"refused", "events", "look"} \* they change nothing
Busy(t) == \E s \in Callers : call[s].target = t
Receive(s, req) ==
  LET to == Dispatched(req)
      here == IF to = "toggle" THEN Named(req.path) ELSE NoTarget
      failed == {j \in Jobs : status[j] = "failed"}
      begin == [NoCall EXCEPT !.req = req, !.target = here,
                              !.on = (Last(req.path) \in {"enable", "resume"})]
  IN /\ call[s] = NoCall /\ setting.calls > 0
     /\ setting' = [setting EXCEPT !.calls = @ - 1]
     /\ CASE to \in Looks -> UNCHANGED call
          [] to = "toggle" -> call' = [call EXCEPT ![s] = [begin EXCEPT !.todo = <<"read">>]]
          [] to \in {"retry", "rerun", "cancel", "resend"} ->
               call' = [call EXCEPT ![s] =
                 [begin EXCEPT !.todo = <<"read", IF to = "cancel" THEN to ELSE "copy">>,
                               !.jobs = SelectSeq(req.path, LAMBDA word : word \in Jobs)]]
          [] to = "retryAll" -> call' = [call EXCEPT ![s] =
                 [begin EXCEPT !.jobs = SetToSeq(failed),
                               !.todo = IF failed = {} THEN <<>> ELSE <<"read", "copy">>]]
          [] to = "trigger" -> call' = [call EXCEPT ![s] = [begin EXCEPT !.todo = <<"fire">>]]
          [] to = "key" -> call' = [call EXCEPT ![s] = [begin EXCEPT !.todo = <<"key">>]]
     /\ muddled' = IF to = "toggle" /\ Busy(here) THEN muddled \cup {here} ELSE muddled
     /\ UNCHANGED <<record, paused, gate, held, born, status, from, queued, fired, keyed, asked>>

Proceed(s) == [call EXCEPT ![s] = IF Len(@.todo) = 1 THEN NoCall ELSE [@ EXCEPT !.todo = Tail(@)]]
At(s, step) == call[s].todo # <<>> /\ Head(call[s].todo) = step /\ UNCHANGED setting
Answered(s) == Len(call[s].todo) = 1

(* The handler's first await: a record or a job is read. Engines mark the   *)
(* name paused before they write anything.                                  *)
ReadTarget(s) ==
  LET c == call[s] t == Found(c.target)
  IN /\ At(s, "read") /\ c.target # NoTarget
     /\ IF Known(t)
        THEN /\ call' = [call EXCEPT ![s].target = t, ![s].todo = Toggled(t, c.on)]
             /\ paused' = IF t[1] \notin setting.engines THEN paused
                          ELSE IF c.on THEN paused \ {t} ELSE paused \cup {t}
             /\ muddled' = IF \E o \in Callers \ {s} : call[o].target = t
                           THEN muddled \cup {t} ELSE muddled
        ELSE call' = [call EXCEPT ![s] = NoCall] /\ UNCHANGED <<paused, muddled>>
     /\ UNCHANGED <<record, gate, held, born, status, from, queued, fired, keyed, asked>>
Stored(j) == status[j] \notin {"none", "gone"}
Resent(s) == Last(call[s].req.path) = "resend"
Rerun(s) == Last(call[s].req.path) = "rerun"
Retriable(s, j) ==
  IF Rerun(s) THEN Stored(j)
  ELSE status[j] = "failed" /\ (Resent(s) => "hook" \in setting.engines)
NextJob(s) == \* the loop of retryAllFailed
  [call EXCEPT ![s] = IF Len(@.jobs) < 2 THEN NoCall
                      ELSE [@ EXCEPT !.jobs = Tail(@), !.todo = <<"read", "copy">>]]
ReadJob(s) ==
  LET c == call[s] j == Head(c.jobs)
  IN /\ At(s, "read") /\ c.target = NoTarget
     /\ call' = IF c.todo[2] = "cancel" \/ Retriable(s, j)
                THEN [call EXCEPT ![s].todo = Tail(@), ![s].seen = status[j]]
                ELSE NextJob(s)
     /\ UNCHANGED <<record, paused, gate, held, born, status, from, queued, fired, keyed,
                    asked, muddled>>

(* The writes of a toggle. A batch engine files what it has in memory.      *)
Wanted(c) ==
  IF c.target[1] = "batch" /\ "batch" \in setting.engines
  THEN IF c.target \in paused THEN "off" ELSE "on"
  ELSE IF c.on THEN "on" ELSE "off"
Granted(s) ==
  asked' = IF Answered(s) THEN [asked EXCEPT ![call[s].target] = IF call[s].on THEN "on" ELSE "off"]
           ELSE asked
SaveRecord(s) ==
  LET c == call[s]
  IN /\ At(s, "save") /\ Granted(s) /\ call' = Proceed(s)
     /\ record' = [record EXCEPT ![c.target] = Wanted(c)]
     /\ UNCHANGED <<paused, gate, held, born, status, from, queued, fired, keyed, muddled>>
SetGateSkipped(s) == gate' = IF call[s].on THEN gate \ {call[s].target} ELSE gate \* Mutant: pause leaves the broker.
SetGate(s) == gate' = IF call[s].on THEN gate \ {call[s].target} ELSE gate \cup {call[s].target}
TellBroker(s) ==
  /\ At(s, "gate") /\ Granted(s) /\ call' = Proceed(s) /\ SetGate(s)
  /\ UNCHANGED <<record, paused, held, born, status, from, queued, fired, keyed, muddled>>
ReleaseHeld(s) ==
  /\ At(s, "release") /\ Granted(s) /\ call' = Proceed(s)
  /\ held' = [held EXCEPT ![call[s].target] = <<>>]
  /\ UNCHANGED <<record, paused, gate, born, status, from, queued, fired, keyed, muddled>>

(* retry, rerun, resend: a copy under a new id and a note on the original,  *)
(* then the broker; a run of a schedule is triggered instead.               *)
Unused == {j \in Jobs : status[j] = "none"}
CopyJob(s) ==
  LET c == call[s] j == Head(c.jobs) new == CHOOSE k \in Unused : TRUE
      back == IF Rerun(s) THEN status[j] ELSE c.seen
  IN /\ At(s, "copy")
     /\ IF j \in setting.fires /\ ~Resent(s)
        THEN fired' = fired + 1 /\ call' = NextJob(s) /\ UNCHANGED <<status, from>>
        ELSE /\ Unused # {} /\ UNCHANGED fired
             /\ status' = [status EXCEPT ![j] = back, ![new] = "waiting"]
             /\ from' = [from EXCEPT ![new] = j]
             /\ call' = [call EXCEPT ![s].todo = <<"publish">>, ![s].copy = new]
     /\ UNCHANGED <<record, paused, gate, held, born, queued, keyed, asked, muddled>>
PublishCopy(s) ==
  /\ At(s, "publish") /\ queued' = queued \cup {call[s].copy} /\ call' = NextJob(s)
  /\ UNCHANGED <<record, paused, gate, held, born, status, from, fired, keyed, asked, muddled>>
CancelJob(s) ==
  LET j == Head(call[s].jobs)
  IN /\ At(s, "cancel") /\ call' = Proceed(s)
     /\ IF call[s].seen \in {"none", "gone"} THEN UNCHANGED <<status, queued>>
        ELSE status' = [status EXCEPT ![j] = "cancelled"] /\ queued' = queued \ {j}
     /\ UNCHANGED <<record, paused, gate, held, born, from, fired, keyed, asked, muddled>>
Trigger(s) ==
  /\ At(s, "fire") /\ call' = Proceed(s)
  /\ fired' = IF {<<k, Last(call[s].req.path)>> : k \in {"cron", "schedule"}} \cap setting.stored # {}
              THEN fired + 1 ELSE fired
  /\ UNCHANGED <<record, paused, gate, held, born, status, from, queued, keyed, asked, muddled>>
(* Limiter keys and cache entries, of a limiter or cache defined here.      *)
KeyRefused(req) ==
  LET needs == req.verb = "POST" /\ {"override", "prefix", "tags"} \cap ToSet(req.path) # {}
  IN req.path[3] \notin setting.local \/ (needs /\ ~req.body)
SetKey(s) ==
  LET c == call[s] act == Last(c.req.path) name == c.req.path[3]
  IN /\ At(s, "key") /\ call' = Proceed(s)
     /\ keyed' = CASE KeyRefused(c.req) -> keyed
                   [] act \in {"ban", "override"} /\ c.req.verb = "POST" -> keyed \cup {<<name, act>>}
                   [] act \in {"unban", "override"} ->
                        keyed \ {<<name, IF act = "unban" THEN "ban" ELSE act>>}
                   [] act = "reset" -> keyed
                   [] OTHER -> keyed \cup {<<name, "cleared">>}
     /\ UNCHANGED <<record, paused, gate, held, born, status, from, queued, fired, asked, muddled>>

-----------------------------------------------------------------------------
(* A job that arrives, or falls due, while its instance is off and set to   *)
(* hold: seen off, saved as held, then counted. A queue and a dispatcher    *)
(* list one more than the limit, newest first, and drop the oldest of them; *)
(* a schedule lists as many as there are too many, and drops those.         *)
Produce(s, t) ==
  /\ call[s] = NoCall /\ t[1] \in {"queue", "hook", "cron"} /\ record[t] = "off"
  /\ setting.holds > 0 /\ setting' = [setting EXCEPT !.holds = @ - 1]
  /\ call' = [call EXCEPT ![s] = [NoCall EXCEPT !.target = t, !.todo = <<"hold", "prune">>]]
  /\ muddled' = IF Busy(t) THEN muddled \cup {t} ELSE muddled
  /\ UNCHANGED <<record, paused, gate, held, born, status, from, queued, fired, keyed, asked>>
HoldJob(s) ==
  LET t == call[s].target
  IN /\ At(s, "hold") /\ call' = Proceed(s)
     /\ born' = born + 1 /\ held' = [held EXCEPT ![t] = Append(@, born + 1)]
     /\ UNCHANGED <<record, paused, gate, status, from, queued, fired, keyed, asked, muddled>>
KeptHere(t) ==
  IF Len(held[t]) > setting.maxHeld THEN RemoveAt(held[t], Len(held[t]) - setting.maxHeld) ELSE held[t]
KeptBySchedule(t) == SubSeq(held[t], 1, IF Len(held[t]) < setting.maxHeld THEN Len(held[t]) ELSE setting.maxHeld)
PruneHeld(s) ==
  LET t == call[s].target
  IN /\ At(s, "prune") /\ call' = Proceed(s)
     /\ held' = [held EXCEPT ![t] = IF t[1] = "cron" THEN KeptBySchedule(t) ELSE KeptHere(t)]
     /\ UNCHANGED <<record, paused, gate, born, status, from, queued, fired, keyed, asked, muddled>>

(* Jobs end, or are pruned by retention; the process dies with its calls.   *)
JobEnds(j, to) ==
  /\ setting.ends > 0 /\ setting' = [setting EXCEPT !.ends = @ - 1]
  /\ \/ status[j] = "waiting" /\ j \in queued /\ to \in {"failed", "completed"}
     \/ status[j] \in {"failed", "completed"} /\ to = "gone"
  /\ status' = [status EXCEPT ![j] = to] /\ queued' = queued \ {j}
  /\ UNCHANGED <<record, paused, gate, held, born, from, fired, keyed, call, asked, muddled>>
Crash ==
  /\ (\E s \in Callers : call[s] # NoCall) /\ setting.crashes > 0
  /\ setting' = [setting EXCEPT !.crashes = @ - 1]
  /\ call' = [s \in Callers |-> NoCall] /\ paused' = {}
  /\ muddled' = muddled \cup ({call[s].target : s \in Callers} \ {NoTarget})
  /\ UNCHANGED <<record, gate, held, born, status, from, queued, fired, keyed, asked>>

Next ==
  \/ \E s \in Callers :
       \/ \E req \in setting.requests : Receive(s, req)
       \/ \E t \in Targets : Produce(s, t)
       \/ ReadTarget(s) \/ ReadJob(s) \/ SaveRecord(s) \/ TellBroker(s) \/ ReleaseHeld(s)
       \/ CopyJob(s) \/ PublishCopy(s) \/ CancelJob(s) \/ Trigger(s) \/ SetKey(s)
       \/ HoldJob(s) \/ PruneHeld(s)
  \/ \E j \in Jobs, to \in Statuses : JobEnds(j, to)
  \/ Crash

Spec == Init /\ [][Next]_vars

-----------------------------------------------------------------------------
(* A call that goes on to change anything was authorized and is no GET.     *)
OnlyOrdersChange ==
  \A s \in Callers :
    LET req == call[s].req
    IN call[s].todo # <<>> /\ req # NoRequest => req.verb # "GET" /\ (setting.auth => req.good)

(* Once the calls for an instance are over, its record, the broker's gate   *)
(* and the held jobs are as the last answered 200 says - unless two calls   *)
(* met at it or the process died in one.                                    *)
LastAnswerStands ==
  \A t \in Targets \ muddled :
    asked[t] # "none" /\ ~Busy(t) =>
      /\ record[t] = asked[t]
      /\ t[1] \in Gated => (t \in gate <=> asked[t] = "off")
      /\ asked[t] = "on" /\ (t[1] \in {"queue", "hook"} => t[1] \in setting.engines) => held[t] = <<>>

(* What was just held is not what the limit drops, on a queue or dispatcher.*)
DropsNewest(t) ==
  held[t] # <<>> /\ Len(held'[t]) < Len(held[t]) /\ held'[t] # <<>> /\ Last(held'[t]) # Last(held[t])
NewestIsHeld == [][\A t \in Targets : t[1] \in {"queue", "hook"} => ~DropsNewest(t)]_vars
(* "Oldest held jobs are pruned" (modules.ts), also by a schedule.          *)
OldestArePruned == [][\A t \in Targets : ~DropsNewest(t)]_vars

(* getRetryChain: back along retriedFromId, then the copies made of the job.*)
Back[n \in 0 .. Cardinality(Jobs), j \in Jobs \cup {NoOne}] ==
  IF n = 0 \/ j = NoOne THEN <<>>
  ELSE IF ~Stored(j) THEN <<>> ELSE Append(Back[n - 1, from[j]], j)
RetryChain(j) ==
  LET back == Back[Cardinality(Jobs), j]
      forward == {k \in Jobs : Stored(k) /\ from[k] = j} \ ToSet(back)
  IN back \o SetToSeq(forward)

(* Every job in it once, the job asked for among them, every copy after the *)
(* job it was made of.                                                      *)
ChainInOrder ==
  \A j \in Jobs : Stored(j) =>
    LET chain == RetryChain(j)
    IN /\ IsInjective(chain) /\ j \in ToSet(chain)
       /\ \A a, b \in DOMAIN chain : from[chain[b]] = chain[a] => a < b

(* What the operator asked for, and nothing else, is what holds, and a      *)
(* chain tells how a job came about.                                        *)
OrdersAreKept == OnlyOrdersChange /\ LastAnswerStands /\ ChainInOrder
=============================================================================
