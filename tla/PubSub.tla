-------------------------------- MODULE PubSub --------------------------------
(***************************************************************************)
(* PubSubTopicEngine on one topic with one partition: publishing, consumer *)
(* groups and their cursors, deliveries and their attempts, dead letters,  *)
(* pause, resume, seek, replay, reconciliation and retention.  Offsets     *)
(* name messages and deliveries.  The pause flag of a broker and its queue *)
(* are read at one instant; a delay puts an id at the end of the queue.    *)
(***************************************************************************)
EXTENDS Naturals, SequencesExt

CONSTANTS
  Nodes,       \* processes with subscriptions
  Groups,      \* consumer groups
  Publishes,   \* calls of publish() (a bound)
  Deliverers,  \* polls and executions of processDelivery under way (a bound)
  MaxAttempts, \* retries.max + 1
  Settings     \* configurations, calls offered and faults to explore

NoNode == "no node"
NoGroup == "no group"
Operator == "operator"
Actors == Nodes \cup {Operator}
Calls == {"subscribe", "unsubscribe", "pause", "resume", "earliest", "latest", "revive"}
Faults == {"nack", "discard", "filter", "overdue", "rescan", "crash", "expire"}
Offsets == 1 .. Cardinality(Publishes)

Assumption ==
  /\ NoNode \notin Nodes /\ NoGroup \notin Groups /\ Operator \notin Nodes
  /\ IsFiniteSet(Publishes) /\ MaxAttempts \in Nat \ {0}
  /\ Settings \subseteq
       [fleet : SUBSET Nodes,
        groups : SUBSET Groups,
        joined : BOOLEAN,   \* every process of the fleet starts subscribed
        fromHead : BOOLEAN, \* startFrom: "latest"; "earliest" otherwise
        keyed : BOOLEAN,    \* every publish carries one idempotencyKey
        reclaims : BOOLEAN, \* the Postgres broker: a lapsed claim is handed out again
        publishes : Nat, offers : [Calls -> Nat], budget : [Faults -> Nat]]

VARIABLES
  setting,    \* the member of Settings in force, budgets counting down
  head,       \* "pubsub_offsets"
  messages,   \* "pubsub_messages", by offset
  keyStored,  \* "pubsub_idempotency" has the key
  group,      \* "pubsub_groups"
  delivery,   \* "pubsub_deliveries", by group and offset
  dead,       \* "pubsub_dead_letters"
  queue,      \* the broker queue of each group, offsets in the order they are handed out
  claim,      \* the broker's lock of each delivery
  halted,     \* the broker's pause flag
  client,     \* publish() calls
  subscribed, \* groups each process is subscribed to
  actor,      \* a subscribe() per process, and one other call of the topic's API
  deliverer,  \* pollSubscription and processDelivery
  repair,     \* reconcile()
  start,      \* history: highest offset a call placed each group's cursor at
  ended,      \* history: deliveries that once reached a terminal state
  quiet       \* history: groups whose pause() returned, resume() not called since

vars == <<setting, head, messages, keyStored, group, delivery, dead, queue, claim, halted,
          client, subscribed, actor, deliverer, repair, start, ended, quiet>>

Terminal == {"acked", "discarded", "dead", "filtered"}
Statuses == Terminal \cup {"none", "pending", "leased"}
AttemptCap == MaxAttempts + 1  \* attempts are only compared with MaxAttempts
DeliveryRecord == [status : Statuses, attempt : 0 .. AttemptCap, due : BOOLEAN, overdue : BOOLEAN]
GroupRecord == [exists : BOOLEAN, active : BOOLEAN, cursor : {0} \cup Offsets]
Fresh == [status |-> "pending", attempt |-> 0, due |-> FALSE, overdue |-> FALSE]
Absent == [Fresh EXCEPT !.status = "none"]
Unknown == [exists |-> FALSE, active |-> FALSE, cursor |-> 0]
Joined == [exists |-> TRUE, active |-> TRUE, cursor |-> 0]
IdleClient == [pc |-> "idle", offset |-> 0, todo |-> {}, held |-> {},
               group |-> NoGroup, retry |-> FALSE]
IdleActor == [pc |-> "idle", call |-> "none", group |-> NoGroup, copy |-> Unknown, todo |-> {},
              places |-> FALSE]
IdleDeliverer == [pc |-> "idle", node |-> NoNode, group |-> NoGroup, offset |-> 0,
                  copy |-> Absent, old |-> FALSE, record |-> Unknown]
IdleRepair == [pc |-> "idle", group |-> NoGroup, offset |-> 0, copy |-> Absent]

TypeOK ==
  /\ head \in {0} \cup Offsets /\ messages \subseteq Offsets /\ keyStored \in BOOLEAN
  /\ group \in [Groups -> GroupRecord] /\ delivery \in [Groups -> [Offsets -> DeliveryRecord]]
  /\ \A s \in {dead, ended} : s \in [Groups -> SUBSET Offsets]
  /\ \A g \in Groups : ToSet(queue[g]) \subseteq Offsets /\ IsInjective(queue[g])
  /\ claim \in [Groups -> [Offsets -> Nodes \cup {NoNode}]]
  /\ halted \subseteq Groups /\ quiet \subseteq Groups /\ subscribed \in [Nodes -> SUBSET Groups]
  /\ \A d \in Deliverers : /\ deliverer[d].copy \in DeliveryRecord
                           /\ deliverer[d].record \in GroupRecord
                           /\ deliverer[d].pc \notin {"idle", "polling"} => deliverer[d].offset \in Offsets
  /\ \A x \in Actors : actor[x].copy \in GroupRecord /\ actor[x].todo \subseteq Offsets
  /\ \A p \in Publishes : client[p].offset \in {0} \cup Offsets /\ client[p].todo \subseteq Groups

InitWith(settings) ==
  /\ setting \in settings
  /\ head = 0 /\ messages = {} /\ keyStored = FALSE
  /\ group = [g \in Groups |-> IF setting.joined /\ g \in setting.groups THEN Joined ELSE Unknown]
  /\ delivery = [g \in Groups |-> [o \in Offsets |-> Absent]]
  /\ dead = [g \in Groups |-> {}] /\ queue = [g \in Groups |-> <<>>] /\ ended = [g \in Groups |-> {}]
  /\ claim = [g \in Groups |-> [o \in Offsets |-> NoNode]]
  /\ halted = {} /\ quiet = {} /\ start = [g \in Groups |-> 0]
  /\ client = [p \in Publishes |-> IdleClient]
  /\ subscribed = [n \in Nodes |-> IF setting.joined /\ n \in setting.fleet THEN setting.groups ELSE {}]
  /\ actor = [x \in Actors |-> IdleActor]
  /\ deliverer = [d \in Deliverers |-> IdleDeliverer] /\ repair = IdleRepair
Init == InitWith(Settings)

log == <<head, messages, keyStored>>
broker == <<queue, claim, halted>>
Offered(call) ==
  /\ setting.offers[call] > 0
  /\ setting' = [setting EXCEPT !.offers[call] = @ - 1]
Spend(fault) ==
  /\ setting.budget[fault] > 0
  /\ setting' = [setting EXCEPT !.budget[fault] = @ - 1]

(* publish and publishBatch take an id out before they put it at the end.   *)
Without(q, offsets) == SelectSeq(q, LAMBDA o : o \notin offsets)
PublishDeliveries(g, offsets) ==
  queue' = [queue EXCEPT ![g] = Without(@, offsets) \o SetToSortSeq(offsets, <)]
Unlock(g, o) == claim' = [claim EXCEPT ![g][o] = NoNode]
Ack(g, o) == queue' = [queue EXCEPT ![g] = Without(@, {o})] /\ Unlock(g, o)
Nack(g, o) == PublishDeliveries(g, {o}) /\ Unlock(g, o)
Put(g, o, rec) ==
  /\ delivery' = [delivery EXCEPT ![g][o] = rec]
  /\ ended' = IF rec.status \in Terminal THEN [ended EXCEPT ![g] = @ \cup {o}] ELSE ended
(* createDelivery with saveIfAbsent, or with save for a replay.             *)
CreateAll(g, offsets) ==
  delivery' = [delivery EXCEPT ![g] = [o \in Offsets |-> IF o \in offsets THEN Fresh ELSE @[o]]]
Missing(g, offsets) == {o \in offsets : delivery[g][o].status = "none"}

-----------------------------------------------------------------------------
(* publish(): the key, the offset, the message, the key again, then one     *)
(* delivery for every group the topic has by then.                          *)
Returned == {p \in Publishes : client[p].pc = "done"}
Publish(p) ==
  /\ client[p].pc = "idle" /\ setting.publishes > 0
  /\ setting' = [setting EXCEPT !.publishes = @ - 1]
  /\ client' = [client EXCEPT ![p].pc = IF setting.keyed /\ keyStored THEN "done" ELSE "count",
                              ![p].retry = setting.keyed /\ Returned # {}]
  /\ UNCHANGED <<log, group, delivery, dead, broker, subscribed, actor, deliverer, repair,
                 start, ended, quiet>>
IncrementOffset(p) ==
  /\ client[p].pc = "count"
  /\ head' = head + 1
  /\ client' = [client EXCEPT ![p].pc = "save", ![p].offset = head + 1]
  /\ UNCHANGED <<setting, messages, keyStored, group, delivery, dead, broker, subscribed, actor,
                 deliverer, repair, start, ended, quiet>>
SaveMessage(p) ==
  /\ client[p].pc = "save"
  /\ messages' = messages \cup {client[p].offset}
  /\ client' = [client EXCEPT ![p].pc = IF setting.keyed THEN "key" ELSE "list"]
  /\ UNCHANGED <<setting, head, keyStored, group, delivery, dead, broker, subscribed, actor,
                 deliverer, repair, start, ended, quiet>>
SaveKey(p) ==
  /\ client[p].pc = "key"
  /\ keyStored' = TRUE /\ client' = [client EXCEPT ![p].pc = "list"]
  /\ UNCHANGED <<setting, head, messages, group, delivery, dead, broker, subscribed, actor,
                 deliverer, repair, start, ended, quiet>>
(* createDeliveriesForMessage.                                              *)
ListGroups(p) ==
  LET owed == {g \in Groups : group[g].exists /\ group[g].cursor < client[p].offset}
  IN /\ client[p].pc = "list"
     /\ client' = [client EXCEPT ![p].pc = IF owed = {} THEN "done" ELSE "deliver",
                                 ![p].todo = owed, ![p].held = {g \in owed : ~group[g].active}]
     /\ UNCHANGED <<setting, log, group, delivery, dead, broker, subscribed, actor, deliverer,
                    repair, start, ended, quiet>>
NextGroup(rec, g) ==
  [rec EXCEPT !.todo = @ \ {g}, !.group = NoGroup, !.pc = IF rec.todo = {g} THEN "done" ELSE "deliver"]
CreateDelivery(p, g) ==
  LET inserts == Missing(g, {client[p].offset})
  IN /\ client[p].pc = "deliver" /\ g \in client[p].todo
     /\ CreateAll(g, inserts)
     /\ client' = [client EXCEPT ![p] = IF inserts # {} /\ g \notin @.held
                                        THEN [@ EXCEPT !.pc = "push", !.group = g]
                                        ELSE NextGroup(@, g)]
     /\ UNCHANGED <<setting, log, group, dead, broker, subscribed, actor, deliverer, repair,
                    start, ended, quiet>>
PublishDelivery(p) ==
  /\ client[p].pc = "push"
  /\ PublishDeliveries(client[p].group, {client[p].offset})
  /\ client' = [client EXCEPT ![p] = NextGroup(@, client[p].group)]
  /\ UNCHANGED <<setting, log, group, delivery, dead, claim, halted, subscribed, actor,
                 deliverer, repair, start, ended, quiet>>

-----------------------------------------------------------------------------
(* subscribe(), pause(), resume(), seek() and retryDeadLetter(): each reads *)
(* the group record and writes back its copy.                               *)
Max2(a, b) == IF a > b THEN a ELSE b
Copied(call, g) ==
  CASE call = "subscribe" /\ ~group[g].exists ->
         [Joined EXCEPT !.cursor = IF setting.fromHead THEN head ELSE 0]
    [] call \in {"subscribe", "resume"} /\ group[g].exists -> [group[g] EXCEPT !.active = TRUE]
    [] call = "pause" -> [group[g] EXCEPT !.active = FALSE]
    [] call = "earliest" -> [group[g] EXCEPT !.cursor = 0]
    [] call = "latest" -> [group[g] EXCEPT !.cursor = head]
Begin(x, call, g) ==
  /\ actor[x].pc = "idle" /\ Offered(call)
  /\ IF call = "subscribe" THEN x \in setting.fleet /\ g \in setting.groups \ subscribed[x]
     ELSE x = Operator /\ group[g].exists
  /\ actor' = [actor EXCEPT ![x] = [IdleActor EXCEPT !.pc = "write", !.call = call, !.group = g,
                        !.copy = Copied(call, g),
                        !.places = call \in {"earliest", "latest"} \/ ~group[g].exists]]
  /\ quiet' = IF call = "resume" THEN quiet \ {g} ELSE quiet
  /\ UNCHANGED <<log, group, delivery, dead, broker, client, subscribed, deliverer, repair,
                 start, ended>>
WriteGroup(x) ==
  LET g == actor[x].group  copy == actor[x].copy
  IN /\ actor[x].pc = "write"
     /\ group' = [group EXCEPT ![g] = copy]
     /\ start' = IF actor[x].places THEN [start EXCEPT ![g] = Max2(@, copy.cursor)] ELSE start
     /\ actor' = [actor EXCEPT ![x].pc = IF actor[x].call \in {"pause", "resume"} THEN "switch" ELSE "list"]
     /\ UNCHANGED <<setting, log, delivery, dead, broker, client, subscribed, deliverer, repair,
                    ended, quiet>>
SwitchRecordOnly(x) == \* Mutant: only the record is paused.
  /\ actor[x].pc = "switch"
  /\ quiet' = IF actor[x].call = "pause" THEN quiet \cup {actor[x].group} ELSE quiet
  /\ actor' = [actor EXCEPT ![x] = IF @.call = "pause" THEN IdleActor ELSE [@ EXCEPT !.pc = "list"]]
  /\ UNCHANGED <<setting, log, group, delivery, dead, broker, client, subscribed, deliverer, repair,
                 start, ended>>
Switch(x) ==
  LET g == actor[x].group
  IN /\ actor[x].pc = "switch"
     /\ IF actor[x].call = "pause"
        THEN /\ halted' = halted \cup {g} /\ quiet' = quiet \cup {g}
             /\ actor' = [actor EXCEPT ![x] = IdleActor]
        ELSE halted' = halted \ {g} /\ actor' = [actor EXCEPT ![x].pc = "list"] /\ UNCHANGED quiet
     /\ UNCHANGED <<setting, log, group, delivery, dead, queue, claim, client, subscribed,
                    deliverer, repair, start, ended>>
(* ensureDeliveriesForGroup: the group and the messages past its cursor, a  *)
(* delivery for each (only the missing ones, unless it is a replay), then   *)
(* the new ones to the broker.                                              *)
List(x) ==
  LET g == actor[x].group
  IN /\ actor[x].pc = "list"
     /\ actor' = [actor EXCEPT ![x].pc = "create", ![x].copy = group[g],
                               ![x].todo = {o \in messages : o > group[g].cursor}]
     /\ UNCHANGED <<setting, log, group, delivery, dead, broker, client, subscribed, deliverer,
                    repair, start, ended, quiet>>
Create(x) ==
  LET g == actor[x].group
      made == IF actor[x].call \in {"earliest", "latest"} THEN actor[x].todo ELSE Missing(g, actor[x].todo)
  IN /\ actor[x].pc = "create"
     /\ CreateAll(g, made)
     /\ actor' = [actor EXCEPT ![x].pc = "push", ![x].todo = IF actor[x].copy.active THEN made ELSE {}]
     /\ UNCHANGED <<setting, log, group, dead, broker, client, subscribed, deliverer, repair,
                    start, ended, quiet>>
Push(x) ==
  LET g == actor[x].group
  IN /\ actor[x].pc = "push"
     /\ PublishDeliveries(g, actor[x].todo)
     /\ subscribed' = IF actor[x].call = "subscribe" THEN [subscribed EXCEPT ![x] = @ \cup {g}]
                      ELSE subscribed
     /\ actor' = [actor EXCEPT ![x] = IdleActor]
     /\ UNCHANGED <<setting, log, group, delivery, dead, claim, halted, client, deliverer, repair,
                    start, ended, quiet>>
(* retryDeadLetter: the attempts made so far still count.                   *)
Revive(g, o) ==
  /\ actor[Operator].pc = "idle" /\ o \in dead[g] /\ Offered("revive")
  /\ Put(g, o, [delivery[g][o] EXCEPT !.status = "pending", !.due = FALSE])
  /\ actor' = [actor EXCEPT ![Operator] = [IdleActor EXCEPT !.pc = "forget", !.call = "revive",
                                                            !.group = g, !.todo = {o}]]
  /\ UNCHANGED <<log, group, dead, broker, client, subscribed, deliverer, repair, start, quiet>>
Forget ==
  LET a == actor[Operator]
  IN /\ a.pc = "forget"
     /\ dead' = [dead EXCEPT ![a.group] = @ \ a.todo]
     /\ actor' = [actor EXCEPT ![Operator].pc = "push"]
     /\ UNCHANGED <<setting, log, group, delivery, broker, client, subscribed, deliverer, repair,
                    start, ended, quiet>>
(* What a process still executes for a subscription it gave up.             *)
Orphaned(n, g) ==
  [d \in Deliverers |-> [deliverer[d] EXCEPT !.old = @ \/ (deliverer[d].node = n /\ deliverer[d].group = g)]]
Unsubscribe(n, g) ==
  /\ g \in subscribed[n] /\ Offered("unsubscribe")
  /\ subscribed' = [subscribed EXCEPT ![n] = @ \ {g}] /\ deliverer' = Orphaned(n, g)
  /\ UNCHANGED <<log, group, delivery, dead, broker, client, actor, repair, start, ended, quiet>>

-----------------------------------------------------------------------------
(* pollSubscription: the claim is awaited before the delivery is registered *)
(* as in flight, so the next poll may claim as well.  One partition has at  *)
(* most one registered delivery, which keeps every concurrency limit.       *)
Registered(n, g) ==
  {d \in Deliverers : /\ deliverer[d].node = n /\ deliverer[d].group = g /\ ~deliverer[d].old
                      /\ deliverer[d].pc \notin {"idle", "polling", "claimed"}}
Poll(n, g, d) ==
  /\ g \in subscribed[n] /\ group[g].active /\ queue[g] # <<>> /\ Registered(n, g) = {}
  /\ deliverer[d] = IdleDeliverer
  /\ deliverer' = [deliverer EXCEPT ![d] = [IdleDeliverer EXCEPT !.pc = "polling", !.node = n, !.group = g]]
  /\ UNCHANGED <<setting, log, group, delivery, dead, broker, client, subscribed, actor, repair,
                 start, ended, quiet>>
Claimable(g) == SelectSeq(queue[g], LAMBDA o : claim[g][o] = NoNode)
Claim(d) ==
  LET n == deliverer[d].node  g == deliverer[d].group  o == Head(Claimable(g))
  IN /\ deliverer[d].pc = "polling"
     /\ IF g \in halted \/ Registered(n, g) # {} \/ Claimable(g) = <<>>
        THEN deliverer' = [deliverer EXCEPT ![d] = IdleDeliverer] /\ UNCHANGED broker
        ELSE /\ queue' = [queue EXCEPT ![g] = Without(@, {o})]
             /\ claim' = [claim EXCEPT ![g][o] = n] /\ UNCHANGED halted
             /\ deliverer' = [deliverer EXCEPT ![d].pc = "claimed", ![d].offset = o]
     /\ UNCHANGED <<setting, log, group, delivery, dead, client, subscribed, actor, repair,
                    start, ended, quiet>>

(* processDelivery.                                                         *)
Stage(d, pc) == deliverer[d].pc = pc
Moves(d, pc) == deliverer' = [deliverer EXCEPT ![d].pc = pc]
Load(d) ==
  LET g == deliverer[d].group  o == deliverer[d].offset
  IN /\ Stage(d, "claimed")
     /\ deliverer' = [deliverer EXCEPT
          ![d].pc = IF delivery[g][o].status \in {"none", "acked"} THEN "drop" ELSE "lease",
          ![d].copy = delivery[g][o]]
     /\ UNCHANGED <<setting, log, group, delivery, dead, broker, client, subscribed, actor, repair,
                    start, ended, quiet>>
(* markTerminal on the copy; "drop" acknowledges without moving the cursor. *)
Verdict(d, status) ==
  LET done == [deliverer[d].copy EXCEPT !.status = status, !.due = FALSE, !.overdue = FALSE]
  IN Put(deliverer[d].group, deliverer[d].offset, done)
Lease(d) ==
  LET g == deliverer[d].group  o == deliverer[d].offset  made == deliverer[d].copy.attempt
      leased == [deliverer[d].copy EXCEPT !.status = "leased", !.overdue = FALSE,
                   !.attempt = IF made < AttemptCap THEN made + 1 ELSE made]
  IN /\ Stage(d, "lease")
     /\ \/ /\ o \notin messages /\ Verdict(d, "discarded") /\ Moves(d, "drop") /\ UNCHANGED setting
        \/ /\ o \in messages /\ Spend("filter") /\ Verdict(d, "filtered") /\ Moves(d, "ack")
        \/ /\ o \in messages /\ Put(g, o, leased) /\ UNCHANGED setting
           /\ deliverer' = [deliverer EXCEPT ![d].pc = "handle", ![d].copy = leased]
     /\ UNCHANGED <<log, group, dead, broker, client, subscribed, actor, repair, start, quiet>>
(* The handler acknowledges, rejects or discards, throws or times out; the  *)
(* first of these settles the delivery, whoever has taken it meanwhile.     *)
Handle(d) ==
  LET g == deliverer[d].group  o == deliverer[d].offset  copy == deliverer[d].copy
      again == [copy EXCEPT !.status = "pending", !.due = TRUE, !.overdue = FALSE]
  IN /\ Stage(d, "handle")
     /\ \/ Verdict(d, "acked") /\ Moves(d, "ack") /\ UNCHANGED setting
        \/ Spend("discard") /\ Verdict(d, "discarded") /\ Moves(d, "ack")
        \/ Spend("nack") /\ IF copy.attempt < MaxAttempts
                            THEN Put(g, o, again) /\ Moves(d, "nack")
                            ELSE Put(g, o, [copy EXCEPT !.status = "dead"]) /\ Moves(d, "bury")
     /\ UNCHANGED <<log, group, dead, broker, client, subscribed, actor, repair, start, quiet>>
Bury(d) ==
  LET g == deliverer[d].group  o == deliverer[d].offset
  IN /\ Stage(d, "bury")
     /\ dead' = [dead EXCEPT ![g] = @ \cup ({o} \cap messages)] /\ Moves(d, "ack")
     /\ UNCHANGED <<setting, log, group, delivery, broker, client, subscribed, actor, repair,
                    start, ended, quiet>>
SettleKeepsPartition(d) == \* Mutant: the partition stays taken.
  LET g == deliverer[d].group  o == deliverer[d].offset
  IN /\ \/ Stage(d, "ack") /\ Ack(g, o) /\ Moves(d, "read")
        \/ Stage(d, "drop") /\ Ack(g, o) /\ deliverer' = [deliverer EXCEPT ![d] = IdleDeliverer]
        \/ Stage(d, "nack") /\ Nack(g, o) /\ Moves(d, "settled")
     /\ UNCHANGED <<setting, log, group, delivery, dead, halted, client, subscribed, actor, repair,
                    start, ended, quiet>>
Settle(d) ==
  LET g == deliverer[d].group  o == deliverer[d].offset
  IN /\ \/ Stage(d, "ack") /\ Ack(g, o) /\ Moves(d, "read")
        \/ /\ Stage(d, "drop") /\ Ack(g, o) /\ deliverer' = [deliverer EXCEPT ![d] = IdleDeliverer]
        \/ /\ Stage(d, "nack") /\ Nack(g, o) /\ deliverer' = [deliverer EXCEPT ![d] = IdleDeliverer]
     /\ UNCHANGED <<setting, log, group, delivery, dead, halted, client, subscribed, actor, repair,
                    start, ended, quiet>>
(* advanceCursor: the group record is read, the deliveries after its cursor *)
(* are walked one read at a time, and the copy is written back.             *)
ReadCursor(d) ==
  /\ Stage(d, "read")
  /\ deliverer' = [deliverer EXCEPT ![d].pc = "walk", ![d].record = group[deliverer[d].group]]
  /\ UNCHANGED <<setting, log, group, delivery, dead, broker, client, subscribed, actor, repair,
                 start, ended, quiet>>
PassesHole(g, o) == o \in Offsets /\ delivery[g][o].status \in Terminal \cup {"none"} /\ o <= head \* Mutant: a delivery that does not exist yet is passed.
Passes(g, o) == o \in Offsets /\ delivery[g][o].status \in Terminal
Walk(d) ==
  LET g == deliverer[d].group  next == deliverer[d].record.cursor + 1
  IN /\ Stage(d, "walk")
     /\ IF Passes(g, next)
        THEN deliverer' = [deliverer EXCEPT ![d].record.cursor = next] /\ UNCHANGED group
        ELSE /\ group' = [group EXCEPT ![g] = deliverer[d].record]
             /\ deliverer' = [deliverer EXCEPT ![d] = IdleDeliverer]
     /\ UNCHANGED <<setting, log, delivery, dead, broker, client, subscribed, actor, repair,
                    start, ended, quiet>>

-----------------------------------------------------------------------------
(* reconcile(): leases past their deadline and retries that are due, saved  *)
(* from the copy that was listed.  "rescan" bounds how often it takes up a  *)
(* retry that is on its way.                                                *)
WorkingOn(g, o) ==
  {d \in Deliverers : deliverer[d].group = g /\ deliverer[d].offset = o}
OnItsWay(g, o) == o \in ToSet(queue[g]) \/ claim[g][o] # NoNode \/ WorkingOn(g, o) # {}
Scan(g, o) ==
  LET rec == delivery[g][o]
  IN /\ repair.pc = "idle"
     /\ \/ rec.status = "leased" /\ rec.overdue /\ UNCHANGED setting
        \/ /\ rec.status = "pending" /\ rec.due
           /\ IF OnItsWay(g, o) THEN Spend("rescan") ELSE UNCHANGED setting
     /\ repair' = [pc |-> "save", group |-> g, offset |-> o, copy |-> rec]
     /\ UNCHANGED <<log, group, delivery, dead, broker, client, subscribed, actor,
                    deliverer, start, ended, quiet>>
RepairSave ==
  /\ repair.pc = "save"
  /\ Put(repair.group, repair.offset, [repair.copy EXCEPT !.status = "pending", !.overdue = FALSE])
  /\ repair' = [repair EXCEPT !.pc = "publish"]
  /\ UNCHANGED <<setting, log, group, dead, broker, client, subscribed, actor, deliverer,
                 start, quiet>>
RepairPublish ==
  /\ repair.pc = "publish"
  /\ PublishDeliveries(repair.group, {repair.offset}) /\ repair' = IdleRepair
  /\ UNCHANGED <<setting, log, group, delivery, dead, claim, halted, client, subscribed, actor,
                 deliverer, start, ended, quiet>>
(* cleanupRetention.                                                        *)
Expire(o) ==
  /\ o \in messages /\ Spend("expire") /\ messages' = messages \ {o}
  /\ UNCHANGED <<head, keyStored, group, delivery, dead, broker, client, subscribed, actor,
                 deliverer, repair, start, ended, quiet>>

(* Time and faults.  The heartbeat renews the broker's lock and leaves the  *)
(* deadline of the record alone: a live handler can be overdue.             *)
Overdue(g, o) ==
  /\ delivery[g][o].status = "leased" /\ ~delivery[g][o].overdue
  /\ IF WorkingOn(g, o) = {} THEN UNCHANGED setting ELSE Spend("overdue")
  /\ delivery' = [delivery EXCEPT ![g][o].overdue = TRUE]
  /\ UNCHANGED <<log, group, dead, broker, client, subscribed, actor, deliverer, repair,
                 start, ended, quiet>>
ClaimExpires(g, o) ==
  /\ claim[g][o] # NoNode /\ \A d \in WorkingOn(g, o) : deliverer[d].node # claim[g][o]
  /\ claim' = [claim EXCEPT ![g][o] = NoNode]
  /\ IF setting.reclaims THEN PublishDeliveries(g, {o}) ELSE UNCHANGED queue
  /\ UNCHANGED <<setting, log, group, delivery, dead, halted, client, subscribed, actor,
                 deliverer, repair, start, ended, quiet>>
Crash(n) ==
  /\ subscribed[n] # {} /\ Spend("crash")
  /\ subscribed' = [subscribed EXCEPT ![n] = {}] /\ actor' = [actor EXCEPT ![n] = IdleActor]
  /\ deliverer' = [d \in Deliverers |-> IF deliverer[d].node = n THEN IdleDeliverer ELSE deliverer[d]]
  /\ UNCHANGED <<log, group, delivery, dead, broker, client, repair, start, ended, quiet>>

PublishStep(p) ==
  \/ IncrementOffset(p) \/ SaveMessage(p) \/ SaveKey(p) \/ ListGroups(p) \/ PublishDelivery(p)
  \/ \E g \in Groups : CreateDelivery(p, g)
ActorStep(x) == WriteGroup(x) \/ Switch(x) \/ List(x) \/ Create(x) \/ Push(x) \/ (x = Operator /\ Forget)
IdleDeliverers == {d \in Deliverers : deliverer[d] = IdleDeliverer}
PollAny(n, g) == IdleDeliverers # {} /\ Poll(n, g, CHOOSE d \in IdleDeliverers : TRUE)
DelivererStep(d) ==
  \/ Claim(d) \/ Load(d) \/ Lease(d) \/ Handle(d) \/ Bury(d) \/ Settle(d) \/ ReadCursor(d) \/ Walk(d)
RepairStep == RepairSave \/ RepairPublish \/ \E g \in Groups, o \in Offsets : Scan(g, o)

Next ==
  \/ \E p \in Publishes : Publish(p) \/ PublishStep(p)
  \/ \E x \in Actors : ActorStep(x) \/ \E call \in Calls \ {"unsubscribe", "revive"}, g \in Groups : Begin(x, call, g)
  \/ \E g \in Groups, o \in Offsets : Revive(g, o) \/ Overdue(g, o) \/ ClaimExpires(g, o)
  \/ \E n \in Nodes : Crash(n) \/ \E g \in Groups : PollAny(n, g) \/ Unsubscribe(n, g)
  \/ \E d \in Deliverers : DelivererStep(d)
  \/ RepairStep \/ \E o \in Offsets : Expire(o)

Spec == Init /\ [][Next]_vars

(* Promises are resolved, the poll and reconciliation timers keep firing,   *)
(* leases and deadlines pass.  A poll that finds nothing is left out, so    *)
(* the bound on deliverers may shut polls out now and then.  publish() runs *)
(* in the application, whose fairness Services states.                      *)
Fairness ==
  /\ \A x \in Actors : WF_vars(ActorStep(x))
  /\ \A d \in Deliverers : WF_vars(DelivererStep(d))
  /\ \A n \in Nodes, g \in Groups : SF_vars(PollAny(n, g))
  /\ WF_vars(RepairStep)
  /\ \A g \in Groups, o \in Offsets :
       WF_vars(WorkingOn(g, o) = {} /\ Overdue(g, o)) /\ WF_vars(ClaimExpires(g, o))

-----------------------------------------------------------------------------
(* A cursor passes only what came to an end, or what a call placed it past: *)
(* it waits at a message that is numbered and not saved yet.                *)
CommitAfterOutcome ==
  \A g \in Groups, o \in Offsets : start[g] < o /\ o <= group[g].cursor => o \in ended[g]

(* Whichever of publish() and subscribe() is first, the other makes the     *)
(* delivery of every message past the group's starting point that retention *)
(* has left.                                                                *)
EveryGroupIsServed ==
  \A p \in Returned, g \in Groups :
    LET o == client[p].offset
    IN o > start[g] /\ o \in messages /\ (\E n \in Nodes : g \in subscribed[n]) =>
         delivery[g][o].status # "none"

(* After pause() returns nothing is claimed until resume(), although the    *)
(* status it saved can be overwritten by a cursor on its way.               *)
PauseHolds ==
  [][\A g \in quiet \cap quiet', o \in Offsets : claim'[g][o] \in {claim[g][o], NoNode}]_vars

(* A publish() that begins after one with its idempotencyKey returned adds  *)
(* no message.                                                              *)
RetryAddsNothing == \A p \in Publishes : client[p].retry => client[p].offset = 0

(* The log and the groups agree: a message is there once, every group gets  *)
(* a delivery of it, and no cursor leaves one behind that is still open.    *)
NoMessageIsSkipped == RetryAddsNothing /\ EveryGroupIsServed /\ CommitAfterOutcome

(* Every message a publish() returned comes to an end in every group that   *)
(* is subscribed, unless the group was paused when it was published or is   *)
(* paused now.                                                              *)
Subscribed(g) == \E n \in Nodes : g \in subscribed[n]
Owed(p, g) == client[p].pc = "done" /\ client[p].offset > start[g] /\ Subscribed(g)
Served(p, g) == client[p].offset \in ended[g]
Paused(g) == ~group[g].active \/ g \in halted
DeliveredAtLeastOnce ==
  \A p \in Publishes, g \in Groups :
    Owed(p, g) /\ g \notin client[p].held ~> (Served(p, g) \/ Paused(g) \/ ~Subscribed(g))

(* "PubSub is an at-least-once delivery system", whether or not the group   *)
(* was paused when the message was published, once it is resumed.           *)
ResumedIsDelivered ==
  \A p \in Publishes, g \in Groups :
    Owed(p, g) ~> (Served(p, g) \/ g \in quiet \/ ~Subscribed(g))

(* "Messages from the same partition are delivered to only one process at   *)
(* a time".                                                                 *)
OneProcessAtATime ==
  \A d, e \in Deliverers :
    /\ deliverer[d].pc = "handle" /\ deliverer[e].pc = "handle"
    /\ deliverer[d].group = deliverer[e].group
    => deliverer[d].node = deliverer[e].node
=============================================================================
