---------------------------- MODULE PubSub_proofs ----------------------------
(***************************************************************************)
(* No message of a topic is skipped, for any groups, processes and calls:  *)
(* a publish() that retries adds nothing, every group that is subscribed   *)
(* has a delivery of every message past its starting point, and no cursor  *)
(* passes a delivery that is still open.  The broker's queues and claims   *)
(* are left free: whatever they hand out, the log, the groups and their    *)
(* cursors agree.  Last, that a pause() of a group holds, which is about   *)
(* the claims.                                                             *)
(***************************************************************************)
EXTENDS PubSub, TLAPS, FiniteSetTheorems

(* The records of the model, field by field.                                *)
SettingType ==
  [fleet : SUBSET Nodes, groups : SUBSET Groups, joined : BOOLEAN, fromHead : BOOLEAN,
   keyed : BOOLEAN, reclaims : BOOLEAN, publishes : Nat,
   offers : [Calls -> Nat], budget : [Faults -> Nat]]
ClientType ==
  [pc : {"idle", "count", "save", "key", "list", "deliver", "push", "done"},
   offset : {0} \cup Offsets, todo : SUBSET Groups, held : SUBSET Groups,
   group : Groups \cup {NoGroup}, retry : BOOLEAN]
ActorType ==
  [pc : {"idle", "write", "switch", "list", "create", "push", "forget"},
   call : Calls \cup {"none"}, group : Groups \cup {NoGroup}, copy : GroupRecord,
   todo : SUBSET Offsets, places : BOOLEAN]
RepairType ==
  [pc : {"idle", "save", "publish"}, group : Groups \cup {NoGroup}, offset : {0} \cup Offsets,
   copy : DeliveryRecord]

(* What the broker hands out may be anything, as far as the log, the groups *)
(* and their cursors are concerned.                                         *)
DelivererOK(x) ==
  /\ x \in [pc : {x.pc}, node : {x.node}, group : {x.group}, offset : {x.offset},
            copy : {x.copy}, old : {x.old}, record : GroupRecord]
  /\ x.pc # "idle" => x.group \in Groups
  /\ x.pc \in {"lease", "handle"} /\ x.offset \in Offsets => x.copy \in DeliveryRecord

(* What each part of the state is, as far as the argument uses it.          *)
Typed ==
  /\ setting \in SettingType
  /\ head \in Nat /\ messages \subseteq Offsets /\ keyStored \in BOOLEAN
  /\ group \in [Groups -> GroupRecord]
  /\ delivery \in [Groups -> [Offsets -> DeliveryRecord]]
  /\ dead \in [Groups -> SUBSET Offsets]
  /\ ended = [g \in Groups |-> ended[g]]
  /\ start \in [Groups -> {0} \cup Offsets]
  /\ subscribed \in [Nodes -> SUBSET Groups]
  /\ client \in [Publishes -> ClientType]
  /\ actor \in [Actors -> ActorType]
  /\ \A x \in Actors : actor[x].pc # "idle" => actor[x].group \in Groups
  /\ deliverer = [d \in Deliverers |-> deliverer[d]]
  /\ \A d \in Deliverers : DelivererOK(deliverer[d])
  /\ repair \in RepairType
  /\ repair.pc # "idle" => repair.group \in Groups /\ repair.offset \in Offsets

(* incrementOffset hands out every offset once, in order: the head counts   *)
(* the publishes that have one.                                             *)
Numbered == {p \in Publishes : client[p].offset # 0}
Numbering ==
  /\ head = Cardinality(Numbered)
  /\ \A p \in Publishes :
       /\ client[p].offset <= head
       /\ client[p].pc \in {"idle", "count"} => client[p].offset = 0
       /\ client[p].offset = 0 => client[p].pc \in {"idle", "count", "done"}
  /\ \A p, q \in Publishes : client[p].offset = client[q].offset => p = q \/ client[p].offset = 0

(* With an idempotency key, a publish that has gone past its message has    *)
(* also saved the key, so one that begins later ends without an offset.     *)
Keys ==
  \A p \in Publishes :
    /\ setting.keyed /\ client[p].pc \in {"list", "deliver", "push", "done"} => keyStored
    /\ client[p].retry => client[p].pc = "done" /\ client[p].offset = 0

(* What ended has a delivery, and what the record says has ended is known   *)
(* to have.                                                                 *)
Outcomes ==
  \A g \in Groups, o \in Offsets :
    /\ delivery[g][o].status \in Terminal => o \in ended[g]
    /\ o \in ended[g] => delivery[g][o].status # "none"

(* Every copy of a cursor, stored, walked or about to be written back, has  *)
(* only outcomes between it and the place the group was put at.             *)
Behind(cursor, g) ==
  \A o \in Offsets : start[g] < o /\ o <= cursor => o \in ended[g]
Cursors ==
  /\ \A g \in Groups : Behind(group[g].cursor, g)
  /\ \A d \in Deliverers :
       deliverer[d].pc = "walk" => Behind(deliverer[d].record.cursor, deliverer[d].group)
  /\ \A x \in Actors :
       actor[x].pc = "write" /\ ~actor[x].places => Behind(actor[x].copy.cursor, actor[x].group)

(* A process is subscribed to, and polls, groups that are stored; every     *)
(* copy on its way back keeps them so.                                      *)
Joining ==
  /\ \A n \in Nodes : \A g \in subscribed[n] : group[g].exists
  /\ \A x \in Actors :
       /\ actor[x].pc = "write" => actor[x].copy.exists
       /\ actor[x].pc \in {"switch", "list", "create", "push"} /\ actor[x].call = "subscribe" =>
            group[actor[x].group].exists
       /\ actor[x].pc = "forget" => actor[x].call # "subscribe"
  /\ \A d \in Deliverers :
       /\ deliverer[d].pc # "idle" => group[deliverer[d].group].exists
       /\ deliverer[d].pc = "walk" => deliverer[d].record.exists

(* A message that has passed its own list of groups without reaching g, and *)
(* has no delivery in it, is one that nobody has subscribed to yet: a       *)
(* subscribe() under way will find it.                                      *)
Listed(p) == client[p].pc \in {"deliver", "push", "done"}
Unreached(p, g) ==
  /\ Listed(p) /\ g \notin client[p].todo
  /\ client[p].offset \in messages /\ start[g] < client[p].offset
  /\ delivery[g][client[p].offset].status = "none"
Missed(o, g) ==
  /\ \A n \in Nodes : g \notin subscribed[n]
  /\ \A x \in Actors :
       actor[x].group = g /\ actor[x].call = "subscribe" =>
         /\ actor[x].pc = "create" => o \in actor[x].todo
         /\ actor[x].pc # "push"
Reach ==
  /\ \A p \in Publishes, g \in Groups : Unreached(p, g) => Missed(client[p].offset, g)
  /\ \A p \in Publishes : client[p].pc = "push" =>
       /\ client[p].group \in Groups
       /\ delivery[client[p].group][client[p].offset].status # "none"

(* A publish that is not delivering has no groups left to deliver to.       *)
Emptied == \A p \in Publishes : client[p].pc \notin {"deliver", "push"} => client[p].todo = {}

(* The inductive invariant.                                                 *)
Ind == Typed /\ Numbering /\ Keys /\ Outcomes /\ Cursors /\ Joining /\ Reach /\ Emptied

-----------------------------------------------------------------------------
(* Spending an offer, a fault or a publish leaves a setting (Offered,       *)
(* Spend).                                                                  *)
LEMMA Spending ==
  ASSUME setting \in SettingType,
         \/ \E call \in Calls : Offered(call)
         \/ \E fault \in Faults : Spend(fault)
         \/ setting.publishes > 0 /\ setting' = [setting EXCEPT !.publishes = @ - 1]
  PROVE  setting' \in SettingType /\ setting'.keyed = setting.keyed
  <1>1. CASE \E call \in Calls : Offered(call)
    <2> PICK call \in Calls : Offered(call) BY <1>1
    <2>1. setting.offers \in [Calls -> Nat] /\ setting.offers[call] \in Nat BY DEF SettingType
    <2>2. setting.offers[call] - 1 \in Nat BY <2>1 DEF Offered
    <2>3. [setting.offers EXCEPT ![call] = @ - 1] \in [Calls -> Nat] BY <2>1, <2>2
    <2>4. setting' = [setting EXCEPT !.offers = [setting.offers EXCEPT ![call] = @ - 1]]
      BY DEF Offered
    <2> QED BY <2>3, <2>4 DEF SettingType
  <1>2. CASE \E fault \in Faults : Spend(fault)
    <2> PICK fault \in Faults : Spend(fault) BY <1>2
    <2>1. setting.budget \in [Faults -> Nat] /\ setting.budget[fault] \in Nat BY DEF SettingType
    <2>2. setting.budget[fault] - 1 \in Nat BY <2>1 DEF Spend
    <2>3. [setting.budget EXCEPT ![fault] = @ - 1] \in [Faults -> Nat] BY <2>1, <2>2
    <2>4. setting' = [setting EXCEPT !.budget = [setting.budget EXCEPT ![fault] = @ - 1]]
      BY DEF Spend
    <2> QED BY <2>3, <2>4 DEF SettingType
  <1>3. CASE setting.publishes > 0 /\ setting' = [setting EXCEPT !.publishes = @ - 1]
    BY <1>3 DEF SettingType
  <1> QED BY <1>1, <1>2, <1>3

(* The empty records have the types of the records they stand for.          *)
LEMMA Nulls ==
  ASSUME Assumption
  PROVE  /\ IdleClient \in ClientType /\ IdleActor \in ActorType /\ IdleRepair \in RepairType
         /\ Absent \in DeliveryRecord /\ Fresh \in DeliveryRecord
         /\ Unknown \in GroupRecord /\ Joined \in GroupRecord
         /\ DelivererOK(IdleDeliverer) /\ 0 \notin Offsets
  <1>1. MaxAttempts \in Nat /\ AttemptCap \in Nat BY DEF Assumption, AttemptCap
  <1>0. 0 \in 0 .. AttemptCap BY <1>1
  <1>9. Fresh \in DeliveryRecord BY <1>0 DEF Fresh, DeliveryRecord, Statuses
  <1>2. Absent \in DeliveryRecord /\ Fresh \in DeliveryRecord
    BY <1>9 DEF Absent, DeliveryRecord, Statuses
  <1>3. Unknown \in GroupRecord /\ Joined \in GroupRecord BY DEF Unknown, Joined, GroupRecord
  <1>4. 0 \notin Offsets BY DEF Offsets
  <1>5. IdleClient \in ClientType BY DEF IdleClient, ClientType
  <1>6. IdleActor \in ActorType BY <1>3 DEF IdleActor, ActorType
  <1>7. IdleRepair \in RepairType BY <1>2 DEF IdleRepair, RepairType
  <1>8. DelivererOK(IdleDeliverer) BY <1>3, <1>4 DEF DelivererOK, IdleDeliverer
  <1> QED BY <1>2, <1>3, <1>4, <1>5, <1>6, <1>7, <1>8

(* createDelivery writes the deliveries it is asked for and no others       *)
(* (CreateAll).                                                             *)
LEMMA Creating ==
  ASSUME Assumption, Typed, NEW g \in Groups, NEW offsets, CreateAll(g, offsets)
  PROVE  /\ delivery' \in [Groups -> [Offsets -> DeliveryRecord]]
         /\ \A h \in Groups, o \in Offsets :
              delivery'[h][o] = IF h = g /\ o \in offsets THEN Fresh ELSE delivery[h][o]
  <1> QED BY Nulls DEF CreateAll, Typed

(* Saving one delivery record writes that one (Put).                        *)
LEMMA Putting ==
  ASSUME Typed, NEW g \in Groups, NEW o, NEW rec, o \in Offsets => rec \in DeliveryRecord,
         Put(g, o, rec)
  PROVE  /\ delivery' \in [Groups -> [Offsets -> DeliveryRecord]]
         /\ \A h \in Groups, q \in Offsets :
              delivery'[h][q] = IF h = g /\ q = o THEN rec ELSE delivery[h][q]
         /\ ended' = [h \in Groups |-> ended'[h]]
         /\ \A h \in Groups :
              ended'[h] = IF h = g /\ rec.status \in Terminal THEN ended[h] \cup {o} ELSE ended[h]
  <1>1. delivery' = [delivery EXCEPT ![g] = [delivery[g] EXCEPT ![o] = rec]] BY DEF Put
  <1>2. [delivery[g] EXCEPT ![o] = rec] \in [Offsets -> DeliveryRecord]
    <2>1. delivery[g] \in [Offsets -> DeliveryRecord] BY DEF Typed
    <2> HIDE DEF DeliveryRecord
    <2>2. CASE o \in Offsets BY <2>1, <2>2
    <2>3. CASE o \notin Offsets BY <2>1, <2>3
    <2> QED BY <2>2, <2>3
  <1>3. \A q \in Offsets : [delivery[g] EXCEPT ![o] = rec][q] = IF q = o THEN rec ELSE delivery[g][q]
    BY DEF Typed
  <1>4. /\ ended' = [h \in Groups |-> ended'[h]]
        /\ \A h \in Groups :
              ended'[h] = IF h = g /\ rec.status \in Terminal THEN ended[h] \cup {o} ELSE ended[h]
    BY DEF Put, Typed
  <1>5. delivery' \in [Groups -> [Offsets -> DeliveryRecord]] BY <1>1, <1>2 DEF Typed
  <1>6. \A h \in Groups, q \in Offsets :
              delivery'[h][q] = IF h = g /\ q = o THEN rec ELSE delivery[h][q]
    BY <1>1, <1>2, <1>3 DEF Typed
  <1> QED BY <1>4, <1>5, <1>6

(* The head never runs past the offsets: who has none finds one left.       *)
LEMMA HeadBounded ==
  ASSUME Assumption, Typed, Numbering
  PROVE  /\ head \in {0} \cup Offsets
         /\ IsFiniteSet(Numbered) /\ Cardinality(Publishes) \in Nat
         /\ \A p \in Publishes : client[p].offset = 0 => head + 1 \in Offsets
  <1>1. IsFiniteSet(Publishes) /\ Numbered \subseteq Publishes BY DEF Assumption, Numbered
  <1>2. /\ IsFiniteSet(Numbered) /\ Cardinality(Numbered) <= Cardinality(Publishes)
        /\ Cardinality(Numbered) \in Nat /\ Cardinality(Publishes) \in Nat
    BY <1>1, FS_Subset, FS_CardinalityType
  <1>3. head \in {0} \cup Offsets BY <1>2 DEF Numbering, Typed, Offsets
  <1>4. ASSUME NEW p \in Publishes, client[p].offset = 0 PROVE head + 1 \in Offsets
    <2>1. p \notin Numbered BY <1>4 DEF Numbered
    <2>2. Numbered # Publishes BY <2>1
    <2>3. Cardinality(Numbered) # Cardinality(Publishes) BY <1>1, <2>2, FS_Subset
    <2> QED BY <1>2, <2>3 DEF Numbering, Typed, Offsets
  <1> QED BY <1>2, <1>3, <1>4

(* publish() keeps the types.                                               *)
LEMMA TypedClients ==
  ASSUME Assumption, Typed, Numbering, NEW p \in Publishes, Publish(p) \/ PublishStep(p)
  PROVE  Typed' /\ setting'.keyed = setting.keyed
  <1> DEFINE c == client[p]
  <1>c. c \in ClientType BY DEF Typed
  <1>n. c.pc \in {"save", "key", "list", "deliver", "push"} => c.offset \in Offsets
    BY <1>c DEF ClientType, Numbering
  <1>1. CASE Publish(p)
    <2>1. setting' \in SettingType /\ setting'.keyed = setting.keyed
      BY <1>1, Spending DEF Publish, Typed
    <2>2. setting.keyed \in BOOLEAN BY DEF Typed, SettingType
    <2>3. client' \in [Publishes -> ClientType] BY <1>1, <1>c, <2>2 DEF Publish, Typed, ClientType
    <2> QED BY <1>1, <2>1, <2>3 DEF Publish, Typed, log, broker
  <1>2. CASE IncrementOffset(p)
    <2>1. c.offset = 0 BY <1>2 DEF Numbering, IncrementOffset
    <2>2. head + 1 \in Offsets BY <2>1, HeadBounded
    <2>3. client' \in [Publishes -> ClientType]
      BY <1>2, <1>c, <2>2 DEF IncrementOffset, Typed, ClientType
    <2>4. head' \in Nat BY <1>2 DEF IncrementOffset, Typed
    <2> QED BY <1>2, <2>3, <2>4 DEF IncrementOffset, Typed, broker
  <1>3. CASE SaveMessage(p)
    <2>1. client' \in [Publishes -> ClientType] BY <1>3, <1>c DEF SaveMessage, Typed, ClientType
    <2>2. messages' \subseteq Offsets BY <1>3, <1>n DEF SaveMessage, Typed
    <2> QED BY <1>3, <2>1, <2>2 DEF SaveMessage, Typed, broker
  <1>4. CASE SaveKey(p)
    <2>1. client' \in [Publishes -> ClientType] BY <1>4, <1>c DEF SaveKey, Typed, ClientType
    <2> QED BY <1>4, <2>1 DEF SaveKey, Typed, broker
  <1>5. CASE ListGroups(p)
    <2>1. client' \in [Publishes -> ClientType] BY <1>5, <1>c DEF ListGroups, Typed, ClientType
    <2> QED BY <1>5, <2>1 DEF ListGroups, Typed, log, broker
  <1>6. CASE PublishDelivery(p)
    <2>1. NextGroup(c, c.group) \in ClientType BY <1>c DEF NextGroup, ClientType
    <2>2. client' \in [Publishes -> ClientType] BY <1>6, <2>1 DEF PublishDelivery, Typed
    <2> QED BY <1>6, <2>2 DEF PublishDelivery, Typed, log
  <1>7. ASSUME NEW g \in Groups, CreateDelivery(p, g) PROVE Typed' /\ UNCHANGED setting
    <2>1. NextGroup(c, g) \in ClientType BY <1>c DEF NextGroup, ClientType
    <2>2. [c EXCEPT !.pc = "push", !.group = g] \in ClientType BY <1>c DEF ClientType
    <2>3. client' \in [Publishes -> ClientType] BY <1>7, <2>1, <2>2 DEF CreateDelivery, Typed
    <2>4. CreateAll(g, Missing(g, {c.offset})) BY <1>7 DEF CreateDelivery
    <2>5. delivery' \in [Groups -> [Offsets -> DeliveryRecord]] BY <2>4, Creating
    <2> QED BY <1>7, <2>3, <2>5 DEF CreateDelivery, Typed, log, broker
  <1> QED BY <1>1, <1>2, <1>3, <1>4, <1>5, <1>6, <1>7
       DEF PublishStep, IncrementOffset, SaveMessage, SaveKey, ListGroups, PublishDelivery

(* subscribe(), pause(), resume() and seek() keep the types.                *)
LEMMA TypedActors ==
  ASSUME Assumption, Typed, Numbering, NEW x \in Actors,
         ActorStep(x) \/ \E call \in Calls \ {"unsubscribe", "revive"}, g \in Groups : Begin(x, call, g)
  PROVE  Typed' /\ setting'.keyed = setting.keyed
  <1> DEFINE a == actor[x]
  <1>a. a \in ActorType /\ (a.pc # "idle" => a.group \in Groups) BY DEF Typed
  <1>g. a.pc # "idle" => group[a.group] \in GroupRecord BY <1>a DEF Typed
  <1>i. IdleActor \in ActorType /\ IdleActor.pc = "idle" BY Nulls DEF IdleActor
  <1>1. ASSUME NEW call \in Calls \ {"unsubscribe", "revive"}, NEW g \in Groups, Begin(x, call, g)
        PROVE  Typed' /\ setting'.keyed = setting.keyed
    <2>1. setting' \in SettingType /\ setting'.keyed = setting.keyed
      BY <1>1, Spending DEF Begin, Typed
    <2>2. group[g] \in GroupRecord /\ head \in {0} \cup Offsets BY HeadBounded DEF Typed
    <2>3. Copied(call, g) \in GroupRecord
      <3>1. CASE call = "subscribe" /\ ~group[g].exists
        BY <2>2, <3>1, Nulls DEF Copied, GroupRecord
      <3>2. CASE call \in {"subscribe", "resume"} /\ group[g].exists
        BY <2>2, <3>2 DEF Copied, GroupRecord
      <3>3. CASE call = "pause" BY <2>2, <3>3 DEF Copied, GroupRecord
      <3>4. CASE call = "earliest" BY <2>2, <3>4 DEF Copied, GroupRecord
      <3>5. CASE call = "latest" BY <2>2, <3>5 DEF Copied, GroupRecord
      <3> QED BY <1>1, <3>1, <3>2, <3>3, <3>4, <3>5 DEF Begin, Calls
    <2>4. /\ actor' \in [Actors -> ActorType]
          /\ \A y \in Actors : actor'[y].pc # "idle" => actor'[y].group \in Groups
      <3>1. PICK places \in BOOLEAN :
              actor' = [actor EXCEPT ![x] = [IdleActor EXCEPT !.pc = "write", !.call = call, !.group = g,
                                               !.copy = Copied(call, g), !.places = places]]
        BY <1>1, <2>2 DEF Begin, GroupRecord
      <3>2. [IdleActor EXCEPT !.pc = "write", !.call = call, !.group = g,
                              !.copy = Copied(call, g), !.places = places] \in ActorType
        BY <1>i, <2>3 DEF ActorType
      <3>3. [IdleActor EXCEPT !.pc = "write", !.call = call, !.group = g,
                              !.copy = Copied(call, g), !.places = places].group = g
        BY DEF IdleActor
      <3> QED BY <3>1, <3>2, <3>3 DEF Typed
    <2> QED BY <1>1, <2>1, <2>4 DEF Begin, Typed, log, broker
  <1>2. CASE WriteGroup(x)
    <2>1. /\ actor' \in [Actors -> ActorType]
          /\ \A y \in Actors : actor'[y].pc # "idle" => actor'[y].group \in Groups
      BY <1>2, <1>a DEF WriteGroup, Typed, ActorType
    <2>2. a.copy \in GroupRecord /\ a.copy.cursor \in {0} \cup Offsets
      BY <1>a DEF ActorType, GroupRecord
    <2>3. group' \in [Groups -> GroupRecord] BY <1>2, <1>a, <2>2 DEF WriteGroup, Typed
    <2>4. start' \in [Groups -> {0} \cup Offsets] BY <1>2, <1>a, <2>2 DEF WriteGroup, Typed, Max2
    <2> QED BY <1>2, <2>1, <2>3, <2>4 DEF WriteGroup, Typed, log, broker
  <1>3. CASE Switch(x)
    <2>1. /\ actor' \in [Actors -> ActorType]
          /\ \A y \in Actors : actor'[y].pc # "idle" => actor'[y].group \in Groups
      <3>1. CASE a.call = "pause" BY <1>3, <3>1, <1>i DEF Switch, Typed
      <3>2. CASE a.call # "pause"
        <4>1. [a EXCEPT !.pc = "list"] \in ActorType BY <1>a DEF ActorType
        <4>2. actor' = [actor EXCEPT ![x] = [a EXCEPT !.pc = "list"]] /\ a.pc # "idle"
          BY <1>3, <3>2 DEF Switch
        <4>3. [a EXCEPT !.pc = "list"].group = a.group BY <1>a DEF ActorType
        <4> QED BY <4>1, <4>2, <4>3, <1>a DEF Typed
      <3> QED BY <3>1, <3>2
    <2> QED BY <1>3, <2>1 DEF Switch, Typed, log
  <1>4. CASE List(x)
    <2>1. {o \in messages : o > group[a.group].cursor} \subseteq Offsets BY DEF Typed
    <2>2. /\ actor' \in [Actors -> ActorType]
          /\ \A y \in Actors : actor'[y].pc # "idle" => actor'[y].group \in Groups
      BY <1>4, <1>a, <1>g, <2>1 DEF List, Typed, ActorType
    <2> QED BY <1>4, <2>2 DEF List, Typed, log, broker
  <1>5. CASE Create(x)
    <2> DEFINE made == IF a.call \in {"earliest", "latest"} THEN a.todo ELSE Missing(a.group, a.todo)
    <2>1. made \subseteq Offsets BY <1>a DEF Missing, ActorType
    <2>2. CreateAll(a.group, made) BY <1>5 DEF Create
    <2>3. a.group \in Groups BY <1>5, <1>a DEF Create
    <2>4. delivery' \in [Groups -> [Offsets -> DeliveryRecord]] BY <2>2, <2>3, Creating
    <2>5. /\ actor' \in [Actors -> ActorType]
          /\ \A y \in Actors : actor'[y].pc # "idle" => actor'[y].group \in Groups
      BY <1>5, <1>a, <2>1 DEF Create, Typed, ActorType
    <2> QED BY <1>5, <2>4, <2>5 DEF Create, Typed, log, broker
  <1>6. CASE Push(x)
    <2>1. /\ actor' \in [Actors -> ActorType]
          /\ \A y \in Actors : actor'[y].pc # "idle" => actor'[y].group \in Groups
      BY <1>6, <1>a, <1>i DEF Push, Typed
    <2>2. subscribed' \in [Nodes -> SUBSET Groups] BY <1>6, <1>a DEF Push, Typed
    <2> QED BY <1>6, <2>1, <2>2 DEF Push, Typed, log
  <1>7. CASE x = Operator /\ Forget
    <2>1. /\ actor' \in [Actors -> ActorType]
          /\ \A y \in Actors : actor'[y].pc # "idle" => actor'[y].group \in Groups
      BY <1>7, <1>a DEF Forget, Typed, ActorType
    <2>2. dead' \in [Groups -> SUBSET Offsets] BY <1>7, <1>a DEF Forget, Typed
    <2> QED BY <1>7, <2>1, <2>2 DEF Forget, Typed, log, broker
  <1> QED BY <1>1, <1>2, <1>3, <1>4, <1>5, <1>6, <1>7
       DEF ActorStep, WriteGroup, Switch, List, Create, Push, Forget

(* pollSubscription and processDelivery keep the types, whatever the broker *)
(* hands out.                                                               *)
LEMMA TypedDeliverers ==
  ASSUME Assumption, Typed, NEW d \in Deliverers, DelivererStep(d)
  PROVE  Typed' /\ setting'.keyed = setting.keyed
  <1> DEFINE x == deliverer[d]
             Whole == /\ deliverer' = [e \in Deliverers |-> deliverer'[e]]
                      /\ \A e \in Deliverers : DelivererOK(deliverer'[e])
  <1>x. DelivererOK(x) BY DEF Typed
  <1>g. x.pc # "idle" => x.group \in Groups /\ group[x.group] \in GroupRecord
    BY <1>x DEF DelivererOK, Typed
  <1>i. DelivererOK(IdleDeliverer) BY Nulls
  <1>s. ASSUME NEW y, deliverer' = [deliverer EXCEPT ![d] = y], DelivererOK(y) PROVE Whole
    BY <1>s DEF Typed
  <1>z. deliverer' = [deliverer EXCEPT ![d] = IdleDeliverer] => Whole BY <1>i, <1>s
  <1>m. ASSUME NEW pc, pc \notin {"lease", "handle"}, x.pc # "idle", Moves(d, pc) PROVE Whole
    <2>1. deliverer' = [deliverer EXCEPT ![d] = [x EXCEPT !.pc = pc]] BY <1>m DEF Moves
    <2>2. DelivererOK([x EXCEPT !.pc = pc]) BY <1>x, <1>m DEF DelivererOK
    <2> QED BY <2>1, <2>2, <1>s
  <1>k. setting' = setting \/ (\E fault \in Faults : Spend(fault)) =>
          setting' \in SettingType /\ setting'.keyed = setting.keyed
    BY Spending DEF Typed
  <1> HIDE DEF Whole
  <1>1. CASE Claim(d)
    <2>0. x.pc = "polling" BY <1>1 DEF Claim
    <2>1. PICK o : \/ deliverer' = [deliverer EXCEPT ![d] = [x EXCEPT !.pc = "claimed", !.offset = o]]
                   \/ deliverer' = [deliverer EXCEPT ![d] = IdleDeliverer]
      BY <1>1 DEF Claim
    <2>2. DelivererOK([x EXCEPT !.pc = "claimed", !.offset = o]) BY <1>x, <2>0 DEF DelivererOK
    <2>3. Whole BY <2>1, <2>2, <1>s, <1>z
    <2> QED BY <1>1, <2>3 DEF Claim, Typed, log, Whole
  <1>2. CASE Load(d)
    <2> DEFINE y == [x EXCEPT !.pc = IF delivery[x.group][x.offset].status \in {"none", "acked"}
                                     THEN "drop" ELSE "lease",
                              !.copy = delivery[x.group][x.offset]]
    <2>1. deliverer' = [deliverer EXCEPT ![d] = y] BY <1>2 DEF Load
    <2>2. x.pc # "idle" BY <1>2 DEF Load, Stage
    <2>3. x.offset \in Offsets => delivery[x.group][x.offset] \in DeliveryRecord
      BY <2>2, <1>g DEF Typed
    <2>4. DelivererOK(y) BY <1>x, <2>2, <2>3 DEF DelivererOK
    <2>5. Whole BY <2>1, <2>4, <1>s
    <2> QED BY <1>2, <2>5 DEF Load, Typed, log, broker, Whole
  <1>3. CASE Lease(d)
    <2> DEFINE g == x.group  o == x.offset  copy == x.copy
               leased == [copy EXCEPT !.status = "leased", !.overdue = FALSE,
                            !.attempt = IF @ < AttemptCap THEN @ + 1 ELSE @]
               over(status) == [copy EXCEPT !.status = status, !.due = FALSE, !.overdue = FALSE]
               y == [x EXCEPT !.pc = "handle", !.copy = leased]
    <2>1. x.pc = "lease" /\ g \in Groups BY <1>3, <1>g DEF Lease, Stage
    <2>2. o \in Offsets => copy \in DeliveryRecord BY <1>x, <2>1 DEF DelivererOK
    <2>3. o \in Offsets => leased \in DeliveryRecord
      <3>1. o \in Offsets =>
              (IF copy.attempt < AttemptCap THEN copy.attempt + 1 ELSE copy.attempt) \in 0 .. AttemptCap
        BY <2>2 DEF DeliveryRecord, Assumption, AttemptCap
      <3> QED BY <2>2, <3>1 DEF DeliveryRecord, Statuses
    <2>4. o \in Offsets => over("discarded") \in DeliveryRecord /\ over("filtered") \in DeliveryRecord
      BY <2>2 DEF DeliveryRecord, Statuses, Terminal
    <2>5. DelivererOK(y) BY <1>x, <2>1, <2>3 DEF DelivererOK
    <2>6. \/ Put(g, o, over("discarded")) /\ Moves(d, "drop") /\ UNCHANGED setting
          \/ Put(g, o, over("filtered")) /\ Moves(d, "ack") /\ Spend("filter")
          \/ Put(g, o, leased) /\ deliverer' = [deliverer EXCEPT ![d] = y] /\ UNCHANGED setting
      BY <1>3 DEF Lease, Verdict
    <2>7. Whole BY <2>1, <2>5, <2>6, <1>m, <1>s
    <2>8. setting' \in SettingType /\ setting'.keyed = setting.keyed BY <2>6, <1>k DEF Faults
    <2>9. /\ delivery' \in [Groups -> [Offsets -> DeliveryRecord]]
          /\ ended' = [h \in Groups |-> ended'[h]]
      BY <2>1, <2>3, <2>4, <2>6, Putting
    <2> QED BY <1>3, <2>7, <2>8, <2>9 DEF Lease, Typed, log, broker, Whole
  <1>4. CASE Handle(d)
    <2> DEFINE g == x.group  o == x.offset  copy == x.copy
               again == [copy EXCEPT !.status = "pending", !.due = TRUE, !.overdue = FALSE]
               over(status) == [copy EXCEPT !.status = status, !.due = FALSE, !.overdue = FALSE]
               buried == [copy EXCEPT !.status = "dead"]
    <2>1. x.pc = "handle" /\ g \in Groups BY <1>4, <1>g DEF Handle, Stage
    <2>2. o \in Offsets => copy \in DeliveryRecord BY <1>x, <2>1 DEF DelivererOK
    <2>3. o \in Offsets => /\ again \in DeliveryRecord /\ buried \in DeliveryRecord
                           /\ over("acked") \in DeliveryRecord /\ over("discarded") \in DeliveryRecord
      BY <2>2 DEF DeliveryRecord, Statuses, Terminal
    <2>4. PICK pc \in {"ack", "nack", "bury"}, rec \in {again, buried, over("acked"), over("discarded")} :
            Put(g, o, rec) /\ Moves(d, pc)
      BY <1>4 DEF Handle, Verdict
    <2>5. setting' = setting \/ Spend("discard") \/ Spend("nack") BY <1>4 DEF Handle
    <2>6. setting' \in SettingType /\ setting'.keyed = setting.keyed BY <2>5, <1>k DEF Faults
    <2>7. Whole BY <2>1, <2>4, <1>m
    <2>8. /\ delivery' \in [Groups -> [Offsets -> DeliveryRecord]]
          /\ ended' = [h \in Groups |-> ended'[h]]
      BY <2>1, <2>3, <2>4, Putting
    <2> QED BY <1>4, <2>6, <2>7, <2>8 DEF Handle, Typed, log, broker, Whole
  <1>5. CASE Bury(d)
    <2>1. x.pc # "idle" /\ Moves(d, "ack") BY <1>5 DEF Bury, Stage
    <2>2. Whole BY <2>1, <1>m
    <2>3. dead' \in [Groups -> SUBSET Offsets] BY <1>5, <2>1, <1>g DEF Bury, Typed
    <2> QED BY <1>5, <2>2, <2>3 DEF Bury, Typed, log, broker, Whole
  <1>6. CASE Settle(d)
    <2>1. x.pc # "idle" BY <1>6 DEF Settle, Stage
    <2>2. Moves(d, "read") \/ deliverer' = [deliverer EXCEPT ![d] = IdleDeliverer]
      BY <1>6 DEF Settle
    <2>3. Whole BY <2>1, <2>2, <1>m, <1>z
    <2> QED BY <1>6, <2>3 DEF Settle, Typed, log, Whole
  <1>7. CASE ReadCursor(d)
    <2> DEFINE y == [x EXCEPT !.pc = "walk", !.record = group[x.group]]
    <2>1. x.pc # "idle" /\ deliverer' = [deliverer EXCEPT ![d] = y] BY <1>7 DEF ReadCursor, Stage
    <2>2. DelivererOK(y) BY <2>1, <1>x, <1>g DEF DelivererOK
    <2>3. Whole BY <2>1, <2>2, <1>s
    <2> QED BY <1>7, <2>3 DEF ReadCursor, Typed, log, broker, Whole
  <1>8. CASE Walk(d)
    <2> DEFINE next == x.record.cursor + 1
               y == [x EXCEPT !.record = [x.record EXCEPT !.cursor = next]]
    <2>1. x.pc # "idle" /\ x.record \in GroupRecord BY <1>8, <1>x DEF Walk, Stage, DelivererOK
    <2>2. CASE Passes(x.group, next)
      <3>1. next \in Offsets BY <2>2 DEF Passes
      <3>2. [x.record EXCEPT !.cursor = next] \in GroupRecord BY <2>1, <3>1 DEF GroupRecord
      <3>3. deliverer' = [deliverer EXCEPT ![d] = y] /\ UNCHANGED group BY <1>8, <2>2 DEF Walk
      <3>4. DelivererOK(y) BY <1>x, <2>1, <3>2 DEF DelivererOK
      <3>5. Whole BY <3>3, <3>4, <1>s
      <3> QED BY <1>8, <3>3, <3>5 DEF Walk, Typed, log, broker, Whole
    <2>3. CASE ~Passes(x.group, next)
      <3>1. Whole BY <1>8, <2>3, <1>z DEF Walk
      <3>2. group' \in [Groups -> GroupRecord] BY <1>8, <2>1, <2>3, <1>g DEF Walk, Typed
      <3> QED BY <1>8, <3>1, <3>2 DEF Walk, Typed, log, broker, Whole
    <2> QED BY <2>2, <2>3
  <1> QED BY <1>1, <1>2, <1>3, <1>4, <1>5, <1>6, <1>7, <1>8
       DEF DelivererStep, Claim, Load, Bury, Settle, ReadCursor, Walk

(* Dead letters, reconciliation, retention, crashes and time keep the       *)
(* types.                                                                   *)
LEMMA TypedOthers ==
  ASSUME Assumption, Typed,
         \/ \E g \in Groups, o \in Offsets : Revive(g, o) \/ Overdue(g, o) \/ ClaimExpires(g, o)
         \/ \E n \in Nodes : Crash(n) \/ \E g \in Groups : PollAny(n, g) \/ Unsubscribe(n, g)
         \/ RepairStep \/ \E o \in Offsets : Expire(o)
  PROVE  Typed' /\ setting'.keyed = setting.keyed
  <1>k. (setting' = setting \/ (\E fault \in Faults : Spend(fault)) \/ \E call \in Calls : Offered(call)) =>
          setting' \in SettingType /\ setting'.keyed = setting.keyed
    BY Spending DEF Typed
  <1>i. /\ IdleActor \in ActorType /\ IdleActor.pc = "idle" /\ IdleRepair \in RepairType
        /\ IdleRepair.pc = "idle" /\ DelivererOK(IdleDeliverer)
    BY Nulls DEF IdleActor, IdleRepair
  <1>1. ASSUME NEW g \in Groups, NEW o \in Offsets, Revive(g, o)
        PROVE  Typed' /\ setting'.keyed = setting.keyed
    <2> DEFINE rec == [delivery[g][o] EXCEPT !.status = "pending", !.due = FALSE]
               y == [IdleActor EXCEPT !.pc = "forget", !.call = "revive", !.group = g, !.todo = {o}]
    <2>1. setting' \in SettingType /\ setting'.keyed = setting.keyed BY <1>1, <1>k DEF Revive, Calls
    <2>0. delivery[g][o] \in DeliveryRecord BY DEF Typed
    <2>2. rec \in DeliveryRecord BY <2>0 DEF DeliveryRecord, Statuses
    <2>3. /\ delivery' \in [Groups -> [Offsets -> DeliveryRecord]]
          /\ ended' = [h \in Groups |-> ended'[h]]
      BY <1>1, <2>2, Putting DEF Revive
    <2>4. y \in ActorType /\ y.group = g BY <1>i DEF ActorType, Calls, IdleActor
    <2>5. actor' = [actor EXCEPT ![Operator] = y] BY <1>1 DEF Revive
    <2>6. /\ actor' \in [Actors -> ActorType]
          /\ \A z \in Actors : actor'[z].pc # "idle" => actor'[z].group \in Groups
      BY <2>4, <2>5 DEF Typed
    <2> QED BY <1>1, <2>1, <2>3, <2>6 DEF Revive, Typed, log, broker
  <1>2. ASSUME NEW g \in Groups, NEW o \in Offsets, Overdue(g, o)
        PROVE  Typed' /\ setting'.keyed = setting.keyed
    <2>1. setting' \in SettingType /\ setting'.keyed = setting.keyed
      BY <1>2, <1>k DEF Overdue, Faults
    <2>2. delivery' = [delivery EXCEPT ![g] =
                         [delivery[g] EXCEPT ![o] = [delivery[g][o] EXCEPT !.overdue = TRUE]]]
      BY <1>2 DEF Overdue, Typed
    <2>0. delivery[g][o] \in DeliveryRecord BY DEF Typed
    <2>3. [delivery[g][o] EXCEPT !.overdue = TRUE] \in DeliveryRecord BY <2>0 DEF DeliveryRecord
    <2>4. delivery' \in [Groups -> [Offsets -> DeliveryRecord]] BY <2>2, <2>3 DEF Typed
    <2> QED BY <1>2, <2>1, <2>4 DEF Overdue, Typed, log, broker
  <1>3. ASSUME NEW g \in Groups, NEW o \in Offsets, ClaimExpires(g, o) PROVE Typed' /\ UNCHANGED setting
    BY <1>3 DEF ClaimExpires, Typed, log
  <1>4. ASSUME NEW n \in Nodes, Crash(n) PROVE Typed' /\ setting'.keyed = setting.keyed
    <2>1. setting' \in SettingType /\ setting'.keyed = setting.keyed BY <1>4, <1>k DEF Crash, Faults
    <2>2. subscribed' \in [Nodes -> SUBSET Groups] BY <1>4 DEF Crash, Typed
    <2>3. /\ actor' \in [Actors -> ActorType]
          /\ \A z \in Actors : actor'[z].pc # "idle" => actor'[z].group \in Groups
      BY <1>4, <1>i DEF Crash, Typed
    <2>4. /\ deliverer' = [e \in Deliverers |-> deliverer'[e]]
          /\ \A e \in Deliverers : DelivererOK(deliverer'[e])
      BY <1>4, <1>i DEF Crash, Typed
    <2> QED BY <1>4, <2>1, <2>2, <2>3, <2>4 DEF Crash, Typed, log, broker
  <1>5. ASSUME NEW n \in Nodes, NEW g \in Groups, PollAny(n, g) PROVE Typed' /\ UNCHANGED setting
    <2> DEFINE y == [IdleDeliverer EXCEPT !.pc = "polling", !.node = n, !.group = g]
    <2>1. PICK d : d \in IdleDeliverers /\ Poll(n, g, d) BY <1>5 DEF PollAny
    <2>2. d \in Deliverers BY <2>1 DEF IdleDeliverers
    <2>3. DelivererOK(y) BY <1>i DEF DelivererOK, IdleDeliverer
    <2>4. deliverer' = [deliverer EXCEPT ![d] = y] BY <2>1 DEF Poll
    <2>5. /\ deliverer' = [e \in Deliverers |-> deliverer'[e]]
          /\ \A e \in Deliverers : DelivererOK(deliverer'[e])
      BY <2>2, <2>3, <2>4 DEF Typed
    <2> QED BY <2>1, <2>5 DEF Poll, Typed, log, broker
  <1>6. ASSUME NEW n \in Nodes, NEW g \in Groups, Unsubscribe(n, g) PROVE Typed' /\ setting'.keyed = setting.keyed
    <2>1. setting' \in SettingType /\ setting'.keyed = setting.keyed
      BY <1>6, <1>k DEF Unsubscribe, Calls
    <2>2. subscribed' \in [Nodes -> SUBSET Groups] BY <1>6 DEF Unsubscribe, Typed
    <2>3. /\ deliverer' = [e \in Deliverers |-> deliverer'[e]]
          /\ \A e \in Deliverers : \E old : deliverer'[e] = [deliverer[e] EXCEPT !.old = old]
      BY <1>6 DEF Unsubscribe, Orphaned
    <2>4. \A e \in Deliverers : DelivererOK(deliverer'[e]) BY <2>3 DEF DelivererOK, Typed
    <2> QED BY <1>6, <2>1, <2>2, <2>3, <2>4 DEF Unsubscribe, Typed, log, broker
  <1>7. ASSUME NEW g \in Groups, NEW o \in Offsets, Scan(g, o) PROVE Typed' /\ setting'.keyed = setting.keyed
    <2>1. setting' \in SettingType /\ setting'.keyed = setting.keyed BY <1>7, <1>k DEF Scan, Faults
    <2>2. delivery[g][o] \in DeliveryRecord BY DEF Typed
    <2>3. repair' \in RepairType /\ repair'.group \in Groups /\ repair'.offset \in Offsets
      BY <1>7, <2>2 DEF Scan, RepairType
    <2> QED BY <1>7, <2>1, <2>3 DEF Scan, Typed, log, broker
  <1>8. CASE RepairSave
    <2> DEFINE rec == [repair.copy EXCEPT !.status = "pending", !.overdue = FALSE]
    <2>1. repair.group \in Groups /\ repair.offset \in Offsets /\ repair \in RepairType
      BY <1>8 DEF RepairSave, Typed
    <2>2. rec \in DeliveryRecord BY <2>1 DEF RepairType, DeliveryRecord, Statuses
    <2>3. /\ delivery' \in [Groups -> [Offsets -> DeliveryRecord]]
          /\ ended' = [h \in Groups |-> ended'[h]]
      BY <1>8, <2>1, <2>2, Putting DEF RepairSave
    <2>4. repair' \in RepairType /\ repair'.group \in Groups /\ repair'.offset \in Offsets
      BY <1>8, <2>1 DEF RepairSave, RepairType
    <2> QED BY <1>8, <2>3, <2>4 DEF RepairSave, Typed, log, broker
  <1>9. CASE RepairPublish BY <1>9, <1>i DEF RepairPublish, Typed, log
  <1>10. ASSUME NEW o \in Offsets, Expire(o) PROVE Typed' /\ setting'.keyed = setting.keyed
    <2>1. setting' \in SettingType /\ setting'.keyed = setting.keyed
      BY <1>10, <1>k DEF Expire, Faults
    <2> QED BY <1>10, <2>1 DEF Expire, Typed, broker
  <1> QED
    BY <1>1, <1>2, <1>3, <1>4, <1>5, <1>6, <1>7, <1>8, <1>9, <1>10 DEF RepairStep, RepairPublish

-----------------------------------------------------------------------------
(* The four kinds of step.                                                  *)
ClientMoves == \E p \in Publishes : Publish(p) \/ PublishStep(p)
ActorMoves ==
  \E x \in Actors :
    ActorStep(x) \/ \E call \in Calls \ {"unsubscribe", "revive"}, g \in Groups : Begin(x, call, g)
DelivererMoves == \E d \in Deliverers : DelivererStep(d)
OtherMoves ==
  \/ \E g \in Groups, o \in Offsets : Revive(g, o) \/ Overdue(g, o) \/ ClaimExpires(g, o)
  \/ \E n \in Nodes : Crash(n) \/ \E g \in Groups : PollAny(n, g) \/ Unsubscribe(n, g)
  \/ RepairStep \/ \E o \in Offsets : Expire(o)

(* Every step is one of the four.                                           *)
LEMMA Moves4 == Next <=> ClientMoves \/ ActorMoves \/ DelivererMoves \/ OtherMoves
  BY DEF Next, ClientMoves, ActorMoves, DelivererMoves, OtherMoves

(* Every step keeps the types, and no step changes whether the topic is     *)
(* keyed.                                                                   *)
LEMMA TypedStep ==
  ASSUME Assumption, Typed, Numbering, Next
  PROVE  Typed' /\ setting'.keyed = setting.keyed
  BY Moves4, TypedClients, TypedActors, TypedDeliverers, TypedOthers
     DEF ClientMoves, ActorMoves, DelivererMoves, OtherMoves

(* What a publish() leaves alone.                                           *)
LEMMA ClientsAlone ==
  ASSUME ClientMoves
  PROVE  UNCHANGED <<group, subscribed, actor, deliverer, repair, start, ended>>
  BY DEF ClientMoves, PublishStep, Publish, IncrementOffset, SaveMessage, SaveKey, ListGroups,
         PublishDelivery, CreateDelivery

(* What a call of the topic's API leaves alone.                             *)
LEMMA ActorsAlone ==
  ASSUME ActorMoves
  PROVE  UNCHANGED <<head, messages, keyStored, client, deliverer, repair, ended>>
  BY DEF ActorMoves, ActorStep, Begin, WriteGroup, Switch, List, Create, Push, Forget, log

(* What a delivery leaves alone.                                            *)
LEMMA DeliverersAlone ==
  ASSUME DelivererMoves
  PROVE  UNCHANGED <<head, messages, keyStored, client, subscribed, actor, repair, start>>
 
    BY DEF DelivererMoves, DelivererStep, Claim, Load, Lease, Handle, Bury, Settle, ReadCursor, Walk, log

(* What time, faults and repairs leave alone; messages only leave the log.  *)
LEMMA OthersAlone ==
  ASSUME OtherMoves
  PROVE  UNCHANGED <<head, keyStored, client, group, start>> /\ messages' \subseteq messages
  BY DEF OtherMoves, Revive, Overdue, ClaimExpires, Crash, PollAny, Poll, Unsubscribe, RepairStep,
         Scan, RepairSave, RepairPublish, Expire, log

(* Offsets stay unique and in step with the head (IncrementOffset).         *)
LEMMA NumberingStep ==
  ASSUME Assumption, Typed, Numbering, Next
  PROVE  Numbering'
  <1>1. CASE UNCHANGED <<head, client>> BY <1>1 DEF Numbering, Numbered
  <1>2. ASSUME NEW p \in Publishes, Publish(p) \/ PublishStep(p) PROVE Numbering'
    <2> DEFINE c == client[p]
    <2>0. /\ client \in [Publishes -> ClientType] /\ c \in ClientType /\ head \in Nat
          /\ \A q \in Publishes : client[q].offset \in Nat
      BY DEF Typed, ClientType, Offsets
    <2>1. CASE IncrementOffset(p)
      <3>1. c.pc = "count" /\ c.offset = 0 /\ p \notin Numbered
        BY <2>1 DEF IncrementOffset, Numbering, Numbered
      <3>2. /\ head' = head + 1 /\ client'[p].pc = "save" /\ client'[p].offset = head + 1
            /\ \A q \in Publishes : q # p => client'[q] = client[q]
        BY <2>0, <2>1 DEF IncrementOffset, ClientType
      <3>3. Numbered' = Numbered \cup {p} BY <2>0, <3>2 DEF Numbered
      <3>4. Cardinality(Numbered') = Cardinality(Numbered) + 1
        BY <3>1, <3>3, HeadBounded, FS_AddElement
      <3>5. head' = Cardinality(Numbered') BY <3>2, <3>4 DEF Numbering
      <3> QED BY <2>0, <3>2, <3>5 DEF Numbering
    <2>2. CASE ~IncrementOffset(p)
      <3>1. /\ head' = head /\ client'[p].offset = c.offset
            /\ c.offset = 0 => c.pc = "idle" /\ client'[p].pc \in {"count", "done"}
            /\ c.offset # 0 => client'[p].pc \notin {"idle", "count"}
            /\ \A q \in Publishes : q # p => client'[q] = client[q]
        <4>1. CASE Publish(p) BY <2>0, <4>1 DEF Publish, Numbering, ClientType, log
        <4>2. c.pc \in {"save", "key", "list", "deliver", "push"} => c.offset # 0
          BY <2>0 DEF Numbering, ClientType
        <4>3. CASE SaveMessage(p) BY <2>0, <4>2, <4>3 DEF SaveMessage, ClientType
        <4>4. CASE SaveKey(p) BY <2>0, <4>2, <4>4 DEF SaveKey, ClientType
        <4>5. CASE ListGroups(p) BY <2>0, <4>2, <4>5 DEF ListGroups, ClientType, log
        <4>6. CASE PublishDelivery(p)
          BY <2>0, <4>2, <4>6 DEF PublishDelivery, NextGroup, ClientType, log
        <4>7. ASSUME NEW g \in Groups, CreateDelivery(p, g)
              PROVE  /\ head' = head /\ client'[p].offset = c.offset
                     /\ c.pc = "deliver" /\ client'[p].pc \notin {"idle", "count"}
                     /\ \A q \in Publishes : q # p => client'[q] = client[q]
          BY <2>0, <4>7 DEF CreateDelivery, NextGroup, ClientType, log
        <4> QED BY <1>2, <2>2, <4>1, <4>2, <4>3, <4>4, <4>5, <4>6, <4>7 DEF PublishStep
      <3>2. \A q \in Publishes : client'[q].offset = client[q].offset BY <3>1
      <3>3. Numbered' = Numbered BY <3>2 DEF Numbered
      <3> QED BY <2>0, <3>1, <3>2, <3>3 DEF Numbering
    <2> QED BY <2>1, <2>2
  <1> QED BY <1>1, <1>2, Moves4, ActorsAlone, DeliverersAlone, OthersAlone DEF ClientMoves

(* The key is saved before a publish can return, so a retry finds it        *)
(* (SaveKey).                                                               *)
LEMMA KeysStep ==
  ASSUME Assumption, Typed, Numbering, Keys, Next
  PROVE  Keys'
  <1>0. setting'.keyed = setting.keyed BY TypedStep
  <1>1. CASE UNCHANGED <<keyStored, client>> BY <1>0, <1>1 DEF Keys
  <1>2. ASSUME NEW p \in Publishes, Publish(p) \/ PublishStep(p) PROVE Keys'
    <2> DEFINE c == client[p]
    <2>0. client \in [Publishes -> ClientType] /\ c \in ClientType BY DEF Typed
    <2>1. CASE Publish(p)
      <3>1. setting.keyed /\ Returned # {} => keyStored BY DEF Keys, Returned
      <3>2. c.offset = 0 BY <2>1 DEF Publish, Numbering
      <3> QED BY <1>0, <2>0, <2>1, <3>1, <3>2 DEF Publish, Keys, ClientType, log
    <2>2. CASE ~Publish(p)
      <3>1. c.pc \notin {"idle", "done"}
       
          BY <1>2, <2>2 DEF PublishStep, IncrementOffset, SaveMessage, SaveKey, ListGroups, PublishDelivery,
                          CreateDelivery
      <3>2. ~c.retry BY <3>1 DEF Keys
      <3>3. /\ \A q \in Publishes : q # p => client'[q] = client[q]
            /\ ~client'[p].retry
            /\ keyStored => keyStored'
            /\ setting.keyed /\ client'[p].pc \in {"list", "deliver", "push", "done"} => keyStored'
        <4>1. CASE IncrementOffset(p) BY <2>0, <3>2, <4>1 DEF IncrementOffset, ClientType
        <4>2. CASE SaveMessage(p) BY <2>0, <3>2, <4>2 DEF SaveMessage, ClientType
        <4>3. CASE SaveKey(p) BY <2>0, <3>2, <4>3 DEF SaveKey, ClientType
        <4>4. CASE ListGroups(p) BY <2>0, <3>2, <4>4 DEF ListGroups, Keys, ClientType, log
        <4>5. CASE PublishDelivery(p)
          BY <2>0, <3>2, <4>5 DEF PublishDelivery, NextGroup, Keys, ClientType, log
        <4>6. ASSUME NEW g \in Groups, CreateDelivery(p, g)
              PROVE  /\ \A q \in Publishes : q # p => client'[q] = client[q]
                     /\ ~client'[p].retry /\ keyStored' = keyStored /\ c.pc = "deliver"
          BY <2>0, <3>2, <4>6 DEF CreateDelivery, NextGroup, ClientType, log
        <4> QED BY <1>2, <2>2, <4>1, <4>2, <4>3, <4>4, <4>5, <4>6 DEF PublishStep, Keys
      <3> QED BY <1>0, <3>3 DEF Keys
    <2> QED BY <2>1, <2>2
  <1> QED BY <1>1, <1>2, Moves4, ActorsAlone, DeliverersAlone, OthersAlone DEF ClientMoves

(* A delivery, once made, stays, and so does the record that it ended.      *)
Made(g, o) == delivery[g][o].status # "none"
Lasting ==
  \A g \in Groups, o \in Offsets :
    (o \in ended[g] => o \in ended'[g]) /\ (Made(g, o) => Made(g, o)')

(* Creating deliveries undoes no outcome.                                   *)
LEMMA CreatedOutcomes ==
  ASSUME Assumption, Typed, Outcomes, NEW g \in Groups, NEW offsets, CreateAll(g, offsets), ended' = ended
  PROVE  /\ Outcomes' /\ Lasting
         /\ \A o \in Offsets \cap offsets : Made(g, o)'
         /\ \A h \in Groups, o \in Offsets : h # g \/ o \notin offsets => delivery'[h][o] = delivery[h][o]
  <1>1. \A h \in Groups, o \in Offsets :
          delivery'[h][o] = IF h = g /\ o \in offsets THEN Fresh ELSE delivery[h][o]
    BY Creating
  <1>2. Fresh.status = "pending" /\ "pending" \notin Terminal BY DEF Fresh, Terminal
  <1> QED BY <1>1, <1>2 DEF Outcomes, Lasting, Made

(* Saving a delivery record undoes no outcome, and notes one it states.     *)
LEMMA PutOutcomes ==
  ASSUME Typed, Outcomes, NEW g \in Groups, NEW o, NEW rec,
         o \in Offsets => rec \in DeliveryRecord /\ rec.status # "none", Put(g, o, rec)
  PROVE  Outcomes' /\ Lasting
  <1>0. o \in Offsets => rec \in DeliveryRecord OBVIOUS
  <1>1. /\ delivery' \in [Groups -> [Offsets -> DeliveryRecord]]
        /\ \A h \in Groups, q \in Offsets :
             delivery'[h][q] = IF h = g /\ q = o THEN rec ELSE delivery[h][q]
        /\ ended' = [h \in Groups |-> ended'[h]]
        /\ \A h \in Groups :
             ended'[h] = IF h = g /\ rec.status \in Terminal THEN ended[h] \cup {o} ELSE ended[h]
    BY <1>0, Putting
  <1>2. "none" \notin Terminal BY DEF Terminal
  <1>3. ASSUME NEW h \in Groups, NEW q \in Offsets
        PROVE  /\ delivery'[h][q].status \in Terminal => q \in ended'[h]
               /\ q \in ended'[h] => delivery'[h][q].status # "none"
               /\ q \in ended[h] => q \in ended'[h]
               /\ delivery[h][q].status # "none" => delivery'[h][q].status # "none"
    <2>1. CASE h = g /\ q = o BY <1>1, <1>2, <2>1 DEF Outcomes
    <2>2. CASE ~(h = g /\ q = o) BY <1>1, <2>2 DEF Outcomes
    <2> QED BY <2>1, <2>2
  <1> QED BY <1>3 DEF Outcomes, Lasting, Made

(* No step undoes a delivery or an outcome.                                 *)
LEMMA OutcomesStep ==
  ASSUME Assumption, Typed, Outcomes, Next
  PROVE  Outcomes' /\ Lasting
  <1>0. CASE UNCHANGED <<delivery, ended>> BY <1>0 DEF Outcomes, Lasting, Made
  <1>1. ASSUME NEW p \in Publishes, Publish(p) \/ PublishStep(p) PROVE Outcomes' /\ Lasting
    <2>1. CASE UNCHANGED <<delivery, ended>> BY <2>1, <1>0
    <2>2. ASSUME NEW g \in Groups, CreateDelivery(p, g) PROVE Outcomes' /\ Lasting
      <3>1. CreateAll(g, Missing(g, {client[p].offset})) /\ ended' = ended
        BY <2>2 DEF CreateDelivery
      <3> QED BY <3>1, CreatedOutcomes
    <2> QED
      BY <1>1, <2>1, <2>2 DEF PublishStep, Publish, IncrementOffset, SaveMessage, SaveKey, ListGroups,
                                    PublishDelivery
  <1>2. ASSUME NEW x \in Actors,
               ActorStep(x) \/ \E call \in Calls \ {"unsubscribe", "revive"}, g \in Groups : Begin(x, call, g)
        PROVE  Outcomes' /\ Lasting
    <2>1. CASE UNCHANGED <<delivery, ended>> BY <2>1, <1>0
    <2>2. CASE Create(x)
      <3>1. actor[x].group \in Groups BY <2>2 DEF Create, Typed
      <3>2. \E offsets : CreateAll(actor[x].group, offsets) /\ ended' = ended BY <2>2 DEF Create
      <3> QED BY <3>1, <3>2, CreatedOutcomes
    <2> QED BY <1>2, <2>1, <2>2 DEF ActorStep, Begin, WriteGroup, Switch, List, Push, Forget
  <1>3. ASSUME NEW d \in Deliverers, DelivererStep(d) PROVE Outcomes' /\ Lasting
    <2> DEFINE x == deliverer[d]
               over(status) == [x.copy EXCEPT !.status = status, !.due = FALSE, !.overdue = FALSE]
    <2>0. DelivererOK(x) BY DEF Typed
    <2>1. CASE UNCHANGED <<delivery, ended>> BY <2>1, <1>0
    <2>2. CASE Lease(d)
      <3> DEFINE leased == [x.copy EXCEPT !.status = "leased", !.overdue = FALSE,
                              !.attempt = IF @ < AttemptCap THEN @ + 1 ELSE @]
      <3>1. x.pc = "lease" /\ x.group \in Groups BY <2>0, <2>2 DEF Lease, Stage, DelivererOK
      <3>2. x.offset \in Offsets => x.copy \in DeliveryRecord BY <2>0, <3>1 DEF DelivererOK
      <3>3. x.offset \in Offsets =>
              (IF x.copy.attempt < AttemptCap THEN x.copy.attempt + 1 ELSE x.copy.attempt) \in 0 .. AttemptCap
        BY <3>2 DEF DeliveryRecord, Assumption, AttemptCap
      <3>4. PICK rec \in {over("discarded"), over("filtered"), leased} : Put(x.group, x.offset, rec)
        BY <2>2 DEF Lease, Verdict
      <3>5. x.offset \in Offsets => rec \in DeliveryRecord /\ rec.status # "none"
        BY <3>2, <3>3, <3>4 DEF DeliveryRecord, Statuses, Terminal
      <3> QED BY <3>1, <3>4, <3>5, PutOutcomes
    <2>3. CASE Handle(d)
      <3> DEFINE again == [x.copy EXCEPT !.status = "pending", !.due = TRUE, !.overdue = FALSE]
                 buried == [x.copy EXCEPT !.status = "dead"]
      <3>1. x.pc = "handle" /\ x.group \in Groups BY <2>0, <2>3 DEF Handle, Stage, DelivererOK
      <3>2. x.offset \in Offsets => x.copy \in DeliveryRecord BY <2>0, <3>1 DEF DelivererOK
      <3>3. PICK rec \in {over("acked"), over("discarded"), again, buried} : Put(x.group, x.offset, rec)
        BY <2>3 DEF Handle, Verdict
      <3>4. x.offset \in Offsets => rec \in DeliveryRecord /\ rec.status # "none"
        BY <3>2, <3>3 DEF DeliveryRecord, Statuses, Terminal
      <3> QED BY <3>1, <3>3, <3>4, PutOutcomes
    <2> QED BY <1>3, <2>1, <2>2, <2>3 DEF DelivererStep, Claim, Load, Bury, Settle, ReadCursor, Walk
  <1>4. CASE OtherMoves
    <2>1. CASE UNCHANGED <<delivery, ended>> BY <2>1, <1>0
    <2>2. ASSUME NEW g \in Groups, NEW o \in Offsets, Revive(g, o) PROVE Outcomes' /\ Lasting
      <3> DEFINE rec == [delivery[g][o] EXCEPT !.status = "pending", !.due = FALSE]
      <3>0. delivery[g][o] \in DeliveryRecord BY DEF Typed
      <3>1. rec \in DeliveryRecord /\ rec.status # "none" BY <3>0 DEF DeliveryRecord, Statuses
      <3>2. Put(g, o, rec) BY <2>2 DEF Revive
      <3> QED BY <3>1, <3>2, PutOutcomes
    <2>3. ASSUME NEW g \in Groups, NEW o \in Offsets, Overdue(g, o) PROVE Outcomes' /\ Lasting
      <3>0. delivery[g][o] \in DeliveryRecord BY DEF Typed
      <3>1. \A h \in Groups, q \in Offsets : delivery'[h][q].status = delivery[h][q].status
        BY <2>3, <3>0 DEF Overdue, Typed, DeliveryRecord
      <3> QED BY <2>3, <3>1 DEF Overdue, Outcomes, Lasting, Made
    <2>4. CASE RepairSave
      <3> DEFINE rec == [repair.copy EXCEPT !.status = "pending", !.overdue = FALSE]
      <3>1. repair.group \in Groups /\ repair.copy \in DeliveryRecord
        BY <2>4 DEF RepairSave, Typed, RepairType
      <3>2. rec \in DeliveryRecord /\ rec.status # "none" BY <3>1 DEF DeliveryRecord, Statuses
      <3>3. Put(repair.group, repair.offset, rec) BY <2>4 DEF RepairSave
      <3> QED BY <3>1, <3>2, <3>3, PutOutcomes
    <2> QED BY <1>4, <2>1, <2>2, <2>3, <2>4
         DEF OtherMoves, ClaimExpires, Crash, PollAny, Poll, Unsubscribe, RepairStep, Scan, RepairPublish, Expire
  <1> QED BY <1>1, <1>2, <1>3, <1>4, Moves4 DEF ClientMoves, ActorMoves, DelivererMoves

(* Behind, of a cursor that is given and the state after the step.          *)
StaysBehind(cursor, g) ==
  \A o \in Offsets : start'[g] < o /\ o <= cursor => o \in ended'[g]

(* A cursor stays behind outcomes when the group's starting point only      *)
(* grows.                                                                   *)
LEMMA BehindLasts ==
  ASSUME Typed, Typed', Lasting, NEW g \in Groups, NEW cursor \in Nat, Behind(cursor, g),
         start[g] <= start'[g]
  PROVE  StaysBehind(cursor, g)
  <1>1. start[g] \in Nat /\ start'[g] \in Nat /\ \A o \in Offsets : o \in Nat BY DEF Typed, Offsets
  <1> QED BY <1>1 DEF Behind, StaysBehind, Lasting

(* A cursor is advanced over an outcome, written back from a copy that had  *)
(* only outcomes before it, or placed by a call, which moves the starting   *)
(* point along with it (Walk, WriteGroup).                                  *)
LEMMA CursorsStep ==
  ASSUME Assumption, Ind, Next
  PROVE  Cursors'
  <1>0. Typed /\ Typed' /\ Lasting /\ Outcomes BY TypedStep, OutcomesStep DEF Ind
  <1>n. /\ \A o \in Offsets : o \in Nat
        /\ \A g \in Groups : start[g] \in Nat /\ start'[g] \in Nat
    BY <1>0 DEF Typed, Offsets
  <1>1. CASE ClientMoves
    <2>1. UNCHANGED <<group, actor, deliverer, start, ended>> BY <1>1, ClientsAlone
    <2> QED BY <2>1 DEF Ind, Cursors, Behind
  <1>2. ASSUME NEW x \in Actors,
               ActorStep(x) \/ \E call \in Calls \ {"unsubscribe", "revive"}, g \in Groups : Begin(x, call, g)
        PROVE  Cursors'
    <2> DEFINE a == actor[x]
    <2>0. UNCHANGED <<deliverer, ended>> BY <1>2, ActorsAlone DEF ActorMoves
    <2>a. a \in ActorType /\ (a.pc # "idle" => a.group \in Groups) BY <1>0 DEF Typed
    <2>1. ASSUME UNCHANGED <<group, start>>, \A y \in Actors : y # x => actor'[y] = actor[y],
                 actor'[x].pc # "write"
          PROVE  Cursors'
      BY <2>0, <2>1 DEF Ind, Cursors, Behind
    <2>2. CASE WriteGroup(x)
      <3>1. a.pc = "write" /\ a.group \in Groups /\ a.copy.cursor \in Nat
        BY <2>2, <2>a DEF WriteGroup, ActorType, GroupRecord, Offsets
      <3>2. /\ group' = [group EXCEPT ![a.group] = a.copy]
            /\ \A y \in Actors : y # x => actor'[y] = actor[y]
            /\ actor'[x].pc # "write"
        BY <2>2, <1>0, <2>a DEF WriteGroup, Typed, ActorType
      <3>3. \A g \in Groups : start[g] <= start'[g]
        BY <1>0, <1>n, <2>2, <3>1 DEF WriteGroup, Max2, Typed
      <3>4. StaysBehind(a.copy.cursor, a.group)
        <4>1. CASE a.places
          <5>1. a.copy.cursor <= start'[a.group]
            BY <1>0, <1>n, <2>2, <3>1, <4>1 DEF WriteGroup, Max2, Typed
          <5> QED BY <1>n, <3>1, <5>1 DEF StaysBehind
        <4>2. CASE ~a.places
          <5>1. Behind(a.copy.cursor, a.group) BY <3>1, <4>2 DEF Ind, Cursors
          <5> QED BY <1>0, <3>1, <3>3, <5>1, BehindLasts
        <4> QED BY <4>1, <4>2
      <3>5. ASSUME NEW g \in Groups PROVE StaysBehind(group'[g].cursor, g)
        <4>1. CASE g = a.group
          <5>1. group'[g] = a.copy BY <1>0, <3>2, <4>1 DEF Typed
          <5> QED BY <3>4, <4>1, <5>1
        <4>2. CASE g # a.group
          <5>1. group'[g] = group[g] /\ group[g].cursor \in Nat
            BY <1>0, <3>2, <4>2 DEF Typed, GroupRecord, Offsets
          <5>2. Behind(group[g].cursor, g) BY DEF Ind, Cursors
          <5> QED BY <1>0, <3>3, <5>1, <5>2, BehindLasts
        <4> QED BY <4>1, <4>2
      <3>6. ASSUME NEW d \in Deliverers, deliverer'[d].pc = "walk"
            PROVE  StaysBehind(deliverer[d].record.cursor, deliverer[d].group)
        <4>1. deliverer[d].group \in Groups /\ deliverer[d].record.cursor \in Nat
          BY <1>0, <2>0, <3>6 DEF Typed, DelivererOK, GroupRecord, Offsets
        <4>2. Behind(deliverer[d].record.cursor, deliverer[d].group) BY <2>0, <3>6 DEF Ind, Cursors
        <4> QED BY <1>0, <3>3, <4>1, <4>2, BehindLasts
      <3>7. ASSUME NEW y \in Actors, actor'[y].pc = "write", ~actor'[y].places
            PROVE  StaysBehind(actor'[y].copy.cursor, actor'[y].group)
        <4>1. actor'[y] = actor[y] BY <3>2, <3>7
        <4>2. actor[y].group \in Groups /\ actor[y].copy.cursor \in Nat
          BY <1>0, <3>7, <4>1 DEF Typed, ActorType, GroupRecord, Offsets
        <4>3. Behind(actor[y].copy.cursor, actor[y].group) BY <3>7, <4>1 DEF Ind, Cursors
        <4> QED BY <1>0, <3>3, <4>1, <4>2, <4>3, BehindLasts
      <3> QED BY <2>0, <3>5, <3>6, <3>7 DEF Cursors, Behind, StaysBehind
    <2>3. ASSUME NEW call \in Calls \ {"unsubscribe", "revive"}, NEW g \in Groups, Begin(x, call, g)
          PROVE  Cursors'
      <3> DEFINE places == call \in {"earliest", "latest"} \/ ~group[g].exists
                 y == [IdleActor EXCEPT !.pc = "write", !.call = call, !.group = g,
                                        !.copy = Copied(call, g), !.places = places]
      <3>1. actor' = [actor EXCEPT ![x] = y] /\ UNCHANGED <<group, start>> BY <2>3 DEF Begin
      <3>2. y.group = g /\ y.copy = Copied(call, g) /\ y.places = places BY DEF IdleActor
      <3>3. group[g] \in GroupRecord BY <1>0 DEF Typed
      <3>4. ~places => Copied(call, g).cursor = group[g].cursor
        BY <2>3, <3>3 DEF Copied, GroupRecord, Calls, Begin
      <3>5. actor'[x] = y /\ \A z \in Actors : z # x => actor'[z] = actor[z] BY <1>0, <3>1 DEF Typed
      <3>6. Behind(group[g].cursor, g) BY DEF Ind, Cursors
      <3>7. ASSUME NEW z \in Actors, actor'[z].pc = "write", ~actor'[z].places
            PROVE  Behind(actor'[z].copy.cursor, actor'[z].group)
        <4> HIDE DEF y, places
        <4>1. CASE z = x BY <3>2, <3>4, <3>5, <3>6, <3>7, <4>1
        <4>2. CASE z # x BY <3>5, <3>7, <4>2 DEF Ind, Cursors
        <4> QED BY <4>1, <4>2
      <3> QED BY <2>0, <3>1, <3>7 DEF Ind, Cursors, Behind
    <2>4. CASE Switch(x) \/ List(x) \/ Create(x) \/ Push(x) \/ (x = Operator /\ Forget)
      <3>1. UNCHANGED <<group, start>> BY <2>4 DEF Switch, List, Create, Push, Forget
      <3>2. \A y \in Actors : y # x => actor'[y] = actor[y]
        BY <1>0, <2>4 DEF Switch, List, Create, Push, Forget, Typed
      <3>3. actor'[x].pc # "write"
        <4>1. IdleActor.pc = "idle" BY DEF IdleActor
        <4>2. CASE Switch(x) BY <1>0, <2>a, <4>1, <4>2 DEF Switch, Typed, ActorType
        <4>3. CASE List(x) BY <1>0, <2>a, <4>3 DEF List, Typed, ActorType
        <4>4. CASE Create(x) BY <1>0, <2>a, <4>4 DEF Create, Typed, ActorType
        <4>5. CASE Push(x) BY <1>0, <2>a, <4>1, <4>5 DEF Push, Typed
        <4>6. CASE x = Operator /\ Forget BY <1>0, <2>a, <4>6 DEF Forget, Typed, ActorType
        <4> QED BY <2>4, <4>2, <4>3, <4>4, <4>5, <4>6
      <3> QED BY <2>1, <3>1, <3>2, <3>3
    <2> QED BY <1>2, <2>2, <2>3, <2>4 DEF ActorStep
  <1>3. ASSUME NEW d \in Deliverers, DelivererStep(d) PROVE Cursors'
    <2> DEFINE x == deliverer[d]
    <2>0. UNCHANGED <<actor, start>> BY <1>3, DeliverersAlone DEF DelivererMoves
    <2>x. DelivererOK(x) BY <1>0 DEF Typed
    <2>a. ASSUME NEW y \in Actors, actor'[y].pc = "write", ~actor'[y].places
          PROVE  Behind(actor[y].copy.cursor, actor[y].group)'
      <3>1. actor[y].group \in Groups /\ Behind(actor[y].copy.cursor, actor[y].group)
        BY <1>0, <2>0, <2>a DEF Typed, Ind, Cursors
      <3> QED BY <1>n, <1>0, <2>0, <3>1 DEF Behind, Lasting
    <2>g. \A g \in Groups : (\A o \in Offsets : start'[g] < o /\ o <= group[g].cursor => o \in ended'[g])
      BY <1>0, <2>0 DEF Ind, Cursors, Behind, Lasting
    <2>d. ASSUME NEW e \in Deliverers, e # d, deliverer'[e] = deliverer[e], deliverer'[e].pc = "walk"
          PROVE  Behind(deliverer[e].record.cursor, deliverer[e].group)'
      <3>1. deliverer[e].group \in Groups /\ Behind(deliverer[e].record.cursor, deliverer[e].group)
        BY <1>0, <2>d DEF Typed, DelivererOK, Ind, Cursors
      <3> QED BY <1>0, <2>0, <2>d, <3>1 DEF Behind, Lasting
    <2>o. \A e \in Deliverers : e # d => deliverer'[e] = deliverer[e]
     
        BY <1>0, <1>3 DEF DelivererStep, Claim, Load, Lease, Handle, Bury, Settle, ReadCursor, Walk, Moves, Typed
    <2>1. CASE UNCHANGED group /\ deliverer'[d].pc # "walk"
      BY <2>1, <2>a, <2>g, <2>d, <2>o DEF Cursors, Behind
    <2>2. CASE ReadCursor(d)
      <3>1. /\ UNCHANGED group /\ x.group \in Groups
            /\ deliverer' = [deliverer EXCEPT ![d] = [x EXCEPT !.pc = "walk", !.record = group[x.group]]]
        BY <2>2, <2>x DEF ReadCursor, Stage, DelivererOK
      <3>2. deliverer'[d].record = group[x.group] /\ deliverer'[d].group = x.group
        BY <1>0, <2>x, <3>1 DEF Typed, DelivererOK
      <3>3. Behind(deliverer[d].record.cursor, deliverer[d].group)' BY <2>g, <3>1, <3>2 DEF Behind
      <3> QED BY <2>a, <2>g, <2>d, <2>o, <3>1, <3>3 DEF Cursors, Behind
    <2>3. CASE Walk(d)
      <3> DEFINE next == x.record.cursor + 1
      <3>1. x.pc = "walk" /\ x.group \in Groups /\ x.record \in GroupRecord /\ x.record.cursor \in Nat
        BY <2>3, <2>x DEF Walk, Stage, DelivererOK, GroupRecord, Offsets
      <3>2. Behind(x.record.cursor, x.group) BY <3>1 DEF Ind, Cursors
      <3>3. \A o \in Offsets : start'[x.group] < o /\ o <= x.record.cursor => o \in ended'[x.group]
        BY <1>0, <2>0, <3>1, <3>2 DEF Behind, Lasting
      <3>4. CASE Passes(x.group, next)
        <4>1. /\ UNCHANGED group
              /\ deliverer' = [deliverer EXCEPT ![d] = [x EXCEPT !.record = [x.record EXCEPT !.cursor = next]]]
          BY <2>3, <3>4 DEF Walk
        <4>2. deliverer'[d].record.cursor = next /\ deliverer'[d].group = x.group
          BY <1>0, <2>x, <3>1, <4>1 DEF Typed, DelivererOK, GroupRecord
        <4>3. next \in Offsets /\ next \in ended'[x.group]
          BY <1>0, <3>1, <3>4 DEF Passes, Outcomes, Lasting
        <4>4. Behind(deliverer[d].record.cursor, deliverer[d].group)'
          BY <1>n, <3>1, <3>3, <4>2, <4>3 DEF Behind
        <4> QED BY <2>a, <2>g, <2>d, <2>o, <4>1, <4>4 DEF Cursors, Behind
      <3>5. CASE ~Passes(x.group, next)
        <4>1. group' = [group EXCEPT ![x.group] = x.record] /\ deliverer' = [deliverer EXCEPT ![d] = IdleDeliverer]
          BY <2>3, <3>5 DEF Walk
        <4>2. deliverer'[d].pc = "idle" BY <1>0, <4>1 DEF Typed, IdleDeliverer
        <4>3. \A g \in Groups : Behind(group[g].cursor, g)'
          BY <1>0, <2>g, <3>1, <3>3, <4>1 DEF Typed, Behind
        <4> QED BY <2>a, <2>d, <2>o, <4>2, <4>3 DEF Cursors
      <3> QED BY <3>4, <3>5
    <2>4. CASE Claim(d) \/ Load(d) \/ Lease(d) \/ Handle(d) \/ Bury(d) \/ Settle(d)
      <3>1. UNCHANGED group BY <2>4 DEF Claim, Load, Lease, Handle, Bury, Settle
      <3>2. deliverer'[d].pc # "walk"
        <4>1. IdleDeliverer.pc = "idle" BY DEF IdleDeliverer
        <4>2. \A pc : Moves(d, pc) => deliverer'[d].pc = pc
          BY <1>0, <2>x DEF Moves, Typed, DelivererOK
        <4>3. CASE Claim(d) BY <1>0, <2>x, <4>1, <4>3 DEF Claim, Typed, DelivererOK
        <4>4. CASE Load(d) BY <1>0, <2>x, <4>4 DEF Load, Typed, DelivererOK
        <4>5. CASE Lease(d)
          <5>1. \/ Moves(d, "drop") \/ Moves(d, "ack")
                \/ \E copy : deliverer' = [deliverer EXCEPT ![d] = [x EXCEPT !.pc = "handle", !.copy = copy]]
            BY <4>5 DEF Lease
          <5> QED BY <1>0, <2>x, <4>2, <5>1 DEF Typed, DelivererOK
        <4>6. CASE Handle(d)
          <5>1. Moves(d, "ack") \/ Moves(d, "nack") \/ Moves(d, "bury") BY <4>6 DEF Handle
          <5> QED BY <4>2, <5>1
        <4>7. CASE Bury(d) BY <4>2, <4>7 DEF Bury
        <4>8. CASE Settle(d)
          <5>1. Moves(d, "read") \/ deliverer' = [deliverer EXCEPT ![d] = IdleDeliverer]
            BY <4>8 DEF Settle
          <5> QED BY <1>0, <4>1, <4>2, <5>1 DEF Typed
        <4> QED BY <2>4, <4>3, <4>4, <4>5, <4>6, <4>7, <4>8
      <3> QED BY <2>1, <3>1, <3>2
    <2> QED BY <1>3, <2>2, <2>3, <2>4 DEF DelivererStep
  <1>4. CASE OtherMoves
    <2>0. UNCHANGED <<group, start>> BY <1>4, OthersAlone
    <2>1. \A x \in Actors : actor'[x].pc = "write" => actor'[x] = actor[x]
      <3>1. IdleActor.pc = "idle" BY DEF IdleActor
      <3>2. CASE UNCHANGED actor BY <3>2
      <3>3. ASSUME NEW n \in Nodes, Crash(n) PROVE \A x \in Actors : actor'[x].pc = "write" => actor'[x] = actor[x]
        BY <1>0, <3>1, <3>3 DEF Crash, Typed
      <3>4. ASSUME NEW g \in Groups, NEW o \in Offsets, Revive(g, o)
            PROVE  \A x \in Actors : actor'[x].pc = "write" => actor'[x] = actor[x]
        BY <1>0, <3>4, Nulls DEF Revive, Typed, IdleActor
      <3> QED BY <1>4, <3>2, <3>3, <3>4
           DEF OtherMoves, Overdue, ClaimExpires, PollAny, Poll, Unsubscribe, RepairStep, Scan, RepairSave,
               RepairPublish, Expire
    <2>2. \A d \in Deliverers : deliverer'[d].pc = "walk" =>
            /\ deliverer[d].pc = "walk" /\ deliverer'[d].record = deliverer[d].record
            /\ deliverer'[d].group = deliverer[d].group
      <3>1. IdleDeliverer.pc = "idle" BY DEF IdleDeliverer
      <3>2. CASE UNCHANGED deliverer BY <3>2
      <3>3. ASSUME NEW n \in Nodes, Crash(n)
            PROVE  \A d \in Deliverers : deliverer'[d].pc = "walk" => deliverer'[d] = deliverer[d]
        BY <1>0, <3>1, <3>3 DEF Crash, Typed
      <3>4. ASSUME NEW n \in Nodes, NEW g \in Groups, PollAny(n, g)
            PROVE  \A d \in Deliverers : deliverer'[d].pc = "walk" => deliverer'[d] = deliverer[d]
        <4>1. PICK e : Poll(n, g, e) BY <3>4 DEF PollAny
        <4>2. deliverer' = [deliverer EXCEPT ![e] =
                              [IdleDeliverer EXCEPT !.pc = "polling", !.node = n, !.group = g]]
          BY <4>1 DEF Poll
        <4>3. [IdleDeliverer EXCEPT !.pc = "polling", !.node = n, !.group = g].pc = "polling"
          BY DEF IdleDeliverer
        <4> QED BY <1>0, <4>2, <4>3 DEF Typed
      <3>5. ASSUME NEW n \in Nodes, NEW g \in Groups, Unsubscribe(n, g)
            PROVE  \A d \in Deliverers : /\ deliverer'[d].pc = deliverer[d].pc
                                         /\ deliverer'[d].record = deliverer[d].record
                                         /\ deliverer'[d].group = deliverer[d].group
        BY <1>0, <3>5 DEF Unsubscribe, Orphaned, Typed, DelivererOK
      <3> QED BY <1>4, <3>2, <3>3, <3>4, <3>5
           DEF OtherMoves, Overdue, ClaimExpires, Revive, RepairStep, Scan, RepairSave, RepairPublish, Expire
    <2>3. ASSUME NEW g \in Groups PROVE Behind(group[g].cursor, g)'
      BY <1>0, <2>0 DEF Ind, Cursors, Behind, Lasting
    <2>4. ASSUME NEW d \in Deliverers, deliverer'[d].pc = "walk"
          PROVE  Behind(deliverer[d].record.cursor, deliverer[d].group)'
      <3>1. deliverer[d].group \in Groups /\ Behind(deliverer[d].record.cursor, deliverer[d].group)
        BY <1>0, <2>2, <2>4 DEF Typed, DelivererOK, Ind, Cursors
      <3> QED BY <1>0, <2>0, <2>2, <2>4, <3>1 DEF Behind, Lasting
    <2>5. ASSUME NEW x \in Actors, actor'[x].pc = "write", ~actor'[x].places
          PROVE  Behind(actor[x].copy.cursor, actor[x].group)'
      <3>1. actor[x].group \in Groups /\ Behind(actor[x].copy.cursor, actor[x].group) /\ actor'[x] = actor[x]
        BY <1>0, <2>1, <2>5 DEF Typed, Ind, Cursors
      <3> QED BY <1>0, <2>0, <3>1 DEF Behind, Lasting
    <2> QED BY <2>3, <2>4, <2>5 DEF Cursors
  <1> QED BY <1>1, <1>2, <1>3, <1>4, Moves4 DEF ActorMoves, DelivererMoves

(* The steps of one call, and what they do to it.                           *)
LEMMA ActorForms ==
  ASSUME Assumption, Typed, NEW x \in Actors, ActorStep(x)
  PROVE  /\ \A y \in Actors : y # x => actor'[y] = actor[y]
         /\ \/ /\ WriteGroup(x) /\ actor[x].pc = "write" /\ actor'[x].pc \in {"switch", "list"}
               /\ actor'[x].group = actor[x].group /\ actor'[x].call = actor[x].call
            \/ /\ Switch(x) /\ actor[x].pc = "switch" /\ actor'[x].pc = "list"
               /\ actor'[x].group = actor[x].group /\ actor'[x].call = actor[x].call
            \/ /\ List(x) /\ actor[x].pc = "list" /\ actor'[x].pc = "create"
               /\ actor'[x].group = actor[x].group /\ actor'[x].call = actor[x].call
               /\ actor'[x].todo = {o \in messages : o > group[actor[x].group].cursor}
            \/ /\ Create(x) /\ actor[x].pc = "create" /\ actor'[x].pc = "push"
               /\ actor'[x].group = actor[x].group /\ actor'[x].call = actor[x].call
            \/ /\ Forget /\ actor[x].pc = "forget" /\ actor'[x].pc = "push"
               /\ actor'[x].group = actor[x].group /\ actor'[x].call = actor[x].call
            \/ Push(x)
            \/ Switch(x) /\ actor'[x].pc = "idle"
  <1> DEFINE a == actor[x]
  <1>0. a \in ActorType /\ IdleActor.pc = "idle" BY DEF Typed, IdleActor
  <1>1. \A y \in Actors : y # x => actor'[y] = actor[y]
    BY DEF ActorStep, WriteGroup, Switch, List, Create, Push, Forget, Typed
  <1>2. CASE WriteGroup(x) BY <1>0, <1>1, <1>2 DEF WriteGroup, Typed, ActorType
  <1>3. CASE Switch(x)
    <2>1. CASE a.call = "pause" BY <1>0, <1>1, <1>3, <2>1 DEF Switch, Typed
    <2>2. CASE a.call # "pause"
      <3>1. actor' = [actor EXCEPT ![x] = [a EXCEPT !.pc = "list"]] /\ a.pc = "switch"
        BY <1>3, <2>2 DEF Switch
      <3>2. actor'[x] = [a EXCEPT !.pc = "list"] BY <3>1 DEF Typed
      <3>3. actor'[x].pc = "list" /\ actor'[x].group = a.group /\ actor'[x].call = a.call
        BY <1>0, <3>2 DEF ActorType
      <3> QED BY <1>1, <1>3, <3>1, <3>3
    <2> QED BY <2>1, <2>2
  <1>4. CASE List(x)
    <2> DEFINE todo == {o \in messages : o > group[a.group].cursor}
    <2>1. actor' = [actor EXCEPT ![x] = [a EXCEPT !.pc = "create", !.copy = group[a.group], !.todo = todo]]
      BY <1>4 DEF List
    <2>2. actor'[x] = [a EXCEPT !.pc = "create", !.copy = group[a.group], !.todo = todo]
      BY <2>1 DEF Typed
    <2>3. /\ actor'[x].pc = "create" /\ actor'[x].group = a.group /\ actor'[x].call = a.call
          /\ actor'[x].todo = todo
      BY <1>0, <2>2 DEF ActorType
    <2>4. a.pc = "list" BY <1>4 DEF List
    <2> QED BY <1>1, <1>4, <2>3, <2>4
  <1>5. CASE Create(x)
    <2>1. PICK todo : actor' = [actor EXCEPT ![x] = [a EXCEPT !.pc = "push", !.todo = todo]]
      BY <1>5 DEF Create
    <2>2. actor'[x] = [a EXCEPT !.pc = "push", !.todo = todo] BY <2>1 DEF Typed
    <2>3. actor'[x].pc = "push" /\ actor'[x].group = a.group /\ actor'[x].call = a.call
      BY <1>0, <2>2 DEF ActorType
    <2> QED BY <1>1, <1>5, <2>3 DEF Create
  <1>6. CASE Push(x) BY <1>1, <1>6
  <1>7. CASE x = Operator /\ Forget BY <1>0, <1>1, <1>7 DEF Forget, Typed, ActorType
  <1> QED BY <1>2, <1>3, <1>4, <1>5, <1>6, <1>7 DEF ActorStep

(* A group that is stored stays stored.                                     *)
LEMMA GroupsLast ==
  ASSUME Assumption, Typed, Joining, Next
  PROVE  \A g \in Groups : group[g].exists => group'[g].exists
  <1>1. CASE UNCHANGED group BY <1>1
  <1>2. ASSUME NEW x \in Actors, WriteGroup(x)
        PROVE  \A g \in Groups : group[g].exists => group'[g].exists
    BY <1>2 DEF WriteGroup, Joining, Typed
  <1>3. ASSUME NEW d \in Deliverers, Walk(d)
        PROVE  \A g \in Groups : group[g].exists => group'[g].exists
    BY <1>3 DEF Walk, Stage, Joining, Typed
  <1>4. CASE ActorMoves
    BY <1>1, <1>2, <1>4 DEF ActorMoves, ActorStep, Begin, Switch, List, Create, Push, Forget
  <1>5. CASE DelivererMoves
   
      BY <1>1, <1>3, <1>5 DEF DelivererMoves, DelivererStep, Claim, Load, Lease, Handle, Bury, Settle, ReadCursor
  <1> QED BY <1>1, <1>4, <1>5, Moves4, ClientsAlone, OthersAlone

(* Joining, for one call and for one delivery.                              *)
JoinedActor(y) ==
  /\ y.pc = "write" => y.copy.exists
  /\ y.pc \in {"switch", "list", "create", "push"} /\ y.call = "subscribe" => group[y.group].exists
  /\ y.pc = "forget" => y.call # "subscribe"
JoinedDeliverer(x) ==
  /\ x.pc # "idle" => group[x.group].exists
  /\ x.pc = "walk" => x.record.exists

(* A process is subscribed only after its group was written (Push), and     *)
(* nothing takes a group away.                                              *)
LEMMA JoiningStep ==
  ASSUME Assumption, Ind, Next
  PROVE  Joining'
  <1>0. Typed /\ Typed' /\ Joining BY TypedStep DEF Ind
  <1>g. \A g \in Groups : group[g].exists => group'[g].exists BY <1>0, GroupsLast
  <1>i. IdleActor.pc = "idle" /\ IdleDeliverer.pc = "idle" BY DEF IdleActor, IdleDeliverer
  <1>n. ASSUME NEW n \in Nodes, NEW g \in subscribed[n] PROVE g \in Groups /\ group'[g].exists
    BY <1>0, <1>g, <1>n DEF Joining, Typed
  <1>a. ASSUME NEW y \in Actors, actor'[y] = actor[y] PROVE JoinedActor(actor[y])'
    BY <1>0, <1>g, <1>a DEF Joining, JoinedActor, Typed
  <1>d. ASSUME NEW e \in Deliverers, deliverer'[e].pc = deliverer[e].pc,
               deliverer'[e].group = deliverer[e].group, deliverer'[e].record = deliverer[e].record
        PROVE  JoinedDeliverer(deliverer[e])'
    BY <1>0, <1>g, <1>d DEF Joining, JoinedDeliverer, Typed, DelivererOK
  <1>1. CASE ClientMoves
    <2>1. UNCHANGED <<group, subscribed, actor, deliverer>> BY <1>1, ClientsAlone
    <2> QED BY <1>0, <2>1 DEF Joining
  <1>2. CASE ActorMoves
    <2>0. UNCHANGED deliverer BY <1>2, ActorsAlone
    <2>1. \A e \in Deliverers : JoinedDeliverer(deliverer[e])' BY <1>d, <2>0
    <2> PICK x \in Actors :
          ActorStep(x) \/ \E call \in Calls \ {"unsubscribe", "revive"}, g \in Groups : Begin(x, call, g)
      BY <1>2 DEF ActorMoves
    <2>2. CASE ActorStep(x)
      <3>1. /\ \A y \in Actors : y # x => actor'[y] = actor[y]
            /\ actor[x].pc # "idle" => actor[x].group \in Groups
        BY <1>0, <2>2, ActorForms DEF Typed
      <3>2. JoinedActor(actor[x])'
        <4>1. CASE WriteGroup(x) /\ actor[x].pc = "write"
          <5>1. group'[actor[x].group].exists BY <1>0, <3>1, <4>1 DEF WriteGroup, Joining, Typed
          <5>2. actor'[x].pc \in {"switch", "list"} /\ actor'[x].group = actor[x].group
            BY <1>0, <4>1 DEF WriteGroup, Typed, ActorType
          <5> QED BY <5>1, <5>2 DEF JoinedActor
        <4>2. CASE /\ actor[x].pc \in {"switch", "list", "create"} /\ actor'[x].pc \in {"list", "create", "push"}
                   /\ actor'[x].group = actor[x].group /\ actor'[x].call = actor[x].call
          BY <1>0, <1>g, <3>1, <4>2 DEF JoinedActor, Joining
        <4>3. CASE /\ actor[x].pc = "forget" /\ actor'[x].pc = "push" /\ actor'[x].call = actor[x].call
          BY <1>0, <4>3 DEF JoinedActor, Joining
        <4>4. CASE Push(x) \/ actor'[x].pc = "idle"
          <5>1. actor'[x].pc = "idle" BY <1>0, <1>i, <4>4 DEF Push, Typed
          <5> QED BY <5>1 DEF JoinedActor
        <4> QED BY <1>0, <2>2, <4>1, <4>2, <4>3, <4>4, ActorForms
      <3>3. ASSUME NEW n \in Nodes, NEW g \in subscribed'[n] PROVE group'[g].exists
        <4>1. CASE g \in subscribed[n] BY <1>n, <4>1
        <4>2. CASE g \notin subscribed[n]
          <5>0. subscribed' # subscribed BY <3>3, <4>2
          <5>1. Push(x) BY <2>2, <5>0 DEF ActorStep, WriteGroup, Switch, List, Create, Forget
          <5>2. /\ actor[x].pc = "push" /\ actor[x].call = "subscribe"
                /\ subscribed' = [subscribed EXCEPT ![x] = @ \cup {actor[x].group}]
            BY <5>0, <5>1 DEF Push
          <5>3. g = actor[x].group BY <1>0, <3>3, <4>2, <5>2 DEF Typed
          <5> QED BY <1>0, <1>g, <3>1, <5>2, <5>3 DEF Joining
        <4> QED BY <4>1, <4>2
      <3>4. \A y \in Actors : JoinedActor(actor[y])' BY <1>a, <3>1, <3>2
      <3> QED BY <2>1, <3>3, <3>4 DEF Joining, JoinedActor, JoinedDeliverer
    <2>3. ASSUME NEW call \in Calls \ {"unsubscribe", "revive"}, NEW g \in Groups, Begin(x, call, g)
          PROVE  Joining'
      <3> DEFINE y == [IdleActor EXCEPT !.pc = "write", !.call = call, !.group = g, !.copy = Copied(call, g),
                                        !.places = call \in {"earliest", "latest"} \/ ~group[g].exists]
      <3>1. actor' = [actor EXCEPT ![x] = y] /\ UNCHANGED <<group, subscribed>> BY <2>3 DEF Begin
      <3>2. y.pc = "write" /\ y.copy = Copied(call, g) BY DEF IdleActor
      <3>3. group[g] \in GroupRecord BY <1>0 DEF Typed
      <3>4. Copied(call, g).exists
        <4>1. CASE call = "subscribe" /\ ~group[g].exists BY <4>1 DEF Copied, Joined
        <4>2. CASE group[g].exists BY <2>3, <3>3, <4>2 DEF Copied, GroupRecord, Calls
        <4> QED BY <2>3, <4>1, <4>2 DEF Begin
      <3> HIDE DEF y
      <3>5. actor'[x] = y /\ \A z \in Actors : z # x => actor'[z] = actor[z] BY <1>0, <3>1 DEF Typed
      <3>6. JoinedActor(actor[x])' BY <3>2, <3>4, <3>5 DEF JoinedActor
      <3>7. \A z \in Actors : JoinedActor(actor[z])' BY <1>a, <3>5, <3>6
      <3> QED BY <1>0, <2>1, <3>1, <3>7 DEF Joining, JoinedActor, JoinedDeliverer
    <2> QED BY <2>2, <2>3
  <1>3. ASSUME NEW d \in Deliverers, DelivererStep(d) PROVE Joining'
    <2> DEFINE x == deliverer[d]
    <2>0. UNCHANGED <<subscribed, actor>> BY <1>3, DeliverersAlone DEF DelivererMoves
    <2>x. DelivererOK(x) BY <1>0 DEF Typed
    <2>o. \A e \in Deliverers : e # d => deliverer'[e] = deliverer[e]
     
        BY <1>0, <1>3 DEF DelivererStep, Claim, Load, Lease, Handle, Bury, Settle, ReadCursor, Walk, Moves, Typed
    <2>m. \A pc : Moves(d, pc) => /\ deliverer'[d].pc = pc /\ deliverer'[d].group = x.group
                                  /\ deliverer'[d].record = x.record
      BY <1>0, <2>x DEF Moves, Typed, DelivererOK
    <2>j. ASSUME x.pc # "idle", deliverer'[d].group = x.group, deliverer'[d].pc # "walk"
          PROVE  JoinedDeliverer(deliverer[d])'
      BY <1>0, <1>g, <2>x, <2>j DEF JoinedDeliverer, Joining, DelivererOK
    <2>i. deliverer' = [deliverer EXCEPT ![d] = IdleDeliverer] => JoinedDeliverer(deliverer[d])'
      BY <1>0, <1>i DEF JoinedDeliverer, Typed
    <2>1. JoinedDeliverer(deliverer[d])'
      <3>1. CASE Claim(d)
        <4>1. CASE deliverer' = [deliverer EXCEPT ![d] = IdleDeliverer] BY <2>i, <4>1
        <4>2. CASE deliverer' # [deliverer EXCEPT ![d] = IdleDeliverer]
          BY <1>0, <2>x, <2>j, <3>1, <4>2 DEF Claim, Typed, DelivererOK
        <4> QED BY <4>1, <4>2
      <3>2. CASE Load(d) BY <1>0, <2>x, <2>j, <3>2 DEF Load, Stage, Typed, DelivererOK
      <3>3. CASE Lease(d)
        <4>1. x.pc = "lease" BY <3>3 DEF Lease, Stage
        <4>2. CASE Moves(d, "drop") \/ Moves(d, "ack") BY <2>m, <2>j, <4>1, <4>2
        <4>3. CASE \E copy : deliverer' = [deliverer EXCEPT ![d] = [x EXCEPT !.pc = "handle", !.copy = copy]]
          <5>1. deliverer'[d].pc = "handle" /\ deliverer'[d].group = x.group
            BY <1>0, <2>x, <4>3 DEF Typed, DelivererOK
          <5> QED BY <2>j, <4>1, <5>1
        <4> QED BY <3>3, <4>2, <4>3 DEF Lease
      <3>4. CASE Handle(d)
        <4>1. x.pc = "handle" /\ (Moves(d, "ack") \/ Moves(d, "nack") \/ Moves(d, "bury"))
          BY <3>4 DEF Handle, Stage
        <4> QED BY <2>m, <2>j, <4>1
      <3>5. CASE Bury(d) BY <2>m, <2>j, <3>5 DEF Bury, Stage
      <3>6. CASE Settle(d)
        <4>1. x.pc # "idle" /\ (Moves(d, "read") \/ deliverer' = [deliverer EXCEPT ![d] = IdleDeliverer])
          BY <3>6 DEF Settle, Stage
        <4> QED BY <2>i, <2>m, <2>j, <4>1
      <3>7. CASE ReadCursor(d)
        <4>1. /\ x.pc = "read" /\ UNCHANGED group /\ group[x.group].exists
              /\ deliverer'[d].record = group[x.group] /\ deliverer'[d].group = x.group
          BY <1>0, <2>x, <3>7 DEF ReadCursor, Stage, Typed, DelivererOK, Joining
        <4> QED BY <4>1 DEF JoinedDeliverer
      <3>8. CASE Walk(d)
        <4>1. x.pc = "walk" /\ x.record.exists /\ x.record \in GroupRecord /\ x.group \in Groups
          BY <1>0, <2>x, <3>8 DEF Walk, Stage, Joining, DelivererOK
        <4>2. CASE deliverer' = [deliverer EXCEPT ![d] = IdleDeliverer] BY <2>i, <4>2
        <4>3. CASE deliverer' # [deliverer EXCEPT ![d] = IdleDeliverer]
          <5>1. deliverer' = [deliverer EXCEPT ![d] =
                                [x EXCEPT !.record = [x.record EXCEPT !.cursor = x.record.cursor + 1]]]
            BY <3>8, <4>3 DEF Walk
          <5>2. deliverer'[d].record.exists /\ deliverer'[d].group = x.group
            BY <1>0, <2>x, <4>1, <5>1 DEF Typed, DelivererOK, GroupRecord
          <5>3. group'[x.group].exists BY <1>0, <1>g, <4>1 DEF Joining
          <5> QED BY <5>2, <5>3 DEF JoinedDeliverer
        <4> QED BY <4>2, <4>3
      <3> QED BY <1>3, <3>1, <3>2, <3>3, <3>4, <3>5, <3>6, <3>7, <3>8 DEF DelivererStep
    <2>2. \A e \in Deliverers : JoinedDeliverer(deliverer[e])' BY <1>d, <2>o, <2>1
    <2>3. \A y \in Actors : JoinedActor(actor[y])' BY <1>a, <2>0
    <2>4. \A n \in Nodes : \A g \in subscribed'[n] : group'[g].exists BY <1>n, <2>0
    <2> QED BY <2>2, <2>3, <2>4 DEF Joining, JoinedActor, JoinedDeliverer
  <1>4. CASE OtherMoves
    <2>0. UNCHANGED group BY <1>4, OthersAlone
    <2>1. ASSUME NEW n \in Nodes, Crash(n) PROVE Joining'
      <3>1. \A e \in Deliverers : JoinedDeliverer(deliverer[e])'
        BY <1>0, <1>d, <1>i, <2>1 DEF Crash, Typed, JoinedDeliverer
      <3>2. \A y \in Actors : JoinedActor(actor[y])'
        BY <1>0, <1>a, <1>i, <2>1 DEF Crash, Typed, JoinedActor
      <3>3. \A m \in Nodes : \A g \in subscribed'[m] : group'[g].exists
        BY <1>0, <1>n, <2>1 DEF Crash, Typed
      <3> QED BY <3>1, <3>2, <3>3 DEF Joining, JoinedActor, JoinedDeliverer
    <2>2. ASSUME NEW n \in Nodes, NEW g \in Groups, PollAny(n, g) PROVE Joining'
      <3>1. PICK e : Poll(n, g, e) BY <2>2 DEF PollAny
      <3> DEFINE y == [IdleDeliverer EXCEPT !.pc = "polling", !.node = n, !.group = g]
      <3>2. /\ deliverer' = [deliverer EXCEPT ![e] = y] /\ UNCHANGED <<subscribed, actor>>
            /\ group[g].exists
        BY <1>0, <3>1 DEF Poll, Joining
      <3>3. y.pc = "polling" /\ y.group = g BY DEF IdleDeliverer
      <3> HIDE DEF y
      <3>4. \A f \in Deliverers : deliverer'[f] = deliverer[f] \/ deliverer'[f] = y
        BY <1>0, <3>2 DEF Typed
      <3>5. \A f \in Deliverers : JoinedDeliverer(deliverer[f])'
        BY <1>d, <2>0, <3>2, <3>3, <3>4 DEF JoinedDeliverer
      <3> QED BY <1>0, <2>0, <3>2, <3>5 DEF Joining, JoinedDeliverer
    <2>3. ASSUME NEW n \in Nodes, NEW g \in Groups, Unsubscribe(n, g) PROVE Joining'
      <3>1. \A e \in Deliverers : /\ deliverer'[e].pc = deliverer[e].pc /\ deliverer'[e].group = deliverer[e].group
                                  /\ deliverer'[e].record = deliverer[e].record
        BY <1>0, <2>3 DEF Unsubscribe, Orphaned, Typed, DelivererOK
      <3>2. UNCHANGED actor /\ \A m \in Nodes : subscribed'[m] \subseteq subscribed[m]
        BY <1>0, <2>3 DEF Unsubscribe, Typed
      <3> QED BY <1>0, <2>0, <3>1, <3>2 DEF Joining
    <2>4. ASSUME NEW g \in Groups, NEW o \in Offsets, Revive(g, o) PROVE Joining'
      <3> DEFINE y == [IdleActor EXCEPT !.pc = "forget", !.call = "revive", !.group = g, !.todo = {o}]
      <3>1. actor' = [actor EXCEPT ![Operator] = y] /\ UNCHANGED <<deliverer, subscribed>>
        BY <2>4 DEF Revive
      <3>2. y.pc = "forget" /\ y.call = "revive" BY DEF IdleActor
      <3> HIDE DEF y
      <3>3. \A z \in Actors : actor'[z] = actor[z] \/ actor'[z] = y BY <1>0, <3>1 DEF Typed
      <3>4. \A z \in Actors : JoinedActor(actor[z])' BY <1>a, <3>2, <3>3 DEF JoinedActor
      <3> QED BY <1>0, <2>0, <3>1, <3>4 DEF Joining, JoinedActor
    <2>5. CASE UNCHANGED <<subscribed, actor, deliverer>> BY <1>0, <2>0, <2>5 DEF Joining
    <2> QED BY <1>4, <2>1, <2>2, <2>3, <2>4, <2>5
         DEF OtherMoves, Overdue, ClaimExpires, RepairStep, Scan, RepairSave, RepairPublish, Expire
  <1> QED BY <1>1, <1>2, <1>3, <1>4, Moves4 DEF DelivererMoves

(* The history of the places a group was put at keeps the highest.          *)
LEMMA StartGrows ==
  ASSUME Typed, Typed', Next
  PROVE  \A g \in Groups : start[g] <= start'[g]
  <1>n. \A g \in Groups : start[g] \in Nat BY DEF Typed, Offsets
  <1>1. CASE UNCHANGED start BY <1>n, <1>1
  <1>2. ASSUME NEW x \in Actors, WriteGroup(x) PROVE \A g \in Groups : start[g] <= start'[g]
    <2>1. actor[x].group \in Groups /\ actor[x].copy.cursor \in Nat
      BY <1>2 DEF WriteGroup, Typed, ActorType, GroupRecord, Offsets
    <2> QED BY <1>n, <1>2, <2>1 DEF WriteGroup, Max2, Typed
  <1>3. CASE ActorMoves
    BY <1>1, <1>2, <1>3 DEF ActorMoves, ActorStep, Begin, Switch, List, Create, Push, Forget
  <1> QED BY <1>1, <1>3, Moves4, ClientsAlone, DeliverersAlone, OthersAlone

(* A publish returns when its last group is done (NextGroup).               *)
LEMMA EmptiedStep ==
  ASSUME Assumption, Typed, Emptied, Next
  PROVE  Emptied'
  <1>1. CASE UNCHANGED client BY <1>1 DEF Emptied
  <1>2. ASSUME NEW p \in Publishes, Publish(p) \/ PublishStep(p) PROVE Emptied'
    <2> DEFINE c == client[p]
    <2>0. client \in [Publishes -> ClientType] /\ c \in ClientType BY DEF Typed
    <2>1. /\ \A q \in Publishes : q # p => client'[q] = client[q]
          /\ client'[p].pc \notin {"deliver", "push"} => client'[p].todo = {}
      <3>1. CASE Publish(p) BY <2>0, <3>1 DEF Publish, Emptied, ClientType
      <3>2. CASE IncrementOffset(p) BY <2>0, <3>2 DEF IncrementOffset, Emptied, ClientType
      <3>3. CASE SaveMessage(p) BY <2>0, <3>3 DEF SaveMessage, Emptied, ClientType
      <3>4. CASE SaveKey(p) BY <2>0, <3>4 DEF SaveKey, Emptied, ClientType
      <3>5. CASE ListGroups(p) BY <2>0, <3>5 DEF ListGroups, ClientType
      <3>6. CASE PublishDelivery(p) BY <2>0, <3>6 DEF PublishDelivery, NextGroup, ClientType
      <3>7. ASSUME NEW g \in Groups, CreateDelivery(p, g)
            PROVE  /\ \A q \in Publishes : q # p => client'[q] = client[q]
                   /\ client'[p].pc \notin {"deliver", "push"} => client'[p].todo = {}
        BY <2>0, <3>7 DEF CreateDelivery, NextGroup, ClientType
      <3> QED BY <1>2, <3>1, <3>2, <3>3, <3>4, <3>5, <3>6, <3>7 DEF PublishStep
    <2> QED BY <2>1 DEF Emptied
  <1> QED BY <1>1, <1>2, Moves4, ActorsAlone, DeliverersAlone, OthersAlone DEF ClientMoves

(* A subscribe() that is under way finds the message in its list, and so    *)
(* delivers it before it subscribes (List, Create, Push).                   *)
LEMMA MissedInActors ==
  ASSUME Assumption, Ind, NEW x \in Actors, ActorStep(x), NEW g \in Groups, NEW o \in Offsets,
         Missed(o, g), o \in messages, start[g] < o, ~Made(g, o), ~Made(g, o)'
  PROVE  Missed(o, g)'
  <1> DEFINE a == actor[x]
             Kept(y) == y.group = g /\ y.call = "subscribe" =>
                          (y.pc = "create" => o \in y.todo) /\ y.pc # "push"
  <1>0. Typed /\ a \in ActorType /\ (a.pc # "idle" => a.group \in Groups) /\ IdleActor.pc = "idle"
    BY DEF Ind, Typed, IdleActor
  <1>1. \A y \in Actors : y # x => actor'[y] = actor[y] BY <1>0, ActorForms
  <1>2. \A y \in Actors : Kept(actor[y]) BY DEF Missed
  <1>3. Kept(actor'[x])
    <2>1. CASE List(x)
      <3>1. actor'[x].todo = {q \in messages : q > group[a.group].cursor}
        <4>1. actor' = [actor EXCEPT ![x] = [a EXCEPT !.pc = "create", !.copy = group[a.group],
                                               !.todo = {q \in messages : q > group[a.group].cursor}]]
          BY <2>1 DEF List
        <4> QED BY <1>0, <4>1 DEF Typed, ActorType
      <3>2. actor'[x].pc = "create"
        BY <1>0, <2>1 DEF List, Typed, ActorType
      <3>3. group[g].cursor \in Nat /\ o \in Nat BY <1>0 DEF Typed, GroupRecord, Offsets
      <3>4. o > group[g].cursor BY <3>3 DEF Ind, Cursors, Behind, Outcomes, Made
      <3>5. actor'[x].group = a.group BY <1>0, <2>1 DEF List, Typed, ActorType
      <3> QED BY <3>1, <3>2, <3>4, <3>5
    <2>2. CASE Create(x)
      <3>1. a.pc = "create" /\ a.group \in Groups BY <1>0, <2>2 DEF Create
      <3>2. CASE a.group = g /\ a.call = "subscribe"
        <4>1. o \in a.todo BY <1>2, <3>1, <3>2
        <4>2. o \in Missing(g, a.todo) BY <4>1 DEF Missing, Made
        <4>3. CreateAll(g, Missing(g, a.todo)) BY <2>2, <3>2 DEF Create
        <4>4. delivery'[g][o] = Fresh BY <1>0, <4>2, <4>3, Creating
        <4> QED BY <4>4 DEF Made, Fresh
      <3>3. CASE ~(a.group = g /\ a.call = "subscribe")
        <4>1. actor'[x].group = a.group /\ actor'[x].call = a.call
          <5>1. PICK todo : actor' = [actor EXCEPT ![x] = [a EXCEPT !.pc = "push", !.todo = todo]]
            BY <2>2 DEF Create
          <5> QED BY <1>0, <5>1 DEF Typed, ActorType
        <4> QED BY <3>3, <4>1
      <3> QED BY <3>2, <3>3
    <2>3. CASE actor'[x].pc \in {"switch", "list", "idle"} BY <2>3
    <2>4. CASE Forget /\ a.pc = "forget" /\ actor'[x].call = a.call
      BY <2>4 DEF Ind, Joining
    <2>5. CASE Push(x) BY <1>0, <2>5 DEF Push, Typed
    <2> QED BY <1>0, <2>1, <2>2, <2>3, <2>4, <2>5, ActorForms
  <1>4. \A n \in Nodes : g \notin subscribed'[n]
    <2>1. CASE UNCHANGED subscribed BY <2>1 DEF Missed
    <2>2. CASE subscribed' # subscribed
      <3>1. Push(x) BY <2>2 DEF ActorStep, WriteGroup, Switch, List, Create, Forget
      <3>2. /\ a.pc = "push" /\ a.call = "subscribe"
            /\ subscribed' = [subscribed EXCEPT ![x] = @ \cup {a.group}]
        BY <2>2, <3>1 DEF Push
      <3>3. a.group # g BY <1>2, <3>2
      <3> QED BY <1>0, <3>2, <3>3 DEF Missed, Typed
    <2> QED BY <2>1, <2>2
  <1>5. \A y \in Actors : Kept(actor'[y]) BY <1>1, <1>2, <1>3
  <1> QED BY <1>4, <1>5 DEF Missed

(* Nor does any other step let a process subscribe past the message.        *)
LEMMA MissedLasts ==
  ASSUME Assumption, Ind, Next, ~ClientMoves, NEW g \in Groups, NEW o \in Offsets,
         Missed(o, g), o \in messages, start[g] < o, ~Made(g, o), ~Made(g, o)'
  PROVE  Missed(o, g)'
  <1>0. Typed /\ IdleActor.pc = "idle" BY DEF Ind, IdleActor
  <1>1. CASE UNCHANGED <<subscribed, actor>> BY <1>1 DEF Missed
  <1>2. ASSUME NEW x \in Actors, NEW call, NEW h, Begin(x, call, h) PROVE Missed(o, g)'
    <2> DEFINE y == [IdleActor EXCEPT !.pc = "write", !.call = call, !.group = h, !.copy = Copied(call, h),
                                      !.places = call \in {"earliest", "latest"} \/ ~group[h].exists]
    <2>1. actor' = [actor EXCEPT ![x] = y] /\ UNCHANGED subscribed BY <1>2 DEF Begin
    <2>2. y.pc = "write" BY DEF IdleActor
    <2> HIDE DEF y
    <2>3. \A z \in Actors : actor'[z] = actor[z] \/ actor'[z] = y BY <1>0, <2>1 DEF Typed
    <2> QED BY <2>1, <2>2, <2>3 DEF Missed
  <1>3. ASSUME NEW h \in Groups, NEW q \in Offsets, Revive(h, q) PROVE Missed(o, g)'
    <2> DEFINE y == [IdleActor EXCEPT !.pc = "forget", !.call = "revive", !.group = h, !.todo = {q}]
    <2>1. actor' = [actor EXCEPT ![Operator] = y] /\ UNCHANGED subscribed BY <1>3 DEF Revive
    <2>2. y.pc = "forget" BY DEF IdleActor
    <2> HIDE DEF y
    <2>3. \A z \in Actors : actor'[z] = actor[z] \/ actor'[z] = y BY <1>0, <2>1 DEF Typed
    <2> QED BY <2>1, <2>2, <2>3 DEF Missed
  <1>4. ASSUME NEW n \in Nodes, Crash(n) PROVE Missed(o, g)'
    <2>1. /\ \A z \in Actors : actor'[z] = actor[z] \/ actor'[z] = IdleActor
          /\ \A m \in Nodes : subscribed'[m] \subseteq subscribed[m]
      BY <1>0, <1>4 DEF Crash, Typed
    <2> QED BY <1>0, <2>1 DEF Missed
  <1>5. ASSUME NEW n \in Nodes, NEW h \in Groups, Unsubscribe(n, h) PROVE Missed(o, g)'
    <2>1. UNCHANGED actor /\ \A m \in Nodes : subscribed'[m] \subseteq subscribed[m]
      BY <1>0, <1>5 DEF Unsubscribe, Typed
    <2> QED BY <2>1 DEF Missed
  <1>6. CASE ActorMoves BY <1>2, <1>6, MissedInActors DEF ActorMoves
  <1>7. CASE DelivererMoves BY <1>1, <1>7, DeliverersAlone
  <1>8. CASE OtherMoves
    BY <1>1, <1>3, <1>4, <1>5, <1>8
       DEF OtherMoves, Overdue, ClaimExpires, PollAny, Poll, RepairStep, Scan, RepairSave, RepairPublish, Expire
  <1> QED BY <1>6, <1>7, <1>8, Moves4

(* Every message reaches every group: the publish lists the group, or the   *)
(* group is not stored yet and its subscribe() has still to list the        *)
(* messages, or its cursor is past the message and there was an outcome.    *)
LEMMA ReachStep ==
  ASSUME Assumption, Ind, Next
  PROVE  Reach'
  <1>0. Typed /\ Typed' /\ Numbering /\ Numbering' /\ Lasting /\ Outcomes
    BY TypedStep, NumberingStep, OutcomesStep DEF Ind
  <1>n. /\ \A g \in Groups : start[g] \in Nat /\ start'[g] \in Nat /\ start[g] <= start'[g]
        /\ \A o \in Offsets : o \in Nat
        /\ 0 \notin Offsets
    BY <1>0, StartGrows DEF Typed, Offsets
  <1>c. \A p \in Publishes : client[p].offset # 0 => client[p].offset \in Offsets
    BY <1>0 DEF Typed, ClientType
  <1>1. ASSUME ~ClientMoves PROVE Reach'
    <2>1. UNCHANGED client /\ messages' \subseteq messages
      BY <1>1, Moves4, ActorsAlone, DeliverersAlone, OthersAlone
    <2>2. ASSUME NEW p \in Publishes, NEW g \in Groups, Unreached(p, g)'
          PROVE  Missed(client[p].offset, g)'
      <3> DEFINE o == client[p].offset
      <3>1. o \in messages /\ o \in Offsets /\ client'[p].offset = o
        BY <1>0, <2>1, <2>2 DEF Unreached, Typed
      <3>2. start[g] < o /\ ~Made(g, o) /\ ~Made(g, o)'
        BY <1>0, <1>n, <2>2, <3>1 DEF Unreached, Made, Lasting
      <3>3. Unreached(p, g) BY <2>1, <2>2, <3>1, <3>2 DEF Unreached, Listed, Made
      <3>4. Missed(o, g) BY <3>3 DEF Ind, Reach
      <3>5. PICK q \in Offsets : q = o BY <3>1
      <3>6. Missed(q, g)' BY <1>1, <3>1, <3>2, <3>4, <3>5, MissedLasts DEF Made
      <3> QED BY <3>1, <3>5, <3>6 DEF Missed
    <2>3. ASSUME NEW p \in Publishes, client'[p].pc = "push"
          PROVE  /\ client'[p].group \in Groups
                 /\ delivery'[client'[p].group][client'[p].offset].status # "none"
      <3>1. client[p].offset # 0 /\ client'[p] = client[p] BY <1>0, <2>1, <2>3 DEF Numbering
      <3> QED BY <1>0, <1>c, <2>3, <3>1 DEF Ind, Reach, Lasting, Made
    <2> QED BY <2>2, <2>3 DEF Reach
  <1>2. ASSUME NEW p \in Publishes, Publish(p) \/ PublishStep(p) PROVE Reach'
    <2> DEFINE c == client[p]
    <2>0. client \in [Publishes -> ClientType] /\ c \in ClientType BY <1>0 DEF Typed
    <2>1. UNCHANGED <<subscribed, actor, start, group, ended>> BY <1>2, ClientsAlone DEF ClientMoves
    <2>m. \A o, g : Missed(o, g) => (\A n \in Nodes : g \notin subscribed'[n])
      BY <2>1 DEF Missed
    <2>2. \A q \in Publishes : q # p => client'[q] = client[q]
     
        BY <1>2, <2>0 DEF Publish, PublishStep, IncrementOffset, SaveMessage, SaveKey, ListGroups, PublishDelivery,
                        CreateDelivery
    <2>3. ASSUME NEW q \in Publishes, q # p, NEW g \in Groups, Unreached(q, g)'
          PROVE  Missed(client[q].offset, g)'
      <3> DEFINE o == client[q].offset
      <3>1. o \in messages' /\ o \in Offsets /\ client'[q] = client[q]
        BY <1>0, <2>2, <2>3 DEF Unreached, Typed
      <3>2. o \in messages
        <4>1. CASE UNCHANGED messages BY <3>1, <4>1
        <4>2. CASE SaveMessage(p)
          <5>1. c.offset # 0 BY <1>0, <4>2 DEF SaveMessage, Numbering
          <5>2. c.offset # o BY <1>0, <2>3, <5>1 DEF Numbering
          <5> QED BY <3>1, <4>2, <5>2 DEF SaveMessage
        <4> QED BY <1>2, <4>1, <4>2 DEF Publish, PublishStep, IncrementOffset, SaveKey, ListGroups,
                                        PublishDelivery, CreateDelivery, log
      <3>3. Unreached(q, g) BY <1>0, <2>1, <2>3, <3>1, <3>2 DEF Unreached, Listed, Made, Lasting
      <3>4. Missed(o, g) BY <3>3 DEF Ind, Reach
      <3> QED BY <2>1, <3>1, <3>4 DEF Missed
    <2>4. ASSUME NEW g \in Groups, Unreached(p, g)' PROVE Missed(client[p].offset, g)'
      <3>1. /\ client'[p].pc \in {"deliver", "push", "done"} /\ g \notin client'[p].todo
            /\ client'[p].offset \in messages' /\ start[g] < client'[p].offset
            /\ delivery'[g][client'[p].offset].status = "none"
        BY <2>1, <2>4 DEF Unreached, Listed
      <3>2. ~Publish(p)
        <4>1. CASE Publish(p)
          <5>1. client'[p].offset = 0 BY <1>0, <2>0, <4>1 DEF Publish, Numbering, ClientType
          <5> QED BY <1>0, <1>n, <3>1, <5>1 DEF Typed
        <4> QED BY <4>1
      <3>3. ~IncrementOffset(p) BY <2>0, <3>1 DEF IncrementOffset, ClientType
      <3>4. ~SaveMessage(p) BY <2>0, <3>1 DEF SaveMessage, ClientType
      <3>5. ~SaveKey(p) BY <2>0, <3>1 DEF SaveKey, ClientType
      <3>6. UNCHANGED messages
       
          BY <1>2, <3>2, <3>3, <3>4, <3>5 DEF PublishStep, ListGroups, PublishDelivery, CreateDelivery, log
      <3>7. CASE ListGroups(p)
        <4>1. /\ client'[p].todo = {h \in Groups : group[h].exists /\ group[h].cursor < c.offset}
              /\ client'[p].offset = c.offset /\ UNCHANGED delivery
          BY <2>0, <3>7 DEF ListGroups, ClientType
        <4>2. c.offset \in Offsets /\ c.offset \in Nat /\ group[g].cursor \in Nat
          BY <1>0, <1>n, <3>1, <3>6, <4>1 DEF Typed, GroupRecord, Offsets
        <4>3. c.offset > group[g].cursor
          BY <3>1, <4>1, <4>2 DEF Ind, Cursors, Behind, Outcomes
        <4>4. ~group[g].exists BY <3>1, <4>1, <4>2, <4>3
        <4>5. Missed(c.offset, g) BY <4>4 DEF Missed, Ind, Joining
        <4> QED BY <2>1, <4>1, <4>5 DEF Missed
      <3>8. ASSUME c.pc \in {"deliver", "push"}, client'[p].offset = c.offset, g \notin c.todo
            PROVE  Missed(client[p].offset, g)'
        <4>1. c.offset \in messages /\ c.offset \in Offsets BY <1>0, <3>1, <3>6, <3>8 DEF Typed
        <4>2. Unreached(p, g)
          BY <1>0, <3>1, <3>8, <4>1 DEF Unreached, Listed, Made, Lasting
        <4>3. Missed(c.offset, g) BY <4>2 DEF Ind, Reach
        <4> QED BY <2>1, <3>8, <4>3 DEF Missed
      <3>9. ASSUME NEW h \in Groups, CreateDelivery(p, h) PROVE Missed(client[p].offset, g)'
        <4>1. /\ c.pc = "deliver" /\ client'[p].offset = c.offset
              /\ h # g => g \notin c.todo
          BY <2>0, <3>1, <3>9 DEF CreateDelivery, NextGroup, ClientType
        <4>2. h # g
          <5>1. c.offset \in Offsets BY <1>0, <3>1, <3>6, <4>1 DEF Typed
          <5>2. CreateAll(h, Missing(h, {c.offset})) BY <3>9 DEF CreateDelivery
          <5>3. delivery'[h][c.offset] = IF c.offset \in Missing(h, {c.offset}) THEN Fresh
                                                                                 ELSE delivery[h][c.offset]
            BY <1>0, <5>1, <5>2, Creating
          <5>4. delivery'[h][c.offset].status # "none" BY <5>3 DEF Missing, Fresh
          <5> QED BY <3>1, <4>1, <5>4
        <4> QED BY <3>8, <4>1, <4>2
      <3>10. CASE PublishDelivery(p)
        <4>1. /\ c.pc = "push" /\ client'[p].offset = c.offset /\ UNCHANGED delivery
              /\ c.group # g => g \notin c.todo
          BY <2>0, <3>1, <3>10 DEF PublishDelivery, NextGroup, ClientType
        <4>2. c.group # g BY <3>1, <4>1 DEF Ind, Reach
        <4> QED BY <3>8, <4>1, <4>2
      <3> QED BY <1>2, <3>2, <3>3, <3>4, <3>5, <3>7, <3>9, <3>10 DEF PublishStep
    <2>5. ASSUME NEW q \in Publishes, client'[q].pc = "push"
          PROVE  /\ client'[q].group \in Groups
                 /\ delivery'[client'[q].group][client'[q].offset].status # "none"
      <3>1. CASE q # p
        <4>1. client[q].offset # 0 /\ client'[q] = client[q] BY <1>0, <2>2, <2>5, <3>1 DEF Numbering
        <4> QED BY <1>0, <1>c, <2>5, <4>1 DEF Ind, Reach, Lasting, Made
      <3>2. CASE q = p
        <4>1. PICK h \in Groups : CreateDelivery(p, h)
          <5>0. client'[p].pc = "push" BY <2>5, <3>2
          <5>1. ~Publish(p) BY <2>0, <5>0 DEF Publish, ClientType
          <5>2. ~IncrementOffset(p)
            <6>1. IncrementOffset(p) => client'[p].pc # "push"
              BY <2>0 DEF IncrementOffset, ClientType
            <6> QED BY <5>0, <6>1
          <5>3. ~SaveMessage(p)
            <6>1. SaveMessage(p) => client'[p].pc # "push" BY <2>0 DEF SaveMessage, ClientType
            <6> QED BY <5>0, <6>1
          <5>4. ~SaveKey(p)
            <6>1. SaveKey(p) => client'[p].pc # "push" BY <2>0 DEF SaveKey, ClientType
            <6> QED BY <5>0, <6>1
          <5>5. ~ListGroups(p)
            <6>1. ASSUME ListGroups(p) PROVE client'[p].pc \in {"done", "deliver"}
              <7> DEFINE owed == {g \in Groups : group[g].exists /\ group[g].cursor < c.offset}
                         y == [c EXCEPT !.pc = IF owed = {} THEN "done" ELSE "deliver",
                                        !.todo = owed, !.held = {g \in owed : ~group[g].active}]
              <7>1. client' = [client EXCEPT ![p] = y] BY <6>1 DEF ListGroups
              <7>2. y.pc \in {"done", "deliver"} BY <2>0 DEF ClientType
              <7> HIDE DEF y
              <7> QED BY <2>0, <7>1, <7>2
            <6> QED BY <5>0, <6>1
          <5>6. ~PublishDelivery(p)
            <6>1. NextGroup(c, c.group).pc \in {"done", "deliver"} BY <2>0 DEF NextGroup, ClientType
            <6>2. PublishDelivery(p) => client'[p] = NextGroup(c, c.group)
              BY <2>0 DEF PublishDelivery
            <6> QED BY <5>0, <6>1, <6>2
          <5> QED BY <1>2, <5>1, <5>2, <5>3, <5>4, <5>5, <5>6 DEF PublishStep
        <4>2. client'[p].group = h /\ client'[p].offset = c.offset /\ Missing(h, {c.offset}) # {} /\ c.offset # 0
          BY <1>0, <2>0, <2>5, <3>2, <4>1 DEF CreateDelivery, NextGroup, ClientType, Numbering
        <4>3. CreateAll(h, Missing(h, {c.offset})) /\ c.offset \in Missing(h, {c.offset})
          BY <4>1, <4>2 DEF CreateDelivery, Missing
        <4>4. delivery'[h][c.offset] = Fresh BY <1>0, <1>c, <4>2, <4>3, Creating
        <4> QED BY <3>2, <4>2, <4>4 DEF Fresh
      <3> QED BY <3>1, <3>2
    <2>6. \A q \in Publishes, g \in Groups : Unreached(q, g)' => Missed(client[q].offset, g)'
      BY <2>3, <2>4
    <2> QED BY <2>5, <2>6 DEF Reach
  <1> QED BY <1>1, <1>2 DEF ClientMoves

(* The invariant holds at the start.                                        *)
LEMMA IndInit ==
  ASSUME Assumption, Init
  PROVE  Ind
  <1>0. PICK s \in Settings : setting = s BY DEF Init, InitWith
  <1>1. setting \in SettingType BY <1>0 DEF Assumption, SettingType
  <1>2. /\ IdleClient.pc = "idle" /\ IdleClient.offset = 0 /\ IdleClient.todo = {} /\ ~IdleClient.retry
        /\ IdleActor.pc = "idle" /\ IdleDeliverer.pc = "idle" /\ IdleRepair.pc = "idle"
        /\ Joined.cursor = 0 /\ Unknown.cursor = 0 /\ Joined.exists /\ Absent.status = "none"
    BY DEF IdleClient, IdleActor, IdleDeliverer, IdleRepair, Joined, Unknown, Absent, Fresh
  <1>3. Typed
    <2>1. group \in [Groups -> GroupRecord] BY Nulls DEF Init, InitWith
    <2>2. delivery \in [Groups -> [Offsets -> DeliveryRecord]] BY Nulls DEF Init, InitWith
    <2>3. subscribed \in [Nodes -> SUBSET Groups] BY <1>1 DEF Init, InitWith, SettingType
    <2>4. client \in [Publishes -> ClientType] /\ actor \in [Actors -> ActorType] /\ repair \in RepairType
      BY Nulls DEF Init, InitWith
    <2>5. /\ head \in Nat /\ messages \subseteq Offsets /\ keyStored \in BOOLEAN
          /\ dead \in [Groups -> SUBSET Offsets] /\ ended = [g \in Groups |-> ended[g]]
          /\ start \in [Groups -> {0} \cup Offsets]
      BY DEF Init, InitWith
    <2>6. /\ deliverer = [d \in Deliverers |-> deliverer[d]]
          /\ \A d \in Deliverers : DelivererOK(deliverer[d])
      BY Nulls DEF Init, InitWith
    <2> QED BY <1>1, <1>2, <2>1, <2>2, <2>3, <2>4, <2>5, <2>6 DEF Typed, Init, InitWith
  <1>4. Numbering
    <2>1. Numbered = {} BY <1>2 DEF Numbered, Init, InitWith
    <2>2. Cardinality(Numbered) = 0 BY <2>1, FS_EmptySet
    <2> QED BY <1>2, <2>2 DEF Numbering, Init, InitWith
  <1>5. Keys /\ Emptied BY <1>2 DEF Keys, Emptied, Init, InitWith
  <1>6. Outcomes BY <1>2 DEF Outcomes, Init, InitWith, Terminal
  <1>7. Cursors
    <2>1. \A g \in Groups : group[g].cursor = 0 BY <1>2 DEF Init, InitWith
    <2>2. \A g \in Groups : Behind(0, g) BY DEF Behind, Offsets
    <2> QED BY <1>2, <2>1, <2>2 DEF Cursors, Init, InitWith
  <1>8. Joining BY <1>1, <1>2 DEF Joining, Init, InitWith, SettingType
  <1>9. Reach BY <1>2 DEF Reach, Unreached, Listed, Init, InitWith
  <1> QED BY <1>3, <1>4, <1>5, <1>6, <1>7, <1>8, <1>9 DEF Ind

(* Every step keeps the invariant.                                          *)
LEMMA IndStep ==
  ASSUME Assumption, Ind, [Next]_vars
  PROVE  Ind'
  <1>1. CASE Next
   
      BY <1>1, TypedStep, NumberingStep, KeysStep, OutcomesStep, CursorsStep, JoiningStep, ReachStep, EmptiedStep
       DEF Ind
  <1>2. CASE UNCHANGED vars
    <2>1. Typed' BY <1>2 DEF Ind, Typed, DelivererOK, vars
    <2>2. Numbering' /\ Keys' /\ Emptied' BY <1>2 DEF Ind, Numbering, Numbered, Keys, Emptied, vars
    <2>3. Outcomes' /\ Cursors' BY <1>2 DEF Ind, Outcomes, Cursors, Behind, vars
    <2>4. Joining' /\ Reach' BY <1>2 DEF Ind, Joining, Reach, Unreached, Listed, Missed, vars
    <2> QED BY <2>1, <2>2, <2>3, <2>4 DEF Ind
  <1> QED BY <1>1, <1>2

(* The invariant is enough.                                                 *)
LEMMA IndSuffices == ASSUME Ind PROVE NoMessageIsSkipped
  <1>1. RetryAddsNothing BY DEF Ind, Keys, RetryAddsNothing
  <1>2. EveryGroupIsServed
    <2> SUFFICES ASSUME NEW p \in Returned, NEW g \in Groups, client[p].offset > start[g],
                        client[p].offset \in messages, NEW n \in Nodes, g \in subscribed[n],
                        delivery[g][client[p].offset].status = "none"
                 PROVE  FALSE
      BY DEF EveryGroupIsServed
    <2>1. start[g] \in Nat /\ client[p].offset \in Nat BY DEF Ind, Typed, Offsets, Returned
    <2>2. Unreached(p, g) BY <2>1 DEF Ind, Emptied, Unreached, Listed, Returned
    <2> QED BY <2>2 DEF Ind, Reach, Missed, Returned
  <1>3. CommitAfterOutcome BY DEF Ind, Cursors, Behind, CommitAfterOutcome
  <1> QED BY <1>1, <1>2, <1>3 DEF NoMessageIsSkipped

(* Whatever publishes, subscriptions, deliveries, crashes, repairs and      *)
(* retention do in whatever order, a retried publish adds no message, every *)
(* subscribed group has a delivery of every message past its starting point *)
(* that is still kept, and every cursor has only outcomes behind it.        *)
THEOREM MessagesAreNotSkipped == ASSUME Assumption PROVE Spec => []NoMessageIsSkipped
  <1>1. Init => Ind BY IndInit
  <1>2. Ind /\ [Next]_vars => Ind' BY IndStep
  <1>3. Ind => NoMessageIsSkipped BY IndSuffices
  <1> QED BY <1>1, <1>2, <1>3, PTL DEF Spec

-----------------------------------------------------------------------------
(* pause() returns once the broker is told, and only a resume(), which      *)
(* cannot be under way with it, tells the broker otherwise.                 *)
PauseActor(x) ==
  /\ actor[x].pc = "switch" => actor[x].call \in {"pause", "resume"}
  /\ actor[x].pc \in {"write", "switch"} /\ actor[x].call \in {"pause", "resume"} => x = Operator
  /\ actor[x].pc \in {"write", "switch"} /\ actor[x].call = "resume" => actor[x].group \notin quiet
Pausing ==
  /\ quiet \subseteq halted /\ quiet \subseteq Groups
  /\ claim = [g \in Groups |-> [o \in Offsets |-> claim[g][o]]]
  /\ \A x \in Actors : PauseActor(x)
Holds == \A g \in quiet \cap quiet', o \in Offsets : claim'[g][o] \in {claim[g][o], NoNode}

(* A lock is taken in a group that is not halted, or let go.                *)
LEMMA ClaimForms ==
  ASSUME Next
  PROVE  \/ UNCHANGED claim
         \/ \E g, o : claim' = [claim EXCEPT ![g][o] = NoNode]
         \/ \E g, o, n : g \notin halted /\ claim' = [claim EXCEPT ![g][o] = n]
  <1>1. CASE ClientMoves
    BY <1>1 DEF ClientMoves, PublishStep, Publish, IncrementOffset, SaveMessage, SaveKey, ListGroups,
           PublishDelivery, CreateDelivery, broker
  <1>2. CASE ActorMoves
    BY <1>2 DEF ActorMoves, ActorStep, Begin, WriteGroup, Switch, List, Create, Push, Forget, broker
  <1>3. ASSUME NEW d \in Deliverers, Claim(d)
        PROVE  UNCHANGED claim \/ \E g, o, n : g \notin halted /\ claim' = [claim EXCEPT ![g][o] = n]
    <2> DEFINE e == deliverer[d]
               o == Head(Claimable(e.group))
    <2>1. CASE UNCHANGED broker BY <2>1 DEF broker
    <2>2. CASE e.group \notin halted /\ claim' = [claim EXCEPT ![e.group][o] = e.node]
      <3> HIDE DEF e, o
      <3> QED BY <2>2
    <2> QED BY <1>3, <2>1, <2>2 DEF Claim
  <1>4. ASSUME NEW d \in Deliverers, Settle(d)
        PROVE  \E g, o : claim' = [claim EXCEPT ![g][o] = NoNode]
    BY <1>4 DEF Settle, Ack, Nack, Unlock
  <1>5. CASE DelivererMoves
    <2>1. PICK d \in Deliverers : DelivererStep(d) BY <1>5 DEF DelivererMoves
    <2>2. CASE ~Claim(d) /\ ~Settle(d)
      BY <2>1, <2>2 DEF DelivererStep, Load, Lease, Handle, Bury, ReadCursor, Walk, broker
    <2> QED BY <1>3, <1>4, <2>1, <2>2
  <1>6. CASE OtherMoves
    <2>1. ASSUME NEW g \in Groups, NEW o \in Offsets, ClaimExpires(g, o)
          PROVE  claim' = [claim EXCEPT ![g][o] = NoNode]
      BY <2>1 DEF ClaimExpires
    <2> QED BY <1>6, <2>1 DEF OtherMoves, Revive, Overdue, Crash, PollAny, Poll, Unsubscribe,
                              RepairStep, Scan, RepairSave, RepairPublish, Expire, broker
  <1> QED BY <1>1, <1>2, <1>5, <1>6, Moves4

(* So what is quiet keeps its locks, or loses them.                         *)
LEMMA PauseClaims ==
  ASSUME Pausing, Next
  PROVE  Holds /\ claim' = [g \in Groups |-> [o \in Offsets |-> claim'[g][o]]]
  <1>0. claim = [g \in Groups |-> [o \in Offsets |-> claim[g][o]]] BY DEF Pausing
  <1>1. CASE UNCHANGED claim BY <1>0, <1>1 DEF Holds
  <1>2. ASSUME NEW g, NEW o, NEW n, claim' = [claim EXCEPT ![g][o] = n], g \notin halted \/ n = NoNode
        PROVE  Holds /\ claim' = [h \in Groups |-> [p \in Offsets |-> claim'[h][p]]]
    <2>1. \A h \in Groups : claim[h] = [p \in Offsets |-> claim[h][p]] BY Zenon, <1>0
    <2>2. claim' = [h \in Groups |-> IF h = g THEN [claim[g] EXCEPT ![o] = n] ELSE claim[h]]
      BY <1>0, <1>2
    <2>3. \A h \in Groups : claim'[h] = [p \in Offsets |-> IF h = g /\ p = o THEN n ELSE claim[h][p]]
      BY <2>1, <2>2
    <2>4. \A h \in Groups, p \in Offsets : claim'[h][p] = IF h = g /\ p = o THEN n ELSE claim[h][p]
      BY <2>3
    <2>5. \A h \in Groups : claim'[h] = [p \in Offsets |-> claim'[h][p]] BY Zenon, <2>3
    <2>6. claim' = [h \in Groups |-> [p \in Offsets |-> claim'[h][p]]]
      <3>1. claim' = [h \in Groups |-> claim'[h]] BY <2>2
      <3> QED BY Zenon, <2>5, <3>1
    <2>7. \A h \in quiet : h \in Groups => h # g \/ n = NoNode BY <1>2 DEF Pausing
    <2>8. Holds
      <3> SUFFICES ASSUME NEW h \in quiet, NEW p \in Offsets PROVE claim'[h][p] \in {claim[h][p], NoNode}
        BY DEF Holds
      <3>1. h \in Groups BY DEF Pausing
      <3> QED BY <2>4, <2>7, <3>1
    <2> QED BY <2>6, <2>8
  <1> QED BY <1>1, <1>2, ClaimForms

(* Only a pause() that is done tells a group to be quiet, and only the call *)
(* of the operator that is under way touches that.                          *)
LEMMA PauseKeeps ==
  ASSUME Assumption, Ind, Pausing, Next
  PROVE  Pausing'
  <1>0. Typed BY DEF Ind
  <1>c. claim' = [g \in Groups |-> [o \in Offsets |-> claim'[g][o]]] BY PauseClaims
  <1>i. IdleActor.pc = "idle" BY DEF IdleActor
  <1>a. ASSUME UNCHANGED <<quiet, halted>>,
               \A x \in Actors : actor'[x] = actor[x] \/ actor'[x].pc \notin {"write", "switch"}
        PROVE  Pausing'
    <2>1. \A x \in Actors : PauseActor(x)' BY <1>a DEF Pausing, PauseActor
    <2> QED BY <1>a, <1>c, <2>1 DEF Pausing
  <1>1. CASE ClientMoves
    <2>1. UNCHANGED <<quiet, halted, actor>>
      BY <1>1 DEF ClientMoves, PublishStep, Publish, IncrementOffset, SaveMessage, SaveKey, ListGroups,
             PublishDelivery, CreateDelivery, broker
    <2> QED BY <1>a, <2>1
  <1>2. CASE DelivererMoves
    <2>1. UNCHANGED <<quiet, halted, actor>>
      BY <1>2 DEF DelivererMoves, DelivererStep, Claim, Load, Lease, Handle, Bury, Settle, ReadCursor,
             Walk, broker
    <2> QED BY <1>a, <2>1
  <1>3. CASE OtherMoves
    <2>1. ASSUME NEW n \in Nodes, Crash(n) PROVE Pausing'
      BY <1>0, <1>a, <1>i, <2>1 DEF Crash, broker, Typed
    <2>2. ASSUME NEW g \in Groups, NEW o \in Offsets, Revive(g, o) PROVE Pausing'
      <3> DEFINE y == [IdleActor EXCEPT !.pc = "forget", !.call = "revive", !.group = g, !.todo = {o}]
      <3>1. actor' = [actor EXCEPT ![Operator] = y] /\ UNCHANGED <<quiet, halted>>
        BY <2>2 DEF Revive, broker
      <3>2. y.pc = "forget" BY DEF IdleActor
      <3> HIDE DEF y
      <3> QED BY <1>0, <1>a, <3>1, <3>2 DEF Typed
    <2>3. CASE UNCHANGED <<quiet, halted, actor>> BY <1>a, <2>3
    <2> QED BY <1>3, <2>1, <2>2, <2>3
         DEF OtherMoves, Overdue, ClaimExpires, PollAny, Poll, Unsubscribe, RepairStep, Scan, RepairSave,
             RepairPublish, Expire, broker
  <1>4. ASSUME NEW x \in Actors, ActorStep(x) PROVE Pausing'
    <2>1. /\ \A y \in Actors : y # x => actor'[y] = actor[y]
          /\ actor[x].pc # "idle" => actor[x].group \in Groups
          /\ PauseActor(x)
      BY <1>0, <1>4, ActorForms DEF Typed, Pausing
    <2>2. CASE WriteGroup(x)
      <3>1. /\ actor[x].pc = "write" /\ actor'[x].group = actor[x].group /\ actor'[x].call = actor[x].call
            /\ actor'[x].pc = IF actor[x].call \in {"pause", "resume"} THEN "switch" ELSE "list"
            /\ UNCHANGED <<quiet, halted>>
        BY <1>0, <2>2 DEF WriteGroup, Typed, ActorType, broker
      <3>2. PauseActor(x)' BY <2>1, <3>1 DEF PauseActor
      <3>3. \A y \in Actors : PauseActor(y)' BY <2>1, <3>1, <3>2 DEF Pausing, PauseActor
      <3> QED BY <1>c, <3>1, <3>3 DEF Pausing
    <2>3. CASE Switch(x) /\ actor[x].call = "pause"
      <3>1. /\ actor[x].pc = "switch" /\ actor'[x].pc = "idle"
            /\ halted' = halted \cup {actor[x].group} /\ quiet' = quiet \cup {actor[x].group}
        BY <1>0, <1>i, <2>3 DEF Switch, Typed
      <3>2. \A y \in Actors : y # x /\ actor[y].pc \in {"write", "switch"} => actor[y].call # "resume"
        BY <2>1, <2>3, <3>1 DEF Pausing, PauseActor
      <3>3. \A y \in Actors : PauseActor(y)' BY <2>1, <3>1, <3>2 DEF Pausing, PauseActor
      <3> QED BY <1>c, <2>1, <3>1, <3>3 DEF Pausing
    <2>4. CASE Switch(x) /\ actor[x].call # "pause"
      <3>1. actor[x].pc = "switch" /\ halted' = halted \ {actor[x].group} /\ quiet' = quiet
            /\ actor' = [actor EXCEPT ![x] = [actor[x] EXCEPT !.pc = "list"]]
        BY <2>4 DEF Switch
      <3>2. actor[x].call = "resume" /\ actor[x].group \notin quiet
        BY <2>1, <2>4, <3>1 DEF PauseActor
      <3>3. actor'[x].pc = "list" BY <1>0, <3>1 DEF Typed, ActorType
      <3>4. \A y \in Actors : PauseActor(y)' BY <2>1, <3>1, <3>3 DEF Pausing, PauseActor
      <3> QED BY <1>c, <3>1, <3>2, <3>4 DEF Pausing
    <2>5. CASE ~WriteGroup(x) /\ ~Switch(x)
      <3>1. UNCHANGED <<quiet, halted>> BY <1>4, <2>5 DEF ActorStep, List, Create, Push, Forget, broker
      <3>2. CASE Push(x)
        <4>1. actor'[x].pc = "idle" BY <1>0, <1>i, <3>2 DEF Push, Typed
        <4> QED BY <1>a, <2>1, <3>1, <4>1
      <3>3. CASE ~Push(x)
        <4>1. actor'[x].pc \notin {"write", "switch"} BY <1>0, <1>4, <2>5, <3>3, ActorForms
        <4> QED BY <1>a, <2>1, <3>1, <4>1
      <3> QED BY <3>2, <3>3
    <2> QED BY <2>2, <2>3, <2>4, <2>5
  <1>5. ASSUME NEW x \in Actors, NEW call \in Calls \ {"unsubscribe", "revive"}, NEW g \in Groups, Begin(x, call, g)
        PROVE  Pausing'
    <2> DEFINE y == [IdleActor EXCEPT !.pc = "write", !.call = call, !.group = g, !.copy = Copied(call, g),
                                      !.places = call \in {"earliest", "latest"} \/ ~group[g].exists]
    <2>1. /\ actor' = [actor EXCEPT ![x] = y] /\ UNCHANGED halted
          /\ quiet' = IF call = "resume" THEN quiet \ {g} ELSE quiet
          /\ call # "subscribe" => x = Operator
      BY <1>5 DEF Begin, broker
    <2>2. y.pc = "write" /\ y.call = call /\ y.group = g BY DEF IdleActor
    <2> HIDE DEF y
    <2>3. actor'[x] = y /\ \A z \in Actors : z # x => actor'[z] = actor[z] BY <1>0, <2>1 DEF Typed
    <2>4. PauseActor(x)' BY <2>1, <2>2, <2>3 DEF PauseActor
    <2>5. \A z \in Actors : PauseActor(z)' BY <2>1, <2>3, <2>4 DEF Pausing, PauseActor
    <2> QED BY <1>c, <2>1, <2>5 DEF Pausing
  <1> QED BY <1>1, <1>2, <1>3, <1>4, <1>5, Moves4 DEF ActorMoves

(* After pause() returns nothing of the group is claimed until resume()     *)
(* (pubsub-engine.ts: pause and resume go to the broker after the record).  *)
(* For any groups, processes, calls and faults.                             *)
THEOREM PausesHold == ASSUME Assumption PROVE Spec => PauseHolds
  <1>1. Init => Ind BY IndInit
  <1>2. Init => Pausing BY DEF Init, InitWith, Pausing, PauseActor, IdleActor
  <1>3. Ind /\ [Next]_vars => Ind' BY IndStep
  <1>4. Pausing /\ UNCHANGED vars => Pausing' BY DEF Pausing, PauseActor, vars
  <1>5. Ind /\ Pausing /\ [Next]_vars => Pausing' BY <1>4, PauseKeeps
  <1>6. Pausing /\ [Next]_vars => [Holds]_vars BY PauseClaims
  <1>7. [Holds]_vars <=> [\A g \in quiet \cap quiet', o \in Offsets : claim'[g][o] \in {claim[g][o], NoNode}]_vars
    BY DEF Holds
  <1> QED BY <1>1, <1>2, <1>3, <1>5, <1>6, <1>7, PTL DEF Spec, PauseHolds
=============================================================================
