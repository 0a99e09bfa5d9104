----------------------------- MODULE Cache_proofs -----------------------------
(***************************************************************************)
(* CacheEngine: one fetcher per key and process, and per key in the cluster *)
(* under the cluster lock, for any number of processes, keys, calls and     *)
(* faults.  FetchOnce is not inductive: it is true because a call that is   *)
(* past the inflight map is the one the map names (Registered), because     *)
(* with the lock nobody reaches the fetcher without it (Locked), and        *)
(* because the lock a call holds stays its process's until it is released   *)
(* or lapses (Holding).                                                     *)
(*                                                                          *)
(* The second half proves that what is invalidated stays gone: a call that  *)
(* began after an invalidation returned never carries a copy older than it, *)
(* and neither does any store such a call can read (GoneInv).               *)
(***************************************************************************)
EXTENDS Cache, TLAPS, FiniteSetTheorems

Busy == [pc : Pcs, kind : Kinds, node : Nodes, key : Keys, copy : MaybeCopy,
         miss : {"end", "flight", "follow"}, held : BOOLEAN, index : SUBSET Keys,
         todo : SUBSET Keys, scope : SUBSET Keys, seen : [Keys -> 0 .. MaxVersion]]

SettingOK ==
  setting \in [fleet : SUBSET Nodes, keys : SUBSET Keys, maxItems : Nat,
               tagged : BOOLEAN, clusterLock : BOOLEAN, followerFetch : BOOLEAN,
               offers : [Kinds -> Nat], budget : [Faults -> Nat]]

(* A call that has registered itself in the inflight map and not ended.     *)
Flying(r) == r.pc \in {"lock", "follow", "fetch", "release"} \/ r.miss = "follow" \/ r.held

Registered ==
  \A c \in Slots : Flying(call[c]) => inflight[call[c].node][call[c].key] = c
Locked ==
  \A c \in Slots :
    call[c].pc = "fetch" /\ setting.clusterLock /\ ~setting.followerFetch => call[c].held
Holding ==
  \A c \in Slots :
    call[c].held /\ call[c].key \notin lapsed => fetchLock[call[c].key] = call[c].node

CacheInv == TypeOK /\ SettingOK /\ Registered /\ Locked /\ Holding

-----------------------------------------------------------------------------
(* What a step of the call c does to the calls and to the inflight map.     *)
Others(c) == \A d \in Slots \ {c} : call'[d] = call[d]

(* It goes on: registered where it was, and not at the fetcher.             *)
Continues(c) ==
  /\ call' \in [Slots -> CallRecord] /\ Others(c) /\ inflight' = inflight
  /\ call'[c].node = call[c].node /\ call'[c].key = call[c].key
  /\ call'[c].held = call[c].held
  /\ Flying(call'[c]) => Flying(call[c])
  /\ call'[c].pc # "fetch"

(* It ends: its entry in the inflight map goes, nobody else's does.         *)
Ends(c) ==
  /\ call' \in [Slots -> CallRecord] /\ Others(c) /\ call'[c] = NoCall
  /\ inflight' \in [Nodes -> [Keys -> Slots \cup {NoSlot}]]
  /\ \A n \in Nodes, k \in Keys : inflight[n][k] # c => inflight'[n][k] = inflight[n][k]

(* A call under way is a full record; an idle slot is NoCall.               *)
LEMMA BusyCalls ==
  ASSUME TypeOK, NEW c \in Slots, call[c].pc # "idle"
  PROVE  call[c] \in Busy
<1>1. call[c] \in CallRecord
  BY DEF TypeOK
<1>2. CallRecord = Busy \cup {NoCall}
  BY Zenon DEF CallRecord, Busy
<1>3. NoCall.pc = "idle"
  BY DEF NoCall
<1> QED BY <1>1, <1>2, <1>3

(* The idle record is a call record that holds nothing and is not flying.   *)
LEMMA NoCallFacts ==
  /\ NoCall \in CallRecord /\ NoCall.pc = "idle" /\ NoCall.held = FALSE
  /\ NoCall.node = NoNode /\ NoCall.key = "none" /\ ~Flying(NoCall)
BY DEF NoCall, CallRecord, Flying

(* One call is replaced by a full record.                                   *)
LEMMA Replaced ==
  ASSUME TypeOK, NEW c \in Slots, NEW r \in Busy, call' = [call EXCEPT ![c] = r]
  PROVE  call' \in [Slots -> CallRecord] /\ call'[c] = r /\ Others(c)
<1>1. r \in CallRecord
  BY DEF CallRecord, Busy
<1> QED BY <1>1 DEF TypeOK, Others

(* The program counter of a call under way moves (Go).                      *)
LEMMA GoMoves ==
  ASSUME TypeOK, NEW c \in Slots, call[c].pc # "idle", NEW pc \in Pcs, Go(c, pc)
  PROVE  /\ call' \in [Slots -> CallRecord] /\ Others(c)
         /\ call'[c].pc = pc /\ call'[c].node = call[c].node /\ call'[c].key = call[c].key
         /\ call'[c].held = call[c].held /\ call'[c].miss = call[c].miss
<1>1. call[c] \in Busy
  BY BusyCalls
<1>2. PICK r : r = [call[c] EXCEPT !.pc = pc]
  OBVIOUS
<1>3. /\ r \in Busy /\ r.pc = pc /\ r.node = call[c].node /\ r.key = call[c].key
      /\ r.held = call[c].held /\ r.miss = call[c].miss
  BY <1>1, <1>2 DEF Busy
<1>4. call' = [call EXCEPT ![c] = r]
  BY <1>2 DEF Go
<1>5. call' \in [Slots -> CallRecord] /\ call'[c] = r /\ Others(c)
  BY <1>3, <1>4, Replaced
<1> QED BY <1>3, <1>5

(* The promise of a call settles (End).                                     *)
LEMMA EndEnds ==
  ASSUME TypeOK, NEW c \in Slots, call[c].pc # "idle", End(c)
  PROVE  Ends(c)
<1>1. call[c] \in Busy
  BY BusyCalls
<1>2. PICK n \in Nodes : n = call[c].node
  BY <1>1 DEF Busy
<1>3. PICK k \in Keys : k = call[c].key
  BY <1>1 DEF Busy
<1>4. /\ call' = [call EXCEPT ![c] = NoCall]
      /\ inflight' = IF inflight[n][k] = c
                     THEN [inflight EXCEPT ![n][k] = NoSlot] ELSE inflight
  BY <1>2, <1>3 DEF End
<1>5. inflight \in [Nodes -> [Keys -> Slots \cup {NoSlot}]]
  BY DEF TypeOK
<1>6. inflight' \in [Nodes -> [Keys -> Slots \cup {NoSlot}]]
  BY <1>4, <1>5
<1>7. \A m \in Nodes, o \in Keys : inflight[m][o] # c => inflight'[m][o] = inflight[m][o]
  BY <1>4, <1>5
<1>8. call' \in [Slots -> CallRecord] /\ call'[c] = NoCall /\ Others(c)
  BY <1>4, NoCallFacts DEF TypeOK, Others
<1> QED BY <1>6, <1>7, <1>8 DEF Ends

(* A call goes on to release its lock, or ends (Finish).                    *)
LEMMA FinishMoves ==
  ASSUME TypeOK, NEW c \in Slots, call[c].pc # "idle", Finish(c)
  PROVE  Continues(c) \/ Ends(c)
<1>1. CASE call[c].held
  <2>1. Go(c, "release") /\ inflight' = inflight /\ "release" \in Pcs
    BY <1>1 DEF Finish, Pcs
  <2> QED BY <1>1, <2>1, GoMoves DEF Continues, Flying
<1>2. CASE ~call[c].held
  BY <1>2, EndEnds DEF Finish
<1> QED BY <1>1, <1>2

(* A miss leads to the fetch, back to following, or to the end (Miss).      *)
LEMMA MissMoves ==
  ASSUME TypeOK, NEW c \in Slots, call[c].pc # "idle", Miss(c)
  PROVE  Continues(c) \/ Ends(c)
<1>1. CASE call[c].miss = "end"
  BY <1>1, FinishMoves DEF Miss
<1>2. CASE call[c].miss # "end"
  <2>1. call[c].miss \in {"flight", "follow"}
    BY <1>2, BusyCalls DEF Busy
  <2>2. PICK pc : pc = call[c].miss OBVIOUS
  <2>3. Go(c, pc) /\ inflight' = inflight /\ pc \in Pcs /\ pc \in {"flight", "follow"}
    BY <1>2, <2>1, <2>2 DEF Miss, Pcs
  <2>4. /\ call' \in [Slots -> CallRecord] /\ Others(c)
        /\ call'[c].pc = pc /\ call'[c].node = call[c].node /\ call'[c].key = call[c].key
        /\ call'[c].held = call[c].held /\ call'[c].miss = call[c].miss
    BY <2>3, GoMoves
  <2> QED BY <2>2, <2>3, <2>4 DEF Continues, Flying
<1> QED BY <1>1, <1>2

(* A hit answers, or goes on to a refresh (Hit).                            *)
LEMMA HitMoves ==
  ASSUME TypeOK, NEW c \in Slots, call[c].pc # "idle", NEW copy, Hit(c, copy)
  PROVE  Continues(c) \/ Ends(c)
<1>1. CASE call[c].miss = "flight" /\ copy.age = "stale"
  <2>1. PICK r : r = [call[c] EXCEPT !.kind = "refresh", !.pc = "flight"]
    OBVIOUS
  <2>2. call' = [call EXCEPT ![c] = r] /\ inflight' = inflight
    BY <1>1, <2>1 DEF Hit
  <2>0. call[c] \in Busy BY BusyCalls
  <2>5. "flight" \in Pcs /\ "refresh" \in Kinds BY DEF Pcs, Kinds
  <2>3. /\ r \in Busy /\ r.pc = "flight" /\ r.node = call[c].node /\ r.key = call[c].key
        /\ r.held = call[c].held /\ r.miss = call[c].miss
    BY <2>0, <2>1, <2>5 DEF Busy
  <2>4. call' \in [Slots -> CallRecord] /\ call'[c] = r /\ Others(c)
    BY <2>2, <2>3, Replaced
  <2> QED BY <2>2, <2>3, <2>4 DEF Continues, Flying
<1>2. CASE ~(call[c].miss = "flight" /\ copy.age = "stale")
  BY <1>2, FinishMoves DEF Hit
<1> QED BY <1>1, <1>2
-----------------------------------------------------------------------------
(* A map of a process stays a map of copies when keys are evicted from it.  *)
LEMMA EvictTypes ==
  ASSUME TypeOK, NEW n \in Nodes, NEW keys, EvictL1(n, keys)
  PROVE  l1' \in [Nodes -> [Keys -> MaybeCopy]]
<1>1. NoCopy \in MaybeCopy
  BY DEF MaybeCopy
<1>2. l1 \in [Nodes -> [Keys -> MaybeCopy]]
  BY DEF TypeOK
<1>3. PICK m : m = [k \in Keys |-> IF k \in keys THEN NoCopy ELSE l1[n][k]]
  OBVIOUS
<1>4. m \in [Keys -> MaybeCopy]
  BY <1>1, <1>2, <1>3
<1>5. l1' = [l1 EXCEPT ![n] = m]
  BY <1>2, <1>3 DEF EvictL1
<1> QED BY <1>2, <1>4, <1>5

(* ... and when one is put in, whichever goes for it.                       *)
LEMMA PutTypes ==
  ASSUME TypeOK, NEW n \in Nodes, NEW k \in Keys, NEW copy \in MaybeCopy, PutL1(n, k, copy)
  PROVE  l1' \in [Nodes -> [Keys -> MaybeCopy]]
<1>1. NoCopy \in MaybeCopy
  BY DEF MaybeCopy
<1>2. l1 \in [Nodes -> [Keys -> MaybeCopy]]
  BY DEF TypeOK
<1>3. PICK put : put = [l1[n] EXCEPT ![k] = copy]
  OBVIOUS
<1>4. put \in [Keys -> MaybeCopy]
  BY <1>2, <1>3
<1>5. \/ l1' = [l1 EXCEPT ![n] = put]
      \/ \E o \in Keys : l1' = [l1 EXCEPT ![n] = [put EXCEPT ![o] = NoCopy]]
  BY <1>3, Zenon DEF PutL1
<1>6. CASE l1' = [l1 EXCEPT ![n] = put]
  BY <1>2, <1>4, <1>6
<1>7. ASSUME NEW o \in Keys, l1' = [l1 EXCEPT ![n] = [put EXCEPT ![o] = NoCopy]]
      PROVE  l1' \in [Nodes -> [Keys -> MaybeCopy]]
  <2>1. PICK m : m = [put EXCEPT ![o] = NoCopy] OBVIOUS
  <2>2. m \in [Keys -> MaybeCopy]
    BY <1>1, <1>4, <2>1
  <2> QED BY <1>2, <1>7, <2>1, <2>2
<1> QED BY <1>5, <1>6, <1>7

(* The moves of a call that leave the locks and the configuration alone.    *)
Moves(c) == Continues(c) \/ Ends(c)
Aside == setting' = setting /\ fetchLock' = fetchLock /\ lapsed' = lapsed

(* They keep the types of the calls and of the inflight map.                *)
LEMMA MovesTypes ==
  ASSUME TypeOK, NEW c \in Slots, Moves(c)
  PROVE  /\ call' \in [Slots -> CallRecord]
         /\ inflight' \in [Nodes -> [Keys -> Slots \cup {NoSlot}]]
BY DEF Moves, Continues, Ends, TypeOK

(* A call that is flying, or holds a lock, is a full record.                *)
LEMMA FlyingBusy ==
  ASSUME TypeOK, NEW c \in Slots, Flying(call[c])
  PROVE  call[c] \in Busy
<1>1. call[c] \in CallRecord
  BY DEF TypeOK
<1>2. CallRecord = Busy \cup {NoCall}
  BY Zenon DEF CallRecord, Busy
<1> QED BY <1>1, <1>2, NoCallFacts

(* They keep what ties calls, inflight map and locks together.              *)
LEMMA MovesKeep ==
  ASSUME CacheInv, NEW c \in Slots, call[c].pc # "idle", Moves(c), fetchLock' = fetchLock,
         lapsed' = lapsed, setting'.clusterLock = setting.clusterLock,
         setting'.followerFetch = setting.followerFetch
  PROVE  Registered' /\ Locked' /\ Holding'
<1>1. Registered /\ Locked /\ Holding /\ TypeOK
  BY DEF CacheInv
<1>2. \A d \in Slots \ {c} : call'[d] = call[d]
  BY DEF Moves, Continues, Ends, Others
<1>3. CASE Continues(c)
  <2>1. /\ call'[c].node = call[c].node /\ call'[c].key = call[c].key /\ inflight' = inflight
        /\ call'[c].held = call[c].held /\ (Flying(call'[c]) => Flying(call[c]))
        /\ call'[c].pc # "fetch"
    BY <1>3 DEF Continues
  <2>2. ASSUME NEW d \in Slots, Flying(call'[d])
        PROVE  inflight'[call'[d].node][call'[d].key] = d
    BY <1>1, <1>2, <2>1, <2>2 DEF Registered
  <2>3. Locked'
    BY <1>1, <1>2, <2>1 DEF Locked
  <2>4. Holding'
    BY <1>1, <1>2, <2>1 DEF Holding
  <2> QED BY <2>2, <2>3, <2>4 DEF Registered
<1>4. CASE Ends(c)
  <2>1. /\ ~Flying(call'[c]) /\ call'[c].pc # "fetch" /\ ~call'[c].held
        /\ \A n \in Nodes, k \in Keys : inflight[n][k] # c => inflight'[n][k] = inflight[n][k]
    BY <1>4, NoCallFacts DEF Ends
  <2>2. ASSUME NEW d \in Slots, Flying(call'[d])
        PROVE  inflight'[call'[d].node][call'[d].key] = d
    <3>1. d # c /\ call'[d] = call[d]
      BY <1>2, <2>1, <2>2
    <3>2. call[d].node \in Nodes /\ call[d].key \in Keys
      BY <1>1, <2>2, <3>1, FlyingBusy DEF Busy
    <3>3. inflight[call[d].node][call[d].key] = d
      BY <1>1, <2>2, <3>1 DEF Registered
    <3> QED BY <2>1, <3>1, <3>2, <3>3
  <2>3. Locked'
    BY <1>1, <1>2, <2>1 DEF Locked
  <2>4. Holding'
    BY <1>1, <1>2, <2>1 DEF Holding
  <2> QED BY <2>2, <2>3, <2>4 DEF Registered
<1> QED BY <1>3, <1>4 DEF Moves

(* One record is edited in place: what makes that a move.                   *)
LEMMA EditMoves ==
  ASSUME TypeOK, NEW c \in Slots, NEW r \in Busy, call' = [call EXCEPT ![c] = r],
         inflight' = inflight, r.node = call[c].node, r.key = call[c].key,
         r.held = call[c].held, Flying(r) => Flying(call[c]), r.pc # "fetch"
  PROVE  Moves(c)
BY Replaced DEF Moves, Continues

-----------------------------------------------------------------------------
(* Steps of get and getOrFetch that read, fetch or poll.                    *)
LEMMA ReadL1Moves ==
  ASSUME TypeOK, NEW c \in Slots, ReadL1(c)
  PROVE  TypeOK' /\ Moves(c) /\ Aside
<1>1. call[c].pc = "read" /\ call[c] \in Busy
  BY BusyCalls DEF ReadL1, At
<1>2. PICK n \in Nodes : n = call[c].node
  BY <1>1 DEF Busy
<1>3. PICK k \in Keys : k = call[c].key
  BY <1>1 DEF Busy
<1>4. Moves(c) /\ l1' \in [Nodes -> [Keys -> MaybeCopy]]
  <2>1. CASE Live(l1[n][k])
    <3>1. Hit(c, l1[n][k]) /\ l1' = l1
      BY <1>2, <1>3, <2>1 DEF ReadL1
    <3> QED BY <1>1, <3>1, HitMoves DEF Moves, TypeOK
  <2>2. CASE ~Live(l1[n][k])
    <3>1. EvictL1(n, {k}) /\ Go(c, "l2") /\ inflight' = inflight /\ "l2" \in Pcs
      BY <1>2, <1>3, <2>2 DEF ReadL1, Pcs
    <3> QED BY <1>1, <3>1, EvictTypes, GoMoves DEF Moves, Continues, Flying
  <2> QED BY <2>1, <2>2
<1>5. Aside
  BY DEF ReadL1, Aside, histories
<1>6. TypeOK'
  BY <1>4, MovesTypes DEF ReadL1, TypeOK, histories
<1> QED BY <1>4, <1>5, <1>6

(* ReadL2: a copy to enter, a dead one to drop, or a miss.                  *)
LEMMA ReadL2Moves ==
  ASSUME TypeOK, NEW c \in Slots, ReadL2(c)
  PROVE  TypeOK' /\ Moves(c) /\ Aside
<1>1. call[c].pc = "l2" /\ call[c] \in Busy
  BY BusyCalls DEF ReadL2, At
<1>2. PICK k \in Keys : k = call[c].key
  BY <1>1 DEF Busy
<1>3. PICK copy \in MaybeCopy : copy = l2[k]
  BY DEF TypeOK
<1>4. Moves(c)
  <2>1. CASE Miss(c)
    BY <1>1, <2>1, MissMoves DEF Moves
  <2>2. CASE ~Miss(c) /\ copy.age = "dead"
    <3>1. PICK r : r = [call[c] EXCEPT !.pc = "drop", !.todo = {k}]
      OBVIOUS
    <3>2. call' = [call EXCEPT ![c] = r] /\ inflight' = inflight
      BY <1>2, <1>3, <2>2, <3>1 DEF ReadL2
    <3>3. r \in Busy /\ r.pc = "drop" /\ r.node = call[c].node /\ r.key = call[c].key
          /\ r.held = call[c].held /\ r.miss = call[c].miss
      BY <1>1, <3>1 DEF Busy, Pcs
    <3> QED BY <3>2, <3>3, EditMoves DEF Flying
  <2>3. CASE ~Miss(c) /\ copy.age # "dead"
    <3>1. PICK r : r = [call[c] EXCEPT !.pc = "fill", !.copy = copy]
      OBVIOUS
    <3>2. call' = [call EXCEPT ![c] = r] /\ inflight' = inflight
      BY <1>2, <1>3, <2>3, <3>1 DEF ReadL2
    <3>3. r \in Busy /\ r.pc = "fill" /\ r.node = call[c].node /\ r.key = call[c].key
          /\ r.held = call[c].held /\ r.miss = call[c].miss
      BY <1>1, <3>1 DEF Busy, Pcs
    <3> QED BY <3>2, <3>3, EditMoves DEF Flying
  <2> QED BY <2>1, <2>2, <2>3
<1>5. Aside
  BY DEF ReadL2, Aside, histories
<1>6. TypeOK'
  BY <1>4, MovesTypes DEF ReadL2, TypeOK, histories
<1> QED BY <1>4, <1>5, <1>6

(* Fill: the copy that was read enters the map of the process.              *)
LEMMA FillMoves ==
  ASSUME TypeOK, NEW c \in Slots, Fill(c)
  PROVE  TypeOK' /\ Moves(c) /\ Aside
<1>1. call[c].pc = "fill" /\ call[c] \in Busy
  BY BusyCalls DEF Fill, At
<1>2. Moves(c)
  BY <1>1, HitMoves DEF Fill, Moves
<1>3. l1' \in [Nodes -> [Keys -> MaybeCopy]]
  BY <1>1, PutTypes DEF Fill, Busy
<1>4. Aside
  BY DEF Fill, Aside, histories
<1>5. TypeOK'
  BY <1>2, <1>3, MovesTypes DEF Fill, TypeOK, histories
<1> QED BY <1>2, <1>4, <1>5

(* Poll: a follower looks again.                                            *)
LEMMA PollMoves ==
  ASSUME TypeOK, NEW c \in Slots, Poll(c)
  PROVE  TypeOK' /\ Moves(c) /\ Aside
<1>1. call[c].pc = "follow" /\ call[c] \in Busy
  BY BusyCalls DEF Poll, At
<1>2. PICK r : r = [call[c] EXCEPT !.pc = "read", !.miss = "follow"]
  OBVIOUS
<1>3. call' = [call EXCEPT ![c] = r] /\ inflight' = inflight
  BY <1>2 DEF Poll
<1>4. /\ r \in Busy /\ r.pc = "read" /\ r.node = call[c].node /\ r.key = call[c].key
      /\ r.held = call[c].held
  BY <1>1, <1>2 DEF Busy, Pcs
<1>5. Moves(c)
  BY <1>1, <1>3, <1>4, EditMoves DEF Flying
<1>6. Aside
  BY DEF Poll, Aside, histories
<1>7. TypeOK'
  BY <1>5, MovesTypes DEF Poll, TypeOK, histories
<1> QED BY <1>5, <1>6, <1>7

(* The fetcher returns a version of the source, or throws.                  *)
LEMMA FetchMoves ==
  ASSUME TypeOK, NEW c \in Slots, Fetch(c)
  PROVE  TypeOK' /\ Moves(c) /\ Aside
<1>1. call[c].pc = "fetch" /\ call[c] \in Busy
  BY BusyCalls DEF Fetch, At
<1>2. PICK copy : copy = [ver |-> source[call[c].key], age |-> "fresh"]
  OBVIOUS
<1>3. copy \in MaybeCopy
  BY <1>1, <1>2 DEF TypeOK, Busy, MaybeCopy, Copy, Ages
<1>4. PICK r : r = [call[c] EXCEPT !.pc = "store", !.copy = copy]
  OBVIOUS
<1>5. call' = [call EXCEPT ![c] = r] /\ inflight' = inflight
  BY <1>2, <1>4 DEF Fetch
<1>6. /\ r \in Busy /\ r.pc = "store" /\ r.node = call[c].node /\ r.key = call[c].key
      /\ r.held = call[c].held
  BY <1>1, <1>3, <1>4 DEF Busy, Pcs
<1>7. Moves(c)
  BY <1>1, <1>5, <1>6, EditMoves DEF Flying
<1>8. Aside
  BY DEF Fetch, Aside, histories
<1>9. TypeOK'
  BY <1>7, MovesTypes DEF Fetch, TypeOK, histories
<1> QED BY <1>7, <1>8, <1>9

(* A fetcher that throws leaves its call registered and the lock held.      *)
LEMMA FetchFailsMoves ==
  ASSUME TypeOK, NEW c \in Slots, FetchFails(c)
  PROVE  TypeOK' /\ Moves(c) /\ fetchLock' = fetchLock /\ lapsed' = lapsed
<1>1. call[c].pc = "fetch" /\ call[c] \in Busy
  BY BusyCalls DEF FetchFails, At
<1>2. PICK r : r = [call[c] EXCEPT !.pc = "read", !.miss = "end"]
  OBVIOUS
<1>3. call' = [call EXCEPT ![c] = r] /\ inflight' = inflight
  BY <1>2 DEF FetchFails
<1>4. /\ r \in Busy /\ r.pc = "read" /\ r.node = call[c].node /\ r.key = call[c].key
      /\ r.held = call[c].held
  BY <1>1, <1>2 DEF Busy, Pcs
<1>5. Moves(c)
  BY <1>1, <1>3, <1>4, EditMoves DEF Flying
<1>6. fetchLock' = fetchLock /\ lapsed' = lapsed
  BY DEF FetchFails, histories
<1>7. TypeOK'
  BY <1>5, MovesTypes DEF FetchFails, TypeOK, histories
<1> QED BY <1>5, <1>6, <1>7

-----------------------------------------------------------------------------
(* Steps of writeEntry.                                                     *)
LEMMA StoreMoves ==
  ASSUME TypeOK, NEW c \in Slots, Store(c)
  PROVE  TypeOK' /\ Moves(c) /\ Aside
<1>1. call[c].pc = "store" /\ call[c] \in Busy
  BY BusyCalls DEF Store, At
<1>2. Moves(c)
  <2>1. CASE Finish(c)
    BY <1>1, <2>1, FinishMoves DEF Moves
  <2>2. CASE ~Finish(c)
    <3>1. Go(c, "save") /\ inflight' = inflight /\ "save" \in Pcs
      BY <2>2 DEF Store, Pcs
    <3> QED BY <1>1, <3>1, GoMoves DEF Moves, Continues, Flying
  <2> QED BY <2>1, <2>2
<1>3. l1' \in [Nodes -> [Keys -> MaybeCopy]]
  BY <1>1, PutTypes DEF Store, Busy
<1>4. Aside
  BY DEF Store, Aside, histories
<1>5. TypeOK'
  BY <1>2, <1>3, MovesTypes DEF Store, TypeOK, histories
<1> QED BY <1>2, <1>4, <1>5

(* A write that succeeds resets the count of failures of its process.       *)
LEMMA WrittenTypes ==
  ASSUME TypeOK, Assumption, NEW c \in Slots, call[c] \in Busy, Written(c)
  PROVE  circuit' \in [Nodes -> [failures : 0 .. FailuresThreshold, open : BOOLEAN]]
<1>1. PICK n \in Nodes : n = call[c].node
  BY DEF Busy
<1>2. 0 \in 0 .. FailuresThreshold
  BY DEF Assumption
<1>3. circuit' = [circuit EXCEPT ![n].failures = 0]
  BY <1>1 DEF Written
<1>4. PICK r : r = [circuit[n] EXCEPT !.failures = 0]
  OBVIOUS
<1>5. circuit \in [Nodes -> [failures : 0 .. FailuresThreshold, open : BOOLEAN]]
  BY DEF TypeOK
<1>6. r \in [failures : 0 .. FailuresThreshold, open : BOOLEAN]
  BY <1>2, <1>4, <1>5
<1>7. circuit' = [circuit EXCEPT ![n] = r]
  BY <1>3, <1>4
<1> QED BY <1>5, <1>6, <1>7

(* Save: the entry is written to the storage.                               *)
LEMMA SaveMoves ==
  ASSUME TypeOK, Assumption, NEW c \in Slots, Save(c)
  PROVE  TypeOK' /\ Moves(c) /\ Aside
<1>1. call[c].pc = "save" /\ call[c] \in Busy
  BY BusyCalls DEF Save, At
<1>2. Moves(c) /\ circuit' \in [Nodes -> [failures : 0 .. FailuresThreshold, open : BOOLEAN]]
  <2>1. CASE setting.tagged
    <3>1. Go(c, "tagRead") /\ inflight' = inflight /\ circuit' = circuit /\ "tagRead" \in Pcs
      BY <2>1 DEF Save, Pcs
    <3> QED BY <1>1, <3>1, GoMoves DEF Moves, Continues, Flying, TypeOK
  <2>2. CASE ~setting.tagged
    BY <1>1, <2>2, FinishMoves, WrittenTypes DEF Save, Moves
  <2> QED BY <2>1, <2>2
<1>3. l2' \in [Keys -> MaybeCopy]
  BY <1>1 DEF Save, Busy, TypeOK
<1>4. Aside
  BY DEF Save, Aside, histories
<1>5. TypeOK'
  BY <1>2, <1>3, MovesTypes DEF Save, TypeOK, histories
<1> QED BY <1>2, <1>4, <1>5

(* TagRead: the index of the tag is read into the call.                     *)
LEMMA TagReadMoves ==
  ASSUME TypeOK, NEW c \in Slots, TagRead(c)
  PROVE  TypeOK' /\ Moves(c) /\ Aside
<1>1. call[c].pc = "tagRead" /\ call[c] \in Busy /\ tagIndex \subseteq Keys
  BY BusyCalls DEF TagRead, At, TypeOK
<1>2. PICK r : r = [call[c] EXCEPT !.pc = "tagSave", !.index = tagIndex]
  OBVIOUS
<1>3. call' = [call EXCEPT ![c] = r] /\ inflight' = inflight
  BY <1>2 DEF TagRead
<1>4. /\ r \in Busy /\ r.pc = "tagSave" /\ r.node = call[c].node /\ r.key = call[c].key
      /\ r.held = call[c].held /\ r.miss = call[c].miss
  BY <1>1, <1>2 DEF Busy, Pcs
<1>5. Moves(c)
  BY <1>3, <1>4, EditMoves DEF Flying
<1>6. Aside
  BY DEF TagRead, Aside, histories
<1>7. TypeOK'
  BY <1>5, MovesTypes DEF TagRead, TypeOK, histories
<1> QED BY <1>5, <1>6, <1>7

(* TagSave: it is written back with the key.                                *)
LEMMA TagSaveMoves ==
  ASSUME TypeOK, Assumption, NEW c \in Slots, TagSave(c)
  PROVE  TypeOK' /\ Moves(c) /\ Aside
<1>1. call[c].pc = "tagSave" /\ call[c] \in Busy
  BY BusyCalls DEF TagSave, At
<1>2. Moves(c) /\ circuit' \in [Nodes -> [failures : 0 .. FailuresThreshold, open : BOOLEAN]]
  BY <1>1, FinishMoves, WrittenTypes DEF TagSave, Moves
<1>3. tagIndex' \subseteq Keys
  BY <1>1 DEF TagSave, Busy
<1>4. Aside
  BY DEF TagSave, Aside, histories
<1>5. TypeOK'
  BY <1>2, <1>3, MovesTypes DEF TagSave, TypeOK, histories
<1> QED BY <1>2, <1>4, <1>5

-----------------------------------------------------------------------------
(* Steps of a deletion: nothing is due any more.                            *)
LEMMA NothingToDropMoves ==
  ASSUME TypeOK, NEW c \in Slots, NothingToDrop(c)
  PROVE  TypeOK' /\ Moves(c) /\ Aside
<1>1. call[c].pc = "drop" /\ call[c] \in Busy
  BY BusyCalls DEF NothingToDrop, At
<1>2. Moves(c)
  <2>1. CASE call[c].kind \in {"delete", "tags"}
    <3>1. Go(c, "tell") /\ inflight' = inflight /\ "tell" \in Pcs
      BY <2>1 DEF NothingToDrop, AfterDrops, Pcs
    <3> QED BY <1>1, <3>1, GoMoves DEF Moves, Continues, Flying
  <2>2. CASE call[c].kind = "all"
    <3>1. Go(c, "dropTag") /\ inflight' = inflight /\ "dropTag" \in Pcs
      BY <2>2 DEF NothingToDrop, AfterDrops, Pcs
    <3> QED BY <1>1, <3>1, GoMoves DEF Moves, Continues, Flying
  <2>3. CASE call[c].kind = "clean"
    <3>1. End(c)
      BY <2>3 DEF NothingToDrop, AfterDrops
    <3> QED BY <1>1, <3>1, EndEnds DEF Moves
  <2>4. CASE call[c].kind \notin {"delete", "tags", "all", "clean"}
    <3>1. Miss(c)
      BY <2>4 DEF NothingToDrop, AfterDrops
    <3> QED BY <1>1, <3>1, MissMoves DEF Moves
  <2> QED BY <2>1, <2>2, <2>3, <2>4
<1>3. Aside
  BY DEF NothingToDrop, Aside, histories
<1>4. TypeOK'
  BY <1>2, MovesTypes DEF NothingToDrop, TypeOK, histories
<1> QED BY <1>2, <1>3, <1>4

(* A key leaves the map of the process; the storage is asked for it.        *)
LEMMA DropMoves ==
  ASSUME TypeOK, NEW c \in Slots, NEW k \in Keys, Drop(c, k)
  PROVE  TypeOK' /\ Moves(c) /\ Aside
<1>1. call[c].pc = "drop" /\ call[c] \in Busy
  BY BusyCalls DEF Drop, At
<1>2. PICK r : r = [call[c] EXCEPT !.todo = IF l2[k] = NoCopy THEN call[c].todo \ {k} ELSE call[c].todo,
                                   !.copy = NoCopy,
                                   !.index = IF l2[k] = NoCopy THEN {} ELSE {k},
                                   !.pc = IF l2[k] = NoCopy THEN "drop" ELSE "remove"]
  OBVIOUS
<1>3. call' = [call EXCEPT ![c] = r] /\ inflight' = inflight
  BY <1>2 DEF Drop
<1>4. /\ r \in Busy /\ r.pc \in {"drop", "remove"} /\ r.node = call[c].node
      /\ r.key = call[c].key /\ r.held = call[c].held /\ r.miss = call[c].miss
  <2>1. NoCopy \in MaybeCopy
    BY DEF MaybeCopy
  <2>2. CASE l2[k] = NoCopy
    <3>1. r = [call[c] EXCEPT !.todo = call[c].todo \ {k}, !.copy = NoCopy,
                              !.index = {}, !.pc = "drop"]
      BY <1>2, <2>2
    <3> QED BY <1>1, <2>1, <3>1 DEF Busy, Pcs
  <2>3. CASE l2[k] # NoCopy
    <3>1. r = [call[c] EXCEPT !.todo = call[c].todo, !.copy = NoCopy,
                              !.index = {k}, !.pc = "remove"]
      BY <1>2, <2>3
    <3> QED BY <1>1, <2>1, <3>1 DEF Busy, Pcs
  <2> QED BY <2>2, <2>3
<1>5. Moves(c)
  BY <1>3, <1>4, EditMoves DEF Flying
<1>6. l1' \in [Nodes -> [Keys -> MaybeCopy]]
  BY <1>1, EvictTypes DEF Drop, Busy
<1>7. Aside
  BY DEF Drop, Aside, histories
<1>8. TypeOK'
  BY <1>5, <1>6, MovesTypes DEF Drop, TypeOK, histories
<1> QED BY <1>5, <1>7, <1>8

(* Remove: the entry leaves the storage.                                    *)
LEMMA RemoveMoves ==
  ASSUME TypeOK, NEW c \in Slots, Remove(c)
  PROVE  TypeOK' /\ Moves(c) /\ Aside
<1>1. call[c].pc = "remove" /\ call[c] \in Busy
  BY BusyCalls DEF Remove, At
<1>2. PICK pc \in Pcs : pc = IF setting.tagged THEN "untagRead" ELSE "drop"
  BY DEF Pcs
<1>3. PICK r : r = [call[c] EXCEPT !.todo = call[c].todo \ call[c].index, !.pc = pc]
  OBVIOUS
<1>4. call' = [call EXCEPT ![c] = r] /\ inflight' = inflight
  BY <1>2, <1>3 DEF Remove
<1>5. /\ r \in Busy /\ r.pc = pc /\ r.node = call[c].node
      /\ r.key = call[c].key /\ r.held = call[c].held /\ r.miss = call[c].miss
  BY <1>1, <1>3 DEF Busy
<1>6. Moves(c)
  BY <1>2, <1>4, <1>5, EditMoves DEF Flying
<1>7. l2' \in [Keys -> MaybeCopy]
  BY DEF Remove, TypeOK, MaybeCopy
<1>8. Aside
  BY DEF Remove, Aside, histories
<1>9. TypeOK'
  BY <1>6, <1>7, MovesTypes DEF Remove, TypeOK, histories
<1> QED BY <1>6, <1>8, <1>9

(* UntagRead: the index is read, without the key.                           *)
LEMMA UntagReadMoves ==
  ASSUME TypeOK, NEW c \in Slots, UntagRead(c)
  PROVE  TypeOK' /\ Moves(c) /\ Aside
<1>1. call[c].pc = "untagRead" /\ call[c] \in Busy /\ tagIndex \subseteq Keys
  BY BusyCalls DEF UntagRead, At, TypeOK
<1>2. PICK pc \in Pcs : pc = IF tagIndex = {} THEN "drop" ELSE "untagSave"
  BY DEF Pcs
<1>3. PICK r : r = [call[c] EXCEPT !.index = tagIndex \ call[c].index, !.pc = pc]
  OBVIOUS
<1>4. call' = [call EXCEPT ![c] = r] /\ inflight' = inflight
  BY <1>2, <1>3 DEF UntagRead
<1>5. /\ r \in Busy /\ r.pc = pc /\ r.node = call[c].node
      /\ r.key = call[c].key /\ r.held = call[c].held /\ r.miss = call[c].miss
  BY <1>1, <1>3 DEF Busy
<1>6. Moves(c)
  BY <1>2, <1>4, <1>5, EditMoves DEF Flying
<1>7. Aside
  BY DEF UntagRead, Aside, histories
<1>8. TypeOK'
  BY <1>6, MovesTypes DEF UntagRead, TypeOK, histories
<1> QED BY <1>6, <1>7, <1>8

(* UntagSave: it is written back.                                           *)
LEMMA UntagSaveMoves ==
  ASSUME TypeOK, NEW c \in Slots, UntagSave(c)
  PROVE  TypeOK' /\ Moves(c) /\ Aside
<1>1. call[c].pc = "untagSave" /\ call[c] \in Busy
  BY BusyCalls DEF UntagSave, At
<1>2. Go(c, "drop") /\ inflight' = inflight /\ "drop" \in Pcs
  BY DEF UntagSave, Pcs
<1>3. Moves(c)
  BY <1>1, <1>2, GoMoves DEF Moves, Continues, Flying
<1>4. tagIndex' \subseteq Keys
  BY <1>1 DEF UntagSave, Busy
<1>5. Aside
  BY DEF UntagSave, Aside, histories
<1>6. TypeOK'
  BY <1>3, <1>4, MovesTypes DEF UntagSave, TypeOK, histories
<1> QED BY <1>3, <1>5, <1>6

(* DropTag: the record of the tag is deleted.                               *)
LEMMA DropTagMoves ==
  ASSUME TypeOK, NEW c \in Slots, DropTag(c)
  PROVE  TypeOK' /\ Moves(c) /\ Aside
<1>1. call[c].pc = "dropTag" /\ call[c] \in Busy
  BY BusyCalls DEF DropTag, At
<1>2. PICK pc \in Pcs : pc = IF call[c].kind = "tags" THEN "drop" ELSE "tell"
  BY DEF Pcs
<1>3. Go(c, pc) /\ inflight' = inflight /\ pc \in {"drop", "tell"}
  BY <1>2 DEF DropTag
<1>4. Moves(c)
  BY <1>1, <1>3, GoMoves DEF Moves, Continues, Flying
<1>5. Aside
  BY DEF DropTag, Aside, histories
<1>6. TypeOK'
  BY <1>4, MovesTypes DEF DropTag, TypeOK, histories
<1> QED BY <1>4, <1>5, <1>6

(* The broadcast of an invalidation.                                        *)
LEMMA TellMoves ==
  ASSUME TypeOK, NEW c \in Slots, Tell(c)
  PROVE  TypeOK' /\ Moves(c) /\ Aside
<1>1. call[c].pc = "tell" /\ call[c] \in Busy
  BY BusyCalls DEF Tell, At
<1>2. PICK keys \in SUBSET Keys : keys = call[c].scope
  BY <1>1 DEF Busy
<1>3. PICK n \in Nodes : n = call[c].node
  BY <1>1 DEF Busy
<1>4. Moves(c)
  BY <1>1, EndEnds DEF Tell, Moves
<1>5. l1' \in [Nodes -> [Keys -> MaybeCopy]]
  BY <1>2, <1>3, EvictTypes DEF Tell
<1>6. inbox' \in [Nodes -> SUBSET (SUBSET Keys)]
  <2>1. inbox' = [m \in Nodes |-> IF m \in (setting.fleet \ {n}) \cap listening
                                  THEN inbox[m] \cup {keys} ELSE inbox[m]]
    BY <1>2, <1>3 DEF Tell
  <2> QED BY <1>2, <2>1 DEF TypeOK
<1>7. floor' \in [Keys -> 0 .. MaxVersion]
  <2>1. floor' = [k \in Keys |-> IF k \in keys THEN call[c].seen[k] ELSE floor[k]]
    BY <1>2 DEF Tell
  <2>2. call[c].seen \in [Keys -> 0 .. MaxVersion] /\ floor \in [Keys -> 0 .. MaxVersion]
    BY <1>1 DEF Busy, TypeOK
  <2> QED BY <2>1, <2>2
<1>8. tainted' \subseteq Keys
  BY <1>2 DEF Tell, TypeOK
<1>9. Aside
  BY DEF Tell, Aside
<1>10. TypeOK'
  BY <1>4, <1>5, <1>6, <1>7, <1>8, MovesTypes DEF Tell, TypeOK
<1> QED BY <1>4, <1>9, <1>10

(* A storage call throws: noted, or thrown to the caller of a deletion.     *)
LEMMA NoteTypes ==
  ASSUME TypeOK, Assumption, NEW n \in Nodes, NoteFailure(n)
  PROVE  circuit' \in [Nodes -> [failures : 0 .. FailuresThreshold, open : BOOLEAN]]
<1>1. circuit \in [Nodes -> [failures : 0 .. FailuresThreshold, open : BOOLEAN]]
  BY DEF TypeOK
<1>2. PICK f : f = IF circuit[n].failures = FailuresThreshold
                   THEN FailuresThreshold ELSE circuit[n].failures + 1
  OBVIOUS
<1>3. f \in 0 .. FailuresThreshold
  BY <1>1, <1>2 DEF Assumption
<1>4. PICK open \in BOOLEAN : open = (circuit[n].open \/ f = FailuresThreshold)
  BY <1>1
<1>5. circuit' = [circuit EXCEPT ![n] = [failures |-> f, open |-> open]]
  BY <1>2, <1>4, Zenon DEF NoteFailure
<1> QED BY <1>1, <1>3, <1>4, <1>5

(* Whichever call of the storage it was: a miss, a write given up, or an    *)
(* end.                                                                     *)
LEMMA StorageFailsMoves ==
  ASSUME TypeOK, Assumption, NEW c \in Slots, StorageFails(c)
  PROVE  TypeOK' /\ Moves(c) /\ fetchLock' = fetchLock /\ lapsed' = lapsed
<1> DEFINE Circuits == [Nodes -> [failures : 0 .. FailuresThreshold, open : BOOLEAN]]
<1>1. call[c].pc # "idle"
  BY DEF StorageFails, At
<1>2. PICK n \in Nodes : n = call[c].node
  BY <1>1, BusyCalls DEF Busy
<1>3. NoteFailure(n) \/ UNCHANGED circuit
  BY <1>2 DEF StorageFails
<1>4. circuit' \in Circuits
  BY <1>3, NoteTypes DEF TypeOK
<1>5. Miss(c) \/ Finish(c) \/ End(c)
  BY DEF StorageFails
<1>6. Moves(c)
  BY <1>1, <1>5, MissMoves, FinishMoves, EndEnds DEF Moves
<1>7. fetchLock' = fetchLock /\ lapsed' = lapsed
  BY DEF StorageFails, histories
<1>8. TypeOK'
  BY <1>4, <1>6, MovesTypes DEF StorageFails, TypeOK, histories
<1> QED BY <1>6, <1>7, <1>8

-----------------------------------------------------------------------------
(* The steps that register, lock, fetch past the deadline and release.      *)
LEMMA FlyKeeps ==
  ASSUME CacheInv, Assumption, NEW c \in Slots, Fly(c)
  PROVE  CacheInv'
<1>1. /\ call[c].pc = "flight" /\ call[c] \in Busy /\ TypeOK /\ SettingOK
      /\ Registered /\ Locked /\ Holding
  BY BusyCalls DEF Fly, At, CacheInv
<1>2. PICK n \in Nodes : n = call[c].node
  BY <1>1 DEF Busy
<1>3. PICK k \in Keys : k = call[c].key
  BY <1>1 DEF Busy
<1>4. Aside
  BY DEF Fly, Aside, histories
<1>5. SettingOK'
  BY <1>1, <1>4 DEF SettingOK, Aside
<1>6. CASE inflight[n][k] # NoSlot
  <2>1. Moves(c)
    BY <1>1, <1>2, <1>3, <1>6, EndEnds DEF Fly, Moves
  <2>2. TypeOK'
    BY <1>1, <2>1, MovesTypes DEF Fly, TypeOK, histories
  <2> QED BY <1>1, <1>4, <1>5, <2>1, <2>2, MovesKeep DEF Aside, CacheInv
<1>7. CASE inflight[n][k] = NoSlot
  <2>1. inflight' = [inflight EXCEPT ![n][k] = c]
    BY <1>2, <1>3, <1>7 DEF Fly
  <2>2. PICK pc \in {"lock", "fetch"} : pc = IF setting.clusterLock THEN "lock" ELSE "fetch"
    OBVIOUS
  <2>3. Go(c, pc) /\ pc \in Pcs
    BY <1>2, <1>3, <1>7, <2>2 DEF Fly, Pcs
  <2>4. /\ call' \in [Slots -> CallRecord] /\ Others(c)
        /\ call'[c].pc = pc /\ call'[c].node = n /\ call'[c].key = k
        /\ call'[c].held = call[c].held
    BY <1>1, <1>2, <1>3, <2>3, GoMoves
  <2>5. inflight' \in [Nodes -> [Keys -> Slots \cup {NoSlot}]]
    BY <1>1, <2>1 DEF TypeOK
  <2>6. TypeOK'
    BY <1>1, <2>4, <2>5 DEF Fly, TypeOK, histories
  <2>7. ASSUME NEW d \in Slots, Flying(call'[d])
        PROVE  inflight'[call'[d].node][call'[d].key] = d
    <3>1. CASE d = c
      BY <1>1, <2>1, <2>4, <3>1 DEF TypeOK
    <3>2. CASE d # c
      <4>1. call'[d] = call[d]
        BY <2>4, <3>2 DEF Others
      <4>2. call[d].node \in Nodes /\ call[d].key \in Keys
        BY <1>1, <2>7, <4>1, FlyingBusy DEF Busy
      <4>3. inflight[call[d].node][call[d].key] = d
        BY <1>1, <2>7, <4>1 DEF Registered
      <4>4. d # NoSlot
        BY DEF Assumption
      <4>5. ~(call[d].node = n /\ call[d].key = k)
        BY <1>7, <4>3, <4>4
      <4> QED BY <1>1, <2>1, <4>1, <4>2, <4>3, <4>5 DEF TypeOK
    <3> QED BY <3>1, <3>2
  <2>8. Locked'
    <3>1. call'[c].pc = "fetch" => ~setting'.clusterLock
      BY <1>4, <2>2, <2>4 DEF Aside
    <3> QED BY <1>1, <1>4, <2>4, <3>1 DEF Locked, Others, Aside
  <2>9. Holding'
    BY <1>1, <1>2, <1>3, <1>4, <2>4 DEF Holding, Others, Aside
  <2> QED BY <1>5, <2>6, <2>7, <2>8, <2>9 DEF CacheInv, Registered
<1> QED BY <1>6, <1>7

(* A call takes the lock only if nobody, or its own process, has it; so no  *)
(* holder of another process loses it.                                      *)
LEMMA LockKeeps ==
  ASSUME CacheInv, Assumption, NEW c \in Slots, Lock(c)
  PROVE  CacheInv'
<1>1. /\ call[c].pc = "lock" /\ call[c] \in Busy /\ TypeOK /\ SettingOK
      /\ Registered /\ Locked /\ Holding
  BY BusyCalls DEF Lock, At, CacheInv
<1>2. PICK n \in Nodes : n = call[c].node
  BY <1>1 DEF Busy
<1>3. PICK k \in Keys : k = call[c].key
  BY <1>1 DEF Busy
<1>4. setting' = setting /\ lapsed' = lapsed /\ inflight' = inflight
  BY DEF Lock, histories
<1>5. /\ fetchLock' = IF fetchLock[k] \in {NoNode, n}
                      THEN [fetchLock EXCEPT ![k] = n] ELSE fetchLock
      /\ call' = [call EXCEPT ![c].pc = IF fetchLock[k] \in {NoNode, n}
                                        THEN "fetch" ELSE "follow",
                              ![c].held = (fetchLock[k] \in {NoNode, n})]
  BY <1>2, <1>3 DEF Lock
<1>6. PICK got \in BOOLEAN, r \in Busy :
        /\ call' = [call EXCEPT ![c] = r] /\ r.held = got
        /\ r.pc \in {"fetch", "follow"} /\ (r.pc = "fetch" => got)
        /\ r.node = n /\ r.key = k
        /\ got => fetchLock' = [fetchLock EXCEPT ![k] = n]
        /\ ~got => fetchLock' = fetchLock
        /\ got => fetchLock[k] = NoNode \/ fetchLock[k] = n
  <2>1. CASE fetchLock[k] \in {NoNode, n}
    <3>1. (fetchLock[k] \in {NoNode, n}) = TRUE
      BY <2>1
    <3>2. PICK r : r = [call[c] EXCEPT !.pc = "fetch", !.held = TRUE]
      OBVIOUS
    <3>3. call' = [call EXCEPT ![c] = r]
      BY <1>5, <2>1, <3>1, <3>2
    <3>4. r \in Busy /\ r.pc = "fetch" /\ r.held = TRUE /\ r.node = n /\ r.key = k
      BY <1>1, <1>2, <1>3, <3>2 DEF Busy, Pcs
    <3>5. fetchLock' = [fetchLock EXCEPT ![k] = n]
      BY <1>5, <2>1
    <3> QED BY <2>1, <3>3, <3>4, <3>5
  <2>2. CASE fetchLock[k] \notin {NoNode, n}
    <3>1. (fetchLock[k] \in {NoNode, n}) = FALSE
      BY <2>2
    <3>2. PICK r : r = [call[c] EXCEPT !.pc = "follow", !.held = FALSE]
      OBVIOUS
    <3>3. call' = [call EXCEPT ![c] = r]
      BY <1>5, <2>2, <3>1, <3>2
    <3>4. r \in Busy /\ r.pc = "follow" /\ r.held = FALSE /\ r.node = n /\ r.key = k
      BY <1>1, <1>2, <1>3, <3>2 DEF Busy, Pcs
    <3>5. fetchLock' = fetchLock
      BY <1>5, <2>2
    <3> QED BY <3>3, <3>4, <3>5
  <2> QED BY <2>1, <2>2
<1>9. call' \in [Slots -> CallRecord] /\ call'[c] = r /\ Others(c)
  BY <1>1, <1>6, Replaced
<1>10. fetchLock' \in [Keys -> Nodes \cup {NoNode}]
  BY <1>1, <1>6 DEF TypeOK
<1>11. TypeOK'
  BY <1>1, <1>9, <1>10 DEF Lock, TypeOK, histories
<1>12. SettingOK'
  BY <1>1, <1>4 DEF SettingOK
<1>13. Registered'
  <2>1. Flying(call[c])
    BY <1>1 DEF Flying
  <2> QED BY <1>1, <1>2, <1>3, <1>4, <1>6, <1>9, <2>1 DEF Registered, Others
<1>14. Locked'
  BY <1>1, <1>4, <1>6, <1>9 DEF Locked, Others
<1>15. ASSUME NEW d \in Slots, call'[d].held, call'[d].key \notin lapsed'
       PROVE  fetchLock'[call'[d].key] = call'[d].node
  <2>1. CASE d = c
    BY <1>1, <1>6, <1>9, <1>15, <2>1 DEF TypeOK
  <2>2. CASE d # c
    <3>1. call'[d] = call[d]
      BY <1>9, <2>2 DEF Others
    <3>2. call[d] \in Busy
      BY <1>1, <1>15, <3>1, FlyingBusy DEF Flying
    <3>3. call[d].key \in Keys /\ call[d].node \in Nodes
      BY <3>2 DEF Busy
    <3>4. fetchLock[call[d].key] = call[d].node
      BY <1>1, <1>4, <1>15, <3>1 DEF Holding
    <3>5. CASE call[d].key # k
      BY <1>1, <1>6, <3>1, <3>3, <3>4, <3>5 DEF TypeOK
    <3>6. CASE call[d].key = k /\ ~got
      BY <1>6, <3>1, <3>4, <3>6
    <3>7. CASE call[d].key = k /\ got /\ call[d].node = n
      BY <1>1, <1>6, <3>1, <3>7 DEF TypeOK
    <3>8. call[d].node # NoNode
      BY <3>3 DEF Assumption
    <3>9. call[d].key = k /\ got => call[d].node = n
      BY <1>6, <3>4, <3>8
    <3> QED BY <3>5, <3>6, <3>7, <3>9
  <2> QED BY <2>1, <2>2
<1> QED BY <1>11, <1>12, <1>13, <1>14, <1>15 DEF CacheInv, Holding

(* A follower past its deadline fetches without the lock only where the     *)
(* configuration allows it.                                                 *)
LEMMA StopFollowingKeeps ==
  ASSUME CacheInv, NEW c \in Slots, StopFollowing(c)
  PROVE  CacheInv'
<1>1. /\ call[c].pc = "follow" /\ call[c] \in Busy /\ TypeOK /\ SettingOK
      /\ Registered /\ Locked /\ Holding
  BY BusyCalls DEF StopFollowing, At, CacheInv
<1>2. PICK pc \in {"fetch", "read"} : pc = IF setting.followerFetch THEN "fetch" ELSE "read"
  OBVIOUS
<1>3. PICK r : r = [call[c] EXCEPT !.pc = pc, !.miss = "end"]
  OBVIOUS
<1>4. /\ call' = [call EXCEPT ![c] = r] /\ inflight' = inflight /\ Aside
  BY <1>2, <1>3 DEF StopFollowing, Aside, histories
<1>5. /\ r \in Busy /\ r.pc = pc /\ r.held = call[c].held
      /\ r.node = call[c].node /\ r.key = call[c].key
  BY <1>1, <1>2, <1>3 DEF Busy, Pcs
<1>6. call' \in [Slots -> CallRecord] /\ call'[c] = r /\ Others(c)
  BY <1>1, <1>4, <1>5, Replaced
<1>7. TypeOK'
  BY <1>1, <1>6 DEF StopFollowing, TypeOK, histories
<1>8. SettingOK'
  BY <1>1, <1>4 DEF SettingOK, Aside
<1>9. Registered'
  <2>1. Flying(call[c])
    BY <1>1 DEF Flying
  <2> QED BY <1>1, <1>4, <1>5, <1>6, <2>1 DEF Registered, Others
<1>10. Locked'
  <2>1. call'[c].pc = "fetch" => setting'.followerFetch
    BY <1>2, <1>4, <1>5, <1>6 DEF Aside
  <2> QED BY <1>1, <1>4, <1>6, <2>1 DEF Locked, Others, Aside
<1>11. Holding'
  BY <1>1, <1>4, <1>5, <1>6 DEF Holding, Others, Aside
<1> QED BY <1>7, <1>8, <1>9, <1>10, <1>11 DEF CacheInv

(* Only the holder itself is registered for its key and process, so nobody  *)
(* else of that process loses the lock with its release.                    *)
LEMMA ReleaseKeeps ==
  ASSUME CacheInv, NEW c \in Slots, Release(c)
  PROVE  CacheInv'
<1>1. /\ call[c].pc = "release" /\ call[c] \in Busy /\ TypeOK /\ SettingOK
      /\ Registered /\ Locked /\ Holding
  BY BusyCalls DEF Release, At, CacheInv
<1>2. PICK n \in Nodes : n = call[c].node
  BY <1>1 DEF Busy
<1>3. PICK k \in Keys : k = call[c].key
  BY <1>1 DEF Busy
<1>4. /\ fetchLock' = IF fetchLock[k] = n THEN [fetchLock EXCEPT ![k] = NoNode] ELSE fetchLock
      /\ setting' = setting /\ lapsed' = lapsed
  BY <1>2, <1>3 DEF Release, histories
<1>5. Ends(c)
  BY <1>1, EndEnds DEF Release
<1>6. /\ call' \in [Slots -> CallRecord] /\ Others(c)
      /\ inflight' \in [Nodes -> [Keys -> Slots \cup {NoSlot}]]
      /\ ~Flying(call'[c]) /\ call'[c].pc # "fetch" /\ ~call'[c].held
      /\ \A m \in Nodes, o \in Keys : inflight[m][o] # c => inflight'[m][o] = inflight[m][o]
  BY <1>5, NoCallFacts DEF Ends
<1>7. TypeOK'
  <2>1. fetchLock' \in [Keys -> Nodes \cup {NoNode}]
    BY <1>1, <1>4 DEF TypeOK
  <2> QED BY <1>1, <1>6, <2>1 DEF Release, TypeOK, histories
<1>8. SettingOK'
  BY <1>1, <1>4 DEF SettingOK
<1>9. ASSUME NEW d \in Slots, Flying(call'[d])
      PROVE  /\ d # c /\ call'[d] = call[d] /\ call[d].node \in Nodes /\ call[d].key \in Keys
             /\ inflight[call[d].node][call[d].key] = d
  <2>1. d # c
    BY <1>6, <1>9
  <2>2. call'[d] = call[d]
    BY <1>6, <2>1 DEF Others
  <2> QED BY <1>1, <1>9, <2>1, <2>2, FlyingBusy DEF Busy, Registered
<1>10. Registered'
  <2>1. ASSUME NEW d \in Slots, Flying(call'[d])
        PROVE  inflight'[call'[d].node][call'[d].key] = d
    BY <1>6, <1>9, <2>1
  <2> QED BY <2>1 DEF Registered
<1>11. Locked'
  BY <1>1, <1>4, <1>6 DEF Locked, Others
<1>12. ASSUME NEW d \in Slots, call'[d].held, call'[d].key \notin lapsed'
       PROVE  fetchLock'[call'[d].key] = call'[d].node
  <2>1. Flying(call'[d])
    BY <1>12 DEF Flying
  <2>2. /\ d # c /\ call'[d] = call[d] /\ call[d].key \in Keys /\ call[d].node \in Nodes
        /\ inflight[call[d].node][call[d].key] = d
    BY <1>9, <2>1
  <2>3. fetchLock[call[d].key] = call[d].node
    BY <1>1, <1>4, <1>12, <2>2 DEF Holding
  <2>4. inflight[n][k] = c
    BY <1>1, <1>2, <1>3 DEF Registered, Flying
  <2>5. ~(call[d].key = k /\ call[d].node = n)
    BY <2>2, <2>4
  <2> QED BY <1>1, <1>4, <2>2, <2>3, <2>5 DEF TypeOK
<1> QED BY <1>7, <1>8, <1>10, <1>11, <1>12 DEF CacheInv, Holding

-----------------------------------------------------------------------------
(* Spending a fault changes nothing else of the configuration.              *)
LEMMA SpendKeeps ==
  ASSUME SettingOK, NEW fault \in Faults, Spend(fault)
  PROVE  SettingOK' /\ setting'.clusterLock = setting.clusterLock
                    /\ setting'.followerFetch = setting.followerFetch
<1>1. setting.budget \in [Faults -> Nat] /\ setting.budget[fault] > 0
  BY DEF SettingOK, Spend
<1>2. PICK left : left = [setting.budget EXCEPT ![fault] = setting.budget[fault] - 1]
  OBVIOUS
<1>3. left \in [Faults -> Nat]
  BY <1>1, <1>2
<1>4. setting' = [setting EXCEPT !.budget = left]
  BY <1>2 DEF Spend
<1> QED BY <1>3, <1>4 DEF SettingOK

(* The record a call begins with.                                           *)
Begun(r, n, k, kind) ==
  /\ r.pc = FirstPc(kind) /\ r.pc \in {"read", "flight", "store", "dropTag", "drop"}
  /\ r.kind = kind /\ r.node = n /\ r.key = k /\ r.miss \in {"flight", "end"}
  /\ r.held = FALSE /\ r.copy = [ver |-> source[k], age |-> "fresh"]
  /\ r.todo = Due(kind, k) /\ r.scope = Scope(kind, k) /\ r.seen = source
(* Begin puts such a record into its slot.                                  *)
LEMMA BeginRecord ==
  ASSUME TypeOK, NEW c \in Slots, NEW n \in Nodes, NEW k \in Keys,
         NEW kind \in Kinds, Begin(c, n, k, kind)
  PROVE  \E r \in Busy : call' = [call EXCEPT ![c] = r] /\ Begun(r, n, k, kind)
<1>1. Scope(kind, k) \subseteq Keys /\ Due(kind, k) \subseteq Keys
  BY DEF TypeOK, Scope, Due, Present, Dead, Kinds
<1>2. PICK pc \in {"read", "flight", "store", "dropTag", "drop"} : pc = FirstPc(kind)
  BY DEF FirstPc, Kinds
<1>3. PICK miss \in {"flight", "end"} : miss = IF kind = "fetch" THEN "flight" ELSE "end"
  OBVIOUS
<1>4. PICK copy : copy = [ver |-> source[k], age |-> "fresh"]
  OBVIOUS
<1>5. copy \in MaybeCopy
  BY <1>4 DEF TypeOK, MaybeCopy, Copy, Ages
<1>6. PICK todo \in SUBSET Keys : todo = Due(kind, k)
  BY <1>1
<1>7. PICK scope \in SUBSET Keys : scope = Scope(kind, k)
  BY <1>1
<1>8. PICK r : r = [NoCall EXCEPT !.pc = pc, !.kind = kind, !.node = n, !.key = k,
                                  !.copy = copy, !.miss = miss, !.todo = todo,
                                  !.scope = scope, !.seen = source]
  OBVIOUS
<1>9. call' = [call EXCEPT ![c] = r]
  BY <1>2, <1>3, <1>4, <1>6, <1>7, <1>8, Zenon DEF Begin
<1>10. r = [pc |-> pc, kind |-> kind, node |-> n, key |-> k, copy |-> copy,
            miss |-> miss, held |-> FALSE, index |-> {}, todo |-> todo,
            scope |-> scope, seen |-> source]
  BY <1>8 DEF NoCall
<1>11. pc \in Pcs /\ source \in [Keys -> 0 .. MaxVersion]
  BY <1>2 DEF Pcs, TypeOK
<1>12. r \in Busy
  BY <1>5, <1>10, <1>11 DEF Busy
<1> QED BY <1>2, <1>3, <1>4, <1>6, <1>7, <1>9, <1>10, <1>12 DEF Begun

(* A call begins in an idle slot, neither registered nor holding the lock.  *)
LEMMA BeginKeeps ==
  ASSUME CacheInv, Assumption, NEW c \in Slots, NEW n \in Nodes, NEW k \in Keys,
         NEW kind \in Kinds, Begin(c, n, k, kind)
  PROVE  CacheInv'
<1>1. TypeOK /\ SettingOK /\ Registered /\ Locked /\ Holding
  BY DEF CacheInv
<1>2. fetchLock' = fetchLock /\ lapsed' = lapsed /\ inflight' = inflight
  BY DEF Begin
<1>3. Scope(kind, k) \subseteq Keys /\ Disturbed(kind, k) \subseteq Keys
  BY <1>1 DEF TypeOK, Scope, Disturbed, Kinds
<1>4. PICK scope \in SUBSET Keys : scope = Scope(kind, k)
  BY <1>3
<1>5. PICK r \in Busy : call' = [call EXCEPT ![c] = r] /\ Begun(r, n, k, kind)
  BY <1>1, BeginRecord
<1>6. call' \in [Slots -> CallRecord] /\ call'[c] = r /\ Others(c)
  BY <1>1, <1>5, Replaced
<1>7. ~Flying(r) /\ r.pc # "fetch"
  BY <1>5 DEF Begun, Flying
<1>8. TypeOK'
  <2>1. l1' \in [Nodes -> [Keys -> MaybeCopy]]
    BY <1>1, EvictTypes DEF Begin, TypeOK
  <2>2. floor' \in [Keys -> 0 .. MaxVersion]
    <3>1. 0 \in 0 .. MaxVersion
      BY DEF Assumption
    <3>2. floor' = [o \in Keys |-> IF o \in scope THEN 0 ELSE floor[o]]
      BY <1>4 DEF Begin
    <3> QED BY <1>1, <3>1, <3>2 DEF TypeOK
  <2>3. tainted' \subseteq Keys
    BY <1>1, <1>3 DEF Begin, TypeOK
  <2> QED BY <1>1, <1>2, <1>6, <2>1, <2>2, <2>3 DEF Begin, TypeOK
<1>9. /\ SettingOK' /\ setting'.clusterLock = setting.clusterLock
       /\ setting'.followerFetch = setting.followerFetch
  <2>1. setting.offers \in [Kinds -> Nat] /\ setting.offers[kind] > 0
    BY <1>1 DEF SettingOK, Begin
  <2>2. PICK left : left = [setting.offers EXCEPT ![kind] = setting.offers[kind] - 1]
    OBVIOUS
  <2>3. left \in [Kinds -> Nat]
    BY <2>1, <2>2
  <2>4. setting' = [setting EXCEPT !.offers = left]
    BY <2>2 DEF Begin
  <2> QED BY <1>1, <2>3, <2>4 DEF SettingOK
<1>10. Registered'
  BY <1>1, <1>2, <1>6, <1>7 DEF Registered, Others
<1>11. Locked'
  BY <1>1, <1>6, <1>7, <1>9 DEF Locked, Others
<1>12. Holding'
  BY <1>1, <1>2, <1>5, <1>6 DEF Holding, Others, Begun
<1> QED BY <1>8, <1>9, <1>10, <1>11, <1>12 DEF CacheInv

(* Steps that leave the calls, the inflight map and the locks alone.        *)
LEMMA AsideKeeps ==
  ASSUME CacheInv, TypeOK', SettingOK', call' = call, inflight' = inflight,
         fetchLock' = fetchLock, lapsed' = lapsed,
         setting'.clusterLock = setting.clusterLock,
         setting'.followerFetch = setting.followerFetch
  PROVE  CacheInv'
BY DEF CacheInv, Registered, Locked, Holding

(* The source changes beneath the cache.                                    *)
LEMMA UpdateKeeps ==
  ASSUME CacheInv, Assumption, NEW k \in Keys, Update(k)
  PROVE  CacheInv'
<1>1. TypeOK /\ SettingOK
  BY DEF CacheInv
<1>2. source \in [Keys -> 0 .. MaxVersion] /\ source[k] < MaxVersion
  BY <1>1 DEF TypeOK, Update
<1>3. source' \in [Keys -> 0 .. MaxVersion]
  BY <1>2 DEF Update, Assumption
<1>4. TypeOK'
  BY <1>1, <1>3 DEF Update, TypeOK, histories
<1>5. SettingOK' /\ setting' = setting
  BY <1>1 DEF Update, SettingOK
<1> QED BY <1>4, <1>5, AsideKeeps DEF Update, histories

(* A broadcast evicts from one map.                                         *)
LEMMA DeliverKeeps ==
  ASSUME CacheInv, NEW n \in Nodes, NEW keys \in inbox[n], Deliver(n, keys)
  PROVE  CacheInv'
<1>1. TypeOK /\ SettingOK
  BY DEF CacheInv
<1>2. l1' \in [Nodes -> [Keys -> MaybeCopy]]
  BY <1>1, EvictTypes DEF Deliver
<1>3. inbox' \in [Nodes -> SUBSET (SUBSET Keys)]
  BY <1>1 DEF Deliver, TypeOK
<1>4. TypeOK'
  BY <1>1, <1>2, <1>3 DEF Deliver, TypeOK, histories
<1>5. SettingOK' /\ setting' = setting
  BY <1>1 DEF Deliver, SettingOK
<1> QED BY <1>4, <1>5, AsideKeeps DEF Deliver, histories

(* A circuit closes again.                                                  *)
LEMMA CircuitClosesKeeps ==
  ASSUME CacheInv, NEW n \in Nodes, CircuitCloses(n)
  PROVE  CacheInv'
<1>1. TypeOK /\ SettingOK
  BY DEF CacheInv
<1>2. circuit \in [Nodes -> [failures : 0 .. FailuresThreshold, open : BOOLEAN]]
  BY <1>1 DEF TypeOK
<1>3. PICK r : r = [circuit[n] EXCEPT !.open = FALSE]
  OBVIOUS
<1>4. r \in [failures : 0 .. FailuresThreshold, open : BOOLEAN]
  BY <1>2, <1>3
<1>5. circuit' = [circuit EXCEPT ![n] = r]
  BY <1>3 DEF CircuitCloses
<1>6. circuit' \in [Nodes -> [failures : 0 .. FailuresThreshold, open : BOOLEAN]]
  BY <1>2, <1>4, <1>5
<1>7. TypeOK'
  BY <1>1, <1>6 DEF CircuitCloses, TypeOK, histories
<1>8. SettingOK' /\ setting' = setting
  BY <1>1 DEF CircuitCloses, SettingOK
<1> QED BY <1>7, <1>8, AsideKeeps DEF CircuitCloses, histories

(* A process stops listening; its mail is lost, its calls go on.            *)
LEMMA StopListeningKeeps ==
  ASSUME CacheInv, NEW n \in Nodes, StopListening(n)
  PROVE  CacheInv'
<1>1. TypeOK /\ SettingOK /\ "stop" \in Faults
  BY DEF CacheInv, Faults
<1>2. UNION inbox[n] \subseteq Keys
  BY <1>1 DEF TypeOK
<1>3. TypeOK'
  BY <1>1, <1>2 DEF StopListening, TypeOK
<1>4. /\ SettingOK' /\ setting'.clusterLock = setting.clusterLock
      /\ setting'.followerFetch = setting.followerFetch
  BY <1>1, SpendKeeps DEF StopListening
<1> QED BY <1>3, <1>4, AsideKeeps DEF StopListening

(* It listens again.                                                        *)
LEMMA StartListeningKeeps ==
  ASSUME CacheInv, NEW n \in Nodes, StartListening(n)
  PROVE  CacheInv'
<1>1. TypeOK /\ SettingOK
  BY DEF CacheInv
<1>2. TypeOK'
  BY <1>1 DEF StartListening, TypeOK, histories
<1>3. SettingOK' /\ setting' = setting
  BY <1>1 DEF StartListening, SettingOK
<1> QED BY <1>2, <1>3, AsideKeeps DEF StartListening, histories

(* An entry only gets older.                                                *)
LEMMA OlderTypes ==
  ASSUME NEW copy \in MaybeCopy, Live(copy), NEW age \in Older(copy)
  PROVE  [copy EXCEPT !.age = age] \in MaybeCopy
<1>1. copy \in Copy
  BY DEF Live, MaybeCopy, NoCopy
<1>2. age \in Ages
  BY DEF Older, Ages
<1> QED BY <1>1, <1>2 DEF Copy, MaybeCopy

(* An entry of a map gets stale or dead.                                    *)
LEMMA AgeL1Keeps ==
  ASSUME CacheInv, NEW n \in Nodes, NEW k \in Keys, AgeL1(n, k)
  PROVE  CacheInv'
<1>1. TypeOK /\ SettingOK /\ "age" \in Faults /\ Live(l1[n][k])
  BY DEF CacheInv, Faults, AgeL1
<1>2. l1 \in [Nodes -> [Keys -> MaybeCopy]]
  BY <1>1 DEF TypeOK
<1>3. PICK age \in Older(l1[n][k]) : l1' = [l1 EXCEPT ![n][k].age = age]
  BY DEF AgeL1
<1>4. PICK older \in MaybeCopy : older = [l1[n][k] EXCEPT !.age = age]
  BY <1>1, <1>2, OlderTypes
<1>5. l1' = [l1 EXCEPT ![n][k] = older]
  BY <1>3, <1>4
<1>6. l1' \in [Nodes -> [Keys -> MaybeCopy]]
  BY <1>2, <1>5
<1>7. TypeOK'
  BY <1>1, <1>6 DEF AgeL1, TypeOK, histories
<1>8. /\ SettingOK' /\ setting'.clusterLock = setting.clusterLock
      /\ setting'.followerFetch = setting.followerFetch
  BY <1>1, SpendKeeps DEF AgeL1
<1> QED BY <1>7, <1>8, AsideKeeps DEF AgeL1, histories

(* An entry of the storage does.                                            *)
LEMMA AgeL2Keeps ==
  ASSUME CacheInv, NEW k \in Keys, AgeL2(k)
  PROVE  CacheInv'
<1>1. TypeOK /\ SettingOK /\ "age" \in Faults /\ Live(l2[k])
  BY DEF CacheInv, Faults, AgeL2
<1>2. l2 \in [Keys -> MaybeCopy]
  BY <1>1 DEF TypeOK
<1>3. PICK age \in Older(l2[k]) : l2' = [l2 EXCEPT ![k].age = age]
  BY DEF AgeL2
<1>4. PICK older \in MaybeCopy : older = [l2[k] EXCEPT !.age = age]
  BY <1>1, <1>2, OlderTypes
<1>5. l2' = [l2 EXCEPT ![k] = older]
  BY <1>3, <1>4
<1>6. l2' \in [Keys -> MaybeCopy]
  BY <1>2, <1>5
<1>7. TypeOK'
  BY <1>1, <1>6 DEF AgeL2, TypeOK, histories
<1>8. /\ SettingOK' /\ setting'.clusterLock = setting.clusterLock
      /\ setting'.followerFetch = setting.followerFetch
  BY <1>1, SpendKeeps DEF AgeL2
<1> QED BY <1>7, <1>8, AsideKeeps DEF AgeL2, histories

(* A fetch lock expires unheld, or the key counts as lapsed.                *)
LEMMA FetchLockExpiresKeeps ==
  ASSUME CacheInv, NEW k \in Keys, FetchLockExpires(k)
  PROVE  CacheInv'
<1>1. /\ TypeOK /\ SettingOK /\ Registered /\ Locked /\ Holding
      /\ fetchLock' = [fetchLock EXCEPT ![k] = NoNode]
      /\ inflight' = inflight /\ call' = call
  BY DEF CacheInv, FetchLockExpires
<1>2. /\ SettingOK' /\ setting'.clusterLock = setting.clusterLock
      /\ setting'.followerFetch = setting.followerFetch
  <2>1. "lapse" \in Faults
    BY DEF Faults
  <2>2. CASE setting' = setting
    BY <1>1, <2>2 DEF SettingOK
  <2>3. CASE Spend("lapse")
    BY <1>1, <2>1, <2>3, SpendKeeps
  <2> QED BY <2>2, <2>3 DEF FetchLockExpires
<1>3. /\ lapsed' \subseteq Keys /\ lapsed \subseteq lapsed'
      /\ \/ k \in lapsed'
         \/ \A c \in Slots : ~(call[c].held /\ call[c].node = fetchLock[k] /\ call[c].key = k)
  BY <1>1 DEF FetchLockExpires, TypeOK
<1>4. fetchLock' \in [Keys -> Nodes \cup {NoNode}]
  BY <1>1 DEF TypeOK
<1>5. TypeOK'
  BY <1>1, <1>3, <1>4 DEF FetchLockExpires, TypeOK
<1>6. ASSUME NEW d \in Slots, call[d].held, call[d].key \notin lapsed'
      PROVE  fetchLock'[call[d].key] = call[d].node
  <2>1. call[d].key \in Keys
    BY <1>1, <1>6, FlyingBusy DEF Flying, Busy
  <2>2. fetchLock[call[d].key] = call[d].node
    BY <1>1, <1>3, <1>6 DEF Holding
  <2>3. call[d].key # k
    BY <1>3, <1>6, <2>2
  <2> QED BY <1>1, <2>1, <2>2, <2>3 DEF TypeOK
<1>7. Registered' /\ Locked'
  BY <1>1, <1>2 DEF Registered, Locked
<1>8. Holding'
  BY <1>1, <1>6 DEF Holding
<1> QED BY <1>2, <1>5, <1>7, <1>8 DEF CacheInv

(* A crash takes the calls of its process and their entries along.          *)
LEMMA CrashKeeps ==
  ASSUME CacheInv, Assumption, NEW n \in Nodes, Crash(n)
  PROVE  CacheInv'
<1>1. /\ TypeOK /\ SettingOK /\ Registered /\ Locked /\ Holding /\ "crash" \in Faults
      /\ fetchLock' = fetchLock /\ lapsed' = lapsed
      /\ inflight' = [inflight EXCEPT ![n] = [k \in Keys |-> NoSlot]]
      /\ call' = [c \in Slots |-> IF call[c].node = n THEN NoCall ELSE call[c]]
  BY DEF CacheInv, Faults, Crash, histories
<1>2. call' \in [Slots -> CallRecord]
  BY <1>1, NoCallFacts DEF TypeOK
<1>3. inflight' \in [Nodes -> [Keys -> Slots \cup {NoSlot}]]
  BY <1>1 DEF TypeOK
<1>4. TypeOK'
  <2>1. l1' \in [Nodes -> [Keys -> MaybeCopy]]
    BY <1>1 DEF Crash, TypeOK, MaybeCopy
  <2>2. circuit' \in [Nodes -> [failures : 0 .. FailuresThreshold, open : BOOLEAN]]
    BY <1>1 DEF Crash, TypeOK, Assumption
  <2>3. inbox' \in [Nodes -> SUBSET (SUBSET Keys)] /\ listening' \subseteq Nodes
    BY <1>1 DEF Crash, TypeOK
  <2> QED BY <1>1, <1>2, <1>3, <2>1, <2>2, <2>3 DEF Crash, TypeOK, histories
<1>5. /\ SettingOK' /\ setting'.clusterLock = setting.clusterLock
      /\ setting'.followerFetch = setting.followerFetch
  BY <1>1, SpendKeeps DEF Crash
<1>6. ASSUME NEW d \in Slots
      PROVE  \/ call'[d] = NoCall
             \/ call'[d] = call[d] /\ call[d].node # n
  BY <1>1
<1>7. ASSUME NEW d \in Slots, Flying(call'[d])
      PROVE  inflight'[call'[d].node][call'[d].key] = d
  <2>1. call'[d] = call[d] /\ call[d].node # n
    BY <1>6, <1>7, NoCallFacts
  <2>2. call[d].node \in Nodes /\ inflight[call[d].node][call[d].key] = d
    BY <1>1, <1>7, <2>1, FlyingBusy DEF Busy, Registered
  <2> QED BY <1>1, <2>1, <2>2 DEF TypeOK
<1>8. Locked'
  BY <1>1, <1>5, <1>6, NoCallFacts DEF Locked
<1>9. Holding'
  BY <1>1, <1>6, NoCallFacts DEF Holding
<1> QED BY <1>4, <1>5, <1>7, <1>8, <1>9 DEF CacheInv, Registered

-----------------------------------------------------------------------------
(* Every step of a call, each await of getOrFetch, of a write or of an      *)
(* invalidation, keeps the invariant.                                       *)
LEMMA StepKeeps ==
  ASSUME CacheInv, Assumption, NEW c \in Slots, Step(c)
  PROVE  CacheInv'
<1>1. TypeOK
  BY DEF CacheInv
<1>2. CASE TypeOK' /\ Moves(c) /\ Aside /\ call[c].pc # "idle"
  <2>1. SettingOK'
    BY <1>2 DEF CacheInv, SettingOK, Aside
  <2> QED BY <1>2, <2>1, MovesKeep DEF Aside, CacheInv
<1>3. Step(c) => \/ call[c].pc # "idle"
  BY DEF Step, ReadL1, ReadL2, Fill, Fly, Lock, Poll, StopFollowing, Fetch, Release, Store,
         Save, TagRead, TagSave, NothingToDrop, Drop, Remove, UntagRead, UntagSave,
         DropTag, Tell, At
<1>4. CASE Fly(c) \/ Lock(c) \/ StopFollowing(c) \/ Release(c)
  BY <1>4, FlyKeeps, LockKeeps, StopFollowingKeeps, ReleaseKeeps
<1>5. CASE ReadL1(c) \/ ReadL2(c) \/ Fill(c) \/ Poll(c) \/ Fetch(c)
  BY <1>1, <1>2, <1>3, <1>5, ReadL1Moves, ReadL2Moves, FillMoves, PollMoves, FetchMoves
<1>6. CASE Store(c) \/ Save(c) \/ TagRead(c) \/ TagSave(c)
  BY <1>1, <1>2, <1>3, <1>6, StoreMoves, SaveMoves, TagReadMoves, TagSaveMoves
<1>7. CASE NothingToDrop(c) \/ (\E k \in Keys : Drop(c, k)) \/ Remove(c)
  BY <1>1, <1>2, <1>3, <1>7, NothingToDropMoves, DropMoves, RemoveMoves
<1>8. CASE UntagRead(c) \/ UntagSave(c) \/ DropTag(c) \/ Tell(c)
  BY <1>1, <1>2, <1>3, <1>8, UntagReadMoves, UntagSaveMoves, DropTagMoves, TellMoves
<1> QED BY <1>4, <1>5, <1>6, <1>7, <1>8 DEF Step

(* So do failing fetchers and storage, ageing entries, expiring locks,      *)
(* crashes, and processes that stop or start to listen.                     *)
LEMMA FaultKeeps ==
  ASSUME CacheInv, Assumption, FaultStep
  PROVE  CacheInv'
<1>1. TypeOK /\ SettingOK
  BY DEF CacheInv
<1>2. ASSUME NEW c \in Slots, FetchFails(c) \/ StorageFails(c) PROVE CacheInv'
  <2>1. call[c].pc # "idle"
    BY <1>2 DEF FetchFails, StorageFails, At
  <2>2. TypeOK' /\ Moves(c) /\ fetchLock' = fetchLock /\ lapsed' = lapsed
    BY <1>1, <1>2, FetchFailsMoves, StorageFailsMoves
  <2>3. \E fault \in Faults : Spend(fault)
    BY <1>2 DEF FetchFails, StorageFails, Faults
  <2>4. /\ SettingOK' /\ setting'.clusterLock = setting.clusterLock
        /\ setting'.followerFetch = setting.followerFetch
    BY <1>1, <2>3, SpendKeeps
  <2> QED BY <2>1, <2>2, <2>4, MovesKeep DEF CacheInv
<1> QED BY <1>2, CircuitClosesKeeps, CrashKeeps, StopListeningKeeps, StartListeningKeeps,
           AgeL1Keeps, AgeL2Keeps, FetchLockExpiresKeeps DEF FaultStep

(* The invariant holds in the initial states and is kept by every step.     *)
LEMMA CacheInductive == ASSUME Assumption PROVE Spec => []CacheInv
<1>1. ASSUME Init PROVE CacheInv
  <2>1. SettingOK
    BY <1>1 DEF Init, InitWith, Assumption, SettingOK
  <2>2. TypeOK
    <3>1. /\ NoCopy \in MaybeCopy /\ 0 \in 0 .. MaxVersion /\ 0 \in 0 .. FailuresThreshold
          /\ NoCall \in CallRecord
      BY <1>1, NoCallFacts DEF Assumption, MaybeCopy
    <3>2. setting.fleet \subseteq Nodes
      BY <2>1 DEF SettingOK
    <3> QED BY <1>1, <3>1, <3>2 DEF Init, InitWith, TypeOK
  <2>3. \A c \in Slots : call[c] = NoCall
    BY <1>1 DEF Init, InitWith
  <2>4. Registered /\ Locked /\ Holding
    BY <2>3, NoCallFacts DEF Registered, Locked, Holding
  <2> QED BY <2>1, <2>2, <2>4 DEF CacheInv
<1>2. ASSUME CacheInv, [Next]_vars PROVE CacheInv'
  <2>1. CASE UNCHANGED vars
    BY <1>2, <2>1 DEF vars, CacheInv, TypeOK, SettingOK, Registered, Locked, Holding
  <2>2. CASE Next
    BY <1>2, <2>2, BeginKeeps, UpdateKeeps, StepKeeps, DeliverKeeps, FaultKeeps DEF Next
  <2> QED BY <1>2, <2>1, <2>2
<1> QED BY <1>1, <1>2, PTL DEF Spec

(* Two fetchers of one key in one process are one call: both are the one    *)
(* the inflight map names.  Two in the cluster, with the lock and without   *)
(* followers, are of one process: both hold the lock.                       *)
LEMMA OneFetcher == CacheInv => FetchOnce
<1> SUFFICES ASSUME CacheInv, NEW k \in Keys
             PROVE  /\ \A n \in Nodes : Cardinality(Fetching(n, k)) <= 1
                    /\ setting.clusterLock /\ ~setting.followerFetch /\ k \notin lapsed
                         => Cardinality(UNION {Fetching(n, k) : n \in Nodes}) <= 1
  BY DEF FetchOnce
<1>1. ASSUME NEW S, \A c \in S, d \in S : c = d PROVE Cardinality(S) <= 1
  <2>1. S = {} \/ \E c : S = {c}
    BY <1>1
  <2>2. CASE S = {}
    BY <2>2, FS_EmptySet
  <2>3. ASSUME NEW c, S = {c} PROVE Cardinality(S) <= 1
    <3>1. Cardinality({c}) = 1
      BY FS_Singleton
    <3> QED BY <2>3, <3>1
  <2> QED BY <2>1, <2>2, <2>3
<1>2. ASSUME NEW n \in Nodes, NEW c \in Fetching(n, k), NEW d \in Fetching(n, k) PROVE c = d
  <2>1. /\ c \in Slots /\ d \in Slots /\ Flying(call[c]) /\ Flying(call[d])
        /\ call[c].node = n /\ call[d].node = n /\ call[c].key = k /\ call[d].key = k
    BY DEF Fetching, At, Flying
  <2> QED BY <2>1 DEF CacheInv, Registered
<1>3. ASSUME setting.clusterLock, ~setting.followerFetch, k \notin lapsed,
             NEW m \in Nodes, NEW n \in Nodes, NEW c \in Fetching(m, k), NEW d \in Fetching(n, k)
      PROVE  c = d
  <2>1. /\ c \in Slots /\ d \in Slots /\ call[c].pc = "fetch" /\ call[d].pc = "fetch"
        /\ call[c].node = m /\ call[d].node = n /\ call[c].key = k /\ call[d].key = k
    BY DEF Fetching, At
  <2>2. call[c].held /\ call[d].held
    BY <1>3, <2>1 DEF CacheInv, Locked
  <2>3. m = n
    BY <1>3, <2>1, <2>2 DEF CacheInv, Holding
  <2> QED BY <1>2, <2>3
<1>4. \A n \in Nodes : Cardinality(Fetching(n, k)) <= 1
  BY <1>1, <1>2
<1>5. ASSUME setting.clusterLock, ~setting.followerFetch, k \notin lapsed
      PROVE  Cardinality(UNION {Fetching(n, k) : n \in Nodes}) <= 1
  <2>1. \A c \in UNION {Fetching(n, k) : n \in Nodes}, d \in UNION {Fetching(n, k) : n \in Nodes} :
          c = d
    BY <1>3, <1>5
  <2> QED BY <1>1, <2>1
<1> QED BY <1>4, <1>5

(* One fetcher runs per key and process; with the cluster lock, and unless  *)
(* it lapsed or a follower may go past its deadline, one in the cluster.    *)
THEOREM FetchersAreSingle == ASSUME Assumption PROVE Spec => []FetchOnce
BY CacheInductive, OneFetcher, PTL
-----------------------------------------------------------------------------
(* InvalidatedStaysGone.  A call deals with a key when it may write it or   *)
(* is an invalidation of it; an undisturbed invalidation is the only call   *)
(* that deals with its keys, and none does before its broadcast is          *)
(* delivered everywhere (Alone, Quiet).  So a key leaves L2 and the map of  *)
(* the process while nobody puts it back (Cleared), the other maps answer   *)
(* for it by a message still to come (Recent1), and whoever writes later    *)
(* carries what was read later (Carried).                                   *)
Deals(r, k) == r.pc # "idle" /\ (k \in r.scope \/ (r.key = k /\ r.kind \notin Invalidations))
Carries(r) == r.pc \in {"fill", "store", "save"}
DropPcs == {"drop", "remove", "untagRead", "untagSave", "dropTag", "tell"}
Recent(copy, k) == copy # NoCopy => copy.ver >= floor[k]

Sound(r) ==
  /\ r.scope # {} => r.kind \in Invalidations
  /\ r.kind \in Invalidations => r.pc \in DropPcs
  /\ r.pc = "tell" \/ (r.pc = "dropTag" /\ r.kind # "tags") => r.todo = {}
KnownAt(c) == \A k \in Keys : call[c].pc # "idle" => call[c].seen[k] <= source[k]
CarriedAt(c) ==
  Carries(call[c]) /\ call[c].key \notin tainted => Recent(call[c].copy, call[c].key)
ClearedAt(c) ==
  \A k \in call[c].scope \ tainted :
    /\ k \in call[c].todo \/ l2[k] = NoCopy
    /\ call[c].kind = "delete" =>
         \/ k \in call[c].todo /\ ~(call[c].pc = "remove" /\ k \in call[c].index)
         \/ l1[call[c].node][k] = NoCopy

Sounds == \A c \in Slots : Sound(call[c])
Known == (\A k \in Keys : floor[k] <= source[k]) /\ \A c \in Slots : KnownAt(c)
Alone ==
  \A c \in Slots : \A k \in call[c].scope \ tainted :
    ~Pending(k) /\ \A d \in Slots \ {c} : ~Deals(call[d], k)
Quiet == \A k \in Keys \ tainted : Pending(k) => \A d \in Slots : ~Deals(call[d], k)
Cleared == \A c \in Slots : ClearedAt(c)
Carried == \A c \in Slots : CarriedAt(c)
Recent2 == \A k \in Keys \ tainted : Recent(l2[k], k)
Recent1 ==
  \A k \in Keys \ tainted, n \in setting.fleet :
    (\E message \in inbox[n] : k \in message) \/ Recent(l1[n][k], k)

GoneInv ==
  /\ listening \subseteq setting.fleet
  /\ Sounds /\ Known /\ Alone /\ Quiet /\ Cleared /\ Carried /\ Recent2 /\ Recent1

(* What a step of the call c, other than its broadcast, does to them: keys  *)
(* leave the two tiers, or the copy the call carries is put in.             *)
Settled ==
  /\ source' = source /\ floor' = floor /\ tainted' = tainted /\ inbox' = inbox
  /\ listening' = listening /\ setting'.fleet = setting.fleet
Writes(c, k, copy) == Carries(call[c]) /\ k = call[c].key /\ copy = call[c].copy
Tiers(c) ==
  /\ \A n \in Nodes, k \in Keys :
       l1'[n][k] \in {l1[n][k], NoCopy} \/ Writes(c, k, l1'[n][k])
  /\ \A k \in Keys : l2'[k] \in {l2[k], NoCopy} \/ Writes(c, k, l2'[k])
Same(r, q) ==
  /\ q.node = r.node /\ q.key = r.key /\ q.scope = r.scope /\ q.seen = r.seen
  /\ q.pc # "idle"
Gentle(c) ==
  /\ Settled /\ Tiers(c) /\ Others(c)
  /\ \/ call'[c] = NoCall
     \/ /\ Same(call[c], call'[c]) /\ Sound(call'[c])
        /\ call'[c].kind \notin Invalidations => call[c].kind \notin Invalidations
        /\ ClearedAt(c)' /\ CarriedAt(c)'

(* ... when the call is none that invalidates.                              *)
Plain(c) ==
  /\ Others(c)
  /\ \/ call'[c] = NoCall
     \/ /\ Same(call[c], call'[c]) /\ CarriedAt(c)'
        /\ call'[c].kind \notin Invalidations /\ call'[c].pc \notin {"tell", "dropTag"}

(* The idle record deals with nothing.                                      *)
LEMMA NoCallAloof ==
  /\ Sound(NoCall) /\ NoCall.scope = {} /\ ~Carries(NoCall) /\ NoCall.pc = "idle"
  /\ \A k : ~Deals(NoCall, k)
BY DEF NoCall, Sound, Carries, Deals, Invalidations

(* A call whose step is no part of an invalidation is no invalidation.      *)
LEMMA Reading ==
  ASSUME GoneInv, NEW c \in Slots, call[c].pc \notin DropPcs
  PROVE  call[c].kind \notin Invalidations
BY DEF GoneInv, Sounds, Sound

(* The program counter of a call moves, and nothing else of its record.     *)
LEMMA GoSame ==
  ASSUME TypeOK, NEW c \in Slots, call[c].pc # "idle", NEW pc \in Pcs, Go(c, pc)
  PROVE  /\ Others(c) /\ call'[c].pc = pc
         /\ call'[c].node = call[c].node /\ call'[c].key = call[c].key
         /\ call'[c].scope = call[c].scope /\ call'[c].seen = call[c].seen
         /\ call'[c].kind = call[c].kind /\ call'[c].copy = call[c].copy
         /\ call'[c].todo = call[c].todo /\ call'[c].index = call[c].index
<1>1. call[c] \in Busy
  BY BusyCalls
<1>2. PICK r : r = [call[c] EXCEPT !.pc = pc]
  OBVIOUS
<1>3. /\ r \in Busy /\ r.pc = pc /\ r.node = call[c].node /\ r.key = call[c].key
      /\ r.scope = call[c].scope /\ r.seen = call[c].seen /\ r.kind = call[c].kind
      /\ r.copy = call[c].copy /\ r.todo = call[c].todo /\ r.index = call[c].index
  BY <1>1, <1>2 DEF Busy
<1>4. call' = [call EXCEPT ![c] = r]
  BY <1>2 DEF Go
<1>5. call'[c] = r /\ Others(c)
  BY <1>3, <1>4, Replaced
<1> QED BY <1>3, <1>5

(* It ends.                                                                 *)
LEMMA EndPlain ==
  ASSUME TypeOK, NEW c \in Slots, call[c].pc # "idle", End(c)
  PROVE  Plain(c) /\ call'[c] = NoCall
BY EndEnds DEF Plain, Ends

(* It goes on to a step that carries no copy.                               *)
LEMMA GoPlain ==
  ASSUME TypeOK, NEW c \in Slots, call[c].pc # "idle", NEW pc \in Pcs, Go(c, pc),
         pc \notin {"idle", "fill", "store", "save", "tell", "dropTag"},
         call[c].kind \notin Invalidations
  PROVE  Plain(c)
BY GoSame DEF Plain, Same, CarriedAt, Carries

(* One record is edited in place.                                           *)
LEMMA EditPlain ==
  ASSUME TypeOK, NEW c \in Slots, NEW r \in Busy, call' = [call EXCEPT ![c] = r],
         Same(call[c], r), r.pc \notin {"tell", "dropTag"}, r.kind \notin Invalidations,
         Carries(r) /\ r.key \notin tainted' => (r.copy # NoCopy => r.copy.ver >= floor'[r.key])
  PROVE  Plain(c)
BY Replaced DEF Plain, CarriedAt, Recent

(* Finish, Miss and Hit, which the steps of a read end in.                  *)
LEMMA FinishPlain ==
  ASSUME TypeOK, NEW c \in Slots, call[c].pc # "idle", call[c].kind \notin Invalidations,
         Finish(c)
  PROVE  Plain(c)
<1>1. "release" \in Pcs
  BY DEF Pcs
<1> QED BY <1>1, GoPlain, EndPlain DEF Finish

(* It looks for the fetch, goes back to following, or ends.                 *)
LEMMA MissPlain ==
  ASSUME TypeOK, NEW c \in Slots, call[c].pc # "idle", call[c].kind \notin Invalidations,
         Miss(c)
  PROVE  Plain(c)
<1>1. call[c].miss \in {"end", "flight", "follow"}
  BY BusyCalls DEF Busy
<1>2. "flight" \in Pcs /\ "follow" \in Pcs
  BY DEF Pcs
<1>3. CASE call[c].miss = "end"
  BY <1>3, FinishPlain DEF Miss
<1>4. CASE call[c].miss = "flight"
  <2>1. Go(c, "flight")
    BY <1>4 DEF Miss
  <2> QED BY <1>2, <2>1, GoPlain
<1>5. CASE call[c].miss = "follow"
  <2>1. Go(c, "follow")
    BY <1>5 DEF Miss
  <2> QED BY <1>2, <2>1, GoPlain
<1> QED BY <1>1, <1>3, <1>4, <1>5

(* It answers, or goes on to refresh what is stale.                         *)
LEMMA HitPlain ==
  ASSUME TypeOK, NEW c \in Slots, call[c].pc # "idle", call[c].kind \notin Invalidations,
         NEW copy, Hit(c, copy)
  PROVE  Plain(c)
<1>1. CASE call[c].miss = "flight" /\ copy.age = "stale"
  <2>1. PICK r : r = [call[c] EXCEPT !.kind = "refresh", !.pc = "flight"]
    OBVIOUS
  <2>2. call' = [call EXCEPT ![c] = r]
    BY <1>1, <2>1 DEF Hit
  <2>3. call[c] \in Busy /\ "flight" \in Pcs /\ "refresh" \in Kinds \ Invalidations
    BY BusyCalls DEF Pcs, Kinds, Invalidations
  <2>4. /\ r \in Busy /\ r.pc = "flight" /\ r.kind = "refresh" /\ r.node = call[c].node
        /\ r.key = call[c].key /\ r.scope = call[c].scope /\ r.seen = call[c].seen
    BY <2>1, <2>3 DEF Busy
  <2> QED BY <2>2, <2>3, <2>4, EditPlain DEF Same, Carries
<1>2. CASE ~(call[c].miss = "flight" /\ copy.age = "stale")
  BY <1>2, FinishPlain DEF Hit
<1> QED BY <1>1, <1>2

(* Such a step is gentle: the call invalidates nothing.                     *)
LEMMA PlainGentle ==
  ASSUME GoneInv, NEW c \in Slots, call[c].kind \notin Invalidations,
         Plain(c), Settled, Tiers(c)
  PROVE  Gentle(c)
<1>1. call[c].scope = {}
  BY DEF GoneInv, Sounds, Sound
<1>2. CASE call'[c] = NoCall
  BY <1>2 DEF Plain, Gentle
<1>3. CASE call'[c] # NoCall
  <2>1. /\ Same(call[c], call'[c]) /\ CarriedAt(c)' /\ Others(c)
        /\ call'[c].kind \notin Invalidations /\ call'[c].pc \notin {"tell", "dropTag"}
    BY <1>3 DEF Plain
  <2>2. call'[c].scope = {}
    BY <1>1, <2>1 DEF Same
  <2>3. Sound(call'[c]) /\ ClearedAt(c)'
    BY <2>1, <2>2 DEF Sound, ClearedAt
  <2> QED BY <2>1, <2>3 DEF Gentle
<1> QED BY <1>2, <1>3

(* What an eviction and an entry do to the maps.                            *)
LEMMA EvictTiers ==
  ASSUME TypeOK, NEW n \in Nodes, NEW keys, EvictL1(n, keys)
  PROVE  /\ \A m \in Nodes, k \in Keys : l1'[m][k] \in {l1[m][k], NoCopy}
         /\ \A k \in Keys : k \in keys => l1'[n][k] = NoCopy
<1>1. l1 \in [Nodes -> [Keys -> MaybeCopy]]
  BY DEF TypeOK
<1>2. PICK m : m = [k \in Keys |-> IF k \in keys THEN NoCopy ELSE l1[n][k]]
  OBVIOUS
<1>3. l1' = [l1 EXCEPT ![n] = m]
  BY <1>1, <1>2 DEF EvictL1
<1>4. \A o \in Nodes : l1'[o] = IF o = n THEN m ELSE l1[o]
  BY <1>1, <1>3
<1>5. \A k \in Keys : m[k] = IF k \in keys THEN NoCopy ELSE l1[n][k]
  BY <1>2
<1> QED BY <1>4, <1>5

(* An entry puts the copy in, and may push another key out.                 *)
LEMMA PutTiers ==
  ASSUME TypeOK, NEW n \in Nodes, NEW k \in Keys, NEW copy, PutL1(n, k, copy)
  PROVE  \A m \in Nodes, o \in Keys :
           l1'[m][o] \in {l1[m][o], NoCopy} \/ (o = k /\ l1'[m][o] = copy)
<1>1. l1 \in [Nodes -> [Keys -> MaybeCopy]]
  BY DEF TypeOK
<1>2. PICK put : put = [l1[n] EXCEPT ![k] = copy]
  OBVIOUS
<1>3. \A o \in Keys : put[o] = IF o = k THEN copy ELSE l1[n][o]
  BY <1>1, <1>2
<1>4. \/ l1' = [l1 EXCEPT ![n] = put]
      \/ \E o \in Keys : l1' = [l1 EXCEPT ![n] = [put EXCEPT ![o] = NoCopy]]
  BY <1>2, Zenon DEF PutL1
<1>5. CASE l1' = [l1 EXCEPT ![n] = put]
  BY <1>1, <1>3, <1>5
<1>6. ASSUME NEW e \in Keys, l1' = [l1 EXCEPT ![n] = [put EXCEPT ![e] = NoCopy]]
      PROVE  \A m \in Nodes, o \in Keys :
               l1'[m][o] \in {l1[m][o], NoCopy} \/ (o = k /\ l1'[m][o] = copy)
  <2>1. PICK q : q = [put EXCEPT ![e] = NoCopy]
    OBVIOUS
  <2>2. DOMAIN put = Keys
    BY <1>1, <1>2
  <2>3. \A o \in Keys : q[o] = IF o = e THEN NoCopy ELSE put[o]
    BY <2>1, <2>2
  <2>4. \A m \in Nodes : l1'[m] = IF m = n THEN q ELSE l1[m]
    BY <1>1, <1>6, <2>1
  <2> QED BY <1>3, <2>3, <2>4
<1> QED BY <1>4, <1>5, <1>6

(* A gentle step keeps the invariant: whoever deals with a key after it did *)
(* before, what is written was carried, and an invalidation is not met.     *)
LEMMA GentleKeeps ==
  ASSUME TypeOK, SettingOK, GoneInv, NEW c \in Slots, call[c].pc # "idle", Gentle(c)
  PROVE  GoneInv'
<1>1. /\ listening \subseteq setting.fleet
      /\ Sounds /\ Known /\ Alone /\ Quiet /\ Cleared /\ Carried /\ Recent2 /\ Recent1
  BY DEF GoneInv
<1>2. /\ source' = source /\ floor' = floor /\ tainted' = tainted /\ inbox' = inbox
      /\ listening' = listening /\ setting'.fleet = setting.fleet
      /\ \A d \in Slots \ {c} : call'[d] = call[d]
  BY DEF Gentle, Settled, Others
<1>3. \/ call'[c] = NoCall
      \/ /\ Same(call[c], call'[c]) /\ Sound(call'[c])
         /\ call'[c].kind \notin Invalidations => call[c].kind \notin Invalidations
         /\ ClearedAt(c)' /\ CarriedAt(c)'
  BY DEF Gentle
<1>4. ASSUME NEW d \in Slots, NEW k, Deals(call'[d], k) PROVE Deals(call[d], k)
  <2>1. CASE d = c
    BY <1>3, <1>4, <2>1, NoCallAloof DEF Deals, Same
  <2>2. CASE d # c
    BY <1>2, <1>4, <2>2
  <2> QED BY <2>1, <2>2
<1>5. ASSUME NEW d \in Slots PROVE call'[d].scope = {} \/ call'[d].scope = call[d].scope
  <2>1. CASE d = c
    BY <1>3, <2>1, NoCallAloof DEF Same
  <2>2. CASE d # c
    BY <1>2, <2>2
  <2> QED BY <2>1, <2>2
<1>6. \A k : Pending(k)' = Pending(k)
  BY <1>2 DEF Pending
<1>7. Sounds'
  BY <1>1, <1>2, <1>3, NoCallAloof DEF Sounds
<1>8. Known'
  <2>1. ASSUME NEW d \in Slots, NEW k \in Keys, call'[d].pc # "idle"
        PROVE  call'[d].seen[k] <= source[k]
    <3>1. CASE d = c
      <4>1. call'[c].seen = call[c].seen
        BY <1>3, <2>1, <3>1, NoCallAloof DEF Same
      <4> QED BY <1>1, <3>1, <4>1 DEF Known, KnownAt
    <3>2. CASE d # c
      BY <1>1, <1>2, <2>1, <3>2 DEF Known, KnownAt
    <3> QED BY <3>1, <3>2
  <2> QED BY <1>1, <1>2, <2>1 DEF Known, KnownAt
<1>9. Alone'
  BY <1>1, <1>2, <1>4, <1>5, <1>6 DEF Alone
<1>10. Quiet'
  BY <1>1, <1>2, <1>4, <1>6 DEF Quiet
<1>11. ASSUME NEW k, NEW copy, Writes(c, k, copy)
       PROVE  Deals(call[c], k) /\ (k \notin tainted => Recent(copy, k))
  <2>1. call[c].kind \notin Invalidations
    BY <1>11, Reading DEF Writes, Carries, DropPcs
  <2>2. k = call[c].key /\ copy = call[c].copy /\ Carries(call[c])
    BY <1>11 DEF Writes
  <2>3. Deals(call[c], k)
    BY <2>1, <2>2 DEF Deals
  <2>4. CarriedAt(c)
    BY <1>1 DEF Carried
  <2> QED BY <2>2, <2>3, <2>4 DEF CarriedAt
<1>12. /\ \A n \in Nodes, k \in Keys :
            l1'[n][k] \in {l1[n][k], NoCopy} \/ Writes(c, k, l1'[n][k])
       /\ \A k \in Keys : l2'[k] \in {l2[k], NoCopy} \/ Writes(c, k, l2'[k])
  BY DEF Gentle, Tiers
<1>13. \A copy, k : Recent(copy, k)' = Recent(copy', k)
  BY <1>2 DEF Recent
<1>14. \A k : Recent(NoCopy, k)
  BY DEF Recent
<1>15. Recent2'
  <2>1. ASSUME NEW k \in Keys \ tainted PROVE Recent(l2'[k], k)
    BY <1>1, <1>11, <1>12, <1>14 DEF Recent2
  <2> QED BY <1>2, <2>1 DEF Recent2, Recent
<1>16. Recent1'
  <2>1. ASSUME NEW k \in Keys \ tainted, NEW n \in setting.fleet,
               ~\E message \in inbox[n] : k \in message
        PROVE  Recent(l1'[n][k], k)
    <3>1. n \in Nodes
      BY DEF SettingOK
    <3>2. Recent(l1[n][k], k)
      BY <1>1, <2>1 DEF Recent1
    <3> QED BY <1>11, <1>12, <1>14, <3>1, <3>2
  <2> QED BY <1>2, <2>1 DEF Recent1, Recent
<1>17. ASSUME NEW d \in Slots, d # c PROVE ClearedAt(d)'
  <2>1. call'[d] = call[d] /\ ClearedAt(d)
    BY <1>1, <1>2, <1>17 DEF Cleared
  <2>2. SUFFICES ASSUME NEW k \in call[d].scope \ tainted
                 PROVE  /\ k \in call[d].todo \/ l2'[k] = NoCopy
                        /\ call[d].kind = "delete" =>
                             \/ k \in call[d].todo /\ ~(call[d].pc = "remove" /\ k \in call[d].index)
                             \/ l1'[call[d].node][k] = NoCopy
    BY <1>2, <2>1 DEF ClearedAt
  <2>3. call[d].pc # "idle"
    BY <1>1, <2>2 DEF Sounds, Sound, DropPcs
  <2>4. call[d] \in Busy
    BY <2>3, BusyCalls
  <2>5. k \in Keys /\ call[d].node \in Nodes
    BY <2>2, <2>4 DEF Busy
  <2>6. ~Deals(call[c], k)
    BY <1>1, <1>17, <2>2 DEF Alone
  <2>7. /\ l2'[k] \in {l2[k], NoCopy}
        /\ l1'[call[d].node][k] \in {l1[call[d].node][k], NoCopy}
    BY <1>11, <1>12, <2>5, <2>6
  <2> QED BY <2>1, <2>2, <2>7 DEF ClearedAt
<1>18. Cleared'
  <2>1. call'[c] = NoCall => ClearedAt(c)'
    BY NoCallAloof DEF ClearedAt
  <2> QED BY <1>3, <1>17, <2>1 DEF Cleared
<1>19. Carried'
  <2>1. ASSUME NEW d \in Slots, d # c PROVE CarriedAt(d)'
    BY <1>1, <1>2, <2>1 DEF Carried, CarriedAt, Recent
  <2>2. call'[c] = NoCall => CarriedAt(c)'
    BY NoCallAloof DEF CarriedAt
  <2> QED BY <1>3, <2>1, <2>2 DEF Carried
<1> QED BY <1>1, <1>2, <1>7, <1>8, <1>9, <1>10, <1>15, <1>16, <1>18, <1>19 DEF GoneInv

-----------------------------------------------------------------------------
(* The steps of a read, a fetch and a write are gentle.                     *)
LEMMA ReadL1Gentle ==
  ASSUME TypeOK, GoneInv, NEW c \in Slots, ReadL1(c)
  PROVE  Gentle(c)
<1>1. call[c].pc = "read" /\ call[c] \in Busy /\ call[c].kind \notin Invalidations
  BY BusyCalls, Reading DEF ReadL1, At, DropPcs
<1>2. PICK n \in Nodes : n = call[c].node
  BY <1>1 DEF Busy
<1>3. PICK k \in Keys : k = call[c].key
  BY <1>1 DEF Busy
<1>4. Plain(c) /\ \A m \in Nodes, o \in Keys : l1'[m][o] \in {l1[m][o], NoCopy}
  <2>1. CASE Live(l1[n][k])
    <3>1. Hit(c, l1[n][k]) /\ l1' = l1
      BY <1>2, <1>3, <2>1 DEF ReadL1
    <3> QED BY <1>1, <3>1, HitPlain
  <2>2. CASE ~Live(l1[n][k])
    <3>1. EvictL1(n, {k}) /\ Go(c, "l2") /\ "l2" \in Pcs
      BY <1>2, <1>3, <2>2 DEF ReadL1, Pcs
    <3> QED BY <1>1, <3>1, EvictTiers, GoPlain
  <2> QED BY <2>1, <2>2
<1>5. Settled /\ l2' = l2
  BY DEF ReadL1, Settled, histories
<1> QED BY <1>1, <1>4, <1>5, PlainGentle DEF Tiers

(* ReadL2 takes along what L2 holds, which is recent.                       *)
LEMMA ReadL2Gentle ==
  ASSUME TypeOK, GoneInv, NEW c \in Slots, ReadL2(c)
  PROVE  Gentle(c)
<1>1. call[c].pc = "l2" /\ call[c] \in Busy /\ call[c].kind \notin Invalidations
  BY BusyCalls, Reading DEF ReadL2, At, DropPcs
<1>2. PICK k \in Keys : k = call[c].key
  BY <1>1 DEF Busy
<1>3. PICK copy \in MaybeCopy : copy = l2[k]
  BY <1>2 DEF TypeOK
<1>4. Settled /\ l2' = l2 /\ l1' = l1
  BY DEF ReadL2, Settled, histories
<1>5. Plain(c)
  <2>1. CASE Miss(c)
    BY <1>1, <2>1, MissPlain
  <2>2. CASE ~Miss(c) /\ copy.age = "dead"
    <3>1. PICK r : r = [call[c] EXCEPT !.pc = "drop", !.todo = {k}]
      OBVIOUS
    <3>2. call' = [call EXCEPT ![c] = r]
      BY <1>2, <1>3, <2>2, <3>1 DEF ReadL2
    <3>3. /\ r \in Busy /\ r.pc = "drop" /\ r.kind = call[c].kind /\ r.node = call[c].node
          /\ r.key = call[c].key /\ r.scope = call[c].scope /\ r.seen = call[c].seen
      BY <1>1, <3>1 DEF Busy, Pcs
    <3> QED BY <1>1, <3>2, <3>3, EditPlain DEF Same, Carries
  <2>3. CASE ~Miss(c) /\ copy.age # "dead"
    <3>1. PICK r : r = [call[c] EXCEPT !.pc = "fill", !.copy = copy]
      OBVIOUS
    <3>2. call' = [call EXCEPT ![c] = r]
      BY <1>2, <1>3, <2>3, <3>1 DEF ReadL2
    <3>3. /\ r \in Busy /\ r.pc = "fill" /\ r.kind = call[c].kind /\ r.node = call[c].node
          /\ r.key = call[c].key /\ r.scope = call[c].scope /\ r.seen = call[c].seen
          /\ r.copy = copy
      BY <1>1, <3>1 DEF Busy, Pcs
    <3>4. k \notin tainted => (copy # NoCopy => copy.ver >= floor[k])
      BY <1>2, <1>3 DEF GoneInv, Recent2, Recent
    <3> QED BY <1>1, <1>2, <1>4, <3>2, <3>3, <3>4, EditPlain DEF Same, Settled
  <2> QED BY <2>1, <2>2, <2>3
<1> QED BY <1>1, <1>4, <1>5, PlainGentle DEF Tiers

(* Fill puts it into the map of the process.                                *)
LEMMA FillGentle ==
  ASSUME TypeOK, GoneInv, NEW c \in Slots, Fill(c)
  PROVE  Gentle(c)
<1>1. call[c].pc = "fill" /\ call[c] \in Busy /\ call[c].kind \notin Invalidations
  BY BusyCalls, Reading DEF Fill, At, DropPcs
<1>2. Plain(c)
  BY <1>1, HitPlain DEF Fill
<1>3. \A m \in Nodes, o \in Keys :
        l1'[m][o] \in {l1[m][o], NoCopy} \/ (o = call[c].key /\ l1'[m][o] = call[c].copy)
  BY <1>1, PutTiers DEF Fill, Busy
<1>4. Settled /\ l2' = l2
  BY DEF Fill, Settled, histories
<1> QED BY <1>1, <1>2, <1>3, <1>4, PlainGentle DEF Tiers, Writes, Carries

(* Store does the same with what the fetcher returned,                      *)
LEMMA StoreGentle ==
  ASSUME TypeOK, GoneInv, NEW c \in Slots, Store(c)
  PROVE  Gentle(c)
<1>1. call[c].pc = "store" /\ call[c] \in Busy /\ call[c].kind \notin Invalidations
  BY BusyCalls, Reading DEF Store, At, DropPcs
<1>2. Settled /\ l2' = l2
  BY DEF Store, Settled, histories
<1>3. Plain(c)
  <2>1. CASE Finish(c)
    BY <1>1, <2>1, FinishPlain
  <2>2. CASE ~Finish(c)
    <3>1. Go(c, "save") /\ "save" \in Pcs
      BY <2>2 DEF Store, Pcs
    <3>2. /\ Others(c) /\ call'[c].pc = "save"
          /\ call'[c].node = call[c].node /\ call'[c].key = call[c].key
          /\ call'[c].scope = call[c].scope /\ call'[c].seen = call[c].seen
          /\ call'[c].kind = call[c].kind /\ call'[c].copy = call[c].copy
      BY <1>1, <3>1, GoSame
    <3>3. CarriedAt(c)
      BY DEF GoneInv, Carried
    <3>4. CarriedAt(c)'
      BY <1>1, <1>2, <3>2, <3>3 DEF CarriedAt, Carries, Recent, Settled
    <3> QED BY <1>1, <3>2, <3>4 DEF Plain, Same
  <2> QED BY <2>1, <2>2
<1>4. \A m \in Nodes, o \in Keys :
        l1'[m][o] \in {l1[m][o], NoCopy} \/ (o = call[c].key /\ l1'[m][o] = call[c].copy)
  BY <1>1, PutTiers DEF Store, Busy
<1> QED BY <1>1, <1>2, <1>3, <1>4, PlainGentle DEF Tiers, Writes, Carries

(* and Save with the shared tier.                                           *)
LEMMA SaveGentle ==
  ASSUME TypeOK, GoneInv, NEW c \in Slots, Save(c)
  PROVE  Gentle(c)
<1>1. call[c].pc = "save" /\ call[c] \in Busy /\ call[c].kind \notin Invalidations
  BY BusyCalls, Reading DEF Save, At, DropPcs
<1>2. Settled /\ l1' = l1
  BY DEF Save, Settled, histories
<1>3. Plain(c)
  <2>1. CASE setting.tagged
    <3>1. Go(c, "tagRead") /\ "tagRead" \in Pcs
      BY <2>1 DEF Save, Pcs
    <3> QED BY <1>1, <3>1, GoPlain
  <2>2. CASE ~setting.tagged
    BY <1>1, <2>2, FinishPlain DEF Save
  <2> QED BY <2>1, <2>2
<1>4. \A o \in Keys : l2'[o] = l2[o] \/ (o = call[c].key /\ l2'[o] = call[c].copy)
  BY DEF Save, TypeOK
<1> QED BY <1>1, <1>2, <1>3, <1>4, PlainGentle DEF Tiers, Writes, Carries

(* The steps that leave both tiers alone.                                   *)
LEMMA OtherReadsGentle ==
  ASSUME TypeOK, SettingOK, GoneInv, NEW c \in Slots,
         Fly(c) \/ Lock(c) \/ Poll(c) \/ StopFollowing(c) \/ FetchFails(c) \/ Release(c)
           \/ TagRead(c) \/ TagSave(c)
  PROVE  Gentle(c)
<1>1. /\ call[c].pc \in {"flight", "lock", "follow", "fetch", "release", "tagRead", "tagSave"}
      /\ l1' = l1 /\ l2' = l2
  BY DEF Fly, Lock, Poll, StopFollowing, FetchFails, Release, TagRead, TagSave, At
<1>2. call[c] \in Busy /\ call[c].kind \notin Invalidations /\ call[c].pc # "idle"
  BY <1>1, BusyCalls, Reading DEF DropPcs
<1>3. setting'.fleet = setting.fleet
  BY DEF Fly, Lock, Poll, StopFollowing, FetchFails, Release, TagRead, TagSave, Spend, SettingOK
<1>4. Settled
  BY <1>3 DEF Fly, Lock, Poll, StopFollowing, FetchFails, Release, TagRead, TagSave,
     Settled, histories
<1>5. {"lock", "fetch", "follow", "read", "tagSave"} \subseteq Pcs
  BY DEF Pcs
<1>6. CASE Fly(c)
  <2>1. End(c) \/ Go(c, "lock") \/ Go(c, "fetch")
    BY <1>6 DEF Fly
  <2>2. Plain(c)
    BY <1>2, <1>5, <2>1, EndPlain, GoPlain
  <2> QED BY <1>1, <1>2, <1>4, <2>2, PlainGentle DEF Tiers
<1>7. CASE Release(c) \/ TagSave(c)
  <2>1. Plain(c)
    BY <1>2, <1>7, EndPlain, FinishPlain DEF Release, TagSave
  <2> QED BY <1>1, <1>2, <1>4, <2>1, PlainGentle DEF Tiers
<1>8. CASE Lock(c) \/ Poll(c) \/ StopFollowing(c) \/ FetchFails(c) \/ TagRead(c)
  <2>1. PICK r : r = call'[c]
    OBVIOUS
  <2>2. /\ r \in Busy /\ r.pc \in {"fetch", "follow", "read", "tagSave"}
        /\ r.kind = call[c].kind /\ r.node = call[c].node /\ r.key = call[c].key
        /\ r.scope = call[c].scope /\ r.seen = call[c].seen
        /\ call' = [call EXCEPT ![c] = r]
    <3>1. CASE Lock(c)
      <4>1. \E got \in BOOLEAN, pc \in Pcs :
              /\ pc \in {"fetch", "follow"}
              /\ call' = [call EXCEPT ![c].pc = pc, ![c].held = got]
        <5>1. CASE fetchLock[call[c].key] \in {NoNode, call[c].node}
          <6>1. (fetchLock[call[c].key] \in {NoNode, call[c].node}) = TRUE
            BY <5>1
          <6>2. call' = [call EXCEPT ![c].pc = "fetch", ![c].held = TRUE]
            BY <3>1, <6>1 DEF Lock
          <6> QED BY <1>5, <6>2
        <5>2. CASE fetchLock[call[c].key] \notin {NoNode, call[c].node}
          <6>1. (fetchLock[call[c].key] \in {NoNode, call[c].node}) = FALSE
            BY <5>2
          <6>2. call' = [call EXCEPT ![c].pc = "follow", ![c].held = FALSE]
            BY <3>1, <6>1 DEF Lock
          <6> QED BY <1>5, <6>2
        <5> QED BY <5>1, <5>2
      <4>2. PICK got \in BOOLEAN, pc \in Pcs :
              /\ pc \in {"fetch", "follow"}
              /\ call' = [call EXCEPT ![c].pc = pc, ![c].held = got]
        BY <4>1
      <4>3. PICK q : q = [call[c] EXCEPT !.pc = pc, !.held = got]
        OBVIOUS
      <4>4. call' = [call EXCEPT ![c] = q]
        BY <4>2, <4>3
      <4>5. r = q
        BY <2>1, <4>4 DEF TypeOK
      <4> QED BY <1>2, <4>2, <4>3, <4>4, <4>5 DEF Busy
    <3>2. CASE Poll(c)
      <4>1. PICK q : q = [call[c] EXCEPT !.pc = "read", !.miss = "follow"]
        OBVIOUS
      <4>2. call' = [call EXCEPT ![c] = q]
        BY <3>2, <4>1 DEF Poll
      <4>3. r = q
        BY <2>1, <4>2 DEF TypeOK
      <4> QED BY <1>2, <1>5, <4>1, <4>2, <4>3 DEF Busy
    <3>3. CASE StopFollowing(c)
      <4>1. PICK pc \in Pcs : pc = IF setting.followerFetch THEN "fetch" ELSE "read"
        BY <1>5
      <4>2. PICK q : q = [call[c] EXCEPT !.pc = pc, !.miss = "end"]
        OBVIOUS
      <4>3. call' = [call EXCEPT ![c] = q]
        BY <3>3, <4>1, <4>2 DEF StopFollowing
      <4>4. r = q
        BY <2>1, <4>3 DEF TypeOK
      <4> QED BY <1>2, <4>1, <4>2, <4>3, <4>4 DEF Busy
    <3>4. CASE FetchFails(c)
      <4>1. PICK q : q = [call[c] EXCEPT !.pc = "read", !.miss = "end"]
        OBVIOUS
      <4>2. call' = [call EXCEPT ![c] = q]
        BY <3>4, <4>1 DEF FetchFails
      <4>3. r = q
        BY <2>1, <4>2 DEF TypeOK
      <4> QED BY <1>2, <1>5, <4>1, <4>2, <4>3 DEF Busy
    <3>5. CASE TagRead(c)
      <4>1. PICK q : q = [call[c] EXCEPT !.pc = "tagSave", !.index = tagIndex]
        OBVIOUS
      <4>2. call' = [call EXCEPT ![c] = q] /\ tagIndex \in SUBSET Keys
        BY <3>5, <4>1 DEF TagRead, TypeOK
      <4>3. r = q
        BY <2>1, <4>2 DEF TypeOK
      <4> QED BY <1>2, <1>5, <4>1, <4>2, <4>3 DEF Busy
    <3> QED BY <1>8, <3>1, <3>2, <3>3, <3>4, <3>5
  <2>3. Plain(c)
    BY <1>2, <2>2, EditPlain DEF Same, Carries
  <2> QED BY <1>1, <1>2, <1>4, <2>3, PlainGentle DEF Tiers
<1> QED BY <1>6, <1>7, <1>8

(* The fetcher answers with the source as it is, which only grows.          *)
LEMMA FetchGentle ==
  ASSUME TypeOK, GoneInv, NEW c \in Slots, Fetch(c)
  PROVE  Gentle(c)
<1>1. call[c].pc = "fetch" /\ call[c] \in Busy /\ call[c].kind \notin Invalidations
  BY BusyCalls, Reading DEF Fetch, At, DropPcs
<1>2. PICK k \in Keys : k = call[c].key
  BY <1>1 DEF Busy
<1>3. PICK copy : copy = [ver |-> source[k], age |-> "fresh"]
  OBVIOUS
<1>4. copy \in MaybeCopy /\ copy.ver = source[k]
  BY <1>2, <1>3 DEF TypeOK, MaybeCopy, Copy, Ages
<1>5. PICK r : r = [call[c] EXCEPT !.pc = "store", !.copy = copy]
  OBVIOUS
<1>6. call' = [call EXCEPT ![c] = r]
  BY <1>2, <1>3, <1>5 DEF Fetch
<1>7. /\ r \in Busy /\ r.pc = "store" /\ r.kind = call[c].kind /\ r.node = call[c].node
      /\ r.key = k /\ r.scope = call[c].scope /\ r.seen = call[c].seen /\ r.copy = copy
  BY <1>1, <1>2, <1>4, <1>5 DEF Busy, Pcs
<1>8. Settled /\ l1' = l1 /\ l2' = l2
  BY DEF Fetch, Settled, histories
<1>9. copy.ver >= floor[k]
  BY <1>4 DEF GoneInv, Known, TypeOK
<1>10. Plain(c)
  BY <1>1, <1>2, <1>6, <1>7, <1>8, <1>9, EditPlain DEF Same, Settled
<1> QED BY <1>1, <1>8, <1>10, PlainGentle DEF Tiers

-----------------------------------------------------------------------------
(* The steps of a deletion.                                                 *)
LEMMA NothingToDropGentle ==
  ASSUME TypeOK, GoneInv, NEW c \in Slots, NothingToDrop(c)
  PROVE  Gentle(c)
<1>1. call[c].pc = "drop" /\ call[c] \in Busy /\ call[c].todo = {}
  BY BusyCalls DEF NothingToDrop, At
<1>2. Settled /\ l1' = l1 /\ l2' = l2
  BY DEF NothingToDrop, Settled, histories
<1>3. Tiers(c)
  BY <1>2 DEF Tiers
<1>4. CASE call[c].kind \in Invalidations
  <2>1. PICK pc \in {"tell", "dropTag"} : Go(c, pc)
    BY <1>4 DEF NothingToDrop, AfterDrops, Invalidations
  <2>2. pc \in Pcs /\ call[c].pc # "idle"
    BY <1>1 DEF Pcs
  <2>3. /\ Others(c) /\ call'[c].pc = pc
        /\ call'[c].node = call[c].node /\ call'[c].key = call[c].key
        /\ call'[c].scope = call[c].scope /\ call'[c].seen = call[c].seen
        /\ call'[c].kind = call[c].kind /\ call'[c].copy = call[c].copy
        /\ call'[c].todo = call[c].todo /\ call'[c].index = call[c].index
    BY <2>1, <2>2, GoSame
  <2>4. Sound(call'[c]) /\ CarriedAt(c)' /\ Same(call[c], call'[c])
    BY <1>1, <1>4, <2>1, <2>3 DEF Sound, CarriedAt, Carries, Same, DropPcs
  <2>5. ClearedAt(c)'
    BY <1>1, <1>2, <2>1, <2>3 DEF GoneInv, Cleared, ClearedAt, Settled
  <2> QED BY <1>2, <1>3, <2>3, <2>4, <2>5 DEF Gentle
<1>5. CASE call[c].kind \notin Invalidations
  <2>1. End(c) \/ Miss(c)
    BY <1>5 DEF NothingToDrop, AfterDrops, Invalidations
  <2>2. Plain(c)
    BY <1>1, <1>5, <2>1, EndPlain, MissPlain
  <2> QED BY <1>2, <1>3, <1>5, <2>2, PlainGentle
<1> QED BY <1>4, <1>5

(* Drop evicts the key before it asks the storage for it.                   *)
LEMMA DropGentle ==
  ASSUME TypeOK, GoneInv, NEW c \in Slots, NEW k \in Keys, Drop(c, k)
  PROVE  Gentle(c)
<1>1. call[c].pc = "drop" /\ call[c] \in Busy /\ k \in call[c].todo
  BY BusyCalls DEF Drop, At
<1>2. Settled /\ l2' = l2
  BY DEF Drop, Settled, histories
<1>3. PICK n \in Nodes : n = call[c].node
  BY <1>1 DEF Busy
<1>4. /\ \A m \in Nodes, o \in Keys : l1'[m][o] \in {l1[m][o], NoCopy}
      /\ l1'[n][k] = NoCopy
  BY <1>3, EvictTiers DEF Drop
<1>5. PICK gone \in BOOLEAN : gone = (l2[k] = NoCopy)
  OBVIOUS
<1>6. PICK r : r = [call[c] EXCEPT !.todo = IF gone THEN call[c].todo \ {k} ELSE call[c].todo,
                                   !.copy = NoCopy,
                                   !.index = IF gone THEN {} ELSE {k},
                                   !.pc = IF gone THEN "drop" ELSE "remove"]
  OBVIOUS
<1>7. call' = [call EXCEPT ![c] = r]
  BY <1>5, <1>6 DEF Drop
<1>8. /\ r \in Busy /\ r.pc \in {"drop", "remove"} /\ r.kind = call[c].kind
      /\ r.node = n /\ r.key = call[c].key /\ r.scope = call[c].scope
      /\ r.seen = call[c].seen
      /\ r.todo = IF gone THEN call[c].todo \ {k} ELSE call[c].todo
      /\ r.index = IF gone THEN {} ELSE {k}
  <2>1. NoCopy \in MaybeCopy /\ "drop" \in Pcs /\ "remove" \in Pcs
    BY DEF MaybeCopy, Pcs
  <2>2. CASE gone
    <3>1. r = [call[c] EXCEPT !.todo = call[c].todo \ {k}, !.copy = NoCopy,
                              !.index = {}, !.pc = "drop"]
      BY <1>6, <2>2
    <3> QED BY <1>1, <1>3, <2>1, <2>2, <3>1 DEF Busy
  <2>3. CASE ~gone
    <3>1. r = [call[c] EXCEPT !.todo = call[c].todo, !.copy = NoCopy,
                              !.index = {k}, !.pc = "remove"]
      BY <1>6, <2>3
    <3> QED BY <1>1, <1>3, <2>1, <2>3, <3>1 DEF Busy
  <2> QED BY <2>2, <2>3
<1>9. call'[c] = r /\ Others(c)
  BY <1>7, <1>8, Replaced
<1>10. Sound(r) /\ ~Carries(r) /\ Same(call[c], r)
  <2>1. Sound(call[c])
    BY DEF GoneInv, Sounds
  <2> QED BY <1>3, <1>8, <2>1 DEF Sound, Carries, Same, DropPcs
<1>11. ClearedAt(c)'
  <2>1. ClearedAt(c)
    BY DEF GoneInv, Cleared
  <2>2. ASSUME NEW o \in r.scope \ tainted
        PROVE  /\ o \in r.todo \/ l2[o] = NoCopy
               /\ r.kind = "delete" =>
                    \/ o \in r.todo /\ ~(r.pc = "remove" /\ o \in r.index)
                    \/ l1'[n][o] = NoCopy
    <3>1. CASE o = k
      BY <1>1, <1>4, <1>5, <1>8, <3>1
    <3>2. CASE o # k
      <4>1. /\ o \in call[c].todo \/ l2[o] = NoCopy
            /\ call[c].kind = "delete" => o \in call[c].todo \/ l1[n][o] = NoCopy
        BY <1>3, <1>8, <2>1, <2>2 DEF ClearedAt
      <4>2. o \in Keys
        BY <1>8, <2>2 DEF Busy
      <4>3. o \notin r.index /\ (o \in call[c].todo => o \in r.todo)
        BY <1>8, <3>2
      <4>4. l1'[n][o] \in {l1[n][o], NoCopy}
        BY <1>4, <4>2
      <4> QED BY <1>8, <4>1, <4>3, <4>4
    <3> QED BY <3>1, <3>2
  <2> QED BY <1>2, <1>8, <1>9, <2>2 DEF ClearedAt, Settled
<1>12. Tiers(c)
  BY <1>2, <1>4 DEF Tiers
<1> QED BY <1>2, <1>8, <1>9, <1>10, <1>11, <1>12 DEF Gentle, CarriedAt

(* Remove takes the keys it found out of L2.                                *)
LEMMA RemoveGentle ==
  ASSUME TypeOK, GoneInv, NEW c \in Slots, Remove(c)
  PROVE  Gentle(c)
<1>1. call[c].pc = "remove" /\ call[c] \in Busy
  BY BusyCalls DEF Remove, At
<1>2. Settled /\ l1' = l1
  BY DEF Remove, Settled, histories
<1>3. \A k \in Keys : l2'[k] = IF k \in call[c].index THEN NoCopy ELSE l2[k]
  BY DEF Remove
<1>4. PICK pc \in {"untagRead", "drop"} : pc = IF setting.tagged THEN "untagRead" ELSE "drop"
  OBVIOUS
<1>5. PICK r : r = [call[c] EXCEPT !.todo = call[c].todo \ call[c].index, !.pc = pc]
  OBVIOUS
<1>6. call' = [call EXCEPT ![c] = r]
  BY <1>4, <1>5 DEF Remove
<1>7. /\ r \in Busy /\ r.pc = pc /\ r.kind = call[c].kind
      /\ r.node = call[c].node /\ r.key = call[c].key /\ r.scope = call[c].scope
      /\ r.seen = call[c].seen /\ r.todo = call[c].todo \ call[c].index
  <2>1. pc \in Pcs
    BY DEF Pcs
  <2> QED BY <1>1, <1>5, <2>1 DEF Busy
<1>8. call'[c] = r /\ Others(c)
  BY <1>6, <1>7, Replaced
<1>9. Sound(r) /\ ~Carries(r) /\ Same(call[c], r)
  <2>1. Sound(call[c])
    BY DEF GoneInv, Sounds
  <2> QED BY <1>4, <1>7, <2>1 DEF Sound, Carries, Same, DropPcs
<1>10. ClearedAt(c)'
  <2>1. ClearedAt(c)
    BY DEF GoneInv, Cleared
  <2>2. ASSUME NEW o \in r.scope \ tainted
        PROVE  /\ o \in r.todo \/ l2'[o] = NoCopy
               /\ r.kind = "delete" => o \in r.todo \/ l1[r.node][o] = NoCopy
    <3>1. /\ o \in call[c].todo \/ l2[o] = NoCopy
          /\ call[c].kind = "delete" =>
               \/ o \in call[c].todo /\ o \notin call[c].index
               \/ l1[call[c].node][o] = NoCopy
      BY <1>1, <1>7, <2>1, <2>2 DEF ClearedAt
    <3>2. o \in Keys
      BY <1>7, <2>2 DEF Busy
    <3> QED BY <1>3, <1>7, <3>1, <3>2
  <2>3. r.pc # "remove"
    BY <1>4, <1>7
  <2> QED BY <1>2, <1>8, <2>2, <2>3 DEF ClearedAt, Settled
<1>11. Tiers(c)
  BY <1>2, <1>3 DEF Tiers
<1> QED BY <1>2, <1>7, <1>8, <1>9, <1>10, <1>11 DEF Gentle, CarriedAt

(* The steps on the index of the tag.                                       *)
LEMMA UntagGentle ==
  ASSUME TypeOK, GoneInv, NEW c \in Slots, UntagRead(c) \/ UntagSave(c) \/ DropTag(c)
  PROVE  Gentle(c)
<1>1. /\ call[c].pc \in {"untagRead", "untagSave", "dropTag"} /\ l1' = l1 /\ l2' = l2
      /\ Settled
  BY DEF UntagRead, UntagSave, DropTag, At, Settled, histories
<1>2. call[c] \in Busy /\ Sound(call[c])
  BY <1>1, BusyCalls DEF GoneInv, Sounds
<1>3. {"drop", "untagSave", "tell"} \subseteq Pcs
  BY DEF Pcs
<1>4. PICK r : r = call'[c]
  OBVIOUS
<1>5. /\ Others(c) /\ r.pc \in {"drop", "untagSave", "tell"}
      /\ r.node = call[c].node /\ r.key = call[c].key
      /\ r.scope = call[c].scope /\ r.seen = call[c].seen
      /\ r.kind = call[c].kind /\ r.todo = call[c].todo
      /\ r.pc = "tell" => call[c].pc = "dropTag" /\ call[c].kind # "tags"
  <2>1. CASE UntagRead(c)
    <3>1. PICK pc \in Pcs : pc = IF tagIndex = {} THEN "drop" ELSE "untagSave"
      BY <1>3
    <3>2. PICK q : q = [call[c] EXCEPT !.index = tagIndex \ call[c].index, !.pc = pc]
      OBVIOUS
    <3>3. call' = [call EXCEPT ![c] = q]
      BY <2>1, <3>1, <3>2 DEF UntagRead
    <3>4. /\ q \in Busy /\ q.pc = pc /\ q.node = call[c].node /\ q.key = call[c].key
          /\ q.scope = call[c].scope /\ q.seen = call[c].seen
          /\ q.kind = call[c].kind /\ q.todo = call[c].todo
      BY <1>2, <3>1, <3>2 DEF Busy, TypeOK
    <3>5. call'[c] = q /\ Others(c)
      BY <3>3, <3>4, Replaced
    <3> QED BY <1>4, <3>1, <3>4, <3>5
  <2>2. CASE UntagSave(c)
    <3>1. Go(c, "drop") /\ call[c].pc # "idle"
      BY <1>1, <2>2 DEF UntagSave
    <3> QED BY <1>3, <1>4, <3>1, GoSame
  <2>3. CASE DropTag(c)
    <3>1. PICK pc \in Pcs : pc = IF call[c].kind = "tags" THEN "drop" ELSE "tell"
      BY <1>3
    <3>2. Go(c, pc) /\ call[c].pc = "dropTag"
      BY <2>3, <3>1 DEF DropTag, At
    <3> QED BY <1>4, <3>1, <3>2, GoSame
  <2> QED BY <2>1, <2>2, <2>3
<1>6. Sound(r) /\ ~Carries(r) /\ Same(call[c], r)
  BY <1>2, <1>5 DEF Sound, Carries, Same, DropPcs
<1>7. ClearedAt(c)'
  <2>1. ClearedAt(c)
    BY DEF GoneInv, Cleared
  <2>2. r.pc # "remove" /\ call[c].pc # "remove"
    BY <1>1, <1>5
  <2> QED BY <1>1, <1>4, <1>5, <2>1, <2>2 DEF ClearedAt, Settled
<1> QED BY <1>1, <1>4, <1>5, <1>6, <1>7 DEF Gentle, CarriedAt, Tiers

(* Storage that fails: a read goes on as a miss, a write is given up, an    *)
(* invalidation throws and leaves no floor.                                 *)
LEMMA StorageFailsGentle ==
  ASSUME TypeOK, SettingOK, GoneInv, NEW c \in Slots, StorageFails(c)
  PROVE  Gentle(c)
<1>1. /\ call[c].pc # "idle" /\ l1' = l1 /\ l2' = l2
      /\ Miss(c) \/ Finish(c) \/ End(c)
      /\ call[c].kind \in Invalidations => End(c)
  <2>1. Sound(call[c])
    BY DEF GoneInv, Sounds
  <2> QED BY <2>1 DEF StorageFails, At, Sound, DropPcs
<1>2. Settled
  BY DEF StorageFails, Spend, Settled, SettingOK, histories
<1>3. Tiers(c)
  BY <1>1 DEF Tiers
<1>4. CASE call[c].kind \in Invalidations
  BY <1>1, <1>2, <1>3, <1>4, EndPlain DEF Gentle, Plain
<1>5. CASE call[c].kind \notin Invalidations
  <2>1. Plain(c)
    BY <1>1, <1>5, MissPlain, FinishPlain, EndPlain
  <2> QED BY <1>2, <1>3, <1>5, <2>1, PlainGentle
<1> QED BY <1>4, <1>5

-----------------------------------------------------------------------------
(* Steps that write no copy and begin no call: a copy stays, gets older or  *)
(* goes, a call goes on or is lost, a broadcast is delivered or counted     *)
(* against its keys.                                                        *)
Kept(new, old) == new # NoCopy => old # NoCopy /\ new.ver = old.ver
LEMMA ApartKeeps ==
  ASSUME TypeOK, TypeOK', SettingOK, GoneInv, floor' = floor, setting'.fleet = setting.fleet,
         \A d \in Slots : call'[d] \in {call[d], NoCall},
         \A k \in Keys : source[k] <= source'[k],
         tainted \subseteq tainted', listening' \subseteq setting.fleet,
         \A k \in Keys \ tainted' : Pending(k)' => Pending(k),
         \A n \in Nodes, k \in Keys : Kept(l1'[n][k], l1[n][k]),
         \A k \in Keys : Kept(l2'[k], l2[k]),
         \A k \in Keys \ tainted', n \in Nodes :
           (\E message \in inbox[n] : k \in message) =>
             (\E message \in inbox'[n] : k \in message) \/ l1'[n][k] = NoCopy
  PROVE  GoneInv'
<1>1. /\ listening \subseteq setting.fleet
      /\ Sounds /\ Known /\ Alone /\ Quiet /\ Cleared /\ Carried /\ Recent2 /\ Recent1
  BY DEF GoneInv
<1>2. ASSUME NEW d \in Slots PROVE call'[d] = call[d] \/ call'[d] = NoCall
  OBVIOUS
<1>3. ASSUME NEW d \in Slots, NEW k, Deals(call'[d], k) PROVE Deals(call[d], k)
  BY <1>2, <1>3, NoCallAloof
<1>4. Sounds'
  BY <1>1, <1>2, NoCallAloof DEF Sounds
<1>5. Known'
  <2>1. ASSUME NEW k \in Keys PROVE floor'[k] <= source'[k]
    BY <1>1 DEF Known, TypeOK
  <2>2. ASSUME NEW d \in Slots, NEW k \in Keys, call'[d].pc # "idle"
        PROVE  call'[d].seen[k] <= source'[k]
    <3>1. call'[d] = call[d] /\ call[d] \in Busy
      BY <1>2, <2>2, NoCallAloof, BusyCalls
    <3>2. call[d].seen[k] <= source[k] /\ call[d].seen[k] \in 0 .. MaxVersion
      BY <1>1, <2>2, <3>1 DEF Known, KnownAt, Busy
    <3> QED BY <3>1, <3>2 DEF TypeOK
  <2> QED BY <2>1, <2>2 DEF Known, KnownAt
<1>6. ASSUME NEW d \in Slots, NEW k \in call'[d].scope \ tainted'
      PROVE  k \in call[d].scope \ tainted /\ k \in Keys /\ call'[d] = call[d] /\ call[d] \in Busy
  <2>1. call'[d] = call[d]
    BY <1>2, <1>6, NoCallAloof
  <2>2. call[d].pc # "idle"
    BY <1>1, <1>6, <2>1 DEF Sounds, Sound, DropPcs
  <2>3. call[d] \in Busy
    BY <2>2, BusyCalls
  <2> QED BY <1>6, <2>1, <2>3 DEF Busy
<1>7. Alone'
  BY <1>1, <1>3, <1>6 DEF Alone
<1>8. Quiet'
  BY <1>1, <1>3 DEF Quiet
<1>9. Cleared'
  <2>1. ASSUME NEW d \in Slots, NEW k \in call'[d].scope \ tainted'
        PROVE  /\ k \in call'[d].todo \/ l2'[k] = NoCopy
               /\ call'[d].kind = "delete" =>
                    \/ k \in call'[d].todo /\ ~(call'[d].pc = "remove" /\ k \in call'[d].index)
                    \/ l1'[call'[d].node][k] = NoCopy
    <3>1. /\ k \in call[d].scope \ tainted /\ k \in Keys /\ call'[d] = call[d]
          /\ call[d].node \in Nodes
      BY <1>6, <2>1 DEF Busy
    <3>2. ClearedAt(d)
      BY <1>1 DEF Cleared
    <3>3. Kept(l2'[k], l2[k]) /\ Kept(l1'[call[d].node][k], l1[call[d].node][k])
      BY <3>1
    <3> QED BY <3>1, <3>2, <3>3 DEF ClearedAt, Kept
  <2> QED BY <2>1 DEF Cleared, ClearedAt
<1>10. Carried'
  <2>1. ASSUME NEW d \in Slots PROVE CarriedAt(d)'
    <3>1. CarriedAt(d)
      BY <1>1 DEF Carried
    <3> QED BY <1>2, <3>1, NoCallAloof DEF CarriedAt, Recent
  <2> QED BY <2>1 DEF Carried
<1>11. Recent2'
  <2>1. ASSUME NEW k \in Keys \ tainted' PROVE l2'[k] # NoCopy => l2'[k].ver >= floor[k]
    <3>1. Recent(l2[k], k)
      BY <1>1, <2>1 DEF Recent2
    <3>2. Kept(l2'[k], l2[k])
      OBVIOUS
    <3> QED BY <3>1, <3>2 DEF Recent, Kept
  <2> QED BY <2>1 DEF Recent2, Recent
<1>12. Recent1'
  <2>1. ASSUME NEW k \in Keys \ tainted', NEW n \in setting.fleet,
               ~\E message \in inbox'[n] : k \in message
        PROVE  l1'[n][k] # NoCopy => l1'[n][k].ver >= floor[k]
    <3>1. n \in Nodes
      BY DEF SettingOK
    <3>2. CASE l1'[n][k] = NoCopy
      BY <3>2
    <3>3. CASE l1'[n][k] # NoCopy
      <4>1. ~\E message \in inbox[n] : k \in message
        BY <2>1, <3>1, <3>3
      <4>2. Recent(l1[n][k], k)
        BY <1>1, <2>1, <4>1 DEF Recent1
      <4>3. Kept(l1'[n][k], l1[n][k])
        BY <3>1
      <4> QED BY <4>2, <4>3 DEF Recent, Kept
    <3> QED BY <3>2, <3>3
  <2> QED BY <2>1 DEF Recent1, Recent
<1> QED BY <1>4, <1>5, <1>7, <1>8, <1>9, <1>10, <1>11, <1>12 DEF GoneInv

(* The source moves on: what was recent is.                                 *)
LEMMA UpdateGone ==
  ASSUME TypeOK, TypeOK', SettingOK, GoneInv, NEW k \in Keys, Update(k)
  PROVE  GoneInv'
<1>1. \A o \in Keys : source[o] <= source'[o]
  BY DEF Update, TypeOK
<1> QED BY <1>1, ApartKeeps DEF Update, histories, Kept, Pending, GoneInv

(* A delivery takes the keys of its message out of the map.                 *)
LEMMA DeliverGone ==
  ASSUME TypeOK, TypeOK', SettingOK, GoneInv, NEW n \in Nodes, NEW keys \in inbox[n],
         Deliver(n, keys)
  PROVE  GoneInv'
<1>1. /\ \A m \in Nodes, k \in Keys : l1'[m][k] \in {l1[m][k], NoCopy}
      /\ \A k \in Keys : k \in keys => l1'[n][k] = NoCopy
  BY EvictTiers DEF Deliver
<1>2. \A m \in Nodes : inbox'[m] = IF m = n THEN inbox[n] \ {keys} ELSE inbox[m]
  BY DEF Deliver, TypeOK
<1>3. \A m \in Nodes, k \in Keys : Kept(l1'[m][k], l1[m][k])
  BY <1>1 DEF Kept
<1>4. \A k \in Keys : Pending(k)' => Pending(k)
  BY <1>2 DEF Pending
<1>5. \A k \in Keys, m \in Nodes :
        (\E message \in inbox[m] : k \in message) =>
          (\E message \in inbox'[m] : k \in message) \/ l1'[m][k] = NoCopy
  BY <1>1, <1>2
<1>6. \A k \in Keys : source[k] <= source'[k]
  BY DEF Deliver, TypeOK
<1> QED BY <1>3, <1>4, <1>5, <1>6, ApartKeeps DEF Deliver, histories, Kept, GoneInv

(* Copies that get older keep their version.                                *)
LEMMA OlderKept ==
  ASSUME NEW copy \in MaybeCopy, Live(copy), NEW age \in Ages
  PROVE  Kept([copy EXCEPT !.age = age], copy)
<1>1. copy \in Copy
  BY DEF Live, MaybeCopy, NoCopy
<1>2. copy # NoCopy
  BY DEF Live, NoCopy
<1> QED BY <1>1, <1>2 DEF Copy, Kept

(* Copies of either tier get older.                                         *)
LEMMA AgeGone ==
  ASSUME TypeOK, TypeOK', SettingOK, GoneInv,
         (\E n \in Nodes, k \in Keys : AgeL1(n, k)) \/ \E k \in Keys : AgeL2(k)
  PROVE  GoneInv'
<1>1. /\ \A n \in Nodes, k \in Keys : Kept(l1'[n][k], l1[n][k])
      /\ \A k \in Keys : Kept(l2'[k], l2[k])
  <2>1. ASSUME NEW n \in Nodes, NEW k \in Keys, AgeL1(n, k)
        PROVE  \A m \in Nodes, o \in Keys : Kept(l1'[m][o], l1[m][o])
    <3>1. PICK age \in Older(l1[n][k]) : l1' = [l1 EXCEPT ![n][k].age = age]
      BY <2>1 DEF AgeL1
    <3>2. age \in Ages /\ Live(l1[n][k]) /\ l1 \in [Nodes -> [Keys -> MaybeCopy]]
      BY <2>1, <3>1 DEF AgeL1, Older, Ages, TypeOK
    <3>3. PICK older : older = [l1[n][k] EXCEPT !.age = age]
      OBVIOUS
    <3>4. Kept(older, l1[n][k])
      BY <3>2, <3>3, OlderKept
    <3>5. l1' = [l1 EXCEPT ![n][k] = older]
      BY <3>1, <3>3
    <3> QED BY <3>2, <3>4, <3>5 DEF Kept
  <2>2. ASSUME NEW k \in Keys, AgeL2(k)
        PROVE  \A o \in Keys : Kept(l2'[o], l2[o])
    <3>1. PICK age \in Older(l2[k]) : l2' = [l2 EXCEPT ![k].age = age]
      BY <2>2 DEF AgeL2
    <3>2. age \in Ages /\ Live(l2[k]) /\ l2 \in [Keys -> MaybeCopy]
      BY <2>2, <3>1 DEF AgeL2, Older, Ages, TypeOK
    <3>3. PICK older : older = [l2[k] EXCEPT !.age = age]
      OBVIOUS
    <3>4. Kept(older, l2[k])
      BY <3>2, <3>3, OlderKept
    <3>5. l2' = [l2 EXCEPT ![k] = older]
      BY <3>1, <3>3
    <3> QED BY <3>2, <3>4, <3>5 DEF Kept
  <2>3. (\E n \in Nodes, k \in Keys : AgeL1(n, k)) => l2' = l2
    BY DEF AgeL1
  <2>4. (\E k \in Keys : AgeL2(k)) => l1' = l1
    BY DEF AgeL2
  <2> QED BY <2>1, <2>2, <2>3, <2>4 DEF Kept
<1>2. /\ source' = source /\ floor' = floor /\ tainted' = tainted /\ inbox' = inbox
      /\ listening' = listening /\ call' = call /\ setting'.fleet = setting.fleet
  BY DEF AgeL1, AgeL2, Spend, SettingOK, histories
<1>3. \A k \in Keys : source[k] <= source'[k]
  BY <1>2 DEF TypeOK
<1> QED BY <1>1, <1>2, <1>3, ApartKeeps DEF Pending, GoneInv

(* Locks, circuits and subscriptions.  Mail that is thrown away is counted  *)
(* against its keys.                                                        *)
LEMMA OtherFaultsGone ==
  ASSUME TypeOK, TypeOK', SettingOK, GoneInv,
         \/ \E n \in Nodes : CircuitCloses(n) \/ StopListening(n) \/ StartListening(n)
         \/ \E k \in Keys : FetchLockExpires(k)
  PROVE  GoneInv'
<1>1. /\ source' = source /\ floor' = floor /\ l1' = l1 /\ l2' = l2 /\ call' = call
      /\ setting'.fleet = setting.fleet
  BY DEF CircuitCloses, StopListening, StartListening, FetchLockExpires, Spend, SettingOK,
     histories
<1>2. listening' \subseteq setting.fleet /\ tainted \subseteq tainted'
  BY DEF CircuitCloses, StopListening, StartListening, FetchLockExpires, histories, GoneInv
<1>3. \A k \in Keys \ tainted', n \in Nodes : 
        (\E message \in inbox[n] : k \in message) <=> \E message \in inbox'[n] : k \in message
  <2>1. CASE inbox' = inbox
    BY <2>1
  <2>2. ASSUME NEW n \in Nodes, StopListening(n)
        PROVE  \A k \in Keys \ tainted', m \in Nodes : 
                 (\E message \in inbox[m] : k \in message) <=>
                   \E message \in inbox'[m] : k \in message
    <3>1. /\ tainted' = tainted \cup UNION inbox[n]
          /\ \A m \in Nodes : inbox'[m] = IF m = n THEN {} ELSE inbox[m]
      BY <2>2 DEF StopListening, TypeOK
    <3> QED BY <3>1
  <2>3. inbox' = inbox \/ \E n \in Nodes : StopListening(n)
    BY DEF CircuitCloses, StartListening, FetchLockExpires
  <2> QED BY <2>1, <2>2, <2>3
<1>4. \A k \in Keys \ tainted' : Pending(k)' => Pending(k)
  BY <1>3 DEF Pending
<1>5. \A k \in Keys : source[k] <= source'[k]
  BY <1>1 DEF TypeOK
<1>6. /\ \A n \in Nodes, k \in Keys : Kept(l1'[n][k], l1[n][k])
      /\ \A k \in Keys : Kept(l2'[k], l2[k])
      /\ \A d \in Slots : call'[d] \in {call[d], NoCall}
  BY <1>1 DEF Kept
<1> QED BY <1>1, <1>2, <1>3, <1>4, <1>5, <1>6, ApartKeeps

(* A process that crashes loses its map, its mail and its calls.            *)
LEMMA CrashGone ==
  ASSUME TypeOK, TypeOK', SettingOK, GoneInv, NEW n \in Nodes, Crash(n)
  PROVE  GoneInv'
<1>1. /\ source' = source /\ floor' = floor /\ l2' = l2 /\ tainted' = tainted
      /\ setting'.fleet = setting.fleet /\ listening' \subseteq setting.fleet
  BY DEF Crash, Spend, SettingOK, histories, GoneInv
<1>2. /\ \A m \in Nodes, k \in Keys : l1'[m][k] = IF m = n THEN NoCopy ELSE l1[m][k]
      /\ \A m \in Nodes : inbox'[m] = IF m = n THEN {} ELSE inbox[m]
  BY DEF Crash, TypeOK
<1>3. \A d \in Slots : call'[d] \in {call[d], NoCall}
  BY DEF Crash
<1>4. \A m \in Nodes, k \in Keys : Kept(l1'[m][k], l1[m][k])
  BY <1>2 DEF Kept
<1>5. \A k \in Keys : Pending(k)' => Pending(k)
  BY <1>2 DEF Pending
<1>6. \A k \in Keys : source[k] <= source'[k] /\ Kept(l2'[k], l2[k])
  BY <1>1 DEF TypeOK, Kept
<1>7. \A k \in Keys, m \in Nodes :
        (\E message \in inbox[m] : k \in message) =>
          (\E message \in inbox'[m] : k \in message) \/ l1'[m][k] = NoCopy
  BY <1>2
<1> QED BY <1>1, <1>3, <1>4, <1>5, <1>6, <1>7, ApartKeeps

-----------------------------------------------------------------------------
(* A call begins: an invalidation none overlaps starts afresh with its      *)
(* keys, any other call that meets one spoils the key.                      *)
LEMMA BeginGone ==
  ASSUME TypeOK, SettingOK, GoneInv, Assumption, NEW c \in Slots, NEW n \in Nodes,
         NEW k \in Keys, NEW kind \in Kinds, Begin(c, n, k, kind)
  PROVE  GoneInv'
<1>1. /\ listening \subseteq setting.fleet
      /\ Sounds /\ Known /\ Alone /\ Quiet /\ Cleared /\ Carried /\ Recent2 /\ Recent1
  BY DEF GoneInv
<1>2. PICK r \in Busy : call' = [call EXCEPT ![c] = r] /\ Begun(r, n, k, kind)
  BY BeginRecord
<1>3. call'[c] = r /\ \A d \in Slots \ {c} : call'[d] = call[d]
  BY <1>2, Replaced DEF Others
<1>4. /\ source' = source /\ l2' = l2 /\ inbox' = inbox /\ listening' = listening
      /\ setting'.fleet = setting.fleet
      /\ tainted' = (tainted \ Scope(kind, k)) \cup Disturbed(kind, k)
      /\ \A o \in Keys : floor'[o] = IF o \in Scope(kind, k) THEN 0 ELSE floor[o]
  BY DEF Begin, SettingOK
<1>5. \A m \in Nodes, o \in Keys : l1'[m][o] \in {l1[m][o], NoCopy}
  BY EvictTiers DEF Begin
<1>6. \A d \in Slots, o \in Keys :
        Deals(call[d], o) \/ o \in call[d].scope => Touches(d, o)
  BY <1>1 DEF Touches, At, Deals, Sounds, Sound, DropPcs
<1>7. ASSUME NEW o \in Keys \ tainted', o \in Scope(kind, k) \/ Deals(r, o)
      PROVE  ~Pending(o) /\ \A d \in Slots : ~Touches(d, o)
  <2>1. CASE kind \in Invalidations
    BY <1>2, <1>4, <1>7, <2>1 DEF Begun, Disturbed, Deals
  <2>2. CASE kind \notin Invalidations
    <3>1. Scope(kind, k) = {}
      BY <2>2 DEF Scope, Invalidations
    <3>2. o = k
      BY <1>2, <1>7, <3>1 DEF Begun, Deals
    <3> QED BY <1>4, <2>2, <3>2 DEF Disturbed
  <2> QED BY <2>1, <2>2
<1>8. \A o \in Keys \ tainted' : o \notin Scope(kind, k) => o \notin tainted
  BY <1>4
<1>9. \A o : Pending(o)' = Pending(o)
  BY <1>4 DEF Pending
<1>10. Sounds'
  <2>1. Sound(r)
    <3>1. CASE kind \in Invalidations
      <4>1. r.kind = kind /\ r.pc \in {"drop", "dropTag"} /\ (r.pc = "dropTag" => kind = "tags")
        BY <1>2, <3>1 DEF Begun, FirstPc, Invalidations
      <4> QED BY <3>1, <4>1 DEF Sound, DropPcs
    <3>2. CASE kind \notin Invalidations
      <4>1. Scope(kind, k) = {} /\ FirstPc(kind) # "dropTag"
        BY <3>2 DEF Scope, Invalidations, FirstPc, Kinds
      <4> QED BY <1>2, <3>2, <4>1 DEF Begun, Sound
    <3> QED BY <3>1, <3>2
  <2> QED BY <1>1, <1>3, <2>1 DEF Sounds
<1>11. Known'
  <2>1. ASSUME NEW o \in Keys PROVE floor'[o] <= source[o]
    <3>1. source[o] \in Nat /\ floor[o] <= source[o]
      BY <1>1 DEF Known, TypeOK
    <3>2. floor'[o] = 0 \/ floor'[o] = floor[o]
      BY <1>4
    <3> QED BY <3>1, <3>2
  <2>2. ASSUME NEW d \in Slots PROVE KnownAt(d)'
    <3>1. CASE d = c
      BY <1>2, <1>3, <1>4, <3>1 DEF Begun, KnownAt, TypeOK
    <3>2. CASE d # c
      BY <1>1, <1>3, <1>4, <3>2 DEF Known, KnownAt
    <3> QED BY <3>1, <3>2
  <2> QED BY <1>4, <2>1, <2>2 DEF Known
<1>12. ASSUME NEW d \in Slots, NEW o \in call'[d].scope \ tainted'
       PROVE  o \in Keys
  <2>1. CASE d = c
    BY <1>2, <1>3, <1>12, <2>1 DEF Begun, Busy
  <2>2. CASE d # c
    <3>1. call[d].pc # "idle"
      BY <1>1, <1>3, <1>12, <2>2 DEF Sounds, Sound, DropPcs
    <3> QED BY <1>3, <1>12, <2>2, <3>1, BusyCalls DEF Busy
  <2> QED BY <2>1, <2>2
<1>13. Alone'
  <2>1. ASSUME NEW d \in Slots, NEW o \in call'[d].scope \ tainted'
        PROVE  ~Pending(o) /\ \A e \in Slots \ {d} : ~Deals(call'[e], o)
    <3>1. CASE d = c
      BY <1>2, <1>3, <1>6, <1>7, <1>12, <2>1, <3>1 DEF Begun
    <3>2. CASE d # c
      <4>1. o \in call[d].scope /\ Touches(d, o) /\ o \in Keys
        BY <1>3, <1>6, <1>12, <2>1, <3>2
      <4>2. o \notin Scope(kind, k) /\ ~Deals(r, o)
        BY <1>7, <2>1, <4>1
      <4>3. o \notin tainted
        BY <1>8, <2>1, <4>1, <4>2
      <4> QED BY <1>1, <1>3, <4>1, <4>2, <4>3 DEF Alone
    <3> QED BY <3>1, <3>2
  <2> QED BY <1>9, <2>1 DEF Alone
<1>14. Quiet'
  <2>1. ASSUME NEW o \in Keys \ tainted', Pending(o), NEW d \in Slots
        PROVE  ~Deals(call'[d], o)
    <3>1. o \notin Scope(kind, k) /\ ~Deals(r, o)
      BY <1>7, <2>1
    <3>2. o \notin tainted
      BY <1>8, <3>1
    <3> QED BY <1>1, <1>3, <2>1, <3>1, <3>2 DEF Quiet
  <2> QED BY <1>4, <1>9, <2>1 DEF Quiet
<1>15. Cleared'
  <2>1. ASSUME NEW d \in Slots, NEW o \in call'[d].scope \ tainted'
        PROVE  /\ o \in call'[d].todo \/ l2[o] = NoCopy
               /\ call'[d].kind = "delete" =>
                    \/ o \in call'[d].todo /\ ~(call'[d].pc = "remove" /\ o \in call'[d].index)
                    \/ l1'[call'[d].node][o] = NoCopy
    <3>1. CASE d = c
      BY <1>2, <1>3, <1>12, <2>1, <3>1 DEF Begun, Scope, Due, Present
    <3>2. CASE d # c
      <4>1. o \in call[d].scope /\ Touches(d, o) /\ o \in Keys /\ call'[d] = call[d]
        BY <1>3, <1>6, <1>12, <2>1, <3>2
      <4>2. o \notin tainted
        BY <1>7, <1>8, <2>1, <4>1
      <4>3. ClearedAt(d) /\ call[d].node \in Nodes
        <5>1. call[d].pc # "idle"
          BY <4>1 DEF Touches, At
        <5> QED BY <1>1, <5>1, BusyCalls DEF Cleared, Busy
      <4>4. l1'[call[d].node][o] \in {l1[call[d].node][o], NoCopy}
        BY <1>5, <4>1, <4>3
      <4> QED BY <4>1, <4>2, <4>3, <4>4 DEF ClearedAt
    <3> QED BY <3>1, <3>2
  <2> QED BY <1>4, <2>1 DEF Cleared, ClearedAt
<1>16. ASSUME NEW copy \in MaybeCopy, NEW o \in Keys \ tainted',
              o \notin tainted => Recent(copy, o)
       PROVE  copy # NoCopy => copy.ver >= floor'[o]
  <2>1. CASE o \in Scope(kind, k)
    <3>1. floor'[o] = 0
      BY <1>4, <2>1
    <3> QED BY <3>1 DEF MaybeCopy, Copy, Assumption
  <2>2. CASE o \notin Scope(kind, k)
    BY <1>4, <1>8, <1>16, <2>2 DEF Recent
  <2> QED BY <2>1, <2>2
<1>17. Carried'
  <2>1. ASSUME NEW d \in Slots, Carries(call'[d]), call'[d].key \notin tainted'
        PROVE  call'[d].copy # NoCopy => call'[d].copy.ver >= floor'[call'[d].key]
    <3>1. CASE d = c
      <4>1. r.copy \in MaybeCopy /\ Recent(r.copy, k)
        BY <1>1, <1>2 DEF Begun, Busy, Recent, Known, TypeOK
      <4> QED BY <1>2, <1>3, <1>16, <2>1, <3>1, <4>1 DEF Begun
    <3>2. CASE d # c
      <4>1. call'[d] = call[d] /\ call[d].pc # "idle"
        BY <1>3, <2>1, <3>2 DEF Carries
      <4>2. call[d].copy \in MaybeCopy /\ call[d].key \in Keys
        BY <4>1, BusyCalls DEF Busy
      <4>3. CarriedAt(d)
        BY <1>1 DEF Carried
      <4>4. call[d].key \notin tainted => Recent(call[d].copy, call[d].key)
        BY <2>1, <4>1, <4>3 DEF CarriedAt
      <4> QED BY <1>16, <2>1, <4>1, <4>2, <4>4
    <3> QED BY <3>1, <3>2
  <2> QED BY <2>1 DEF Carried, CarriedAt, Recent
<1>18. Recent2'
  <2>1. ASSUME NEW o \in Keys \ tainted'
        PROVE  l2[o] # NoCopy => l2[o].ver >= floor'[o]
    <3>1. l2[o] \in MaybeCopy /\ (o \notin tainted => Recent(l2[o], o))
      BY <1>1 DEF TypeOK, Recent2
    <3> QED BY <1>16, <3>1
  <2> QED BY <1>4, <2>1 DEF Recent2, Recent
<1>19. Recent1'
  <2>1. ASSUME NEW o \in Keys \ tainted', NEW m \in setting.fleet,
               ~\E message \in inbox[m] : o \in message
        PROVE  l1'[m][o] # NoCopy => l1'[m][o].ver >= floor'[o]
    <3>1. m \in Nodes /\ l1[m][o] \in MaybeCopy
      BY DEF SettingOK, TypeOK
    <3>2. o \notin tainted => Recent(l1[m][o], o)
      BY <1>1, <2>1 DEF Recent1
    <3>3. l1[m][o] # NoCopy => l1[m][o].ver >= floor'[o]
      BY <1>16, <3>1, <3>2
    <3> QED BY <1>5, <3>1, <3>3
  <2> QED BY <1>4, <2>1 DEF Recent1, Recent
<1> QED BY <1>1, <1>4, <1>10, <1>11, <1>13, <1>14, <1>15, <1>17, <1>18, <1>19 DEF GoneInv

(* The broadcast: the keys are out of L2 and of the map of the process, and *)
(* a message for every other map is on its way.                             *)
LEMMA TellGone ==
  ASSUME TypeOK, SettingOK, GoneInv, NEW c \in Slots, Tell(c)
  PROVE  GoneInv'
<1>1. /\ listening \subseteq setting.fleet
      /\ Sounds /\ Known /\ Alone /\ Quiet /\ Cleared /\ Carried /\ Recent2 /\ Recent1
  BY DEF GoneInv
<1>2. call[c].pc = "tell" /\ call[c] \in Busy /\ call[c].todo = {}
  BY <1>1, BusyCalls DEF Tell, At, Sounds, Sound
<1>3. PICK n \in Nodes : n = call[c].node
  BY <1>2 DEF Busy
<1>4. PICK keys \in SUBSET Keys : keys = call[c].scope
  BY <1>2 DEF Busy
<1>5. call'[c] = NoCall /\ \A d \in Slots \ {c} : call'[d] = call[d]
  BY <1>2, EndEnds DEF Tell, Ends, Others
<1>6. /\ source' = source /\ l2' = l2 /\ listening' = listening
      /\ setting' = setting /\ tainted \subseteq tainted'
      /\ (setting.fleet \ {n} \subseteq listening \/ keys \subseteq tainted')
      /\ \A m \in Nodes : inbox'[m] = IF m \in (setting.fleet \ {n}) \cap listening
                                      THEN inbox[m] \cup {keys} ELSE inbox[m]
      /\ \A o \in Keys : floor'[o] = IF o \in keys THEN call[c].seen[o] ELSE floor[o]
  BY <1>3, <1>4 DEF Tell
<1>7. /\ \A m \in Nodes, o \in Keys : l1'[m][o] \in {l1[m][o], NoCopy}
      /\ call[c].kind # "delete" => \A o \in Keys : o \in keys => l1'[n][o] = NoCopy
  BY <1>3, <1>4, EvictTiers DEF Tell
<1>8. ASSUME NEW o \in keys \ tainted'
      PROVE  /\ l2[o] = NoCopy /\ l1'[n][o] = NoCopy
             /\ \A d \in Slots \ {c} : ~Deals(call[d], o)
  <2>1. o \in call[c].scope \ tainted
    BY <1>4, <1>6, <1>8
  <2>2. ClearedAt(c)
    BY <1>1 DEF Cleared
  <2>3. l2[o] = NoCopy /\ (call[c].kind = "delete" => l1[n][o] = NoCopy)
    BY <1>2, <1>3, <2>1, <2>2 DEF ClearedAt
  <2> QED BY <1>1, <1>7, <2>1, <2>3 DEF Alone
<1>9. ASSUME NEW d \in Slots, NEW o \in call'[d].scope \ tainted'
      PROVE  /\ d # c /\ call'[d] = call[d] /\ o \in call[d].scope \ tainted
             /\ o \notin keys /\ o \in Keys /\ call[d] \in Busy
  <2>1. d # c /\ call'[d] = call[d]
    BY <1>5, <1>9, NoCallAloof
  <2>2. call[d].pc # "idle"
    BY <1>1, <1>9, <2>1 DEF Sounds, Sound, DropPcs
  <2>3. Deals(call[d], o)
    BY <1>9, <2>1, <2>2 DEF Deals
  <2> QED BY <1>6, <1>8, <1>9, <2>1, <2>2, <2>3, BusyCalls DEF Busy
<1>10. ASSUME NEW o \in Keys, o \notin keys PROVE Pending(o)' => Pending(o)
  BY <1>6, <1>10 DEF Pending
<1>11. Sounds'
  BY <1>1, <1>5, NoCallAloof DEF Sounds
<1>12. Known'
  <2>1. ASSUME NEW o \in Keys PROVE floor'[o] <= source[o]
    BY <1>1, <1>2, <1>6 DEF Known, KnownAt
  <2>2. ASSUME NEW d \in Slots PROVE KnownAt(d)'
    BY <1>1, <1>5, <1>6, NoCallAloof DEF Known, KnownAt
  <2> QED BY <1>6, <2>1, <2>2 DEF Known
<1>13. Alone'
  <2>1. ASSUME NEW d \in Slots, NEW o \in call'[d].scope \ tainted'
        PROVE  ~Pending(o)' /\ \A e \in Slots \ {d} : ~Deals(call'[e], o)
    <3>1. ~Pending(o) /\ \A e \in Slots \ {d} : ~Deals(call[e], o)
      BY <1>1, <1>9, <2>1 DEF Alone
    <3>2. ~Pending(o)'
      BY <1>9, <1>10, <2>1, <3>1
    <3> QED BY <1>5, <3>1, <3>2, NoCallAloof
  <2> QED BY <2>1 DEF Alone
<1>14. Quiet'
  <2>1. ASSUME NEW o \in Keys \ tainted', Pending(o)', NEW d \in Slots
        PROVE  ~Deals(call'[d], o)
    <3>1. CASE d = c
      BY <1>5, <3>1, NoCallAloof
    <3>2. CASE d # c /\ o \in keys
      BY <1>5, <1>8, <3>2
    <3>3. CASE d # c /\ o \notin keys
      BY <1>1, <1>5, <1>6, <1>10, <2>1, <3>3 DEF Quiet
    <3> QED BY <3>1, <3>2, <3>3
  <2> QED BY <2>1 DEF Quiet
<1>15. Cleared'
  <2>1. ASSUME NEW d \in Slots, NEW o \in call'[d].scope \ tainted'
        PROVE  /\ o \in call'[d].todo \/ l2[o] = NoCopy
               /\ call'[d].kind = "delete" =>
                    \/ o \in call'[d].todo /\ ~(call'[d].pc = "remove" /\ o \in call'[d].index)
                    \/ l1'[call'[d].node][o] = NoCopy
    <3>1. /\ call'[d] = call[d] /\ o \in call[d].scope \ tainted /\ o \in Keys
          /\ call[d].node \in Nodes
      BY <1>9, <2>1 DEF Busy
    <3>2. ClearedAt(d)
      BY <1>1 DEF Cleared
    <3>3. l1'[call[d].node][o] \in {l1[call[d].node][o], NoCopy}
      BY <1>7, <3>1
    <3> QED BY <3>1, <3>2, <3>3 DEF ClearedAt
  <2> QED BY <1>6, <2>1 DEF Cleared, ClearedAt
<1>16. Carried'
  <2>1. ASSUME NEW d \in Slots, Carries(call'[d]), call'[d].key \notin tainted'
        PROVE  call'[d].copy # NoCopy => call'[d].copy.ver >= floor'[call'[d].key]
    <3>1. d # c /\ call'[d] = call[d]
      BY <1>5, <2>1, NoCallAloof
    <3>2. call[d].kind \notin Invalidations /\ call[d].pc # "idle"
      BY <2>1, <3>1, Reading DEF Carries, DropPcs
    <3>3. Deals(call[d], call[d].key) /\ call[d].key \in Keys
      BY <3>2, BusyCalls DEF Deals, Busy
    <3>4. call[d].key \notin keys
      BY <1>8, <2>1, <3>1, <3>3
    <3>5. CarriedAt(d)
      BY <1>1 DEF Carried
    <3> QED BY <1>6, <2>1, <3>1, <3>3, <3>4, <3>5 DEF CarriedAt, Recent
  <2> QED BY <2>1 DEF Carried, CarriedAt, Recent
<1>17. Recent2'
  <2>1. ASSUME NEW o \in Keys \ tainted'
        PROVE  l2[o] # NoCopy => l2[o].ver >= floor'[o]
    BY <1>1, <1>6, <1>8 DEF Recent2, Recent
  <2> QED BY <1>6, <2>1 DEF Recent2, Recent
<1>18. Recent1'
  <2>1. ASSUME NEW o \in Keys \ tainted', NEW m \in setting.fleet,
               ~\E message \in inbox'[m] : o \in message
        PROVE  l1'[m][o] # NoCopy => l1'[m][o].ver >= floor'[o]
    <3>1. m \in Nodes
      BY DEF SettingOK
    <3>2. CASE o \in keys
      <4>1. m = n
        BY <1>6, <2>1, <3>1, <3>2
      <4> QED BY <1>8, <2>1, <3>2, <4>1
    <3>3. CASE o \notin keys
      <4>1. ~\E message \in inbox[m] : o \in message
        BY <1>6, <2>1, <3>1
      <4>2. Recent(l1[m][o], o)
        BY <1>1, <1>6, <2>1, <4>1 DEF Recent1
      <4> QED BY <1>6, <1>7, <3>1, <3>3, <4>2 DEF Recent
    <3> QED BY <3>2, <3>3
  <2> QED BY <1>6, <2>1 DEF Recent1, Recent
<1> QED BY <1>1, <1>6, <1>11, <1>12, <1>13, <1>14, <1>15, <1>16, <1>17, <1>18 DEF GoneInv

-----------------------------------------------------------------------------
(* Every step keeps it.                                                     *)
LEMMA StepGone ==
  ASSUME TypeOK, SettingOK, GoneInv, NEW c \in Slots, Step(c)
  PROVE  GoneInv'
<1>1. call[c].pc # "idle"
  BY DEF Step, ReadL1, ReadL2, Fill, Fly, Lock, Poll, StopFollowing, Fetch, Release, Store,
         Save, TagRead, TagSave, NothingToDrop, Drop, Remove, UntagRead, UntagSave,
         DropTag, Tell, At
<1>2. CASE Tell(c)
  BY <1>2, TellGone
<1>3. CASE ~Tell(c)
  <2>1. CASE ReadL1(c) \/ ReadL2(c) \/ Fill(c) \/ Fetch(c) \/ Store(c) \/ Save(c)
    BY <2>1, ReadL1Gentle, ReadL2Gentle, FillGentle, FetchGentle, StoreGentle, SaveGentle,
       <1>1, GentleKeeps
  <2>2. CASE Fly(c) \/ Lock(c) \/ Poll(c) \/ StopFollowing(c) \/ Release(c) \/ TagRead(c)
               \/ TagSave(c)
    BY <2>2, OtherReadsGentle, <1>1, GentleKeeps
  <2>3. CASE NothingToDrop(c) \/ (\E k \in Keys : Drop(c, k)) \/ Remove(c) \/ UntagRead(c)
               \/ UntagSave(c) \/ DropTag(c)
    BY <2>3, NothingToDropGentle, DropGentle, RemoveGentle, UntagGentle, <1>1, GentleKeeps
  <2> QED BY <1>3, <2>1, <2>2, <2>3 DEF Step
<1> QED BY <1>2, <1>3

(* So do the faults.                                                        *)
LEMMA FaultGone ==
  ASSUME TypeOK, TypeOK', SettingOK, GoneInv, FaultStep
  PROVE  GoneInv'
<1>1. ASSUME NEW c \in Slots, FetchFails(c) \/ StorageFails(c) PROVE GoneInv'
  <2>1. call[c].pc # "idle"
    BY <1>1 DEF FetchFails, StorageFails, At
  <2> QED BY <1>1, <2>1, OtherReadsGentle, StorageFailsGentle, GentleKeeps
<1> QED BY <1>1, CrashGone, AgeGone, OtherFaultsGone DEF FaultStep

(* Once an invalidation nothing overlapped is over and delivered, no tier   *)
(* of any process that listens holds what was read before it.               *)
LEMMA GoneInductive == ASSUME Assumption PROVE Spec => []GoneInv
<1>1. ASSUME Init PROVE GoneInv
  <2>1. /\ listening = setting.fleet /\ tainted = {}
        /\ \A c \in Slots : call[c] = NoCall
        /\ \A k \in Keys : l2[k] = NoCopy /\ floor[k] = 0 /\ source[k] = 0
        /\ \A n \in Nodes : inbox[n] = {} /\ \A k \in Keys : l1[n][k] = NoCopy
    BY <1>1 DEF Init, InitWith
  <2>2. setting.fleet \subseteq Nodes
    BY <1>1 DEF Init, InitWith, Assumption
  <2>3. Sounds /\ Known /\ Alone /\ Cleared /\ Carried
    BY <2>1, NoCallAloof DEF Sounds, Known, KnownAt, Alone, Cleared, ClearedAt, Carried, CarriedAt
  <2>4. Quiet /\ Recent2 /\ Recent1
    BY <2>1, <2>2 DEF Quiet, Pending, Recent2, Recent1, Recent
  <2> QED BY <2>1, <2>3, <2>4 DEF GoneInv
<1>2. ASSUME CacheInv, CacheInv', GoneInv, [Next]_vars PROVE GoneInv'
  <2>1. TypeOK /\ TypeOK' /\ SettingOK
    BY <1>2 DEF CacheInv
  <2>2. CASE UNCHANGED vars
    BY <1>2, <2>2 DEF vars, GoneInv, Sounds, Known, KnownAt, Alone, Quiet, Cleared, ClearedAt,
       Carried, CarriedAt, Recent2, Recent1, Recent, Pending
  <2>3. CASE Next
    BY <1>2, <2>1, <2>3, BeginGone, UpdateGone, StepGone, DeliverGone, FaultGone DEF Next
  <2> QED BY <1>2, <2>2, <2>3
<1> QED BY <1>1, <1>2, CacheInductive, PTL DEF Spec

(* Once an invalidation of a key is over and its broadcast delivered, no    *)
(* tier of no process holds what was read from the source before it, unless *)
(* another call on the key overlapped it or a process did not listen.       *)
THEOREM WhatIsInvalidatedStaysGone ==
  ASSUME Assumption PROVE Spec => []InvalidatedStaysGone
<1>1. ASSUME CacheInv, GoneInv PROVE InvalidatedStaysGone
  <2>1. ASSUME NEW k \in Keys, k \notin tainted, ~Pending(k)
        PROVE  /\ l2[k] # NoCopy => l2[k].ver >= floor[k]
               /\ \A n \in listening : l1[n][k] # NoCopy => l1[n][k].ver >= floor[k]
    <3>1. Recent(l2[k], k)
      BY <1>1, <2>1 DEF GoneInv, Recent2
    <3>2. ASSUME NEW n \in listening PROVE Recent(l1[n][k], k)
      <4>1. n \in setting.fleet /\ n \in Nodes
        BY <1>1 DEF GoneInv, CacheInv, TypeOK
      <4> QED BY <1>1, <2>1, <4>1 DEF GoneInv, Recent1, Pending
    <3> QED BY <3>1, <3>2 DEF Recent
  <2> QED BY <2>1 DEF InvalidatedStaysGone
<1> QED BY <1>1, CacheInductive, GoneInductive, PTL
=============================================================================
