--------------------------- MODULE Services_proofs ---------------------------
(***************************************************************************)
(* What is proved of a part alone holds of it beside the other ten: a step *)
(* of the services is a step of one part or leaves that part as it was.    *)
(***************************************************************************)
EXTENDS Services, TLAPS

(* Which part is at work is settled by the initial state: no step of any    *)
(* part changes it.                                                         *)
LEMMA ServiceStays ==
  ASSUME [Next]_vars
  PROVE  service' = service
  BY DEF Next, vars, CacheStep, LimitStep, HookStep, TopicStep,
      BrokerStep, FlowStep, KitStep, StoreStep, ApiStep, SeenStep, BoxStep

(* Cache: one fetcher per key and process (cache-engine.ts),                *)
(* in the run of the services: the part's own theorem, which holds for      *)
(* every value of its constants, at the values Services gives them.         *)
THEOREM CacheFetchersAreSingle == Spec => []FetchOnce
  <1> DEFINE Here == service = "cache"
  <1>1. Init /\ Here => C!Init
    BY DEF Init, C!Init
  <1>2. [Next]_vars => [C!Next]_(C!vars)
    BY DEF Next, vars, C!vars, cacheVars, CacheStep, LimitStep, HookStep, TopicStep,
      BrokerStep, FlowStep, KitStep, StoreStep, ApiStep, SeenStep, BoxStep
  <1>3. C!Init /\ [][C!Next]_(C!vars) => []C!FetchOnce
    BY ServicesAssumption, C!FetchersAreSingle DEF ServicesAssumption, C!Spec
  <1>4. C!FetchOnce => FetchOnce
    BY DEF FetchOnce
  <1>5. ~Here => FetchOnce
    BY DEF FetchOnce
  <1>6. [Next]_vars /\ ~Here => ~Here'
    BY ServiceStays
  <1> HIDE DEF Here
  <1>7. Init /\ ~Here /\ [][Next]_vars => []~Here
    BY <1>6, PTL
  <1>8. [][Next]_vars => [][C!Next]_(C!vars)
    BY <1>2, PTL
  <1>9. Init /\ [][Next]_vars => []FetchOnce
    BY <1>1, <1>3, <1>4, <1>5, <1>7, <1>8, PTL
  <1> QED
    BY <1>9 DEF Spec

(* Cache: what is invalidated is not read again (cache-engine.ts),          *)
(* in the run of the services: the part's own theorem, which holds for      *)
(* every value of its constants, at the values Services gives them.         *)
THEOREM CacheInvalidatedStaysGone == Spec => []InvalidatedStaysGone
  <1> DEFINE Here == service = "cache"
  <1>1. Init /\ Here => C!Init
    BY DEF Init, C!Init
  <1>2. [Next]_vars => [C!Next]_(C!vars)
    BY DEF Next, vars, C!vars, cacheVars, CacheStep, LimitStep, HookStep, TopicStep,
      BrokerStep, FlowStep, KitStep, StoreStep, ApiStep, SeenStep, BoxStep
  <1>3. C!Init /\ [][C!Next]_(C!vars) => []C!InvalidatedStaysGone
    BY ServicesAssumption, C!WhatIsInvalidatedStaysGone DEF ServicesAssumption, C!Spec
  <1>4. C!InvalidatedStaysGone => InvalidatedStaysGone
    BY DEF InvalidatedStaysGone
  <1>5. ~Here => InvalidatedStaysGone
    BY DEF InvalidatedStaysGone
  <1>6. [Next]_vars /\ ~Here => ~Here'
    BY ServiceStays
  <1> HIDE DEF Here
  <1>7. Init /\ ~Here /\ [][Next]_vars => []~Here
    BY <1>6, PTL
  <1>8. [][Next]_vars => [][C!Next]_(C!vars)
    BY <1>2, PTL
  <1>9. Init /\ [][Next]_vars => []InvalidatedStaysGone
    BY <1>1, <1>3, <1>4, <1>5, <1>7, <1>8, PTL
  <1> QED
    BY <1>9 DEF Spec

(* Webhooks: requests stay within the retries (webhook-engine.ts),          *)
(* in the run of the services: the part's own theorem, which holds for      *)
(* every value of its constants, at the values Services gives them.         *)
THEOREM HookDeliveriesWithinBudget == Spec => []SendsWithinBudget
  <1> DEFINE Here == service = "hook"
  <1>1. Init /\ Here => W!Init
    BY DEF Init, W!Init
  <1>2. [Next]_vars => [W!Next]_(W!vars)
    BY DEF Next, vars, W!vars, hookVars, CacheStep, LimitStep, HookStep, TopicStep,
      BrokerStep, FlowStep, KitStep, StoreStep, ApiStep, SeenStep, BoxStep
  <1>3. W!Init /\ [][W!Next]_(W!vars) => []W!SendsWithinBudget
    BY ServicesAssumption, DeliveriesWithinBudget DEF ServicesAssumption, W!Spec
  <1>4. W!SendsWithinBudget => SendsWithinBudget
    BY DEF SendsWithinBudget
  <1>5. ~Here => SendsWithinBudget
    BY DEF SendsWithinBudget
  <1>6. [Next]_vars /\ ~Here => ~Here'
    BY ServiceStays
  <1> HIDE DEF Here
  <1>7. Init /\ ~Here /\ [][Next]_vars => []~Here
    BY <1>6, PTL
  <1>8. [][Next]_vars => [][W!Next]_(W!vars)
    BY <1>2, PTL
  <1>9. Init /\ [][Next]_vars => []SendsWithinBudget
    BY <1>1, <1>3, <1>4, <1>5, <1>7, <1>8, PTL
  <1> QED
    BY <1>9 DEF Spec

(* Pub/sub: no message of a topic is skipped (pubsub-engine.ts),            *)
(* in the run of the services: the part's own theorem, which holds for      *)
(* every value of its constants, at the values Services gives them.         *)
THEOREM TopicMessagesAreNotSkipped == Spec => []NoMessageIsSkipped
  <1> DEFINE Here == service = "topic"
  <1>1. Init /\ Here => P!Init
    BY DEF Init, P!Init
  <1>2. [Next]_vars => [P!Next]_(P!vars)
    BY DEF Next, vars, P!vars, topicVars, CacheStep, LimitStep, HookStep, TopicStep,
      BrokerStep, FlowStep, KitStep, StoreStep, ApiStep, SeenStep, BoxStep
  <1>3. P!Init /\ [][P!Next]_(P!vars) => []P!NoMessageIsSkipped
    BY ServicesAssumption, P!MessagesAreNotSkipped DEF ServicesAssumption, P!Spec
  <1>4. P!NoMessageIsSkipped => NoMessageIsSkipped
    BY DEF NoMessageIsSkipped
  <1>5. ~Here => NoMessageIsSkipped
    BY DEF NoMessageIsSkipped
  <1>6. [Next]_vars /\ ~Here => ~Here'
    BY ServiceStays
  <1> HIDE DEF Here
  <1>7. Init /\ ~Here /\ [][Next]_vars => []~Here
    BY <1>6, PTL
  <1>8. [][Next]_vars => [][P!Next]_(P!vars)
    BY <1>2, PTL
  <1>9. Init /\ [][Next]_vars => []NoMessageIsSkipped
    BY <1>1, <1>3, <1>4, <1>5, <1>7, <1>8, PTL
  <1> QED
    BY <1>9 DEF Spec

(* Broker adapters: an id that was published and not settled is somewhere   *)
(* (memory-broker.ts, redis-broker.ts, postgres-broker.ts), in the run of   *)
(* the services: the part's own theorem, which holds for every value of its *)
(* constants, at the values Services gives them.                            *)
THEOREM BrokerIdsAreKept == Spec => []EveryIdIsSomewhere
  <1> DEFINE Here == service = "broker"
  <1>1. Init /\ Here => B!Init
    BY DEF Init, B!Init
  <1>2. [Next]_vars => [B!Next]_(B!vars)
    BY DEF Next, vars, B!vars, brokerVars, CacheStep, LimitStep, HookStep, TopicStep,
      BrokerStep, FlowStep, KitStep, StoreStep, ApiStep, SeenStep, BoxStep
  <1>3. B!Init /\ [][B!Next]_(B!vars) => []B!EveryIdIsSomewhere
    BY ServicesAssumption, EveryIdIsKept DEF ServicesAssumption, B!Spec
  <1>4. B!EveryIdIsSomewhere => EveryIdIsSomewhere
    BY DEF EveryIdIsSomewhere
  <1>5. ~Here => EveryIdIsSomewhere
    BY DEF EveryIdIsSomewhere
  <1>6. [Next]_vars /\ ~Here => ~Here'
    BY ServiceStays
  <1> HIDE DEF Here
  <1>7. Init /\ ~Here /\ [][Next]_vars => []~Here
    BY <1>6, PTL
  <1>8. [][Next]_vars => [][B!Next]_(B!vars)
    BY <1>2, PTL
  <1>9. Init /\ [][Next]_vars => []EveryIdIsSomewhere
    BY <1>1, <1>3, <1>4, <1>5, <1>7, <1>8, PTL
  <1> QED
    BY <1>9 DEF Spec

(* Start and stop: stop() is orderly (index.ts, core.ts),                   *)
(* in the run of the services: the part's own theorem, which holds for      *)
(* every value of its constants, at the values Services gives them.         *)
THEOREM KitStopsAreOrderly == Spec => []StopIsOrderly
  <1> DEFINE Here == service = "kit"
  <1>1. Init /\ Here => K!Init
    BY DEF Init, K!Init
  <1>2. [Next]_vars => [K!Next]_(K!vars)
    BY DEF Next, vars, K!vars, kitVars, CacheStep, LimitStep, HookStep, TopicStep,
      BrokerStep, FlowStep, KitStep, StoreStep, ApiStep, SeenStep, BoxStep
  <1>3. K!Init /\ [][K!Next]_(K!vars) => []K!StopIsOrderly
    BY ServicesAssumption, StopsAreOrderly DEF ServicesAssumption, K!Spec
  <1>4. K!StopIsOrderly => StopIsOrderly
    BY DEF StopIsOrderly
  <1>5. ~Here => StopIsOrderly
    BY DEF StopIsOrderly
  <1>6. [Next]_vars /\ ~Here => ~Here'
    BY ServiceStays
  <1> HIDE DEF Here
  <1>7. Init /\ ~Here /\ [][Next]_vars => []~Here
    BY <1>6, PTL
  <1>8. [][Next]_vars => [][K!Next]_(K!vars)
    BY <1>2, PTL
  <1>9. Init /\ [][Next]_vars => []StopIsOrderly
    BY <1>1, <1>3, <1>4, <1>5, <1>7, <1>8, PTL
  <1> QED
    BY <1>9 DEF Spec

-----------------------------------------------------------------------------
(* SandboxedProcessor: whatever the thread does and whenever the timeout    *)
(* strikes, execute() answers what happened - for every configuration and   *)
(* every number of runs.  The answer alone is not inductive: it is true     *)
(* because each event still in the inbox was sent by the run in force and   *)
(* says how its handler ended (Truthful), and because a thread that was     *)
(* terminated, and whose exit would look like a crash, already has its      *)
(* answer (Stages).                                                         *)
(* What an event tells of the handler; an exit with an error does so only   *)
(* when nobody terminated the thread.                                       *)
Tells(event) ==
  /\ event = "result" => boxEnded = "result"
  /\ event = "error message" => boxEnded = "throw"
  /\ event = "error" => boxEnded = "crash"
  /\ event = "exit 1" => boxKilled \/ boxEnded \in {"crash", "exit 1"}
Truthful == \A i \in 1 .. Len(boxInbox) : Tells(boxInbox[i])

(* How much may be in the inbox at each stage of the thread.                *)
Room ==
  /\ boxInbox \in Seq(X!Events) /\ Len(boxInbox) <= 2
  /\ boxThread \in {"none", "alive"} => boxInbox = <<>>
  /\ boxThread \in {"posted", "dying"} => Len(boxInbox) <= 1

(* What is settled at each stage: terminate() comes with an answer.         *)
Stages ==
  /\ boxTimer \in BOOLEAN /\ boxKilled \in BOOLEAN
  /\ boxThread \in {"none", "alive", "posted", "dying", "gone"}
  /\ boxAnswer \in X!Answers /\ boxEnded \in X!Endings \cup {"none"}
  /\ boxThread \in {"none", "alive"} => boxAnswer = "pending"
  /\ boxThread \in {"none", "alive", "posted"} => ~boxKilled
  /\ boxThread = "dying" => boxKilled
  /\ boxTimer <=> boxAnswer = "pending" /\ boxThread # "none"
  /\ boxKilled => boxAnswer = "timed out"

SandboxInv == Room /\ Truthful /\ Stages /\ X!AnswerTellsWhatHappened

-----------------------------------------------------------------------------
(* What follows one more event at the end of an inbox (Sends).              *)
LEMMA OneMore ==
  ASSUME NEW s \in Seq(X!Events), NEW e \in X!Events
  PROVE  /\ s \o <<e>> \in Seq(X!Events)
         /\ Len(s \o <<e>>) = Len(s) + 1
         /\ \A i \in 1 .. Len(s) : (s \o <<e>>)[i] = s[i]
         /\ (s \o <<e>>)[Len(s) + 1] = e
<1>1. <<e>> \in Seq(X!Events) /\ Len(<<e>>) = 1 /\ <<e>>[1] = e
  OBVIOUS
<1> QED BY <1>1

(* What an inbox holds that was empty before an event, or two, were sent.   *)
LEMMA FirstEvents ==
  ASSUME NEW d \in X!Events, NEW e \in X!Events
  PROVE  /\ <<d>> \in Seq(X!Events) /\ Len(<<d>>) = 1
         /\ \A i \in 1 .. 1 : <<d>>[i] = d
         /\ <<d, e>> \in Seq(X!Events) /\ Len(<<d, e>>) = 2
         /\ \A i \in 1 .. 2 : <<d, e>>[i] = d \/ <<d, e>>[i] = e
<1>1. <<d>> \in Seq(X!Events) /\ Len(<<d>>) = 1 /\ <<d>>[1] = d
  OBVIOUS
<1>2. <<d, e>> \in Seq(X!Events) /\ Len(<<d, e>>) = 2 /\ <<d, e>>[1] = d /\ <<d, e>>[2] = e
  OBVIOUS
<1>3. \A i \in 1 .. 1 : i = 1
  OBVIOUS
<1>4. \A i \in 1 .. 2 : i = 1 \/ i = 2
  OBVIOUS
<1> QED BY <1>1, <1>2, <1>3, <1>4

(* What is left of an inbox when its first event is handled (Handle).       *)
LEMMA OneLess ==
  ASSUME NEW s \in Seq(X!Events), s # <<>>
  PROVE  /\ Head(s) \in X!Events /\ Head(s) = s[1]
         /\ Tail(s) \in Seq(X!Events) /\ Len(Tail(s)) = Len(s) - 1 /\ Len(s) >= 1
         /\ \A i \in 1 .. Len(Tail(s)) : i + 1 \in 1 .. Len(s) /\ Tail(s)[i] = s[i + 1]
OBVIOUS

(* A run starts from an empty inbox, with its timeout armed.                *)
LEMMA ExecuteKeeps == ASSUME SandboxInv, X!Execute PROVE SandboxInv'
<1>1. Room' /\ Truthful'
  BY DEF SandboxInv, Room, Truthful, X!Execute
<1>2. Stages' /\ X!AnswerTellsWhatHappened'
  BY DEF Stages, X!AnswerTellsWhatHappened, X!Execute, X!Answers
<1> QED BY <1>1, <1>2 DEF SandboxInv

(* The handler ends in a run of which nothing has been said yet.            *)
LEMMA HandlerEndsKeeps ==
  ASSUME SandboxInv, NEW how \in X!Endings, X!HandlerEnds(how)
  PROVE  SandboxInv'
<1>1. /\ boxThread = "alive" /\ boxInbox = <<>> /\ boxAnswer = "pending" /\ ~boxKilled
      /\ boxEnded' = how /\ boxAnswer' = boxAnswer /\ boxKilled' = boxKilled /\ boxTimer' = boxTimer
  BY Zenon DEF SandboxInv, Room, Stages, X!HandlerEnds
<1>2. \/ how = "result" /\ boxInbox' = <<"result">> /\ boxThread' = "posted"
      \/ how = "throw" /\ boxInbox' = <<"error message">> /\ boxThread' = "posted"
      \/ how = "crash" /\ boxInbox' = <<"error", "exit 1">> /\ boxThread' = "gone"
      \/ how = "exit 0" /\ boxInbox' = <<"exit 0">> /\ boxThread' = "gone"
      \/ how = "exit 1" /\ boxInbox' = <<"exit 1">> /\ boxThread' = "gone"
      \/ how = "hang" /\ boxInbox' = boxInbox /\ boxThread' = "alive"
  <2>1. /\ boxInbox \o <<"result">> = <<"result">>
        /\ boxInbox \o <<"error message">> = <<"error message">>
        /\ boxInbox \o <<"error", "exit 1">> = <<"error", "exit 1">>
        /\ boxInbox \o <<"exit 0">> = <<"exit 0">> /\ boxInbox \o <<"exit 1">> = <<"exit 1">>
    BY <1>1
  <2>2. CASE how = "result" BY <2>1, <2>2 DEF X!HandlerEnds, X!Sends
  <2>3. CASE how = "throw" BY <2>1, <2>3 DEF X!HandlerEnds, X!Sends
  <2>4. CASE how = "crash" BY <2>1, <2>4 DEF X!HandlerEnds, X!Sends
  <2>5. CASE how = "exit 0" BY <2>1, <2>5 DEF X!HandlerEnds, X!Sends
  <2>6. CASE how = "exit 1" BY <2>1, <2>6 DEF X!HandlerEnds, X!Sends
  <2>7. CASE how = "hang" BY <1>1, <2>7 DEF X!HandlerEnds
  <2> QED BY <2>2, <2>3, <2>4, <2>5, <2>6, <2>7 DEF X!Endings
<1>3. Room' /\ Truthful'
  <2>1. CASE how = "hang"
    <3>1. boxInbox' = <<>> /\ boxThread' = "alive"
      BY <1>1, <1>2, <2>1
    <3> QED BY <3>1 DEF Room, Truthful
  <2>2. CASE how = "crash"
    <3>1. /\ boxInbox' = <<"error", "exit 1">> /\ boxThread' = "gone" /\ boxEnded' = "crash"
          /\ "error" \in X!Events /\ "exit 1" \in X!Events
      BY <1>1, <1>2, <2>2 DEF X!Events
    <3>2. PICK s : s = <<"error", "exit 1">> OBVIOUS
    <3>3. s \in Seq(X!Events) /\ Len(s) = 2 /\ \A i \in 1 .. 2 : s[i] = "error" \/ s[i] = "exit 1"
      <4>1. PICK d \in X!Events : d = "error"
        BY DEF X!Events
      <4>2. PICK e \in X!Events : e = "exit 1"
        BY DEF X!Events
      <4>3. <<d, e>> \in Seq(X!Events) /\ Len(<<d, e>>) = 2 /\ \A i \in 1 .. 2 : <<d, e>>[i] = d \/ <<d, e>>[i] = e
        BY FirstEvents
      <4> QED BY <3>2, <4>1, <4>2, <4>3
    <3>4. boxInbox' = s BY <3>1, <3>2
    <3>5. boxThread' = "gone" /\ boxEnded' = "crash"
      BY <3>1
    <3>6. Room'
      <4>1. boxInbox' \in Seq(X!Events) /\ Len(boxInbox') = 2
        BY <3>3, <3>4
      <4> QED BY <3>5, <4>1 DEF Room
    <3>7. ASSUME NEW i \in 1 .. Len(boxInbox') PROVE Tells(boxInbox[i])'
      <4>1. boxInbox'[i] = "error" \/ boxInbox'[i] = "exit 1"
        BY <3>3, <3>4
      <4> QED BY <3>5, <4>1 DEF Tells
    <3>8. Truthful'
      BY <3>7 DEF Truthful
    <3> QED BY <3>6, <3>8
  <2>3. CASE how \in {"result", "throw", "exit 0", "exit 1"}
    <3> DEFINE d == CASE how = "result" -> "result" [] how = "throw" -> "error message"
                      [] how = "exit 0" -> "exit 0" [] how = "exit 1" -> "exit 1"
    <3>1. /\ boxInbox' = <<d>> /\ boxThread' \in {"posted", "gone"} /\ d \in X!Events
          /\ d = "result" => how = "result"
          /\ d = "error message" => how = "throw"
          /\ d # "error" /\ (d = "exit 1" => how = "exit 1")
      <4>1. CASE how = "result" BY <1>2, <4>1 DEF X!Events
      <4>2. CASE how = "throw" BY <1>2, <4>2 DEF X!Events
      <4>3. CASE how = "exit 0" BY <1>2, <4>3 DEF X!Events
      <4>4. CASE how = "exit 1" BY <1>2, <4>4 DEF X!Events
      <4> QED BY <2>3, <4>1, <4>2, <4>3, <4>4
    <3>2. PICK e : e = d OBVIOUS
    <3>3. boxInbox' = <<e>> /\ e \in X!Events
      BY <3>1, <3>2
    <3>4. /\ boxInbox' \in Seq(X!Events) /\ Len(boxInbox') = 1 /\ \A i \in 1 .. 1 : boxInbox'[i] = e
      BY <3>3, FirstEvents
    <3>5. boxEnded' = how
      BY <1>1
    <3>6. /\ e = "result" => boxEnded' = "result"
          /\ e = "error message" => boxEnded' = "throw"
          /\ e # "error" /\ (e = "exit 1" => boxEnded' = "exit 1")
      BY <3>1, <3>2, <3>5
    <3>7. boxThread' \in {"posted", "gone"}
      BY <3>1
    <3> HIDE DEF d
    <3>8. Room'
      BY <3>4, <3>7 DEF Room
    <3>9. ASSUME NEW i \in 1 .. Len(boxInbox') PROVE Tells(boxInbox[i])'
      <4>1. boxInbox'[i] = e
        BY <3>4
      <4> QED BY <3>6, <4>1 DEF Tells
    <3>10. Truthful'
      BY <3>9 DEF Truthful
    <3> QED BY <3>8, <3>10
  <2> QED BY <2>1, <2>2, <2>3 DEF X!Endings
<1>4. /\ boxThread' \in {"alive", "posted", "gone"}
      /\ boxTimer' = TRUE /\ boxKilled' = FALSE /\ boxAnswer' = "pending"
  BY <1>1, <1>2 DEF SandboxInv, Stages
<1>5. Stages'
  BY <1>1, <1>4 DEF Stages, X!Answers
<1>6. X!AnswerTellsWhatHappened'
  BY <1>4 DEF X!AnswerTellsWhatHappened
<1> QED BY <1>3, <1>5, <1>6 DEF SandboxInv

(* One more event keeps the inbox in order when it tells the truth.         *)
LEMMA SentTruly ==
  ASSUME Room, Truthful, Len(boxInbox) <= 1, NEW e \in X!Events, X!Sends(<<e>>), Tells(e),
         boxThread' = "gone", UNCHANGED <<boxEnded, boxKilled>>
  PROVE  Room' /\ Truthful'
<1>1. boxInbox \in Seq(X!Events) /\ boxInbox' = boxInbox \o <<e>>
  BY DEF Room, X!Sends
<1>2. /\ boxInbox' \in Seq(X!Events) /\ Len(boxInbox') = Len(boxInbox) + 1
      /\ \A i \in 1 .. Len(boxInbox) : boxInbox'[i] = boxInbox[i]
      /\ boxInbox'[Len(boxInbox) + 1] = e
  BY <1>1, OneMore
<1>3. Len(boxInbox) \in Nat
  BY <1>1
<1>4. ASSUME NEW i \in 1 .. Len(boxInbox') PROVE Tells(boxInbox'[i])
  BY <1>2, <1>3 DEF Truthful
<1>5. ASSUME NEW x, Tells(x) PROVE Tells(x)'
  BY <1>5 DEF Tells
<1>6. Truthful'
  <2>1. ASSUME NEW i \in 1 .. Len(boxInbox') PROVE Tells(boxInbox[i])'
    <3>1. PICK x : x = boxInbox'[i] OBVIOUS
    <3>2. Tells(x)' BY <1>4, <1>5, <3>1
    <3> QED BY <3>1, <3>2 DEF Tells
  <2> QED BY <2>1 DEF Truthful
<1>7. Room'
  BY <1>2, <1>3 DEF Room
<1> QED BY <1>6, <1>7

(* A thread that has posted exits without an error; the event says nothing. *)
LEMMA ThreadExitsKeeps == ASSUME SandboxInv, X!ThreadExits PROVE SandboxInv'
<1>1. Len(boxInbox) <= 1 /\ "exit 0" \in X!Events /\ X!Sends(<<"exit 0">>) /\ Tells("exit 0")
      /\ boxThread' = "gone" /\ UNCHANGED <<boxEnded, boxKilled>>
  BY DEF SandboxInv, Room, X!ThreadExits, X!Events, Tells
<1>2. Room' /\ Truthful'
  BY <1>1, SentTruly DEF SandboxInv
<1>3. Stages' /\ X!AnswerTellsWhatHappened'
  BY DEF SandboxInv, Stages, X!AnswerTellsWhatHappened, X!ThreadExits
<1> QED BY <1>2, <1>3 DEF SandboxInv

(* A thread that was terminated exits with an error, and is known to be.    *)
LEMMA ThreadDiesKeeps == ASSUME SandboxInv, X!ThreadDies PROVE SandboxInv'
<1>1. boxKilled
  BY DEF SandboxInv, Stages, X!ThreadDies
<1>2. Len(boxInbox) <= 1 /\ "exit 1" \in X!Events /\ X!Sends(<<"exit 1">>)
      /\ boxThread' = "gone" /\ UNCHANGED <<boxEnded, boxKilled>>
  BY DEF SandboxInv, Room, X!ThreadDies, X!Events
<1>3. Tells("exit 1")
  BY <1>1 DEF Tells
<1>4. Room' /\ Truthful'
  BY <1>2, <1>3, SentTruly DEF SandboxInv
<1>5. Stages' /\ X!AnswerTellsWhatHappened'
  BY DEF SandboxInv, Stages, X!AnswerTellsWhatHappened, X!ThreadDies
<1> QED BY <1>4, <1>5 DEF SandboxInv

(* The parent handles an event: it is believed only while no answer is      *)
(* settled, and then nobody has terminated the thread.                      *)
LEMMA HandleKeeps == ASSUME SandboxInv, X!Handle PROVE SandboxInv'
<1>1. /\ boxInbox \in Seq(X!Events) /\ boxInbox # <<>> /\ boxInbox' = Tail(boxInbox)
      /\ boxThread' = boxThread /\ boxEnded' = boxEnded /\ boxKilled' = boxKilled
  BY DEF SandboxInv, Room, X!Handle
<1>2. /\ Head(boxInbox) \in X!Events /\ Head(boxInbox) = boxInbox[1] /\ Len(boxInbox) >= 1
      /\ boxInbox' \in Seq(X!Events) /\ Len(boxInbox') = Len(boxInbox) - 1
      /\ \A i \in 1 .. Len(boxInbox') : i + 1 \in 1 .. Len(boxInbox) /\ boxInbox'[i] = boxInbox[i + 1]
  BY <1>1, OneLess
<1>3. Len(boxInbox) \in Nat /\ Len(boxInbox') \in Nat
  BY <1>1, <1>2
<1>4. Room'
  BY <1>1, <1>2, <1>3 DEF SandboxInv, Room
<1>5. Truthful'
  BY <1>1, <1>2, <1>3 DEF SandboxInv, Truthful, Tells
<1>6. 1 \in 1 .. Len(boxInbox)
  BY <1>2, <1>3
<1>7. Tells(Head(boxInbox))
  BY <1>2, <1>6 DEF SandboxInv, Truthful
<1>8. boxThread \notin {"none", "alive"}
  BY <1>1 DEF SandboxInv, Room
<1>9. CASE boxAnswer' = boxAnswer /\ boxTimer' = boxTimer
  BY <1>1, <1>4, <1>5, <1>9 DEF SandboxInv, Stages, X!AnswerTellsWhatHappened
<1>10. CASE ~(boxAnswer' = boxAnswer /\ boxTimer' = boxTimer)
  <2>1. /\ boxAnswer = "pending" /\ boxTimer' = FALSE
        /\ \/ Head(boxInbox) = "result" /\ boxAnswer' = "success"
           \/ Head(boxInbox) = "error message" /\ boxAnswer' = "error"
           \/ Head(boxInbox) \in {"error", "exit 1"} /\ boxAnswer' = "crashed"
    <3> DEFINE h == Head(boxInbox)
    <3>1. h \in X!Events
      BY <1>2
    <3>2. CASE h = "result" BY <1>10, <3>2 DEF X!Handle, X!Settle
    <3>3. CASE h = "error message" BY <1>10, <3>3 DEF X!Handle, X!Settle
    <3>4. CASE h \in {"error", "exit 1"} BY <1>10, <3>4 DEF X!Handle, X!Settle
    <3>5. CASE h = "exit 0" BY <1>10, <3>5 DEF X!Handle
    <3> HIDE DEF h
    <3> QED BY <3>1, <3>2, <3>3, <3>4, <3>5 DEF X!Events
  <2>2. ~boxKilled
    BY <2>1 DEF SandboxInv, Stages
  <2>3. X!AnswerTellsWhatHappened'
    BY <1>1, <1>7, <2>1, <2>2 DEF Tells, X!AnswerTellsWhatHappened
  <2>4. Stages'
    BY <1>1, <1>8, <2>1, <2>2 DEF SandboxInv, Stages, X!Answers
  <2> QED BY <1>4, <1>5, <2>3, <2>4 DEF SandboxInv
<1> QED BY <1>9, <1>10

(* The timeout strikes only while the answer is open, and settles it.       *)
LEMMA TimeoutKeeps == ASSUME SandboxInv, X!Timeout PROVE SandboxInv'
<1>1. boxAnswer = "pending" /\ boxThread # "none" /\ ~boxKilled
  BY DEF SandboxInv, Stages, X!Timeout
<1>2. /\ boxAnswer' = "timed out" /\ boxTimer' = FALSE /\ boxKilled' = TRUE
      /\ boxInbox' = boxInbox /\ boxEnded' = boxEnded
      /\ boxThread' = IF boxThread = "gone" THEN "gone" ELSE "dying"
  BY <1>1 DEF X!Timeout, X!Settle
<1>3. boxThread' \in {"gone", "dying"} /\ (boxThread' = "dying" => Len(boxInbox) <= 1)
  <2>1. boxThread # "gone" => boxThread \in {"alive", "posted", "dying"}
    BY <1>1 DEF SandboxInv, Stages
  <2>2. boxThread \in {"alive", "posted", "dying"} => Len(boxInbox) <= 1
    BY DEF SandboxInv, Room
  <2> QED BY <1>2, <2>1, <2>2
<1>4. Room'
  BY <1>2, <1>3 DEF SandboxInv, Room
<1>5. Truthful'
  BY <1>2 DEF SandboxInv, Truthful, Tells
<1>6. Stages' /\ X!AnswerTellsWhatHappened'
  BY <1>2, <1>3 DEF SandboxInv, Stages, X!AnswerTellsWhatHappened, X!Answers
<1> QED BY <1>4, <1>5, <1>6 DEF SandboxInv

(* The invariant holds at the start and no step of the parent, the thread   *)
(* or the timer breaks it.                                                  *)
LEMMA SandboxInductive == X!Spec => []SandboxInv
<1>1. ASSUME X!Init PROVE SandboxInv
  <2>1. Room /\ Truthful
    BY <1>1 DEF X!Init, X!InitWith, Room, Truthful
  <2>2. Stages /\ X!AnswerTellsWhatHappened
    BY <1>1 DEF X!Init, X!InitWith, Stages, X!AnswerTellsWhatHappened, X!Answers
  <2> QED BY <2>1, <2>2 DEF SandboxInv
<1>2. ASSUME SandboxInv, [X!Next]_(X!vars) PROVE SandboxInv'
  <2>1. CASE UNCHANGED X!vars
    BY <1>2, <2>1
    DEF X!vars, SandboxInv, Room, Truthful, Tells, Stages, X!AnswerTellsWhatHappened
  <2>2. CASE X!Next
    BY <1>2, <2>2, ExecuteKeeps, HandlerEndsKeeps, ThreadExitsKeeps, ThreadDiesKeeps,
       HandleKeeps, TimeoutKeeps DEF X!Next
  <2> QED BY <1>2, <2>1, <2>2
<1> QED BY <1>1, <1>2, PTL DEF X!Spec

(* execute() answers success only if the handler returned, an error only if *)
(* it threw, a crash only if the thread died of its own; a run that timed   *)
(* out was terminated; and only an armed timeout leaves a run unanswered.   *)
THEOREM AnswersTellWhatHappened == X!Spec => []X!AnswerTellsWhatHappened
BY SandboxInductive, PTL DEF SandboxInv

(* Sandbox: execute() answers what became of the handler (sandbox.ts),      *)
(* in the run of the services: the part's own theorem, which holds for      *)
(* every value of its constants, at the values Services gives them.         *)
THEOREM BoxAnswersTellWhatHappened == Spec => []AnswerTellsWhatHappened
  <1> DEFINE Here == service = "box"
  <1>1. Init /\ Here => X!Init
    BY DEF Init, X!Init
  <1>2. [Next]_vars => [X!Next]_(X!vars)
    BY DEF Next, vars, X!vars, boxVars, CacheStep, LimitStep, HookStep, TopicStep,
      BrokerStep, FlowStep, KitStep, StoreStep, ApiStep, SeenStep, BoxStep
  <1>3. X!Init /\ [][X!Next]_(X!vars) => []X!AnswerTellsWhatHappened
    BY AnswersTellWhatHappened DEF X!Spec
  <1>4. X!AnswerTellsWhatHappened => AnswerTellsWhatHappened
    BY DEF AnswerTellsWhatHappened
  <1>5. ~Here => AnswerTellsWhatHappened
    BY DEF AnswerTellsWhatHappened
  <1>6. [Next]_vars /\ ~Here => ~Here'
    BY ServiceStays
  <1> HIDE DEF Here
  <1>7. Init /\ ~Here /\ [][Next]_vars => []~Here
    BY <1>6, PTL
  <1>8. [][Next]_vars => [][X!Next]_(X!vars)
    BY <1>2, PTL
  <1>9. Init /\ [][Next]_vars => []AnswerTellsWhatHappened
    BY <1>1, <1>3, <1>4, <1>5, <1>7, <1>8, PTL
  <1> QED
    BY <1>9 DEF Spec

-----------------------------------------------------------------------------
(* What a step may never do. While a part is not at work none of its        *)
(* variables changes; while it is, its own theorem holds.                   *)
LEMMA BrokerHandsToOne == Spec => B!OneHolder
  <1> DEFINE Here == service = "broker"
             Step == /\ \A i \in BrokerIds : brokerSole[i] # B!Nobody => brokerSole'[i] \in {brokerSole[i], B!Nobody}
                     /\ B!Kind = "redis" \/ ~B!Returns
  <1>1. Init /\ Here => B!Init
    BY DEF Init, B!Init
  <1>2. [Next]_vars => [B!Next]_(B!vars)
    BY DEF Next, vars, B!vars, brokerVars, CacheStep, LimitStep, HookStep, TopicStep,
      BrokerStep, FlowStep, KitStep, StoreStep, ApiStep, SeenStep, BoxStep
  <1>3. [Next]_vars /\ ~Here => UNCHANGED B!vars
    BY DEF Next, vars, B!vars, brokerVars, CacheStep, LimitStep, HookStep, TopicStep,
      BrokerStep, FlowStep, KitStep, StoreStep, ApiStep, SeenStep, BoxStep
  <1>4. B!Init /\ [][B!Next]_(B!vars) => B!OneHolder
    BY ServicesAssumption, OneHolderAtATime DEF ServicesAssumption, B!Spec
  <1>5. [Next]_vars /\ ~Here => ~Here'
    BY ServiceStays
  <1>6. [Next]_vars /\ ~Here => [Step]_(B!vars)
    BY <1>3
  <1>7. B!OneHolder <=> [][Step]_(B!vars)
    BY DEF B!OneHolder
  <1> HIDE DEF Here, Step
  <1>8. Init /\ ~Here /\ [][Next]_vars => [][Step]_(B!vars)
    BY <1>5, <1>6, PTL
  <1>9. [][Next]_vars => [][B!Next]_(B!vars)
    BY <1>2, PTL
  <1> QED
    BY <1>1, <1>4, <1>7, <1>8, <1>9, PTL DEF Spec

LEMMA StorePrunesThePast == Spec => S!PruneSparesFresh
  <1> DEFINE Here == service = "store"
             Step == \A s \in StoreSlots, id \in StoreIds :
                       S!Removes(s, {id}) /\ id \notin storeTorn \cup storeCall[s].written => S!Past(id, storeCall[s].before)
  <1>1. Init /\ Here => S!Init
    BY DEF Init, S!Init
  <1>2. [Next]_vars => [S!Next]_(S!vars)
    BY DEF Next, vars, S!vars, storeVars, CacheStep, LimitStep, HookStep, TopicStep,
      BrokerStep, FlowStep, KitStep, StoreStep, ApiStep, SeenStep, BoxStep
  <1>3. [Next]_vars /\ ~Here => UNCHANGED S!vars
    BY DEF Next, vars, S!vars, storeVars, CacheStep, LimitStep, HookStep, TopicStep,
      BrokerStep, FlowStep, KitStep, StoreStep, ApiStep, SeenStep, BoxStep
  <1>4. S!Init /\ [][S!Next]_(S!vars) => S!PruneSparesFresh
    BY ServicesAssumption, PrunesSpareTheFresh DEF ServicesAssumption, S!Spec
  <1>5. [Next]_vars /\ ~Here => ~Here'
    BY ServiceStays
  <1>6. [Next]_vars /\ ~Here => [Step]_(S!vars)
    BY <1>3
  <1>7. S!PruneSparesFresh <=> [][Step]_(S!vars)
    BY DEF S!PruneSparesFresh
  <1> HIDE DEF Here, Step
  <1>8. Init /\ ~Here /\ [][Next]_vars => [][Step]_(S!vars)
    BY <1>5, <1>6, PTL
  <1>9. [][Next]_vars => [][S!Next]_(S!vars)
    BY <1>2, PTL
  <1> QED
    BY <1>1, <1>4, <1>7, <1>8, <1>9, PTL DEF Spec

LEMMA ApiHoldsTheNewest == Spec => A!NewestIsHeld
  <1> DEFINE Here == service = "api"
             Step == \A t \in A!Targets : t[1] \in {"queue", "hook"} => ~A!DropsNewest(t)
  <1>1. Init /\ Here => A!Init
    BY DEF Init, A!Init
  <1>2. [Next]_vars => [A!Next]_(A!vars)
    BY DEF Next, vars, A!vars, apiVars, CacheStep, LimitStep, HookStep, TopicStep,
      BrokerStep, FlowStep, KitStep, StoreStep, ApiStep, SeenStep, BoxStep
  <1>3. [Next]_vars /\ ~Here => UNCHANGED A!vars
    BY DEF Next, vars, A!vars, apiVars, CacheStep, LimitStep, HookStep, TopicStep,
      BrokerStep, FlowStep, KitStep, StoreStep, ApiStep, SeenStep, BoxStep
  <1>4. A!Init /\ [][A!Next]_(A!vars) => A!NewestIsHeld
    BY ServicesAssumption, TheNewestIsHeld DEF ServicesAssumption, A!Spec
  <1>5. [Next]_vars /\ ~Here => ~Here'
    BY ServiceStays
  <1>6. [Next]_vars /\ ~Here => [Step]_(A!vars)
    BY <1>3
  <1>7. A!NewestIsHeld <=> [][Step]_(A!vars)
    BY DEF A!NewestIsHeld
  <1> HIDE DEF Here, Step
  <1>8. Init /\ ~Here /\ [][Next]_vars => [][Step]_(A!vars)
    BY <1>5, <1>6, PTL
  <1>9. [][Next]_vars => [][A!Next]_(A!vars)
    BY <1>2, PTL
  <1> QED
    BY <1>1, <1>4, <1>7, <1>8, <1>9, PTL DEF Spec

(* No step of the services hands an id to a second caller, prunes what is   *)
(* not past, or drops the newest held job of a queue or dispatcher          *)
(* (redis-broker.ts, redis-store.ts, postgres-store.ts, queue-engine.ts).   *)
THEOREM NothingInOneStep == Spec => NeverInOneStep
BY BrokerHandsToOne, StorePrunesThePast, ApiHoldsTheNewest DEF NeverInOneStep

(* Pub/sub: after pause() nothing of the group is claimed until resume()    *)
(* (pubsub-engine.ts), in the run of the services.                          *)
THEOREM TopicPausesHold == Spec => PauseHolds
  <1> DEFINE Here == service = "topic"
             Step == \A g \in topicQuiet \cap topicQuiet', o \in P!Offsets :
                       topicClaim'[g][o] \in {topicClaim[g][o], P!NoNode}
  <1>1. Init /\ Here => P!Init
    BY DEF Init, P!Init
  <1>2. [Next]_vars => [P!Next]_(P!vars)
    BY DEF Next, vars, P!vars, topicVars, CacheStep, LimitStep, HookStep, TopicStep,
      BrokerStep, FlowStep, KitStep, StoreStep, ApiStep, SeenStep, BoxStep
  <1>3. [Next]_vars /\ ~Here => UNCHANGED P!vars
    BY DEF Next, vars, P!vars, topicVars, CacheStep, LimitStep, HookStep, TopicStep,
      BrokerStep, FlowStep, KitStep, StoreStep, ApiStep, SeenStep, BoxStep
  <1>4. P!Init /\ [][P!Next]_(P!vars) => P!PauseHolds
    BY ServicesAssumption, P!PausesHold DEF ServicesAssumption, P!Spec
  <1>5. [Next]_vars /\ ~Here => ~Here'
    BY ServiceStays
  <1>6. [Next]_vars /\ ~Here => [Step]_(P!vars)
    BY <1>3
  <1>7. P!PauseHolds <=> [][Step]_(P!vars)
    BY DEF P!PauseHolds
  <1> HIDE DEF Here, Step
  <1>8. Init /\ ~Here /\ [][Next]_vars => [][Step]_(P!vars)
    BY <1>5, <1>6, PTL
  <1>9. [][Next]_vars => [][P!Next]_(P!vars)
    BY <1>2, PTL
  <1> QED
    BY <1>1, <1>4, <1>7, <1>8, <1>9, PTL DEF Spec, PauseHolds

(* Flow: no job with dependencies is queued, claimed or executed before its *)
(* parents have ended as its policy asks (dependency-resolver.ts), in the   *)
(* run of the services: the part's own theorem, which holds for every value *)
(* of its constants, at the values Services gives them.                     *)
THEOREM FlowParentsFirst == Spec => []ParentsFirst
  <1> DEFINE Here == service = "flow"
  <1>1. Init /\ Here => F!Init
    BY DEF Init, F!Init
  <1>2. [Next]_vars => [F!Next]_(F!vars)
    BY DEF Next, vars, F!vars, flowVars, CacheStep, LimitStep, HookStep, TopicStep,
      BrokerStep, FlowStep, KitStep, StoreStep, ApiStep, SeenStep, BoxStep
  <1>3. F!Init /\ [][F!Next]_(F!vars) => []F!ParentsFirst
    BY ServicesAssumption, NoneBeforeItsParents DEF ServicesAssumption, F!Spec
  <1>4. F!ParentsFirst => ParentsFirst
    BY DEF ParentsFirst
  <1>5. ~Here => ParentsFirst
    BY DEF ParentsFirst
  <1>6. [Next]_vars /\ ~Here => ~Here'
    BY ServiceStays
  <1> HIDE DEF Here
  <1>7. Init /\ ~Here /\ [][Next]_vars => []~Here
    BY <1>6, PTL
  <1>8. [][Next]_vars => [][F!Next]_(F!vars)
    BY <1>2, PTL
  <1>9. Init /\ [][Next]_vars => []ParentsFirst
    BY <1>1, <1>3, <1>4, <1>5, <1>7, <1>8, PTL
  <1> QED
    BY <1>9 DEF Spec
=============================================================================
