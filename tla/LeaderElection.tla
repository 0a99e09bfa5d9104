--------------------------- MODULE LeaderElection ---------------------------
(***************************************************************************)
(* LeaderElection on an ILockAdapter: every scheduler engine campaigns for *)
(* one lease and acts while it believes it holds it.  The lock adapter      *)
(* answers at one moment and the engine hears the answer at a later one, so *)
(* belief and lease are two pieces of state that drift apart.               *)
(* An engine's nodeId is a fresh UUID, so a restarted process is another    *)
(* member of Nodes and never inherits a lease.                              *)
(***************************************************************************)
EXTENDS Integers, FiniteSets

CONSTANTS
  Nodes,    \* engine instances
  Nobody,   \* no owner: the lease was never taken, released or expired
  Budgets   \* the scenarios: how much of each kind may happen

(* Faults and operator calls, and how much time passes, processes are       *)
(* deployed, and ticks and runs are under way at the same time (bounds).    *)
BudgetKinds == {"lapse", "error", "lock", "crash", "stop", "disable", "admin",
                "manual", "time", "deploy", "ticks", "runs"}

ASSUME ElectionAssumption ==
  /\ IsFiniteSet(Nodes) /\ Nobody \notin Nodes
  /\ Budgets \subseteq [BudgetKinds -> Nat]

VARIABLES
  lease,     \* owner of the leader key; an expired entry is Nobody
  isLeader,  \* _isLeader of the engine's current LeaderElection object
  reply,     \* an answer of the lock adapter the campaign still waits for
  electing,  \* the engine's electionTimer is set
  leaked,    \* an earlier election object of the engine still has its timer
  resigning, \* stop() has sent the release and waits for it
  lapsed,    \* a live holder ever lost the lease to its TTL (history)
  budget     \* what is left of the scenario

electionVars == <<lease, isLeader, reply, electing, leaked, resigning, lapsed>>

ElectionTypeOK ==
  /\ lease \in Nodes \cup {Nobody}
  /\ isLeader \in [Nodes -> BOOLEAN]
  /\ reply \in [Nodes -> {"none", "acquired", "lost"}]
  /\ electing \in [Nodes -> BOOLEAN]
  /\ leaked \in [Nodes -> BOOLEAN]
  /\ resigning \in [Nodes -> BOOLEAN]
  /\ lapsed \in BOOLEAN
  /\ budget \in [BudgetKinds -> Nat]

ElectionInit ==
  /\ lease = Nobody
  /\ isLeader = [n \in Nodes |-> FALSE]
  /\ reply = [n \in Nodes |-> "none"]
  /\ electing = [n \in Nodes |-> FALSE]
  /\ leaked = [n \in Nodes |-> FALSE]
  /\ resigning = [n \in Nodes |-> FALSE]
  /\ lapsed = FALSE
  /\ budget \in Budgets

(* One event of kind k is used up.                                          *)
Spend(k) == /\ budget[k] > 0
            /\ budget' = [budget EXCEPT ![k] = @ - 1]

Acquirable(n) == lease \in {Nobody, n}

(* start(): a new object that leads nothing; a timer an earlier object of   *)
(* this engine still has (disable() keeps it) goes on on its own.           *)
StartElection(n) ==
  /\ electing' = [electing EXCEPT ![n] = TRUE]
  /\ leaked' = [leaked EXCEPT ![n] = @ \/ electing[n]]
  /\ isLeader' = [isLeader EXCEPT ![n] = FALSE]
  /\ reply' = [reply EXCEPT ![n] = "none"]
  /\ UNCHANGED <<lease, resigning, lapsed>>

(* Mutant: the adapter grants the key without looking for an owner.         *)
CampaignUnchecked(n) ==
  /\ electing[n] /\ ~isLeader[n] /\ reply[n] = "none"
  /\ lease' = n
  /\ reply' = [reply EXCEPT ![n] = "acquired"]
  /\ UNCHANGED <<isLeader, electing, leaked, resigning, lapsed, budget>>

(* campaign(): a follower acquires.  Both adapters let the owner in again.  *)
(* A refusal changes nothing on either side.                                *)
Campaign(n) ==
  /\ electing[n] /\ ~isLeader[n] /\ reply[n] = "none" /\ Acquirable(n)
  /\ lease' = n
  /\ reply' = [reply EXCEPT ![n] = "acquired"]
  /\ UNCHANGED <<isLeader, electing, leaked, resigning, lapsed, budget>>

(* campaign(): the leader renews and learns that the lease is not its own.  *)
(* A successful renewal changes nothing: the holder's entry lives on.       *)
RenewFails(n) ==
  /\ electing[n] /\ isLeader[n] /\ reply[n] = "none" /\ lease # n
  /\ reply' = [reply EXCEPT ![n] = "lost"]
  /\ UNCHANGED <<lease, isLeader, electing, leaked, resigning, lapsed, budget>>

(* The answer arrives, also when stop() has cleared the timer meanwhile.    *)
CampaignReply(n) ==
  /\ reply[n] # "none"
  /\ isLeader' = [isLeader EXCEPT ![n] = (reply[n] = "acquired")]
  /\ reply' = [reply EXCEPT ![n] = "none"]
  /\ UNCHANGED <<lease, electing, leaked, resigning, lapsed, budget>>

(* The adapter throws, before or after it has applied the call.             *)
CampaignError(n) ==
  /\ Spend("error")
  /\ electing[n] /\ reply[n] = "none"
  /\ lease' \in {lease} \cup (IF Acquirable(n) /\ ~isLeader[n] THEN {n} ELSE {})
  /\ isLeader' = [isLeader EXCEPT ![n] = FALSE]
  /\ UNCHANGED <<reply, electing, leaked, resigning, lapsed>>

(* The timer of an object nobody stops: it renews, or takes the lease back. *)
LeakedCampaign(n) ==
  /\ leaked[n] /\ lease = Nobody
  /\ lease' = n
  /\ UNCHANGED <<isLeader, reply, electing, leaked, resigning, lapsed, budget>>

(* stop() clears the timer; a believer releases, then stops believing.      *)
Resign(n) ==
  /\ electing[n]
  /\ electing' = [electing EXCEPT ![n] = FALSE]
  /\ resigning' = [resigning EXCEPT ![n] = isLeader[n]]
  /\ lease' = IF isLeader[n] /\ lease = n THEN Nobody ELSE lease
  /\ UNCHANGED <<isLeader, reply, leaked, lapsed>>

Resigned(n) ==
  /\ resigning[n]
  /\ resigning' = [resigning EXCEPT ![n] = FALSE]
  /\ isLeader' = [isLeader EXCEPT ![n] = FALSE]
  /\ UNCHANGED <<lease, reply, electing, leaked, lapsed, budget>>

(* The process dies: what it believed is gone, what it held is not.         *)
LoseElection(n) ==
  /\ electing' = [electing EXCEPT ![n] = FALSE]
  /\ leaked' = [leaked EXCEPT ![n] = FALSE]
  /\ isLeader' = [isLeader EXCEPT ![n] = FALSE]
  /\ reply' = [reply EXCEPT ![n] = "none"]
  /\ resigning' = [resigning EXCEPT ![n] = FALSE]
  /\ UNCHANGED <<lease, lapsed>>

(* Mutant: the leader key is written without a TTL.                         *)
LeaseStays ==
  /\ lease # Nobody /\ ~electing[lease] /\ ~leaked[lease]
  /\ UNCHANGED <<electionVars, budget>>

(* The TTL passes for a holder that no timer renews.                        *)
LeaseExpires ==
  /\ lease # Nobody /\ ~electing[lease] /\ ~leaked[lease]
  /\ lease' = Nobody
  /\ UNCHANGED <<isLeader, reply, electing, leaked, resigning, lapsed, budget>>

(* The TTL passes for a holder whose renewals came too late.                *)
LeaseLapses ==
  /\ Spend("lapse")
  /\ lease # Nobody /\ (electing[lease] \/ leaked[lease])
  /\ lease' = Nobody
  /\ lapsed' = TRUE
  /\ UNCHANGED <<isLeader, reply, electing, leaked, resigning>>

ElectionStep(n) ==
  \/ Campaign(n) \/ RenewFails(n) \/ CampaignReply(n) \/ CampaignError(n)
  \/ LeakedCampaign(n) \/ Resigned(n)

(* Leadership the engine acts on: it believes, and stop() has not begun.    *)
Leads(n) == isLeader[n] /\ electing[n]

(* As long as no live holder lost the lease to its TTL, no two engines lead *)
(* at the same time, whatever answers are late and whichever engines stop,  *)
(* crash, fail or are disabled and enabled (LeaderElection.isLeader).       *)
OneLeader == ~lapsed => \A m, n \in Nodes : Leads(m) /\ Leads(n) => m = n
=============================================================================
