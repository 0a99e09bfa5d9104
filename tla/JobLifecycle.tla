---------------------------- MODULE JobLifecycle ----------------------------
(***************************************************************************)
(* What the job engine promises about one id, with no engine, broker, lease *)
(* or record in sight: it is submitted once, one party at a time has it in *)
(* hand, its outcome is decided once, by that party, and only a party that *)
(* dies or fails with it in hand loses it.                                 *)
(***************************************************************************)
CONSTANTS Jobs, Outcomes, Undecided  \* the last is no outcome

VARIABLES phase, outcome

lifecycleVars == <<phase, outcome>>

LifecycleTypeOK ==
  /\ phase \in [Jobs -> {"new", "queued", "held", "settled", "lost"}]
  /\ outcome \in [Jobs -> Outcomes \cup {Undecided}]

LifecycleInit ==
  /\ phase = [j \in Jobs |-> "new"]
  /\ outcome = [j \in Jobs |-> Undecided]

Move(j, from, to) == phase[j] = from /\ phase' = [phase EXCEPT ![j] = to]

Submit(j) == Move(j, "new", "queued") /\ UNCHANGED outcome
Take(j) == Move(j, "queued", "held") /\ UNCHANGED outcome
GiveBack(j) == outcome[j] = Undecided /\ Move(j, "held", "queued") /\ UNCHANGED outcome

Decide(j) ==
  /\ phase[j] = "held" /\ outcome[j] = Undecided
  /\ \E o \in Outcomes : outcome' = [outcome EXCEPT ![j] = o]
  /\ UNCHANGED phase

Forget(j) ==
  /\ outcome[j] # Undecided
  /\ Move(j, "held", "settled")
  /\ outcome' = [outcome EXCEPT ![j] = Undecided]

(* The parties that let go of their jobs for good, one or many at once:     *)
(* what was decided is settled, the rest is lost.                           *)
LetGo(gone) ==
  /\ gone # {} /\ \A j \in gone : phase[j] = "held"
  /\ phase' = [j \in Jobs |-> IF j \notin gone THEN phase[j]
                              ELSE IF outcome[j] = Undecided THEN "lost" ELSE "settled"]
  /\ UNCHANGED outcome

LifecycleNext ==
  \/ \E j \in Jobs : Submit(j) \/ Take(j) \/ GiveBack(j) \/ Decide(j) \/ Forget(j)
  \/ \E gone \in SUBSET Jobs : LetGo(gone)

LifecycleSpec == LifecycleInit /\ [][LifecycleNext]_lifecycleVars
=============================================================================
