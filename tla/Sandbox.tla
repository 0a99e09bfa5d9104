-------------------------------- MODULE Sandbox --------------------------------
(***************************************************************************)
(* SandboxedProcessor.execute(): a handler in a worker thread, the events   *)
(* the thread sends to its parent, and the timeout that terminates it.  The *)
(* first to be handled settles the result.                                 *)
(***************************************************************************)
EXTENDS Naturals, Sequences, SequencesExt

CONSTANT Settings \* how handlers behave: which of their ends are possible

Endings == {"result", "throw", "crash", "exit 0", "exit 1", "hang"}
Assumption == Settings \subseteq [endings : SUBSET Endings, lingers : BOOLEAN, runs : Nat]

VARIABLES
  setting, \* the member of Settings in force, runs counting down
  thread,  \* "none", "alive", "posted" (its handler is over), "dying", "gone"
  inbox,   \* events on their way to the parent, in order
  timer,   \* the timeout is armed
  answer,  \* what execute() resolved with
  ended,   \* history: how the handler ended
  killed   \* history: terminate() was called

vars == <<setting, thread, inbox, timer, answer, ended, killed>>

Answers == {"pending", "success", "error", "crashed", "timed out"}
Events == {"result", "error message", "error", "exit 0", "exit 1"}
TypeOK ==
  /\ thread \in {"none", "alive", "posted", "dying", "gone"} /\ timer \in BOOLEAN
  /\ inbox \in Seq(Events) /\ Len(inbox) <= 2 /\ answer \in Answers
  /\ ended \in Endings \cup {"none"} /\ killed \in BOOLEAN

InitWith(settings) ==
  /\ setting \in settings /\ thread = "none" /\ inbox = <<>> /\ timer = FALSE
  /\ answer = "pending" /\ ended = "none" /\ killed = FALSE
Init == InitWith(Settings)

Execute ==
  /\ thread \in {"none", "gone"} /\ inbox = <<>> /\ (thread = "gone" => answer # "pending")
  /\ setting.runs > 0 /\ setting' = [setting EXCEPT !.runs = @ - 1]
  /\ thread' = "alive" /\ timer' = TRUE
  /\ answer' = "pending" /\ ended' = "none" /\ killed' = FALSE /\ UNCHANGED inbox

(* The thread: the bootstrap posts a result or a message of what was thrown *)
(* and the thread exits once nothing keeps it; an uncaught error or a heap  *)
(* limit is an event of its own; process.exit() leaves no message.          *)
Sends(events) == inbox' = inbox \o events
HandlerEnds(how) ==
  /\ thread = "alive" /\ how \in setting.endings /\ ended' = how
  /\ CASE how = "result" -> Sends(<<"result">>) /\ thread' = "posted"
       [] how = "throw" -> Sends(<<"error message">>) /\ thread' = "posted"
       [] how = "crash" -> Sends(<<"error", "exit 1">>) /\ thread' = "gone"
       [] how \in {"exit 0", "exit 1"} -> Sends(<<how>>) /\ thread' = "gone"
       [] how = "hang" -> UNCHANGED <<inbox, thread>>
  /\ UNCHANGED <<setting, timer, answer, killed>>
ThreadExits ==
  /\ thread = "posted" /\ ~setting.lingers
  /\ thread' = "gone" /\ Sends(<<"exit 0">>)
  /\ UNCHANGED <<setting, timer, answer, ended, killed>>
ThreadDies ==
  /\ thread = "dying" /\ thread' = "gone" /\ Sends(<<"exit 1">>)
  /\ UNCHANGED <<setting, timer, answer, ended, killed>>

(* settle(): the first caller wins and clears the timeout.                  *)
SettleAnyway(how) == answer' = how /\ timer' = FALSE \* Mutant: a later event settles again.
Settle(how) ==
  IF answer # "pending" THEN UNCHANGED <<answer, timer>> ELSE answer' = how /\ timer' = FALSE
Handle ==
  /\ inbox # <<>> /\ inbox' = Tail(inbox)
  /\ CASE Head(inbox) = "result" -> Settle("success")
       [] Head(inbox) = "error message" -> Settle("error")
       [] Head(inbox) \in {"error", "exit 1"} -> Settle("crashed")
       [] Head(inbox) = "exit 0" -> UNCHANGED <<answer, timer>>
  /\ UNCHANGED <<setting, thread, ended, killed>>
Timeout ==
  /\ timer /\ killed' = TRUE
  /\ thread' = IF thread = "gone" THEN "gone" ELSE "dying"
  /\ Settle("timed out")
  /\ UNCHANGED <<setting, inbox, ended>>

Next ==
  \/ Execute \/ (\E how \in Endings : HandlerEnds(how))
  \/ ThreadExits \/ ThreadDies \/ Handle \/ Timeout

Spec == Init /\ [][Next]_vars

-----------------------------------------------------------------------------
(* Whatever arrives after it, and in whatever order, the answer tells what  *)
(* happened: a success was posted, a crash was the thread's own and not the *)
(* parent's terminate(), and one that timed out has no thread left to run.  *)
AnswerTellsWhatHappened ==
  /\ answer = "success" => ended = "result" /\ ~killed
  /\ answer = "error" => ended = "throw" /\ ~killed
  /\ answer = "crashed" => ended \in {"crash", "exit 1"} /\ ~killed
  /\ answer = "timed out" => killed /\ thread \in {"dying", "gone"}
  /\ answer = "pending" => thread = "none" \/ timer

(* "Hard kills the thread after timeoutMs" (the class comment): no thread   *)
(* of a settled run goes on.                                                *)
NoThreadIsLeft == answer # "pending" => thread # "posted"
=============================================================================
