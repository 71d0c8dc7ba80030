---------------------------- MODULE NodeLifecycle ----------------------------
(***************************************************************************)
(* The life of the node: main() and NodeAdapter on the GUI thread, the     *)
(* node initializer on a thread of its own, and the thread of the node     *)
(* library that reports how the initialization went.                       *)
(*                                                                         *)
(* NodeAdapter::init and deinit each run an event loop of their own        *)
(* (waitLoop), which ends when a signal of the initializer is delivered to *)
(* it.  The two slots that set initCompleted have no receiver object: they *)
(* run on the thread that emits, and they stay connected after init() has  *)
(* returned, although they refer to its local variable.                    *)
(***************************************************************************)
EXTENDS Naturals, Sequences

CONSTANT MaxQuits            (* bound: how often the program is told to quit *)

ASSUME QuitsAssumption == MaxQuits \in Nat

VARIABLES
  kind,           (* which initializer runs: "inprocess" or "rpc"          *)
  pc,             (* where the GUI thread is                               *)
  initCompleted,  (* the local variable of init()                          *)
  started,        (* what init() returned to main()                        *)
  exit,           (* how waitLoop was told to end: "no", "zero", "error"   *)
  posted,         (* the calls of waitLoop's quit and exit that are queued *)
  quitNow,        (* Qt's flag: no nested event loop of the thread starts  *)
  worker,         (* where the initializer's thread is                     *)
  node,           (* what m_node points to: "none", "alive", "deleted"     *)
  report,         (* the node's report: "none", "due", "ok", "failed"      *)
  stopped,        (* the node has been told to stop                        *)
  quits,          (* how often the program was told to quit                *)
  missed,         (* history: a signal was emitted before waitLoop was     *)
                  (* connected to it                                       *)
  interrupted,    (* history: told to quit before init() returned          *)
  threw,          (* history: the node threw an exception                  *)
  stray           (* history: a slot wrote to initCompleted after init()   *)

loop    == <<exit, posted, quitNow>>
gui     == <<pc, started, loop>>
thread  == <<worker, node, report, stopped>>
history == <<quits, missed, interrupted, threw, stray>>
vars    == <<kind, gui, initCompleted, thread, history>>

InInit    == {"start", "emitted", "listening", "init"}
InDeinit  == {"check", "stop", "stopping", "deinit", "join"}

TypeOK ==
  /\ kind \in {"inprocess", "rpc"}
  /\ pc \in InInit \cup {"run"} \cup InDeinit \cup {"ended", "crashed"}
  /\ initCompleted \in BOOLEAN
  /\ started \in BOOLEAN
  /\ exit \in {"no", "zero", "error"}
  /\ posted \in Seq({"zero", "error"})
  /\ quitNow \in BOOLEAN
  /\ worker \in {"idle", "queued", "create", "serve", "delete", "clear",
                 "signal", "finished"}
  /\ node \in {"none", "alive", "deleted"}
  /\ report \in {"none", "due", "ok", "failed"}
  /\ stopped \in BOOLEAN
  /\ quits \in 0 .. MaxQuits
  /\ missed \in BOOLEAN
  /\ interrupted \in BOOLEAN
  /\ threw \in BOOLEAN
  /\ stray \in BOOLEAN
  /\ posted # <<>> => pc \in {"init", "deinit"}

Init ==
  /\ kind \in {"inprocess", "rpc"}
  /\ pc = "start"
  /\ initCompleted = FALSE
  /\ started = FALSE
  /\ exit = "no"
  /\ posted = <<>>
  /\ quitNow = FALSE
  /\ worker = "idle"
  /\ node = "none"
  /\ report = "none"
  /\ stopped = FALSE
  /\ quits = 0
  /\ missed = FALSE
  /\ interrupted = FALSE
  /\ threw = FALSE
  /\ stray = FALSE
-----------------------------------------------------------------------------
(* The GUI thread. *)

At(here, there) == pc = here /\ pc' = there

(* Start the thread and ask it to start the node.  The initializer is not  *)
(* waited for: it may report before the signals are connected.             *)
EmitInit ==
  /\ At("start", "emitted")
  /\ worker' = "queued"
  /\ UNCHANGED <<kind, started, loop, initCompleted, node, report, stopped,
                 history>>

ConnectSlots ==
  /\ At("emitted", "listening")
  /\ UNCHANGED <<kind, started, loop, initCompleted, thread, history>>

(* Connect waitLoop and run it, which a pending quit prevents. *)
WaitInit ==
  /\ At("listening", IF quitNow THEN "check" ELSE "init")
  /\ UNCHANGED <<kind, started, loop, initCompleted, thread, history>>

(* Mutant: the result of the wait is the result of init(). *)
InitUnchecked == exit = "zero"

InitSucceeded == exit = "zero" /\ initCompleted

(* init() returns; main() shows the window and runs the application, which *)
(* forgets a pending quit, or calls deinit().                              *)
ReturnInit ==
  /\ At("init", IF InitSucceeded THEN "run" ELSE "check")
  /\ exit # "no"
  /\ started' = InitSucceeded
  /\ quitNow' = (quitNow /\ ~InitSucceeded)
  /\ exit' = "no"
  /\ posted' = <<>>
  /\ UNCHANGED <<kind, initCompleted, thread, history>>

(* waitLoop is delivered a call of quit or exit. *)
Deliver ==
  /\ pc \in {"init", "deinit"}
  /\ posted # <<>>
  /\ exit' = Head(posted)
  /\ posted' = Tail(posted)
  /\ UNCHANGED <<kind, pc, started, quitNow, initCompleted, thread, history>>

(* The user or a signal of the operating system ends the program: every    *)
(* event loop that runs is told to end.  The application's own loop clears *)
(* the flag before it emits aboutToQuit, whose slot calls deinit().        *)
Quit ==
  /\ quits < MaxQuits
  /\ quits' = quits + 1
  /\ pc \in InInit \cup {"run"} \cup InDeinit
  /\ pc' = IF pc = "run" THEN "check" ELSE pc
  /\ quitNow' = (quitNow \/ pc # "run")
  /\ exit' = IF pc \in {"init", "deinit"} THEN "zero" ELSE exit
  /\ interrupted' = (interrupted \/ pc \in InInit)
  /\ UNCHANGED <<kind, started, posted, initCompleted, thread, missed, threw,
                 stray>>

CheckNode ==
  /\ At("check", IF node = "none" THEN "ended" ELSE "stop")
  /\ UNCHANGED <<kind, started, loop, initCompleted, thread, history>>

(* stop(&m_node) calls the node, which the initializer may have deleted    *)
(* since m_node was tested.                                                *)
StopNode ==
  /\ At("stop", IF node = "alive" THEN "stopping" ELSE "crashed")
  /\ stopped' = (stopped \/ node = "alive")
  /\ UNCHANGED <<kind, started, loop, initCompleted, worker, node, report,
                 history>>

WaitDeinit ==
  /\ At("stopping", IF quitNow THEN "join" ELSE "deinit")
  /\ UNCHANGED <<kind, started, loop, initCompleted, thread, history>>

ReturnDeinit ==
  /\ At("deinit", "join")
  /\ exit # "no"
  /\ posted' = <<>>
  /\ UNCHANGED <<kind, started, exit, quitNow, initCompleted, thread, history>>

(* Mutant: the thread is told to end and not waited for. *)
QuitThread ==
  /\ At("join", "ended")
  /\ UNCHANGED <<kind, started, loop, initCompleted, thread, history>>

(* quit() and wait(): the thread ends when the slot it runs has returned. *)
JoinThread ==
  /\ At("join", "ended")
  /\ worker = "idle"
  /\ worker' = "finished"
  /\ UNCHANGED <<kind, started, loop, initCompleted, node, report, stopped,
                 history>>
-----------------------------------------------------------------------------
(* The thread of the initializer and the node. *)

(* A signal whose receiver is waitLoop is queued if waitLoop is connected  *)
(* to it; what is queued is dropped when waitLoop is destroyed.            *)
Post(call, early, connected) ==
  /\ posted' = IF connected THEN Append(posted, call) ELSE posted
  /\ missed' = (missed \/ pc \in early)

(* nodeInitCompletedSignal or nodeInitFailedSignal. *)
EmitOutcome(ok) ==
  /\ Post(IF ok THEN "zero" ELSE "error", {"emitted", "listening"},
          pc = "init")
  /\ initCompleted' = IF pc \in {"listening", "init"} THEN ok
                                                      ELSE initCompleted
  /\ stray' = (stray \/ pc \notin InInit)

(* start(): the node is created and its init() runs. *)
CreateNode ==
  /\ worker = "queued"
  /\ node' = "alive"
  /\ worker' = "create"
  /\ UNCHANGED <<kind, gui, initCompleted, report, stopped, history>>

(* The embedded node could not be initialized: its init() calls back and   *)
(* returns.                                                                *)
FailNode ==
  /\ worker = "create"
  /\ kind = "inprocess"
  /\ EmitOutcome(FALSE)
  /\ worker' = "delete"
  /\ report' = "failed"
  /\ UNCHANGED <<kind, pc, started, exit, quitNow, node, stopped, quits,
                 interrupted, threw>>

(* The node library is told whom to call back, and the node runs until it  *)
(* is told to stop.                                                        *)
ServeNode ==
  /\ worker = "create"
  /\ worker' = "serve"
  /\ report' = "due"
  /\ UNCHANGED <<kind, gui, initCompleted, node, stopped, history>>

(* The callback of the node library, on a thread of its own. *)
Report(ok) ==
  /\ report = "due"
  /\ node = "alive"
  /\ EmitOutcome(ok)
  /\ report' = IF ok THEN "ok" ELSE "failed"
  /\ UNCHANGED <<kind, pc, started, exit, quitNow, worker, node, stopped,
                 quits, interrupted, threw>>

(* Mutant: an exception ends the node as any other end does. *)
DeleteThrown ==
  /\ worker \in {"create", "serve"}
  /\ EmitOutcome(FALSE)
  /\ worker' = "delete"
  /\ threw' = TRUE
  /\ UNCHANGED <<kind, pc, started, exit, quitNow, node, report, stopped,
                 quits, interrupted>>

(* The node throws: start() returns and leaves the node as it is. *)
ThrowNode ==
  /\ worker \in {"create", "serve"}
  /\ EmitOutcome(FALSE)
  /\ worker' = "idle"
  /\ threw' = TRUE
  /\ UNCHANGED <<kind, pc, started, exit, quitNow, node, report, stopped,
                 quits, interrupted>>

EndNode ==
  /\ worker = "serve"
  /\ stopped
  /\ worker' = "delete"
  /\ UNCHANGED <<kind, gui, initCompleted, node, report, stopped, history>>

DeleteNode ==
  /\ worker = "delete"
  /\ node' = "deleted"
  /\ worker' = "clear"
  /\ UNCHANGED <<kind, gui, initCompleted, report, stopped, history>>

ClearNode ==
  /\ worker = "clear"
  /\ node' = "none"
  /\ worker' = "signal"
  /\ UNCHANGED <<kind, gui, initCompleted, report, stopped, history>>

(* Mutant: the end of the node is not signalled. *)
EndSilently ==
  /\ worker = "signal"
  /\ worker' = "idle"
  /\ UNCHANGED <<kind, gui, initCompleted, node, report, stopped, history>>

(* nodeDeinitCompletedSignal. *)
EmitDeinit ==
  /\ worker = "signal"
  /\ Post("zero", {"stop", "stopping"}, pc = "deinit")
  /\ worker' = "idle"
  /\ UNCHANGED <<kind, pc, started, exit, quitNow, initCompleted, node, report,
                 stopped, quits, interrupted, threw, stray>>
-----------------------------------------------------------------------------
GuiStep ==
  \/ EmitInit \/ ConnectSlots \/ WaitInit \/ ReturnInit
  \/ Deliver
  \/ CheckNode \/ StopNode \/ WaitDeinit \/ ReturnDeinit \/ JoinThread

WorkerStep ==
  \/ CreateNode \/ FailNode \/ ServeNode
  \/ EndNode \/ DeleteNode \/ ClearNode \/ EmitDeinit

NodeReports == \E ok \in BOOLEAN : Report(ok)

Next == GuiStep \/ WorkerStep \/ NodeReports \/ ThrowNode \/ Quit

Spec == Init /\ [][Next]_vars

(***************************************************************************)
(* Both threads go on while they can, and the node library reports at last *)
(* (its callback is all init() waits for).  Nothing makes the program      *)
(* quit, and nothing makes the node throw.                                 *)
(***************************************************************************)
Fairness == WF_vars(GuiStep) /\ WF_vars(WorkerStep) /\ WF_vars(NodeReports)

FairSpec == Spec /\ Fairness
-----------------------------------------------------------------------------
(***************************************************************************)
(* The window is shown and the wallets are opened on a node that exists    *)
(* and has reported success, however the initialization was interrupted.   *)
(***************************************************************************)
RunsOnNode == pc = "run" => node = "alive" /\ report = "ok"

(***************************************************************************)
(* Once init() has succeeded nobody but deinit() ends the node: the node   *)
(* it tells to stop still exists, also if the node has thrown in between.  *)
(***************************************************************************)
StopsLiveNode == started /\ pc \in {"check", "stop"} => node = "alive"

(***************************************************************************)
(* The slots that refer to the local variable of init() run after it has   *)
(* returned only if the program was told to quit during init() or the node *)
(* threw: the node does not report twice.                                  *)
(***************************************************************************)
SlotsOutliveInit == stray => interrupted \/ threw

(***************************************************************************)
(* When the program has run and ends, the initializer's thread has ended   *)
(* before and has deleted the node, unless it left start() by an exception.*)
(***************************************************************************)
EndsClean ==
  started /\ pc = "ended" => worker = "finished" /\ (node = "none" \/ threw)

(***************************************************************************)
(* init() and deinit() come to an end, unless their wait missed the signal *)
(* it is for or the node threw, after which deinit() waits for a signal    *)
(* that nobody emits.                                                      *)
(***************************************************************************)
InitReturns   == pc \in InInit ~> pc \notin InInit \/ missed
DeinitReturns ==
  pc \in InDeinit ~> pc \in {"ended", "crashed"} \/ missed \/ threw

WaitsEnd == InitReturns /\ DeinitReturns
=============================================================================
