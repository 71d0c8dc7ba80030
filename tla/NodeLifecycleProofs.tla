------------------------- MODULE NodeLifecycleProofs -------------------------
(***************************************************************************)
(* Proofs about NodeLifecycle, for any number of times the program is told *)
(* to quit.  The inductive invariant says how the two threads stand to     *)
(* each other: what the node has reported when init() returns, and that    *)
(* the initializer ends a node that did not fail only if deinit() said so. *)
(***************************************************************************)
EXTENDS NodeLifecycle, TLAPS

(* The GUI thread tells the node to stop on its way into deinit's wait. *)
StopOrder ==
  /\ stopped => pc \in {"stopping", "deinit", "join", "ended"}
  /\ pc \in {"stopping", "deinit", "join"} => stopped

(* A node that reports is alive until it is told to stop. *)
NodeOrder ==
  /\ pc = "start" => worker = "idle" /\ report = "none"
  /\ worker \in {"queued", "create"} => report = "none"
  /\ worker \in {"create", "serve"} => node = "alive"
  /\ report \in {"due", "ok"} =>
       \/ stopped
       \/ node = "alive" /\ worker \in {"serve", "idle"}
  /\ worker = "signal" => node = "none"
  /\ worker \in {"idle", "finished"} /\ pc # "start" =>
       node = "none" \/ threw

(* What init() knows when it returns. *)
InitOrder ==
  /\ pc \in {"start", "emitted"} => ~initCompleted
  /\ pc \in {"listening", "init"} /\ initCompleted => report = "ok"
  /\ started => report = "ok"
  /\ pc = "run" => started
  /\ pc \in InInit => ~started
  /\ pc \in InInit /\ quitNow => interrupted
  /\ posted # <<>> \/ exit # "no" \/ pc \notin InInit =>
       report \in {"ok", "failed"} \/ interrupted \/ threw

IInv ==
  /\ TypeOK
  /\ StopOrder
  /\ NodeOrder
  /\ InitOrder
  /\ SlotsOutliveInit
  /\ EndsClean

LEMMA InitIInv == Init => IInv
<1> SUFFICES ASSUME Init PROVE IInv
  OBVIOUS
<1>1. posted \in Seq({"zero", "error"}) /\ posted = <<>>
  BY DEF Init
<1>2. quits \in 0 .. MaxQuits
  BY QuitsAssumption DEF Init
<1>3. TypeOK
  BY <1>1, <1>2 DEF Init, TypeOK, InInit
<1> QED
  BY <1>1, <1>3
     DEF Init, IInv, StopOrder, NodeOrder, InitOrder, SlotsOutliveInit,
         EndsClean, InInit

(***************************************************************************)
(* What an emission leaves behind.                                         *)
(***************************************************************************)
LEMMA EmitOutcomeTyped ==
  ASSUME TypeOK, NEW ok \in BOOLEAN, EmitOutcome(ok)
  PROVE  /\ posted' \in Seq({"zero", "error"})
         /\ posted' # <<>> => posted # <<>> \/ pc = "init"
         /\ initCompleted' \in BOOLEAN
         /\ missed' \in BOOLEAN
         /\ stray' \in BOOLEAN
  BY DEF TypeOK, EmitOutcome, Post, InInit, InDeinit

LEMMA StepIInv == IInv /\ [Next]_vars => IInv'
<1> SUFFICES ASSUME IInv, [Next]_vars PROVE IInv'
  OBVIOUS
<1> USE QuitsAssumption
    DEF IInv, TypeOK, StopOrder, NodeOrder, InitOrder, SlotsOutliveInit,
        EndsClean, InInit, InDeinit, At, gui, loop, thread, history
<1>1. CASE EmitInit
  BY <1>1 DEF EmitInit
<1>2. CASE ConnectSlots
  BY <1>2 DEF ConnectSlots
<1>3. CASE WaitInit
  BY <1>3 DEF WaitInit
<1>4. CASE ReturnInit
  BY <1>4 DEF ReturnInit, InitSucceeded
<1>5. CASE Deliver
  BY <1>5 DEF Deliver
<1>6. CASE CheckNode
  BY <1>6 DEF CheckNode
<1>7. CASE StopNode
  <2>1. CASE node = "alive"
    <3>1. stopped' = TRUE /\ pc' = "stopping"
      BY <1>7, <2>1 DEF StopNode
    <3>2. TypeOK'
      BY <1>7, <3>1 DEF StopNode
    <3> QED
      BY <1>7, <3>1, <3>2 DEF StopNode
  <2>2. CASE node # "alive"
    BY <1>7, <2>2 DEF StopNode
  <2> QED
    BY <2>1, <2>2
<1>8. CASE WaitDeinit
  BY <1>8 DEF WaitDeinit
<1>9. CASE ReturnDeinit
  BY <1>9 DEF ReturnDeinit
<1>10. CASE JoinThread
  BY <1>10 DEF JoinThread
<1>11. CASE CreateNode
  BY <1>11 DEF CreateNode
<1>12. CASE FailNode
  BY <1>12, EmitOutcomeTyped DEF FailNode, EmitOutcome, Post
<1>13. CASE ServeNode
  BY <1>13 DEF ServeNode
<1>14. CASE EndNode
  BY <1>14 DEF EndNode
<1>15. CASE DeleteNode
  BY <1>15 DEF DeleteNode
<1>16. CASE ClearNode
  BY <1>16 DEF ClearNode
<1>17. CASE EmitDeinit
  BY <1>17 DEF EmitDeinit, Post
<1>18. CASE NodeReports
  <2> PICK ok \in BOOLEAN : Report(ok)
    BY <1>18 DEF NodeReports
  <2> QED
    BY EmitOutcomeTyped DEF Report, EmitOutcome, Post
<1>19. CASE ThrowNode
  <2>1. TypeOK'
    <3>1. /\ posted' \in Seq({"zero", "error"})
          /\ posted' # <<>> => posted # <<>> \/ pc = "init"
      BY <1>19, EmitOutcomeTyped DEF ThrowNode
    <3>2. /\ initCompleted' \in BOOLEAN
          /\ missed' \in BOOLEAN
          /\ stray' \in BOOLEAN
      BY <1>19, EmitOutcomeTyped DEF ThrowNode
    <3> QED
      BY <1>19, <3>1, <3>2 DEF ThrowNode
  <2>2. StopOrder' /\ NodeOrder'
    BY <1>19 DEF ThrowNode
  <2>3. InitOrder' /\ SlotsOutliveInit' /\ EndsClean'
    BY <1>19 DEF ThrowNode, EmitOutcome, Post
  <2> QED
    BY <2>1, <2>2, <2>3
<1>20. CASE Quit
  <2>1. TypeOK'
    BY <1>20 DEF Quit
  <2>2. StopOrder' /\ NodeOrder' /\ EndsClean'
    BY <1>20 DEF Quit
  <2>3. InitOrder' /\ SlotsOutliveInit'
    BY <1>20 DEF Quit
  <2> QED
    BY <2>1, <2>2, <2>3
<1>21. CASE UNCHANGED vars
  BY <1>21 DEF vars
<1> QED
  BY <1>1, <1>2, <1>3, <1>4, <1>5, <1>6, <1>7, <1>8, <1>9, <1>10, <1>11,
     <1>12, <1>13, <1>14, <1>15, <1>16, <1>17, <1>18, <1>19, <1>20, <1>21
     DEF Next, GuiStep, WorkerStep

LEMMA Inductive == Spec => []IInv
<1>1. Init => IInv
  BY InitIInv
<1>2. IInv /\ [Next]_vars => IInv'
  BY StepIInv
<1> QED
  BY <1>1, <1>2, PTL DEF Spec

(***************************************************************************)
(* The variables of NodeAdapter, of its two event loops and of the         *)
(* initializer keep their types, and calls are queued for an event loop    *)
(* only while it exists.                                                   *)
(***************************************************************************)
THEOREM TypeCorrect == Spec => []TypeOK
<1>1. IInv => TypeOK
  BY DEF IInv
<1> QED
  BY <1>1, Inductive, PTL

(***************************************************************************)
(* main() shows the window only on a node that exists and has reported     *)
(* success, whenever the program is told to quit.                          *)
(***************************************************************************)
THEOREM RunsOnlyOnNode == Spec => []RunsOnNode
<1>1. IInv => RunsOnNode
  BY DEF IInv, RunsOnNode, NodeOrder, InitOrder, StopOrder
<1> QED
  BY <1>1, Inductive, PTL

(***************************************************************************)
(* After a successful init() the node that deinit() calls still exists.    *)
(***************************************************************************)
THEOREM DeinitStopsLiveNode == Spec => []StopsLiveNode
<1>1. IInv => StopsLiveNode
  BY DEF IInv, StopsLiveNode, NodeOrder, InitOrder, StopOrder
<1> QED
  BY <1>1, Inductive, PTL

(***************************************************************************)
(* The slots of init() write to its local variable after it has returned   *)
(* only if it was interrupted or the node threw.                           *)
(***************************************************************************)
THEOREM SlotsRunOnce == Spec => []SlotsOutliveInit
<1>1. IInv => SlotsOutliveInit
  BY DEF IInv
<1> QED
  BY <1>1, Inductive, PTL

(***************************************************************************)
(* A program that has run ends with its thread joined and its node deleted *)
(* or abandoned by an exception.                                           *)
(***************************************************************************)
THEOREM ProgramEndsClean == Spec => []EndsClean
<1>1. IInv => EndsClean
  BY DEF IInv
<1> QED
  BY <1>1, Inductive, PTL
=============================================================================
