---------------------- MODULE OptimizationManagerProofs ----------------------
(***************************************************************************)
(* Proofs about OptimizationManager, for any number of rounds, outputs,    *)
(* queued events and things the user asks for.                             *)
(***************************************************************************)
EXTENDS OptimizationManager, TLAPS

(* Only an open wallet is loaded, and not while its failure is queued. *)
WalletOrder ==
  /\ loaded => open
  /\ FailurePosted => ~loaded

(* Whose mode the setting is while the check timer may start a run. *)
ModeKnown == checkTimer => late \/ (loaded /\ trackingMode = viewOnly)

IInv ==
  /\ TypeOK
  /\ WalletOrder
  /\ CheckedWhileStarted
  /\ ModeKnown

LEMMA ZeroTyped ==
  0 \in 0 .. MaxRounds /\ 0 \in 0 .. MaxOutputs /\ 0 \in 0 .. MaxUserActions
BY BoundsAssumption

LEMMA InitIInv == Init => IInv
<1> SUFFICES ASSUME Init PROVE IInv
  OBVIOUS
<1>1. queue \in Seq(Events) /\ queue = <<>>
  BY DEF Init
<1>2. TypeOK
  BY <1>1, ZeroTyped DEF Init, TypeOK
<1>3. ~FailurePosted
  BY <1>1 DEF FailurePosted
<1> QED
  BY <1>2, <1>3
     DEF Init, IInv, WalletOrder, CheckedWhileStarted, ModeKnown

(***************************************************************************)
(* What is posted and what is taken off the queue leaves the failure of a  *)
(* load where it was.                                                      *)
(***************************************************************************)
LEMMA PostedTyped ==
  ASSUME queue \in Seq(Events), NEW event \in Events,
         queue' = Append(queue, event)
  PROVE  /\ queue' \in Seq(Events)
         /\ FailurePosted' <=> FailurePosted \/ event = "failed"
<1>1. /\ queue' \in Seq(Events)
      /\ DOMAIN queue' = 1 .. Len(queue) + 1
      /\ \A i \in DOMAIN queue : i \in DOMAIN queue' /\ queue'[i] = queue[i]
      /\ queue'[Len(queue) + 1] = event
      /\ DOMAIN queue = 1 .. Len(queue)
      /\ Len(queue) \in Nat
  OBVIOUS
<1>2. \A i \in DOMAIN queue' : i \in DOMAIN queue \/ i = Len(queue) + 1
  BY <1>1
<1>3. FailurePosted' => FailurePosted \/ event = "failed"
  BY <1>1, <1>2 DEF FailurePosted
<1>4. FailurePosted \/ event = "failed" => FailurePosted'
  BY <1>1 DEF FailurePosted
<1> QED
  BY <1>1, <1>3, <1>4

LEMMA TakenTyped ==
  ASSUME queue \in Seq(Events), NEW event, Take(event)
  PROVE  /\ queue' \in Seq(Events)
         /\ event = "failed" => FailurePosted
         /\ FailurePosted' => FailurePosted
<1>1. /\ queue' \in Seq(Events)
      /\ 1 \in DOMAIN queue /\ queue[1] = event
      /\ \A i \in DOMAIN queue' :
           i + 1 \in DOMAIN queue /\ queue'[i] = queue[i + 1]
  BY DEF Take
<1>2. event = "failed" => FailurePosted
  BY <1>1 DEF FailurePosted
<1>3. FailurePosted' => FailurePosted
  BY <1>1, Zenon DEF FailurePosted
<1> QED
  BY <1>1, <1>2, <1>3

LEMMA UserActsTyped ==
  ASSUME userActions \in 0 .. MaxUserActions, UserActs
  PROVE  userActions' \in 0 .. MaxUserActions
BY BoundsAssumption DEF UserActs

LEMMA OptimizeTyped ==
  ASSUME TypeOK, NEW timer \in {"check", "optimization"}, Optimize(timer)
  PROVE  /\ round' \in 0 .. MaxRounds
         /\ seen' \in 0 .. MaxOutputs
         /\ within' \in {"none", "check", "optimization"}
BY BoundsAssumption
   DEF TypeOK, Optimize, NumUnlockedOutputs, run

LEMMA NextRoundTyped ==
  ASSUME TypeOK, NEW another \in BOOLEAN, NextRound(another),
         another => round < MaxRounds
  PROVE  /\ round' \in 0 .. MaxRounds
         /\ within' \in {"none", "check", "optimization"}
BY BoundsAssumption DEF TypeOK, NextRound
-----------------------------------------------------------------------------
LEMMA StepIInv == IInv /\ [Next]_vars => IInv'
<1> SUFFICES ASSUME IInv, [Next]_vars PROVE IInv'
  OBVIOUS
<1> USE DEF IInv, WalletOrder, CheckedWhileStarted, ModeKnown, TypeOK
<1> USE DEF wallet, settings, timers, run
<1>1. CASE UNCHANGED vars
  BY <1>1 DEF vars, FailurePosted
<1>2. ASSUME NEW event \in Events, WalletSays(event) PROVE IInv'
  <2>1. queue' \in Seq(Events) /\ (FailurePosted' <=> FailurePosted)
    BY <1>2, PostedTyped DEF WalletSays
  <2> QED
    BY <1>2, <2>1 DEF WalletSays
<1>3. CASE OutputsChange
  BY <1>3 DEF OutputsChange, FailurePosted
<1>4. CASE OpenWallet
  <2>1. userActions' \in 0 .. MaxUserActions
    BY <1>4, UserActsTyped DEF OpenWallet
  <2>2. CASE queue' = Append(queue, "opened") /\ loaded' = TRUE
    <3>1. queue' \in Seq(Events) /\ ~FailurePosted'
      BY <1>4, <2>2, PostedTyped DEF OpenWallet, UserActs, Events
    <3> QED
      BY <1>4, <2>1, <2>2, <3>1 DEF OpenWallet
  <2>3. CASE queue' = Append(queue, "failed") /\ UNCHANGED loaded
    <3>1. queue' \in Seq(Events)
      BY <2>3, PostedTyped DEF Events
    <3> QED
      BY <1>4, <2>1, <2>3, <3>1 DEF OpenWallet
  <2> QED
    BY <1>4, <2>2, <2>3 DEF OpenWallet
<1>5. CASE CreateWallet
  <2>1. userActions' \in 0 .. MaxUserActions
    BY <1>5, UserActsTyped DEF CreateWallet
  <2>2. ~FailurePosted'
    BY <1>5 DEF CreateWallet, UserActs, FailurePosted
  <2> QED
    BY <1>5, <2>1, <2>2 DEF CreateWallet
<1>6. CASE RescanWallet
  <2>1. queue \o <<"opened", "progress">>
          = Append(Append(queue, "opened"), "progress")
    OBVIOUS
  <2>2. queue' \in Seq(Events) /\ ~FailurePosted'
    <3>1. /\ queue' \in Seq(Events)
          /\ DOMAIN queue' = 1 .. Len(queue) + 2
          /\ \A i \in DOMAIN queue : queue'[i] = queue[i]
          /\ queue'[Len(queue) + 1] = "opened"
          /\ queue'[Len(queue) + 2] = "progress"
          /\ DOMAIN queue = 1 .. Len(queue)
          /\ Len(queue) \in Nat
      BY <1>6, <2>1 DEF RescanWallet, Events
    <3>2. \A i \in DOMAIN queue' :
            \/ i \in DOMAIN queue
            \/ i = Len(queue) + 1
            \/ i = Len(queue) + 2
      BY <3>1
    <3> QED
      BY <1>6, <3>1, <3>2 DEF RescanWallet, UserActs, FailurePosted
  <2>3. userActions' \in 0 .. MaxUserActions
    BY <1>6, UserActsTyped DEF RescanWallet
  <2> QED
    BY <1>6, <2>2, <2>3, ZeroTyped DEF RescanWallet
<1>7. CASE CloseWallet
  <2>1. userActions' \in 0 .. MaxUserActions
    BY <1>7, UserActsTyped DEF CloseWallet
  <2>2. ~FailurePosted'
    BY <1>7 DEF CloseWallet, UserActs, FailurePosted
  <2> QED
    BY <1>7, <2>1, <2>2, ZeroTyped DEF CloseWallet, NoWallet
<1>8. CASE ToggleAuto
  BY <1>8, UserActsTyped DEF ToggleAuto, UserActs, FailurePosted
<1>9. CASE OnOpened
  <2>1. queue' \in Seq(Events) /\ (FailurePosted' => FailurePosted)
    BY <1>9, TakenTyped DEF OnOpened
  <2> QED
    BY <1>9, <2>1 DEF OnOpened, CheckTrackingMode, Without
<1>10. CASE OnFailed
  <2>1. queue' \in Seq(Events) /\ FailurePosted
    BY <1>10, TakenTyped DEF OnFailed
  <2> QED
    BY <1>10, <2>1, ZeroTyped DEF OnFailed, NoWallet
<1>11. CASE OnProgress
  <2>1. queue' \in Seq(Events) /\ (FailurePosted' => FailurePosted)
    BY <1>11, TakenTyped DEF OnProgress
  <2> QED
    BY <1>11, <2>1 DEF OnProgress
<1>12. CASE OnCompleted
  <2>1. queue' \in Seq(Events) /\ (FailurePosted' => FailurePosted)
    BY <1>12, TakenTyped DEF OnCompleted
  <2> QED
    BY <1>12, <2>1 DEF OnCompleted
<1>13. CASE CheckOptimization
  <2>1. /\ round' \in 0 .. MaxRounds
        /\ seen' \in 0 .. MaxOutputs
        /\ within' \in {"none", "check", "optimization"}
    <3>1. CASE Optimize("check")
      BY <3>1, OptimizeTyped
    <3>2. CASE ~Optimize("check")
      BY <1>13, <3>2 DEF CheckOptimization, Without
    <3> QED
      BY <3>1, <3>2
  <2> QED
    BY <1>13, <2>1 DEF CheckOptimization, FailurePosted
<1>14. CASE OptimizationTimer
  <2>1. /\ round' \in 0 .. MaxRounds
        /\ seen' \in 0 .. MaxOutputs
        /\ within' \in {"none", "check", "optimization"}
    BY <1>14, OptimizeTyped DEF OptimizationTimer
  <2> QED
    BY <1>14, <2>1 DEF OptimizationTimer, FailurePosted
<1>15. CASE EndDelay
  <2>1. /\ round' \in 0 .. MaxRounds
        /\ within' \in {"none", "check", "optimization"}
    BY <1>15, NextRoundTyped DEF EndDelay
  <2> QED
    BY <1>15, <2>1 DEF EndDelay, NextRound, FailurePosted
<1> QED
  BY <1>1, <1>2, <1>3, <1>4, <1>5, <1>6, <1>7, <1>8, <1>9, <1>10, <1>11,
     <1>12, <1>13, <1>14, <1>15
     DEF Next, WalletStep, UserStep, Deliver

LEMMA Inductive == Spec => []IInv
<1>1. Init => IInv
  BY InitIInv
<1>2. IInv /\ [Next]_vars => IInv'
  BY StepIInv
<1> QED
  BY <1>1, <1>2, PTL DEF Spec
-----------------------------------------------------------------------------
(***************************************************************************)
(* The timers, the run and the settings keep their types; a run never      *)
(* makes more than MaxRounds optimizations.                                *)
(***************************************************************************)
THEOREM TypeCorrect == Spec => []TypeOK
<1>1. IInv => TypeOK
  BY DEF IInv
<1> QED
  BY <1>1, Inductive, PTL

(***************************************************************************)
(* The optimization timer never outlives the check timer.                  *)
(***************************************************************************)
THEOREM CheckTimerOutlives == Spec => []CheckedWhileStarted
<1>1. IInv => CheckedWhileStarted
  BY DEF IInv
<1> QED
  BY <1>1, Inductive, PTL

(***************************************************************************)
(* Only three actions call optimizeWallet(), each after it has looked at   *)
(* the outputs of the open wallet.                                         *)
(***************************************************************************)
LEMMA StepOptimizes ==
  ASSUME TypeOK, [Next]_vars, Optimizes
  PROVE  /\ open /\ outputs > Enough
         /\ round = 0 => ~trackingMode /\ (checkTimer \/ optimizationTimer)
<1> USE DEF TypeOK, Optimizes, wallet, settings, timers, run
<1>1. CASE CheckOptimization
  BY <1>1 DEF CheckOptimization, Optimize, NumUnlockedOutputs
<1>2. CASE OptimizationTimer
  BY <1>2 DEF OptimizationTimer, Optimize, NumUnlockedOutputs
<1>3. CASE EndDelay
  BY <1>3, BoundsAssumption DEF EndDelay, NextRound, NumUnlockedOutputs
<1>4. CASE UNCHANGED round
  BY <1>4
<1> QED
  BY <1>1, <1>2, <1>3, <1>4
     DEF Next, vars, WalletStep, WalletSays, OutputsChange, UserStep,
         OpenWallet, CreateWallet, RescanWallet, CloseWallet, ToggleAuto,
         Deliver, OnOpened, OnFailed, OnProgress, OnCompleted

(***************************************************************************)
(* optimizeWallet() is called on an open wallet that needs it, whatever    *)
(* the nested event loop of the run has delivered.                         *)
(***************************************************************************)
THEOREM OptimizesOnlyOpenWallet == Spec => OptimizesOpenWallet
<1>1. IInv /\ [Next]_vars => [Optimizes => open /\ outputs > Enough]_vars
  BY StepOptimizes DEF IInv
<1> QED
  BY <1>1, Inductive, PTL DEF Spec, OptimizesOpenWallet

(***************************************************************************)
(* No run begins on a tracking wallet unless a late signal has started the *)
(* timers.                                                                 *)
(***************************************************************************)
THEOREM StartsOnlyOnSpendable == Spec => StartsOnSpendable
<1>1. IInv /\ [Next]_vars => [Optimizes /\ round = 0 => ~viewOnly \/ late]_vars
  BY StepOptimizes DEF IInv, ModeKnown, CheckedWhileStarted
<1> QED
  BY <1>1, Inductive, PTL DEF Spec, StartsOnSpendable
=============================================================================
