------------------------ MODULE OptimizationManager ------------------------
(***************************************************************************)
(* Automatic optimization: OptimizationManager, all of it on the GUI       *)
(* thread.  A check timer that runs while a wallet is open starts and      *)
(* stops an optimization timer, and each of them may begin a run of up to  *)
(* MaxRounds optimizations.  Between two rounds the run waits in an event  *)
(* loop of its own, which delivers everything the main one does: timers,   *)
(* events of the wallet, the user closing the wallet and opening another.  *)
(*                                                                         *)
(* WalletAdapter's signals for an opened wallet and for the state of the   *)
(* synchronization come from the wallet thread and are queued; its signal  *)
(* that the wallet was closed is a direct call.                            *)
(***************************************************************************)
EXTENDS Naturals, Sequences

CONSTANTS
  Enough,          (* 100: more unlocked outputs than that are optimized   *)
  MaxRounds,       (* 3                                                    *)
  MaxOutputs,      (* bound: unlocked outputs of a wallet                  *)
  MaxPosted,       (* bound: events queued when the wallet thread posts    *)
  MaxUserActions   (* bound: things the user asks for                      *)

ASSUME BoundsAssumption ==
  /\ Enough \in Nat
  /\ MaxRounds \in Nat \ {0}
  /\ MaxOutputs \in Nat
  /\ MaxPosted \in Nat
  /\ MaxUserActions \in Nat

VARIABLES
  open,            (* m_wallet != nullptr                                  *)
  loaded,          (* it was loaded from its file, which is signalled      *)
  viewOnly,        (* it has no spend key                                  *)
  synced,          (* the last thing it said of its synchronization        *)
  outputs,         (* its unlocked outputs                                 *)
  autoEnabled,     (* the setting of automatic optimization                *)
  trackingMode,    (* the setting of tracking wallets                      *)
  queue,           (* events posted to the GUI thread                      *)
  checkTimer,      (* m_checkTimerId is a timer                            *)
  optimizationTimer, (* m_optimizationTimerId is a timer                   *)
  isSynchronized,  (* m_isSynchronized                                     *)
  round,           (* the optimizations of the run under way; 0 is no run, *)
                   (* that is ~m_isOptimizing                              *)
  seen,            (* trackNumUnlockedOutputs                              *)
  within,          (* the timer whose event the run is part of: it does    *)
                   (* not expire again before its event is handled         *)
  late,            (* history: a loaded wallet was signalled after it had  *)
                   (* been closed and no other one was loaded              *)
  userActions      (* history: things the user asked for so far            *)

wallet   == <<open, loaded, viewOnly, synced, outputs>>
settings == <<autoEnabled, trackingMode>>
timers   == <<checkTimer, optimizationTimer>>
run      == <<round, seen, within>>
vars     == <<wallet, settings, queue, timers, isSynchronized, run, late,
              userActions>>

Events == {"opened", "failed", "progress", "completed"}

TypeOK ==
  /\ open \in BOOLEAN
  /\ loaded \in BOOLEAN
  /\ viewOnly \in BOOLEAN
  /\ synced \in BOOLEAN
  /\ outputs \in 0 .. MaxOutputs
  /\ autoEnabled \in BOOLEAN
  /\ trackingMode \in BOOLEAN
  /\ queue \in Seq(Events)
  /\ checkTimer \in BOOLEAN
  /\ optimizationTimer \in BOOLEAN
  /\ isSynchronized \in BOOLEAN
  /\ round \in 0 .. MaxRounds
  /\ seen \in 0 .. MaxOutputs
  /\ within \in {"none", "check", "optimization"}
  /\ late \in BOOLEAN
  /\ userActions \in 0 .. MaxUserActions

Init ==
  /\ open = FALSE
  /\ loaded = FALSE
  /\ viewOnly = FALSE
  /\ synced = FALSE
  /\ outputs = 0
  /\ autoEnabled \in BOOLEAN
  /\ trackingMode \in BOOLEAN
  /\ queue = <<>>
  /\ checkTimer = FALSE
  /\ optimizationTimer = FALSE
  /\ isSynchronized = FALSE
  /\ round = 0
  /\ seen = 0
  /\ within = "none"
  /\ late = FALSE
  /\ userActions = 0
-----------------------------------------------------------------------------
(* The wallet thread. *)

FailurePosted == "failed" \in {queue[i] : i \in DOMAIN queue}

WalletSays(event) ==
  /\ open
  /\ ~FailurePosted
  /\ Len(queue) < MaxPosted
  /\ event \in {"progress", "completed"}
  /\ synced' = (event = "completed")
  /\ queue' = Append(queue, event)
  /\ UNCHANGED <<open, loaded, viewOnly, outputs, settings, timers,
                 isSynchronized, run, late, userActions>>

(* An optimization, a payment or a block changes the unlocked outputs. *)
OutputsChange ==
  /\ open
  /\ ~FailurePosted
  /\ outputs' \in 0 .. MaxOutputs
  /\ UNCHANGED <<open, loaded, viewOnly, synced, settings, queue, timers,
                 isSynchronized, run, late, userActions>>
-----------------------------------------------------------------------------
(* What the user does, also while a run waits.  The event of a failed load *)
(* is in the queue before the user can react to it.                        *)

UserActs ==
  /\ ~FailurePosted
  /\ userActions < MaxUserActions
  /\ userActions' = userActions + 1

(* open(): the load succeeds or fails.  load() that throws leaves no wallet *)
(* and changes nothing.                                                    *)
OpenWallet ==
  /\ UserActs
  /\ ~open
  /\ open' = TRUE
  /\ \/ /\ loaded' = TRUE
        /\ viewOnly' \in BOOLEAN
        /\ outputs' \in 0 .. MaxOutputs
        /\ queue' = Append(queue, "opened")
     \/ /\ queue' = Append(queue, "failed")
        /\ UNCHANGED <<loaded, viewOnly, outputs>>
  /\ UNCHANGED <<synced, settings, timers, isSynchronized, run, late>>

(* createWallet() for the seed to be shown, or open() without a file.      *)
CreateWallet ==
  /\ UserActs
  /\ ~open
  /\ open' = TRUE
  /\ viewOnly' = FALSE
  /\ UNCHANGED <<loaded, synced, outputs, settings, queue, timers,
                 isSynchronized, run, late>>

(* A rescan loads the wallet again, which signals that it is opened. *)
RescanWallet ==
  /\ UserActs
  /\ open
  /\ loaded' = TRUE
  /\ outputs' = 0
  /\ synced' = FALSE
  /\ queue' = queue \o <<"opened", "progress">>
  /\ UNCHANGED <<open, viewOnly, settings, timers, isSynchronized, run, late>>

NoWallet ==
  /\ open' = FALSE
  /\ loaded' = FALSE
  /\ synced' = FALSE
  /\ outputs' = 0

(* close() and walletClosed(). *)
CloseWallet ==
  /\ UserActs
  /\ open
  /\ NoWallet
  /\ isSynchronized' = FALSE
  /\ checkTimer' = FALSE
  /\ optimizationTimer' = FALSE
  /\ within' = "none"
  /\ UNCHANGED <<viewOnly, settings, queue, round, seen, late>>

(* autoOptimizeClicked(). *)
ToggleAuto ==
  /\ UserActs
  /\ ~trackingMode
  /\ autoEnabled' = ~autoEnabled
  /\ UNCHANGED <<wallet, trackingMode, queue, timers, isSynchronized, run,
                 late>>
-----------------------------------------------------------------------------
(* Events of the wallet. *)

Take(event) ==
  /\ queue # <<>>
  /\ Head(queue) = event
  /\ queue' = Tail(queue)

(* The timer is killed or replaced; a new one may expire. *)
Without(timer) == IF within = timer THEN "none" ELSE within

(* MainWindow's checkTrackingMode().  Without a wallet the keys that tell  *)
(* a tracking wallet are read uninitialized.                               *)
CheckTrackingMode == trackingMode' \in IF open THEN {viewOnly} ELSE BOOLEAN

(* Mutant: the mode of the wallet before is kept. *)
OnOpenedSameMode ==
  /\ Take("opened")
  /\ checkTimer' = TRUE
  /\ within' = Without("check")
  /\ late' = (late \/ ~loaded)
  /\ UNCHANGED <<wallet, settings, optimizationTimer, isSynchronized, round,
                 seen, userActions>>

(* walletOpened(). *)
OnOpened ==
  /\ Take("opened")
  /\ CheckTrackingMode
  /\ checkTimer' = TRUE
  /\ within' = Without("check")
  /\ late' = (late \/ ~loaded)
  /\ UNCHANGED <<wallet, autoEnabled, optimizationTimer, isSynchronized,
                 round, seen, userActions>>

(* The wallet that could not be loaded is destroyed and not closed. *)
OnFailed ==
  /\ Take("failed")
  /\ NoWallet
  /\ UNCHANGED <<viewOnly, settings, timers, isSynchronized, run, late,
                 userActions>>

OnProgress ==
  /\ Take("progress")
  /\ isSynchronized' = FALSE
  /\ UNCHANGED <<wallet, settings, timers, run, late, userActions>>

OnCompleted ==
  /\ Take("completed")
  /\ isSynchronized' = TRUE
  /\ UNCHANGED <<wallet, settings, timers, run, late, userActions>>
-----------------------------------------------------------------------------
(* The timers. *)

(* getNumUnlockedOutputs(). *)
NumUnlockedOutputs == IF open THEN outputs ELSE 0

(* optimize() up to the first wait, in an event of timer. *)
Optimize(timer) ==
  IF /\ round = 0
     /\ ~trackingMode /\ open /\ isSynchronized
     /\ NumUnlockedOutputs > Enough
  THEN round' = 1 /\ seen' = NumUnlockedOutputs /\ within' = timer
  ELSE UNCHANGED run

(* checkOptimization(): ensureStarted() or ensureStopped().  The interval  *)
(* is a constant, so a timer that runs is never replaced.                  *)
CheckOptimization ==
  /\ checkTimer /\ within # "check"
  /\ optimizationTimer' = (autoEnabled /\ open)
  /\ \/ /\ optimizationTimer' /\ ~optimizationTimer
        /\ Optimize("check")
     \/ /\ optimizationTimer' /\ optimizationTimer
        /\ UNCHANGED run
     \/ /\ ~optimizationTimer'
        /\ within' = Without("optimization")
        /\ UNCHANGED <<round, seen>>
  /\ UNCHANGED <<wallet, settings, queue, checkTimer, isSynchronized, late,
                 userActions>>

OptimizationTimer ==
  /\ optimizationTimer /\ within # "optimization"
  /\ Optimize("optimization")
  /\ UNCHANGED <<wallet, settings, queue, timers, isSynchronized, late,
                 userActions>>

(* The next round or the end of the run. *)
NextRound(another) ==
  /\ round' = IF another THEN round + 1 ELSE 0
  /\ within' = IF another THEN within ELSE "none"
  /\ UNCHANGED <<wallet, settings, queue, timers, isSynchronized, seen, late,
                 userActions>>

(* Mutant: the outputs are not counted again after the wait. *)
EndDelayUncounted ==
  /\ round > 0
  /\ NextRound(round < MaxRounds)

(* Mutant: a run that finds other outputs waits on. *)
EndDelayWaitsOn ==
  /\ round > 0
  /\ NumUnlockedOutputs = seen
  /\ NextRound(NumUnlockedOutputs > Enough /\ round < MaxRounds)

(* The wait is over. *)
EndDelay ==
  /\ round > 0
  /\ NextRound(/\ NumUnlockedOutputs = seen
               /\ NumUnlockedOutputs > Enough
               /\ round < MaxRounds)
-----------------------------------------------------------------------------
WalletStep == OutputsChange \/ \E event \in Events : WalletSays(event)
UserStep   ==
  OpenWallet \/ CreateWallet \/ RescanWallet \/ CloseWallet \/ ToggleAuto
Deliver    == OnOpened \/ OnFailed \/ OnProgress \/ OnCompleted

Next ==
  \/ WalletStep \/ UserStep \/ Deliver
  \/ CheckOptimization \/ OptimizationTimer \/ EndDelay

Spec == Init /\ [][Next]_vars

(***************************************************************************)
(* The event loop delivers what is queued and runs each timer that has     *)
(* expired.  Nothing makes the wallet or the user act.                     *)
(***************************************************************************)
Fairness ==
  /\ WF_vars(Deliver)
  /\ WF_vars(CheckOptimization)
  /\ WF_vars(OptimizationTimer)
  /\ WF_vars(EndDelay)

FairSpec == Spec /\ Fairness
-----------------------------------------------------------------------------
(* optimizeWallet() is called. *)
Optimizes == round' > round

(***************************************************************************)
(* optimizeWallet(), which does not look, is called on an open wallet with *)
(* outputs enough, although the wallet may have been closed or replaced    *)
(* since the run began.                                                    *)
(***************************************************************************)
OptimizesOpenWallet ==
  [][Optimizes => open /\ outputs > Enough]_vars

(***************************************************************************)
(* No run begins on a tracking wallet, although the setting that tells one *)
(* is only updated when its signal is delivered, unless the signal of an   *)
(* earlier wallet was delivered after that wallet had been closed, with no *)
(* other one loaded, and started a timer.                                  *)
(***************************************************************************)
StartsOnSpendable ==
  [][Optimizes /\ round = 0 => ~viewOnly \/ late]_vars

(***************************************************************************)
(* The optimization timer never outlives the check timer, which is all     *)
(* that would stop it when the user disables automatic optimization.       *)
(***************************************************************************)
CheckedWhileStarted == optimizationTimer => checkTimer

(***************************************************************************)
(* A loaded wallet that stays open, synchronized and in need of            *)
(* optimization is optimized again and again while automatic optimization  *)
(* is enabled, whatever runs, timers and signals are left over from        *)
(* wallets before it.                                                      *)
(***************************************************************************)
Eligible ==
  open /\ loaded /\ synced /\ ~viewOnly /\ autoEnabled /\ outputs > Enough
KeepsOptimizing == <>[]Eligible => []<><<Optimizes>>_vars
=============================================================================
