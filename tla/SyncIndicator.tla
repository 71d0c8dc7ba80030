---------------------------- MODULE SyncIndicator ----------------------------
(***************************************************************************)
(* What the main page (OverviewFrame) knows of the synchronization: as     *)
(* long as walletSynced is false it hides the list of recent transactions  *)
(* and refuses to open the pages on which funds, messages and deposits are *)
(* made.  The page reacts to the same events as the list, and asks the     *)
(* adapter, when an event is delivered, whether the wallet is synchronized *)
(* then.  The adapter answers with a flag that outlives the wallet, so two *)
(* history variables keep what the open wallet itself has said.            *)
(***************************************************************************)
EXTENDS TransactionFeed

VARIABLES
  walletSynced,    (* OverviewFrame::walletSynced                          *)
  tries,           (* timers are left to tryEnableRecentActivityIfSynced() *)
  reported,        (* history: the last thing the open wallet said of its  *)
                   (* synchronization is that it is completed              *)
  leftOver         (* history: m_isSynchronized was left set by a wallet   *)
                   (* before, and no wallet has stored into it since       *)

page == <<walletSynced, tries>>
history == <<reported, leftOver>>
pageVars == <<transactionVars, page, history>>

PageInit ==
  /\ TransactionInit
  /\ walletSynced = FALSE
  /\ tries = FALSE
  /\ reported = FALSE
  /\ leftOver = FALSE
-----------------------------------------------------------------------------
(* Mutant: the page trusts the event. *)
TryAlways == walletSynced' = TRUE

(* tryEnableRecentActivityIfSynced() *)
TryEnable == walletSynced' = (walletSynced \/ (open /\ isSynchronized))

(* onWalletSynchronizationProgress() and reset() *)
Forget(type) == walletSynced' = FALSE

(* Mutant: the end of the synchronization is not reacted to. *)
CompletedIgnored == OnCompleted /\ UNCHANGED <<transactionList, page>>

(* The adapter's slot stops its timer, the page's is walletSynchronized(). *)
Completed == OnCompleted /\ TryEnable /\ UNCHANGED <<transactionList, tries>>

Progress ==
  OnProgress /\ Forget("progress") /\ UNCHANGED <<transactionList, tries>>

(* A load without an error, and the reload that it asks for. *)
InitCompleted ==
  /\ OnInitCompleted
  /\ tries' = TRUE
  /\ UNCHANGED <<transactionList, walletSynced>>

Reload == ReloadTransactions /\ tries' = TRUE /\ UNCHANGED walletSynced

Closed == ResetTransactions /\ Forget("closed") /\ UNCHANGED tries

(* A timer of 0 ms; others may be left. *)
RunTry ==
  /\ Idle
  /\ tries
  /\ tries' \in BOOLEAN
  /\ TryEnable
  /\ UNCHANGED transactionVars

(* What the page does not react to. *)
OtherEvent ==
  /\ \/ /\ \/ OnSendCompleted \/ OnInitFailed
           \/ OnTimeout \/ Announce \/ ClearLast
           \/ CloseWallet
           \/ \E n \in 0 .. MaxTx : OpenImported(n)
        /\ UNCHANGED transactionList
     \/ AppendTransaction \/ AppendRow \/ ReloadRow
  /\ UNCHANGED page

Elsewhere == (WalletThread \/ User) /\ UNCHANGED <<transactionList, page>>
-----------------------------------------------------------------------------
(***************************************************************************)
(* What the steps above mean for the two history variables.                *)
(***************************************************************************)
Begins(kind) == callback.kind # kind /\ callback'.kind = kind
Stores(kind) == callback.kind = kind /\ callback'.kind # kind
Replaces == gui.pc = "importing" /\ gui'.pc # "importing"
StartsToClose == gui.pc # "closing" /\ gui'.pc = "closing"

Remember ==
  /\ reported' =
       /\ open' /\ ~Replaces /\ ~Begins("behind")
       /\ reported \/ Begins("caughtUp")
  /\ leftOver' =
       \/ Stores("caughtUp") /\ gui.pc = "closing"
       \/ Replaces /\ isSynchronized
       \/ /\ leftOver
          /\ ~Stores("caughtUp") /\ ~Stores("behind") /\ ~StartsToClose

OnGui ==
  \/ Completed \/ Progress \/ InitCompleted \/ Reload \/ Closed \/ RunTry
  \/ OtherEvent

PageNext == (OnGui \/ Elsewhere) /\ Remember

PageSpec == PageInit /\ [][PageNext]_pageVars

(***************************************************************************)
(* The GUI thread runs, and the wallet thread is fair as WalletFeed says.  *)
(***************************************************************************)
PageFairSpec ==
  /\ PageSpec
  /\ WF_pageVars(OnGui /\ Remember)
  /\ WF_pageVars(
       EndCallback /\ UNCHANGED <<transactionList, page>> /\ Remember)
  /\ SF_pageVars(
       BeginCompleted /\ UNCHANGED <<transactionList, page>> /\ Remember)
  /\ SF_pageVars(
       ReportSent /\ UNCHANGED <<transactionList, page>> /\ Remember)
-----------------------------------------------------------------------------
(***************************************************************************)
(* The pages for sending are open only while the open wallet's last report *)
(* is that it is synchronized, or the event that shuts them is on its way. *)
(* The exception is a flag left over: the completion of the wallet that is *)
(* being closed may be stored after close() has cleared m_isSynchronized,  *)
(* and an import replaces a wallet without close(); the wallet opened then *)
(* passes for synchronized until it says something itself, and no longer.  *)
(***************************************************************************)
SyncedIsCurrent ==
  walletSynced =>
    \/ open /\ reported
    \/ leftOver
    \/ callback.kind \in {"behind", "progress"}
    \/ Posted \cap {"progress", "closed"} # {}
    \/ gui.pc = "closing"

(***************************************************************************)
(* Once the open wallet has said that it is synchronized the pages open,   *)
(* unless it says that it has fallen behind or is closed first: no order   *)
(* of the events of two wallets, and no store of one after the other's,    *)
(* leaves the user of a synchronized wallet shut out.                      *)
(***************************************************************************)
OpensWhenSynchronized ==
  open /\ reported ~> walletSynced \/ ~open \/ ~reported
=============================================================================
