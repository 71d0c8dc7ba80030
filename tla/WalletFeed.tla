------------------------------ MODULE WalletFeed ------------------------------
(***************************************************************************)
(* How WalletAdapter turns what happens to the open wallet into the events *)
(* that the lists of the GUI live on: "created" for a transaction, and     *)
(* "reload" and "closed".  Two threads run it.                             *)
(*                                                                         *)
(* The wallet thread (the thread of the node, on which cn::WalletGreen     *)
(* notifies its observer) runs the observer callbacks of WalletAdapter.    *)
(* The GUI thread runs everything else: the events posted by the queued    *)
(* connections, in the order in which they were posted; the notification   *)
(* timer; and what the user asks for.  The two threads share m_wallet, the *)
(* atomics m_isSynchronized and m_lastWalletTransactionId, and the event   *)
(* queue; no callback takes m_mutex.  Each action below makes at most one  *)
(* access that the other thread can observe half way through an operation. *)
(*                                                                         *)
(* The module of each list EXTENDS this one and adds what the list does    *)
(* with its events, on the GUI thread.                                     *)
(***************************************************************************)
EXTENDS Integers, Sequences, FiniteSets

CONSTANTS
  MaxTx,           (* bound: transactions of a wallet                      *)
  MaxPosted,       (* bound: events queued when a callback may begin       *)
  MaxUserActions   (* bound: things the user asks for                      *)

ASSUME BoundsAssumption ==
  /\ MaxTx \in Nat \ {0}
  /\ MaxPosted \in Nat \ {0}
  /\ MaxUserActions \in Nat

VARIABLES
  open,            (* m_wallet != nullptr                                  *)
  txCount,         (* the wallet's getTransactionCount(), 0 without wallet *)
  unconfirmed,     (* sent transactions whose completion is yet to come    *)
  callback,        (* what the wallet thread is doing                      *)
  isSynchronized,  (* m_isSynchronized                                     *)
  lastId,          (* m_lastWalletTransactionId                            *)
  timerActive,     (* m_newTransactionsNotificationTimer.isActive()        *)
  queue,           (* events posted to the GUI thread                      *)
  gui,             (* what the GUI thread is doing                         *)
  lost,            (* history: since the list was last reloaded, an id was *)
                   (* overwritten in m_lastWalletTransactionId unannounced *)
  userActions      (* history: things the user asked for so far            *)

feed == <<open, txCount, unconfirmed, callback, isSynchronized, lastId,
          timerActive, queue, gui, lost, userActions>>

wallet  == <<open, txCount, unconfirmed>>
adapter == <<isSynchronized, lastId, timerActive>>
-----------------------------------------------------------------------------
(* quint64's maximum, "no transaction": also WALLET_INVALID_TRANSACTION_ID. *)
NoTx == -1

TxIds == 0 .. MaxTx - 1

EventTypes == {"progress", "completed", "created", "sendCompleted",
               "initCompleted", "initFailed", "reload", "closed"}
Events == [type : EventTypes, id : TxIds \cup {NoTx}]
Event(type, id) == [type |-> type, id |-> id]
Signal(type)    == Event(type, NoTx)

(* "append" and "reload" are loops of a list. *)
GuiStates == {"eventLoop", "announce", "clearLast", "append", "reload",
              "closing", "importing"}
GuiPositions == [pc : GuiStates, next : Nat, last : TxIds \cup {NoTx}]
GuiAt(pc, next, last) == [pc |-> pc, next |-> next, last |-> last]
EventLoop == GuiAt("eventLoop", 0, 0)

(* "behind" and "caughtUp": the two of the synchronization have been called *)
(* and m_isSynchronized is yet to be stored; "progress" and "completed": it *)
(* has been and the signal is yet to be emitted.  "external": the callback  *)
(* of a transaction, which goes on to "store" the id or to "emit" it.       *)
CallbackKinds == {"none", "behind", "progress", "caughtUp", "completed",
                  "external", "store", "emit"}
Callbacks == [kind : CallbackKinds, id : TxIds \cup {NoTx}]
Callback(kind, id) == [kind |-> kind, id |-> id]
NoCallback == Callback("none", NoTx)

(* getTransaction(_id) returns true. *)
HasTransaction(id) == open /\ id \in 0 .. txCount - 1

-----------------------------------------------------------------------------
FeedTypeOK ==
  /\ open \in BOOLEAN
  /\ txCount \in 0 .. MaxTx
  /\ unconfirmed \subseteq TxIds
  /\ callback \in Callbacks
  /\ isSynchronized \in BOOLEAN
  /\ lastId \in TxIds \cup {NoTx}
  /\ timerActive \in BOOLEAN
  /\ queue \in Seq(Events)
  /\ gui \in GuiPositions
  /\ lost \in BOOLEAN
  /\ userActions \in 0 .. MaxUserActions

FeedInit ==
  /\ open = FALSE
  /\ txCount = 0
  /\ unconfirmed = {}
  /\ callback = NoCallback
  /\ isSynchronized = FALSE
  /\ lastId = NoTx
  /\ timerActive = FALSE
  /\ queue = <<>>
  /\ gui = EventLoop
  /\ lost = FALSE
  /\ userActions = 0
-----------------------------------------------------------------------------
(***************************************************************************)
(* The wallet thread.  A callback begins only while the adapter is         *)
(* registered as an observer, which close() undoes first; one that has     *)
(* begun then still runs to its end.  A wallet that has reported a failed  *)
(* load has no transactions and makes no callbacks.                        *)
(***************************************************************************)
EventTypesIn(q) == {q[i].type : i \in DOMAIN q}
Posted == EventTypesIn(queue)
FailurePosted == "initFailed" \in Posted

(* An event that clears the lists or has them reloaded is on its way. *)
ClearPosted == Posted \cap {"closed", "initCompleted", "reload"} # {}

MayBegin ==
  /\ open
  /\ ~FailurePosted
  /\ gui.pc # "closing"
  /\ callback = NoCallback
  /\ Len(queue) < MaxPosted

Post(event) == queue' = Append(queue, event)

BeginProgress ==
  /\ MayBegin
  /\ callback' = Callback("behind", NoTx)
  /\ UNCHANGED <<wallet, adapter, queue, gui, lost, userActions>>

StoreBehind ==
  /\ callback.kind = "behind"
  /\ isSynchronized' = FALSE
  /\ callback' = Callback("progress", NoTx)
  /\ UNCHANGED <<wallet, lastId, timerActive, queue, gui, lost, userActions>>

EmitProgress ==
  /\ callback.kind = "progress"
  /\ Post(Signal("progress"))
  /\ callback' = NoCallback
  /\ UNCHANGED <<wallet, adapter, gui, lost, userActions>>

(* Only called without an error: with one the callback does nothing. *)
BeginCompleted ==
  /\ MayBegin
  /\ callback' = Callback("caughtUp", NoTx)
  /\ UNCHANGED <<wallet, adapter, queue, gui, lost, userActions>>

(* close() may have cleared m_isSynchronized since the callback began. *)
StoreCaughtUp ==
  /\ callback.kind = "caughtUp"
  /\ isSynchronized' = TRUE
  /\ callback' = Callback("completed", NoTx)
  /\ UNCHANGED <<wallet, lastId, timerActive, queue, gui, lost, userActions>>

EmitCompleted ==
  /\ callback.kind = "completed"
  /\ Post(Signal("completed"))
  /\ callback' = NoCallback
  /\ UNCHANGED <<wallet, adapter, gui, lost, userActions>>

(* The wallet finds an incoming transaction and notifies the adapter. *)
BeginExternal ==
  /\ MayBegin
  /\ txCount < MaxTx
  /\ txCount' = txCount + 1
  /\ callback' = Callback("external", txCount)
  /\ UNCHANGED <<open, unconfirmed, adapter, queue, gui, lost, userActions>>

ReadSynchronized ==
  /\ callback.kind = "external"
  /\ callback' = [callback EXCEPT !.kind = IF isSynchronized THEN "emit"
                                                             ELSE "store"]
  /\ UNCHANGED <<wallet, adapter, queue, gui, lost, userActions>>

StoreLast ==
  /\ callback.kind = "store"
  /\ lastId' = callback.id
  /\ callback' = NoCallback
  /\ UNCHANGED <<wallet, isSynchronized, timerActive, queue, gui, lost,
                 userActions>>

EmitCreated ==
  /\ callback.kind = "emit"
  /\ Post(Event("created", callback.id))
  /\ callback' = NoCallback
  /\ UNCHANGED <<wallet, adapter, gui, lost, userActions>>

(* sendTransactionCompleted of a transaction that transfer() had made. *)
SendCompleted(id) ==
  /\ MayBegin
  /\ id \in unconfirmed
  /\ unconfirmed' = unconfirmed \ {id}
  /\ Post(Event("sendCompleted", id))
  /\ UNCHANGED <<open, txCount, callback, adapter, gui, lost, userActions>>
-----------------------------------------------------------------------------
(***************************************************************************)
(* The GUI thread: the event loop takes the oldest event of one type.      *)
(***************************************************************************)
Idle == gui.pc = "eventLoop"

Take(type) ==
  /\ Idle
  /\ queue # <<>>
  /\ Head(queue).type = type

(* Mutant: id 0 is taken for "no transaction". *)
NotifyUnlessZero ==
  gui' = IF lastId > 0 THEN GuiAt("announce", 0, 0) ELSE EventLoop

(* Mutant: the test is missing. *)
NotifyAlways == gui' = GuiAt("announce", 0, 0)

(* notifyAboutLastTransaction() up to its test; what follows is Announce   *)
(* and ClearLast, between which the wallet thread may store another id.    *)
NotifyAboutLastTransaction ==
  gui' = IF lastId # NoTx THEN GuiAt("announce", 0, 0) ELSE EventLoop

OnProgress ==
  /\ Take("progress")
  /\ queue' = Tail(queue)
  /\ timerActive' = TRUE
  /\ UNCHANGED <<wallet, callback, isSynchronized, lastId, gui, lost,
                 userActions>>

OnCompleted ==
  /\ Take("completed")
  /\ queue' = Tail(queue)
  /\ timerActive' = FALSE
  /\ NotifyAboutLastTransaction
  /\ UNCHANGED <<wallet, callback, isSynchronized, lastId, lost, userActions>>

OnTimeout ==
  /\ Idle
  /\ timerActive
  /\ NotifyAboutLastTransaction
  /\ UNCHANGED <<wallet, callback, adapter, queue, lost, userActions>>

Announce ==
  /\ gui.pc = "announce"
  /\ Post(Event("created", lastId))
  /\ gui' = GuiAt("clearLast", 0, lastId)
  /\ UNCHANGED <<wallet, callback, adapter, lost, userActions>>

ClearLast ==
  /\ gui.pc = "clearLast"
  /\ lastId' = NoTx
  /\ lost' = (lost \/ lastId # gui.last)
  /\ gui' = EventLoop
  /\ UNCHANGED <<wallet, callback, isSynchronized, timerActive, queue,
                 userActions>>

(* onWalletSendTransactionCompleted: an id that cannot be looked up, such  *)
(* as the one a failed transfer is reported with, goes no further.         *)
OnSendCompleted ==
  /\ Take("sendCompleted")
  /\ queue' = IF HasTransaction(Head(queue).id)
              THEN Append(Tail(queue), Event("created", Head(queue).id))
              ELSE Tail(queue)
  /\ UNCHANGED <<wallet, callback, adapter, gui, lost, userActions>>

(* The wallet is destroyed; a callback it is making ends first. *)
DestroyWallet ==
  /\ callback = NoCallback
  /\ open' = FALSE
  /\ txCount' = 0
  /\ unconfirmed' = {}

(* onWalletInitCompleted, without and with an error. *)
OnInitCompleted ==
  /\ Take("initCompleted")
  /\ queue' = IF open THEN Append(Tail(queue), Signal("reload"))
                      ELSE Tail(queue)
  /\ UNCHANGED <<wallet, callback, adapter, gui, lost, userActions>>

OnInitFailed ==
  /\ Take("initFailed")
  /\ queue' = Tail(queue)
  /\ IF open THEN DestroyWallet ELSE UNCHANGED wallet
  /\ UNCHANGED <<callback, adapter, gui, lost, userActions>>
-----------------------------------------------------------------------------
(***************************************************************************)
(* What the user asks for, from the event loop of the GUI thread.  The     *)
(* event of a failed load is in the queue before the user can react to it, *)
(* and is handled first.                                                   *)
(***************************************************************************)
UserAction ==
  /\ Idle
  /\ ~FailurePosted
  /\ userActions < MaxUserActions
  /\ userActions' = userActions + 1

(* load() of a wallet file that holds n transactions notifies the observer *)
(* of the outcome; load() that throws leaves no wallet and changes nothing.*)
Load(n) ==
  /\ open' = TRUE
  /\ txCount' = n
  /\ unconfirmed' = {}
  /\ Post(Signal("initCompleted"))

LoadFails ==
  /\ open' = TRUE
  /\ Post(Signal("initFailed"))
  /\ UNCHANGED <<txCount, unconfirmed>>

(* There is no wallet file, as when the program is first started: a wallet *)
(* object without a wallet, which is taken to be an empty wallet here.     *)
LoadNothing ==
  /\ open' = TRUE
  /\ UNCHANGED <<txCount, unconfirmed, queue>>

Open(n) ==
  /\ UserAction
  /\ ~open
  /\ \/ Load(n)
     \/ LoadFails
     \/ LoadNothing
  /\ UNCHANGED <<callback, adapter, gui, lost>>

(* createWallet() and addObserver(): an empty wallet, loaded from nowhere. *)
Create ==
  /\ UserAction
  /\ ~open
  /\ open' = TRUE
  /\ UNCHANGED <<txCount, unconfirmed, callback, adapter, queue, gui, lost>>

(* createWithKeys(), whose wallet open("") then replaces without close();  *)
(* the file that createWithKeys() has just written loads without an error. *)
Import ==
  /\ UserAction
  /\ ~open
  /\ open' = TRUE
  /\ gui' = GuiAt("importing", 0, 0)
  /\ UNCHANGED <<txCount, unconfirmed, callback, adapter, queue, lost>>

OpenImported(n) ==
  /\ gui.pc = "importing"
  /\ callback = NoCallback
  /\ Load(n)
  /\ gui' = EventLoop
  /\ UNCHANGED <<callback, adapter, lost, userActions>>

(* close() up to the end of its critical section: removeObserver first. *)
Close ==
  /\ UserAction
  /\ open
  /\ isSynchronized' = FALSE
  /\ timerActive' = FALSE
  /\ lastId' = NoTx
  /\ gui' = GuiAt("closing", 0, 0)
  /\ UNCHANGED <<wallet, callback, queue, lost>>

(* Mutant: close() does not tell the lists. *)
CloseWalletSilently ==
  /\ gui.pc = "closing"
  /\ DestroyWallet
  /\ gui' = EventLoop
  /\ UNCHANGED <<callback, adapter, queue, lost, userActions>>

CloseWallet ==
  /\ gui.pc = "closing"
  /\ DestroyWallet
  /\ Post(Signal("closed"))
  /\ gui' = EventLoop
  /\ UNCHANGED <<callback, adapter, lost, userActions>>

(* reset(): the wallet forgets its transactions and loads itself again. *)
Rescan ==
  /\ UserAction
  /\ open
  /\ callback = NoCallback
  /\ txCount' = 0
  /\ unconfirmed' = {}
  /\ Post(Signal("initCompleted"))
  /\ UNCHANGED <<open, callback, adapter, gui, lost>>

(* sendTransaction(): transfer() adds the transaction to the wallet, or    *)
(* throws and the failure is reported.                                     *)
SendTransaction ==
  /\ UserAction
  /\ open
  /\ \/ /\ txCount < MaxTx
        /\ txCount' = txCount + 1
        /\ unconfirmed' = unconfirmed \cup {txCount}
        /\ UNCHANGED queue
     \/ /\ Post(Event("sendCompleted", NoTx))
        /\ UNCHANGED <<txCount, unconfirmed>>
  /\ UNCHANGED <<open, callback, adapter, gui, lost>>
-----------------------------------------------------------------------------
WalletThread ==
  \/ BeginProgress \/ StoreBehind \/ EmitProgress
  \/ BeginCompleted \/ StoreCaughtUp \/ EmitCompleted
  \/ BeginExternal \/ ReadSynchronized \/ StoreLast \/ EmitCreated
  \/ \E id \in TxIds : SendCompleted(id)

AdapterOnGui ==
  \/ OnProgress \/ OnCompleted \/ OnSendCompleted
  \/ OnInitCompleted \/ OnInitFailed
  \/ OnTimeout \/ Announce \/ ClearLast
  \/ CloseWallet
  \/ \E n \in 0 .. MaxTx : OpenImported(n)

User ==
  \/ \E n \in 0 .. MaxTx : Open(n)
  \/ Create \/ Import \/ Close \/ Rescan \/ SendTransaction

FeedNext == WalletThread \/ AdapterOnGui \/ User

(***************************************************************************)
(* What may be taken for granted of the scheduling, besides that the GUI   *)
(* thread runs: the wallet thread ends what it has begun, and the wallet   *)
(* ends each synchronization and reports each sent transaction although    *)
(* other callbacks may come first.  The user and the arrival of            *)
(* transactions are not fair.                                              *)
(***************************************************************************)
EndCallback ==
  \/ StoreBehind \/ EmitProgress
  \/ StoreCaughtUp \/ EmitCompleted
  \/ ReadSynchronized \/ StoreLast \/ EmitCreated

ReportSent == \E id \in TxIds : SendCompleted(id)
-----------------------------------------------------------------------------
(***************************************************************************)
(* "No transaction" is never announced as a transaction: the lists would   *)
(* try to append 2^64 rows.                                                *)
(***************************************************************************)
NeverAnnouncesNone ==
  \A i \in DOMAIN queue : queue[i].type = "created" => queue[i].id # NoTx
=============================================================================
