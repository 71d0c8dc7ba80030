----------------------------- MODULE DepositList -----------------------------
(***************************************************************************)
(* The list of deposits: DepositModel.  It keeps no deposits, only how     *)
(* many of the wallet's it shows: row i is deposit i.  Below them are      *)
(* pending rows, one for each deposit the user has made and that is not    *)
(* yet in a block.                                                         *)
(*                                                                         *)
(* The wallet thread changes the deposits and the transactions and         *)
(* notifies WalletAdapter, which posts an event for each callback; the     *)
(* slots of the list run on the GUI thread and ask the wallet, as it is    *)
(* then, for the count and for the last deposit.                           *)
(*                                                                         *)
(* WalletFeed is how wallets open and close in detail; here a wallet is    *)
(* opened and reports its load, is closed, or is rescanned.  A load that   *)
(* fails has no deposits and reaches the list by no event.                 *)
(***************************************************************************)
EXTENDS Integers, Sequences, FiniteSets

CONSTANTS
  MaxDeposits,     (* bound: deposits of a wallet                          *)
  MaxTx,           (* bound: deposits the user makes, in all wallets       *)
  MaxPosted,       (* bound: events queued when a callback may begin       *)
  MaxUserActions   (* bound: things the user asks for                      *)

ASSUME BoundsAssumption ==
  /\ MaxDeposits \in Nat \ {0}
  /\ MaxTx \in Nat \ {0}
  /\ MaxPosted \in Nat \ {0}
  /\ MaxUserActions \in Nat

VARIABLES
  open,            (* m_wallet != nullptr                                  *)
  deposits,        (* the states of the wallet's deposits, in their order  *)
  txs,             (* the wallet's transactions that make deposits         *)
  made,            (* how many such transactions there have been           *)
  due,             (* what the wallet thread is about to call back with    *)
  queue,           (* events posted to the GUI thread                      *)
  gui,             (* what the GUI thread is doing                         *)
  depositCount,    (* m_depositCount                                       *)
  pending,         (* m_pendingDeposits                                    *)
  viewRows,        (* how many rows the views have been told of            *)
  torn,            (* history: since the list was cleared, a deposit came  *)
                   (* in the middle of a reload                            *)
  missed,          (* history: transactions whose confirmation was         *)
                   (* delivered before their pending row                   *)
  userActions      (* history: things the user asked for so far            *)

wallet == <<open, deposits, txs, made>>
list   == <<depositCount, pending, viewRows>>
vars   == <<wallet, due, queue, gui, list, torn, missed, userActions>>
-----------------------------------------------------------------------------
(* Also WALLET_INVALID_TRANSACTION_ID.  The id of a transaction is its     *)
(* place in txs; its hash is unique among the transactions of all wallets. *)
NoTx   == 0
TxIds  == 1 .. MaxTx
Hashes == 1 .. MaxTx

DepositStates == {"locked", "unlocked", "spent"}
Transactions  == [hash : Hashes, confirmed : BOOLEAN]
PendingRows   == [id : TxIds \cup {NoTx}, hash : Hashes]

(* "deposits" is walletTransactionCreatedSignal and                        *)
(* walletDepositsUpdatedSignal, which the list answers alike.              *)
Signals ==
  [type : {"deposits", "initCompleted", "reload", "closed"},
   id : {NoTx}, hash : {0}]
Events ==
  Signals \cup [type : {"updated"}, id : TxIds, hash : {0}]
          \cup [type : {"pending"}, id : TxIds \cup {NoTx}, hash : Hashes]
Signal(type) == [type |-> type, id |-> NoTx, hash |-> 0]
Updated(id)  == [type |-> "updated", id |-> id, hash |-> 0]
Pending(id, hash) == [type |-> "pending", id |-> id, hash |-> hash]

(* "deposit" is between createDeposit() and the signal, "reload" between   *)
(* the two counts of reloadWalletDeposits().                               *)
GuiPositions ==
  [pc : {"eventLoop", "deposit", "reload"}, n : 0 .. MaxDeposits]
GuiAt(pc, n) == [pc |-> pc, n |-> n]
EventLoop    == GuiAt("eventLoop", 0)

Posted == {queue[i] : i \in DOMAIN queue}
PostedTypes == {event.type : event \in Posted}

(* The list is about to be cleared or reloaded. *)
ClearPosted == PostedTypes \cap {"closed", "initCompleted", "reload"} # {}

HashesIn(q) == {q[i].hash : i \in DOMAIN q}

TypeOK ==
  /\ open \in BOOLEAN
  /\ deposits \in Seq(DepositStates) /\ Len(deposits) <= MaxDeposits
  /\ txs \in Seq(Transactions) /\ Len(txs) <= made
  /\ made \in 0 .. MaxTx
  /\ due \subseteq Events
  /\ queue \in Seq(Events)
  /\ gui \in GuiPositions
  /\ depositCount \in 0 .. MaxDeposits
  /\ pending \in Seq(PendingRows)
  /\ viewRows \in Nat
  /\ torn \in BOOLEAN
  /\ missed \subseteq Hashes
  /\ userActions \in 0 .. MaxUserActions

Init ==
  /\ open = FALSE
  /\ deposits = <<>>
  /\ txs = <<>>
  /\ made = 0
  /\ due = {}
  /\ queue = <<>>
  /\ gui = EventLoop
  /\ depositCount = 0
  /\ pending = <<>>
  /\ viewRows = 0
  /\ torn = FALSE
  /\ missed = {}
  /\ userActions = 0
-----------------------------------------------------------------------------
(***************************************************************************)
(* The wallet thread.  What it calls back with, it calls back with after   *)
(* the wallet has changed.                                                 *)
(***************************************************************************)
MayBegin == open /\ due = {} /\ Len(queue) < MaxPosted

Notify(events) ==
  /\ due' = events
  /\ UNCHANGED <<queue, gui, list, torn, missed, userActions>>

(* A transaction that the user made is found in a block. *)
Confirm(id) ==
  /\ MayBegin
  /\ id \in DOMAIN txs
  /\ ~txs[id].confirmed
  /\ txs' = [txs EXCEPT ![id].confirmed = TRUE]
  /\ Notify({Updated(id)})
  /\ UNCHANGED <<open, deposits, made>>

FindDeposit ==
  /\ MayBegin
  /\ Len(deposits) < MaxDeposits
  /\ deposits' = Append(deposits, "locked")
  /\ Notify({Signal("deposits")})
  /\ UNCHANGED <<open, txs, made>>

Unlock(deposit) ==
  /\ MayBegin
  /\ deposit \in DOMAIN deposits
  /\ deposits[deposit] = "locked"
  /\ deposits' = [deposits EXCEPT ![deposit] = "unlocked"]
  /\ Notify({Signal("deposits")})
  /\ UNCHANGED <<open, txs, made>>

(* A transaction that spends the deposit is found in the chain. *)
FindSpending(deposit) ==
  /\ MayBegin
  /\ deposit \in DOMAIN deposits
  /\ deposits[deposit] = "unlocked"
  /\ deposits' = [deposits EXCEPT ![deposit] = "spent"]
  /\ Notify({Signal("deposits")})
  /\ UNCHANGED <<open, txs, made>>

(* transactionUpdated, depositUpdated and depositsUpdated; a callback that *)
(* created a transaction is WalletFeed's.                                  *)
CallBack ==
  \E event \in due :
    /\ queue' = Append(queue, event)
    /\ due' = due \ {event}
    /\ UNCHANGED <<wallet, gui, list, torn, missed, userActions>>
-----------------------------------------------------------------------------
(***************************************************************************)
(* The GUI thread: the slots of DepositModel.                              *)
(***************************************************************************)
Idle == gui = EventLoop

Take(type) ==
  /\ Idle
  /\ queue # <<>>
  /\ Head(queue).type = type

LastSpent == deposits # <<>> /\ deposits[Len(deposits)] = "spent"

(* Mutant: the rows of the next deposit alone are added. *)
SyncOne(shown) ==
  IF shown < Len(deposits) /\ ~LastSpent THEN shown + 1 ELSE shown

(* Mutant: the count is one more than the last deposit's place. *)
SyncPast(shown) ==
  IF shown < Len(deposits) /\ ~LastSpent
  THEN Len(deposits) + 1
  ELSE shown

(* syncDepositRowsFromWallet() with appendDeposit(): all deposits are      *)
(* shown from here on, unless the last one is spent.                       *)
Synced(shown) ==
  IF shown < Len(deposits) /\ ~LastSpent
  THEN Len(deposits)
  ELSE shown

ShowSynced ==
  /\ depositCount' = Synced(depositCount)
  /\ viewRows' = viewRows + (depositCount' - depositCount)
                          - (Len(pending) - Len(pending'))

(* transactionCreated() and depositsUpdated(). *)
OnDeposits ==
  /\ Take("deposits")
  /\ queue' = Tail(queue)
  /\ UNCHANGED pending
  /\ ShowSynced
  /\ UNCHANGED <<wallet, due, gui, torn, missed, userActions>>

(* Mutant: only the id is compared. *)
MatchesById(row, id) == row.id = id

(* A pending row shows the transaction: by its hash, or by its id. *)
Matches(row, id) == row.hash = txs[id].hash \/ row.id = id

(* The last pending row of the transaction, 0 if there is none. *)
LastMatch(id) ==
  LET matching == {i \in DOMAIN pending : Matches(pending[i], id)}
  IN IF matching = {} THEN 0
     ELSE CHOOSE i \in matching : \A j \in matching : j <= i

WithoutRow(rows, i) ==
  SubSeq(rows, 1, i - 1) \o SubSeq(rows, i + 1, Len(rows))

(* The pending row of the transaction is yet to be added. *)
PendingToCome(hash) ==
  \/ hash \in HashesIn(queue)
  \/ gui.pc = "deposit" /\ txs[Len(txs)].hash = hash

(* transactionUpdated(): getTransaction() fails for an id of a wallet that *)
(* is closed.                                                              *)
OnUpdated ==
  /\ Take("updated")
  /\ queue' = Tail(queue)
  /\ LET id == Head(queue).id
     IN IF id \in DOMAIN txs /\ txs[id].confirmed
        THEN /\ pending' = IF LastMatch(id) = 0 THEN pending
                           ELSE WithoutRow(pending, LastMatch(id))
             /\ missed' = IF PendingToCome(txs[id].hash)
                          THEN missed \cup {txs[id].hash} ELSE missed
        ELSE UNCHANGED <<pending, missed>>
  /\ ShowSynced
  /\ UNCHANGED <<wallet, due, gui, torn, userActions>>

(* walletDepositPendingSubmitted() *)
OnPending ==
  /\ Take("pending")
  /\ queue' = Tail(queue)
  /\ pending' = Append(pending, [id |-> Head(queue).id,
                                 hash |-> Head(queue).hash])
  /\ viewRows' = viewRows + 1
  /\ UNCHANGED <<wallet, due, gui, depositCount, torn, missed, userActions>>

Reset ==
  /\ depositCount' = 0
  /\ pending' = <<>>
  /\ viewRows' = 0
  /\ torn' = FALSE

OnClosed ==
  /\ Take("closed")
  /\ queue' = Tail(queue)
  /\ Reset
  /\ UNCHANGED <<wallet, due, gui, missed, userActions>>

(* reloadWalletDeposits() up to beginInsertRows. *)
OnReload ==
  /\ Take("reload")
  /\ queue' = Tail(queue)
  /\ Reset
  /\ gui' = IF deposits = <<>> THEN EventLoop
                               ELSE GuiAt("reload", Len(deposits))
  /\ UNCHANGED <<wallet, due, missed, userActions>>

(* Mutant: the views are told of one row less. *)
CountReloadedShort ==
  /\ gui.pc = "reload"
  /\ depositCount' = Len(deposits)
  /\ viewRows' = gui.n - 1
  /\ torn' = (Len(deposits) # gui.n)
  /\ gui' = EventLoop
  /\ UNCHANGED <<wallet, due, queue, pending, missed, userActions>>

(* The count is asked for once more than the views were told of. *)
CountReloaded ==
  /\ gui.pc = "reload"
  /\ depositCount' = Len(deposits)
  /\ viewRows' = gui.n
  /\ torn' = (Len(deposits) # gui.n)
  /\ gui' = EventLoop
  /\ UNCHANGED <<wallet, due, queue, pending, missed, userActions>>
-----------------------------------------------------------------------------
(* The GUI thread: WalletAdapter, and what the user asks for. *)

OnInitCompleted ==
  /\ Take("initCompleted")
  /\ queue' = IF open THEN Append(Tail(queue), Signal("reload"))
                      ELSE Tail(queue)
  /\ UNCHANGED <<wallet, due, gui, list, torn, missed, userActions>>

UserAction ==
  /\ Idle
  /\ userActions < MaxUserActions
  /\ userActions' = userActions + 1

(* deposit() up to the return of createDeposit(). *)
Deposit ==
  /\ UserAction
  /\ open
  /\ made < MaxTx
  /\ made' = made + 1
  /\ txs' = Append(txs, [hash |-> made', confirmed |-> FALSE])
  /\ gui' = GuiAt("deposit", 0)
  /\ UNCHANGED <<open, deposits, due, queue, list, torn, missed>>

(* The transaction is looked up by its hash, perhaps in vain, and the      *)
(* pending deposit signalled.                                              *)
SubmitPending ==
  /\ gui.pc = "deposit"
  /\ \E id \in {Len(txs), NoTx} :
       queue' = Append(queue, Pending(id, txs[Len(txs)].hash))
  /\ gui' = EventLoop
  /\ UNCHANGED <<wallet, due, list, torn, missed, userActions>>

(* withdrawClicked() takes the unlocked rows that the list shows for the   *)
(* ids of deposits; withdrawUnlockedDeposits() withdraws the first one.    *)
Withdraw ==
  /\ UserAction
  /\ open
  /\ due = {}
  /\ LET unlocked == {row \in 1 .. depositCount :
                        row \in DOMAIN deposits /\ deposits[row] = "unlocked"}
     IN /\ unlocked # {}
        /\ \E first \in unlocked :
             /\ \A row \in unlocked : first <= row
             /\ deposits' = [deposits EXCEPT ![first] = "spent"]
  /\ due' = {Signal("deposits")}
  /\ UNCHANGED <<open, txs, made, queue, gui, list, torn, missed>>

(* The file of the wallet holds any deposits. *)
Open(contents) ==
  /\ UserAction
  /\ ~open
  /\ open' = TRUE
  /\ deposits' = contents
  /\ queue' = Append(queue, Signal("initCompleted"))
  /\ UNCHANGED <<txs, made, due, gui, list, torn, missed>>

(* Mutant: the list is not told. *)
CloseSilently ==
  /\ UserAction
  /\ open
  /\ due = {}
  /\ open' = FALSE
  /\ deposits' = <<>>
  /\ txs' = <<>>
  /\ UNCHANGED <<made, due, queue, gui, list, torn, missed>>

(* close(): destroying the wallet waits for the callback under way. *)
Close ==
  /\ UserAction
  /\ open
  /\ due = {}
  /\ open' = FALSE
  /\ deposits' = <<>>
  /\ txs' = <<>>
  /\ queue' = Append(queue, Signal("closed"))
  /\ UNCHANGED <<made, due, gui, list, torn, missed>>

(* reset(): the wallet forgets what it knows and loads itself again. *)
Rescan ==
  /\ UserAction
  /\ open
  /\ due = {}
  /\ deposits' = <<>>
  /\ txs' = <<>>
  /\ queue' = Append(queue, Signal("initCompleted"))
  /\ UNCHANGED <<open, made, due, gui, list, torn, missed>>
-----------------------------------------------------------------------------
WalletThread ==
  \/ \E id \in TxIds : Confirm(id)
  \/ FindDeposit
  \/ \E deposit \in 1 .. MaxDeposits : Unlock(deposit) \/ FindSpending(deposit)
  \/ CallBack

GuiStep ==
  \/ OnDeposits \/ OnUpdated \/ OnPending
  \/ OnReload \/ CountReloaded \/ OnClosed
  \/ OnInitCompleted
  \/ SubmitPending

WalletContents ==
  UNION {[1 .. n -> DepositStates] : n \in 0 .. MaxDeposits}

User ==
  \/ Deposit \/ Withdraw
  \/ \E contents \in WalletContents : Open(contents)
  \/ Close \/ Rescan

Next == WalletThread \/ GuiStep \/ User

Spec == Init /\ [][Next]_vars

(* Both threads go on with what they have begun. *)
FairSpec == Spec /\ WF_vars(GuiStep) /\ WF_vars(CallBack)
-----------------------------------------------------------------------------
(***************************************************************************)
(* The list shows the deposits of the open wallet: no more than it has,    *)
(* and no fewer, unless an event is on its way.  That is the one that      *)
(* clears or reloads the list, or, if rows are missing, the one that makes *)
(* it look again.  Rows may also be missing if the last deposit is spent:  *)
(* appendDeposit looks at that one alone and then shows none of the new.   *)
(***************************************************************************)
NoForeignDeposits == depositCount <= Len(deposits)

CaughtUp ==
  \/ ~open \/ LastSpent
  \/ gui.pc = "reload"
  \/ Signal("deposits") \in due \cup Posted
  \/ depositCount >= Len(deposits)

ShowsDeposits == ClearPosted \/ (NoForeignDeposits /\ CaughtUp)

(***************************************************************************)
(* A pending row is of a deposit that the open wallet has made and that is *)
(* in no block yet, or the event that takes the row away is on its way;    *)
(* unless that event was delivered before the row was added.               *)
(***************************************************************************)
PendingIsUnconfirmed ==
  \A i \in DOMAIN pending :
    \/ ClearPosted
    \/ pending[i].hash \in missed
    \/ \E id \in DOMAIN txs :
         /\ txs[id].hash = pending[i].hash
         /\ ~txs[id].confirmed \/ Updated(id) \in due \cup Posted

(***************************************************************************)
(* The views know of as many rows as the list has, whatever rows come and  *)
(* go below and above each other, unless a deposit came between the two    *)
(* counts of a reload.                                                     *)
(***************************************************************************)
ViewsAgree ==
  Idle => torn \/ viewRows = depositCount + Len(pending)

(***************************************************************************)
(* In the end the list shows all deposits of the wallet, unless the last   *)
(* one is spent.                                                           *)
(***************************************************************************)
EventuallyAllShown ==
  <>[](open => depositCount = Len(deposits) \/ LastSpent)
=============================================================================
