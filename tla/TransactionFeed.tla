--------------------------- MODULE TransactionFeed ---------------------------
(***************************************************************************)
(* The list of transactions: TransactionsModel, fed by WalletAdapter.  Its *)
(* slots run on the GUI thread, each to its end before the next event, but *)
(* the wallet thread may change the wallet between two rounds of a loop.   *)
(***************************************************************************)
EXTENDS WalletFeed

VARIABLES
  rows,            (* m_transfers: the transaction id of each row          *)
  strayRow         (* history: since the list was last cleared, the list   *)
                   (* was given an id the open wallet does not have        *)

transactionList == <<rows, strayRow>>
transactionVars == <<feed, transactionList>>

(* The keys of m_transactionRow: the ids that were ever appended. *)
ShownIds == {rows[i] : i \in DOMAIN rows}

TransactionTypeOK ==
  /\ FeedTypeOK
  /\ rows \in Seq(TxIds)
  /\ strayRow \in BOOLEAN

TransactionInit ==
  /\ FeedInit
  /\ rows = <<>>
  /\ strayRow = FALSE
-----------------------------------------------------------------------------
(* TransactionsModel::appendTransaction(id) up to its loop. *)
AppendTransaction ==
  /\ Take("created")
  /\ queue' = Tail(queue)
  /\ LET id    == Head(queue).id
         first == Cardinality(ShownIds)
     IN IF id \in ShownIds
        THEN UNCHANGED <<gui, strayRow>>
        ELSE /\ gui' = IF first <= id THEN GuiAt("append", first, id)
                                      ELSE EventLoop
             /\ strayRow' = (strayRow \/ ~HasTransaction(id))
  /\ UNCHANGED <<wallet, callback, adapter, rows, lost, userActions>>

(* One round of that loop. *)
AppendRow ==
  /\ gui.pc = "append"
  /\ rows' = IF HasTransaction(gui.next) THEN Append(rows, gui.next) ELSE rows
  /\ gui' = IF gui.next < gui.last THEN [gui EXCEPT !.next = @ + 1]
                                   ELSE EventLoop
  /\ UNCHANGED <<wallet, callback, adapter, queue, strayRow, lost,
                 userActions>>

(* Mutant: the rows are not cleared first. *)
ReloadKeepsRows ==
  /\ Take("reload")
  /\ queue' = Tail(queue)
  /\ strayRow' = FALSE
  /\ lost' = FALSE
  /\ gui' = GuiAt("reload", 0, 0)
  /\ UNCHANGED <<wallet, callback, adapter, rows, userActions>>

(* reloadWalletTransactions() up to its loop. *)
ReloadTransactions ==
  /\ Take("reload")
  /\ queue' = Tail(queue)
  /\ rows' = <<>>
  /\ strayRow' = FALSE
  /\ lost' = FALSE
  /\ gui' = GuiAt("reload", 0, 0)
  /\ UNCHANGED <<wallet, callback, adapter, userActions>>

(* One round of that loop, which asks for the count again each time. *)
ReloadRow ==
  /\ gui.pc = "reload"
  /\ IF HasTransaction(gui.next)
     THEN /\ rows' = Append(rows, gui.next)
          /\ gui' = [gui EXCEPT !.next = @ + 1]
     ELSE /\ gui' = EventLoop
          /\ UNCHANGED rows
  /\ UNCHANGED <<wallet, callback, adapter, queue, strayRow, lost,
                 userActions>>

(* TransactionsModel::reset(), queued by close(). *)
ResetTransactions ==
  /\ Take("closed")
  /\ queue' = Tail(queue)
  /\ rows' = <<>>
  /\ strayRow' = FALSE
  /\ UNCHANGED <<wallet, callback, adapter, gui, lost, userActions>>
-----------------------------------------------------------------------------
TransactionStep ==
  \/ AppendTransaction \/ AppendRow
  \/ ReloadTransactions \/ ReloadRow
  \/ ResetTransactions

TransactionNext == (FeedNext /\ UNCHANGED transactionList) \/ TransactionStep

TransactionSpec == TransactionInit /\ [][TransactionNext]_transactionVars
-----------------------------------------------------------------------------
(***************************************************************************)
(* Each row shows the transaction whose id is its row number, as           *)
(* DepositModel takes for granted when it looks a transaction up by row,   *)
(* unless the list was given an id that the open wallet does not have.     *)
(***************************************************************************)
RowIsId == ~strayRow => \A i \in DOMAIN rows : rows[i] = i - 1

(***************************************************************************)
(* Each row shows a transaction of the wallet that is open now, or the     *)
(* event that clears or reloads the list is already on its way: closing,   *)
(* opening and rescanning never leave another list's rows behind.          *)
(***************************************************************************)
NoForeignRows == ClearPosted \/ \A i \in DOMAIN rows : HasTransaction(rows[i])

(***************************************************************************)
(* Once the user leaves the wallet alone the list comes to show all its    *)
(* transactions and keeps doing so, unless a store into                    *)
(* m_lastWalletTransactionId was overwritten by the notification or the    *)
(* list was given an id that the wallet does not have.                     *)
(***************************************************************************)
EventuallyShown ==
  <>[](open /\ ~lost /\ ~strayRow => ShownIds = 0 .. txCount - 1)
=============================================================================
