------------------------------- MODULE SendFlow -------------------------------
(***************************************************************************)
(* The pages on which the user pays, writes a message and makes a deposit: *)
(* sendFundsClicked(), sendMessageClicked() and newDepositClicked() of     *)
(* OverviewFrame.                                                          *)
(*                                                                         *)
(* All of it is the GUI thread, yet a click is not one step: it asks for   *)
(* the password in a modal dialog and then waits a second in delay(),      *)
(* which processes events, the user's included.  The clicks under way are  *)
(* a stack, runs: only the last one goes on, and while no dialog is shown  *)
(* the user can start another one, close the wallet or open another.       *)
(*                                                                         *)
(* The wallet changes first and calls back later: until its callback has   *)
(* posted the update (due), and until the update has run (updatePosted),   *)
(* the pages go on with an old balance.                                    *)
(*                                                                         *)
(* Money is counted modulo Mod, as in a quint64.  The checks that do not   *)
(* depend on money (the address, the payment id, see RecipientCheck) stop  *)
(* a click before it has changed anything, and wallets that only track do  *)
(* not get that far.                                                       *)
(***************************************************************************)
EXTENDS Integers, Sequences

CONSTANTS
  Mod,             (* 2^64                                                 *)
  BaseFee,         (* BASE_FEE, also getMinimumFeeBanking()                *)
  RemoteFee,       (* REMOTE_FEE                                           *)
  MessageCost,     (* MESSAGE_COST                                         *)
  MaxBalance,      (* bound: the money of a wallet                         *)
  MaxTyped,        (* bound: the amount that the user types                *)
  MaxRuns,         (* bound: clicks under way at once                      *)
  MaxUserActions   (* bound: things the user does                          *)

ASSUME MoneyAssumption ==
  /\ {BaseFee, RemoteFee, MessageCost} \subseteq Nat \ {0}
  /\ {MaxBalance, MaxTyped, MaxRuns, MaxUserActions} \subseteq Nat
  /\ Mod \in Nat
  /\ MaxTyped < Mod
  /\ MaxBalance + BaseFee + RemoteFee < Mod

VARIABLES
  open,            (* m_wallet != nullptr                                  *)
  encrypted,       (* the wallet has a password                            *)
  balance,         (* getActualBalance() of the wallet                     *)
  dust,            (* getDustBalance() of the wallet                       *)
  shown,           (* m_overviewFrame, which has the pages, is visible     *)
  actualBalance,   (* m_actualBalance                                      *)
  due,             (* the wallet has changed and is yet to call back       *)
  updatePosted,    (* an event that runs updatePortfolio() is queued       *)
  remote,          (* the connection of the settings is not "embedded"     *)
  feeAddress,      (* remote_node_fee_address is not empty                 *)
  actualFee,       (* m_actualFee                                          *)
  shownFee,        (* the fee that the pages show                          *)
  amount,          (* the amount in m_amountEdit                           *)
  runs,            (* the clicks under way, each inside the one before     *)
  completed,       (* the completions that are queued or still to be       *)
                   (* reported                                             *)
  percent,         (* history: the amount is a percentage of the balance   *)
                   (* as it is now, less the fee as it is now              *)
  paid,            (* history: the fees of the last transaction            *)
  userActions      (* history: things the user did so far                  *)

wallet == <<open, encrypted, balance, dust>>
news   == <<due, updatePosted>>
fees   == <<remote, feeAddress, actualFee, shownFee>>
vars   == <<wallet, shown, actualBalance, news, fees, amount, runs, completed,
            percent, paid, userActions>>
-----------------------------------------------------------------------------
Money    == 0 .. Mod - 1
Balances == 0 .. MaxBalance

Plus(a, b)  == (a + b) % Mod
Minus(a, b) == (a - b) % Mod

(* checked is the balance that the click has compared with; disturbed says *)
(* that the comparison was with an old balance, or that money left the     *)
(* wallet, or the wallet was closed, since.                                *)
Runs ==
  [kind : {"funds", "message", "deposit"},
   pc : {"password", "delay", "confirm"},
   amount : Money, remoteFee : {0, RemoteFee},
   checked : Balances, disturbed : BOOLEAN]

(* Each transaction is reported as a transaction, and that of a deposit as *)
(* a deposit, too; deposit() itself says that it has created one.          *)
Completions == {"transaction", "created", "deposit"}

TypeOK ==
  /\ {open, encrypted, shown, due, updatePosted, remote, feeAddress, percent}
       \subseteq BOOLEAN
  /\ {balance, dust, actualBalance} \subseteq Balances
  /\ {actualFee, shownFee} \subseteq {BaseFee, BaseFee + RemoteFee}
  /\ amount \in Money
  /\ runs \in Seq(Runs)
  /\ completed \subseteq Completions
  /\ paid \in {0, BaseFee, BaseFee + RemoteFee}
  /\ userActions \in 0 .. MaxUserActions

Init ==
  /\ open = FALSE
  /\ encrypted = FALSE
  /\ balance = 0
  /\ dust = 0
  /\ shown = FALSE
  /\ actualBalance = 0
  /\ due = FALSE
  /\ updatePosted = FALSE
  /\ remote \in BOOLEAN
  /\ feeAddress = FALSE
  /\ actualFee = BaseFee
  /\ shownFee = BaseFee
  /\ amount = 0
  /\ runs = <<>>
  /\ completed = {}
  /\ percent = FALSE
  /\ paid = 0
  /\ userActions = 0
-----------------------------------------------------------------------------
Last == runs[Len(runs)]
Others == SubSeq(runs, 1, Len(runs) - 1)

(* Money leaves the wallet, or the wallet goes. *)
Disturbed(rs) == [i \in DOMAIN rs |-> [rs[i] EXCEPT !.disturbed = TRUE]]

(* What the amount was computed from has changed. *)
Outdated == percent' = FALSE

(***************************************************************************)
(* The wallet has the transaction made if it has the money for it, or      *)
(* refuses.  Then the clicks in rest have less money to go on than they    *)
(* have checked for.                                                       *)
(***************************************************************************)
Refuse(rest) ==
  /\ runs' = rest
  /\ UNCHANGED <<balance, dust, due, completed, percent, paid>>

Pay(total, feesPaid, rest) ==
  /\ total <= balance
  /\ balance' = balance - total
  /\ dust' = IF dust > balance' THEN balance' ELSE dust
  /\ due' = TRUE
  /\ runs' = Disturbed(rest)
  /\ paid' = feesPaid
  /\ Outdated

Transfer(amt, feesPaid, completions, rest) ==
  \/ /\ Pay(amt + feesPaid, feesPaid, rest)
     /\ completed' = completed \cup completions
  \/ Refuse(rest)
-----------------------------------------------------------------------------
(***************************************************************************)
(* The wallet thread, and the events that the GUI thread takes, at any     *)
(* time: from the event loop, a dialog or a delay.                         *)
(***************************************************************************)
BalanceChanges(b, d) ==
  /\ open
  /\ b # balance
  /\ d <= b
  /\ balance' = b
  /\ dust' = d
  /\ due' = TRUE
  /\ runs' = IF b < balance THEN Disturbed(runs) ELSE runs
  /\ Outdated
  /\ UNCHANGED <<open, encrypted, shown, actualBalance, updatePosted, fees,
                 amount, completed, paid, userActions>>

(* actualBalanceUpdated(), the callback. *)
BalanceUpdated ==
  /\ due
  /\ due' = FALSE
  /\ updatePosted' = TRUE
  /\ UNCHANGED <<wallet, shown, actualBalance, fees, amount, runs, completed,
                 percent, paid, userActions>>

(* updatePortfolio() *)
UpdatePortfolio ==
  /\ updatePosted
  /\ updatePosted' = FALSE
  /\ actualBalance' = IF open THEN balance ELSE 0
  /\ UNCHANGED <<wallet, shown, due, fees, amount, runs, completed, percent,
                 paid, userActions>>

(* Mutant: the fee of the remote node is left to sendFundsClicked(). *)
CalculatedWithoutRemote(known) == BaseFee

(* calculateFee() *)
Calculated(known) == IF remote /\ known THEN BaseFee + RemoteFee ELSE BaseFee

(* Mutant: the fee is calculated before the address is stored. *)
FeeAddressFoundTooLate ==
  /\ remote
  /\ feeAddress' = TRUE
  /\ actualFee' = Calculated(feeAddress)
  /\ shownFee' = actualFee'
  /\ Outdated
  /\ UNCHANGED <<wallet, shown, actualBalance, news, remote, amount, runs,
                 completed, paid, userActions>>

(* onAddressFound(), a late answer of a node that asks for a fee. *)
FeeAddressFound ==
  /\ remote
  /\ feeAddress' = TRUE
  /\ actualFee' = Calculated(TRUE)
  /\ shownFee' = actualFee'
  /\ Outdated
  /\ UNCHANGED <<wallet, shown, actualBalance, news, remote, amount, runs,
                 completed, paid, userActions>>

(* sendTransactionCompleted() clears its page unless there was an error,   *)
(* and dashboardTo() shows the pages, whether a wallet is open or not.     *)
TransactionCompleted ==
  /\ "transaction" \in completed
  /\ completed' = completed \ {"transaction"}
  /\ shown' = TRUE
  /\ \/ amount' = 0 /\ percent' = FALSE
     \/ UNCHANGED <<amount, percent>>
  /\ UNCHANGED <<wallet, actualBalance, news, fees, runs, paid,
                 userActions>>

(* createDepositCompleted(): a transaction more, to the owner of the       *)
(* remote node, each time that a deposit is said to be completed.          *)
DepositCompleted(completion) ==
  /\ completion \in completed
  /\ \/ /\ remote /\ feeAddress /\ open
        /\ Pay(BaseFee + RemoteFee, BaseFee + RemoteFee, runs)
        /\ completed' = (completed \ {completion}) \cup {"transaction"}
     \/ /\ completed' = completed \ {completion}
        /\ UNCHANGED <<balance, dust, due, runs, percent, paid>>
  /\ UNCHANGED <<open, encrypted, shown, actualBalance, updatePosted, fees,
                 amount, userActions>>
-----------------------------------------------------------------------------
(***************************************************************************)
(* What the user does while no dialog is shown; on the pages, only while   *)
(* they are visible.                                                       *)
(***************************************************************************)
NoDialog == \A i \in DOMAIN runs : runs[i].pc = "delay"

UserAction ==
  /\ NoDialog
  /\ userActions < MaxUserActions
  /\ userActions' = userActions + 1

OnPage == UserAction /\ shown

(* The wallet that is loaded: onWalletInitCompleted() and walletOpened().  *)
Open(b, d) ==
  /\ UserAction
  /\ ~open
  /\ open' = TRUE
  /\ encrypted' \in BOOLEAN
  /\ d <= b
  /\ balance' = b
  /\ dust' = d
  /\ shown' = TRUE
  /\ updatePosted' = TRUE
  /\ Outdated
  /\ UNCHANGED <<actualBalance, due, fees, amount, runs, completed, paid>>

(* close() and walletClosed(), and the slot reset() that its signal        *)
(* queues.  The wallet calls back no more.                                 *)
Close ==
  /\ UserAction
  /\ open
  /\ open' = FALSE
  /\ balance' = 0
  /\ dust' = 0
  /\ shown' = FALSE
  /\ due' = FALSE
  /\ updatePosted' = TRUE
  /\ runs' = Disturbed(runs)
  /\ Outdated
  /\ UNCHANGED <<encrypted, actualBalance, fees, amount, completed, paid>>

(* saveConnectionClicked(); the node itself changes at the next start. *)
SaveConnection ==
  /\ UserAction
  /\ remote' = ~remote
  /\ Outdated
  /\ UNCHANGED <<wallet, shown, actualBalance, news, feeAddress, actualFee,
                 shownFee, amount, runs, completed, paid>>

TypeAmount(a) ==
  /\ OnPage
  /\ amount' = a
  /\ percent' = FALSE
  /\ UNCHANGED <<wallet, shown, actualBalance, news, fees, runs,
                 completed, paid>>

(* A quarter or a half of what m_actualBalance leaves after the fee. *)
SetPercentage(part) ==
  /\ OnPage
  /\ actualFee' = Calculated(feeAddress)
  /\ amount' = Minus(actualBalance, actualFee') \div part
  /\ percent' = (actualBalance >= actualFee' /\ ~due /\ ~updatePosted)
  /\ UNCHANGED <<wallet, shown, actualBalance, news, remote, feeAddress,
                 shownFee, runs, completed, paid>>

(* getWalletMaximum() *)
WalletMaximum == IF open THEN balance - dust ELSE 0

(* setPercentage100() asks the wallet, whatever the page shows. *)
SetPercentage100 ==
  /\ OnPage
  /\ actualFee' = Calculated(feeAddress)
  /\ amount' = Minus(WalletMaximum, actualFee')
  /\ percent' = (WalletMaximum >= actualFee')
  /\ UNCHANGED <<wallet, shown, actualBalance, news, remote, feeAddress,
                 shownFee, runs, completed, paid>>
-----------------------------------------------------------------------------
(***************************************************************************)
(* The clicks.  checkWalletPassword() shows no dialog for a wallet without *)
(* a password; without a wallet it takes no password.                      *)
(***************************************************************************)
Begin(kind, next, amt, remoteFee, checked, disturbed) ==
  /\ Len(runs) < MaxRuns
  /\ runs' = Append(runs, [kind |-> kind,
                           pc |-> IF open /\ ~encrypted THEN next
                                                        ELSE "password",
                           amount |-> amt, remoteFee |-> remoteFee,
                           checked |-> checked, disturbed |-> disturbed])
  /\ UNCHANGED <<wallet, shown, actualBalance, news, fees, amount, completed,
                 percent, paid>>

(* The transfer to the owner of the remote node. *)
RemoteTransfer == IF remote /\ feeAddress THEN RemoteFee ELSE 0

(* Mutant: the check leaves the fees out. *)
HasFundsForAmount(amt, remoteFee) == actualBalance >= amt

HasFunds(amt, remoteFee) ==
  actualBalance >= Plus(amt, BaseFee + remoteFee)

(* sendFundsClicked() up to its dialog: the transfers are built, and the   *)
(* balance of the page is compared, which may be old.                      *)
SendFunds ==
  /\ OnPage
  /\ HasFunds(amount, RemoteTransfer)
  /\ Begin("funds", "delay", amount, RemoteTransfer, actualBalance,
           due \/ updatePosted)

(* newDepositClicked() up to its dialog, with the balance of the wallet.   *)
(* The fee of the remote node is left to createDepositCompleted().         *)
NewDeposit(amt) ==
  /\ OnPage
  /\ open
  /\ amt > 0
  /\ Plus(amt, BaseFee) <= balance
  /\ Begin("deposit", "confirm", amt, 0, balance, FALSE)

(* sendMessageClicked() up to its dialog: it checks nothing before. *)
SendMessage ==
  /\ OnPage
  /\ Begin("message", "delay", 0, 0, 0, TRUE)

EnterPassword ==
  /\ runs # <<>>
  /\ Last.pc = "password"
  /\ open
  /\ runs' = [runs EXCEPT ![Len(runs)].pc =
                IF Last.kind = "deposit" THEN "confirm" ELSE "delay"]
  /\ UNCHANGED <<wallet, shown, actualBalance, news, fees, amount, completed,
                 percent, paid, userActions>>

(* The password dialog, or the warning before a deposit. *)
Cancel ==
  /\ runs # <<>>
  /\ Last.pc \in {"password", "confirm"}
  /\ runs' = Others
  /\ UNCHANGED <<wallet, shown, actualBalance, news, fees, amount, completed,
                 percent, paid, userActions>>

InDelay(kind) == runs # <<>> /\ Last.pc = "delay" /\ Last.kind = kind

(* sendFundsClicked() after the delay. *)
EndSendFunds ==
  /\ InDelay("funds")
  /\ IF open
     THEN Transfer(Last.amount, BaseFee + Last.remoteFee, {"transaction"},
                   Others)
     ELSE Refuse(Others)
  /\ UNCHANGED <<open, encrypted, shown, actualBalance, updatePosted, fees,
                 amount, userActions>>

(* sendMessageClicked() after the delay.  A message that destroys itself   *)
(* has no fees.  None is too long: recalculateMessageLength() has cut it.  *)
EndSendMessage ==
  /\ InDelay("message")
  /\ IF open /\ MessageCost <= balance
     THEN \E messageFees \in {0, BaseFee + RemoteTransfer} :
            Transfer(MessageCost, messageFees, {"transaction"}, Others)
     ELSE Refuse(Others)
  /\ UNCHANGED <<open, encrypted, shown, actualBalance, updatePosted, fees,
                 amount, userActions>>

(* deposit() *)
ConfirmDeposit ==
  /\ runs # <<>>
  /\ Last.pc = "confirm"
  /\ IF open
     THEN Transfer(Last.amount, BaseFee,
                   {"transaction", "created", "deposit"}, Others)
     ELSE Refuse(Others)
  /\ UNCHANGED <<open, encrypted, shown, actualBalance, updatePosted, fees,
                 amount, userActions>>
-----------------------------------------------------------------------------
Event ==
  \/ UpdatePortfolio \/ FeeAddressFound
  \/ TransactionCompleted
  \/ \E completion \in {"created", "deposit"} : DepositCompleted(completion)

User ==
  \/ \E b, d \in Balances : Open(b, d)
  \/ Close \/ SaveConnection
  \/ \E a \in 0 .. MaxTyped : TypeAmount(a)
  \/ \E part \in {2, 4} : SetPercentage(part)
  \/ SetPercentage100
  \/ SendFunds \/ SendMessage
  \/ \E amt \in Balances : NewDeposit(amt)

Answer == EnterPassword \/ Cancel \/ ConfirmDeposit

EndDelay == EndSendFunds \/ EndSendMessage

Next ==
  \/ \E b, d \in Balances : BalanceChanges(b, d)
  \/ BalanceUpdated
  \/ Event \/ User \/ Answer \/ EndDelay

Spec == Init /\ [][Next]_vars
-----------------------------------------------------------------------------
(***************************************************************************)
(* While a payment or a deposit waits for a password, a confirmation or    *)
(* the end of the delay, the wallet has the money for it and its fees.     *)
(* The exceptions: the click compared while the wallet had changed and the *)
(* page was yet to learn it, the sum wrapped around, or money or the       *)
(* wallet went in the meantime.                                            *)
(***************************************************************************)
Wrapped(run) == run.amount + BaseFee + run.remoteFee >= Mod

RunsAreCovered ==
  \A i \in DOMAIN runs :
    ~runs[i].disturbed /\ ~Wrapped(runs[i]) =>
      open /\ runs[i].amount + BaseFee + runs[i].remoteFee <= balance

(***************************************************************************)
(* No transaction of the pages, the one that follows a deposit included,   *)
(* pays more in fees than the pages show by then, whichever order the      *)
(* change of the connection, the answer of the remote node, the clicks and *)
(* the completions come in.  It is about each transaction: a deposit is    *)
(* two or three, which together pay more than its page shows.              *)
(***************************************************************************)
FeesAreShown == paid <= shownFee

(***************************************************************************)
(* An amount set by a percentage can be sent, fees included, as soon as    *)
(* the page knows the balance: the fee that the percentage leaves is the   *)
(* one that sending adds.  While an update is on its way, what             *)
(* setPercentage100() took from the wallet may be refused by the page.     *)
(***************************************************************************)
PercentageCanBeSent ==
  percent /\ ~due /\ ~updatePosted => HasFunds(amount, RemoteTransfer)

(***************************************************************************)
(* "Check if there are enough funds for the amount plus total fees": what  *)
(* the comment before the check in sendFundsClicked() says.  Violated: the *)
(* maximum of the wallet may be less than the fee that setPercentage100()  *)
(* takes off it; the amount wraps around, and the sum then wraps back.     *)
(***************************************************************************)
EnoughFunds ==
  \A i \in DOMAIN runs :
    runs[i].kind = "funds" =>
      runs[i].amount + BaseFee + runs[i].remoteFee <= runs[i].checked
=============================================================================
