-------------------------- MODULE SentTransactions --------------------------
(***************************************************************************)
(* What the user sends, and how WalletAdapter tells what it was when the   *)
(* wallet reports that it has been sent.                                   *)
(*                                                                         *)
(* The GUI thread has the wallet make the transaction and stores its id in *)
(* one of four slots; the wallet thread reports the id, compares it with   *)
(* the slots, signals the completion of the kind whose slot holds it and   *)
(* clears that slot.  The slots are atomics; the wallet may report a       *)
(* transaction before the GUI thread has stored its id, and nothing clears *)
(* the slots when the wallet is closed or restored from the blockchain,    *)
(* though the next transactions get the ids from the first on again.       *)
(*                                                                         *)
(* Each completion of a deposit has OverviewFrame pay the owner of the     *)
(* remote node.                                                            *)
(***************************************************************************)
EXTENDS Integers, Sequences, FiniteSets

CONSTANTS
  MaxTx,           (* bound: transactions sent from one wallet             *)
  MaxUserActions,  (* bound: things the user asks for                      *)
  RemoteFee        (* the connection is remote and its node takes a fee    *)

ASSUME BoundsAssumption ==
  /\ MaxTx \in Nat
  /\ MaxUserActions \in Nat
  /\ RemoteFee \in BOOLEAN

VARIABLES
  open,            (* m_wallet != nullptr                                  *)
  sent,            (* the kinds of the transactions sent, by id            *)
  unreported,      (* the ids the wallet is yet to report                  *)
  slots,           (* m_sentTransactionId, m_sentMessageId, m_depositId    *)
                   (* and m_depositWithdrawalId                            *)
  storing,         (* the id that the GUI thread is about to store         *)
  callback,        (* the report that the wallet thread is at: what was    *)
                   (* sent, the slot that held its id, and whether that    *)
                   (* slot was foreign                                     *)
  queue,           (* posted completions of deposits: their errors         *)
  deposits,        (* history: deposits the wallet has created             *)
  fees,            (* history: fees paid for deposits                      *)
  foreign,         (* history: the slots with an id from before a close or *)
                   (* a rescan                                             *)
  userActions      (* history: things the user asked for so far            *)

sending == <<sent, unreported, storing>>
history == <<deposits, fees, foreign>>
vars    == <<open, sending, slots, callback, queue, history, userActions>>

NoTx  == -1
Ids   == 1 .. MaxTx
Kinds == {"payment", "optimization", "message", "deposit", "withdrawal",
          "fee"}

SlotNames == {"transaction", "message", "deposit", "withdrawal"}

(* Mutant: a withdrawal is stored as a deposit. *)
SlotOfDeposits(kind) ==
  CASE kind = "message" -> "message"
    [] kind \in {"deposit", "withdrawal"} -> "deposit"
    [] OTHER -> "transaction"

(* The slot in which the id of a transaction of this kind is stored. *)
SlotOf(kind) ==
  IF kind \in SlotNames THEN kind ELSE "transaction"

NoReport == [kind |-> "none", slot |-> "none", foreign |-> FALSE]
Reports  == [kind : Kinds \cup {"none"}, slot : SlotNames \cup {"none"},
             foreign : BOOLEAN]

TypeOK ==
  /\ open \in BOOLEAN
  /\ sent \in Seq(Kinds) /\ Len(sent) <= MaxTx
  /\ unreported \subseteq 1 .. Len(sent)
  /\ slots \in [SlotNames -> Ids \cup {NoTx}]
  /\ storing \in 0 .. Len(sent)
  /\ callback \in Reports
  /\ queue \in Seq(BOOLEAN)
  /\ deposits \in Nat
  /\ fees \in Nat
  /\ foreign \subseteq SlotNames
  /\ userActions \in 0 .. MaxUserActions

Init ==
  /\ open = TRUE
  /\ sent = <<>>
  /\ unreported = {}
  /\ slots = [slot \in SlotNames |-> NoTx]
  /\ storing = 0
  /\ callback = NoReport
  /\ queue = <<>>
  /\ deposits = 0
  /\ fees = 0
  /\ foreign = {}
  /\ userActions = 0
-----------------------------------------------------------------------------
(* The GUI thread. *)

EventLoop == storing = 0

UserActs ==
  /\ EventLoop
  /\ userActions < MaxUserActions
  /\ userActions' = userActions + 1

(* The wallet has made the transaction; it may report it from here on. *)
MadeByWallet(kind) ==
  /\ open
  /\ Len(sent) < MaxTx
  /\ sent' = Append(sent, kind)
  /\ storing' = Len(sent')
  /\ unreported' = unreported \cup {storing'}

(* sendTransaction, optimizeWallet, sendMessage, deposit and               *)
(* withdrawUnlockedDeposits up to the call of the wallet.                  *)
Send(kind) ==
  /\ UserActs
  /\ kind # "fee"
  /\ MadeByWallet(kind)
  /\ UNCHANGED <<open, slots, callback, queue, history>>

(* The wallet refuses; only a deposit says so here. *)
Refuse(kind) ==
  /\ UserActs
  /\ kind # "fee"
  /\ queue' = IF kind = "deposit" THEN Append(queue, TRUE) ELSE queue
  /\ UNCHANGED <<open, sending, slots, callback, history>>

(* The id, which a deposit and a withdrawal look up by hash and may not    *)
(* find, is stored.  A deposit is signalled as completed at once.          *)
Store ==
  /\ storing # 0
  /\ LET kind == sent[storing]
         slot == SlotOf(kind)
     IN \E id \in {storing} \cup
                  (IF kind \in {"deposit", "withdrawal"} THEN {NoTx} ELSE {}) :
          /\ slots' = [slots EXCEPT ![slot] = id]
          /\ foreign' = foreign \ {slot}
          /\ queue' = IF kind = "deposit" THEN Append(queue, FALSE) ELSE queue
          /\ deposits' = deposits + (IF kind = "deposit" THEN 1 ELSE 0)
  /\ storing' = 0
  /\ UNCHANGED <<open, sent, unreported, callback, fees, userActions>>

(* Mutant: a deposit that failed is paid for like one that succeeded. *)
CompleteAnyDeposit ==
  /\ EventLoop
  /\ queue # <<>>
  /\ queue' = Tail(queue)
  /\ \/ /\ RemoteFee
        /\ MadeByWallet("fee")
        /\ fees' = fees + 1
     \/ UNCHANGED <<sending, fees>>
  /\ UNCHANGED <<open, slots, callback, deposits, foreign, userActions>>

(* createDepositCompleted(): the fee is a transaction as any other, which  *)
(* the wallet may refuse.                                                  *)
CompleteDeposit ==
  /\ EventLoop
  /\ queue # <<>>
  /\ queue' = Tail(queue)
  /\ \/ /\ ~Head(queue)
        /\ RemoteFee
        /\ MadeByWallet("fee")
        /\ fees' = fees + 1
     \/ UNCHANGED <<sending, fees>>
  /\ UNCHANGED <<open, slots, callback, deposits, foreign, userActions>>

(* The wallet's transactions are gone; the slots keep their ids. *)
Forget ==
  /\ UserActs
  /\ open
  /\ sent' = <<>>
  /\ unreported' = {}
  /\ foreign' = {slot \in SlotNames : slots[slot] # NoTx}
  /\ UNCHANGED <<storing, slots, callback, queue, deposits, fees>>

(* close(): the end of the wallet waits for the callback under way. *)
Close ==
  /\ Forget
  /\ callback = NoReport
  /\ open' = FALSE

(* reset(): the wallet that is restored from the blockchain numbers its    *)
(* transactions anew, whatever the wallet thread is at.                    *)
Rescan ==
  /\ Forget
  /\ UNCHANGED open

Open ==
  /\ UserActs
  /\ ~open
  /\ open' = TRUE
  /\ UNCHANGED <<sending, slots, callback, queue, history>>
-----------------------------------------------------------------------------
(* The wallet thread. *)

(* The slots are compared in this order. *)
Matching(id) ==
  CASE slots["transaction"] = id -> "transaction"
    [] slots["message"] = id -> "message"
    [] slots["deposit"] = id -> "deposit"
    [] slots["withdrawal"] = id -> "withdrawal"
    [] OTHER -> "none"

(* sendTransactionCompleted(id, error): the slots are compared and the     *)
(* completion is signalled.                                                *)
Report(id, error) ==
  /\ callback = NoReport
  /\ id \in unreported
  /\ unreported' = unreported \ {id}
  /\ callback' = [kind |-> sent[id], slot |-> Matching(id),
                  foreign |-> Matching(id) \in foreign]
  /\ queue' = IF Matching(id) = "deposit" THEN Append(queue, error) ELSE queue
  /\ UNCHANGED <<open, sent, storing, slots, deposits, fees, foreign,
                 userActions>>

(* The slot is cleared, whatever it holds by now. *)
ClearSlot ==
  /\ callback # NoReport
  /\ callback' = NoReport
  /\ LET slot == callback.slot
     IN IF slot = "none"
        THEN UNCHANGED <<slots, foreign>>
        ELSE /\ slots' = [slots EXCEPT ![slot] = NoTx]
             /\ foreign' = foreign \ {slot}
  /\ UNCHANGED <<open, sending, queue, deposits, fees, userActions>>
-----------------------------------------------------------------------------
Next ==
  \/ \E kind \in Kinds : Send(kind) \/ Refuse(kind)
  \/ Store \/ CompleteDeposit \/ Close \/ Rescan \/ Open
  \/ \E id \in Ids, error \in BOOLEAN : Report(id, error)
  \/ ClearSlot

Spec == Init /\ [][Next]_vars
-----------------------------------------------------------------------------
(***************************************************************************)
(* What is signalled as the completion of a message, a deposit or a        *)
(* withdrawal is one, and what completes silently is neither, unless the   *)
(* slot held an id from before the wallet was closed or restored from the  *)
(* blockchain, which numbers its transactions anew.                        *)
(***************************************************************************)
SignalsItsKind ==
  callback.slot # "none" /\ ~callback.foreign =>
    IF callback.slot = "transaction"
    THEN callback.kind \in {"payment", "optimization", "fee"}
    ELSE callback.kind = callback.slot

(***************************************************************************)
(* Q_ASSERT(_transactionId == m_sentTransactionId || ... ||                *)
(* _transactionId == m_depositWithdrawalId): one of the slots holds the id *)
(* that sendTransactionCompleted() is called with.                         *)
(***************************************************************************)
ReportIsKnown == callback # NoReport => callback.slot # "none"

(***************************************************************************)
(* A deposit that the wallet refused is not paid for, and none is paid for *)
(* more than twice: when it is created and when it is reported.            *)
(***************************************************************************)
FeesBounded == fees <= 2 * deposits

(***************************************************************************)
(* "Remote node fee (only after a successful deposit)": the fees do not    *)
(* outnumber the deposits.                                                 *)
(***************************************************************************)
OneFeePerDeposit == fees <= deposits
=============================================================================
