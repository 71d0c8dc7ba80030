-------------------------- MODULE DepositListProofs --------------------------
(***************************************************************************)
(* What TLAPS proves of DepositList, for every value of its bounds.        *)
(***************************************************************************)
EXTENDS DepositList, WellFoundedInduction, TLAPS

(***************************************************************************)
(* What the constructors of the model's records return.                    *)
(***************************************************************************)
LEMMA EventsTyped ==
  /\ \A type \in {"deposits", "initCompleted", "reload", "closed"} :
       Signal(type) \in Events /\ Signal(type).type = type
  /\ \A id \in TxIds : Updated(id) \in Events /\ Updated(id).type = "updated"
  /\ \A id \in TxIds \cup {NoTx}, hash \in Hashes :
       /\ Pending(id, hash) \in Events
       /\ Pending(id, hash).type = "pending"
       /\ Pending(id, hash).hash = hash /\ Pending(id, hash).id = id
BY DEF Signal, Updated, Pending, Events, Signals, NoTx

LEMMA EventTypes ==
  ASSUME NEW event \in Events
  PROVE  /\ event.type \in {"deposits", "initCompleted", "reload", "closed",
                            "updated", "pending"}
         /\ event.type = "updated" =>
              event.id \in TxIds /\ event = Updated(event.id)
         /\ event.type = "pending" =>
              event.id \in TxIds \cup {NoTx} /\ event.hash \in Hashes
         /\ event.type \notin {"updated", "pending"} =>
              event = Signal(event.type)
         /\ event.type # "pending" => event.hash = 0
BY DEF Signal, Updated, Events, Signals, NoTx

LEMMA GuiTyped ==
  /\ EventLoop \in GuiPositions /\ EventLoop.pc = "eventLoop"
  /\ \A pc \in {"eventLoop", "deposit", "reload"}, n \in 0 .. MaxDeposits :
       /\ GuiAt(pc, n) \in GuiPositions
       /\ GuiAt(pc, n).pc = pc /\ GuiAt(pc, n).n = n
BY BoundsAssumption DEF GuiPositions, GuiAt, EventLoop

(***************************************************************************)
(* A queue after an event is posted, or its first one is taken.            *)
(***************************************************************************)
LEMMA QueueAfterPost ==
  ASSUME NEW q \in Seq(Events), NEW event \in Events
  PROVE  /\ Append(q, event) \in Seq(Events)
         /\ Len(q) \in Nat /\ DOMAIN q = 1 .. Len(q)
         /\ DOMAIN Append(q, event) = 1 .. Len(q) + 1
         /\ Append(q, event)[Len(q) + 1] = event
         /\ \A k \in 1 .. Len(q) : Append(q, event)[k] = q[k]
OBVIOUS

LEMMA QueueAfterTake ==
  ASSUME NEW q \in Seq(Events), q # <<>>
  PROVE  /\ Head(q) \in Events /\ Head(q) = q[1]
         /\ Tail(q) \in Seq(Events)
         /\ Len(q) \in Nat \ {0} /\ DOMAIN q = 1 .. Len(q)
         /\ Len(Tail(q)) = Len(q) - 1
         /\ DOMAIN Tail(q) = 1 .. Len(q) - 1
         /\ \A k \in 1 .. Len(q) - 1 : Tail(q)[k] = q[k + 1]
OBVIOUS

(***************************************************************************)
(* A nonempty set of natural numbers has a least one, as "<" is            *)
(* well-founded; and one that is bounded has a greatest.                   *)
(***************************************************************************)
LEMMA Least ==
  ASSUME NEW T \in SUBSET Nat, T # {}
  PROVE  \E i \in T : \A j \in T : i <= j
<1> DEFINE R == {ss \in Nat \X Nat : ss[1] < ss[2]}
<1>1. IsWellFoundedOn(R, Nat)
  BY NatLessThanWellFounded DEF OpToRel
<1>2. \A i, j \in Nat : j < i => <<j, i>> \in R
  OBVIOUS
<1> HIDE DEF R
<1>3. PICK i \in T : \A j \in T : ~(<<j, i>> \in R)
  BY <1>1, WFMin
<1>4. \A j \in T : ~(j < i)
  BY <1>2, <1>3
<1> QED
  BY <1>4

LEMMA Greatest ==
  ASSUME NEW n \in Nat, NEW T \in SUBSET (1 .. n), T # {}
  PROVE  \E i \in T : \A j \in T : j <= i
<1> DEFINE above == {m \in Nat : \A j \in T : j <= m}
<1>1. above \in SUBSET Nat /\ n \in above
  OBVIOUS
<1>2. PICK m \in above : \A other \in above : m <= other
  BY <1>1, Least
<1>3. m \in T
  <2>1. SUFFICES ASSUME m \notin T PROVE FALSE
    OBVIOUS
  <2>2. \A j \in T : j <= m /\ j # m /\ j \in Nat /\ j >= 1
    BY <2>1
  <2>3. \A j \in T : j <= m - 1
    BY <2>2
  <2>4. m - 1 \in Nat
    <3>1. PICK j \in T : TRUE
      OBVIOUS
    <3> QED
      BY <2>2, <3>1
  <2>5. m - 1 \in above
    BY <2>3, <2>4
  <2> QED
    BY <1>2, <2>5
<1> QED
  BY <1>3

(***************************************************************************)
(* The row that a confirmed transaction takes away.                        *)
(***************************************************************************)
LEMMA LastMatchTyped ==
  ASSUME pending \in Seq(PendingRows), NEW id
  PROVE  \/ LastMatch(id) = 0 /\ \A i \in DOMAIN pending :
                                   ~Matches(pending[i], id)
         \/ LastMatch(id) \in DOMAIN pending
            /\ Matches(pending[LastMatch(id)], id)
<1> DEFINE matching == {i \in DOMAIN pending : Matches(pending[i], id)}
<1>1. CASE matching = {}
  BY <1>1 DEF LastMatch
<1>2. CASE matching # {}
  <2>1. Len(pending) \in Nat /\ matching \in SUBSET (1 .. Len(pending))
    OBVIOUS
  <2> HIDE DEF matching
  <2>2. \E i \in matching : \A j \in matching : j <= i
    BY <1>2, <2>1, Greatest
  <2>3. LastMatch(id) = CHOOSE i \in matching : \A j \in matching : j <= i
    BY <1>2 DEF LastMatch, matching
  <2>4. LastMatch(id) \in matching
    BY <2>2, <2>3
  <2> QED
    BY <2>4 DEF matching
<1> QED
  BY <1>1, <1>2

LEMMA RowsWithout ==
  ASSUME NEW rows \in Seq(PendingRows), NEW i \in DOMAIN rows
  PROVE  /\ WithoutRow(rows, i) \in Seq(PendingRows)
         /\ Len(WithoutRow(rows, i)) = Len(rows) - 1
         /\ \A k \in 1 .. Len(rows) - 1 :
              WithoutRow(rows, i)[k] = IF k < i THEN rows[k] ELSE rows[k + 1]
<1> DEFINE front == SubSeq(rows, 1, i - 1)
           back  == SubSeq(rows, i + 1, Len(rows))
<1>1. Len(rows) \in Nat /\ i \in 1 .. Len(rows)
  OBVIOUS
<1>2. /\ front \in Seq(PendingRows) /\ Len(front) = i - 1
      /\ \A k \in 1 .. i - 1 : front[k] = rows[k]
  BY <1>1
<1>3. /\ back \in Seq(PendingRows) /\ Len(back) = Len(rows) - i
      /\ \A k \in 1 .. Len(rows) - i : back[k] = rows[k + i]
  BY <1>1
<1> HIDE DEF front, back
<1>4. /\ front \o back \in Seq(PendingRows)
      /\ Len(front \o back) = Len(rows) - 1
      /\ \A k \in 1 .. Len(rows) - 1 :
           (front \o back)[k] = IF k < i THEN front[k] ELSE back[k - (i - 1)]
  BY <1>1, <1>2, <1>3
<1>5. WithoutRow(rows, i) = front \o back
  BY DEF WithoutRow, front, back
<1>6. ASSUME NEW k \in 1 .. Len(rows) - 1
      PROVE  (front \o back)[k] = IF k < i THEN rows[k] ELSE rows[k + 1]
  <2>1. CASE k < i
    BY <1>1, <1>2, <1>4, <2>1
  <2>2. CASE ~(k < i)
    <3>1. k - (i - 1) \in 1 .. Len(rows) - i
      BY <1>1, <2>2
    <3> QED
      BY <1>1, <1>3, <1>4, <2>2, <3>1
  <2> QED
    BY <2>1, <2>2
<1> QED
  BY <1>4, <1>5, <1>6
-----------------------------------------------------------------------------
(***************************************************************************)
(* The number of rows that the views were told of never falls below 0      *)
(* because each pending row is one of them: a reload, which sets the       *)
(* number, has dropped the pending rows before.                            *)
(***************************************************************************)
ViewInv ==
  /\ gui.pc = "reload" => pending = <<>>
  /\ gui.pc # "reload" => torn \/ viewRows = depositCount + Len(pending)
  /\ viewRows >= Len(pending)

TypeInv ==
  /\ TypeOK
  /\ ViewInv
  /\ gui.pc = "deposit" => txs # <<>>

LEMMA SyncedTyped ==
  ASSUME TypeOK
  PROVE  /\ Synced(depositCount) \in 0 .. MaxDeposits
         /\ Synced(depositCount) >= depositCount
BY BoundsAssumption DEF TypeOK, Synced

(***************************************************************************)
(* The event that is taken, and the slot that shows new deposits after it. *)
(***************************************************************************)
LEMMA TakeTyped ==
  ASSUME TypeOK, NEW type, Take(type)
  PROVE  /\ queue \in Seq(Events) /\ queue # <<>>
         /\ Head(queue) \in Events /\ Head(queue).type = type
         /\ Tail(queue) \in Seq(Events)
         /\ gui = EventLoop
BY QueueAfterTake DEF TypeOK, Take, Idle

LEMMA SlotTyped ==
  ASSUME TypeInv, NEW type, Take(type), queue' = Tail(queue),
         UNCHANGED <<wallet, due, gui, torn, userActions>>,
         ShowSynced, pending' \in Seq(PendingRows),
         Len(pending') <= Len(pending), missed' \subseteq Hashes
  PROVE  TypeInv'
<1>1. /\ Synced(depositCount) \in 0 .. MaxDeposits
      /\ Synced(depositCount) >= depositCount
  BY SyncedTyped DEF TypeInv
<1>2. Len(pending) \in Nat /\ Len(pending') \in Nat
  BY DEF TypeInv, TypeOK
<1>3. /\ viewRows' \in Nat /\ viewRows' >= Len(pending')
      /\ depositCount' \in 0 .. MaxDeposits
      /\ torn \/ viewRows' = depositCount' + Len(pending')
  <2>1. gui.pc # "reload"
    BY TakeTyped, GuiTyped DEF TypeInv
  <2>2. /\ viewRows \in Nat /\ viewRows >= Len(pending)
        /\ torn \/ viewRows = depositCount + Len(pending)
        /\ depositCount \in 0 .. MaxDeposits
    BY <2>1 DEF TypeInv, TypeOK, ViewInv
  <2>3. /\ depositCount' = Synced(depositCount)
        /\ viewRows' = viewRows + (depositCount' - depositCount)
                                - (Len(pending) - Len(pending'))
    BY DEF ShowSynced
  <2> QED
    BY <1>1, <1>2, <2>2, <2>3, BoundsAssumption
<1>4. gui'.pc = "eventLoop"
  BY TakeTyped, GuiTyped DEF TypeInv
<1>5. queue' \in Seq(Events)
  BY TakeTyped DEF TypeInv
<1> QED
  BY <1>3, <1>4, <1>5 DEF TypeInv, TypeOK, ViewInv, wallet

(***************************************************************************)
(* The transactions after one is confirmed: all else of them remains.      *)
(***************************************************************************)
LEMMA TxConfirmed ==
  ASSUME NEW s \in Seq(Transactions), NEW id \in DOMAIN s
  PROVE  LET t == [s EXCEPT ![id].confirmed = TRUE]
         IN /\ t \in Seq(Transactions)
            /\ Len(t) = Len(s) /\ DOMAIN t = DOMAIN s
            /\ \A i \in DOMAIN s : t[i].hash = s[i].hash
            /\ \A i \in DOMAIN s : i # id => t[i] = s[i]
            /\ t[id].confirmed
<1> DEFINE tx == [s[id] EXCEPT !.confirmed = TRUE]
           t  == [s EXCEPT ![id] = tx]
<1>1. s[id] \in Transactions
  OBVIOUS
<1>2. tx \in Transactions /\ tx.hash = s[id].hash /\ tx.confirmed
  BY <1>1 DEF Transactions
<1>3. t = [s EXCEPT ![id].confirmed = TRUE]
  OBVIOUS
<1> HIDE DEF tx
<1>4. /\ t \in Seq(Transactions) /\ Len(t) = Len(s) /\ DOMAIN t = DOMAIN s
      /\ t[id] = tx
      /\ \A i \in DOMAIN s : i # id => t[i] = s[i]
  BY <1>2
<1> HIDE DEF t
<1> QED
  BY <1>2, <1>3, <1>4

LEMMA WalletThreadTyped == TypeInv /\ WalletThread => TypeInv'
<1> SUFFICES ASSUME TypeInv, WalletThread PROVE TypeInv'
  OBVIOUS
<1> USE DEF TypeInv, TypeOK, ViewInv, Notify, list
<1>1. CASE \E id \in TxIds : Confirm(id)
  <2>1. PICK id \in TxIds : Confirm(id)
    BY <1>1
  <2>2. id \in DOMAIN txs /\ txs' = [txs EXCEPT ![id].confirmed = TRUE]
    BY <2>1 DEF Confirm
  <2>3. txs \in Seq(Transactions) /\ txs[id] \in Transactions
    BY <2>2
  <2>4. txs' \in Seq(Transactions) /\ Len(txs') = Len(txs)
    BY <2>2, <2>3, TxConfirmed
  <2>5. due' \subseteq Events
    BY <2>1, EventsTyped DEF Confirm
  <2>6. txs # <<>> => txs' # <<>>
    BY <2>4
  <2> QED
    BY <2>1, <2>4, <2>5, <2>6 DEF Confirm
<1>2. CASE FindDeposit
  <2>1. deposits' \in Seq(DepositStates) /\ Len(deposits') <= MaxDeposits
    BY <1>2, BoundsAssumption DEF FindDeposit, DepositStates
  <2>2. due' \subseteq Events
    BY <1>2, EventsTyped DEF FindDeposit
  <2> QED
    BY <1>2, <2>1, <2>2 DEF FindDeposit
<1>3. CASE \E deposit \in 1 .. MaxDeposits :
             Unlock(deposit) \/ FindSpending(deposit)
  <2>1. PICK deposit \in 1 .. MaxDeposits :
          Unlock(deposit) \/ FindSpending(deposit)
    BY <1>3
  <2>2. /\ deposit \in DOMAIN deposits
        /\ \/ deposits' = [deposits EXCEPT ![deposit] = "unlocked"]
           \/ deposits' = [deposits EXCEPT ![deposit] = "spent"]
    BY <2>1 DEF Unlock, FindSpending
  <2>3. deposits' \in Seq(DepositStates) /\ Len(deposits') = Len(deposits)
    <3>1. PICK state \in DepositStates :
            deposits' = [deposits EXCEPT ![deposit] = state]
      BY <2>2 DEF DepositStates
    <3>2. deposits \in Seq(DepositStates) /\ deposit \in DOMAIN deposits
      BY <2>2
    <3> HIDE DEF TypeInv, TypeOK, ViewInv
    <3> QED
      BY <3>1, <3>2
  <2>4. due' \subseteq Events
    BY <2>1, EventsTyped DEF Unlock, FindSpending
  <2> QED
    BY <2>1, <2>3, <2>4 DEF Unlock, FindSpending
<1>4. CASE CallBack
  <2>1. PICK event \in due :
          queue' = Append(queue, event) /\ due' = due \ {event}
    BY <1>4 DEF CallBack
  <2>2. queue' \in Seq(Events) /\ due' \subseteq Events
    BY <2>1
  <2> QED
    BY <1>4, <2>2 DEF CallBack, wallet
<1> QED
  BY <1>1, <1>2, <1>3, <1>4 DEF WalletThread

(***************************************************************************)
(* The transaction of the deposit that is being made.                      *)
(***************************************************************************)
LEMMA LastTxTyped ==
  ASSUME TypeInv, gui.pc = "deposit"
  PROVE  /\ Len(txs) \in TxIds /\ Len(txs) \in DOMAIN txs
         /\ txs[Len(txs)].hash \in Hashes
<1>1. txs # <<>> /\ txs \in Seq(Transactions)
  BY DEF TypeInv, TypeOK
<1>2. Len(txs) \in DOMAIN txs /\ Len(txs) \in 1 .. MaxTx
  BY <1>1, BoundsAssumption DEF TypeInv, TypeOK
<1>3. txs[Len(txs)] \in Transactions
  BY <1>1, <1>2
<1> QED
  BY <1>2, <1>3 DEF TxIds, Transactions

LEMMA GuiStepTyped == TypeInv /\ GuiStep => TypeInv'
<1> SUFFICES ASSUME TypeInv, GuiStep PROVE TypeInv'
  OBVIOUS
<1>1. CASE OnDeposits
  <2>1. pending \in Seq(PendingRows) /\ Len(pending) \in Nat
    BY DEF TypeInv, TypeOK
  <2> QED
    BY <1>1, <2>1, SlotTyped DEF OnDeposits, TypeInv, TypeOK
<1>2. CASE OnUpdated
  <2> DEFINE id == Head(queue).id
  <2>1. Take("updated") /\ id \in TxIds
    BY <1>2, TakeTyped, EventTypes DEF OnUpdated, TypeInv
  <2>2. pending \in Seq(PendingRows) /\ Len(pending) \in Nat
    BY DEF TypeInv, TypeOK
  <2>3. \/ pending' = pending
        \/ /\ LastMatch(id) # 0
           /\ pending' = WithoutRow(pending, LastMatch(id))
    BY <1>2 DEF OnUpdated
  <2>4. pending' \in Seq(PendingRows) /\ Len(pending') <= Len(pending)
    <3>1. CASE pending' = pending
      BY <2>2, <3>1
    <3>2. CASE /\ LastMatch(id) # 0
               /\ pending' = WithoutRow(pending, LastMatch(id))
      BY <2>2, <3>2, LastMatchTyped, RowsWithout
    <3> QED
      BY <2>3, <3>1, <3>2
  <2>5. missed' \subseteq Hashes
    <3>1. missed \subseteq Hashes /\ txs \in Seq(Transactions)
      BY DEF TypeInv, TypeOK
    <3>2. \A i \in DOMAIN txs : txs[i].hash \in Hashes
      <4>1. \A i \in DOMAIN txs : txs[i] \in Transactions
        BY <3>1
      <4> QED
        BY <4>1 DEF Transactions
    <3>3. \/ missed' = missed
          \/ id \in DOMAIN txs /\ missed' = missed \cup {txs[id].hash}
      BY <1>2 DEF OnUpdated
    <3> QED
      BY <3>1, <3>2, <3>3
  <2> QED
    BY <1>2, <2>1, <2>4, <2>5, SlotTyped DEF OnUpdated
<1> USE DEF TypeInv, TypeOK, ViewInv, wallet, list
<1>3. CASE OnPending
  <2>1. /\ Take("pending") /\ gui = EventLoop
        /\ Head(queue).id \in TxIds \cup {NoTx}
        /\ Head(queue).hash \in Hashes
        /\ queue' \in Seq(Events)
    BY <1>3, TakeTyped, EventTypes DEF OnPending
  <2>2. pending' \in Seq(PendingRows) /\ Len(pending') = Len(pending) + 1
    BY <1>3, <2>1 DEF OnPending, PendingRows
  <2>3. gui.pc = "eventLoop" /\ gui' = gui
    BY <1>3, <2>1, GuiTyped DEF OnPending
  <2>4. Len(pending) \in Nat /\ viewRows' = viewRows + 1
    BY <1>3 DEF OnPending
  <2>5. depositCount \in Nat /\ depositCount' = depositCount
    BY <1>3, BoundsAssumption DEF OnPending
  <2>6. ViewInv'
    BY <1>3, <2>2, <2>3, <2>4, <2>5 DEF OnPending
  <2> QED
    BY <1>3, <2>1, <2>2, <2>4, <2>6 DEF OnPending
<1>4. CASE OnReload \/ OnClosed
  <2>1. queue' \in Seq(Events) /\ Reset
    BY <1>4, TakeTyped DEF OnReload, OnClosed
  <2>2. gui' \in GuiPositions /\ gui'.pc # "deposit"
    <3>1. Len(deposits) \in 0 .. MaxDeposits
      BY BoundsAssumption
    <3>2. gui = EventLoop
      BY <1>4, TakeTyped DEF OnReload, OnClosed
    <3> QED
      BY <1>4, <3>1, <3>2, GuiTyped DEF OnReload, OnClosed
  <2>3. /\ Len(<<>>) = 0 /\ <<>> \in Seq(PendingRows)
        /\ 0 \in 0 .. MaxDeposits
    BY BoundsAssumption
  <2>4. ViewInv'
    BY <2>1, <2>3 DEF Reset
  <2> QED
    BY <1>4, <2>1, <2>2, <2>3, <2>4 DEF OnReload, OnClosed, Reset
<1>5. CASE CountReloaded
  <2>1. gui' = EventLoop /\ gui' \in GuiPositions /\ gui'.pc = "eventLoop"
    BY <1>5, GuiTyped DEF CountReloaded
  <2>2. pending = <<>> /\ gui.n \in 0 .. MaxDeposits
    BY <1>5 DEF CountReloaded, GuiPositions
  <2>3. depositCount' \in 0 .. MaxDeposits /\ viewRows' = gui.n
    BY <1>5, BoundsAssumption DEF CountReloaded
  <2>4. torn' \/ viewRows' = depositCount' + Len(pending')
    <3>1. Len(pending') = 0 /\ depositCount' = Len(deposits)
      BY <1>5, <2>2 DEF CountReloaded
    <3>2. torn' = (Len(deposits) # gui.n) /\ Len(deposits) \in Nat
      BY <1>5 DEF CountReloaded
    <3>3. gui.n \in Nat
      BY <2>2, BoundsAssumption
    <3>4. CASE Len(deposits) # gui.n
      BY <3>2, <3>4
    <3>5. CASE Len(deposits) = gui.n
      BY <2>3, <3>1, <3>3, <3>5
    <3> QED
      BY <3>4, <3>5
  <2> QED
    BY <1>5, <2>1, <2>2, <2>3, <2>4, BoundsAssumption DEF CountReloaded
<1>6. CASE OnInitCompleted
  <2>1. queue' \in Seq(Events)
    BY <1>6, TakeTyped, EventsTyped DEF OnInitCompleted
  <2> QED
    BY <1>6, <2>1 DEF OnInitCompleted
<1>7. CASE SubmitPending
  <2>1. /\ Len(txs) \in TxIds /\ txs[Len(txs)].hash \in Hashes
    BY <1>7, LastTxTyped DEF SubmitPending
  <2>2. queue' \in Seq(Events)
    <3>1. PICK id \in {Len(txs), NoTx} :
            queue' = Append(queue, Pending(id, txs[Len(txs)].hash))
      BY <1>7 DEF SubmitPending
    <3>2. Pending(id, txs[Len(txs)].hash) \in Events
      BY <2>1, <3>1, EventsTyped
    <3> QED
      BY <3>1, <3>2
  <2>3. gui' \in GuiPositions /\ gui'.pc = "eventLoop"
    BY <1>7, GuiTyped DEF SubmitPending
  <2> QED
    BY <1>7, <2>2, <2>3 DEF SubmitPending
<1> QED
  BY <1>1, <1>2, <1>3, <1>4, <1>5, <1>6, <1>7 DEF GuiStep

LEMMA UserTyped == TypeInv /\ User => TypeInv'
<1> SUFFICES ASSUME TypeInv, User PROVE TypeInv'
  OBVIOUS
<1> USE DEF TypeInv, TypeOK, ViewInv, list
<1>1. userActions' \in 0 .. MaxUserActions /\ gui.pc = "eventLoop"
  BY GuiTyped, BoundsAssumption
     DEF User, Deposit, Withdraw, Open, Close, Rescan, UserAction, Idle
<1>2. CASE Deposit
  <2>1. made' \in 0 .. MaxTx /\ made' \in Hashes /\ made' = made + 1
    BY <1>2, BoundsAssumption DEF Deposit, Hashes
  <2>2. [hash |-> made', confirmed |-> FALSE] \in Transactions
    BY <2>1 DEF Transactions
  <2>3. /\ txs' \in Seq(Transactions) /\ Len(txs') = Len(txs) + 1
        /\ txs' # <<>>
    <3> DEFINE tx == [hash |-> made', confirmed |-> FALSE]
    <3>1. txs' = Append(txs, tx) /\ txs \in Seq(Transactions)
      BY <1>2 DEF Deposit
    <3>2. tx \in Transactions
      BY <2>2
    <3> HIDE DEF tx, TypeInv, TypeOK, ViewInv
    <3> QED
      BY <3>1, <3>2
  <2>4. gui' \in GuiPositions /\ gui'.pc = "deposit"
    BY <1>2, GuiTyped, BoundsAssumption DEF Deposit
  <2> QED
    BY <1>1, <1>2, <2>1, <2>3, <2>4, BoundsAssumption DEF Deposit
<1>3. CASE Withdraw
  <2>1. PICK first \in DOMAIN deposits :
          deposits' = [deposits EXCEPT ![first] = "spent"]
    BY <1>3 DEF Withdraw
  <2>2. deposits' \in Seq(DepositStates) /\ Len(deposits') = Len(deposits)
    BY <2>1 DEF DepositStates
  <2>3. due' \subseteq Events
    BY <1>3, EventsTyped DEF Withdraw
  <2> QED
    BY <1>1, <1>3, <2>2, <2>3 DEF Withdraw
<1>4. CASE \E contents \in WalletContents : Open(contents)
  <2>1. PICK contents \in WalletContents : Open(contents)
    BY <1>4
  <2>2. PICK n \in 0 .. MaxDeposits : contents \in [1 .. n -> DepositStates]
    BY DEF WalletContents
  <2>3. /\ contents \in Seq(DepositStates) /\ Len(contents) <= MaxDeposits
    BY <2>2, BoundsAssumption
  <2>4. queue' \in Seq(Events)
    BY <2>1, EventsTyped DEF Open
  <2> QED
    BY <1>1, <2>1, <2>3, <2>4 DEF Open
<1>5. CASE Close \/ Rescan
  <2>1. queue' \in Seq(Events)
    <3>1. Signal("closed") \in Events /\ Signal("initCompleted") \in Events
      BY EventsTyped
    <3>2. \/ queue' = Append(queue, Signal("closed"))
          \/ queue' = Append(queue, Signal("initCompleted"))
      BY <1>5 DEF Close, Rescan
    <3>3. queue \in Seq(Events)
      OBVIOUS
    <3> HIDE DEF TypeInv, TypeOK, ViewInv
    <3> QED
      BY <3>1, <3>2, <3>3, QueueAfterPost
  <2>2. /\ txs' \in Seq(Transactions) /\ Len(txs') <= made
        /\ deposits' \in Seq(DepositStates) /\ Len(deposits') <= MaxDeposits
        /\ open' \in BOOLEAN
    <3>1. /\ txs' = <<>> /\ deposits' = <<>> /\ made \in Nat
          /\ open' \in BOOLEAN
      <4>1. txs' = <<>> /\ deposits' = <<>> /\ (open' = FALSE \/ open' = open)
        BY <1>5 DEF Close, Rescan
      <4>2. made \in Nat /\ open \in BOOLEAN
        BY BoundsAssumption
      <4> QED
        BY <4>1, <4>2
    <3>2. /\ Len(<<>>) = 0 /\ <<>> \in Seq(DepositStates)
          /\ <<>> \in Seq(Transactions)
      OBVIOUS
    <3>3. 0 <= MaxDeposits /\ 0 <= made
      BY <3>1, BoundsAssumption
    <3> HIDE DEF TypeInv, TypeOK, ViewInv
    <3> QED
      BY <3>1, <3>2, <3>3
  <2> QED
    BY <1>1, <1>5, <2>1, <2>2 DEF Close, Rescan
<1> QED
  BY <1>2, <1>3, <1>4, <1>5 DEF User

LEMMA InitTyped == Init => TypeInv
<1> SUFFICES ASSUME Init PROVE TypeInv
  OBVIOUS
<1>1. /\ Len(<<>>) = 0 /\ 0 \in 0 .. MaxDeposits /\ 0 \in 0 .. MaxTx
      /\ 0 \in 0 .. MaxUserActions
      /\ <<>> \in Seq(DepositStates) /\ <<>> \in Seq(Transactions)
      /\ <<>> \in Seq(Events) /\ <<>> \in Seq(PendingRows)
  BY BoundsAssumption
<1>2. gui \in GuiPositions /\ gui.pc = "eventLoop"
  BY GuiTyped DEF Init
<1>3. TypeOK
  <2>1. Len(txs) <= made /\ Len(deposits) <= MaxDeposits
    BY <1>1, BoundsAssumption DEF Init
  <2>2. due \subseteq Events /\ missed \subseteq Hashes
    BY DEF Init
  <2> QED
    BY <1>1, <1>2, <2>1, <2>2 DEF Init, TypeOK
<1> QED
  BY <1>1, <1>2, <1>3 DEF Init, TypeInv, ViewInv

LEMMA TypesHold == Spec => []TypeInv
<1>1. Init => TypeInv
  BY InitTyped
<1>2. TypeInv /\ [Next]_vars => TypeInv'
  <2>1. TypeInv /\ UNCHANGED vars => TypeInv'
    BY DEF TypeInv, TypeOK, ViewInv, vars, wallet, list
  <2> QED
    BY <2>1, WalletThreadTyped, GuiStepTyped, UserTyped DEF Next
<1> QED
  BY <1>1, <1>2, PTL DEF Spec

(***************************************************************************)
(* All variables keep their types, whatever the bounds: no removal of a    *)
(* row ever tells the views of fewer rows than none.                       *)
(***************************************************************************)
THEOREM TypeCorrect == Spec => []TypeOK
<1>1. TypeInv => TypeOK
  BY DEF TypeInv
<1> QED
  BY <1>1, TypesHold, PTL

(***************************************************************************)
(* The views know of as many rows as the list has, whatever the numbers of *)
(* deposits, of wallets and of events, unless a deposit came between the   *)
(* two counts of a reload.                                                 *)
(***************************************************************************)
THEOREM ViewsAlwaysAgree == Spec => []ViewsAgree
<1>1. TypeInv => ViewsAgree
  BY GuiTyped DEF TypeInv, ViewInv, ViewsAgree, Idle
<1> QED
  BY <1>1, TypesHold, PTL
-----------------------------------------------------------------------------
(***************************************************************************)
(* The list is wrong about a wallet only while an event that clears or     *)
(* reloads it is in the queue.  "initCompleted" is one of them while a     *)
(* wallet is open, as its slot then asks for a reload; when none is, the   *)
(* slot does nothing, and it takes a "closed" or a "reload".               *)
(***************************************************************************)
ClearTypes == {"closed", "initCompleted", "reload"}
Clearing(isOpen) == IF isOpen THEN ClearTypes ELSE {"closed", "reload"}

Later(q, k, types) == \E j \in DOMAIN q : j > k /\ q[j].type \in types

Items(q) == {q[i] : i \in DOMAIN q}

(* What clears the list of a wallet that was closed is followed by what    *)
(* loads it with the deposits of the one that was opened.                  *)
ClosedThenLoaded(q) ==
  \A k \in DOMAIN q :
    q[k].type = "closed" => Later(q, k, {"initCompleted", "reload"})

LEMMA LaterAfterPost ==
  ASSUME NEW q \in Seq(Events), NEW event \in Events
  PROVE  /\ Items(Append(q, event)) = Items(q) \cup {event}
         /\ \A k, types : Later(q, k, types) =>
                            Later(Append(q, event), k, types)
         /\ \A k \in 0 .. Len(q) : \A types :
              event.type \in types => Later(Append(q, event), k, types)
<1> DEFINE r == Append(q, event)
<1>1. /\ Len(q) \in Nat /\ DOMAIN q = 1 .. Len(q)
      /\ DOMAIN r = 1 .. Len(q) + 1 /\ r[Len(q) + 1] = event
      /\ \A k \in 1 .. Len(q) : r[k] = q[k]
  BY QueueAfterPost
<1> HIDE DEF r
<1>2. Items(r) = Items(q) \cup {event}
  <2>1. ASSUME NEW e \in Items(r) PROVE e \in Items(q) \cup {event}
    <3>1. PICK i \in DOMAIN r : e = r[i]
      BY DEF Items
    <3>2. i \in 1 .. Len(q) \/ i = Len(q) + 1
      BY <1>1
    <3> QED
      BY <1>1, <3>1, <3>2 DEF Items
  <2>2. ASSUME NEW e \in Items(q) PROVE e \in Items(r)
    <3>1. PICK i \in DOMAIN q : e = q[i]
      BY DEF Items
    <3>2. i \in DOMAIN r /\ e = r[i]
      BY <1>1, <3>1
    <3> QED
      BY <3>2 DEF Items
  <2>3. event \in Items(r)
    <3>1. Len(q) + 1 \in DOMAIN r
      BY <1>1
    <3> QED
      BY <1>1, <3>1 DEF Items
  <2> QED
    BY <2>1, <2>2, <2>3
<1>3. ASSUME NEW k, NEW types, Later(q, k, types) PROVE Later(r, k, types)
  <2>1. PICK j \in DOMAIN q : j > k /\ q[j].type \in types
    BY <1>3 DEF Later
  <2>2. j \in DOMAIN r /\ r[j] = q[j]
    BY <1>1
  <2> QED
    BY <2>1, <2>2 DEF Later
<1>4. ASSUME NEW k \in 0 .. Len(q), NEW types, event.type \in types
      PROVE  Later(r, k, types)
  <2>1. Len(q) + 1 \in DOMAIN r /\ Len(q) + 1 > k
    BY <1>1
  <2> QED
    BY <1>1, <1>4, <2>1 DEF Later
<1> QED
  BY <1>2, <1>3, <1>4 DEF r

LEMMA LaterAfterTake ==
  ASSUME NEW q \in Seq(Events), q # <<>>
  PROVE  /\ Items(Tail(q)) \subseteq Items(q)
         /\ Items(q) \subseteq Items(Tail(q)) \cup {Head(q)}
         /\ \A k \in Nat : \A types :
              Later(q, k + 1, types) => Later(Tail(q), k, types)
         /\ \A types : Later(q, 0, types) /\ Head(q).type \notin types =>
                         Later(Tail(q), 0, types)
<1> DEFINE r == Tail(q)
<1>1. /\ Head(q) = q[1] /\ Len(q) \in Nat \ {0} /\ DOMAIN q = 1 .. Len(q)
      /\ DOMAIN r = 1 .. Len(q) - 1
      /\ \A k \in 1 .. Len(q) - 1 : r[k] = q[k + 1]
  BY QueueAfterTake
<1> HIDE DEF r
<1>2. Items(r) \subseteq Items(q)
  <2>1. ASSUME NEW i \in DOMAIN r PROVE r[i] \in Items(q)
    <3>1. i + 1 \in DOMAIN q /\ r[i] = q[i + 1]
      BY <1>1
    <3> QED
      BY <3>1 DEF Items
  <2> QED
    BY <2>1 DEF Items
<1>3. Items(q) \subseteq Items(r) \cup {Head(q)}
  <2>1. ASSUME NEW i \in DOMAIN q PROVE q[i] \in Items(r) \cup {Head(q)}
    <3>1. CASE i = 1
      BY <1>1, <3>1
    <3>2. CASE i # 1
      <4>1. i - 1 \in DOMAIN r /\ r[i - 1] = q[(i - 1) + 1]
        BY <1>1, <3>2
      <4>2. (i - 1) + 1 = i
        BY <1>1
      <4> QED
        BY <4>1, <4>2 DEF Items
    <3> QED
      BY <3>1, <3>2
  <2> QED
    BY <2>1 DEF Items
<1>4. ASSUME NEW k \in Nat, NEW types, Later(q, k + 1, types)
      PROVE  Later(r, k, types)
  <2>1. PICK j \in DOMAIN q : j > k + 1 /\ q[j].type \in types
    BY <1>4 DEF Later
  <2>2. j - 1 \in DOMAIN r /\ j - 1 > k /\ (j - 1) + 1 = j
    BY <1>1, <2>1
  <2>3. r[j - 1] = q[j]
    BY <1>1, <2>2
  <2> QED
    BY <2>1, <2>2, <2>3 DEF Later
<1>5. ASSUME NEW types, Later(q, 0, types), Head(q).type \notin types
      PROVE  Later(r, 0, types)
  <2>1. PICK j \in DOMAIN q : j > 0 /\ q[j].type \in types
    BY <1>5 DEF Later
  <2>2. j > 0 + 1
    BY <1>1, <1>5, <2>1
  <2>3. Later(q, 0 + 1, types)
    BY <2>1, <2>2 DEF Later
  <2> QED
    BY <1>4, <2>3
<1> QED
  BY <1>2, <1>3, <1>4, <1>5 DEF r

LEMMA ClosedAfterPost ==
  ASSUME NEW q \in Seq(Events), NEW event \in Events,
         \/ event.type \in {"initCompleted", "reload"}
         \/ ClosedThenLoaded(q) /\ event.type # "closed"
  PROVE  ClosedThenLoaded(Append(q, event))
<1>1. SUFFICES ASSUME NEW k \in DOMAIN Append(q, event),
                      Append(q, event)[k].type = "closed"
               PROVE  Later(Append(q, event), k, {"initCompleted", "reload"})
  BY DEF ClosedThenLoaded
<1>2. k \in 1 .. Len(q) /\ Append(q, event)[k] = q[k] /\ k \in DOMAIN q
  BY <1>1, QueueAfterPost
<1>3. CASE event.type \in {"initCompleted", "reload"}
  <2>1. k \in 0 .. Len(q)
    BY <1>2
  <2> QED
    BY <1>3, <2>1, LaterAfterPost
<1>4. CASE ClosedThenLoaded(q) /\ event.type # "closed"
  <2>1. Later(q, k, {"initCompleted", "reload"})
    BY <1>1, <1>2, <1>4 DEF ClosedThenLoaded
  <2> QED
    BY <2>1, LaterAfterPost
<1> QED
  BY <1>3, <1>4

LEMMA ClosedAfterTake ==
  ASSUME NEW q \in Seq(Events), q # <<>>, ClosedThenLoaded(q)
  PROVE  ClosedThenLoaded(Tail(q))
<1>1. SUFFICES ASSUME NEW k \in DOMAIN Tail(q), Tail(q)[k].type = "closed"
               PROVE  Later(Tail(q), k, {"initCompleted", "reload"})
  BY DEF ClosedThenLoaded
<1>2. k \in Nat /\ k + 1 \in DOMAIN q /\ Tail(q)[k] = q[k + 1]
  BY QueueAfterTake
<1>3. Later(q, k + 1, {"initCompleted", "reload"})
  BY <1>1, <1>2 DEF ClosedThenLoaded
<1> QED
  BY <1>2, <1>3, LaterAfterTake


(***************************************************************************)
(* The inductive invariant: the list is right, or will be cleared or       *)
(* reloaded; and what it has left of a closed wallet is going to be        *)
(* cleared.                                                                *)
(***************************************************************************)
Announced == Signal("deposits") \in due \cup Items(queue)

ShownNow ==
  /\ depositCount <= Len(deposits)
  /\ \/ ~open \/ LastSpent \/ gui.pc = "reload" \/ Announced
     \/ depositCount >= Len(deposits)

ClosedInv ==
  /\ ~open => /\ deposits = <<>> /\ txs = <<>>
              /\ depositCount = 0 \/ Later(queue, 0, {"closed", "reload"})
  /\ open => ClosedThenLoaded(queue)
  /\ \A event \in due : event.type \in {"deposits", "updated"}

ShownInv ==
  /\ TypeInv
  /\ ClosedInv
  /\ Later(queue, 0, ClearTypes) \/ ShownNow

LEMMA ShownIsShown == ShownInv => ShowsDeposits
<1> SUFFICES ASSUME ShownInv PROVE ShowsDeposits
  OBVIOUS
<1>1. CASE Later(queue, 0, ClearTypes)
  <2>1. PICK j \in DOMAIN queue : queue[j].type \in ClearTypes
    BY <1>1 DEF Later
  <2>2. queue[j].type \in PostedTypes
    BY DEF PostedTypes, Posted
  <2> QED
    BY <2>1, <2>2 DEF ShowsDeposits, ClearPosted, ClearTypes
<1>2. CASE ShownNow
  BY <1>2 DEF ShownNow, ShowsDeposits, NoForeignDeposits, CaughtUp, Announced,
              Posted, Items
<1> QED
  BY <1>1, <1>2 DEF ShownInv

(***************************************************************************)
(* A step after which the queue ends with an event that clears or reloads. *)
(***************************************************************************)
LEMMA ClearedInTheEnd ==
  ASSUME NEW q \in Seq(Events), NEW event \in Events,
         event.type \in ClearTypes
  PROVE  Later(Append(q, event), 0, ClearTypes)
<1>1. 0 \in 0 .. Len(q)
  OBVIOUS
<1> QED
  BY <1>1, LaterAfterPost

(***************************************************************************)
(* The wallet thread: a deposit that the list has not is announced, and    *)
(* what is called back is posted.                                          *)
(***************************************************************************)
LEMMA ShownWalletThread == ShownInv /\ WalletThread => ShownInv'
<1> SUFFICES ASSUME ShownInv, WalletThread PROVE ShownInv'
  OBVIOUS
<1>1. TypeInv'
  BY WalletThreadTyped DEF ShownInv
<1>2. Signal("deposits").type = "deposits"
      /\ \A id \in TxIds : Updated(id).type = "updated"
  BY EventsTyped
<1>3. CASE \E id \in TxIds : Confirm(id)
  <2>1. PICK id \in TxIds : Confirm(id)
    BY <1>3
  <2>2. /\ open /\ due = {} /\ due' = {Updated(id)}
        /\ UNCHANGED <<open, deposits, queue, gui, depositCount>>
    BY <2>1 DEF Confirm, MayBegin, Notify, list
  <2>3. ClosedInv'
    BY <1>2, <2>2 DEF ShownInv, ClosedInv
  <2>4. ShownNow => ShownNow'
    BY <2>2 DEF ShownNow, LastSpent, Announced
  <2> QED
    BY <1>1, <2>2, <2>3, <2>4 DEF ShownInv
<1>4. CASE \/ FindDeposit
           \/ \E deposit \in 1 .. MaxDeposits :
                Unlock(deposit) \/ FindSpending(deposit)
  <2>1. /\ open /\ due' = {Signal("deposits")}
        /\ UNCHANGED <<open, queue, gui, depositCount>>
    BY <1>4 DEF FindDeposit, Unlock, FindSpending, MayBegin, Notify, list
  <2>2. Len(deposits') >= Len(deposits)
    <3>1. deposits \in Seq(DepositStates)
      BY DEF ShownInv, TypeInv, TypeOK
    <3>2. \/ deposits' = Append(deposits, "locked")
          \/ \E deposit \in DOMAIN deposits :
               \/ deposits' = [deposits EXCEPT ![deposit] = "unlocked"]
               \/ deposits' = [deposits EXCEPT ![deposit] = "spent"]
      BY <1>4 DEF FindDeposit, Unlock, FindSpending
    <3> QED
      BY <3>1, <3>2
  <2>3. ClosedInv'
    BY <1>2, <2>1 DEF ShownInv, ClosedInv
  <2>4. ShownNow => ShownNow'
    <3>1. /\ depositCount \in Int
          /\ Len(deposits) \in Int /\ Len(deposits') \in Int
      BY <1>1, BoundsAssumption DEF ShownInv, TypeInv, TypeOK
    <3> QED
      BY <2>1, <2>2, <3>1 DEF ShownNow, Announced
  <2> QED
    BY <1>1, <2>1, <2>3, <2>4 DEF ShownInv
<1>5. CASE CallBack
  <2>1. PICK event \in due :
          queue' = Append(queue, event) /\ due' = due \ {event}
    BY <1>5 DEF CallBack
  <2>2. UNCHANGED <<open, deposits, txs, gui, depositCount>>
    BY <1>5 DEF CallBack, wallet, list
  <2>3. /\ queue \in Seq(Events) /\ event \in Events
        /\ event.type \in {"deposits", "updated"}
    BY <2>1 DEF ShownInv, TypeInv, TypeOK, ClosedInv
  <2>4. /\ Items(queue') = Items(queue) \cup {event}
        /\ \A k, types : Later(queue, k, types) => Later(queue', k, types)
    BY <2>1, <2>3, LaterAfterPost
  <2>5. ClosedInv'
    BY <2>1, <2>2, <2>3, <2>4, ClosedAfterPost DEF ShownInv, ClosedInv
  <2>6. ShownNow => ShownNow'
    BY <2>1, <2>2, <2>4 DEF ShownNow, LastSpent, Announced
  <2> QED
    BY <1>1, <2>4, <2>5, <2>6 DEF ShownInv
<1> QED
  BY <1>3, <1>4, <1>5 DEF WalletThread

(***************************************************************************)
(* A slot that looks for new deposits shows all of them, or none of them   *)
(* if the last one is spent.                                               *)
(***************************************************************************)
LEMMA ShownAfterSync ==
  ASSUME ShownInv, TypeInv', NEW type \in {"deposits", "updated"}, Take(type),
         queue' = Tail(queue), ShowSynced, UNCHANGED <<wallet, due, gui>>
  PROVE  ShownInv'
<1>1. /\ queue \in Seq(Events) /\ queue # <<>> /\ Head(queue).type = type
      /\ depositCount \in Nat /\ Len(deposits) \in Nat
  BY TakeTyped, BoundsAssumption DEF ShownInv, TypeInv, TypeOK
<1>2. \A types : Later(queue, 0, types) /\ type \notin types =>
                   Later(queue', 0, types)
  BY <1>1, LaterAfterTake
<1>3. /\ depositCount' = Synced(depositCount)
      /\ UNCHANGED <<open, deposits, txs, due, gui>>
  BY DEF ShowSynced, wallet
<1>4. ClosedInv'
  <2>1. ~open => depositCount' = depositCount
    BY <1>1, <1>3 DEF ShownInv, ClosedInv, Synced
  <2>2. open => ClosedThenLoaded(queue')
    BY <1>1, ClosedAfterTake DEF ShownInv, ClosedInv
  <2> QED
    BY <1>2, <1>3, <2>1, <2>2 DEF ShownInv, ClosedInv
<1>5. CASE Later(queue, 0, ClearTypes)
  <2>1. Later(queue', 0, ClearTypes)
    BY <1>2, <1>5 DEF ClearTypes
  <2> QED
    BY <1>4, <2>1 DEF ShownInv
<1>6. CASE ShownNow
  <2>1. ShownNow'
    BY <1>1, <1>3, <1>6 DEF ShownNow, Synced, LastSpent
  <2> QED
    BY <1>4, <2>1 DEF ShownInv
<1> QED
  BY <1>5, <1>6 DEF ShownInv

LEMMA ShownGuiStep == ShownInv /\ GuiStep => ShownInv'
<1> SUFFICES ASSUME ShownInv, GuiStep PROVE ShownInv'
  OBVIOUS
<1>1. TypeInv' /\ queue \in Seq(Events)
  BY GuiStepTyped DEF ShownInv, TypeInv, TypeOK
<1>2. CASE OnDeposits \/ OnUpdated
  <2>1. /\ queue' = Tail(queue) /\ ShowSynced /\ UNCHANGED <<wallet, due, gui>>
        /\ Take("deposits") \/ Take("updated")
    BY <1>2 DEF OnDeposits, OnUpdated
  <2> QED
    BY <1>1, <2>1, ShownAfterSync
<1>3. CASE OnPending
  <2>1. /\ queue # <<>> /\ Head(queue).type = "pending" /\ queue' = Tail(queue)
        /\ UNCHANGED <<open, deposits, txs, due, gui, depositCount>>
    BY <1>3 DEF OnPending, Take, wallet
  <2>2. /\ \A types : Later(queue, 0, types) /\ "pending" \notin types =>
                        Later(queue', 0, types)
        /\ Items(queue) \subseteq Items(queue') \cup {Head(queue)}
        /\ ClosedThenLoaded(queue) => ClosedThenLoaded(queue')
    BY <1>1, <2>1, LaterAfterTake, ClosedAfterTake
  <2>3. ClosedInv'
    BY <2>1, <2>2 DEF ShownInv, ClosedInv
  <2>4. Announced => Announced'
    BY <2>1, <2>2, EventsTyped DEF Announced
  <2>5. ShownNow => ShownNow'
    BY <2>1, <2>4 DEF ShownNow, LastSpent
  <2> QED
    BY <1>1, <2>2, <2>3, <2>5 DEF ShownInv, ClearTypes
<1>4. CASE OnReload \/ OnClosed
  <2>1. /\ queue # <<>> /\ queue' = Tail(queue) /\ depositCount' = 0
        /\ Head(queue) = queue[1]
        /\ UNCHANGED <<open, deposits, txs, due>>
    BY <1>1, <1>4, QueueAfterTake DEF OnReload, OnClosed, Take, Reset, wallet
  <2>2. ClosedInv'
    BY <1>1, <2>1, ClosedAfterTake DEF ShownInv, ClosedInv
  <2>3. Len(deposits) \in Nat
    BY DEF ShownInv, TypeInv, TypeOK
  <2>4. CASE OnReload
    <3>1. gui'.pc = "reload" \/ deposits = <<>>
      <4>1. Len(deposits) \in 0 .. MaxDeposits
        BY BoundsAssumption DEF ShownInv, TypeInv, TypeOK
      <4> QED
        BY <2>4, <4>1, GuiTyped DEF OnReload
    <3>2. ShownNow'
      BY <2>1, <2>3, <3>1 DEF ShownNow
    <3> QED
      BY <1>1, <2>2, <3>2 DEF ShownInv
  <2>5. CASE OnClosed
    <3>1. CASE open
      <4>1. 1 \in DOMAIN queue /\ queue[1].type = "closed"
        BY <1>1, <2>1, <2>5, QueueAfterTake DEF OnClosed, Take
      <4>2. Later(queue, 0 + 1, {"initCompleted", "reload"})
        BY <3>1, <4>1 DEF ShownInv, ClosedInv, ClosedThenLoaded
      <4>3. Later(queue', 0, {"initCompleted", "reload"})
        BY <1>1, <2>1, <4>2, LaterAfterTake
      <4>4. Later(queue', 0, ClearTypes)
        BY <4>3 DEF Later, ClearTypes
      <4> QED
        BY <1>1, <2>2, <4>4 DEF ShownInv
    <3>2. CASE ~open
      <4>1. ShownNow'
        BY <2>1, <2>3, <3>2 DEF ShownNow
      <4> QED
        BY <1>1, <2>2, <4>1 DEF ShownInv
    <3> QED
      BY <3>1, <3>2
  <2> QED
    BY <1>4, <2>4, <2>5
<1>5. CASE CountReloaded
  <2>1. /\ depositCount' = Len(deposits)
        /\ UNCHANGED <<open, deposits, txs, due, queue>>
    BY <1>5 DEF CountReloaded, wallet
  <2>2. Len(deposits) \in Nat /\ (deposits = <<>> => Len(deposits) = 0)
    BY DEF ShownInv, TypeInv, TypeOK
  <2>3. ClosedInv'
    BY <2>1, <2>2 DEF ShownInv, ClosedInv
  <2>4. ShownNow'
    BY <2>1, <2>2 DEF ShownNow
  <2> QED
    BY <1>1, <2>3, <2>4 DEF ShownInv
<1>6. CASE OnInitCompleted
  <2>1. /\ queue # <<>> /\ Head(queue).type = "initCompleted"
        /\ UNCHANGED <<open, deposits, txs, due, gui, depositCount>>
    BY <1>6 DEF OnInitCompleted, Take, wallet, list
  <2>2. /\ Tail(queue) \in Seq(Events) /\ Signal("reload") \in Events
        /\ Signal("reload").type = "reload"
    BY <1>1, <2>1, QueueAfterTake, EventsTyped
  <2>3. CASE open
    <3>1. queue' = Append(Tail(queue), Signal("reload"))
      BY <1>6, <2>3 DEF OnInitCompleted
    <3>2. Later(queue', 0, ClearTypes)
      BY <2>2, <3>1, ClearedInTheEnd DEF ClearTypes
    <3>3. ClosedThenLoaded(queue')
      BY <2>2, <3>1, ClosedAfterPost
    <3>4. ClosedInv'
      BY <2>1, <2>3, <3>3 DEF ShownInv, ClosedInv
    <3> QED
      BY <1>1, <3>2, <3>4 DEF ShownInv
  <2>4. CASE ~open
    <3>1. queue' = Tail(queue)
      BY <1>6, <2>4 DEF OnInitCompleted
    <3>2. depositCount = 0 \/ Later(queue', 0, {"closed", "reload"})
      BY <1>1, <2>1, <2>4, <3>1, LaterAfterTake DEF ShownInv, ClosedInv
    <3>3. ClosedInv'
      BY <2>1, <2>4, <3>2 DEF ShownInv, ClosedInv
    <3>4. CASE depositCount = 0
      <4>1. Len(deposits) \in Nat
        BY DEF ShownInv, TypeInv, TypeOK
      <4>2. ShownNow'
        BY <2>1, <2>4, <3>4, <4>1 DEF ShownNow
      <4> QED
        BY <1>1, <3>3, <4>2 DEF ShownInv
    <3>5. CASE Later(queue', 0, {"closed", "reload"})
      <4>1. Later(queue', 0, ClearTypes)
        BY <3>5 DEF Later, ClearTypes
      <4> QED
        BY <1>1, <3>3, <4>1 DEF ShownInv
    <3> QED
      BY <3>2, <3>4, <3>5
  <2> QED
    BY <2>3, <2>4
<1>7. CASE SubmitPending
  <2>1. PICK id \in {Len(txs), NoTx} :
          queue' = Append(queue, Pending(id, txs[Len(txs)].hash))
    BY <1>7 DEF SubmitPending
  <2> DEFINE event == Pending(id, txs[Len(txs)].hash)
  <2>2. UNCHANGED <<open, deposits, txs, due, depositCount>>
    BY <1>7 DEF SubmitPending, wallet, list
  <2>3. gui.pc = "deposit"
    BY <1>7 DEF SubmitPending
  <2>4. event \in Events /\ event.type = "pending"
    <3>1. id \in TxIds \cup {NoTx} /\ txs[Len(txs)].hash \in Hashes
      BY <2>1, <2>3, LastTxTyped DEF ShownInv
    <3> QED
      BY <3>1, EventsTyped
  <2> HIDE DEF event
  <2>5. /\ \A k, types : Later(queue, k, types) => Later(queue', k, types)
        /\ Items(queue') = Items(queue) \cup {event}
        /\ ClosedThenLoaded(queue) => ClosedThenLoaded(queue')
    BY <1>1, <2>1, <2>4, LaterAfterPost, ClosedAfterPost DEF event
  <2>6. ClosedInv'
    BY <2>2, <2>5 DEF ShownInv, ClosedInv
  <2>7. ShownNow => ShownNow'
    BY <2>2, <2>3, <2>5 DEF ShownNow, LastSpent, Announced
  <2> QED
    BY <1>1, <2>5, <2>6, <2>7 DEF ShownInv
<1> QED
  BY <1>2, <1>3, <1>4, <1>5, <1>6, <1>7 DEF GuiStep

LEMMA ShownUser == ShownInv /\ User => ShownInv'
<1> SUFFICES ASSUME ShownInv, User PROVE ShownInv'
  OBVIOUS
<1>1. TypeInv' /\ queue \in Seq(Events)
  BY UserTyped DEF ShownInv, TypeInv, TypeOK
<1>2. gui.pc = "eventLoop"
  BY GuiTyped DEF User, Deposit, Withdraw, Open, Close, Rescan, UserAction,
                  Idle
<1>3. CASE Deposit
  <2>1. open /\ UNCHANGED <<open, deposits, due, queue, depositCount>>
    BY <1>3 DEF Deposit, list
  <2>2. ClosedInv'
    BY <2>1 DEF ShownInv, ClosedInv
  <2>3. ShownNow => ShownNow'
    BY <1>2, <2>1 DEF ShownNow, LastSpent, Announced
  <2> QED
    BY <1>1, <2>1, <2>2, <2>3 DEF ShownInv
<1>4. CASE Withdraw
  <2>1. /\ open /\ due' = {Signal("deposits")}
        /\ UNCHANGED <<open, txs, queue, gui, depositCount>>
    BY <1>4 DEF Withdraw, list
  <2>2. Len(deposits') = Len(deposits)
    <3>1. deposits \in Seq(DepositStates)
      BY DEF ShownInv, TypeInv, TypeOK
    <3>2. \E first \in DOMAIN deposits :
            deposits' = [deposits EXCEPT ![first] = "spent"]
      BY <1>4 DEF Withdraw
    <3> QED
      BY <3>1, <3>2
  <2>3. ClosedInv'
    BY <2>1, EventsTyped DEF ShownInv, ClosedInv
  <2>4. ShownNow => ShownNow'
    BY <2>1, <2>2 DEF ShownNow, Announced
  <2> QED
    BY <1>1, <2>1, <2>3, <2>4 DEF ShownInv
<1>5. CASE (\E contents \in WalletContents : Open(contents)) \/ Rescan
  <2>1. /\ open' /\ queue' = Append(queue, Signal("initCompleted"))
        /\ UNCHANGED due
    BY <1>5 DEF Open, Rescan
  <2>2. /\ Signal("initCompleted") \in Events
        /\ Signal("initCompleted").type = "initCompleted"
    BY EventsTyped
  <2>3. ClosedThenLoaded(queue') /\ Later(queue', 0, ClearTypes)
    BY <1>1, <2>1, <2>2, ClosedAfterPost, ClearedInTheEnd DEF ClearTypes
  <2>4. ClosedInv'
    BY <2>1, <2>3 DEF ShownInv, ClosedInv
  <2> QED
    BY <1>1, <2>3, <2>4 DEF ShownInv
<1>6. CASE Close
  <2>1. /\ ~open' /\ deposits' = <<>> /\ txs' = <<>> /\ UNCHANGED due
        /\ queue' = Append(queue, Signal("closed"))
    BY <1>6 DEF Close
  <2>2. Signal("closed") \in Events /\ Signal("closed").type = "closed"
    BY EventsTyped
  <2>3. /\ Later(queue', 0, {"closed", "reload"})
        /\ Later(queue', 0, ClearTypes)
    <3>1. 0 \in 0 .. Len(queue)
      BY <1>1
    <3> QED
      BY <1>1, <2>1, <2>2, <3>1, LaterAfterPost DEF ClearTypes
  <2>4. ClosedInv'
    BY <2>1, <2>3 DEF ShownInv, ClosedInv
  <2> QED
    BY <1>1, <2>3, <2>4 DEF ShownInv
<1> QED
  BY <1>3, <1>4, <1>5, <1>6 DEF User

LEMMA ShownHolds == Spec => []ShownInv
<1>1. Init => ShownInv
  <2> SUFFICES ASSUME Init PROVE ShownInv
    OBVIOUS
  <2>1. TypeInv
    BY InitTyped
  <2>2. ShownNow /\ ClosedInv
    BY DEF Init, ShownNow, ClosedInv
  <2> QED
    BY <2>1, <2>2 DEF ShownInv
<1>2. ShownInv /\ [Next]_vars => ShownInv'
  <2>1. ASSUME ShownInv, UNCHANGED vars PROVE ShownInv'
    BY <2>1 DEF ShownInv, TypeInv, TypeOK, ViewInv, ClosedInv, ShownNow,
                LastSpent, Announced, vars, wallet, list
  <2> QED
    BY <2>1, ShownWalletThread, ShownGuiStep, ShownUser DEF Next
<1> QED
  BY <1>1, <1>2, PTL DEF Spec

(***************************************************************************)
(* The list never shows a deposit of another wallet, and misses none of    *)
(* the open one's, unless the event that will make good for it is on its   *)
(* way or the last deposit is spent: however the wallet thread, the event  *)
(* loop and the user interleave, for every number of deposits, events and  *)
(* wallets.                                                                *)
(***************************************************************************)
THEOREM DepositsAreShown == Spec => []ShowsDeposits
BY ShownHolds, ShownIsShown, PTL
-----------------------------------------------------------------------------
(***************************************************************************)
(* No two pending rows, made or to come, are of one transaction: its hash  *)
(* is that of one row, or of one event that will add one, or of the        *)
(* deposit that is being made.                                             *)
(***************************************************************************)
Once(rows, q) ==
  /\ \A i, j \in DOMAIN rows : rows[i].hash = rows[j].hash => i = j
  /\ \A i, j \in DOMAIN q :
       q[i].type = "pending" /\ q[i].hash = q[j].hash => i = j
  /\ \A row \in Items(rows), event \in Items(q) : row.hash # event.hash

Fresh(hash, rows, q) ==
  \A item \in Items(rows) \cup Items(q) : item.hash # hash

LEMMA HashesTyped ==
  /\ \A rows \in Seq(PendingRows) : \A row \in Items(rows) :
       row \in PendingRows /\ row.hash \in Nat \ {0}
  /\ \A q \in Seq(Events) : \A event \in Items(q) :
       /\ event \in Events /\ event.hash \in Nat
       /\ event.type = "pending" <=> event.hash # 0
<1>1. ASSUME NEW rows \in Seq(PendingRows), NEW row \in Items(rows)
      PROVE  row \in PendingRows /\ row.hash \in Nat \ {0}
  <2>1. row \in PendingRows
    BY DEF Items
  <2> QED
    BY <2>1, BoundsAssumption DEF PendingRows, Hashes
<1>2. ASSUME NEW q \in Seq(Events), NEW event \in Items(q)
      PROVE  /\ event \in Events /\ event.hash \in Nat
             /\ event.type = "pending" <=> event.hash # 0
  <2>1. event \in Events
    BY DEF Items
  <2>2. event.type = "pending" => event.hash \in Hashes
    BY <2>1, EventTypes
  <2>3. event.type # "pending" => event.hash = 0
    BY <2>1, EventTypes
  <2> QED
    BY <2>1, <2>2, <2>3, BoundsAssumption DEF Hashes
<1> QED
  BY <1>1, <1>2

LEMMA RowsAfterAppend ==
  ASSUME NEW rows \in Seq(PendingRows), NEW row \in PendingRows
  PROVE  /\ Append(rows, row) \in Seq(PendingRows)
         /\ Items(Append(rows, row)) = Items(rows) \cup {row}
         /\ DOMAIN Append(rows, row) = 1 .. Len(rows) + 1
         /\ DOMAIN rows = 1 .. Len(rows) /\ Len(rows) \in Nat
         /\ Append(rows, row)[Len(rows) + 1] = row
         /\ \A k \in 1 .. Len(rows) : Append(rows, row)[k] = rows[k]
<1> DEFINE r == Append(rows, row)
<1>1. /\ r \in Seq(PendingRows)
      /\ Len(rows) \in Nat /\ DOMAIN rows = 1 .. Len(rows)
      /\ DOMAIN r = 1 .. Len(rows) + 1 /\ r[Len(rows) + 1] = row
      /\ \A k \in 1 .. Len(rows) : r[k] = rows[k]
  OBVIOUS
<1> HIDE DEF r
<1>2. ASSUME NEW e \in Items(r) PROVE e \in Items(rows) \cup {row}
  <2>1. PICK i \in DOMAIN r : e = r[i]
    BY DEF Items
  <2>2. i \in 1 .. Len(rows) \/ i = Len(rows) + 1
    BY <1>1
  <2> QED
    BY <1>1, <2>1, <2>2 DEF Items
<1>3. ASSUME NEW e \in Items(rows) PROVE e \in Items(r)
  <2>1. PICK i \in DOMAIN rows : e = rows[i]
    BY DEF Items
  <2>2. i \in DOMAIN r /\ e = r[i]
    BY <1>1, <2>1
  <2> QED
    BY <2>2 DEF Items
<1>4. row \in Items(r)
  <2>1. Len(rows) + 1 \in DOMAIN r
    BY <1>1
  <2> QED
    BY <1>1, <2>1 DEF Items
<1>5. Items(r) = Items(rows) \cup {row}
  BY <1>2, <1>3, <1>4
<1> QED
  BY <1>1, <1>5 DEF r

LEMMA RowsWithoutOne ==
  ASSUME NEW rows \in Seq(PendingRows), NEW i \in DOMAIN rows,
         NEW row \in Items(WithoutRow(rows, i))
  PROVE  \E k \in DOMAIN rows : k # i /\ row = rows[k]
<1> DEFINE r == WithoutRow(rows, i)
<1>1. /\ r \in Seq(PendingRows) /\ Len(r) = Len(rows) - 1
      /\ \A k \in 1 .. Len(rows) - 1 :
           r[k] = IF k < i THEN rows[k] ELSE rows[k + 1]
  BY RowsWithout
<1>2. Len(rows) \in Nat /\ i \in 1 .. Len(rows)
  OBVIOUS
<1>3. PICK m \in DOMAIN r : row = r[m]
  BY DEF Items
<1> HIDE DEF r
<1>4. m \in 1 .. Len(rows) - 1
  BY <1>1, <1>2, <1>3
<1>5. CASE m < i
  <2>1. m \in DOMAIN rows /\ m # i /\ row = rows[m]
    BY <1>1, <1>2, <1>3, <1>4, <1>5
  <2> QED
    BY <2>1
<1>6. CASE ~(m < i)
  <2>1. m + 1 \in DOMAIN rows /\ m + 1 # i /\ row = rows[m + 1]
    BY <1>1, <1>2, <1>3, <1>4, <1>6
  <2> QED
    BY <2>1
<1> QED
  BY <1>5, <1>6

LEMMA OnceAfterPost ==
  ASSUME NEW rows \in Seq(PendingRows), NEW q \in Seq(Events),
         NEW event \in Events, Once(rows, q),
         event.type # "pending" \/ Fresh(event.hash, rows, q)
  PROVE  Once(rows, Append(q, event))
<1> DEFINE r == Append(q, event)
<1>1. /\ Items(r) = Items(q) \cup {event}
      /\ Len(q) \in Nat /\ DOMAIN q = 1 .. Len(q)
      /\ DOMAIN r = 1 .. Len(q) + 1 /\ r[Len(q) + 1] = event
      /\ \A k \in 1 .. Len(q) : r[k] = q[k]
  BY LaterAfterPost, QueueAfterPost
<1> HIDE DEF r
<1>2. event.type # "pending" => event.hash = 0
  BY EventTypes
<1>3. ASSUME NEW item \in Items(rows) \cup {q[k] : k \in DOMAIN q},
             item \in Items(rows) \/ item.type = "pending"
      PROVE  item.hash # event.hash
  <2>1. item \in Items(rows) \cup Items(q)
    BY DEF Items
  <2>2. item.hash # 0
    BY <1>3, <2>1, HashesTyped DEF Items
  <2> QED
    BY <1>2, <2>1, <2>2 DEF Fresh
<1>4. ASSUME NEW row \in Items(rows), NEW e \in Items(r)
      PROVE  row.hash # e.hash
  BY <1>1, <1>3 DEF Once
<1>5. ASSUME NEW i \in DOMAIN r, NEW j \in DOMAIN r,
             r[i].type = "pending", r[i].hash = r[j].hash
      PROVE  i = j
  <2>1. CASE i \in DOMAIN q /\ j \in DOMAIN q
    BY <1>1, <1>5, <2>1 DEF Once
  <2>2. CASE i \in DOMAIN q /\ j = Len(q) + 1
    <3>1. q[i].type = "pending" /\ q[i].hash = event.hash
      BY <1>1, <1>5, <2>2
    <3> QED
      BY <1>3, <2>2, <3>1
  <2>3. CASE i = Len(q) + 1 /\ j \in DOMAIN q
    <3>1. event.type = "pending" /\ q[j].hash = event.hash
      BY <1>1, <1>5, <2>3
    <3>2. q[j] \in Items(q)
      BY <2>3 DEF Items
    <3> QED
      BY <3>1, <3>2 DEF Fresh
  <2>4. CASE i = Len(q) + 1 /\ j = Len(q) + 1
    BY <2>4
  <2> QED
    BY <1>1, <2>1, <2>2, <2>3, <2>4
<1>6. \A i, j \in DOMAIN rows : rows[i].hash = rows[j].hash => i = j
  BY DEF Once
<1>7. Once(rows, r)
  BY <1>4, <1>5, <1>6 DEF Once
<1> QED
  BY <1>7 DEF r

LEMMA OnceAfterTake ==
  ASSUME NEW rows \in Seq(PendingRows), NEW q \in Seq(Events), q # <<>>,
         Once(rows, q)
  PROVE  Once(rows, Tail(q)) /\ Once(<<>>, Tail(q))
<1> DEFINE r == Tail(q)
<1>1. /\ Items(r) \subseteq Items(q)
      /\ Len(q) \in Nat \ {0} /\ DOMAIN q = 1 .. Len(q)
      /\ DOMAIN r = 1 .. Len(q) - 1
      /\ \A k \in 1 .. Len(q) - 1 : r[k] = q[k + 1]
  BY LaterAfterTake, QueueAfterTake
<1> HIDE DEF r
<1>2. ASSUME NEW i \in DOMAIN r, NEW j \in DOMAIN r,
             r[i].type = "pending", r[i].hash = r[j].hash
      PROVE  i = j
  <2>1. /\ i + 1 \in DOMAIN q /\ j + 1 \in DOMAIN q
        /\ r[i] = q[i + 1] /\ r[j] = q[j + 1]
    BY <1>1
  <2>2. i + 1 = j + 1
    BY <1>2, <2>1 DEF Once
  <2> QED
    BY <1>1, <2>2
<1>3. Once(rows, r)
  BY <1>1, <1>2 DEF Once
<1>4. Once(<<>>, r)
  <2>1. DOMAIN <<>> = {} /\ Items(<<>>) = {}
    BY DEF Items
  <2> QED
    BY <1>2, <2>1 DEF Once
<1> QED
  BY <1>3, <1>4 DEF r

LEMMA OnceAfterMove ==
  ASSUME NEW rows \in Seq(PendingRows), NEW q \in Seq(Events), q # <<>>,
         Once(rows, q), Head(q).type = "pending",
         NEW row \in PendingRows, row.hash = Head(q).hash
  PROVE  Once(Append(rows, row), Tail(q))
<1> DEFINE p == Append(rows, row)
           r == Tail(q)
<1>1. /\ Head(q) = q[1] /\ Len(q) \in Nat \ {0} /\ DOMAIN q = 1 .. Len(q)
      /\ DOMAIN r = 1 .. Len(q) - 1
      /\ \A k \in 1 .. Len(q) - 1 : r[k] = q[k + 1]
      /\ Items(r) \subseteq Items(q)
  BY QueueAfterTake, LaterAfterTake
<1>2. /\ Items(p) = Items(rows) \cup {row}
      /\ DOMAIN p = 1 .. Len(rows) + 1 /\ Len(rows) \in Nat
      /\ DOMAIN rows = 1 .. Len(rows)
      /\ p[Len(rows) + 1] = row
      /\ \A k \in 1 .. Len(rows) : p[k] = rows[k]
  BY RowsAfterAppend
<1>3. Once(rows, r)
  BY OnceAfterTake
<1> HIDE DEF p, r
<1>4. \A other \in Items(rows) : other.hash # row.hash
  <2>1. Head(q) \in Items(q)
    BY <1>1 DEF Items
  <2> QED
    BY <2>1 DEF Once
<1>5. ASSUME NEW i \in DOMAIN p, NEW j \in DOMAIN p, p[i].hash = p[j].hash
      PROVE  i = j
  <2>1. \A k \in DOMAIN rows : p[k] = rows[k] /\ rows[k] \in Items(rows)
    BY <1>2 DEF Items
  <2>2. (i \in DOMAIN rows \/ i = Len(rows) + 1)
        /\ (j \in DOMAIN rows \/ j = Len(rows) + 1)
    BY <1>2
  <2> QED
    BY <1>2, <1>4, <1>5, <2>1, <2>2 DEF Once
<1>6. ASSUME NEW e \in Items(r) PROVE row.hash # e.hash
  <2>1. PICK k \in DOMAIN r : e = r[k]
    BY DEF Items
  <2>2. 1 \in DOMAIN q /\ k + 1 \in DOMAIN q /\ e = q[k + 1] /\ k + 1 # 1
    BY <1>1, <2>1
  <2> QED
    BY <1>1, <2>2 DEF Once
<1>7. Once(p, r)
  BY <1>2, <1>3, <1>5, <1>6 DEF Once
<1> QED
  BY <1>7 DEF p, r

LEMMA OnceWithout ==
  ASSUME NEW rows \in Seq(PendingRows), NEW i \in DOMAIN rows,
         NEW q, Once(rows, q)
  PROVE  Once(WithoutRow(rows, i), q)
<1> DEFINE p == WithoutRow(rows, i)
<1>1. /\ p \in Seq(PendingRows) /\ Len(p) = Len(rows) - 1
      /\ \A k \in 1 .. Len(rows) - 1 :
           p[k] = IF k < i THEN rows[k] ELSE rows[k + 1]
  BY RowsWithout
<1>2. Items(p) \subseteq Items(rows)
  BY RowsWithoutOne DEF Items
<1>3. Len(rows) \in Nat /\ i \in 1 .. Len(rows) /\ DOMAIN rows = 1 .. Len(rows)
  OBVIOUS
<1>4. DOMAIN p = 1 .. Len(rows) - 1
  BY <1>1, <1>3
<1> HIDE DEF p
<1>5. ASSUME NEW k \in DOMAIN p, NEW m \in DOMAIN p, p[k].hash = p[m].hash
      PROVE  k = m
  <2> DEFINE at(n) == IF n < i THEN n ELSE n + 1
  <2>1. \A n \in DOMAIN p : at(n) \in DOMAIN rows /\ p[n] = rows[at(n)]
    BY <1>1, <1>3, <1>4
  <2>2. at(k) = at(m) => k = m
    BY <1>3, <1>4
  <2> HIDE DEF at
  <2>3. at(k) = at(m)
    BY <1>5, <2>1 DEF Once
  <2> QED
    BY <2>2, <2>3
<1>6. Once(p, q)
  BY <1>2, <1>5 DEF Once
<1> QED
  BY <1>6 DEF p


HashInv ==
  /\ Once(pending, queue)
  /\ \A item \in Items(pending) \cup Items(queue) : item.hash <= made
  /\ \A id \in DOMAIN txs : txs[id].hash <= made
  /\ gui.pc = "deposit" => Fresh(txs[Len(txs)].hash, pending, queue)

LEMMA HashesPosted ==
  ASSUME TypeInv, HashInv, NEW event \in Events, event.type # "pending",
         queue' = Append(queue, event), pending' = pending, made' = made,
         \A id \in DOMAIN txs' : txs'[id].hash <= made,
         gui'.pc = "deposit" => gui.pc = "deposit" /\ txs' = txs
  PROVE  HashInv'
<1>1. queue \in Seq(Events) /\ pending \in Seq(PendingRows) /\ made \in Nat
  BY BoundsAssumption DEF TypeInv, TypeOK
<1>2. Items(queue') = Items(queue) \cup {event} /\ event.hash = 0
  BY <1>1, LaterAfterPost, EventTypes
<1>3. Once(pending', queue')
  BY <1>1, OnceAfterPost DEF HashInv
<1>4. \A item \in Items(pending') \cup Items(queue') : item.hash <= made
  BY <1>1, <1>2 DEF HashInv
<1>5. ASSUME gui'.pc = "deposit"
      PROVE  Fresh(txs'[Len(txs')].hash, pending', queue')
  <2>1. txs[Len(txs)].hash # 0
    BY <1>5, LastTxTyped, BoundsAssumption DEF Hashes
  <2> QED
    BY <1>2, <1>5, <2>1 DEF HashInv, Fresh
<1> QED
  BY <1>3, <1>4, <1>5 DEF HashInv

LEMMA HashesTaken ==
  ASSUME TypeInv, HashInv, queue # <<>>, queue' = Tail(queue),
         txs' = txs, made' = made, gui'.pc # "deposit",
         Once(pending', Tail(queue)),
         \A row \in Items(pending') : row.hash <= made
  PROVE  HashInv'
<1>1. Items(queue') \subseteq Items(queue)
  BY LaterAfterTake DEF TypeInv, TypeOK
<1> QED
  BY <1>1 DEF HashInv

LEMMA HashesWalletThread == TypeInv /\ HashInv /\ ClosedInv /\ WalletThread
                              => HashInv'
<1> SUFFICES ASSUME TypeInv, HashInv, ClosedInv, WalletThread PROVE HashInv'
  OBVIOUS
<1>1. CASE \E id \in TxIds : Confirm(id)
  <2>1. PICK id \in TxIds : Confirm(id)
    BY <1>1
  <2>2. /\ id \in DOMAIN txs /\ txs' = [txs EXCEPT ![id].confirmed = TRUE]
        /\ txs \in Seq(Transactions)
        /\ UNCHANGED <<pending, queue, made, gui>>
    BY <2>1 DEF Confirm, Notify, list, TypeInv, TypeOK
  <2>3. /\ Len(txs') = Len(txs) /\ DOMAIN txs' = DOMAIN txs
        /\ \A i \in DOMAIN txs : txs'[i].hash = txs[i].hash
    BY <2>2, TxConfirmed
  <2>4. gui.pc = "deposit" => txs'[Len(txs')].hash = txs[Len(txs)].hash
    BY <2>3, LastTxTyped
  <2> QED
    BY <2>2, <2>3, <2>4 DEF HashInv
<1>2. CASE \/ FindDeposit
           \/ \E deposit \in 1 .. MaxDeposits :
                Unlock(deposit) \/ FindSpending(deposit)
  <2>1. UNCHANGED <<txs, made, pending, queue, gui>>
    BY <1>2 DEF FindDeposit, Unlock, FindSpending, Notify, list
  <2> QED
    BY <2>1 DEF HashInv
<1>3. CASE CallBack
  <2>1. PICK event \in due : queue' = Append(queue, event)
    BY <1>3 DEF CallBack
  <2>2. event \in Events /\ event.type # "pending"
    BY DEF TypeInv, TypeOK, ClosedInv
  <2>3. UNCHANGED <<txs, made, pending, gui>>
    BY <1>3 DEF CallBack, wallet, list
  <2>4. \A id \in DOMAIN txs' : txs'[id].hash <= made
    BY <2>3 DEF HashInv
  <2> QED
    BY <2>1, <2>2, <2>3, <2>4, HashesPosted
<1> QED
  BY <1>1, <1>2, <1>3 DEF WalletThread

LEMMA HashesGuiStep == TypeInv /\ HashInv /\ GuiStep => HashInv'
<1> SUFFICES ASSUME TypeInv, HashInv, GuiStep PROVE HashInv'
  OBVIOUS
<1>1. /\ queue \in Seq(Events) /\ pending \in Seq(PendingRows)
      /\ EventLoop.pc = "eventLoop"
  BY GuiTyped DEF TypeInv, TypeOK
<1>2. /\ \A row \in Items(pending) : row.hash <= made
      /\ \A event \in Items(queue) : event.hash <= made
      /\ Once(pending, queue)
  BY DEF HashInv
<1>3. CASE OnDeposits
  <2>1. /\ queue # <<>> /\ queue' = Tail(queue) /\ gui'.pc = "eventLoop"
        /\ UNCHANGED <<txs, made, pending>>
    BY <1>1, <1>3 DEF OnDeposits, Take, Idle, wallet
  <2>2. Once(pending', Tail(queue))
    BY <1>1, <1>2, <2>1, OnceAfterTake
  <2> QED
    BY <1>2, <2>1, <2>2, HashesTaken
<1>4. CASE OnUpdated
  <2> DEFINE m == LastMatch(Head(queue).id)
  <2>1. /\ queue # <<>> /\ queue' = Tail(queue) /\ gui'.pc = "eventLoop"
        /\ UNCHANGED <<txs, made>>
        /\ pending' = pending \/ (m # 0 /\ pending' = WithoutRow(pending, m))
    BY <1>1, <1>4 DEF OnUpdated, Take, Idle, wallet
  <2>2. m # 0 => m \in DOMAIN pending
    BY <1>1, LastMatchTyped
  <2> HIDE DEF m
  <2>3. Once(pending', queue)
    BY <1>1, <1>2, <2>1, <2>2, OnceWithout
  <2>4. pending' \in Seq(PendingRows)
    BY <1>1, <2>1, <2>2, RowsWithout
  <2>5. Once(pending', Tail(queue))
    BY <1>1, <2>1, <2>3, <2>4, OnceAfterTake
  <2>6. Items(pending') \subseteq Items(pending)
    <3>1. ASSUME m # 0
          PROVE  Items(WithoutRow(pending, m)) \subseteq Items(pending)
      <4>1. ASSUME NEW row \in Items(WithoutRow(pending, m))
            PROVE  row \in Items(pending)
        <5>1. m \in DOMAIN pending
          BY <2>2, <3>1
        <5>2. \E k \in DOMAIN pending : k # m /\ row = pending[k]
          BY <1>1, <5>1, RowsWithoutOne
        <5> QED
          BY <5>2 DEF Items
      <4> QED
        BY <4>1
    <3> QED
      BY <2>1, <3>1
  <2> QED
    BY <1>2, <2>1, <2>5, <2>6, HashesTaken
<1>5. CASE OnPending
  <2> DEFINE row == [id |-> Head(queue).id, hash |-> Head(queue).hash]
  <2>1. /\ queue # <<>> /\ queue' = Tail(queue) /\ gui'.pc = "eventLoop"
        /\ UNCHANGED <<txs, made>> /\ pending' = Append(pending, row)
        /\ Head(queue).type = "pending"
    BY <1>1, <1>5 DEF OnPending, Take, Idle, wallet
  <2>2. Head(queue) \in Events /\ Head(queue) \in Items(queue)
    <3>1. /\ Head(queue) \in Events /\ Head(queue) = queue[1]
          /\ 1 \in DOMAIN queue
      BY <1>1, <2>1, QueueAfterTake
    <3> QED
      BY <3>1 DEF Items
  <2>3. row \in PendingRows /\ row.hash = Head(queue).hash
    BY <2>1, <2>2, EventTypes DEF PendingRows
  <2> HIDE DEF row
  <2>4. Once(pending', Tail(queue))
    BY <1>1, <1>2, <2>1, <2>3, OnceAfterMove
  <2>5. \A other \in Items(pending') : other.hash <= made
    BY <1>1, <1>2, <2>1, <2>2, <2>3, RowsAfterAppend
  <2> QED
    BY <2>1, <2>4, <2>5, HashesTaken
<1>6. CASE OnReload \/ OnClosed
  <2>1. /\ queue # <<>> /\ queue' = Tail(queue) /\ pending' = <<>>
        /\ UNCHANGED <<txs, made>>
    BY <1>6 DEF OnReload, OnClosed, Take, Reset, wallet
  <2>2. gui'.pc # "deposit"
    <3>1. Len(deposits) \in 0 .. MaxDeposits
      BY BoundsAssumption DEF TypeInv, TypeOK
    <3> QED
      BY <1>6, <3>1, GuiTyped DEF OnReload, OnClosed, Take, Idle
  <2>3. Once(pending', Tail(queue))
    BY <1>1, <1>2, <2>1, OnceAfterTake
  <2>4. Items(pending') = {}
    BY <2>1 DEF Items
  <2> QED
    BY <2>1, <2>2, <2>3, <2>4, HashesTaken
<1>7. CASE CountReloaded
  <2>1. UNCHANGED <<txs, made, pending, queue>> /\ gui' = EventLoop
    BY <1>7 DEF CountReloaded, wallet
  <2> QED
    BY <1>1, <2>1 DEF HashInv
<1>8. CASE OnInitCompleted
  <2>1. /\ queue # <<>> /\ gui'.pc = "eventLoop"
        /\ UNCHANGED <<txs, made, pending>>
        /\ \/ queue' = Tail(queue)
           \/ queue' = Append(Tail(queue), Signal("reload"))
    BY <1>1, <1>8 DEF OnInitCompleted, Take, Idle, wallet, list
  <2>2. /\ Tail(queue) \in Seq(Events) /\ Once(pending, Tail(queue))
        /\ Items(Tail(queue)) \subseteq Items(queue)
    BY <1>1, <1>2, <2>1, QueueAfterTake, LaterAfterTake, OnceAfterTake
  <2>3. CASE queue' = Tail(queue)
    BY <1>2, <2>1, <2>2, <2>3, HashesTaken
  <2>4. CASE queue' = Append(Tail(queue), Signal("reload"))
    <3>1. /\ Signal("reload") \in Events /\ Signal("reload").type = "reload"
          /\ Signal("reload").hash = 0
      BY EventsTyped DEF Signal
    <3>2. Once(pending, queue')
      BY <1>1, <2>2, <2>4, <3>1, OnceAfterPost
    <3>3. Items(queue') = Items(Tail(queue)) \cup {Signal("reload")}
      BY <2>2, <2>4, <3>1, LaterAfterPost
    <3>4. made \in Nat
      BY BoundsAssumption DEF TypeInv, TypeOK
    <3> QED
      BY <2>1, <2>2, <3>1, <3>2, <3>3, <3>4 DEF HashInv
  <2> QED
    BY <2>1, <2>3, <2>4
<1>9. CASE SubmitPending
  <2> DEFINE hash == txs[Len(txs)].hash
  <2>1. PICK id \in {Len(txs), NoTx} :
          queue' = Append(queue, Pending(id, hash))
    BY <1>9 DEF SubmitPending
  <2>2. /\ gui.pc = "deposit" /\ gui' = EventLoop
        /\ UNCHANGED <<txs, made, pending>>
    BY <1>9 DEF SubmitPending, wallet, list
  <2>3. id \in TxIds \cup {NoTx} /\ hash \in Hashes /\ hash <= made
    BY <2>1, <2>2, LastTxTyped DEF HashInv
  <2>4. Fresh(hash, pending, queue)
    BY <2>2 DEF HashInv
  <2> HIDE DEF hash
  <2>5. Pending(id, hash) \in Events /\ Pending(id, hash).hash = hash
    BY <2>3, EventsTyped
  <2>6. Once(pending, queue')
    BY <1>1, <1>2, <2>1, <2>4, <2>5, OnceAfterPost
  <2>7. Items(queue') = Items(queue) \cup {Pending(id, hash)}
    BY <1>1, <2>1, <2>5, LaterAfterPost
  <2> QED
    BY <1>1, <2>2, <2>3, <2>5, <2>6, <2>7 DEF HashInv
<1> QED
  BY <1>3, <1>4, <1>5, <1>6, <1>7, <1>8, <1>9 DEF GuiStep

LEMMA HashesUser == TypeInv /\ HashInv /\ User => HashInv'
<1> SUFFICES ASSUME TypeInv, HashInv, User PROVE HashInv'
  OBVIOUS
<1>1. gui.pc = "eventLoop" /\ made \in Nat
  BY GuiTyped, BoundsAssumption
     DEF User, Deposit, Withdraw, Open, Close, Rescan, UserAction, Idle,
         TypeInv, TypeOK
<1>2. CASE Deposit
  <2> DEFINE tx == [hash |-> made', confirmed |-> FALSE]
  <2>1. /\ made' = made + 1 /\ txs' = Append(txs, tx)
        /\ UNCHANGED <<pending, queue>>
    BY <1>2 DEF Deposit, list
  <2>2. txs \in Seq(Transactions) /\ tx \in Transactions /\ tx.hash = made'
    BY <1>2, <2>1, BoundsAssumption
       DEF Deposit, TypeInv, TypeOK, Transactions, Hashes
  <2> HIDE DEF tx
  <2>3. /\ Len(txs') = Len(txs) + 1 /\ Len(txs) \in Nat
        /\ DOMAIN txs' = 1 .. Len(txs) + 1 /\ DOMAIN txs = 1 .. Len(txs)
        /\ txs'[Len(txs) + 1] = tx
        /\ \A i \in 1 .. Len(txs) : txs'[i] = txs[i]
    BY <2>1, <2>2
  <2>4. \A item \in Items(pending) \cup Items(queue) :
          item.hash \in Nat /\ item.hash <= made
    BY HashesTyped DEF HashInv, TypeInv, TypeOK
  <2>5. Fresh(made', pending', queue')
    BY <1>1, <2>1, <2>4 DEF Fresh
  <2>6. \A item \in Items(pending') \cup Items(queue') : item.hash <= made'
    BY <1>1, <2>1, <2>4
  <2>7. ASSUME NEW i \in DOMAIN txs' PROVE txs'[i].hash <= made'
    <3>1. CASE i \in DOMAIN txs
      <4>1. txs[i] \in Transactions
        BY <2>2, <3>1
      <4>2. txs[i].hash <= made /\ txs[i].hash \in Nat
        BY <3>1, <4>1, BoundsAssumption DEF HashInv, Transactions, Hashes
      <4> QED
        BY <1>1, <2>1, <2>3, <3>1, <4>2
    <3>2. CASE i = Len(txs) + 1
      BY <1>1, <2>1, <2>2, <2>3, <3>2
    <3> QED
      BY <2>3, <3>1, <3>2
  <2> QED
    BY <2>1, <2>2, <2>3, <2>5, <2>6, <2>7 DEF HashInv
<1>3. CASE Withdraw
  <2>1. UNCHANGED <<txs, made, pending, queue, gui>>
    BY <1>3 DEF Withdraw, list
  <2> QED
    BY <2>1 DEF HashInv
<1>4. CASE \/ \E contents \in WalletContents : Open(contents)
           \/ Close \/ Rescan
  <2>1. PICK type \in {"initCompleted", "closed"} :
          queue' = Append(queue, Signal(type))
    BY <1>4 DEF Open, Close, Rescan
  <2>2. UNCHANGED <<made, pending, gui>> /\ (txs' = txs \/ txs' = <<>>)
    BY <1>4 DEF Open, Close, Rescan, list
  <2>3. \A id \in DOMAIN txs' : txs'[id].hash <= made
    <3>1. DOMAIN <<>> = {}
      OBVIOUS
    <3> QED
      BY <2>2, <3>1 DEF HashInv
  <2>4. Signal(type) \in Events /\ Signal(type).type # "pending"
    BY EventsTyped
  <2> QED
    BY <1>1, <2>1, <2>2, <2>3, <2>4, HashesPosted
<1> QED
  BY <1>2, <1>3, <1>4 DEF User


(***************************************************************************)
(* A row, or the event that will add it, is of a transaction of the open   *)
(* wallet that is unconfirmed, or whose confirmation is on its way or was  *)
(* delivered too early; or it belongs to what is going to be cleared.  t   *)
(* stands for the transactions, news for what is called back or posted,    *)
(* late for the confirmations that came before their row, and types for    *)
(* the events that clear the list.                                         *)
(***************************************************************************)
Unanswered(t, news, late, id) ==
  ~t[id].confirmed \/ Updated(id) \in news \/ t[id].hash \in late

Accounted(row, t, news, late) ==
  \E id \in DOMAIN t : /\ t[id].hash = row.hash
                       /\ row.id \in {NoTx, id}
                       /\ Unanswered(t, news, late, id)

Covered(rows, q, t, news, late, types) ==
  /\ \A row \in Items(rows) :
       Accounted(row, t, news, late) \/ Later(q, 0, types)
  /\ \A k \in DOMAIN q :
       q[k].type = "pending" =>
         Accounted(q[k], t, news, late) \/ Later(q, k, types)

LEMMA CoveredAfterPost ==
  ASSUME NEW rows, NEW q \in Seq(Events), NEW event \in Events,
         NEW t, NEW news, NEW late, NEW t2, NEW news2, NEW late2, NEW types,
         Covered(rows, q, t, news, late, types),
         \A row : Accounted(row, t, news, late) =>
                    Accounted(row, t2, news2, late2),
         event.type = "pending" => Accounted(event, t2, news2, late2)
  PROVE  Covered(rows, Append(q, event), t2, news2, late2, types)
<1> DEFINE r == Append(q, event)
<1>1. /\ DOMAIN r = 1 .. Len(q) + 1 /\ r[Len(q) + 1] = event
      /\ Len(q) \in Nat /\ DOMAIN q = 1 .. Len(q)
      /\ \A k \in 1 .. Len(q) : r[k] = q[k]
      /\ \A k : Later(q, k, types) => Later(r, k, types)
  BY QueueAfterPost, LaterAfterPost
<1> HIDE DEF r
<1>2. \A row \in Items(rows) :
        Accounted(row, t2, news2, late2) \/ Later(r, 0, types)
  BY <1>1 DEF Covered
<1>3. ASSUME NEW k \in DOMAIN r, r[k].type = "pending"
      PROVE  Accounted(r[k], t2, news2, late2) \/ Later(r, k, types)
  <2>1. CASE k \in DOMAIN q
    <3>1. r[k] = q[k]
      BY <1>1, <2>1
    <3>2. Accounted(q[k], t, news, late) \/ Later(q, k, types)
      BY <1>3, <2>1, <3>1 DEF Covered
    <3> QED
      BY <1>1, <3>1, <3>2
  <2>2. CASE k = Len(q) + 1
    BY <1>1, <1>3, <2>2
  <2> QED
    BY <1>1, <2>1, <2>2
<1>4. Covered(rows, r, t2, news2, late2, types)
  BY <1>2, <1>3 DEF Covered
<1> QED
  BY <1>4 DEF r

LEMMA CoveredByClearing ==
  ASSUME NEW rows, NEW q \in Seq(Events), NEW event \in Events,
         NEW t, NEW news, NEW late, NEW types,
         event.type \in types, event.type # "pending"
  PROVE  Covered(rows, Append(q, event), t, news, late, types)
<1> DEFINE r == Append(q, event)
<1>1. /\ DOMAIN r = 1 .. Len(q) + 1 /\ r[Len(q) + 1] = event
      /\ \A k \in 0 .. Len(q) : Later(r, k, types)
      /\ Len(q) \in Nat
  BY QueueAfterPost, LaterAfterPost
<1> HIDE DEF r
<1>2. ASSUME NEW k \in DOMAIN r, r[k].type = "pending"
      PROVE  Later(r, k, types)
  <2>1. k # Len(q) + 1
    BY <1>1, <1>2
  <2>2. k \in 0 .. Len(q)
    BY <1>1, <2>1
  <2> QED
    BY <1>1, <2>2
<1>3. Later(r, 0, types)
  BY <1>1
<1>4. Covered(rows, r, t, news, late, types)
  BY <1>2, <1>3 DEF Covered
<1> QED
  BY <1>4 DEF r

LEMMA CoveredAfterTake ==
  ASSUME NEW rows, NEW rows2, NEW q \in Seq(Events), q # <<>>,
         NEW t, NEW news, NEW late, NEW t2, NEW news2, NEW late2, NEW types,
         Covered(rows, q, t, news, late, types),
         \A row \in Items(rows2) : Accounted(row, t2, news2, late2)
                                     \/ Later(Tail(q), 0, types),
         \A event \in Items(q) : /\ event.type = "pending"
                                 /\ Accounted(event, t, news, late)
                                 => Accounted(event, t2, news2, late2)
  PROVE  Covered(rows2, Tail(q), t2, news2, late2, types)
<1> DEFINE r == Tail(q)
<1>1. /\ DOMAIN r = 1 .. Len(q) - 1 /\ Len(q) \in Nat \ {0}
      /\ DOMAIN q = 1 .. Len(q)
      /\ \A k \in 1 .. Len(q) - 1 : r[k] = q[k + 1]
      /\ \A k \in Nat : Later(q, k + 1, types) => Later(r, k, types)
  BY QueueAfterTake, LaterAfterTake
<1> HIDE DEF r
<1>2. ASSUME NEW k \in DOMAIN r, r[k].type = "pending"
      PROVE  Accounted(r[k], t2, news2, late2) \/ Later(r, k, types)
  <2>1. k + 1 \in DOMAIN q /\ r[k] = q[k + 1] /\ k \in Nat
    BY <1>1
  <2>2. Accounted(q[k + 1], t, news, late) \/ Later(q, k + 1, types)
    BY <1>2, <2>1 DEF Covered
  <2>3. q[k + 1] \in Items(q)
    BY <2>1 DEF Items
  <2> QED
    BY <1>1, <1>2, <2>1, <2>2, <2>3
<1>3. Covered(rows2, r, t2, news2, late2, types)
  BY <1>2 DEF Covered, r
<1> QED
  BY <1>3 DEF r

(***************************************************************************)
(* Nothing is lost of what rows are accounted for with, as long as the     *)
(* transactions keep their hashes and no news of one is taken.             *)
(***************************************************************************)
LEMMA AccountedKept ==
  ASSUME NEW t, NEW news, NEW late, NEW t2, NEW news2, NEW late2,
         \A id \in DOMAIN t :
           /\ id \in DOMAIN t2 /\ t2[id].hash = t[id].hash
           /\ Unanswered(t, news, late, id) =>
                Unanswered(t2, news2, late2, id)
  PROVE  \A row : Accounted(row, t, news, late) =>
                    Accounted(row, t2, news2, late2)
<1>1. SUFFICES ASSUME NEW row, Accounted(row, t, news, late)
               PROVE  Accounted(row, t2, news2, late2)
  OBVIOUS
<1>2. PICK id \in DOMAIN t : /\ t[id].hash = row.hash
                             /\ row.id \in {NoTx, id}
                             /\ Unanswered(t, news, late, id)
  BY <1>1 DEF Accounted
<1>3. /\ id \in DOMAIN t2 /\ t2[id].hash = row.hash
      /\ Unanswered(t2, news2, late2, id)
  BY <1>2
<1> QED
  BY <1>2, <1>3 DEF Accounted

News == due \cup Items(queue)

PendingInv ==
  /\ Covered(pending, queue, txs, News, missed, Clearing(open))
  /\ gui.pc = "deposit" =>
       Accounted(Pending(Len(txs), txs[Len(txs)].hash), txs, News, missed)

OwedInv == ShownInv /\ HashInv /\ PendingInv

LEMMA OwedIsUnconfirmed == OwedInv => PendingIsUnconfirmed
<1> SUFFICES ASSUME OwedInv, NEW i \in DOMAIN pending
             PROVE  \/ ClearPosted
                    \/ pending[i].hash \in missed
                    \/ \E id \in DOMAIN txs :
                         /\ txs[id].hash = pending[i].hash
                         /\ \/ ~txs[id].confirmed
                            \/ Updated(id) \in due \cup Posted
  BY DEF PendingIsUnconfirmed
<1>1. \/ Accounted(pending[i], txs, News, missed)
      \/ Later(queue, 0, Clearing(open))
  <2>1. pending[i] \in Items(pending)
    BY DEF Items
  <2> QED
    BY <2>1 DEF OwedInv, PendingInv, Covered
<1>2. CASE Accounted(pending[i], txs, News, missed)
  BY <1>2 DEF Accounted, Unanswered, News, Posted, Items
<1>3. CASE Later(queue, 0, Clearing(open))
  <2>1. PICK j \in DOMAIN queue : queue[j].type \in ClearTypes
    BY <1>3 DEF Later, Clearing, ClearTypes
  <2>2. queue[j].type \in PostedTypes
    BY DEF PostedTypes, Posted
  <2> QED
    BY <2>1, <2>2 DEF ClearPosted, ClearTypes
<1> QED
  BY <1>1, <1>2, <1>3


(***************************************************************************)
(* Steps that keep what every row is accounted for with.                   *)
(***************************************************************************)
Keeps == \A row : Accounted(row, txs, News, missed) =>
                    Accounted(row, txs', News', missed')

LEMMA KeptWithNews ==
  ASSUME txs' = txs, missed' = missed,
         \A id : Updated(id) \in News => Updated(id) \in News'
  PROVE  Keeps
<1>1. \A id \in DOMAIN txs : Unanswered(txs, News, missed, id) =>
                               Unanswered(txs', News', missed', id)
  BY DEF Unanswered
<1>2. \A id \in DOMAIN txs : id \in DOMAIN txs' /\ txs'[id].hash = txs[id].hash
  OBVIOUS
<1> QED
  BY <1>1, <1>2, AccountedKept DEF Keeps

LEMMA OwedUnchanged ==
  ASSUME PendingInv, Keeps, UNCHANGED <<pending, queue, open>>,
         gui'.pc = "deposit" =>
           /\ gui.pc = "deposit" /\ Len(txs') = Len(txs)
           /\ txs'[Len(txs)].hash = txs[Len(txs)].hash
  PROVE  PendingInv'
<1>1. Covered(pending, queue, txs', News', missed', Clearing(open))
  BY DEF PendingInv, Covered, Keeps
<1>2. gui'.pc = "deposit" =>
        Accounted(Pending(Len(txs'), txs'[Len(txs')].hash),
                  txs', News', missed')
  BY DEF PendingInv, Keeps
<1> QED
  BY <1>1, <1>2 DEF PendingInv

LEMMA OwedTaken ==
  ASSUME TypeInv, PendingInv, queue # <<>>, queue' = Tail(queue),
         Head(queue).type # "updated",
         UNCHANGED <<txs, due, missed, open>>, gui'.pc # "deposit",
         \A row \in Items(pending') :
           \/ Accounted(row, txs, News, missed)
           \/ Later(Tail(queue), 0, Clearing(open))
  PROVE  PendingInv'
<1>1. queue \in Seq(Events)
  BY DEF TypeInv, TypeOK
<1>2. Items(queue) \subseteq Items(queue') \cup {Head(queue)}
  BY <1>1, LaterAfterTake
<1>3. \A id : Updated(id) # Head(queue)
  BY DEF Updated
<1>4. Keeps
  BY <1>2, <1>3, KeptWithNews DEF News
<1>5. \A row \in Items(pending') : \/ Accounted(row, txs', News', missed')
                                   \/ Later(Tail(queue), 0, Clearing(open))
  BY <1>4 DEF Keeps
<1>6. Covered(pending', Tail(queue), txs', News', missed', Clearing(open))
  <2>1. \A event \in Items(queue) :
          event.type = "pending" /\ Accounted(event, txs, News, missed) =>
            Accounted(event, txs', News', missed')
    BY <1>4 DEF Keeps
  <2>2. Covered(pending, queue, txs, News, missed, Clearing(open))
    BY DEF PendingInv
  <2> QED
    BY <1>1, <1>5, <2>1, <2>2, CoveredAfterTake
<1> QED
  BY <1>6 DEF PendingInv

LEMMA RowsKeptByTake ==
  ASSUME TypeInv, PendingInv, queue # <<>>,
         Head(queue).type \notin Clearing(open)
  PROVE  \A row \in Items(pending) : \/ Accounted(row, txs, News, missed)
                                     \/ Later(Tail(queue), 0, Clearing(open))
BY LaterAfterTake DEF TypeInv, TypeOK, PendingInv, Covered

LEMMA OwedWalletThread == OwedInv /\ WalletThread => PendingInv'
<1> SUFFICES ASSUME OwedInv, WalletThread PROVE PendingInv'
  OBVIOUS
<1>1. TypeInv /\ ClosedInv /\ PendingInv
  BY DEF OwedInv, ShownInv
<1>2. CASE \E id \in TxIds : Confirm(id)
  <2>1. PICK id \in TxIds : Confirm(id)
    BY <1>2
  <2>2. /\ id \in DOMAIN txs /\ txs' = [txs EXCEPT ![id].confirmed = TRUE]
        /\ txs \in Seq(Transactions) /\ due = {} /\ due' = {Updated(id)}
        /\ UNCHANGED <<pending, queue, open, gui, missed>>
    BY <1>1, <2>1 DEF Confirm, MayBegin, Notify, list, TypeInv, TypeOK
  <2>3. /\ Len(txs') = Len(txs) /\ DOMAIN txs' = DOMAIN txs
        /\ \A i \in DOMAIN txs : txs'[i].hash = txs[i].hash
        /\ \A i \in DOMAIN txs : i # id => txs'[i] = txs[i]
    BY <2>2, TxConfirmed
  <2>4. News \subseteq News' /\ Updated(id) \in News'
    BY <2>2 DEF News
  <2>5. ASSUME NEW i \in DOMAIN txs, Unanswered(txs, News, missed, i)
        PROVE  Unanswered(txs', News', missed', i)
    <3>1. CASE i = id
      BY <2>4, <3>1 DEF Unanswered
    <3>2. CASE i # id
      BY <2>2, <2>3, <2>4, <2>5, <3>2 DEF Unanswered
    <3> QED
      BY <3>1, <3>2
  <2>6. Keeps
    BY <2>3, <2>5, AccountedKept DEF Keeps
  <2>7. gui.pc = "deposit" => txs'[Len(txs)].hash = txs[Len(txs)].hash
    BY <1>1, <2>3, LastTxTyped
  <2> QED
    BY <1>1, <2>2, <2>3, <2>6, <2>7, OwedUnchanged
<1>3. CASE \/ FindDeposit
           \/ \E deposit \in 1 .. MaxDeposits :
                Unlock(deposit) \/ FindSpending(deposit)
  <2>1. due = {} /\ UNCHANGED <<txs, pending, queue, open, gui, missed>>
    BY <1>3 DEF FindDeposit, Unlock, FindSpending, MayBegin, Notify, list
  <2>2. Keeps
    BY <2>1, KeptWithNews DEF News
  <2> QED
    BY <1>1, <2>1, <2>2, OwedUnchanged
<1>4. CASE CallBack
  <2>1. PICK event \in due :
          queue' = Append(queue, event) /\ due' = due \ {event}
    BY <1>4 DEF CallBack
  <2>2. UNCHANGED <<txs, pending, open, gui, missed>>
    BY <1>4 DEF CallBack, wallet, list
  <2>3. event \in Events /\ event.type # "pending" /\ queue \in Seq(Events)
    BY <1>1 DEF TypeInv, TypeOK, ClosedInv
  <2>4. Items(queue') = Items(queue) \cup {event}
    BY <2>1, <2>3, LaterAfterPost
  <2>5. Keeps
    BY <2>1, <2>2, <2>4, KeptWithNews DEF News
  <2>6. Covered(pending, queue', txs', News', missed', Clearing(open))
    <3>1. Covered(pending, queue, txs, News, missed, Clearing(open))
      BY <1>1 DEF PendingInv
    <3>2. \A row : Accounted(row, txs, News, missed) =>
                     Accounted(row, txs', News', missed')
      BY <2>5 DEF Keeps
    <3> QED
      BY <2>1, <2>3, <3>1, <3>2, CoveredAfterPost
  <2>7. gui.pc = "deposit" =>
          Accounted(Pending(Len(txs), txs[Len(txs)].hash),
                    txs', News', missed')
    BY <1>1, <2>5 DEF PendingInv, Keeps
  <2> QED
    BY <2>2, <2>6, <2>7 DEF PendingInv
<1> QED
  BY <1>2, <1>3, <1>4 DEF WalletThread

(***************************************************************************)
(* A confirmation that is delivered takes its row away, wherever it is:    *)
(* any other pending row is of another transaction, and a row that is yet  *)
(* to come is recorded as missed.                                          *)
(***************************************************************************)
LEMMA OwedUpdated == OwedInv /\ OnUpdated => PendingInv'
<1> SUFFICES ASSUME OwedInv, OnUpdated PROVE PendingInv'
  OBVIOUS
<1> DEFINE id == Head(queue).id
           m  == LastMatch(id)
<1>1. /\ TypeInv /\ PendingInv /\ Once(pending, queue)
      /\ queue \in Seq(Events) /\ pending \in Seq(PendingRows)
  BY DEF OwedInv, ShownInv, HashInv, TypeInv, TypeOK
<1>2. /\ queue # <<>> /\ Head(queue).type = "updated" /\ queue' = Tail(queue)
      /\ gui'.pc = "eventLoop"
      /\ UNCHANGED <<txs, due, open>>
  BY GuiTyped DEF OnUpdated, Take, Idle, wallet
<1>3. id \in TxIds /\ Head(queue) = Updated(id)
  BY <1>1, <1>2, QueueAfterTake, EventTypes
<1>4. Items(queue) \subseteq Items(queue') \cup {Updated(id)}
  BY <1>1, <1>2, <1>3, LaterAfterTake
<1>5. \A other : other # id => Updated(other) # Updated(id)
  BY DEF Updated
<1>6. "updated" \notin Clearing(open)
  BY DEF Clearing, ClearTypes
<1>7. \A row \in Items(pending) : \/ Accounted(row, txs, News, missed)
                                  \/ Later(Tail(queue), 0, Clearing(open))
  BY <1>1, <1>2, <1>6, RowsKeptByTake
<1>8. CASE ~(id \in DOMAIN txs /\ txs[id].confirmed)
  <2>1. UNCHANGED <<pending, missed>>
    BY <1>8 DEF OnUpdated
  <2>2. ASSUME NEW other \in DOMAIN txs, Unanswered(txs, News, missed, other)
        PROVE  Unanswered(txs', News', missed', other)
    BY <1>2, <1>4, <1>5, <1>8, <2>1, <2>2 DEF Unanswered, News
  <2>3. Keeps
    BY <1>2, <2>2, AccountedKept DEF Keeps
  <2>4. Covered(pending, queue, txs, News, missed, Clearing(open))
    BY <1>1 DEF PendingInv
  <2>5. \A row \in Items(pending) :
          \/ Accounted(row, txs', News', missed')
          \/ Later(Tail(queue), 0, Clearing(open))
    BY <1>7, <2>3 DEF Keeps
  <2>6. Covered(pending, Tail(queue), txs', News', missed', Clearing(open))
    BY <1>1, <1>2, <2>3, <2>4, <2>5, CoveredAfterTake DEF Keeps
  <2> QED
    BY <1>2, <2>1, <2>6 DEF PendingInv
<1>9. CASE id \in DOMAIN txs /\ txs[id].confirmed
  <2>1. /\ pending' = IF m = 0 THEN pending ELSE WithoutRow(pending, m)
        /\ missed' = IF PendingToCome(txs[id].hash)
                     THEN missed \cup {txs[id].hash} ELSE missed
    BY <1>9 DEF OnUpdated
  <2>2. missed \subseteq missed'
    BY <2>1
  <2>3. ASSUME NEW item, Accounted(item, txs, News, missed),
               \/ item.hash # txs[id].hash
               \/ item.hash \in missed'
        PROVE  Accounted(item, txs', News', missed')
    <3>1. PICK other \in DOMAIN txs :
            /\ txs[other].hash = item.hash /\ item.id \in {NoTx, other}
            /\ Unanswered(txs, News, missed, other)
      BY <2>3 DEF Accounted
    <3>2. Unanswered(txs', News', missed', other)
      <4>1. CASE item.hash \in missed'
        BY <1>2, <3>1, <4>1 DEF Unanswered
      <4>2. CASE other # id
        BY <1>2, <1>4, <1>5, <2>2, <3>1, <4>2 DEF Unanswered, News
      <4> QED
        BY <2>3, <3>1, <4>1, <4>2
    <3> QED
      BY <1>2, <3>1, <3>2 DEF Accounted
  <2>4. ASSUME NEW event \in Items(queue), event.type = "pending",
               Accounted(event, txs, News, missed)
        PROVE  Accounted(event, txs', News', missed')
    <3>1. event.hash = txs[id].hash => PendingToCome(txs[id].hash)
      BY DEF Items, HashesIn, PendingToCome
    <3> QED
      BY <2>1, <2>3, <2>4, <3>1
  <2>5. ASSUME NEW row \in Items(pending'),
               ~Later(Tail(queue), 0, Clearing(open))
        PROVE  Accounted(row, txs', News', missed')
    <3>1. \A other \in Items(pending) : Accounted(other, txs, News, missed)
      BY <1>7, <2>5
    <3>2. row \in Items(pending) /\ row.hash # txs[id].hash
      <4>1. CASE m = 0
        <5>1. pending' = pending
          BY <2>1, <4>1
        <5>2. PICK i \in DOMAIN pending : row = pending[i]
          BY <5>1 DEF Items
        <5>3. ~Matches(pending[i], id)
          BY <1>1, <4>1, LastMatchTyped
        <5> QED
          BY <5>1, <5>2, <5>3 DEF Matches
      <4>2. CASE m # 0
        <5>1. m \in DOMAIN pending /\ Matches(pending[m], id)
          BY <1>1, <4>2, LastMatchTyped
        <5>2. pending' = WithoutRow(pending, m)
          BY <2>1, <4>2
        <5> HIDE DEF m
        <5>3. PICK k \in DOMAIN pending : k # m /\ row = pending[k]
          BY <1>1, <5>1, <5>2, RowsWithoutOne
        <5>4. row \in Items(pending) /\ pending[m] \in Items(pending)
          BY <5>1, <5>3 DEF Items
        <5>5. pending[m].hash = txs[id].hash
          <6>1. PICK other \in DOMAIN txs :
                  /\ txs[other].hash = pending[m].hash
                  /\ pending[m].id \in {NoTx, other}
            BY <3>1, <5>4 DEF Accounted
          <6>2. id # NoTx
            BY <1>3 DEF TxIds, NoTx
          <6> QED
            BY <5>1, <6>1, <6>2 DEF Matches
        <5> QED
          BY <1>1, <5>1, <5>3, <5>4, <5>5 DEF Once
      <4> QED
        BY <4>1, <4>2
    <3> QED
      BY <2>3, <3>1, <3>2
  <2>6. Covered(pending, queue, txs, News, missed, Clearing(open))
    BY <1>1 DEF PendingInv
  <2>7. Covered(pending', Tail(queue), txs', News', missed', Clearing(open))
    BY <1>1, <1>2, <2>4, <2>5, <2>6, CoveredAfterTake
  <2> QED
    BY <1>2, <2>7 DEF PendingInv
<1> QED
  BY <1>8, <1>9


LEMMA OwedGuiStep == OwedInv /\ GuiStep => PendingInv'
<1> SUFFICES ASSUME OwedInv, GuiStep PROVE PendingInv'
  OBVIOUS
<1>1. /\ TypeInv /\ PendingInv
      /\ queue \in Seq(Events) /\ pending \in Seq(PendingRows)
      /\ EventLoop.pc = "eventLoop"
  BY GuiTyped DEF OwedInv, ShownInv, TypeInv, TypeOK
<1>2. CASE OnDeposits
  <2>1. /\ queue # <<>> /\ Head(queue).type = "deposits"
        /\ queue' = Tail(queue) /\ gui'.pc = "eventLoop"
        /\ UNCHANGED <<txs, due, missed, open, pending>>
    BY <1>1, <1>2 DEF OnDeposits, Take, Idle, wallet
  <2>2. \A row \in Items(pending) :
          \/ Accounted(row, txs, News, missed)
          \/ Later(Tail(queue), 0, Clearing(open))
    <3>1. "deposits" \notin Clearing(open)
      BY DEF Clearing, ClearTypes
    <3> QED
      BY <1>1, <2>1, <3>1, RowsKeptByTake
  <2> QED
    BY <1>1, <2>1, <2>2, OwedTaken
<1>3. CASE OnUpdated
  BY <1>3, OwedUpdated
<1>4. CASE OnPending
  <2> DEFINE row == [id |-> Head(queue).id, hash |-> Head(queue).hash]
  <2>1. /\ queue # <<>> /\ Head(queue).type = "pending"
        /\ queue' = Tail(queue) /\ gui'.pc = "eventLoop"
        /\ UNCHANGED <<txs, due, missed, open>>
        /\ pending' = Append(pending, row)
    BY <1>1, <1>4 DEF OnPending, Take, Idle, wallet
  <2>2. Head(queue) \in Events /\ Head(queue) = queue[1] /\ 1 \in DOMAIN queue
    BY <1>1, <2>1, QueueAfterTake
  <2>3. /\ row \in PendingRows /\ row.id = Head(queue).id
        /\ row.hash = Head(queue).hash
    BY <2>1, <2>2, EventTypes DEF PendingRows
  <2> HIDE DEF row
  <2>4. \/ Accounted(row, txs, News, missed)
        \/ Later(Tail(queue), 0, Clearing(open))
    <3>1. \/ Accounted(queue[1], txs, News, missed)
          \/ Later(queue, 0 + 1, Clearing(open))
      BY <1>1, <2>1, <2>2 DEF PendingInv, Covered
    <3>2. CASE Accounted(queue[1], txs, News, missed)
      BY <2>2, <2>3, <3>2 DEF Accounted
    <3>3. CASE Later(queue, 0 + 1, Clearing(open))
      BY <1>1, <2>1, <3>3, LaterAfterTake
    <3> QED
      BY <3>1, <3>2, <3>3
  <2>5. "pending" \notin Clearing(open)
    BY DEF Clearing, ClearTypes
  <2>6. \A other \in Items(pending) :
          \/ Accounted(other, txs, News, missed)
          \/ Later(Tail(queue), 0, Clearing(open))
    BY <1>1, <2>1, <2>5, RowsKeptByTake
  <2>7. Items(pending') = Items(pending) \cup {row}
    BY <1>1, <2>1, <2>3, RowsAfterAppend
  <2> QED
    BY <1>1, <2>1, <2>4, <2>6, <2>7, OwedTaken
<1>5. CASE OnReload \/ OnClosed
  <2>1. /\ queue # <<>> /\ queue' = Tail(queue) /\ pending' = <<>>
        /\ Head(queue).type # "updated"
        /\ UNCHANGED <<txs, due, missed, open>>
    BY <1>5 DEF OnReload, OnClosed, Take, Reset, wallet
  <2>2. gui'.pc # "deposit"
    <3>1. Len(deposits) \in 0 .. MaxDeposits
      BY <1>1, BoundsAssumption DEF TypeInv, TypeOK
    <3> QED
      BY <1>5, <3>1, GuiTyped DEF OnReload, OnClosed, Take, Idle
  <2>3. Items(pending') = {}
    BY <2>1 DEF Items
  <2> QED
    BY <1>1, <2>1, <2>2, <2>3, OwedTaken
<1>6. CASE CountReloaded
  <2>1. UNCHANGED <<txs, due, missed, open, pending, queue>>
        /\ gui' = EventLoop
    BY <1>6 DEF CountReloaded, wallet
  <2>2. Keeps
    BY <2>1, KeptWithNews DEF News
  <2> QED
    BY <1>1, <2>1, <2>2, OwedUnchanged
<1>7. CASE OnInitCompleted
  <2>1. /\ queue # <<>> /\ Head(queue).type = "initCompleted"
        /\ gui'.pc = "eventLoop"
        /\ UNCHANGED <<txs, due, missed, open, pending>>
    BY <1>1, <1>7 DEF OnInitCompleted, Take, Idle, wallet, list
  <2>2. CASE open
    <3>1. queue' = Append(Tail(queue), Signal("reload"))
      BY <1>7, <2>2 DEF OnInitCompleted
    <3>2. /\ Tail(queue) \in Seq(Events) /\ Signal("reload") \in Events
          /\ Signal("reload").type = "reload"
      BY <1>1, <2>1, QueueAfterTake, EventsTyped
    <3>3. Covered(pending, queue', txs', News', missed', Clearing(open))
      BY <2>2, <3>1, <3>2, CoveredByClearing DEF Clearing, ClearTypes
    <3> QED
      BY <2>1, <3>3 DEF PendingInv
  <2>3. CASE ~open
    <3>1. queue' = Tail(queue)
      BY <1>7, <2>3 DEF OnInitCompleted
    <3>2. \A row \in Items(pending) :
            \/ Accounted(row, txs, News, missed)
            \/ Later(Tail(queue), 0, Clearing(open))
      <4>1. "initCompleted" \notin Clearing(open)
        BY <2>3 DEF Clearing
      <4> QED
        BY <1>1, <2>1, <4>1, RowsKeptByTake
    <3> QED
      BY <1>1, <2>1, <3>1, <3>2, OwedTaken
  <2> QED
    BY <2>2, <2>3
<1>8. CASE SubmitPending
  <2> DEFINE hash == txs[Len(txs)].hash
  <2>1. PICK id \in {Len(txs), NoTx} :
          queue' = Append(queue, Pending(id, hash))
    BY <1>8 DEF SubmitPending
  <2>2. /\ gui.pc = "deposit" /\ gui'.pc = "eventLoop"
        /\ UNCHANGED <<txs, due, missed, open, pending>>
    BY <1>1, <1>8 DEF SubmitPending, wallet, list
  <2>3. /\ Len(txs) \in TxIds /\ hash \in Hashes
        /\ id \in TxIds \cup {NoTx}
    BY <1>1, <2>1, <2>2, LastTxTyped
  <2>4. Accounted(Pending(Len(txs), hash), txs, News, missed)
    BY <1>1, <2>2 DEF PendingInv
  <2> HIDE DEF hash
  <2>5. /\ Pending(id, hash) \in Events
        /\ Pending(id, hash).id = id /\ Pending(id, hash).hash = hash
        /\ Pending(Len(txs), hash).id = Len(txs)
        /\ Pending(Len(txs), hash).hash = hash
    BY <2>3, EventsTyped
  <2>6. Accounted(Pending(id, hash), txs, News, missed)
    <3>1. PICK other \in DOMAIN txs :
            /\ txs[other].hash = hash /\ Len(txs) \in {NoTx, other}
            /\ Unanswered(txs, News, missed, other)
      BY <2>4, <2>5 DEF Accounted
    <3>2. Len(txs) # NoTx
      BY <2>3 DEF TxIds, NoTx
    <3>3. id \in {NoTx, other}
      BY <2>1, <3>1, <3>2
    <3> QED
      BY <2>5, <3>1, <3>3 DEF Accounted
  <2>7. Items(queue') = Items(queue) \cup {Pending(id, hash)}
    BY <1>1, <2>1, <2>5, LaterAfterPost
  <2>8. \A row : Accounted(row, txs, News, missed) =>
                   Accounted(row, txs', News', missed')
    BY <2>2, <2>7, KeptWithNews DEF Keeps, News
  <2>9. Covered(pending, queue, txs, News, missed, Clearing(open))
    BY <1>1 DEF PendingInv
  <2>10. Accounted(Pending(id, hash), txs', News', missed')
    BY <2>6, <2>8
  <2>11. Covered(pending, queue', txs', News', missed', Clearing(open))
    BY <1>1, <2>1, <2>5, <2>8, <2>9, <2>10, CoveredAfterPost
  <2> QED
    BY <2>2, <2>11 DEF PendingInv
<1> QED
  BY <1>2, <1>3, <1>4, <1>5, <1>6, <1>7, <1>8 DEF GuiStep

LEMMA OwedUser == OwedInv /\ User => PendingInv'
<1> SUFFICES ASSUME OwedInv, User PROVE PendingInv'
  OBVIOUS
<1>1. TypeInv /\ PendingInv /\ queue \in Seq(Events)
  BY DEF OwedInv, ShownInv, TypeInv, TypeOK
<1>2. gui.pc = "eventLoop"
  BY GuiTyped DEF User, Deposit, Withdraw, Open, Close, Rescan, UserAction,
                  Idle
<1>3. CASE Deposit
  <2> DEFINE tx == [hash |-> made', confirmed |-> FALSE]
             n  == Len(txs) + 1
  <2>1. txs' = Append(txs, tx)
        /\ UNCHANGED <<pending, queue, open, due, missed>>
    BY <1>3 DEF Deposit, list
  <2>2. txs \in Seq(Transactions) /\ tx \in Transactions
    BY <1>1, <1>3, BoundsAssumption
       DEF Deposit, TypeInv, TypeOK, Transactions, Hashes
  <2>3. ~tx.confirmed
    OBVIOUS
  <2> HIDE DEF tx
  <2>4. /\ Len(txs') = n /\ DOMAIN txs' = 1 .. n /\ DOMAIN txs = 1 .. Len(txs)
        /\ n \in 1 .. n /\ txs'[n] = tx /\ Len(txs) \in Nat
        /\ \A i \in 1 .. Len(txs) : txs'[i] = txs[i]
    BY <2>1, <2>2
  <2>5. News' = News
    BY <2>1 DEF News
  <2>6. \A i \in DOMAIN txs :
          /\ i \in DOMAIN txs' /\ txs'[i].hash = txs[i].hash
          /\ Unanswered(txs, News, missed, i) =>
               Unanswered(txs', News', missed', i)
    BY <2>1, <2>4, <2>5 DEF Unanswered
  <2>7. \A row : Accounted(row, txs, News, missed) =>
                   Accounted(row, txs', News', missed')
    BY <2>6, AccountedKept
  <2>8. Accounted(Pending(n, txs'[n].hash), txs', News', missed')
    <3>1. Unanswered(txs', News', missed', n)
      BY <2>3, <2>4 DEF Unanswered
    <3> QED
      BY <2>4, <3>1 DEF Accounted, Pending
  <2>9. Covered(pending, queue, txs', News', missed', Clearing(open))
    BY <1>1, <2>7 DEF PendingInv, Covered
  <2> QED
    BY <2>1, <2>4, <2>8, <2>9 DEF PendingInv
<1>4. CASE Withdraw
  <2>1. due = {} /\ UNCHANGED <<txs, pending, queue, open, gui, missed>>
    BY <1>4 DEF Withdraw, list
  <2>2. Keeps
    BY <2>1, KeptWithNews DEF News
  <2> QED
    BY <1>1, <2>1, <2>2, OwedUnchanged
<1>5. CASE \/ \E contents \in WalletContents : Open(contents)
           \/ Close \/ Rescan
  <2>1. PICK type \in {"initCompleted", "closed"} :
          /\ queue' = Append(queue, Signal(type))
          /\ open' \/ type = "closed"
    BY <1>5 DEF Open, Close, Rescan
  <2>2. UNCHANGED <<pending, gui>>
    BY <1>5 DEF Open, Close, Rescan, list
  <2>3. Signal(type) \in Events /\ Signal(type).type = type
    BY EventsTyped
  <2>4. type \in Clearing(open')
    BY <2>1 DEF Clearing, ClearTypes
  <2>5. Covered(pending, queue', txs', News', missed', Clearing(open'))
    BY <1>1, <2>1, <2>3, <2>4, CoveredByClearing
  <2> QED
    BY <1>2, <2>2, <2>5 DEF PendingInv
<1> QED
  BY <1>3, <1>4, <1>5 DEF User

LEMMA OwedHolds == Spec => []OwedInv
<1>1. Init => OwedInv
  <2> SUFFICES ASSUME Init PROVE OwedInv
    OBVIOUS
  <2>1. TypeInv /\ ShownNow /\ ClosedInv
    BY InitTyped DEF Init, ShownNow, ClosedInv
  <2>2. gui.pc = "eventLoop"
    BY GuiTyped DEF Init
  <2>3. /\ pending = <<>> /\ queue = <<>> /\ txs = <<>> /\ DOMAIN <<>> = {}
        /\ Items(<<>>) = {}
    BY DEF Init, Items
  <2>4. HashInv
    BY <2>2, <2>3 DEF HashInv, Once
  <2>5. PendingInv
    BY <2>2, <2>3 DEF PendingInv, Covered
  <2> QED
    BY <2>1, <2>4, <2>5 DEF OwedInv, ShownInv
<1>2. OwedInv /\ [Next]_vars => OwedInv'
  <2>1. ASSUME OwedInv, UNCHANGED vars PROVE OwedInv'
    <3>1. UNCHANGED <<open, deposits, txs, made, due, queue, gui, depositCount,
                      pending, viewRows, torn, missed, userActions>>
      BY <2>1 DEF vars, wallet, list
    <3>2. ShownInv'
      BY <2>1, <3>1 DEF OwedInv, ShownInv, TypeInv, TypeOK, ViewInv,
                        ClosedInv, ShownNow, LastSpent, Announced
    <3>3. HashInv' /\ PendingInv'
      BY <2>1, <3>1 DEF OwedInv, HashInv, PendingInv, News
    <3> QED
      BY <3>2, <3>3 DEF OwedInv
  <2>2. OwedInv /\ WalletThread => OwedInv'
    BY ShownWalletThread, HashesWalletThread, OwedWalletThread
       DEF OwedInv, ShownInv
  <2>3. OwedInv /\ GuiStep => OwedInv'
    BY ShownGuiStep, HashesGuiStep, OwedGuiStep DEF OwedInv, ShownInv
  <2>4. OwedInv /\ User => OwedInv'
    BY ShownUser, HashesUser, OwedUser DEF OwedInv, ShownInv
  <2> QED
    BY <2>1, <2>2, <2>3, <2>4 DEF Next
<1> QED
  BY <1>1, <1>2, PTL DEF Spec

(***************************************************************************)
(* A pending row is never left behind: however many deposits the user      *)
(* makes in however many wallets, each row is of a deposit that the open   *)
(* wallet still waits for, or will be taken away by an event on its way,   *)
(* unless its confirmation was delivered before it.                        *)
(***************************************************************************)
THEOREM PendingRowsAreUnconfirmed == Spec => []PendingIsUnconfirmed
BY OwedHolds, OwedIsUnconfirmed, PTL
=============================================================================
