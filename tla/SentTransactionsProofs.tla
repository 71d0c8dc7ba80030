------------------------ MODULE SentTransactionsProofs ------------------------
(***************************************************************************)
(* Proofs about SentTransactions, for any number of transactions and of    *)
(* wallets one after the other.                                            *)
(***************************************************************************)
EXTENDS SentTransactions, FiniteSetTheorems, FunctionTheorems, TLAPS

(* A slot that is not left from before a close or a rescan holds the id of *)
(* a transaction of its own kind.                                          *)
SlotsKnown ==
  \A slot \in SlotNames :
    slots[slot] # NoTx /\ slot \notin foreign =>
      slots[slot] \in 1 .. Len(sent) /\ SlotOf(sent[slots[slot]]) = slot

(* So does the report that found a slot. *)
ReportKnown ==
  callback # NoReport =>
    /\ callback.kind \in Kinds
    /\ callback.slot # "none" /\ ~callback.foreign =>
         SlotOf(callback.kind) = callback.slot

(* A fee has been paid, is owed for a completion without an error that is  *)
(* posted, or will be when the report of the deposit comes.                *)
Good(q) == {i \in DOMAIN q : ~q[i]}
Owed == Cardinality(Good(queue))
Awaited == slots["deposit"] # NoTx /\ callback.slot # "deposit"

FeesOwed ==
  fees + Owed + (IF Awaited THEN 1 ELSE 0) <= 2 * deposits

IInv ==
  /\ TypeOK
  /\ SlotsKnown
  /\ ReportKnown
  /\ FeesOwed
-----------------------------------------------------------------------------
(***************************************************************************)
(* Slots and ids.                                                          *)
(***************************************************************************)
LEMMA Slots ==
  /\ \A kind : SlotOf(kind) \in SlotNames
  /\ \A kind \in Kinds :
       IF SlotOf(kind) = "transaction"
       THEN kind \in {"payment", "optimization", "fee"}
       ELSE SlotOf(kind) = kind
  /\ "none" \notin SlotNames
BY DEF SlotOf, SlotNames, Kinds

LEMMA IdsTyped == NoTx \in Int /\ NoTx \notin Nat /\ Ids \subseteq Nat \ {0}
BY BoundsAssumption DEF NoTx, Ids

LEMMA Matched ==
  ASSUME NEW id
  PROVE  /\ Matching(id) \in SlotNames \cup {"none"}
         /\ Matching(id) # "none" => slots[Matching(id)] = id
         /\ Matching(id) = "none" => \A slot \in SlotNames : slots[slot] # id
BY DEF Matching, SlotNames

LEMMA Facts ==
  ASSUME IInv
  PROVE  /\ open \in BOOLEAN /\ sent \in Seq(Kinds) /\ Len(sent) \in Nat
         /\ Len(sent) <= MaxTx /\ unreported \subseteq 1 .. Len(sent)
         /\ slots \in [SlotNames -> Ids \cup {NoTx}]
         /\ storing \in 0 .. Len(sent) /\ callback \in Reports
         /\ queue \in Seq(BOOLEAN) /\ deposits \in Nat /\ fees \in Nat
         /\ foreign \subseteq SlotNames
         /\ userActions \in 0 .. MaxUserActions
         /\ 1 .. Len(sent) \subseteq Ids
BY BoundsAssumption DEF IInv, TypeOK, Ids

LEMMA CountTyped ==
  ASSUME IInv, UserActs
  PROVE  userActions' \in 0 .. MaxUserActions
BY BoundsAssumption DEF IInv, TypeOK, UserActs

LEMMA NoReportTyped == NoReport \in Reports /\ NoReport.slot = "none"
BY DEF NoReport, Reports
-----------------------------------------------------------------------------
(***************************************************************************)
(* How many completions without an error are posted.                       *)
(***************************************************************************)
LEMMA GoodFinite ==
  ASSUME NEW q \in Seq(BOOLEAN)
  PROVE  IsFiniteSet(Good(q)) /\ Cardinality(Good(q)) \in Nat
<1>1. Good(q) \in SUBSET (1 .. Len(q)) /\ Len(q) \in Nat
  BY DEF Good
<1>2. IsFiniteSet(1 .. Len(q))
  BY <1>1, FS_Interval
<1>3. IsFiniteSet(Good(q))
  BY <1>1, <1>2, FS_Subset
<1> QED
  BY <1>3, FS_CardinalityType

LEMMA GoodAppended ==
  ASSUME NEW q \in Seq(BOOLEAN), NEW error \in BOOLEAN
  PROVE  /\ Append(q, error) \in Seq(BOOLEAN)
         /\ Cardinality(Good(Append(q, error))) =
              Cardinality(Good(q)) + (IF error THEN 0 ELSE 1)
<1> DEFINE n == Len(q) + 1
<1>1. n \in Nat /\ n \notin Good(q)
  BY DEF Good
<1>2. Good(Append(q, error)) = IF error THEN Good(q) ELSE Good(q) \cup {n}
  BY DEF Good
<1>3. CASE error
  BY <1>2, <1>3, GoodFinite
<1>4. CASE ~error
  <2>1. Cardinality(Good(q) \cup {n}) = Cardinality(Good(q)) + 1
    BY <1>1, GoodFinite, FS_AddElement
  <2> QED
    BY <1>2, <1>4, <2>1
<1> QED
  BY <1>3, <1>4

LEMMA GoodTail ==
  ASSUME NEW q \in Seq(BOOLEAN), q # <<>>
  PROVE  /\ Tail(q) \in Seq(BOOLEAN)
         /\ Head(q) \in BOOLEAN
         /\ Head(q) => Cardinality(Good(Tail(q))) = Cardinality(Good(q))
         /\ ~Head(q) =>
              Cardinality(Good(Tail(q))) = Cardinality(Good(q)) - 1
<1> DEFINE t == Tail(q)
<1>1. /\ t \in Seq(BOOLEAN) /\ Len(t) = Len(q) - 1 /\ Len(q) \in Nat
      /\ Len(t) \in Nat /\ Head(q) = q[1] /\ q[1] \in BOOLEAN
      /\ \A i \in 1 .. Len(t) : t[i] = q[i + 1]
      /\ DOMAIN t = 1 .. Len(t) /\ DOMAIN q = 1 .. Len(q)
  OBVIOUS
<1> HIDE DEF t
<1> DEFINE f == [i \in Good(t) |-> i + 1]
<1>2. f \in Bijection(Good(t), Good(q) \ {1})
  <2>1. f \in [Good(t) -> Good(q) \ {1}]
    BY <1>1 DEF Good
  <2>2. \A i, j \in Good(t) : f[i] = f[j] => i = j
    BY <1>1 DEF Good
  <2>3. \A j \in Good(q) \ {1} : \E i \in Good(t) : f[i] = j
    <3> TAKE j \in Good(q) \ {1}
    <3>1. j - 1 \in Good(t) /\ (j - 1) + 1 = j
      BY <1>1 DEF Good
    <3> QED
      BY <3>1
  <2> QED
    BY <2>1, <2>2, <2>3, Fun_IsBij
<1>3. Cardinality(Good(q) \ {1}) = Cardinality(Good(t))
  <2>1. ExistsBijection(Good(t), Good(q) \ {1})
    BY <1>2 DEF ExistsBijection
  <2> QED
    BY <1>1, <2>1, GoodFinite, FS_Bijection
<1>4. /\ Head(q) => Cardinality(Good(q) \ {1}) = Cardinality(Good(q))
      /\ ~Head(q) =>
           Cardinality(Good(q) \ {1}) = Cardinality(Good(q)) - 1
  <2>1. 1 \in Good(q) <=> ~Head(q)
    <3>1. 1 \in DOMAIN q
      BY <1>1
    <3> QED
      BY <1>1, <3>1 DEF Good
  <2>2. Cardinality(Good(q) \ {1}) =
          IF 1 \in Good(q) THEN Cardinality(Good(q)) - 1
                           ELSE Cardinality(Good(q))
    BY GoodFinite, FS_RemoveElement
  <2> QED
    BY <2>1, <2>2
<1> QED
  BY <1>1, <1>3, <1>4 DEF t
-----------------------------------------------------------------------------
(***************************************************************************)
(* Each action keeps the inductive invariant.                              *)
(***************************************************************************)
LEMMA OwedTyped == ASSUME IInv PROVE Owed \in Nat
BY Facts, GoodFinite DEF Owed

(* What holds of the slots and reports, where none of them is touched. *)
LEMMA SameReports ==
  ASSUME IInv, UNCHANGED <<sent, slots, callback, foreign>>
  PROVE  SlotsKnown' /\ ReportKnown'
BY DEF IInv, SlotsKnown, ReportKnown

(* The wallet makes one more transaction. *)
LEMMA MadeTyped ==
  ASSUME IInv, NEW kind \in Kinds, MadeByWallet(kind)
  PROVE  /\ sent' \in Seq(Kinds) /\ Len(sent') = Len(sent) + 1
         /\ Len(sent') <= MaxTx
         /\ \A i \in 1 .. Len(sent) : sent'[i] = sent[i]
         /\ storing' = Len(sent') /\ storing' \in 0 .. Len(sent')
         /\ unreported' = unreported \cup {storing'}
         /\ unreported' \subseteq 1 .. Len(sent')
<1>1. /\ sent' = Append(sent, kind) /\ Len(sent) < MaxTx
      /\ storing' = Len(sent') /\ unreported' = unreported \cup {storing'}
  BY DEF MadeByWallet
<1>2. /\ sent' \in Seq(Kinds) /\ Len(sent') = Len(sent) + 1
      /\ \A i \in 1 .. Len(sent) : sent'[i] = sent[i]
  BY <1>1, Facts
<1>3. Len(sent) \in Nat /\ MaxTx \in Nat
  BY Facts, BoundsAssumption
<1>4. unreported' \subseteq 1 .. Len(sent')
  BY <1>1, <1>2, <1>3, Facts
<1> QED
  BY <1>1, <1>2, <1>3, <1>4

LEMMA MadeReports ==
  ASSUME IInv, NEW kind \in Kinds, MadeByWallet(kind),
         UNCHANGED <<slots, callback, foreign>>
  PROVE  SlotsKnown' /\ ReportKnown'
<1>1. /\ Len(sent) \in Nat /\ Len(sent') = Len(sent) + 1
      /\ \A i \in 1 .. Len(sent) : sent'[i] = sent[i]
  BY MadeTyped, Facts
<1>2. \A i \in 1 .. Len(sent) : i \in 1 .. Len(sent')
  BY <1>1
<1>3. SlotsKnown'
  <2> SUFFICES ASSUME NEW slot \in SlotNames,
                      slots[slot] # NoTx, slot \notin foreign
               PROVE  /\ slots[slot] \in 1 .. Len(sent')
                      /\ SlotOf(sent'[slots[slot]]) = slot
    BY DEF SlotsKnown
  <2>1. slots[slot] \in 1 .. Len(sent) /\ SlotOf(sent[slots[slot]]) = slot
    BY DEF IInv, SlotsKnown
  <2> QED
    BY <1>1, <1>2, <2>1
<1>4. ReportKnown'
  BY DEF IInv, ReportKnown
<1> QED
  BY <1>3, <1>4

LEMMA SendIInv ==
  ASSUME IInv, NEW kind \in Kinds, Send(kind) PROVE IInv'
<1>1. /\ UserActs /\ EventLoop /\ MadeByWallet(kind)
      /\ UNCHANGED <<open, slots, callback, queue, deposits, fees, foreign>>
  BY DEF Send, UserActs, history
<1>2. TypeOK'
  BY <1>1, Facts, MadeTyped, CountTyped DEF TypeOK
<1>3. SlotsKnown' /\ ReportKnown'
  BY <1>1, MadeReports
<1>4. FeesOwed'
  BY <1>1 DEF IInv, FeesOwed, Owed, Awaited
<1> QED
  BY <1>2, <1>3, <1>4 DEF IInv

LEMMA RefuseIInv ==
  ASSUME IInv, NEW kind \in Kinds, Refuse(kind) PROVE IInv'
<1>1. /\ UserActs
      /\ queue' = queue \/ queue' = Append(queue, TRUE)
      /\ UNCHANGED <<open, sent, unreported, storing, slots, callback,
                     deposits, fees, foreign>>
  BY DEF Refuse, sending, history
<1>2. queue' \in Seq(BOOLEAN) /\ Owed' = Owed
  <2>1. queue \in Seq(BOOLEAN) /\ Owed \in Nat
    BY Facts, OwedTyped
  <2>2. CASE queue' = queue
    BY <2>1, <2>2 DEF Owed
  <2>3. CASE queue' = Append(queue, TRUE)
    <3>1. /\ queue' \in Seq(BOOLEAN)
          /\ Cardinality(Good(queue')) =
               Cardinality(Good(queue)) + (IF TRUE THEN 0 ELSE 1)
      BY <2>1, <2>3, GoodAppended
    <3> QED
      BY <2>1, <3>1 DEF Owed
  <2> QED
    BY <1>1, <2>2, <2>3
<1>3. TypeOK'
  BY <1>1, <1>2, Facts, CountTyped DEF TypeOK
<1>4. FeesOwed'
  BY <1>1, <1>2 DEF IInv, FeesOwed, Awaited
<1> QED
  BY <1>1, <1>3, <1>4, SameReports DEF IInv

LEMMA OpenIInv == ASSUME IInv, Open PROVE IInv'
<1>1. /\ UserActs /\ open' = TRUE
      /\ UNCHANGED <<sent, unreported, storing, slots, callback, queue,
                     deposits, fees, foreign>>
  BY DEF Open, sending, history
<1>2. TypeOK'
  BY <1>1, Facts, CountTyped DEF TypeOK
<1>3. FeesOwed'
  BY <1>1 DEF IInv, FeesOwed, Owed, Awaited
<1> QED
  BY <1>1, <1>2, <1>3, SameReports DEF IInv

(* Nothing is waited for, and every slot that is not empty is foreign. *)
LEMMA ForgetIInv ==
  ASSUME IInv, Forget, open' \in BOOLEAN
  PROVE  IInv'
<1>1. /\ UserActs /\ storing = 0 /\ sent' = <<>> /\ unreported' = {}
      /\ foreign' = {slot \in SlotNames : slots[slot] # NoTx}
      /\ UNCHANGED <<storing, slots, callback, queue, deposits, fees>>
  BY DEF Forget, UserActs, EventLoop
<1>2. TypeOK'
  <2>1. /\ sent' \in Seq(Kinds) /\ Len(sent') = 0
        /\ storing' \in 0 .. Len(sent')
        /\ MaxTx \in Nat
    BY <1>1, BoundsAssumption
  <2>2. /\ foreign' \subseteq SlotNames
        /\ unreported' \subseteq 1 .. Len(sent')
    BY <1>1
  <2> QED
    BY <1>1, <2>1, <2>2, Facts, CountTyped DEF TypeOK
<1>3. SlotsKnown'
  BY <1>1 DEF SlotsKnown
<1>4. ReportKnown'
  BY <1>1 DEF IInv, ReportKnown
<1>5. FeesOwed'
  BY <1>1 DEF IInv, FeesOwed, Owed, Awaited
<1> QED
  BY <1>2, <1>3, <1>4, <1>5 DEF IInv

LEMMA CloseIInv == ASSUME IInv, Close PROVE IInv'
BY ForgetIInv DEF Close

LEMMA RescanIInv == ASSUME IInv, Rescan PROVE IInv'
<1>1. Forget /\ open' \in BOOLEAN
  BY Facts DEF Rescan
<1> QED
  BY <1>1, ForgetIInv

LEMMA CompleteDepositIInv == ASSUME IInv, CompleteDeposit PROVE IInv'
<1>1. /\ EventLoop /\ queue # <<>> /\ queue' = Tail(queue)
      /\ UNCHANGED <<open, slots, callback, deposits, foreign,
                     userActions>>
  BY DEF CompleteDeposit
<1>2. /\ queue' \in Seq(BOOLEAN) /\ Owed \in Nat
      /\ Head(queue) \in BOOLEAN
      /\ Owed' = Owed \/ Owed' = Owed - 1
      /\ ~Head(queue) => Owed' = Owed - 1
      /\ fees \in Nat /\ deposits \in Nat
  BY <1>1, Facts, GoodTail, OwedTyped DEF Owed
<1>3. Awaited' <=> Awaited
  BY <1>1 DEF Awaited
<1>4. CASE /\ ~Head(queue) /\ MadeByWallet("fee") /\ fees' = fees + 1
  <2>1. "fee" \in Kinds
    BY DEF Kinds
  <2>4. /\ Owed' = Owed - 1 /\ Owed \in Nat
        /\ fees' = fees + 1 /\ fees \in Nat
    BY <1>2, <1>4, Zenon
  <2>2. TypeOK'
    <3>1. fees' \in Nat
      BY <2>4
    <3> QED
      BY <1>1, <1>2, <1>4, <2>1, <3>1, Facts, MadeTyped DEF TypeOK
  <2>3. FeesOwed'
    <3>1. fees' + Owed' = fees + Owed
      BY <2>4
    <3> QED
      BY <1>1, <1>3, <3>1 DEF IInv, FeesOwed
  <2> QED
    BY <1>1, <1>4, <2>1, <2>2, <2>3, MadeReports DEF IInv
<1>5. CASE UNCHANGED <<sent, unreported, storing, fees>>
  <2>1. TypeOK'
    BY <1>1, <1>2, <1>5, Facts DEF TypeOK
  <2>2. FeesOwed'
    <3>1. /\ fees' = fees /\ Owed \in Nat
          /\ Owed' = Owed \/ Owed' = Owed - 1
      BY <1>2, <1>5, Zenon
    <3>2. Owed' <= Owed /\ Owed' \in Int
      BY <3>1
    <3>3. fees \in Nat /\ deposits \in Nat /\ deposits' = deposits
      BY <1>1, Facts
    <3>4. CASE Awaited
      <4>1. fees + Owed + 1 <= 2 * deposits
        BY <3>4 DEF IInv, FeesOwed
      <4>2. fees' + Owed' + 1 <= 2 * deposits'
        BY <3>1, <3>2, <3>3, <4>1 DEF Owed
      <4> QED
        BY <1>3, <3>4, <4>2 DEF FeesOwed
    <3>5. CASE ~Awaited
      <4>1. fees + Owed + 0 <= 2 * deposits
        BY <3>5 DEF IInv, FeesOwed
      <4>2. fees' + Owed' + 0 <= 2 * deposits'
        BY <3>1, <3>2, <3>3, <4>1 DEF Owed
      <4> QED
        BY <1>3, <3>5, <4>2 DEF FeesOwed
    <3> QED
      BY <3>4, <3>5
  <2> QED
    BY <1>1, <1>5, <2>1, <2>2, SameReports DEF IInv
<1> QED
  BY <1>4, <1>5 DEF CompleteDeposit, sending

(* The slot gets the id, or none if the id was not found by its hash. *)
LEMMA StoreIInv == ASSUME IInv, Store PROVE IInv'
<1> DEFINE kind == sent[storing]
           slot == SlotOf(kind)
<1>1. PICK id \in {storing, NoTx} :
        slots' = [slots EXCEPT ![slot] = id]
  BY DEF Store
<1>2. /\ storing # 0 /\ storing' = 0 /\ foreign' = foreign \ {slot}
      /\ queue' = IF kind = "deposit" THEN Append(queue, FALSE) ELSE queue
      /\ deposits' = deposits + (IF kind = "deposit" THEN 1 ELSE 0)
      /\ UNCHANGED <<open, sent, unreported, callback, fees, userActions>>
  BY DEF Store
<1>3. /\ storing \in 1 .. Len(sent) /\ storing \in Ids
      /\ sent[storing] \in Kinds /\ slot \in SlotNames
      /\ storing # NoTx
  BY <1>2, Facts, Slots, IdsTyped
<1>4. \A other \in SlotNames :
        slots'[other] = IF other = slot THEN id ELSE slots[other]
  BY <1>1, Facts
<1>6. TypeOK'
  <2>1. slots' \in [SlotNames -> Ids \cup {NoTx}]
    BY <1>1, <1>3, Facts
  <2>3. queue' \in Seq(BOOLEAN) /\ deposits' \in Nat
    <3>1. queue \in Seq(BOOLEAN) /\ deposits \in Nat
      BY Facts
    <3>2. Append(queue, FALSE) \in Seq(BOOLEAN)
      BY <3>1, GoodAppended
    <3>3. queue' = Append(queue, FALSE) \/ queue' = queue
      BY <1>2
    <3>4. deposits' = deposits + 1 \/ deposits' = deposits + 0
      BY <1>2
    <3>5. deposits' \in Nat
      BY <3>1, <3>4
    <3> QED
      BY <3>1, <3>2, <3>3, <3>5
  <2>4. foreign' \subseteq SlotNames /\ storing' \in 0 .. Len(sent')
    BY <1>2, Facts
  <2> QED
    BY <1>2, <2>1, <2>3, <2>4, Facts DEF TypeOK
<1>7. SlotsKnown'
  <2> SUFFICES ASSUME NEW s \in SlotNames, slots'[s] # NoTx, s \notin foreign'
               PROVE  /\ slots'[s] \in 1 .. Len(sent)
                      /\ SlotOf(sent[slots'[s]]) = s
    BY <1>2 DEF SlotsKnown
  <2>1. CASE s = slot
    BY <1>1, <1>3, <1>4, <2>1
  <2>2. CASE s # slot
    <3>1. slots'[s] = slots[s] /\ s \notin foreign
      BY <1>2, <1>4, <2>2
    <3> QED
      BY <3>1 DEF IInv, SlotsKnown
  <2> QED
    BY <2>1, <2>2
<1>8. ReportKnown'
  BY <1>2 DEF IInv, ReportKnown
<1>11. FeesOwed'
  <2>1. queue \in Seq(BOOLEAN) /\ Owed \in Nat
    BY Facts, OwedTyped
  <2>2. fees \in Nat /\ deposits \in Nat /\ fees' = fees
    BY <1>2, Facts
  <2>3. CASE kind = "deposit"
    <3>1. queue' = Append(queue, FALSE) /\ deposits' = deposits + 1
      BY <1>2, <2>3
    <3>2. /\ Cardinality(Good(queue')) = Cardinality(Good(queue)) + 1
          /\ Cardinality(Good(queue)) \in Nat
      BY <2>1, <3>1, GoodAppended, GoodFinite
    <3>3. fees + Cardinality(Good(queue)) <= 2 * deposits
      <4>1. CASE Awaited
        <5>1. fees + Cardinality(Good(queue)) + 1 <= 2 * deposits
          BY <4>1 DEF IInv, FeesOwed, Owed
        <5> QED
          BY <2>2, <3>2, <5>1
      <4>2. CASE ~Awaited
        <5>1. fees + Cardinality(Good(queue)) + 0 <= 2 * deposits
          BY <4>2 DEF IInv, FeesOwed, Owed
        <5> QED
          BY <2>2, <3>2, <5>1
      <4> QED
        BY <4>1, <4>2
    <3>4. 2 * deposits' = 2 * deposits + 2
      BY <2>2, <3>1
    <3>5. \A one \in {0, 1} :
            fees' + Cardinality(Good(queue')) + one <= 2 * deposits'
      <4> TAKE one \in {0, 1}
      <4>1. fees + (Cardinality(Good(queue)) + 1) + one <= 2 * deposits + 2
        BY <2>2, <3>2, <3>3
      <4> QED
        BY <2>2, <3>2, <3>4, <4>1
    <3> QED
      BY <3>5 DEF FeesOwed, Owed
  <2>4. CASE kind # "deposit"
    <3>1. UNCHANGED <<queue, deposits, callback>>
      BY <1>2, <2>2, <2>4
    <3>2. slot # "deposit"
      BY <2>4 DEF SlotOf, SlotNames
    <3>3. Awaited' <=> Awaited
      <4>1. slots'["deposit"] = slots["deposit"]
        BY <1>4, <3>2 DEF SlotNames
      <4> QED
        BY <3>1, <4>1 DEF Awaited
    <3> QED
      BY <1>2, <3>1, <3>3 DEF IInv, FeesOwed, Owed
  <2> QED
    BY <2>3, <2>4
<1> QED
  BY <1>6, <1>7, <1>8, <1>11 DEF IInv

LEMMA ReportIInv ==
  ASSUME IInv, NEW id \in Ids, NEW error \in BOOLEAN, Report(id, error)
  PROVE  IInv'
<1> DEFINE slot == Matching(id)
<1>1. /\ callback = NoReport /\ id \in unreported
      /\ unreported' = unreported \ {id}
      /\ callback' = [kind |-> sent[id], slot |-> slot,
                      foreign |-> slot \in foreign]
      /\ queue' = IF slot = "deposit" THEN Append(queue, error) ELSE queue
      /\ UNCHANGED <<open, sent, storing, slots, deposits, fees, foreign,
                     userActions>>
  BY DEF Report
<1>2. /\ slot \in SlotNames \cup {"none"}
      /\ slot # "none" => slots[slot] = id
      /\ slot = "none" => \A s \in SlotNames : slots[s] # id
  BY Matched
<1>3. id \in 1 .. Len(sent) /\ id # NoTx /\ sent[id] \in Kinds
  BY <1>1, Facts, IdsTyped
<1> HIDE DEF slot
<1>4. /\ callback'.kind = sent[id] /\ callback'.slot = slot
      /\ callback'.foreign = (slot \in foreign)
      /\ callback' \in Reports
  BY <1>1, <1>2, <1>3 DEF Reports
<1>6. TypeOK'
  <2>1. queue' \in Seq(BOOLEAN)
    <3>1. queue' = Append(queue, error) \/ queue' = queue
      BY <1>1
    <3> QED
      BY <3>1, Facts, GoodAppended
  <2>2. unreported' \subseteq 1 .. Len(sent')
    BY <1>1, Facts
  <2> QED
    BY <1>1, <1>4, <2>1, <2>2, Facts DEF TypeOK
<1>7. SlotsKnown'
  BY <1>1 DEF IInv, SlotsKnown
<1>8. ReportKnown'
  <2>1. slot # "none" /\ slot \notin foreign => SlotOf(sent[id]) = slot
    <3> SUFFICES ASSUME slot # "none", slot \notin foreign
                 PROVE  SlotOf(sent[id]) = slot
      OBVIOUS
    <3>1. slot \in SlotNames /\ slots[slot] = id
      BY <1>2
    <3> QED
      BY <1>3, <3>1 DEF IInv, SlotsKnown
  <2> QED
    BY <1>1, <1>3, <1>4, <2>1 DEF ReportKnown
<1>11. FeesOwed'
  <2>1. /\ queue \in Seq(BOOLEAN) /\ fees \in Nat /\ deposits \in Nat
        /\ Cardinality(Good(queue)) \in Nat
        /\ fees' = fees /\ deposits' = deposits
    BY <1>1, Facts, GoodFinite
  <2>2. callback.slot = "none"
    BY <1>1, NoReportTyped
  <2>3. CASE slot = "deposit"
    <3>1. Awaited
      BY <1>2, <1>3, <2>2, <2>3 DEF Awaited
    <3>2. fees + Cardinality(Good(queue)) + 1 <= 2 * deposits
      BY <3>1 DEF IInv, FeesOwed, Owed
    <3>3. ~Awaited'
      BY <1>4, <2>3 DEF Awaited
    <3>4. \/ Cardinality(Good(queue')) = Cardinality(Good(queue)) + 1
          \/ Cardinality(Good(queue')) = Cardinality(Good(queue)) + 0
      <4>1. queue' = Append(queue, error)
        BY <1>1, <2>3
      <4> QED
        BY <2>1, <4>1, GoodAppended
    <3>5. fees' + Cardinality(Good(queue')) + 0 <= 2 * deposits'
      BY <2>1, <3>2, <3>4
    <3> QED
      BY <3>3, <3>5 DEF FeesOwed, Owed
  <2>4. CASE slot # "deposit"
    <3>1. queue' = queue /\ (Awaited' <=> Awaited)
      BY <1>1, <1>4, <2>2, <2>4 DEF Awaited
    <3> QED
      BY <2>1, <3>1 DEF IInv, FeesOwed, Owed
  <2> QED
    BY <2>3, <2>4
<1> QED
  BY <1>6, <1>7, <1>8, <1>11 DEF IInv

LEMMA ClearSlotIInv == ASSUME IInv, ClearSlot PROVE IInv'
<1> DEFINE slot == callback.slot
<1>1. /\ callback # NoReport /\ callback' = NoReport
      /\ UNCHANGED <<open, sent, unreported, storing, queue, deposits, fees,
                     userActions>>
  BY DEF ClearSlot, sending
<1>2. slot \in SlotNames \cup {"none"}
  BY Facts DEF Reports
<1>3. ReportKnown'
  BY <1>1 DEF ReportKnown
<1>4. callback' \in Reports /\ callback'.slot = "none"
  BY <1>1, NoReportTyped
<1>5. CASE slot = "none"
  <2>1. UNCHANGED <<slots, foreign>>
    BY <1>5 DEF ClearSlot
  <2>2. TypeOK'
    BY <1>1, <1>4, <2>1, Facts DEF TypeOK
  <2>3. SlotsKnown'
    BY <1>1, <2>1 DEF IInv, SlotsKnown
  <2>4. FeesOwed'
    <3>1. Awaited' <=> Awaited
      BY <1>4, <1>5, <2>1 DEF Awaited
    <3> QED
      BY <1>1, <3>1 DEF IInv, FeesOwed, Owed
  <2> QED
    BY <1>3, <2>2, <2>3, <2>4 DEF IInv
<1>6. CASE slot # "none"
  <2>1. /\ slots' = [slots EXCEPT ![slot] = NoTx]
        /\ foreign' = foreign \ {slot}
    BY <1>6 DEF ClearSlot
  <2>2. slot \in SlotNames
    BY <1>2, <1>6
  <2>3. \A s \in SlotNames : slots'[s] = IF s = slot THEN NoTx ELSE slots[s]
    BY <2>1, Facts
  <2>4. TypeOK'
    <3>1. slots' \in [SlotNames -> Ids \cup {NoTx}]
      BY <2>1, Facts
    <3>2. foreign' \subseteq SlotNames
      BY <2>1, Facts
    <3> QED
      BY <1>1, <1>4, <3>1, <3>2, Facts DEF TypeOK
  <2>5. SlotsKnown'
    <3> SUFFICES ASSUME NEW s \in SlotNames, slots'[s] # NoTx,
                        s \notin foreign'
                 PROVE  /\ slots'[s] \in 1 .. Len(sent)
                        /\ SlotOf(sent[slots'[s]]) = s
      BY <1>1 DEF SlotsKnown
    <3>1. slots'[s] = slots[s] /\ s \notin foreign
      BY <2>1, <2>3
    <3> QED
      BY <3>1 DEF IInv, SlotsKnown
  <2>7. FeesOwed'
    <3>1. Awaited' => Awaited
      <4>1. "deposit" \in SlotNames
        BY DEF SlotNames
      <4>2. CASE slot = "deposit"
        BY <2>3, <4>1, <4>2 DEF Awaited
      <4>3. CASE slot # "deposit"
        BY <2>3, <4>1, <4>3 DEF Awaited
      <4> QED
        BY <4>2, <4>3
    <3>2. /\ fees \in Nat /\ deposits \in Nat
          /\ Cardinality(Good(queue)) \in Nat
      BY Facts, GoodFinite
    <3>3. CASE Awaited'
      BY <1>1, <3>1, <3>3 DEF IInv, FeesOwed, Owed
    <3>4. CASE ~Awaited'
      <4>1. fees + Cardinality(Good(queue)) + 0 <= 2 * deposits
        <5>1. CASE Awaited
          <6>1. fees + Cardinality(Good(queue)) + 1 <= 2 * deposits
            BY <5>1 DEF IInv, FeesOwed, Owed
          <6> QED
            BY <3>2, <6>1
        <5>2. CASE ~Awaited
          BY <5>2 DEF IInv, FeesOwed, Owed
        <5> QED
          BY <5>1, <5>2
      <4> QED
        BY <1>1, <3>4, <4>1 DEF FeesOwed, Owed
    <3> QED
      BY <3>3, <3>4
  <2> QED
    BY <1>3, <2>4, <2>5, <2>7 DEF IInv
<1> QED
  BY <1>5, <1>6
-----------------------------------------------------------------------------
LEMMA InitIInv == Init => IInv
<1> SUFFICES ASSUME Init PROVE IInv
  OBVIOUS
<1>1. /\ sent = <<>> /\ Len(sent) = 0 /\ queue = <<>> /\ callback = NoReport
      /\ slots = [slot \in SlotNames |-> NoTx] /\ unreported = {}
      /\ storing = 0 /\ foreign = {} /\ open = TRUE
      /\ deposits = 0 /\ fees = 0 /\ userActions = 0
  BY DEF Init
<1>2. TypeOK
  <2>1. /\ sent \in Seq(Kinds) /\ queue \in Seq(BOOLEAN)
        /\ 0 \in 0 .. MaxUserActions /\ 0 \in 0 .. Len(sent)
        /\ Len(sent) <= MaxTx
    BY <1>1, BoundsAssumption
  <2>2. slots \in [SlotNames -> Ids \cup {NoTx}]
    BY <1>1
  <2> QED
    BY <1>1, <2>1, <2>2, NoReportTyped DEF TypeOK
<1>3. SlotsKnown
  BY <1>1 DEF SlotsKnown
<1>4. ReportKnown
  BY <1>1 DEF ReportKnown
<1>5. FeesOwed
  <2>1. Good(queue) = {}
    BY <1>1 DEF Good
  <2>2. Owed = 0
    BY <2>1, FS_EmptySet DEF Owed
  <2>3. ~Awaited
    BY <1>1 DEF Awaited, SlotNames
  <2> QED
    BY <1>1, <2>2, <2>3 DEF FeesOwed
<1> QED
  BY <1>2, <1>3, <1>4, <1>5 DEF IInv

LEMMA StepIInv == IInv /\ [Next]_vars => IInv'
<1> SUFFICES ASSUME IInv, [Next]_vars PROVE IInv'
  OBVIOUS
<1>1. CASE \E kind \in Kinds : Send(kind) \/ Refuse(kind)
  BY <1>1, SendIInv, RefuseIInv
<1>2. CASE \E id \in Ids, error \in BOOLEAN : Report(id, error)
  BY <1>2, ReportIInv
<1>3. CASE UNCHANGED vars
  <2>1. UNCHANGED <<open, sent, unreported, storing, slots, callback, queue,
                    deposits, fees, foreign, userActions>>
    BY <1>3 DEF vars, sending, history
  <2>2. TypeOK'
    BY <2>1 DEF IInv, TypeOK
  <2>3. FeesOwed'
    BY <2>1 DEF IInv, FeesOwed, Owed, Awaited
  <2> QED
    BY <2>1, <2>2, <2>3, SameReports DEF IInv
<1> QED
  BY <1>1, <1>2, <1>3, StoreIInv, CompleteDepositIInv, CloseIInv, RescanIInv,
     OpenIInv,     ClearSlotIInv DEF Next

LEMMA Invariant == Spec => []IInv
BY InitIInv, StepIInv, PTL DEF Spec

(***************************************************************************)
(* TypeOK: the four slots of WalletAdapter hold an id or none, and what is *)
(* yet to be reported is a transaction of the open wallet.                 *)
(***************************************************************************)
THEOREM TypeCorrect == Spec => []TypeOK
<1>1. IInv => TypeOK
  BY DEF IInv
<1> QED
  BY <1>1, Invariant, PTL

(***************************************************************************)
(* SignalsItsKind: sendTransactionCompleted() signals the completion of    *)
(* the kind that was sent, unless the slot was left from before a close or *)
(* a rescan.                                                               *)
(***************************************************************************)
THEOREM SignalsTheKindSent == Spec => []SignalsItsKind
<1>1. ASSUME IInv PROVE SignalsItsKind
  <2> SUFFICES ASSUME callback.slot # "none", ~callback.foreign
               PROVE  IF callback.slot = "transaction"
                      THEN callback.kind \in
                             {"payment", "optimization", "fee"}
                      ELSE callback.kind = callback.slot
    BY DEF SignalsItsKind
  <2>1. callback # NoReport
    BY NoReportTyped
  <2>2. callback.kind \in Kinds /\ SlotOf(callback.kind) = callback.slot
    BY <1>1, <2>1 DEF IInv, ReportKnown
  <2> QED
    BY <2>2, Slots
<1> QED
  BY <1>1, Invariant, PTL

(***************************************************************************)
(* FeesBounded: createDepositCompleted() sends at most two fees for each   *)
(* deposit that the wallet made, and none for one that it refused.         *)
(***************************************************************************)
THEOREM AtMostTwoFees == Spec => []FeesBounded
<1>1. ASSUME IInv PROVE FeesBounded
  <2>1. fees \in Nat /\ deposits \in Nat /\ Owed \in Nat
    BY <1>1, Facts, OwedTyped
  <2>2. CASE Awaited
    <3>1. fees + Owed + 1 <= 2 * deposits
      BY <1>1, <2>2 DEF IInv, FeesOwed
    <3> QED
      BY <2>1, <3>1 DEF FeesBounded
  <2>3. CASE ~Awaited
    <3>1. fees + Owed + 0 <= 2 * deposits
      BY <1>1, <2>3 DEF IInv, FeesOwed
    <3> QED
      BY <2>1, <3>1 DEF FeesBounded
  <2> QED
    BY <2>2, <2>3
<1> QED
  BY <1>1, Invariant, PTL
=============================================================================
