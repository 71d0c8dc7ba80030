------------------------------ MODULE PagesProofs ------------------------------
(***************************************************************************)
(* What TLAPS proves of Pages, for every set of wallets, addresses and     *)
(* words, every base and number of decimals and every value of the bounds: *)
(* the recipient of a payment, the address book, the text of a message,    *)
(* and the text of an amount, which is a recursive function of its digits: *)
(* the lemmas begin with induction over a set of numbers and the existence *)
(* of the functions that are defined by recursion.                         *)
(***************************************************************************)
EXTENDS Pages, FiniteSetTheorems, SequenceTheorems, WellFoundedInduction, TLAPS

-----------------------------------------------------------------------------
(***************************************************************************)
(* The recipient of a payment                                              *)
(***************************************************************************)
LEMMA KindsDisjoint ==
  /\ Plain \cap Listed = {} /\ Plain \cap Integrated = {}
  /\ Plain \cap Aliases = {} /\ Listed \cap Integrated = {}
  /\ Listed \cap Aliases = {} /\ Integrated \cap Aliases = {}
<1> DEFINE kinds == <<Plain, Listed, Integrated, Aliases>>
<1>1. DOMAIN kinds = 1 .. 4
  OBVIOUS
<1>2. /\ kinds[1] = Plain /\ kinds[2] = Listed
      /\ kinds[3] = Integrated /\ kinds[4] = Aliases
  OBVIOUS
<1>3. \A i, j \in DOMAIN kinds : i # j => kinds[i] \cap kinds[j] = {}
  BY FieldsAssumption
<1> HIDE DEF kinds
<1> QED
  BY <1>1, <1>2, <1>3

LEMMA FieldsDistinct ==
  /\ Empty \notin Plain \cup Listed \cup Integrated \cup Aliases
  /\ TypedId \notin Integrated /\ TypedId # Empty
  /\ MaxFieldActions \in Nat
BY FieldsAssumption

LEMMA SameCardinality ==
  ASSUME NEW S PROVE Recipient!Cardinality(S) = Cardinality(S)
BY DEF Cardinality, Recipient!Cardinality

(***************************************************************************)
(* The inductive invariant: an exchange whose answer has come is named.    *)
(***************************************************************************)
RecipientInv ==
  /\ Recipient!TypeOK
  /\ IsFiniteSet(payments)
  /\ known => exchangeName # Empty
  /\ ReachesItsRecipient

LEMMA RecipientInit == Recipient!Init => RecipientInv
<1> SUFFICES ASSUME Recipient!Init PROVE RecipientInv
  OBVIOUS
<1>1. payments = {} /\ Cardinality(payments) = 0 /\ IsFiniteSet(payments)
  BY FS_EmptySet DEF Recipient!Init
<1>2. fieldActions = 0 /\ fieldActions \in 0 .. MaxFieldActions
  BY FieldsDistinct DEF Recipient!Init
<1>3. questions \in [Recipient!Addresses -> 0 .. 2 * fieldActions]
  BY <1>2 DEF Recipient!Init
<1>4. Recipient!TypeOK
  <2>1. /\ address \in Recipient!Addresses /\ paymentId \in Recipient!Ids
        /\ exchangeName \in Listed \cup {Empty}
        /\ {known, crossed} \subseteq BOOLEAN
    BY DEF Recipient!Init, Recipient!Addresses, Recipient!Ids
  <2>2. Recipient!Cardinality(payments) <= fieldActions
    BY <1>1, <1>2, SameCardinality
  <2> QED
    BY <1>1, <1>2, <1>3, <2>1, <2>2 DEF Recipient!TypeOK
<1> QED
  BY <1>1, <1>4
     DEF Recipient!Init, RecipientInv, ReachesItsRecipient,
         Recipient!KnownExchangesGetIds, Recipient!NamesTheRecipient,
         Recipient!IntegratedKeepsItsId

(***************************************************************************)
(* What RecipientInv says of the fields, as the steps change it.           *)
(***************************************************************************)
FieldsInv ==
  /\ address \in Recipient!Addresses
  /\ paymentId \in Recipient!Ids
  /\ exchangeName \in Listed \cup {Empty}
  /\ known \in BOOLEAN /\ crossed \in BOOLEAN
  /\ fieldActions \in 0 .. MaxFieldActions
  /\ questions \in [Recipient!Addresses -> 0 .. 2 * fieldActions]
  /\ known => exchangeName # Empty
  /\ Recipient!NamesTheRecipient

PaymentsInv ==
  /\ payments \subseteq Recipient!Payments
  /\ IsFiniteSet(payments) /\ Cardinality(payments) <= fieldActions
  /\ Recipient!KnownExchangesGetIds /\ Recipient!IntegratedKeepsItsId

LEMMA RecipientParts ==
  /\ RecipientInv => FieldsInv /\ PaymentsInv
  /\ FieldsInv' /\ PaymentsInv' => RecipientInv'
<1>1. RecipientInv => FieldsInv /\ PaymentsInv
  <2> SUFFICES ASSUME RecipientInv PROVE FieldsInv /\ PaymentsInv
    OBVIOUS
  <2>1. Recipient!TypeOK /\ ReachesItsRecipient /\ IsFiniteSet(payments)
        /\ (known => exchangeName # Empty)
    BY DEF RecipientInv
  <2>2. known \in BOOLEAN /\ crossed \in BOOLEAN
    BY <2>1 DEF Recipient!TypeOK
  <2>3. FieldsInv
    BY <2>1, <2>2 DEF FieldsInv, Recipient!TypeOK, ReachesItsRecipient
  <2>4. PaymentsInv
    BY <2>1, SameCardinality
       DEF PaymentsInv, Recipient!TypeOK, ReachesItsRecipient
  <2> QED
    BY <2>3, <2>4
<1>2. FieldsInv' /\ PaymentsInv' => RecipientInv'
  <2> SUFFICES ASSUME FieldsInv', PaymentsInv' PROVE RecipientInv'
    OBVIOUS
  <2>1. {known', crossed'} \subseteq BOOLEAN
    BY DEF FieldsInv
  <2>2. Recipient!TypeOK'
    BY <2>1, SameCardinality
       DEF FieldsInv, PaymentsInv, Recipient!TypeOK
  <2>3. ReachesItsRecipient'
    BY DEF FieldsInv, PaymentsInv, ReachesItsRecipient
  <2> QED
    BY <2>2, <2>3 DEF FieldsInv, PaymentsInv, RecipientInv
<1> QED
  BY <1>1, <1>2

LEMMA QuestionAsked ==
  ASSUME NEW S, NEW n \in Nat, NEW q \in [S -> 0 .. 2 * n], NEW a \in S
  PROVE  /\ [q EXCEPT ![a] = @ + 1] \in [S -> 0 .. 2 * (n + 1)]
         /\ q \in [S -> 0 .. 2 * (n + 1)]
<1>1. \A b \in S : q[b] \in Nat /\ q[b] <= 2 * n
  OBVIOUS
<1>2. \A b \in S : q[b] \in 0 .. 2 * (n + 1) /\ q[b] + 1 \in 0 .. 2 * (n + 1)
  BY <1>1
<1> QED
  BY <1>2

LEMMA QuestionAnswered ==
  ASSUME NEW S, NEW n \in Nat, NEW q \in [S -> 0 .. 2 * n], NEW a \in S,
         q[a] > 0
  PROVE  [q EXCEPT ![a] = @ - 1] \in [S -> 0 .. 2 * n]
<1>1. q[a] \in 0 .. 2 * n
  OBVIOUS
<1>2. q[a] - 1 \in 0 .. 2 * n
  BY <1>1
<1> QED
  BY <1>2

(***************************************************************************)
(* A new address forgets the exchange that was named and asks anew.        *)
(***************************************************************************)
LEMMA AddressSet ==
  ASSUME FieldsInv, NEW new \in Recipient!Addresses,
         Recipient!SetAddress(new) \/ Recipient!AddressChanged(new),
         Recipient!UserAction, paymentId' \in Recipient!Ids
  PROVE  /\ FieldsInv'
         /\ new # address => known' = FALSE
<1>1. /\ fieldActions \in Nat /\ fieldActions' = fieldActions + 1
      /\ fieldActions' \in 0 .. MaxFieldActions
  BY FieldsDistinct DEF FieldsInv, Recipient!UserAction
<1>2. questions' \in [Recipient!Addresses -> 0 .. 2 * fieldActions']
  <2>1. \/ questions' = questions
        \/ questions' = [questions EXCEPT ![new] = @ + 1]
    BY DEF Recipient!SetAddress, Recipient!AddressChanged
  <2> QED
    BY <1>1, <2>1, QuestionAsked DEF FieldsInv
<1>3. \/ UNCHANGED <<address, exchangeName, known, crossed>> /\ new = address
      \/ /\ address' = new /\ exchangeName' = Empty
         /\ known' = FALSE /\ crossed' = FALSE
  BY DEF Recipient!SetAddress, Recipient!AddressChanged
<1>4. CASE UNCHANGED <<address, exchangeName, known, crossed>>
  BY <1>1, <1>2, <1>3, <1>4 DEF FieldsInv, Recipient!NamesTheRecipient
<1>5. CASE /\ address' = new /\ exchangeName' = Empty
           /\ known' = FALSE /\ crossed' = FALSE
  BY <1>1, <1>2, <1>5 DEF FieldsInv, Recipient!NamesTheRecipient
<1>6. FieldsInv'
  BY <1>3, <1>4, <1>5
<1> QED
  BY <1>3, <1>6

LEMMA PaymentsKept ==
  ASSUME PaymentsInv, payments' = payments, fieldActions \in Nat,
         fieldActions' \in Nat, fieldActions' >= fieldActions
  PROVE  PaymentsInv'
<1>1. Cardinality(payments) \in Nat
  BY FS_CardinalityType DEF PaymentsInv
<1> QED
  BY <1>1 DEF PaymentsInv, Recipient!KnownExchangesGetIds,
              Recipient!IntegratedKeepsItsId

(***************************************************************************)
(* A payment that goes out has the id that its recipient needs.            *)
(***************************************************************************)
LEMMA PaymentMade ==
  ASSUME FieldsInv, PaymentsInv, FieldsInv', NEW to,
         Recipient!UserAction, Recipient!Pay(to),
         to \in Integrated => paymentId' = to
  PROVE  PaymentsInv'
<1>1. /\ fieldActions \in Nat /\ fieldActions' = fieldActions + 1
  BY FieldsDistinct DEF FieldsInv, Recipient!UserAction
<1>2. CASE payments' = payments
  BY <1>1, <1>2, PaymentsKept
<1>3. CASE payments' # payments
  <2> DEFINE payment == [to |-> to, id |-> paymentId', known |-> known']
  <2>1. /\ to \in Recipient!Payable
        /\ paymentId' = Empty => exchangeName' = Empty
        /\ payments' = payments \cup {payment}
    BY <1>3 DEF Recipient!Pay
  <2>2. payment \in Recipient!Payments
    BY <2>1 DEF FieldsInv, Recipient!Payments
  <2>3. /\ payment.to = to /\ payment.id = paymentId'
        /\ payment.known = known'
    OBVIOUS
  <2> HIDE DEF payment
  <2>4. /\ payments' \subseteq Recipient!Payments
        /\ IsFiniteSet(payments') /\ Cardinality(payments') <= fieldActions'
    <3>1. IsFiniteSet(payments) /\ Cardinality(payments) \in Nat
      BY FS_CardinalityType DEF PaymentsInv
    <3>2. /\ IsFiniteSet(payments \cup {payment})
          /\ \/ Cardinality(payments \cup {payment}) = Cardinality(payments)
             \/ Cardinality(payments \cup {payment})
                  = Cardinality(payments) + 1
      BY <3>1, FS_AddElement
    <3> QED
      BY <1>1, <2>1, <2>2, <3>1, <3>2 DEF PaymentsInv
  <2>5. payment.known => payment.id # Empty
    BY <2>1, <2>3 DEF FieldsInv
  <2>6. payment.to \in Integrated => payment.id = payment.to
    BY <2>3
  <2> QED
    BY <2>1, <2>4, <2>5, <2>6
       DEF PaymentsInv, Recipient!KnownExchangesGetIds,
           Recipient!IntegratedKeepsItsId
<1> QED
  BY <1>2, <1>3

LEMMA RecipientStep == RecipientInv /\ Recipient!Next => RecipientInv'
<1> SUFFICES ASSUME FieldsInv, PaymentsInv, Recipient!Next
             PROVE  FieldsInv' /\ PaymentsInv'
  BY RecipientParts
<1>1. fieldActions \in Nat
  BY DEF FieldsInv
<1>2. ASSUME NEW a \in Recipient!Addresses,
             Recipient!ExchangeFound(a) \/ Recipient!NothingFound(a)
      PROVE  FieldsInv' /\ PaymentsInv'
  <2>1. /\ UNCHANGED <<address, paymentId, payments, fieldActions>>
        /\ questions[a] > 0 /\ questions' = [questions EXCEPT ![a] = @ - 1]
        /\ \/ /\ a \in Listed /\ exchangeName' = a
              /\ known' = (known \/ a = address)
              /\ crossed' = (a # address)
           \/ UNCHANGED <<exchangeName, known, crossed>>
    BY <1>2 DEF Recipient!ExchangeFound, Recipient!NothingFound,
                Recipient!Asked, Recipient!fields, Recipient!history
  <2>2. questions' \in [Recipient!Addresses -> 0 .. 2 * fieldActions']
    BY <1>1, <2>1, QuestionAnswered DEF FieldsInv
  <2>3. PaymentsInv'
    BY <1>1, <2>1, PaymentsKept
  <2>4. FieldsInv'
    <3>1. CASE UNCHANGED <<exchangeName, known, crossed>>
      BY <2>1, <2>2, <3>1 DEF FieldsInv, Recipient!NamesTheRecipient
    <3>2. CASE /\ a \in Listed /\ exchangeName' = a
               /\ known' = (known \/ a = address)
               /\ crossed' = (a # address)
      <4>1. a # Empty
        BY <3>2, FieldsDistinct
      <4> QED
        BY <2>1, <2>2, <3>2, <4>1 DEF FieldsInv, Recipient!NamesTheRecipient
    <3> QED
      BY <2>1, <3>1, <3>2
  <2> QED
    BY <2>3, <2>4
<1>3. Recipient!UserAction => /\ fieldActions' \in Nat
                              /\ fieldActions' >= fieldActions
                              /\ fieldActions' \in 0 .. MaxFieldActions
                              /\ fieldActions' = fieldActions + 1
  BY <1>1, FieldsDistinct DEF Recipient!UserAction
<1>4. ASSUME NEW a \in Recipient!Addresses, Recipient!EnterAddress(a)
      PROVE  FieldsInv' /\ PaymentsInv'
  <2>1. /\ Recipient!UserAction /\ Recipient!AddressChanged(a)
        /\ UNCHANGED <<paymentId, payments>>
    BY <1>4 DEF Recipient!EnterAddress
  <2>2. paymentId' \in Recipient!Ids
    BY <2>1 DEF FieldsInv
  <2> QED
    BY <1>1, <1>3, <2>1, <2>2, AddressSet, PaymentsKept
<1>5. ASSUME NEW id \in {TypedId, Empty}, Recipient!EnterId(id)
      PROVE  FieldsInv' /\ PaymentsInv'
  <2>1. /\ Recipient!UserAction /\ paymentId' = id
        /\ UNCHANGED <<address, exchangeName, questions, known, crossed,
                       payments>>
    BY <1>5 DEF Recipient!EnterId, Recipient!history
  <2>2. questions' \in [Recipient!Addresses -> 0 .. 2 * fieldActions']
    <3>1. questions \in [Recipient!Addresses -> 0 .. 2 * fieldActions]
          /\ address \in Recipient!Addresses
      BY DEF FieldsInv
    <3> QED
      BY <1>1, <1>3, <2>1, <3>1, QuestionAsked
  <2>3. FieldsInv'
    BY <1>3, <2>1, <2>2
       DEF FieldsInv, Recipient!NamesTheRecipient, Recipient!Ids
  <2> QED
    BY <1>1, <1>3, <2>1, <2>3, PaymentsKept
<1>6. ASSUME NEW a \in Recipient!Payable \cup {Empty},
             NEW id \in {TypedId, Empty},
             Recipient!PayTo(a, id) \/ (Recipient!ClearAll /\ a = Empty
                                                          /\ id = Empty)
      PROVE  FieldsInv' /\ PaymentsInv'
  <2>1. /\ Recipient!UserAction
        /\ paymentId' = id /\ UNCHANGED payments
        /\ \E to \in {a, address} : Recipient!SetAddress(to)
    BY <1>6 DEF Recipient!PayTo, Recipient!ClearAll
  <2>2. PICK to \in {a, address} : Recipient!SetAddress(to)
    BY <2>1
  <2>3. to \in Recipient!Addresses /\ paymentId' \in Recipient!Ids
    BY <2>1, <2>2 DEF FieldsInv, Recipient!Addresses, Recipient!Ids
  <2> QED
    BY <1>1, <1>3, <2>1, <2>2, <2>3, AddressSet, PaymentsKept
<1>7. CASE Recipient!SendFunds
  <2>1. /\ Recipient!UserAction /\ Recipient!Pay(address)
        /\ paymentId' = Recipient!IdFor(address)
        /\ UNCHANGED <<address, exchangeName, questions, known, crossed>>
    BY <1>7 DEF Recipient!SendFunds
  <2>2. /\ paymentId' \in Recipient!Ids
        /\ address \in Integrated => paymentId' = address
    BY <2>1 DEF FieldsInv, Recipient!IdFor, Recipient!Ids
  <2>3. Recipient!SetAddress(address) /\ address \in Recipient!Addresses
    BY <2>1 DEF Recipient!SetAddress, FieldsInv
  <2>4. FieldsInv'
    BY <2>1, <2>2, <2>3, AddressSet
  <2> QED
    BY <2>1, <2>2, <2>4, PaymentMade
<1>8. ASSUME NEW target \in Plain \cup Listed \cup {address},
             Recipient!SendFundsToAlias(target)
      PROVE  FieldsInv' /\ PaymentsInv'
  <2>1. /\ Recipient!UserAction /\ Recipient!SetAddress(target)
        /\ Recipient!Pay(target) /\ address \in Aliases
        /\ UNCHANGED paymentId
    BY <1>8 DEF Recipient!SendFundsToAlias
  <2>2. target \in Recipient!Addresses /\ target \notin Integrated
    BY <2>1, KindsDisjoint
       DEF FieldsInv, Recipient!Addresses, Recipient!Payable
  <2>3. FieldsInv'
    BY <2>1, <2>2, AddressSet DEF FieldsInv
  <2> QED
    BY <2>1, <2>2, <2>3, PaymentMade
<1>9. Recipient!Payable \subseteq Recipient!Payable \cup {Empty}
  OBVIOUS
<1> QED
  BY <1>2, <1>4, <1>5, <1>6, <1>7, <1>8, <1>9
     DEF Recipient!Next, Recipient!Network, Recipient!User

LEMMA RecipientHolds == PagesSpec => []RecipientInv
<1>1. PagesInit => RecipientInv
  BY RecipientInit DEF PagesInit
<1>2. RecipientInv /\ [PagesNext]_pages => RecipientInv'
  <2>1. ASSUME RecipientInv, UNCHANGED recipient PROVE RecipientInv'
    BY <2>1 DEF recipient, RecipientInv, ReachesItsRecipient,
         Recipient!TypeOK, Recipient!KnownExchangesGetIds,
         Recipient!NamesTheRecipient, Recipient!IntegratedKeepsItsId
  <2> QED
    BY <2>1, RecipientStep
       DEF PagesNext, FillContacts, FillRecipient, FillAmount, FillMessage,
           pages
<1> QED
  BY <1>1, <1>2, PTL DEF PagesSpec

(***************************************************************************)
(* A payment without an id to an exchange is stopped once the answer about *)
(* its address has come; the exchange that is named is the recipient's,    *)
(* unless an older answer came last; and the id in an integrated address   *)
(* is the one that is paid with.  For every set of addresses of each kind, *)
(* and any number and order of answers.                                    *)
(***************************************************************************)
THEOREM PaymentsReachTheirRecipients == PagesSpec => []ReachesItsRecipient
<1>1. RecipientInv => ReachesItsRecipient
  BY DEF RecipientInv
<1> QED
  BY <1>1, RecipientHolds, PTL
-----------------------------------------------------------------------------
(***************************************************************************)
(* The address book: sequences of events and of contacts                   *)
(***************************************************************************)
Posted(q, type) == \E k \in DOMAIN q : q[k] = type

(* Every report that a wallet is loaded is followed by one that it was     *)
(* closed.                                                                 *)
ClosedAfterLoads(q) ==
  \A k \in DOMAIN q :
    q[k] = "initCompleted" => \E j \in DOMAIN q : j > k /\ q[j] = "closed"

FailsLast(q) == \A k \in DOMAIN q : q[k] = "initFailed" => k = Len(q)

LEMMA EventPosted ==
  ASSUME NEW q \in Seq(Events), NEW event \in Events
  PROVE  /\ Append(q, event) \in Seq(Events)
         /\ Len(q) \in Nat /\ Len(Append(q, event)) = Len(q) + 1
         /\ Append(q, event) # <<>>
         /\ Append(q, event)[Len(Append(q, event))] = event
         /\ \A type : Posted(Append(q, event), type) <=>
                        Posted(q, type) \/ type = event
         /\ event = "closed" => ClosedAfterLoads(Append(q, event))
         /\ ClosedAfterLoads(q) /\ event # "initCompleted" =>
              ClosedAfterLoads(Append(q, event))
         /\ ~Posted(q, "initFailed") => FailsLast(Append(q, event))
<1> DEFINE r == Append(q, event)
<1>1. /\ r \in Seq(Events) /\ r # <<>>
      /\ Len(q) \in Nat /\ Len(r) = Len(q) + 1
      /\ DOMAIN q = 1 .. Len(q) /\ DOMAIN r = 1 .. Len(q) + 1
      /\ r[Len(q) + 1] = event
      /\ \A k \in 1 .. Len(q) : r[k] = q[k]
  <2>1. /\ r \in Seq(Events)
        /\ Len(q) \in Nat /\ Len(r) = Len(q) + 1
        /\ DOMAIN q = 1 .. Len(q) /\ DOMAIN r = 1 .. Len(q) + 1
    OBVIOUS
  <2>2. /\ r[Len(q) + 1] = event
        /\ \A k \in 1 .. Len(q) : r[k] = q[k]
    OBVIOUS
  <2>3. r # <<>>
    BY <2>1
  <2> QED
    BY <2>1, <2>2, <2>3
<1> HIDE DEF r
<1>2. ASSUME NEW type
      PROVE  Posted(r, type) <=> Posted(q, type) \/ type = event
  <2>1. ASSUME Posted(r, type) PROVE Posted(q, type) \/ type = event
    <3>1. PICK k \in DOMAIN r : r[k] = type
      BY <2>1 DEF Posted
    <3>2. k \in 1 .. Len(q) \/ k = Len(q) + 1
      BY <1>1
    <3> QED
      BY <1>1, <3>1, <3>2 DEF Posted
  <2>2. ASSUME Posted(q, type) PROVE Posted(r, type)
    <3>1. PICK k \in DOMAIN q : q[k] = type
      BY <2>2 DEF Posted
    <3>2. k \in DOMAIN r /\ r[k] = type
      BY <1>1, <3>1
    <3> QED
      BY <3>2 DEF Posted
  <2>3. Posted(r, event)
    <3>1. Len(q) + 1 \in DOMAIN r
      BY <1>1
    <3> QED
      BY <1>1, <3>1 DEF Posted
  <2> QED
    BY <2>1, <2>2, <2>3
<1>3. ASSUME \/ event = "closed"
             \/ ClosedAfterLoads(q) /\ event # "initCompleted"
      PROVE  ClosedAfterLoads(r)
  <2>1. SUFFICES ASSUME NEW k \in DOMAIN r, r[k] = "initCompleted"
                 PROVE  \E j \in DOMAIN r : j > k /\ r[j] = "closed"
    BY DEF ClosedAfterLoads
  <2>2. k \in 1 .. Len(q) /\ k \in DOMAIN q /\ q[k] = "initCompleted"
    BY <1>1, <1>3, <2>1
  <2>3. CASE event = "closed"
    <3>1. Len(q) + 1 \in DOMAIN r /\ Len(q) + 1 > k
      BY <1>1, <2>2
    <3> QED
      BY <1>1, <2>3, <3>1
  <2>4. CASE ClosedAfterLoads(q) /\ event # "initCompleted"
    <3>1. PICK j \in DOMAIN q : j > k /\ q[j] = "closed"
      BY <2>2, <2>4 DEF ClosedAfterLoads
    <3>2. j \in DOMAIN r /\ r[j] = "closed"
      BY <1>1, <3>1
    <3> QED
      BY <3>1, <3>2
  <2> QED
    BY <1>3, <2>3, <2>4
<1>4. ASSUME ~Posted(q, "initFailed") PROVE FailsLast(r)
  BY <1>1, <1>4 DEF FailsLast, Posted
<1>5. r[Len(r)] = event
  BY <1>1
<1> QED
  BY <1>1, <1>2, <1>3, <1>4, <1>5 DEF r

LEMMA EventTaken ==
  ASSUME NEW q \in Seq(Events), q # <<>>
  PROVE  /\ Head(q) \in Events /\ Tail(q) \in Seq(Events)
         /\ Len(q) \in Nat /\ Len(Tail(q)) = Len(q) - 1
         /\ \A type : Posted(q, type) <=>
                        Posted(Tail(q), type) \/ type = Head(q)
         /\ ClosedAfterLoads(q) => ClosedAfterLoads(Tail(q))
         /\ ClosedAfterLoads(q) /\ Head(q) = "initCompleted" =>
              Posted(Tail(q), "closed")
         /\ FailsLast(q) => FailsLast(Tail(q))
         /\ FailsLast(q) /\ Head(q) = "initFailed" => Tail(q) = <<>>
         /\ Tail(q) # <<>> => Tail(q)[Len(Tail(q))] = q[Len(q)]
         /\ Tail(q) = <<>> => q[Len(q)] = Head(q)
<1> DEFINE r == Tail(q)
<1>1. /\ Head(q) \in Events /\ Head(q) = q[1]
      /\ r \in Seq(Events) /\ Len(q) \in Nat \ {0} /\ Len(r) = Len(q) - 1
      /\ DOMAIN q = 1 .. Len(q) /\ DOMAIN r = 1 .. Len(q) - 1
      /\ \A k \in 1 .. Len(q) - 1 : r[k] = q[k + 1]
      /\ r = <<>> <=> Len(q) = 1
  <2>1. /\ Head(q) \in Events /\ Head(q) = q[1]
        /\ r \in Seq(Events) /\ Len(q) \in Nat \ {0} /\ Len(r) = Len(q) - 1
        /\ DOMAIN q = 1 .. Len(q) /\ DOMAIN r = 1 .. Len(q) - 1
    OBVIOUS
  <2>2. \A k \in 1 .. Len(q) - 1 : r[k] = q[k + 1]
    OBVIOUS
  <2> HIDE DEF r
  <2>3. r = <<>> <=> Len(r) = 0
    BY <2>1
  <2> QED
    BY <2>1, <2>2, <2>3
<1> HIDE DEF r
<1>2. ASSUME NEW j \in DOMAIN q, j # 1
      PROVE  j - 1 \in DOMAIN r /\ r[j - 1] = q[j]
  <2>1. j - 1 \in 1 .. Len(q) - 1 /\ (j - 1) + 1 = j
    BY <1>1, <1>2
  <2> QED
    BY <1>1, <2>1
<1>3. ASSUME NEW type
      PROVE  Posted(q, type) <=> Posted(r, type) \/ type = Head(q)
  <2>1. ASSUME Posted(q, type) PROVE Posted(r, type) \/ type = Head(q)
    BY <1>1, <1>2, <2>1 DEF Posted
  <2>2. ASSUME Posted(r, type) PROVE Posted(q, type)
    <3>1. PICK k \in DOMAIN r : r[k] = type
      BY <2>2 DEF Posted
    <3>2. k + 1 \in DOMAIN q /\ q[k + 1] = type
      BY <1>1, <3>1
    <3> QED
      BY <3>2 DEF Posted
  <2>3. Posted(q, Head(q))
    <3>1. 1 \in DOMAIN q
      BY <1>1
    <3> QED
      BY <1>1, <3>1 DEF Posted
  <2> QED
    BY <2>1, <2>2, <2>3
<1>4. ASSUME ClosedAfterLoads(q) PROVE ClosedAfterLoads(r)
  <2>1. SUFFICES ASSUME NEW k \in DOMAIN r, r[k] = "initCompleted"
                 PROVE  \E j \in DOMAIN r : j > k /\ r[j] = "closed"
    BY DEF ClosedAfterLoads
  <2>2. k + 1 \in DOMAIN q /\ q[k + 1] = "initCompleted" /\ k \in Nat
    BY <1>1, <2>1
  <2>3. PICK j \in DOMAIN q : j > k + 1 /\ q[j] = "closed"
    BY <1>4, <2>2 DEF ClosedAfterLoads
  <2>4. j # 1 /\ j - 1 > k
    BY <1>1, <2>2, <2>3
  <2> QED
    BY <1>2, <2>3, <2>4
<1>5. ASSUME ClosedAfterLoads(q), Head(q) = "initCompleted"
      PROVE  Posted(r, "closed")
  <2>1. 1 \in DOMAIN q /\ q[1] = "initCompleted"
    BY <1>1, <1>5
  <2>2. PICK j \in DOMAIN q : j > 1 /\ q[j] = "closed"
    BY <1>5, <2>1 DEF ClosedAfterLoads
  <2> QED
    BY <1>1, <1>2, <2>2 DEF Posted
<1>6. ASSUME FailsLast(q) PROVE FailsLast(r)
  <2>1. SUFFICES ASSUME NEW k \in DOMAIN r, r[k] = "initFailed"
                 PROVE  k = Len(r)
    BY DEF FailsLast
  <2>2. k + 1 \in DOMAIN q /\ q[k + 1] = "initFailed" /\ k \in Nat
    BY <1>1, <2>1
  <2>3. k + 1 = Len(q)
    BY <1>6, <2>2 DEF FailsLast
  <2> QED
    BY <1>1, <2>2, <2>3
<1>7. ASSUME FailsLast(q), Head(q) = "initFailed" PROVE r = <<>>
  <2>1. 1 \in DOMAIN q /\ q[1] = "initFailed"
    BY <1>1, <1>7
  <2> QED
    BY <1>1, <1>7, <2>1 DEF FailsLast
<1>8. /\ r # <<>> => r[Len(r)] = q[Len(q)]
      /\ r = <<>> => q[Len(q)] = Head(q)
  <2>1. CASE Len(q) = 1
    BY <1>1, <2>1
  <2>2. CASE Len(q) # 1
    <3>1. Len(q) \in DOMAIN q
      BY <1>1
    <3> QED
      BY <1>1, <1>2, <2>2, <3>1
  <2> QED
    BY <2>1, <2>2
<1> QED
  BY <1>1, <1>3, <1>4, <1>5, <1>6, <1>7, <1>8 DEF r

(***************************************************************************)
(* The contacts after one is added, or the one of a row is removed.        *)
(***************************************************************************)
LEMMA ContactAdded ==
  ASSUME NEW contacts \in Books, NEW contact \in Contacts
  PROVE  /\ Append(contacts, contact) \in Books
         /\ Len(contacts) \in Nat
         /\ DOMAIN contacts = 1 .. Len(contacts)
         /\ Len(Append(contacts, contact)) = Len(contacts) + 1
         /\ \A k \in 1 .. Len(contacts) :
              Append(contacts, contact)[k] = contacts[k]
         /\ Entries(Append(contacts, contact)) =
              Entries(contacts) \cup {contact}
<1> DEFINE r == Append(contacts, contact)
<1>1. /\ r \in Books /\ Len(contacts) \in Nat /\ Len(r) = Len(contacts) + 1
      /\ DOMAIN contacts = 1 .. Len(contacts)
      /\ DOMAIN r = 1 .. Len(contacts) + 1
      /\ r[Len(contacts) + 1] = contact
      /\ \A k \in 1 .. Len(contacts) : r[k] = contacts[k]
  BY DEF Books
<1> HIDE DEF r
<1>2. ASSUME NEW e \in Entries(r) PROVE e \in Entries(contacts) \cup {contact}
  <2>1. PICK k \in DOMAIN r : e = r[k]
    BY DEF Entries
  <2>2. k \in 1 .. Len(contacts) \/ k = Len(contacts) + 1
    BY <1>1
  <2> QED
    BY <1>1, <2>1, <2>2 DEF Entries
<1>3. ASSUME NEW e \in Entries(contacts) PROVE e \in Entries(r)
  <2>1. PICK k \in DOMAIN contacts : e = contacts[k]
    BY DEF Entries
  <2>2. k \in DOMAIN r /\ e = r[k]
    BY <1>1, <2>1
  <2> QED
    BY <2>2 DEF Entries
<1>4. contact \in Entries(r)
  <2>1. Len(contacts) + 1 \in DOMAIN r
    BY <1>1
  <2> QED
    BY <1>1, <2>1 DEF Entries
<1> QED
  BY <1>1, <1>2, <1>3, <1>4 DEF r

LEMMA ContactRemoved ==
  ASSUME NEW contacts \in Books, NEW row \in DOMAIN contacts
  PROVE  /\ Without(contacts, row) \in Books
         /\ Len(contacts) \in Nat
         /\ DOMAIN contacts = 1 .. Len(contacts)
         /\ Len(Without(contacts, row)) = Len(contacts) - 1
         /\ Entries(Without(contacts, row)) \subseteq Entries(contacts)
         /\ \A contact \in Entries(contacts) :
              \/ contact \in Entries(Without(contacts, row))
              \/ contact = contacts[row]
<1> DEFINE front == SubSeq(contacts, 1, row - 1)
           back  == SubSeq(contacts, row + 1, Len(contacts))
           r     == Without(contacts, row)
<1>1. /\ contacts \in Seq(Contacts) /\ Len(contacts) \in Nat
      /\ DOMAIN contacts = 1 .. Len(contacts) /\ row \in 1 .. Len(contacts)
  BY DEF Books
<1>2. /\ front \in Seq(Contacts) /\ Len(front) = row - 1
      /\ \A k \in 1 .. row - 1 : front[k] = contacts[k]
  BY <1>1
<1>3. /\ back \in Seq(Contacts) /\ Len(back) = Len(contacts) - row
      /\ \A k \in 1 .. Len(contacts) - row : back[k] = contacts[k + row]
  BY <1>1
<1>4. r = front \o back
  BY DEF Without
<1> HIDE DEF front, back, r
<1>5. /\ r \in Seq(Contacts) /\ Len(r) = Len(contacts) - 1
      /\ DOMAIN r = 1 .. Len(contacts) - 1
      /\ \A k \in 1 .. row - 1 : r[k] = contacts[k]
      /\ \A k \in row .. Len(contacts) - 1 : r[k] = back[k - (row - 1)]
  <2>1. /\ r \in Seq(Contacts) /\ Len(r) = Len(contacts) - 1
        /\ \A k \in 1 .. Len(contacts) - 1 :
             r[k] = IF k < row THEN front[k] ELSE back[k - (row - 1)]
    <3>1. /\ front \o back \in Seq(Contacts)
          /\ Len(front \o back) = Len(contacts) - 1
          /\ \A k \in 1 .. Len(contacts) - 1 :
               (front \o back)[k] =
                 IF k < row THEN front[k] ELSE back[k - (row - 1)]
      <4>1. /\ front \o back \in Seq(Contacts)
            /\ Len(front \o back) = Len(contacts) - 1
        <5>1. front \o back \in Seq(Contacts)
          BY <1>2, <1>3
        <5>2. Len(front \o back) = Len(front) + Len(back)
          BY <1>2, <1>3
        <5>3. row \in Nat
          BY <1>1
        <5> QED
          BY <1>1, <1>2, <1>3, <5>1, <5>2, <5>3
      <4>2. ASSUME NEW k \in 1 .. Len(contacts) - 1
            PROVE  (front \o back)[k] =
                     IF k <= row - 1 THEN front[k] ELSE back[k - (row - 1)]
        BY <1>1, <1>2, <1>3
      <4>3. \A k \in 1 .. Len(contacts) - 1 : k <= row - 1 <=> k < row
        BY <1>1
      <4> QED
        BY <4>1, <4>2, <4>3
    <3> QED
      BY <1>4, <3>1
  <2>2. DOMAIN r = 1 .. Len(contacts) - 1
    BY <1>1, <2>1
  <2>3. ASSUME NEW k \in 1 .. row - 1 PROVE r[k] = contacts[k]
    <3>1. k \in 1 .. Len(contacts) - 1 /\ k < row
      BY <1>1
    <3> QED
      BY <1>2, <2>1, <3>1
  <2>4. ASSUME NEW k \in row .. Len(contacts) - 1
        PROVE  r[k] = back[k - (row - 1)]
    <3>1. k \in 1 .. Len(contacts) - 1 /\ ~(k < row)
      BY <1>1
    <3> QED
      BY <2>1, <3>1
  <2> QED
    BY <2>1, <2>2, <2>3, <2>4
<1>6. \A k \in row .. Len(contacts) - 1 : r[k] = contacts[k + 1]
  <2>1. ASSUME NEW k \in row .. Len(contacts) - 1
        PROVE  /\ k - (row - 1) \in 1 .. Len(contacts) - row
               /\ (k - (row - 1)) + row = k + 1
    BY <1>1
  <2> QED
    BY <1>3, <1>5, <2>1
<1>7. Entries(r) \subseteq Entries(contacts)
  <2>1. ASSUME NEW k \in DOMAIN r PROVE r[k] \in Entries(contacts)
    <3>1. CASE k < row
      <4>1. k \in DOMAIN contacts /\ r[k] = contacts[k]
        BY <1>1, <1>5, <3>1
      <4> QED
        BY <4>1 DEF Entries
    <3>2. CASE ~(k < row)
      <4>1. k + 1 \in DOMAIN contacts /\ r[k] = contacts[k + 1]
        BY <1>1, <1>5, <1>6, <3>2
      <4> QED
        BY <4>1 DEF Entries
    <3> QED
      BY <3>1, <3>2
  <2> QED
    BY <2>1 DEF Entries
<1>8. ASSUME NEW contact \in Entries(contacts), contact # contacts[row]
      PROVE  contact \in Entries(r)
  <2>1. PICK k \in DOMAIN contacts : contact = contacts[k]
    BY DEF Entries
  <2>2. CASE k < row
    <3>1. k \in DOMAIN r /\ r[k] = contact
      BY <1>1, <1>5, <2>1, <2>2
    <3> QED
      BY <3>1 DEF Entries
  <2>3. CASE ~(k < row)
    <3>1. k - 1 \in row .. Len(contacts) - 1 /\ (k - 1) + 1 = k
      BY <1>1, <1>8, <2>1, <2>3
    <3>2. k - 1 \in DOMAIN r /\ r[k - 1] = contact
      BY <1>1, <1>5, <1>6, <2>1, <3>1
    <3> QED
      BY <3>2 DEF Entries
  <2> QED
    BY <2>2, <2>3
<1> QED
  BY <1>1, <1>5, <1>7, <1>8 DEF r, Books
-----------------------------------------------------------------------------
(***************************************************************************)
(* The address book: the inductive invariant.  A book that is loaded is    *)
(* that of the open wallet; one that is not is empty, or will be cleared.  *)
(* An open wallet whose book is not loaded has its report in the queue;    *)
(* and the report of a wallet that is gone is followed by the event of its *)
(* closing, so that what it loads does not stay.                           *)
(***************************************************************************)
QueueInv ==
  /\ open /\ ~loaded => queue # <<>> /\ queue[Len(queue)] # "closed"
  /\ FailsLast(queue)
  /\ ~open \/ Posted(queue, "initFailed") => ClosedAfterLoads(queue)

LoadedInv ==
  /\ loaded => /\ open
               /\ ~Posted(queue, "closed") /\ ~Posted(queue, "initFailed")
               /\ ~early => book = Saved(named)
  /\ ~loaded /\ ~Posted(queue, "closed") /\ ~early => book = <<>>

FlagsOK ==
  /\ open \in BOOLEAN /\ loaded \in BOOLEAN /\ shown \in BOOLEAN
  /\ buttons \in BOOLEAN /\ again \in BOOLEAN /\ early \in BOOLEAN

BookInv ==
  /\ TypeOK
  /\ QueueInv
  /\ LoadedInv
  /\ NoForeignContacts
  /\ ActsOnSelected

LEMMA BoundsTyped ==
  /\ MaxContacts \in Nat /\ MaxUserActions \in Nat
  /\ \A contacts \in Books : contacts # NoFile
  /\ <<>> \in Books
<1>1. MaxContacts \in Nat /\ MaxUserActions \in Nat
  BY BookAssumption
<1>2. ASSUME NEW contacts \in Books PROVE contacts # NoFile
  <2>1. contacts \in Seq(Contacts)
    BY DEF Books
  <2>2. \A contact \in Contacts : contact \in [id : Nat, of : Wallets]
    BY <1>1 DEF Contacts
  <2> DEFINE S == [id : Nat, of : Wallets]
  <2>3. contacts \in Seq(S)
    <3>1. \A contact \in Contacts : contact \in S
      BY <2>2
    <3> HIDE DEF S
    <3>2. contacts \in [1 .. Len(contacts) -> Contacts]
          /\ Len(contacts) \in Nat
      BY <2>1
    <3>3. contacts \in [1 .. Len(contacts) -> S]
      BY <3>1, <3>2
    <3> QED
      BY <3>2, <3>3, SMT
  <2> QED
    BY <2>3, BookAssumption
<1>3. <<>> \in Books
  BY DEF Books
<1> QED
  BY <1>1, <1>2, <1>3

LEMMA FlagsTyped ==
  /\ TypeOK => FlagsOK
  /\ FlagsOK' => {open', loaded', shown', buttons', again', early'}
                   \subseteq BOOLEAN
BY DEF TypeOK, FlagsOK

LEMMA SavedTyped ==
  ASSUME TypeOK, NEW w \in Wallets
  PROVE  Saved(w) \in Books
BY BoundsTyped DEF TypeOK, Saved

LEMMA NewContactTyped ==
  ASSUME TypeOK, added < MaxContacts
  PROVE  /\ Contact(added + 1, named) \in Contacts
         /\ Contact(added + 1, named).of = named
         /\ added + 1 \in 0 .. MaxContacts
BY BoundsTyped DEF TypeOK, Contact, Contacts

LEMMA BookInit == Init => BookInv
<1> SUFFICES ASSUME Init PROVE BookInv
  OBVIOUS
<1>1. PICK old \in SUBSET Wallets :
        files = [w \in Wallets |->
                   IF w \in old THEN <<Contact(0, w)>> ELSE NoFile]
  BY DEF Init
<1>2. ASSUME NEW w \in Wallets
      PROVE  /\ files[w] = IF w \in old THEN <<Contact(0, w)>> ELSE NoFile
             /\ <<Contact(0, w)>> \in Books
             /\ \A contact \in Entries(Saved(w)) : contact.of = w
  <2>1. files[w] = IF w \in old THEN <<Contact(0, w)>> ELSE NoFile
    BY <1>1
  <2>2. Contact(0, w) \in Contacts /\ Contact(0, w).of = w
    BY BoundsTyped DEF Contact, Contacts
  <2> DEFINE contact == Contact(0, w)
  <2> HIDE DEF contact
  <2>3. <<contact>> \in Seq(Contacts)
    BY <2>2 DEF contact
  <2>4. Entries(<<contact>>) = {contact}
    BY DEF Entries
  <2>5. Entries(<<>>) = {}
    BY DEF Entries
  <2>6. \A c \in Entries(Saved(w)) : c.of = w
    <3>1. Saved(w) = <<contact>> \/ Saved(w) = <<>>
      BY <2>1 DEF Saved, contact
    <3> QED
      BY <2>2, <2>4, <2>5, <3>1 DEF contact
  <2> QED
    BY <2>1, <2>3, <2>6 DEF Books, contact
<1>3. files \in [Wallets -> Books \cup {NoFile}]
  <2>1. \A w \in Wallets : files[w] \in Books \cup {NoFile}
    BY <1>2
  <2> QED
    BY <1>1, <2>1
<1>4. FlagsOK
  BY DEF Init, FlagsOK
<1>5. Len(queue) <= 2 * userActions /\ queue \in Seq(Events)
  BY DEF Init
<1>6. TypeOK
  BY <1>3, <1>4, <1>5, BoundsTyped DEF Init, TypeOK, FlagsOK
<1>7. QueueInv /\ LoadedInv
  BY DEF Init, QueueInv, LoadedInv, FailsLast, ClosedAfterLoads
<1>8. NoForeignContacts /\ ActsOnSelected
  BY <1>2 DEF Init, NoForeignContacts, ActsOnSelected
<1> QED
  BY <1>6, <1>7, <1>8 DEF BookInv

(***************************************************************************)
(* A step that changes no more than the view and what the user waits for.  *)
(***************************************************************************)
LEMMA BookUntouched ==
  ASSUME BookInv, TypeOK', ActsOnSelected',
         UNCHANGED <<open, named, files, book, early, loaded>>,
         QueueInv', \A type : Posted(queue', type) =>
                      Posted(queue, type) \/ type = "initCompleted",
         \A type : Posted(queue, type) => Posted(queue', type)
  PROVE  BookInv'
<1>1. NoForeignContacts'
  BY DEF BookInv, NoForeignContacts, Saved
<1>2. LoadedInv'
  BY DEF BookInv, LoadedInv, Saved
<1> QED
  BY <1>1, <1>2 DEF BookInv

(***************************************************************************)
(* A change of the book is saved, and the saved book is that of the open   *)
(* wallet or the save was early.                                           *)
(***************************************************************************)
LEMMA SavedTypes ==
  ASSUME TypeOK, book' \in Books, Save
  PROVE  /\ files' \in [Wallets -> Books \cup {NoFile}]
         /\ early' \in BOOLEAN
         /\ files'[named] = book'
         /\ \A w \in Wallets : w # named => files'[w] = files[w]
BY FlagsTyped DEF TypeOK, Save, FlagsOK

LEMMA BookSaved ==
  ASSUME BookInv, TypeOK', ActsOnSelected', Save, book' \in Books,
         UNCHANGED <<open, named, queue, loaded>>,
         \A contact \in Entries(book') :
           contact \in Entries(book) \/ contact.of = named
  PROVE  BookInv'
<1>1. /\ files'[named] = book' /\ named \in Wallets
      /\ \A w \in Wallets : w # named => files'[w] = files[w]
      /\ early' = (early \/ ~loaded)
  BY SavedTypes DEF BookInv, TypeOK, Save
<1>2. /\ Saved(named)' = book'
      /\ \A w \in Wallets : w # named => Saved(w)' = Saved(w)
  BY <1>1, BoundsTyped DEF Saved
<1>3. QueueInv'
  BY DEF BookInv, QueueInv
<1>4. LoadedInv'
  BY <1>1, <1>2 DEF BookInv, LoadedInv
<1>5. NoForeignContacts'
  <2>1. SUFFICES ASSUME ~early', NEW w \in Wallets,
                        NEW contact \in Entries(Saved(w)')
                 PROVE  contact.of = w
    BY DEF NoForeignContacts
  <2>2. ~early /\ book = Saved(named)
    BY <1>1, <2>1 DEF BookInv, LoadedInv
  <2>3. CASE w = named
    BY <1>1, <1>2, <2>1, <2>2, <2>3 DEF BookInv, NoForeignContacts
  <2>4. CASE w # named
    BY <1>2, <2>1, <2>2, <2>4 DEF BookInv, NoForeignContacts
  <2> QED
    BY <2>3, <2>4
<1> QED
  BY <1>3, <1>4, <1>5 DEF BookInv

(***************************************************************************)
(* What the user's asking leaves, and what the bounds then are.            *)
(***************************************************************************)
LEMMA Asked ==
  ASSUME TypeOK, UserAction
  PROVE  /\ userActions' \in 0 .. MaxUserActions
         /\ userActions' = userActions + 1
         /\ Len(queue) \in Nat /\ Len(queue) + 2 <= 2 * userActions'
         /\ sending \in 0 .. userActions'
         /\ sending + 1 \in 0 .. userActions'
         /\ ~Posted(queue, "initFailed")
<1>1. /\ userActions' \in 0 .. MaxUserActions
      /\ userActions' = userActions + 1
      /\ userActions \in Nat
  BY BoundsTyped DEF TypeOK, UserAction
<1>2. Len(queue) \in Nat /\ Len(queue) <= 2 * userActions
  BY DEF TypeOK
<1>3. sending \in 0 .. userActions
  BY DEF TypeOK
<1>4. ~Posted(queue, "initFailed")
  BY DEF UserAction, Posted
<1> QED
  BY <1>1, <1>2, <1>3, <1>4

(***************************************************************************)
(* The row of the view after a contact is added, and after one is removed. *)
(***************************************************************************)
LEMMA AddKeepsRow ==
  ASSUME TypeOK, ActsOnSelected, Add, UNCHANGED <<selected, again>>
  PROVE  /\ book' \in Books /\ current' \in Nat /\ added' \in 0 .. MaxContacts
         /\ ActsOnSelected'
         /\ Entries(book') = Entries(book) \cup {Contact(added + 1, named)}
         /\ Contact(added + 1, named).of = named
<1> DEFINE contact == Contact(added + 1, named)
<1>1. /\ contact \in Contacts /\ contact.of = named
      /\ added + 1 \in 0 .. MaxContacts
  BY NewContactTyped DEF Add
<1>2. book \in Books /\ current \in Nat
  BY DEF TypeOK
<1>3. book' = Append(book, contact) /\ added' = added + 1
  BY DEF Add
<1>4. current' = IF current >= Len(book) + 1 THEN current + 1 ELSE current
  BY DEF Add, Moved
<1> HIDE DEF contact
<1>5. /\ book' \in Books /\ Len(book) \in Nat /\ Len(book') = Len(book) + 1
      /\ \A k \in 1 .. Len(book) : book'[k] = book[k]
      /\ Entries(book') = Entries(book) \cup {contact}
  BY <1>1, <1>2, <1>3, ContactAdded
<1>6. ActsOnSelected'
  <2>1. SUFFICES ASSUME current' # 0
                 PROVE  IF again THEN current' > Len(book')
                        ELSE /\ current' <= Len(book')
                             /\ book'[current'] = selected
    BY DEF ActsOnSelected
  <2>2. current # 0
    BY <1>2, <1>4, <1>5, <2>1
  <2>3. CASE again
    <3>1. current > Len(book)
      BY <2>2, <2>3 DEF ActsOnSelected
    <3> QED
      BY <1>2, <1>4, <1>5, <2>3, <3>1
  <2>4. CASE ~again
    <3>1. current <= Len(book) /\ book[current] = selected
      BY <2>2, <2>4 DEF ActsOnSelected
    <3>2. current \in 1 .. Len(book) /\ current' = current
      BY <1>2, <1>4, <1>5, <2>2, <3>1
    <3> QED
      BY <1>5, <2>4, <3>1, <3>2
  <2> QED
    BY <2>3, <2>4
<1>7. current' \in Nat
  BY <1>2, <1>4
<1> QED
  BY <1>1, <1>3, <1>5, <1>6, <1>7 DEF contact

LEMMA RowRemoved ==
  ASSUME NEW contacts \in Books, NEW row \in Nat, RemoveRow(row, contacts),
         selected \in Contacts \cup {NoContact}
  PROVE  /\ book' \in Books /\ current' \in Nat /\ buttons' \in BOOLEAN
         /\ selected' \in Contacts \cup {NoContact}
         /\ Entries(book') \subseteq Entries(contacts)
         /\ row \in DOMAIN contacts =>
              /\ current' # 0 => /\ current' <= Len(book')
                                 /\ book'[current'] = selected'
              /\ \A contact \in Entries(contacts) :
                   contact \in Entries(book') \/ contact = contacts[row]
         /\ row \notin DOMAIN contacts =>
              book' = contacts /\ current' = row /\ selected' = selected
<1>1. CASE row \in DOMAIN contacts
  <2> DEFINE next == Successor(row, contacts)
  <2>1. /\ book' = Without(contacts, row) /\ current' = next
        /\ selected' = IF next = 0 THEN NoContact ELSE book'[next]
        /\ buttons' = (next # 0)
    BY <1>1 DEF RemoveRow
  <2>2. /\ book' \in Books /\ Len(book') = Len(contacts) - 1
        /\ Len(contacts) \in Nat /\ row \in 1 .. Len(contacts)
        /\ Entries(book') \subseteq Entries(contacts)
        /\ \A contact \in Entries(contacts) :
             contact \in Entries(book') \/ contact = contacts[row]
    BY <1>1, <2>1, ContactRemoved
  <2>3. next \in 0 .. Len(book')
    BY <2>2 DEF Successor
  <2> HIDE DEF next
  <2>4. next # 0 => book'[next] \in Contacts
    <3>1. book' \in Seq(Contacts)
      BY <2>2 DEF Books
    <3>2. next # 0 => next \in DOMAIN book'
      BY <2>3, <3>1
    <3> QED
      BY <3>1, <3>2
  <2>5. selected' \in Contacts \cup {NoContact}
    BY <2>1, <2>4
  <2>6. current' # 0 => current' <= Len(book') /\ book'[current'] = selected'
    BY <2>1, <2>2, <2>3
  <2>7. current' \in Nat /\ buttons' \in BOOLEAN
    BY <2>1, <2>2, <2>3
  <2> QED
    BY <1>1, <2>2, <2>5, <2>6, <2>7
<1>2. CASE row \notin DOMAIN contacts
  BY <1>2 DEF RemoveRow
<1> QED
  BY <1>1, <1>2

(***************************************************************************)
(* The queue of an open that closes the wallet before.                     *)
(***************************************************************************)
LEMMA QueueClosed ==
  ASSUME TypeOK, QueueInv, UserAction
  PROVE  /\ queue \o Closing \in Seq(Events)
         /\ Len(queue \o Closing) \in Nat
         /\ Len(queue \o Closing) + 1 <= 2 * userActions'
         /\ ClosedAfterLoads(queue \o Closing)
         /\ ~Posted(queue \o Closing, "initFailed")
         /\ ~Posted(queue \o Closing, "closed") =>
              ~open /\ ~Posted(queue, "closed")
<1>1. /\ Len(queue) \in Nat /\ Len(queue) + 2 <= 2 * userActions'
      /\ userActions' \in Nat /\ ~Posted(queue, "initFailed")
      /\ queue \in Seq(Events) /\ "closed" \in Events
  BY Asked, BoundsTyped DEF TypeOK, Events
<1>2. CASE open
  <2>1. queue \o Closing = Append(queue, "closed")
    BY <1>1, <1>2 DEF Closing
  <2> QED
    BY <1>1, <2>1, EventPosted
<1>3. CASE ~open
  <2>1. queue \o Closing = queue
    BY <1>1, <1>3 DEF Closing
  <2>2. ClosedAfterLoads(queue)
    BY <1>3 DEF QueueInv
  <2> QED
    BY <1>1, <1>3, <2>1, <2>2
<1> QED
  BY <1>2, <1>3

(***************************************************************************)
(* The steps of the user.                                                  *)
(***************************************************************************)
LEMMA OpenKeeps ==
  ASSUME BookInv, NEW file \in Wallets,
         NEW outcome \in {"initCompleted", "initFailed", "refused"},
         Open(file, outcome)
  PROVE  BookInv'
<1> DEFINE closing == queue \o Closing
<1>1. TypeOK /\ QueueInv /\ LoadedInv /\ FlagsOK
  BY FlagsTyped DEF BookInv
<1>2. /\ UserAction /\ named' = file /\ loaded' = FALSE /\ shown' = FALSE
      /\ open' = (outcome # "refused")
      /\ UNCHANGED <<files, book, early, current, selected, again, buttons,
                     dialog, sending, added>>
  BY DEF Open
<1>3. /\ closing \in Seq(Events) /\ Len(closing) \in Nat
      /\ Len(closing) + 1 <= 2 * userActions'
      /\ ClosedAfterLoads(closing) /\ ~Posted(closing, "initFailed")
      /\ ~Posted(closing, "closed") => ~open /\ ~Posted(queue, "closed")
  BY <1>1, <1>2, QueueClosed
<1>4. queue' = IF outcome = "refused" THEN closing
               ELSE Append(closing, outcome)
  <2>1. queue' = closing \o (IF outcome = "refused" THEN <<>>
                             ELSE <<outcome>>)
    BY DEF Open
  <2> HIDE DEF closing
  <2>2. outcome \in Events \/ outcome = "refused"
    BY DEF Events
  <2>3. closing \o <<>> = closing
    BY <1>3
  <2>4. CASE outcome = "refused"
    BY <2>1, <2>3, <2>4
  <2>5. CASE outcome # "refused"
    <3>1. closing \o <<outcome>> = Append(closing, outcome)
      BY <1>3, <2>2, <2>5
    <3> QED
      BY <2>1, <2>5, <3>1
  <2> QED
    BY <2>4, <2>5
<1> HIDE DEF closing
<1>5. /\ queue' \in Seq(Events) /\ Len(queue') <= 2 * userActions'
      /\ QueueInv'
      /\ ~Posted(queue', "closed") => ~open /\ ~Posted(queue, "closed")
  <2>1. CASE outcome = "refused"
    <3>1. queue' = closing /\ ~open'
      BY <1>2, <1>4, <2>1
    <3>2. userActions' \in Nat
      BY <1>1, <1>2, Asked, BoundsTyped
    <3>3. FailsLast(closing)
      BY <1>3 DEF FailsLast, Posted
    <3>4. QueueInv'
      BY <1>3, <3>1, <3>3 DEF QueueInv
    <3> QED
      BY <1>3, <3>1, <3>2, <3>4
  <2>2. CASE outcome # "refused"
    <3>1. queue' = Append(closing, outcome) /\ open' /\ outcome \in Events
      BY <1>2, <1>4, <2>2 DEF Events
    <3>2. /\ queue' \in Seq(Events) /\ Len(queue') = Len(closing) + 1
          /\ queue' # <<>> /\ queue'[Len(queue')] = outcome
          /\ FailsLast(queue')
          /\ \A type : Posted(queue', type) <=>
                         Posted(closing, type) \/ type = outcome
          /\ outcome # "initCompleted" => ClosedAfterLoads(queue')
      BY <1>3, <3>1, EventPosted
    <3>3. QueueInv'
      BY <1>3, <3>1, <3>2 DEF QueueInv
    <3> QED
      BY <1>3, <3>2, <3>3
  <2> QED
    BY <2>1, <2>2
<1>6. TypeOK'
  <2>1. FlagsOK'
    BY <1>1, <1>2 DEF FlagsOK
  <2>2. userActions' \in 0 .. MaxUserActions /\ sending \in 0 .. userActions'
    BY <1>1, <1>2, Asked
  <2> QED
    BY <1>1, <1>2, <1>5, <2>1, <2>2, FlagsTyped DEF TypeOK
<1>7. LoadedInv'
  BY <1>1, <1>2, <1>5 DEF LoadedInv
<1>8. NoForeignContacts' /\ ActsOnSelected'
  BY <1>2 DEF BookInv, NoForeignContacts, ActsOnSelected, Saved
<1> QED
  BY <1>5, <1>6, <1>7, <1>8 DEF BookInv

LEMMA CloseKeeps ==
  ASSUME BookInv, Close
  PROVE  BookInv'
<1>1. TypeOK /\ QueueInv /\ LoadedInv /\ FlagsOK
  BY FlagsTyped DEF BookInv
<1>2. /\ UserAction /\ ~open' /\ open' = FALSE
      /\ loaded' = FALSE /\ shown' = FALSE
      /\ queue' = queue \o Closing
      /\ UNCHANGED <<named, files, book, early, current, selected, again,
                     buttons, dialog, sending, added>>
  BY DEF Close
<1>3. /\ queue' \in Seq(Events) /\ Len(queue') \in Nat
      /\ Len(queue') + 1 <= 2 * userActions'
      /\ ClosedAfterLoads(queue') /\ ~Posted(queue', "initFailed")
      /\ ~Posted(queue', "closed") => ~open /\ ~Posted(queue, "closed")
  BY <1>1, <1>2, QueueClosed
<1>4. userActions' \in 0 .. MaxUserActions /\ sending \in 0 .. userActions'
  BY <1>1, <1>2, Asked
<1>5. TypeOK'
  <2>1. FlagsOK'
    BY <1>1, <1>2 DEF FlagsOK
  <2>2. Len(queue') <= 2 * userActions'
    BY <1>3, <1>4
  <2> QED
    BY <1>1, <1>2, <1>3, <1>4, <2>1, <2>2, FlagsTyped DEF TypeOK
<1>6. QueueInv'
  BY <1>2, <1>3 DEF QueueInv, FailsLast, Posted
<1>7. LoadedInv'
  BY <1>1, <1>2, <1>3 DEF LoadedInv
<1>8. NoForeignContacts' /\ ActsOnSelected'
  BY <1>2 DEF BookInv, NoForeignContacts, ActsOnSelected, Saved
<1> QED
  BY <1>5, <1>6, <1>7, <1>8 DEF BookInv

LEMMA RescanKeeps ==
  ASSUME BookInv, Rescan
  PROVE  BookInv'
<1>1. TypeOK /\ QueueInv /\ FlagsOK
  BY FlagsTyped DEF BookInv
<1>2. /\ UserAction /\ open /\ queue' = Append(queue, "initCompleted")
      /\ UNCHANGED <<open, named, files, book, loaded, early, shown, current,
                     selected, again, buttons, dialog, sending, added>>
  BY DEF Rescan, model, view
<1>3. /\ userActions' \in 0 .. MaxUserActions /\ userActions' \in Nat
      /\ Len(queue) \in Nat /\ Len(queue) + 2 <= 2 * userActions'
      /\ sending \in 0 .. userActions' /\ ~Posted(queue, "initFailed")
  BY <1>1, <1>2, Asked, BoundsTyped
<1>4. /\ queue' \in Seq(Events) /\ Len(queue') = Len(queue) + 1
      /\ queue' # <<>> /\ queue'[Len(queue')] = "initCompleted"
      /\ \A type : Posted(queue', type) <=>
                     Posted(queue, type) \/ type = "initCompleted"
      /\ FailsLast(queue')
  <2>1. queue \in Seq(Events) /\ "initCompleted" \in Events
    BY <1>1 DEF TypeOK, Events
  <2> QED
    BY <1>2, <1>3, <2>1, EventPosted
<1>5. TypeOK'
  <2>1. FlagsOK'
    BY <1>1, <1>2 DEF FlagsOK
  <2>2. Len(queue') <= 2 * userActions'
    BY <1>3, <1>4
  <2> QED
    BY <1>1, <1>2, <1>3, <1>4, <2>1, <2>2, FlagsTyped DEF TypeOK
<1>6. QueueInv'
  BY <1>2, <1>3, <1>4 DEF QueueInv
<1>7. ActsOnSelected'
  BY <1>2 DEF BookInv, ActsOnSelected
<1> QED
  BY <1>2, <1>4, <1>5, <1>6, <1>7, BookUntouched

LEMMA SelectKeeps ==
  ASSUME BookInv, NEW row \in DOMAIN book, Select(row)
  PROVE  BookInv'
<1>1. TypeOK /\ QueueInv /\ FlagsOK
  BY FlagsTyped DEF BookInv
<1>2. /\ UserAction /\ current' = row /\ selected' = book[row]
      /\ again' = FALSE /\ buttons' = TRUE
      /\ UNCHANGED <<open, named, files, queue, book, loaded, early, shown,
                     dialog, sending, added>>
  BY DEF Select, model
<1>3. /\ userActions' \in 0 .. MaxUserActions /\ userActions' \in Nat
      /\ Len(queue) \in Nat /\ Len(queue) + 2 <= 2 * userActions'
      /\ sending \in 0 .. userActions'
  BY <1>1, <1>2, Asked, BoundsTyped
<1>4. book[row] \in Contacts /\ row \in Nat /\ row <= Len(book)
  BY <1>1 DEF TypeOK, Books
<1>5. TypeOK'
  <2>1. FlagsOK'
    BY <1>1, <1>2 DEF FlagsOK
  <2>2. Len(queue') <= 2 * userActions'
    BY <1>2, <1>3
  <2> QED
    BY <1>1, <1>2, <1>3, <1>4, <2>1, <2>2, FlagsTyped DEF TypeOK
<1>6. QueueInv'
  BY <1>1, <1>2 DEF QueueInv
<1>7. ActsOnSelected'
  BY <1>2, <1>4 DEF ActsOnSelected
<1> QED
  BY <1>2, <1>5, <1>6, <1>7, BookUntouched

(***************************************************************************)
(* What only opens or leaves a dialog, or begins to wait for a payment.    *)
(***************************************************************************)
LEMMA WaitingKeeps ==
  ASSUME BookInv,
         \/ \E kind \in {"new", "edit"} : OpenDialog(kind)
         \/ Reject
         \/ Send
  PROVE  BookInv'
<1>1. TypeOK /\ QueueInv /\ FlagsOK
  BY FlagsTyped DEF BookInv
<1>2. /\ UNCHANGED <<open, named, files, queue, book, loaded, early, shown,
                     current, selected, again, buttons, added>>
      /\ dialog' \in {"none", "new", "edit"}
  <2>1. CASE \E kind \in {"new", "edit"} : OpenDialog(kind)
    BY <2>1 DEF OpenDialog, model, view
  <2>2. CASE Reject
    BY <2>2 DEF Reject, model, view
  <2>3. CASE Send
    BY <1>1, <2>3 DEF Send, model, view, TypeOK
  <2> QED
    BY <2>1, <2>2, <2>3
<1>3. /\ userActions' \in 0 .. MaxUserActions
      /\ Len(queue) <= 2 * userActions'
      /\ sending' \in 0 .. userActions'
  <2>1. CASE Reject
    BY <1>1, <2>1 DEF Reject, TypeOK
  <2>2. ASSUME UserAction, sending' \in {sending, sending + 1}
        PROVE  /\ userActions' \in 0 .. MaxUserActions
               /\ Len(queue) <= 2 * userActions'
               /\ sending' \in 0 .. userActions'
    <3>1. /\ userActions' \in 0 .. MaxUserActions /\ userActions' \in Nat
          /\ Len(queue) \in Nat /\ Len(queue) + 2 <= 2 * userActions'
          /\ sending \in 0 .. userActions' /\ sending + 1 \in 0 .. userActions'
      BY <1>1, <2>2, Asked, BoundsTyped
    <3> QED
      BY <2>2, <3>1
  <2>3. ~Reject => UserAction /\ sending' \in {sending, sending + 1}
    BY DEF OpenDialog, Send
  <2> QED
    BY <2>1, <2>2, <2>3
<1>4. TypeOK'
  <2>1. FlagsOK'
    BY <1>1, <1>2 DEF FlagsOK
  <2> QED
    BY <1>1, <1>2, <1>3, <2>1, FlagsTyped DEF TypeOK
<1>5. QueueInv' /\ ActsOnSelected'
  BY <1>1, <1>2 DEF BookInv, QueueInv, ActsOnSelected
<1> QED
  BY <1>2, <1>4, <1>5, BookUntouched

(***************************************************************************)
(* The steps that change the book and save it.                             *)
(***************************************************************************)
LEMMA DeleteKeeps ==
  ASSUME BookInv, Delete
  PROVE  BookInv'
<1>1. TypeOK /\ QueueInv /\ ActsOnSelected /\ FlagsOK
  BY FlagsTyped DEF BookInv
<1>2. /\ UserAction /\ RemoveRow(current, book)
      /\ UNCHANGED <<open, named, queue, loaded, shown, again, dialog,
                     sending, added>>
  BY DEF Delete
<1>3. /\ userActions' \in 0 .. MaxUserActions /\ userActions' \in Nat
      /\ Len(queue) \in Nat /\ Len(queue) + 2 <= 2 * userActions'
      /\ sending \in 0 .. userActions'
  BY <1>1, <1>2, Asked, BoundsTyped
<1>4. /\ book \in Books /\ current \in Nat
      /\ selected \in Contacts \cup {NoContact}
  BY <1>1 DEF TypeOK
<1>5. /\ book' \in Books /\ current' \in Nat /\ buttons' \in BOOLEAN
      /\ selected' \in Contacts \cup {NoContact}
      /\ Entries(book') \subseteq Entries(book)
      /\ current \in DOMAIN book =>
           (current' # 0 => /\ current' <= Len(book')
                            /\ book'[current'] = selected')
      /\ current \notin DOMAIN book =>
           book' = book /\ current' = current /\ selected' = selected
  BY <1>2, <1>4, RowRemoved
<1>6. ActsOnSelected'
  <2>1. CASE current \in DOMAIN book
    <3>1. current # 0 /\ current <= Len(book)
      BY <1>4, <2>1 DEF Books
    <3>2. ~again
      BY <1>1, <3>1, <1>4 DEF ActsOnSelected, Books
    <3> QED
      BY <1>2, <1>5, <2>1, <3>2 DEF ActsOnSelected
  <2>2. CASE current \notin DOMAIN book
    BY <1>1, <1>2, <1>5, <2>2 DEF ActsOnSelected
  <2> QED
    BY <2>1, <2>2
<1>7. CASE Save
  <2>1. files' \in [Wallets -> Books \cup {NoFile}] /\ early' \in BOOLEAN
    BY <1>1, <1>5, <1>7, SavedTypes
  <2>2. TypeOK'
    <3>1. FlagsOK'
      BY <1>1, <1>2, <1>5, <2>1 DEF FlagsOK
    <3>2. Len(queue') <= 2 * userActions'
      BY <1>2, <1>3
    <3> QED
      BY <1>1, <1>2, <1>3, <1>5, <2>1, <3>1, <3>2, FlagsTyped DEF TypeOK
  <2> QED
    BY <1>2, <1>5, <1>6, <1>7, <2>2, BookSaved
<1>8. CASE ~Save
  <2>1. UNCHANGED <<files, early>> /\ current \notin DOMAIN book
    BY <1>8 DEF Delete
  <2>2. TypeOK'
    <3>1. FlagsOK'
      BY <1>1, <1>2, <1>5, <2>1 DEF FlagsOK
    <3>2. Len(queue') <= 2 * userActions'
      BY <1>2, <1>3
    <3> QED
      BY <1>1, <1>2, <1>3, <1>5, <2>1, <3>1, <3>2, FlagsTyped DEF TypeOK
  <2>3. QueueInv'
    BY <1>1, <1>2 DEF QueueInv
  <2> QED
    BY <1>2, <1>5, <1>6, <2>1, <2>2, <2>3, BookUntouched
<1> QED
  BY <1>7, <1>8

LEMMA AcceptNewKeeps ==
  ASSUME BookInv, AcceptNew
  PROVE  BookInv'
<1>1. TypeOK /\ ActsOnSelected /\ FlagsOK
  BY FlagsTyped DEF BookInv
<1>2. /\ Add /\ Save /\ dialog' = "none"
      /\ UNCHANGED <<open, named, queue, loaded, shown, selected, again,
                     buttons, sending, userActions>>
  BY DEF AcceptNew, Add
<1>3. /\ book' \in Books /\ current' \in Nat /\ added' \in 0 .. MaxContacts
      /\ ActsOnSelected'
      /\ Entries(book') = Entries(book) \cup {Contact(added + 1, named)}
      /\ Contact(added + 1, named).of = named
  BY <1>1, <1>2, AddKeepsRow
<1>4. files' \in [Wallets -> Books \cup {NoFile}] /\ early' \in BOOLEAN
  BY <1>1, <1>2, <1>3, SavedTypes
<1>5. TypeOK'
  <2>1. FlagsOK'
    BY <1>1, <1>2, <1>4 DEF FlagsOK
  <2> QED
    BY <1>1, <1>2, <1>3, <1>4, <2>1, FlagsTyped DEF TypeOK
<1> QED
  BY <1>2, <1>3, <1>5, BookSaved

LEMMA AcceptEditKeeps ==
  ASSUME BookInv, AcceptEdit
  PROVE  BookInv'
<1> DEFINE contact == Contact(added + 1, named)
           longer  == Append(book, contact)
           row     == Moved(current, Len(book) + 1, 1)
<1>1. TypeOK /\ ActsOnSelected /\ FlagsOK
  BY FlagsTyped DEF BookInv
<1>2. /\ added < MaxContacts /\ added' = added + 1
      /\ RemoveRow(row, longer) /\ Save /\ dialog' = "none"
      /\ UNCHANGED <<open, named, queue, loaded, shown, again, sending,
                     userActions>>
  BY DEF AcceptEdit
<1>3. /\ contact \in Contacts /\ contact.of = named
      /\ added' \in 0 .. MaxContacts
  BY <1>1, <1>2, NewContactTyped
<1>4. /\ book \in Books /\ current \in Nat
      /\ selected \in Contacts \cup {NoContact}
  BY <1>1 DEF TypeOK
<1>5. row = IF current >= Len(book) + 1 THEN current + 1 ELSE current
  BY DEF Moved
<1> HIDE DEF contact, row
<1>6. /\ longer \in Books /\ Len(book) \in Nat
      /\ Len(longer) = Len(book) + 1
      /\ Entries(longer) = Entries(book) \cup {contact}
  BY <1>3, <1>4, ContactAdded
<1> HIDE DEF longer
<1>7. row \in Nat /\ DOMAIN longer = 1 .. Len(longer)
  BY <1>4, <1>5, <1>6 DEF Books
<1>8. /\ book' \in Books /\ current' \in Nat /\ buttons' \in BOOLEAN
      /\ selected' \in Contacts \cup {NoContact}
      /\ Entries(book') \subseteq Entries(longer)
      /\ row \in DOMAIN longer =>
           (current' # 0 => /\ current' <= Len(book')
                            /\ book'[current'] = selected')
      /\ row \notin DOMAIN longer =>
           book' = longer /\ current' = row /\ selected' = selected
  BY <1>2, <1>4, <1>6, <1>7, RowRemoved
<1>9. ActsOnSelected'
  <2>1. CASE current = 0
    BY <1>4, <1>5, <1>6, <1>7, <1>8, <2>1 DEF ActsOnSelected
  <2>2. CASE current # 0 /\ again
    <3>1. current > Len(book)
      BY <1>1, <2>2 DEF ActsOnSelected
    <3>2. row = current + 1 /\ row \notin DOMAIN longer /\ row > Len(longer)
      BY <1>4, <1>5, <1>6, <1>7, <3>1
    <3> QED
      BY <1>2, <1>8, <2>2, <3>2 DEF ActsOnSelected
  <2>3. CASE current # 0 /\ ~again
    <3>1. current <= Len(book)
      BY <1>1, <2>3 DEF ActsOnSelected
    <3>2. row \in DOMAIN longer
      BY <1>4, <1>5, <1>6, <1>7, <2>3, <3>1
    <3> QED
      BY <1>2, <1>8, <2>3, <3>2 DEF ActsOnSelected
  <2> QED
    BY <2>1, <2>2, <2>3
<1>10. files' \in [Wallets -> Books \cup {NoFile}] /\ early' \in BOOLEAN
  BY <1>1, <1>2, <1>8, SavedTypes
<1>11. TypeOK'
  <2>1. FlagsOK'
    BY <1>1, <1>2, <1>8, <1>10 DEF FlagsOK
  <2> QED
    BY <1>1, <1>2, <1>3, <1>8, <1>10, <2>1, FlagsTyped DEF TypeOK
<1> QED
  BY <1>2, <1>3, <1>6, <1>8, <1>9, <1>11, BookSaved

LEMMA EndSendKeeps ==
  ASSUME BookInv, EndSend
  PROVE  BookInv'
<1>1. TypeOK /\ QueueInv /\ ActsOnSelected /\ FlagsOK
  BY FlagsTyped DEF BookInv
<1>2. /\ sending > 0 /\ sending' = sending - 1
      /\ UNCHANGED <<open, named, queue, loaded, shown, selected, again,
                     buttons, dialog, userActions>>
  BY DEF EndSend
<1>3. sending' \in 0 .. userActions
  <2>1. sending \in 0 .. userActions /\ userActions \in Nat
    BY <1>1, BoundsTyped DEF TypeOK
  <2> QED
    BY <1>2, <2>1
<1>4. CASE open
  <2>1. Add /\ Save
    BY <1>4 DEF EndSend, Add
  <2>2. /\ book' \in Books /\ current' \in Nat /\ added' \in 0 .. MaxContacts
        /\ ActsOnSelected'
        /\ Entries(book') = Entries(book) \cup {Contact(added + 1, named)}
        /\ Contact(added + 1, named).of = named
    BY <1>1, <1>2, <2>1, AddKeepsRow
  <2>3. files' \in [Wallets -> Books \cup {NoFile}] /\ early' \in BOOLEAN
    BY <1>1, <2>1, <2>2, SavedTypes
  <2>4. TypeOK'
    <3>1. FlagsOK'
      BY <1>1, <1>2, <2>3 DEF FlagsOK
    <3> QED
      BY <1>1, <1>2, <1>3, <2>2, <2>3, <3>1, FlagsTyped DEF TypeOK
  <2> QED
    BY <1>2, <2>1, <2>2, <2>4, BookSaved
<1>5. CASE ~open
  <2>1. UNCHANGED <<files, book, early, current, added>>
    BY <1>5 DEF EndSend
  <2>2. TypeOK'
    <3>1. FlagsOK'
      BY <1>1, <1>2, <2>1 DEF FlagsOK
    <3> QED
      BY <1>1, <1>2, <1>3, <2>1, <3>1, FlagsTyped DEF TypeOK
  <2>3. QueueInv' /\ ActsOnSelected'
    BY <1>1, <1>2, <2>1 DEF QueueInv, ActsOnSelected
  <2> QED
    BY <1>2, <2>1, <2>2, <2>3, BookUntouched
<1> QED
  BY <1>4, <1>5

(***************************************************************************)
(* The events.                                                             *)
(***************************************************************************)
LEMMA Delivered ==
  ASSUME TypeOK, NEW type \in Events, Deliver(type), UNCHANGED userActions
  PROVE  /\ queue \in Seq(Events) /\ queue # <<>> /\ Head(queue) = type
         /\ queue' = Tail(queue) /\ queue' \in Seq(Events)
         /\ Len(queue') <= 2 * userActions'
<1>1. queue \in Seq(Events) /\ queue # <<>> /\ queue' = Tail(queue)
  BY DEF TypeOK, Deliver
<1>2. /\ queue' \in Seq(Events) /\ Len(queue) \in Nat
      /\ Len(queue') = Len(queue) - 1
  BY <1>1, EventTaken
<1>3. userActions \in Nat /\ Len(queue) <= 2 * userActions
  BY BoundsTyped DEF TypeOK
<1> QED
  BY <1>1, <1>2, <1>3 DEF Deliver

LEMMA InitCompletedKeeps ==
  ASSUME BookInv, OnInitCompleted
  PROVE  BookInv'
<1>1. TypeOK /\ QueueInv /\ LoadedInv /\ FlagsOK
  BY FlagsTyped DEF BookInv
<1>2. /\ book' = IF files[named] = NoFile THEN book ELSE files[named]
      /\ current' = IF current = 0 THEN 0 ELSE current + Len(book')
      /\ loaded' = (open /\ ~Posted(queue, "closed"))
      /\ again' = (current # 0) /\ shown' = TRUE
      /\ UNCHANGED <<open, named, files, early, selected, buttons, dialog,
                     sending, added, userActions>>
  BY DEF OnInitCompleted, LoadBook, Posted
<1>3. /\ queue \in Seq(Events) /\ queue # <<>>
      /\ Head(queue) = "initCompleted"
      /\ queue' = Tail(queue) /\ queue' \in Seq(Events)
      /\ Len(queue') <= 2 * userActions'
  <2>1. Deliver("initCompleted") /\ "initCompleted" \in Events
    BY DEF OnInitCompleted, Events
  <2> QED
    BY <1>1, <1>2, <2>1, Delivered
<1>4. /\ \A type : Posted(queue, type) <=>
                     Posted(queue', type) \/ type = "initCompleted"
      /\ ClosedAfterLoads(queue) =>
           ClosedAfterLoads(queue') /\ Posted(queue', "closed")
      /\ FailsLast(queue')
      /\ queue' # <<>> => queue'[Len(queue')] = queue[Len(queue)]
  BY <1>1, <1>3, EventTaken DEF QueueInv
<1>5. files[named] \in Books \cup {NoFile} /\ book \in Books /\ current \in Nat
  BY <1>1 DEF TypeOK
<1>6. book' \in Books /\ Len(book') \in Nat
  BY <1>2, <1>5 DEF Books
<1>7. TypeOK'
  <2>1. FlagsOK'
    BY <1>1, <1>2 DEF FlagsOK
  <2>2. current' \in Nat
    BY <1>2, <1>5, <1>6
  <2> QED
    BY <1>1, <1>2, <1>3, <1>6, <2>1, <2>2, FlagsTyped DEF TypeOK
<1>8. QueueInv'
  <2>1. ASSUME open, ~loaded'
        PROVE  queue' # <<>> /\ queue'[Len(queue')] # "closed"
    <3>1. Posted(queue', "closed")
      BY <1>2, <1>4, <2>1
    <3>2. queue' # <<>>
      BY <3>1 DEF Posted
    <3>3. queue[Len(queue)] # "closed"
      BY <1>1, <1>2, <2>1 DEF QueueInv, LoadedInv
    <3> QED
      BY <1>4, <3>2, <3>3
  <2> QED
    BY <1>1, <1>2, <1>4, <2>1 DEF QueueInv
<1>9. LoadedInv'
  <2>1. ASSUME loaded', Posted(queue', "initFailed") PROVE FALSE
    <3>1. ClosedAfterLoads(queue)
      BY <1>1, <1>4, <2>1 DEF QueueInv
    <3> QED
      BY <1>2, <1>4, <2>1, <3>1
  <2>2. ASSUME loaded', ~early PROVE book' = Saved(named)
    <3>1. CASE files[named] = NoFile
      <4>1. Saved(named) = <<>> /\ book' = book
        BY <1>2, <3>1 DEF Saved
      <4>2. book = <<>> \/ book = Saved(named)
        BY <1>1, <1>2, <2>2 DEF LoadedInv
      <4> QED
        BY <4>1, <4>2
    <3>2. CASE files[named] # NoFile
      BY <1>2, <3>2 DEF Saved
    <3> QED
      BY <3>1, <3>2
  <2>3. ASSUME ~loaded', ~Posted(queue', "closed") PROVE FALSE
    <3>1. ~open
      BY <1>2, <1>4, <2>3
    <3> QED
      BY <1>1, <1>4, <2>3, <3>1 DEF QueueInv
  <2>4. Saved(named)' = Saved(named)
    BY <1>2 DEF Saved
  <2> QED
    BY <1>2, <1>4, <2>1, <2>2, <2>3, <2>4 DEF LoadedInv
<1>10. ActsOnSelected'
  <2>1. current' # 0 => again' /\ current' > Len(book')
    <3>1. CASE current = 0
      BY <1>2, <3>1
    <3>2. CASE current # 0
      <4>1. current' = current + Len(book')
        BY <1>2, <3>2
      <4>2. again'
        BY <1>2, <3>2
      <4>3. current' > Len(book')
        BY <1>5, <1>6, <3>2, <4>1
      <4> QED
        BY <4>2, <4>3
    <3> QED
      BY <3>1, <3>2
  <2> QED
    BY <2>1 DEF ActsOnSelected
<1>11. NoForeignContacts'
  BY <1>2 DEF BookInv, NoForeignContacts, Saved
<1> QED
  BY <1>7, <1>8, <1>9, <1>10, <1>11 DEF BookInv

LEMMA InitFailedKeeps ==
  ASSUME BookInv, OnInitFailed
  PROVE  BookInv'
<1>1. TypeOK /\ QueueInv /\ LoadedInv /\ FlagsOK
  BY FlagsTyped DEF BookInv
<1>2. /\ open' = FALSE /\ loaded' = FALSE /\ shown' = FALSE
      /\ UNCHANGED <<named, files, book, early, current, selected, again,
                     buttons, dialog, sending, added, userActions>>
  BY DEF OnInitFailed
<1>3. /\ queue \in Seq(Events) /\ queue # <<>> /\ Head(queue) = "initFailed"
      /\ queue' = Tail(queue) /\ queue' \in Seq(Events)
      /\ Len(queue') <= 2 * userActions'
  <2>1. Deliver("initFailed") /\ "initFailed" \in Events
    BY DEF OnInitFailed, Events
  <2> QED
    BY <1>1, <1>2, <2>1, Delivered
<1>4. queue' = <<>> /\ Posted(queue, "initFailed")
      /\ \A type : Posted(queue, type) <=>
                     Posted(queue', type) \/ type = "initFailed"
  BY <1>1, <1>3, EventTaken DEF QueueInv
<1>5. TypeOK'
  <2>1. FlagsOK'
    BY <1>1, <1>2 DEF FlagsOK
  <2> QED
    BY <1>1, <1>2, <1>3, <2>1, FlagsTyped DEF TypeOK
<1>6. QueueInv'
  BY <1>2, <1>4 DEF QueueInv, FailsLast, ClosedAfterLoads
<1>7. LoadedInv'
  <2>1. ~loaded /\ ~Posted(queue, "closed")
    BY <1>1, <1>4 DEF LoadedInv, Posted
  <2> QED
    BY <1>1, <1>2, <2>1 DEF LoadedInv
<1>8. NoForeignContacts' /\ ActsOnSelected'
  BY <1>2 DEF BookInv, NoForeignContacts, ActsOnSelected, Saved
<1> QED
  BY <1>5, <1>6, <1>7, <1>8 DEF BookInv

LEMMA ClosedKeeps ==
  ASSUME BookInv, OnClosed
  PROVE  BookInv'
<1>1. TypeOK /\ QueueInv /\ LoadedInv /\ FlagsOK
  BY FlagsTyped DEF BookInv
<1>2. /\ book' = <<>> /\ current' = 0 /\ selected' = NoContact
      /\ again' = FALSE
      /\ UNCHANGED <<open, named, files, loaded, early, shown, buttons,
                     dialog, sending, added, userActions>>
  BY DEF OnClosed
<1>3. /\ queue \in Seq(Events) /\ queue # <<>> /\ Head(queue) = "closed"
      /\ queue' = Tail(queue) /\ queue' \in Seq(Events)
      /\ Len(queue') <= 2 * userActions'
  <2>1. Deliver("closed") /\ "closed" \in Events
    BY DEF OnClosed, Events
  <2> QED
    BY <1>1, <1>2, <2>1, Delivered
<1>4. /\ \A type : Posted(queue, type) <=>
                     Posted(queue', type) \/ type = "closed"
      /\ ClosedAfterLoads(queue) => ClosedAfterLoads(queue')
      /\ FailsLast(queue')
      /\ queue' # <<>> => queue'[Len(queue')] = queue[Len(queue)]
      /\ queue' = <<>> => queue[Len(queue)] = "closed"
  BY <1>1, <1>3, EventTaken DEF QueueInv
<1>5. TypeOK'
  <2>1. FlagsOK'
    BY <1>1, <1>2 DEF FlagsOK
  <2> QED
    BY <1>1, <1>2, <1>3, <2>1, BoundsTyped, FlagsTyped DEF TypeOK
<1>6. QueueInv'
  BY <1>1, <1>2, <1>4 DEF QueueInv
<1>7. LoadedInv'
  BY <1>1, <1>2, <1>4 DEF LoadedInv
<1>8. NoForeignContacts' /\ ActsOnSelected'
  BY <1>2 DEF BookInv, NoForeignContacts, ActsOnSelected, Saved
<1> QED
  BY <1>5, <1>6, <1>7, <1>8 DEF BookInv
-----------------------------------------------------------------------------
LEMMA BookStep ==
  BookInv /\ [Next]_vars => BookInv'
<1> SUFFICES ASSUME BookInv, [Next]_vars PROVE BookInv'
  OBVIOUS
<1>1. CASE GuiStep
  BY <1>1, InitCompletedKeeps, InitFailedKeeps, ClosedKeeps DEF GuiStep
<1>2. CASE User
  <2>1. CASE \E file \in Wallets,
                outcome \in {"initCompleted", "initFailed", "refused"} :
               Open(file, outcome)
    BY <2>1, OpenKeeps
  <2>2. CASE Close
    BY <2>2, CloseKeeps
  <2>3. CASE Rescan
    BY <2>3, RescanKeeps
  <2>4. CASE Delete
    BY <2>4, DeleteKeeps
  <2>5. CASE Send \/ \E kind \in {"new", "edit"} : OpenDialog(kind)
    BY <2>5, WaitingKeeps
  <2>6. CASE \E row \in DOMAIN book : Select(row)
    BY <2>6, SelectKeeps
  <2> QED
    BY <1>2, <2>1, <2>2, <2>3, <2>4, <2>5, <2>6 DEF User
<1>3. CASE Page
  BY <1>3, AcceptNewKeeps, AcceptEditKeeps, WaitingKeeps, EndSendKeeps DEF Page
<1>4. CASE UNCHANGED vars
  <2>1. UNCHANGED <<open, named, files, queue, book, loaded, early, shown,
                    current, selected, again, buttons, dialog, sending, added,
                    userActions>>
    BY <1>4 DEF vars, model, view
  <2>2. FlagsOK'
    BY <2>1, FlagsTyped DEF BookInv, FlagsOK
  <2>3. TypeOK'
    BY <2>1, <2>2, FlagsTyped DEF BookInv, TypeOK
  <2>4. QueueInv' /\ LoadedInv'
    BY <2>1 DEF BookInv, QueueInv, LoadedInv, Saved
  <2>5. NoForeignContacts' /\ ActsOnSelected'
    BY <2>1 DEF BookInv, NoForeignContacts, ActsOnSelected, Saved
  <2> QED
    BY <2>3, <2>4, <2>5 DEF BookInv
<1> QED
  BY <1>1, <1>2, <1>3, <1>4 DEF Next

LEMMA BookPages ==
  [PagesNext]_pages => [Next]_vars
BY DEF PagesNext, FillContacts, FillRecipient, FillAmount, FillMessage, pages

LEMMA BookHolds == PagesSpec => []BookInv
<1>1. PagesInit => BookInv
  BY BookInit DEF PagesInit
<1>2. BookInv /\ [PagesNext]_pages => BookInv'
  BY BookStep, BookPages
<1> QED
  BY <1>1, <1>2, PTL DEF PagesSpec

(***************************************************************************)
(* The address book keeps its types: the rows that views have, the events  *)
(* that are posted and the payments that wait (AddressBookModel and the    *)
(* pages of OverviewFrame that use it).                                    *)
(***************************************************************************)
THEOREM BookTypeCorrect == PagesSpec => []TypeOK
<1>1. BookInv => TypeOK
  BY DEF BookInv
<1> QED
  BY <1>1, BookHolds, PTL

(***************************************************************************)
(* When nothing is left to deliver, the page shows what the file of the    *)
(* open wallet holds: of every wallet that opens while an older one's      *)
(* report or closing is under way, the last to be opened loads last        *)
(* (AddressBookModel::walletInitCompleted() and reset()).                  *)
(***************************************************************************)
THEOREM PageShowsSaved == PagesSpec => []ShowsSaved
<1>1. BookInv => ShowsSaved
  BY DEF BookInv, QueueInv, LoadedInv, ShowsSaved
<1> QED
  BY <1>1, BookHolds, PTL

(***************************************************************************)
(* No contact goes into the file of another wallet than it was added for   *)
(* (AddressBookModel::saveAddressBook()).                                  *)
(***************************************************************************)
THEOREM FilesHoldOwnContacts == PagesSpec => []NoForeignContacts
<1>1. BookInv => NoForeignContacts
  BY DEF BookInv
<1> QED
  BY <1>1, BookHolds, PTL

(***************************************************************************)
(* The row that a click on "edit" or "delete" acts on is the one that was  *)
(* selected (OverviewFrame::currentAddressChanged()).                      *)
(***************************************************************************)
THEOREM ClicksActOnSelected == PagesSpec => []ActsOnSelected
<1>1. BookInv => ActsOnSelected
  BY DEF BookInv
<1> QED
  BY <1>1, BookHolds, PTL
-----------------------------------------------------------------------------
(***************************************************************************)
(* What leaves a file of contacts in a step.                               *)
(***************************************************************************)
KeepsContacts ==
  \A w \in Wallets : \A contact \in Entries(Saved(w)) :
    \/ contact \in Entries(Saved(w)')
    \/ w = named /\ contact = selected
    \/ early'

LEMMA UnsavedKeeps ==
  ASSUME files' = files
  PROVE  KeepsContacts
BY DEF KeepsContacts, Saved

LEMMA SavedKeeps ==
  ASSUME BookInv, Save, book' \in Books,
         \A contact \in Entries(book) :
           contact \in Entries(book') \/ contact = selected
  PROVE  KeepsContacts
<1>1. /\ files'[named] = book' /\ early' = (early \/ ~loaded)
      /\ \A w \in Wallets : w # named => files'[w] = files[w]
  BY SavedTypes DEF BookInv, Save
<1>2. SUFFICES ASSUME NEW w \in Wallets, NEW contact \in Entries(Saved(w)),
                      ~early'
               PROVE  \/ contact \in Entries(Saved(w)')
                      \/ w = named /\ contact = selected
  BY DEF KeepsContacts
<1>3. book = Saved(named)
  BY <1>1, <1>2 DEF BookInv, LoadedInv
<1>4. CASE w = named
  <2>1. Saved(w)' = book'
    BY <1>1, <1>4, BoundsTyped DEF Saved
  <2> QED
    BY <1>2, <1>3, <1>4, <2>1
<1>5. CASE w # named
  BY <1>1, <1>2, <1>5 DEF Saved
<1> QED
  BY <1>4, <1>5

LEMMA DeleteKeepsContacts ==
  ASSUME BookInv, Delete
  PROVE  KeepsContacts
<1>1. TypeOK /\ ActsOnSelected
  BY DEF BookInv
<1>2. /\ book \in Books /\ current \in Nat
      /\ selected \in Contacts \cup {NoContact}
  BY <1>1 DEF TypeOK
<1>3. RemoveRow(current, book)
  BY DEF Delete
<1>4. /\ book' \in Books
      /\ current \in DOMAIN book =>
           \A contact \in Entries(book) :
             contact \in Entries(book') \/ contact = book[current]
      /\ current \notin DOMAIN book => book' = book
  BY <1>2, <1>3, RowRemoved
<1>5. current \in DOMAIN book => book[current] = selected
  <2>1. SUFFICES ASSUME current \in DOMAIN book
                 PROVE  book[current] = selected
    OBVIOUS
  <2>2. current # 0 /\ ~(current > Len(book))
    BY <1>2, <2>1 DEF Books
  <2> QED
    BY <1>1, <2>2 DEF ActsOnSelected
<1>6. \A contact \in Entries(book) :
        contact \in Entries(book') \/ contact = selected
  BY <1>4, <1>5
<1>7. Save \/ UNCHANGED files
  BY DEF Delete
<1> QED
  BY <1>4, <1>6, <1>7, SavedKeeps, UnsavedKeeps

LEMMA EditKeepsContacts ==
  ASSUME BookInv, AcceptEdit
  PROVE  KeepsContacts
<1> DEFINE contact == Contact(added + 1, named)
           longer  == Append(book, contact)
           row     == Moved(current, Len(book) + 1, 1)
<1>1. TypeOK /\ ActsOnSelected
  BY DEF BookInv
<1>2. added < MaxContacts /\ RemoveRow(row, longer) /\ Save
  BY DEF AcceptEdit
<1>3. contact \in Contacts
  BY <1>1, <1>2, NewContactTyped
<1>4. /\ book \in Books /\ current \in Nat
      /\ selected \in Contacts \cup {NoContact}
  BY <1>1 DEF TypeOK
<1>5. row = IF current >= Len(book) + 1 THEN current + 1 ELSE current
  BY DEF Moved
<1> HIDE DEF contact, row
<1>6. /\ longer \in Books /\ Len(book) \in Nat
      /\ Len(longer) = Len(book) + 1
      /\ \A k \in 1 .. Len(book) : longer[k] = book[k]
      /\ Entries(longer) = Entries(book) \cup {contact}
  BY <1>3, <1>4, ContactAdded
<1> HIDE DEF longer
<1>7. row \in Nat /\ DOMAIN longer = 1 .. Len(longer)
  BY <1>4, <1>5, <1>6 DEF Books
<1>8. /\ book' \in Books
      /\ row \in DOMAIN longer =>
           \A c \in Entries(longer) :
             c \in Entries(book') \/ c = longer[row]
      /\ row \notin DOMAIN longer => book' = longer
  BY <1>2, <1>4, <1>6, <1>7, RowRemoved
<1>9. row \in DOMAIN longer => longer[row] = selected
  <2>1. SUFFICES ASSUME row \in DOMAIN longer PROVE longer[row] = selected
    OBVIOUS
  <2>2. row = current /\ current \in 1 .. Len(book)
    BY <1>4, <1>5, <1>6, <1>7, <2>1
  <2>3. current # 0 /\ ~(current > Len(book))
    BY <1>4, <1>6, <2>2
  <2>4. book[current] = selected
    BY <1>1, <2>3 DEF ActsOnSelected
  <2> QED
    BY <1>6, <2>2, <2>4
<1>10. \A c \in Entries(book) : c \in Entries(book') \/ c = selected
  BY <1>6, <1>8, <1>9
<1> QED
  BY <1>2, <1>8, <1>10, SavedKeeps

LEMMA AddKeepsContacts ==
  ASSUME BookInv, Add, UNCHANGED <<selected, again>>
  PROVE  KeepsContacts
<1>1. /\ book' \in Books
      /\ Entries(book') = Entries(book) \cup {Contact(added + 1, named)}
  BY AddKeepsRow DEF BookInv
<1>2. Save
  BY DEF Add
<1> QED
  BY <1>1, <1>2, SavedKeeps

LEMMA StepKeepsContacts ==
  ASSUME BookInv, Next
  PROVE  KeepsContacts
<1>1. CASE GuiStep
  <2>1. UNCHANGED files
    BY <1>1 DEF GuiStep, OnInitCompleted, OnInitFailed, OnClosed
  <2> QED
    BY <2>1, UnsavedKeeps
<1>2. CASE User
  <2>1. Delete \/ UNCHANGED files
    BY <1>2 DEF User, Open, Close, Rescan, Send, Select, OpenDialog
  <2> QED
    BY <2>1, DeleteKeepsContacts, UnsavedKeeps
<1>3. CASE Page
  <2>1. CASE AcceptNew
    BY <2>1, AddKeepsContacts DEF AcceptNew
  <2>2. CASE AcceptEdit
    BY <2>2, EditKeepsContacts
  <2>3. CASE Reject
    BY <2>3, UnsavedKeeps DEF Reject
  <2>4. CASE EndSend
    BY <2>4, AddKeepsContacts, UnsavedKeeps DEF EndSend
  <2> QED
    BY <1>3, <2>1, <2>2, <2>3, <2>4 DEF Page
<1> QED
  BY <1>1, <1>2, <1>3 DEF Next

(***************************************************************************)
(* A contact leaves a file only if it is the selected one of the open      *)
(* wallet, which the user deletes or edits (AddressBookModel's             *)
(* removeAddress(), OverviewFrame::deleteABClicked()): the rest of what    *)
(* the file held is in the book that is saved over it.                     *)
(***************************************************************************)
THEOREM ContactsAreKept == PagesSpec => ContactsKept
<1>1. BookInv /\ [PagesNext]_pages => [KeepsContacts]_vars
  BY BookPages, StepKeepsContacts
<1>2. PagesSpec => [][KeepsContacts]_vars
  BY <1>1, BookHolds, PTL DEF PagesSpec
<1> QED
  BY <1>2 DEF ContactsKept, KeepsContacts
-----------------------------------------------------------------------------
(***************************************************************************)
(* The text of a message: what its lines are.                              *)
(***************************************************************************)
LEMMA LineTyped ==
  ASSUME NEW line \in Message!Lines
  PROVE  /\ line \in Seq(Words) /\ Len(line) \in Nat
         /\ line = <<>> <=> Len(line) = 0
         /\ Len(line) >= 2 => Len(SubSeq(line, 1, 2)) = 2
<1>1. PICK n \in 0 .. 3 : line \in [1 .. n -> Words]
  BY DEF Message!Lines
<1>2. line \in Seq(Words)
  BY <1>1
<1> QED
  BY <1>2

LEMMA FieldTyped ==
  ASSUME NEW field \in [1 .. 2 -> Words]
  PROVE  /\ field \in Message!Lines /\ field \in Seq(Words)
         /\ Len(field) = 2 /\ field # <<>>
         /\ SubSeq(field, 1, 2) = field
<1>1. field \in Message!Lines
  BY DEF Message!Lines
<1>2. field \in Seq(Words) /\ Len(field) = 2
  <2>1. \A n \in Nat : \A f \in [1 .. n -> Words] : f \in Seq(Words)
    OBVIOUS
  <2>2. field \in Seq(Words)
    BY <2>1
  <2>3. DOMAIN field = 1 .. 2
    OBVIOUS
  <2>4. Len(field) \in Nat /\ DOMAIN field = 1 .. Len(field)
    BY <2>2, LenProperties
  <2>5. Len(field) = 2
    BY <2>3, <2>4
  <2> QED
    BY <2>2, <2>5
<1>3. field # <<>>
  BY <1>2
<1>4. SubSeq(field, 1, 2) = field
  BY <1>2
<1> QED
  BY <1>1, <1>2, <1>3, <1>4

LEMMA EmptyTyped ==
  <<>> \in Message!Lines /\ <<>> \in Message!Texts
<1>1. <<>> \in [1 .. 0 -> Words]
  BY SMT
<1>2. 0 \in 0 .. 3
  OBVIOUS
<1>3. <<>> \in Message!Lines
  BY <1>1, <1>2 DEF Message!Lines
<1> QED
  BY <1>3 DEF Message!Texts

LEMMA LinesTyped ==
  ASSUME NEW lines \in Message!Texts
  PROVE  /\ lines \in Seq(Message!Lines) /\ Len(lines) \in Nat
         /\ DOMAIN lines = 1 .. Len(lines)
         /\ \A k \in 1 .. Len(lines) : lines[k] \in Message!Lines
BY DEF Message!Texts

LEMMA Least ==
  ASSUME NEW T \in SUBSET Nat, T # {}
  PROVE  LET least == CHOOSE i \in T : \A j \in T : i <= j
         IN least \in T /\ \A j \in T : least <= j
<1> DEFINE R == {ss \in Nat \X Nat : ss[1] < ss[2]}
<1>1. IsWellFoundedOn(R, Nat)
  BY NatLessThanWellFounded DEF OpToRel
<1>2. \A i, j \in Nat : j < i => <<j, i>> \in R
  OBVIOUS
<1> HIDE DEF R
<1>3. PICK i \in T : \A j \in T : ~(<<j, i>> \in R)
  BY <1>1, WFMin
<1>4. \A j \in T : ~(j < i)
  BY <1>2, <1>3
<1>5. \A j \in T : i <= j
  BY <1>4
<1> QED
  BY <1>5

(***************************************************************************)
(* The text without the empty lines before it.                             *)
(***************************************************************************)
LEMMA StrippedLines ==
  ASSUME NEW lines \in Message!Texts
  PROVE  \E first \in 1 .. Len(lines) + 1 :
           /\ \A k \in 1 .. first - 1 : lines[k] = <<>>
           /\ first <= Len(lines) => lines[first] # <<>>
           /\ Message!Stripped(lines) = SubSeq(lines, first, Len(lines))
<1> DEFINE full  == {i \in DOMAIN lines : lines[i] # <<>>}
           least == CHOOSE i \in full : \A j \in full : i <= j
<1>1. /\ lines \in Seq(Message!Lines) /\ Len(lines) \in Nat
      /\ DOMAIN lines = 1 .. Len(lines)
  BY LinesTyped
<1>2. Message!Stripped(lines) =
        IF full = {} THEN <<>> ELSE SubSeq(lines, least, Len(lines))
  BY DEF Message!Stripped, Message!EmptyLine
<1>3. CASE full = {}
  <2>1. SubSeq(lines, Len(lines) + 1, Len(lines)) = <<>>
    BY <1>1
  <2>2. Len(lines) + 1 \in 1 .. Len(lines) + 1
    BY <1>1
  <2>3. \A k \in 1 .. (Len(lines) + 1) - 1 : lines[k] = <<>>
    BY <1>1, <1>3
  <2> HIDE DEF full, least
  <2> QED
    BY <1>1, <1>2, <1>3, <2>1, <2>2, <2>3
<1>4. CASE full # {}
  <2>1. full \in SUBSET Nat
    BY <1>1
  <2>2. least \in full /\ \A j \in full : least <= j
    <3> HIDE DEF full
    <3> QED
      BY <1>4, <2>1, Least
  <2>3. least \in 1 .. Len(lines) /\ lines[least] # <<>>
    BY <1>1, <2>2
  <2>4. \A k \in 1 .. least - 1 : lines[k] = <<>>
    <3> HIDE DEF least
    <3> QED
      BY <1>1, <2>2, <2>3
  <2> HIDE DEF full, least
  <2>5. least \in 1 .. Len(lines) + 1
    BY <1>1, <2>3
  <2> QED
    BY <1>2, <1>4, <2>3, <2>4, <2>5
<1> QED
  BY <1>3, <1>4

LEMMA StrippedTyped ==
  ASSUME NEW lines \in Message!Texts
  PROVE  LET tmp == Message!Stripped(lines)
         IN \E before \in 0 .. Len(lines) :
              /\ tmp \in Message!Texts /\ tmp \in Seq(Message!Lines)
              /\ Len(tmp) = Len(lines) - before /\ Len(tmp) \in Nat
              /\ DOMAIN tmp = 1 .. Len(tmp)
              /\ \A k \in 1 .. Len(tmp) :
                   /\ tmp[k] = lines[k + before]
                   /\ tmp[k] \in Message!Lines
              /\ tmp # <<>> => tmp[1] # <<>>
              /\ \A k \in 1 .. before : lines[k] = <<>>
<1> DEFINE tmp == Message!Stripped(lines)
<1>1. /\ lines \in Seq(Message!Lines) /\ Len(lines) \in Nat
      /\ DOMAIN lines = 1 .. Len(lines)
  BY LinesTyped
<1>2. PICK first \in 1 .. Len(lines) + 1 :
        /\ \A k \in 1 .. first - 1 : lines[k] = <<>>
        /\ first <= Len(lines) => lines[first] # <<>>
        /\ tmp = SubSeq(lines, first, Len(lines))
  BY StrippedLines
<1> HIDE DEF tmp
<1> DEFINE before == first - 1
<1>3. before \in 0 .. Len(lines)
  BY <1>1
<1>4. /\ tmp \in Seq(Message!Lines)
      /\ Len(tmp) = Len(lines) - before
  <2>1. \A k \in first .. Len(lines) : lines[k] \in Message!Lines
    BY <1>1
  <2>2. SubSeq(lines, first, Len(lines)) \in Seq(Message!Lines)
    BY <1>1, <2>1
  <2>3. Len(SubSeq(lines, first, Len(lines))) = Len(lines) - before
    BY <1>1
  <2> QED
    BY <1>2, <2>2, <2>3
<1>5. /\ Len(tmp) \in Nat /\ DOMAIN tmp = 1 .. Len(tmp)
      /\ \A k \in 1 .. Len(tmp) : tmp[k] \in Message!Lines
  BY <1>4
<1>6. ASSUME NEW k \in 1 .. Len(tmp)
      PROVE  tmp[k] = lines[k + before]
  <2>1. SubSeq(lines, first, Len(lines))[k] = lines[k + first - 1]
    BY <1>1, <1>4
  <2>2. k + before = k + first - 1
    BY <1>4, <1>5
  <2> QED
    BY <1>2, <2>1, <2>2
<1>7. tmp # <<>> => tmp[1] # <<>>
  <2>1. SUFFICES ASSUME tmp # <<>> PROVE tmp[1] # <<>>
    OBVIOUS
  <2>2. 1 \in 1 .. Len(tmp)
    BY <1>4, <1>5, <2>1
  <2>3. first <= Len(lines) /\ 1 + before = first
    BY <1>1, <1>3, <1>4, <2>2
  <2> QED
    BY <1>2, <1>6, <2>2, <2>3
<1>8. tmp \in Message!Texts
  BY <1>4 DEF Message!Texts
<1>9. \A k \in 1 .. before : lines[k] = <<>>
  BY <1>2
<1> HIDE DEF before
<1> QED
  BY <1>3, <1>4, <1>5, <1>6, <1>7, <1>8, <1>9 DEF tmp

(***************************************************************************)
(* Where the lines that may be a header end.                               *)
(***************************************************************************)
Body(lines, tmp, end) ==
  IF end = Len(tmp) + 1 THEN lines ELSE SubSeq(tmp, end + 1, Len(tmp))

LEMMA Parsed ==
  ASSUME NEW lines \in Message!Texts, NEW tmp \in Message!Texts,
         tmp = Message!Stripped(lines)
  PROVE  \E end \in 1 .. Len(tmp) + 1 :
           /\ \A k \in 1 .. end - 1 : tmp[k] # <<>>
           /\ end <= Len(tmp) => tmp[end] = <<>>
           /\ Message!ParseMessage(lines) =
                IF \E i \in 1 .. end - 1 : ~Message!IsField(tmp[i])
                THEN Message!Message(<<>>, lines)
                ELSE Message!Message(Message!Fields(SubSeq(tmp, 1, end - 1)),
                                     Body(lines, tmp, end))
<1> DEFINE ends  == {i \in DOMAIN tmp : tmp[i] = <<>>}
           least == CHOOSE i \in ends : \A j \in ends : i <= j
           end   == IF ends = {} THEN Len(tmp) + 1 ELSE least
<1>1. Len(tmp) \in Nat /\ DOMAIN tmp = 1 .. Len(tmp)
  BY LinesTyped
<1>2. Message!ParseMessage(lines) =
        IF \E i \in 1 .. end - 1 : ~Message!IsField(tmp[i])
        THEN Message!Message(<<>>, lines)
        ELSE Message!Message(Message!Fields(SubSeq(tmp, 1, end - 1)),
                             IF ends = {} THEN lines
                             ELSE SubSeq(tmp, end + 1, Len(tmp)))
  BY DEF Message!ParseMessage, Message!EmptyLine
<1>3. /\ end \in 1 .. Len(tmp) + 1
      /\ ends = {} <=> end = Len(tmp) + 1
      /\ \A k \in 1 .. end - 1 : tmp[k] # <<>>
      /\ end <= Len(tmp) => tmp[end] = <<>>
  <2>1. CASE ends = {}
    <3>1. end = Len(tmp) + 1
      BY <2>1
    <3>2. \A k \in 1 .. Len(tmp) : tmp[k] # <<>>
      BY <1>1, <2>1
    <3> HIDE DEF end, ends, least
    <3> QED
      BY <1>1, <2>1, <3>1, <3>2
  <2>2. CASE ends # {}
    <3>1. ends \in SUBSET Nat
      BY <1>1
    <3>2. least \in ends /\ \A j \in ends : least <= j
      <4> HIDE DEF ends
      <4> QED
        BY <2>2, <3>1, Least
    <3>3. end = least
      BY <2>2
    <3> HIDE DEF least, end
    <3>4. end \in 1 .. Len(tmp) /\ tmp[end] = <<>>
      BY <1>1, <3>2, <3>3
    <3>5. \A k \in 1 .. end - 1 : tmp[k] # <<>>
      BY <1>1, <3>2, <3>3, <3>4
    <3> HIDE DEF ends
    <3> QED
      BY <1>1, <2>2, <3>4, <3>5
  <2> QED
    BY <2>1, <2>2
<1> HIDE DEF end, ends, least
<1>4. Body(lines, tmp, end) =
        IF ends = {} THEN lines ELSE SubSeq(tmp, end + 1, Len(tmp))
  BY <1>3 DEF Body
<1> QED
  BY <1>2, <1>3, <1>4

(***************************************************************************)
(* The fields of a header, and a text that is made of one.                 *)
(***************************************************************************)
LEMMA FieldsOfLines ==
  ASSUME NEW lines \in Message!Texts, NEW n \in 0 .. Len(lines),
         \A k \in 1 .. n : Message!IsField(lines[k])
  PROVE  LET fields == Message!Fields(SubSeq(lines, 1, n))
         IN /\ \A k \in 1 .. n : fields[k] = SubSeq(lines[k], 1, 2)
            /\ fields \in Seq(Message!Lines) /\ Len(fields) = n
            /\ DOMAIN fields = 1 .. n
            /\ fields = <<>> <=> n = 0
<1> DEFINE front  == SubSeq(lines, 1, n)
           fields == Message!Fields(front)
<1>1. /\ lines \in Seq(Message!Lines) /\ Len(lines) \in Nat
      /\ n \in Nat
  BY LinesTyped
<1>2. /\ Len(front) = n /\ DOMAIN front = 1 .. n
      /\ \A k \in 1 .. n : front[k] = lines[k]
  BY <1>1
<1>3. fields = [k \in DOMAIN front |-> SubSeq(front[k], 1, 2)]
  BY DEF Message!Fields
<1> HIDE DEF front, fields
<1>4. /\ fields = [k \in 1 .. n |-> SubSeq(lines[k], 1, 2)]
      /\ DOMAIN fields = 1 .. n
      /\ \A k \in 1 .. n : fields[k] = SubSeq(lines[k], 1, 2)
  BY <1>2, <1>3
<1>5. ASSUME NEW k \in 1 .. n PROVE SubSeq(lines[k], 1, 2) \in Message!Lines
  <2>1. lines[k] \in Message!Lines
    BY <1>1, LinesTyped
  <2>2. lines[k] \in Seq(Words) /\ Len(lines[k]) \in Nat /\ Len(lines[k]) >= 2
    BY <2>1, LineTyped DEF Message!IsField
  <2>3. SubSeq(lines[k], 1, 2) \in [1 .. 2 -> Words]
    <3> DEFINE line == lines[k]
    <3>1. line \in Seq(Words) /\ Len(line) \in Nat /\ Len(line) >= 2
      BY <2>2
    <3> HIDE DEF line
    <3>2. /\ SubSeq(line, 1, 2) = [j \in 1 .. 2 |-> line[j]]
          /\ \A j \in 1 .. 2 : line[j] \in Words
      <4>1. SubSeq(line, 1, 2) = [j \in 1 .. 2 |-> line[j]]
        BY <3>1
      <4>2. \A j \in 1 .. 2 : j \in 1 .. Len(line)
        BY <3>1
      <4> QED
        BY <3>1, <4>1, <4>2
    <3>3. SubSeq(line, 1, 2) \in [1 .. 2 -> Words]
      BY <3>2
    <3> QED
      BY <3>3 DEF line
  <2> QED
    BY <2>3, FieldTyped
<1>6. fields \in Seq(Message!Lines)
  <2>1. fields \in [1 .. n -> Message!Lines]
    BY <1>4, <1>5
  <2> QED
    BY <1>1, <2>1, IsASeq
<1>7. Len(fields) = n
  <2>1. Len(fields) \in Nat /\ DOMAIN fields = 1 .. Len(fields)
    BY <1>6, LenProperties
  <2> QED
    BY <1>1, <1>4, <2>1
<1>8. fields = <<>> <=> n = 0
  BY <1>6, <1>7
<1> QED
  BY <1>4, <1>6, <1>7, <1>8 DEF fields, front

LEMMA MadeOfHeader ==
  ASSUME NEW header \in Seq(Message!Lines), header # <<>>,
         NEW body \in Message!Texts
  PROVE  LET made == Message!MakeText(Message!Message(header, body))
         IN /\ made \in Message!Texts
            /\ Len(made) = Len(header) + 1 + Len(body)
            /\ \A k \in 1 .. Len(header) : made[k] = header[k]
            /\ made[Len(header) + 1] = <<>>
            /\ \A k \in 1 .. Len(body) : made[Len(header) + 1 + k] = body[k]
<1> DEFINE L    == Message!Lines
           top  == Append(header, <<>>)
           made == Message!MakeText(Message!Message(header, body))
<1>1. body \in Seq(L) /\ Len(body) \in Nat /\ <<>> \in L
  BY LinesTyped, EmptyTyped
<1>2. made = (header \o << <<>> >>) \o body
  BY DEF Message!MakeText, Message!Message, Message!EmptyLine
<1> HIDE DEF L, made
<1>3. header \in Seq(L) /\ Len(header) \in Nat
  BY DEF L
<1>4. header \o << <<>> >> = top
  <2> DEFINE e == <<>>
  <2>1. e \in L
    BY <1>1
  <2> HIDE DEF e
  <2>2. header \o <<e>> = Append(header, e)
    BY <1>3, <2>1
  <2> QED
    BY <2>2 DEF e
<1>5. /\ top \in Seq(L) /\ Len(top) = Len(header) + 1
      /\ top[Len(header) + 1] = <<>>
      /\ \A k \in 1 .. Len(header) : top[k] = header[k]
  <2> DEFINE e == <<>>
  <2>1. e \in L
    BY <1>1
  <2> HIDE DEF e
  <2>2. /\ Append(header, e) \in Seq(L)
        /\ Len(Append(header, e)) = Len(header) + 1
    BY <1>3, <2>1
  <2>3. /\ Append(header, e)[Len(header) + 1] = e
        /\ \A k \in 1 .. Len(header) : Append(header, e)[k] = header[k]
    BY <1>3, <2>1
  <2> QED
    BY <2>2, <2>3 DEF e
<1> HIDE DEF top
<1>6. /\ made \in Seq(L) /\ Len(made) = Len(top) + Len(body)
      /\ made = top \o body
  <2>1. made = top \o body
    BY <1>2, <1>4
  <2>2. top \o body \in Seq(L)
    BY <1>1, <1>5
  <2>3. Len(top \o body) = Len(top) + Len(body)
    BY <1>1, <1>5
  <2> QED
    BY <2>1, <2>2, <2>3
<1>7. /\ \A k \in 1 .. Len(top) : made[k] = top[k]
      /\ \A k \in 1 .. Len(body) : made[Len(top) + k] = body[k]
  <2>1. ASSUME NEW k \in 1 .. Len(top) PROVE (top \o body)[k] = top[k]
    BY <1>1, <1>3, <1>5
  <2>2. ASSUME NEW k \in 1 .. Len(body)
        PROVE  (top \o body)[Len(top) + k] = body[k]
    BY <1>1, <1>3, <1>5
  <2> QED
    BY <1>6, <2>1, <2>2
<1>8. \A k \in 1 .. Len(header) : k \in 1 .. Len(top)
  BY <1>3, <1>5
<1>9. Len(header) + 1 \in 1 .. Len(top)
  BY <1>3, <1>5
<1>10. made \in Message!Texts
  BY <1>6 DEF Message!Texts, L
<1> QED
  BY <1>5, <1>6, <1>7, <1>8, <1>9, <1>10 DEF made
-----------------------------------------------------------------------------
(***************************************************************************)
(* What the parser does to any text: it takes nothing for a header and     *)
(* leaves the text, or the lines up to an empty one are fields, or all of  *)
(* them are.                                                               *)
(***************************************************************************)
WholeBody(lines) ==
  Message!ParseMessage(lines) = Message!Message(<<>>, lines)

AllFields(tmp) == \A i \in DOMAIN tmp : Message!IsField(tmp[i])

HeaderEnds(lines, tmp, end) ==
  /\ end \in 2 .. Len(tmp)
  /\ tmp[end] = <<>>
  /\ \A k \in 1 .. end - 1 : Message!IsField(tmp[k])
  /\ Message!ParseMessage(lines) =
       Message!Message(Message!Fields(SubSeq(tmp, 1, end - 1)),
                       SubSeq(tmp, end + 1, Len(tmp)))

LEMMA ParsedCases ==
  ASSUME NEW lines \in Message!Texts, NEW tmp, tmp = Message!Stripped(lines)
  PROVE  \/ WholeBody(lines)
         \/ AllFields(tmp) /\ Message!ParseMessage(lines).body = lines
         \/ \E end \in 2 .. Len(tmp) : HeaderEnds(lines, tmp, end)
<1>1. /\ tmp \in Message!Texts /\ Len(tmp) \in Nat
      /\ DOMAIN tmp = 1 .. Len(tmp)
      /\ tmp # <<>> => tmp[1] # <<>>
      /\ tmp = <<>> <=> Len(tmp) = 0
  <2>1. /\ tmp \in Message!Texts /\ tmp \in Seq(Message!Lines)
        /\ tmp # <<>> => tmp[1] # <<>>
    BY StrippedTyped
  <2> QED
    BY <2>1
<1>2. PICK end \in 1 .. Len(tmp) + 1 :
        /\ \A k \in 1 .. end - 1 : tmp[k] # <<>>
        /\ end <= Len(tmp) => tmp[end] = <<>>
        /\ Message!ParseMessage(lines) =
             IF \E i \in 1 .. end - 1 : ~Message!IsField(tmp[i])
             THEN Message!Message(<<>>, lines)
             ELSE Message!Message(Message!Fields(SubSeq(tmp, 1, end - 1)),
                                  Body(lines, tmp, end))
  BY <1>1, Parsed
<1>3. CASE \E i \in 1 .. end - 1 : ~Message!IsField(tmp[i])
  BY <1>2, <1>3 DEF WholeBody
<1>4. CASE /\ \A i \in 1 .. end - 1 : Message!IsField(tmp[i])
           /\ end = Len(tmp) + 1
  <2>1. AllFields(tmp)
    BY <1>1, <1>4 DEF AllFields
  <2>2. Message!ParseMessage(lines).body = lines
    BY <1>2, <1>4 DEF Body, Message!Message
  <2> QED
    BY <2>1, <2>2
<1>5. CASE /\ \A i \in 1 .. end - 1 : Message!IsField(tmp[i])
           /\ end # Len(tmp) + 1
  <2>1. end \in 1 .. Len(tmp) /\ tmp[end] = <<>>
    BY <1>1, <1>2, <1>5
  <2>2. end # 1
    BY <1>1, <2>1
  <2>3. end \in 2 .. Len(tmp)
    BY <1>1, <2>1, <2>2
  <2>4. HeaderEnds(lines, tmp, end)
    BY <1>2, <1>5, <2>1, <2>3 DEF HeaderEnds, Body
  <2> QED
    BY <2>3, <2>4
<1> QED
  BY <1>3, <1>4, <1>5

LEMMA OnlyHeadersHidden ==
  ASSUME message \in Message!Texts
  PROVE  Message!HidesOnlyHeaders
<1> DEFINE tmp  == Message!Stripped(message)
           seen == Message!Shown(message)
<1>1. PICK before \in 0 .. Len(message) :
        /\ tmp \in Message!Texts /\ tmp \in Seq(Message!Lines)
        /\ Len(tmp) = Len(message) - before /\ Len(tmp) \in Nat
        /\ \A k \in 1 .. Len(tmp) : tmp[k] = message[k + before]
        /\ \A k \in 1 .. before : message[k] = <<>>
  BY StrippedTyped
<1>2. seen = Message!ParseMessage(message).body
  BY DEF Message!Shown
<1>3. /\ message \in Seq(Message!Lines) /\ Len(message) \in Nat
      /\ DOMAIN message = 1 .. Len(message)
  BY LinesTyped
<1> SUFFICES ASSUME seen # message
             PROVE  \E i, j \in DOMAIN message :
                      /\ \A k \in 1 .. i - 1 : message[k] = <<>>
                      /\ \A k \in i .. j - 1 : Message!IsField(message[k])
                      /\ i < j /\ message[j] = <<>>
                      /\ seen = SubSeq(message, j + 1, Len(message))
  BY DEF Message!HidesOnlyHeaders, Message!EmptyLine
<1>4. PICK end \in 2 .. Len(tmp) : HeaderEnds(message, tmp, end)
  <2>1. ~WholeBody(message)
    BY <1>2 DEF WholeBody, Message!Message
  <2>2. Message!ParseMessage(message).body # message
    BY <1>2
  <2> HIDE DEF tmp
  <2>3. tmp = Message!Stripped(message)
    BY DEF tmp
  <2> QED
    BY <2>1, <2>2, <2>3, ParsedCases
<1> HIDE DEF tmp, seen
<1> DEFINE i == before + 1
           j == before + end
<1>5. /\ i \in DOMAIN message /\ j \in DOMAIN message /\ i < j
      /\ end \in 1 .. Len(tmp)
  BY <1>1, <1>3, <1>4
<1>6. message[j] = <<>>
  <2>1. tmp[end] = message[end + before] /\ end + before = j
    BY <1>1, <1>5
  <2> QED
    BY <1>4, <2>1 DEF HeaderEnds
<1>7. \A k \in 1 .. i - 1 : message[k] = <<>>
  BY <1>1
<1>8. ASSUME NEW k \in i .. j - 1 PROVE Message!IsField(message[k])
  <2>1. k - before \in 1 .. end - 1 /\ k - before \in 1 .. Len(tmp)
        /\ (k - before) + before = k
    BY <1>1, <1>5
  <2>2. tmp[k - before] = message[k]
    BY <1>1, <2>1
  <2>3. Message!IsField(tmp[k - before])
    BY <1>4, <2>1 DEF HeaderEnds
  <2> QED
    BY <2>2, <2>3
<1>9. seen = SubSeq(message, j + 1, Len(message))
  <2>1. seen = SubSeq(tmp, end + 1, Len(tmp))
    BY <1>2, <1>4 DEF HeaderEnds, Message!Message
  <2> DEFINE n == Len(tmp) - end
  <2>2. n \in Nat /\ end \in Nat /\ before \in Nat
    BY <1>1, <1>5
  <2>3. SubSeq(tmp, end + 1, Len(tmp)) = [k \in 1 .. n |-> tmp[end + k]]
    <3>1. SubSeq(tmp, end + 1, Len(tmp)) =
            [k \in 1 .. Len(tmp) - (end + 1) + 1 |-> tmp[end + 1 + k - 1]]
      BY <1>1, <1>5
    <3>2. Len(tmp) - (end + 1) + 1 = n
      BY <1>1, <1>5
    <3>3. \A k \in 1 .. n : end + 1 + k - 1 = end + k
      BY <2>2
    <3> QED
      BY <3>1, <3>2, <3>3
  <2>4. SubSeq(message, j + 1, Len(message)) =
          [k \in 1 .. n |-> message[j + k]]
    <3>1. SubSeq(message, j + 1, Len(message)) =
            [k \in 1 .. Len(message) - (j + 1) + 1 |-> message[j + 1 + k - 1]]
      BY <1>3, <1>5
    <3>2. Len(message) - (j + 1) + 1 = n
      BY <1>1, <1>3, <1>5
    <3>3. \A k \in 1 .. n : j + 1 + k - 1 = j + k
      BY <2>2
    <3> QED
      BY <3>1, <3>2, <3>3
  <2>5. ASSUME NEW k \in 1 .. n PROVE tmp[end + k] = message[j + k]
    <3>1. end + k \in 1 .. Len(tmp) /\ (end + k) + before = j + k
      BY <1>1, <1>5
    <3> QED
      BY <1>1, <3>1
  <2> HIDE DEF n, j
  <2> QED
    BY <2>1, <2>3, <2>4, <2>5
<1> HIDE DEF i, j
<1> QED
  BY <1>5, <1>6, <1>7, <1>8, <1>9

(***************************************************************************)
(* The details of a message against the text that was received.            *)
(***************************************************************************)
SameLine(line, seen) ==
  seen \in IF Message!IsField(line) THEN {line, SubSeq(line, 1, 2)}
            ELSE {line}

SameLines(lines, seen) ==
  /\ Len(lines) = Len(seen)
  /\ \A i \in DOMAIN lines : SameLine(lines[i], seen[i])

LEMMA FullRepeats ==
  ASSUME message \in Message!Texts
  PROVE  Message!FullIsFaithful
<1> DEFINE tmp  == Message!Stripped(message)
           full == Message!ShownInFull(message)
<1>1. PICK before \in 0 .. Len(message) :
        /\ tmp \in Message!Texts /\ tmp \in Seq(Message!Lines)
        /\ Len(tmp) \in Nat /\ DOMAIN tmp = 1 .. Len(tmp)
  BY StrippedTyped
<1>2. full = Message!MakeText(Message!ParseMessage(message))
  BY DEF Message!ShownInFull
<1>3. SUFFICES \/ SameLines(message, full)
               \/ SameLines(tmp, full)
               \/ AllFields(tmp)
  BY DEF Message!FullIsFaithful, SameLines, SameLine, AllFields
<1>4. CASE WholeBody(message)
  <2>1. Message!MakeText(Message!Message(<<>>, message)) = <<>> \o message
    BY DEF Message!MakeText, Message!Message
  <2>2. <<>> \o message = message
    BY LinesTyped
  <2>3. full = message
    BY <1>2, <1>4, <2>1, <2>2 DEF WholeBody
  <2> QED
    BY <2>3 DEF SameLines, SameLine
<1>5. CASE AllFields(tmp)
  BY <1>5
<1>6. ASSUME NEW end \in 2 .. Len(tmp), HeaderEnds(message, tmp, end)
      PROVE  SameLines(tmp, full)
  <2> DEFINE header == Message!Fields(SubSeq(tmp, 1, end - 1))
             body   == SubSeq(tmp, end + 1, Len(tmp))
  <2>1. full = Message!MakeText(Message!Message(header, body))
    BY <1>2, <1>6 DEF HeaderEnds
  <2>2. end - 1 \in 0 .. Len(tmp) /\ end - 1 # 0
    BY <1>1
  <2>3. /\ \A k \in 1 .. end - 1 : header[k] = SubSeq(tmp[k], 1, 2)
        /\ header \in Seq(Message!Lines) /\ Len(header) = end - 1
        /\ header # <<>>
    <3>1. \A k \in 1 .. end - 1 : Message!IsField(tmp[k])
      BY <1>6 DEF HeaderEnds
    <3> HIDE DEF tmp
    <3> QED
      BY <1>1, <2>2, <3>1, FieldsOfLines
  <2> HIDE DEF tmp, full, header
  <2>4. /\ body \in Seq(Message!Lines) /\ Len(body) = Len(tmp) - end
        /\ \A k \in 1 .. Len(tmp) - end : body[k] = tmp[end + k]
    <3>1. body = [k \in 1 .. Len(tmp) - (end + 1) + 1 |-> tmp[end + 1 + k - 1]]
      BY <1>1
    <3>2. Len(tmp) - (end + 1) + 1 = Len(tmp) - end /\ Len(tmp) - end \in Nat
      BY <1>1
    <3>3. \A k \in 1 .. Len(tmp) - end : end + 1 + k - 1 = end + k
      BY <1>1
    <3>4. body = [k \in 1 .. Len(tmp) - end |-> tmp[end + k]]
      BY <3>1, <3>2, <3>3
    <3>5. \A k \in 1 .. Len(tmp) - end : tmp[end + k] \in Message!Lines
      BY <1>1
    <3> HIDE DEF body
    <3>6. body \in Seq(Message!Lines)
      BY <3>2, <3>4, <3>5, IsASeq
    <3>7. Len(body) = Len(tmp) - end
      <4>1. Len(body) \in Nat /\ DOMAIN body = 1 .. Len(body)
        BY <3>6, LenProperties
      <4> DEFINE m == Len(tmp) - end
      <4>2. m \in Nat /\ DOMAIN body = 1 .. m
        BY <3>2, <3>4
      <4> HIDE DEF m
      <4>3. Len(body) \in 1 .. m \/ Len(body) = 0
        BY <4>1, <4>2
      <4>4. m \in 1 .. Len(body) \/ m = 0
        BY <4>1, <4>2
      <4>5. Len(body) \in Nat /\ m \in Nat
        BY <4>1, <4>2
      <4>6. Len(body) = m
        BY <4>3, <4>4, <4>5
      <4> QED
        BY <4>6 DEF m
    <3> QED
      BY <3>4, <3>6, <3>7
  <2> HIDE DEF body
  <2>5. /\ Len(full) = Len(header) + 1 + Len(body)
        /\ \A k \in 1 .. Len(header) : full[k] = header[k]
        /\ full[Len(header) + 1] = <<>>
        /\ \A k \in 1 .. Len(body) : full[Len(header) + 1 + k] = body[k]
    <3>1. body \in Message!Texts
      BY <2>4 DEF Message!Texts
    <3> QED
      BY <2>1, <2>3, <3>1, MadeOfHeader
  <2>6. Len(full) = Len(tmp)
    BY <1>1, <2>3, <2>4, <2>5
  <2>7. ASSUME NEW k \in DOMAIN tmp PROVE SameLine(tmp[k], full[k])
    <3>1. CASE k < end
      <4>1. k \in 1 .. end - 1
        BY <1>1, <3>1
      <4>2. Message!IsField(tmp[k])
        BY <1>6, <4>1 DEF HeaderEnds
      <4>3. full[k] = SubSeq(tmp[k], 1, 2)
        BY <2>3, <2>5, <4>1
      <4> QED
        BY <4>2, <4>3 DEF SameLine
    <3>2. CASE k = end
      <4>1. tmp[k] = <<>>
        BY <1>6, <3>2 DEF HeaderEnds
      <4>2. full[k] = <<>>
        <5>1. Len(header) + 1 = k
          BY <1>1, <2>3, <3>2
        <5> QED
          BY ONLY <2>5, <5>1
      <4> QED
        BY <4>1, <4>2 DEF SameLine
    <3>3. CASE k > end
      <4>1. k - end \in 1 .. Len(tmp) - end /\ end + (k - end) = k
            /\ Len(header) + 1 + (k - end) = k
        BY <1>1, <2>3, <3>3
      <4>2. full[k] = tmp[k]
        BY <2>4, <2>5, <4>1
      <4> QED
        BY <4>2 DEF SameLine
    <3> QED
      BY <1>1, <3>1, <3>2, <3>3
  <2> QED
    BY <2>6, <2>7 DEF SameLines
<1>7. \/ WholeBody(message) \/ AllFields(tmp)
      \/ \E end \in 2 .. Len(tmp) : HeaderEnds(message, tmp, end)
  <2> HIDE DEF tmp
  <2>1. tmp = Message!Stripped(message)
    BY DEF tmp
  <2> QED
    BY <2>1, ParsedCases
<1> QED
  BY <1>4, <1>5, <1>6, <1>7

(***************************************************************************)
(* A text that was made of a header.  The parser finds the line after the  *)
(* header first, whatever the text is.                                     *)
(***************************************************************************)
LEMMA MadeComesApart ==
  ASSUME NEW header \in Message!Headers, header # <<>>,
         NEW body \in Message!Texts
  PROVE  LET whole == Message!Message(header, body)
         IN Message!ParseMessage(Message!MakeText(whole)) = whole
<1> DEFINE F    == [1 .. 2 -> Words]
           made == Message!MakeText(Message!Message(header, body))
           tmp  == Message!Stripped(made)
           n    == Len(header)
<1>1. /\ header \in Seq(F) /\ n \in Nat /\ n # 0
      /\ DOMAIN header = 1 .. n
      /\ \A k \in 1 .. n : header[k] \in F
  <2>1. header \in Seq(F)
    BY DEF Message!Headers
  <2> HIDE DEF F
  <2> QED
    BY <2>1
<1>2. ASSUME NEW k \in 1 .. n
      PROVE  /\ header[k] \in Message!Lines /\ header[k] # <<>>
             /\ Message!IsField(header[k])
             /\ SubSeq(header[k], 1, 2) = header[k]
  <2> DEFINE field == header[k]
  <2>1. field \in [1 .. 2 -> Words]
    BY <1>1
  <2> HIDE DEF field
  <2>2. /\ field \in Message!Lines /\ field # <<>> /\ Len(field) = 2
        /\ SubSeq(field, 1, 2) = field
    BY <2>1, FieldTyped
  <2>3. Message!IsField(field)
    BY <2>2 DEF Message!IsField
  <2> QED
    BY <2>2, <2>3 DEF field
<1>3. header \in Seq(Message!Lines)
  <2>1. header = [k \in 1 .. n |-> header[k]]
    BY <1>1
  <2> HIDE DEF n, F
  <2> QED
    BY <1>1, <1>2, <2>1, IsASeq
<1>4. body \in Seq(Message!Lines) /\ Len(body) \in Nat
      /\ DOMAIN body = 1 .. Len(body)
  BY LinesTyped
<1>5. /\ made \in Message!Texts /\ Len(made) = n + 1 + Len(body)
      /\ \A k \in 1 .. n : made[k] = header[k]
      /\ made[n + 1] = <<>>
      /\ \A k \in 1 .. Len(body) : made[n + 1 + k] = body[k]
  BY <1>3, MadeOfHeader
<1>6. Len(made) \in Nat /\ made \in Seq(Message!Lines)
  BY <1>5, LinesTyped
<1> HIDE DEF made, tmp, n, F
<1>7. tmp = made
  <2>1. PICK first \in 1 .. Len(made) + 1 :
          /\ \A k \in 1 .. first - 1 : made[k] = <<>>
          /\ tmp = SubSeq(made, first, Len(made))
    BY <1>5, StrippedLines DEF tmp
  <2>2. 1 \in 1 .. n /\ made[1] # <<>>
    BY <1>1, <1>2, <1>5
  <2>3. first = 1
    BY <1>6, <2>1, <2>2
  <2>4. SubSeq(made, 1, Len(made)) = made
    BY <1>6
  <2> QED
    BY <2>1, <2>3, <2>4
<1>8. PICK end \in 1 .. Len(made) + 1 :
        /\ \A k \in 1 .. end - 1 : made[k] # <<>>
        /\ end <= Len(made) => made[end] = <<>>
        /\ Message!ParseMessage(made) =
             IF \E i \in 1 .. end - 1 : ~Message!IsField(made[i])
             THEN Message!Message(<<>>, made)
             ELSE Message!Message(Message!Fields(SubSeq(made, 1, end - 1)),
                                  Body(made, made, end))
  <2>1. made = Message!Stripped(made)
    BY <1>7 DEF tmp
  <2> QED
    BY <1>5, <2>1, Parsed
<1>9. end = n + 1
  <2>1. ~(n + 1 < end)
    <3>1. n + 1 < end => n + 1 \in 1 .. end - 1
      BY <1>1, <1>6
    <3> QED
      BY <1>5, <1>8, <3>1
  <2>2. ~(end < n + 1)
    <3>1. end < n + 1 => end \in 1 .. n /\ end <= Len(made)
      BY <1>1, <1>4, <1>5, <1>6
    <3> QED
      BY <1>2, <1>5, <1>8, <3>1
  <2> QED
    BY <1>1, <1>6, <2>1, <2>2
<1>10. /\ \A i \in 1 .. n : Message!IsField(made[i])
       /\ n \in 0 .. Len(made) /\ end - 1 = n /\ end # Len(made) + 1
  BY <1>1, <1>2, <1>4, <1>5, <1>6, <1>9
<1>11. Message!Fields(SubSeq(made, 1, n)) = header
  <2> DEFINE fields == Message!Fields(SubSeq(made, 1, n))
  <2>1. /\ \A k \in 1 .. n : fields[k] = SubSeq(made[k], 1, 2)
        /\ fields \in Seq(Message!Lines)
        /\ DOMAIN fields = 1 .. n
    BY <1>5, <1>10, FieldsOfLines
  <2> HIDE DEF fields
  <2>2. \A k \in 1 .. n : fields[k] = header[k]
    BY <1>2, <1>5, <2>1
  <2>3. fields = [k \in 1 .. n |-> fields[k]]
    BY <2>1, LenProperties
  <2>4. header = [k \in 1 .. n |-> header[k]]
    BY <1>1, <1>3, LenProperties
  <2> QED
    BY <2>2, <2>3, <2>4 DEF fields
<1>12. SubSeq(made, n + 2, Len(made)) = body
  <2>1. SubSeq(made, n + 2, Len(made)) =
          [k \in 1 .. Len(made) - (n + 2) + 1 |-> made[n + 2 + k - 1]]
    BY <1>1, <1>4, <1>5, <1>6
  <2>2. Len(made) - (n + 2) + 1 = Len(body)
    BY <1>1, <1>4, <1>5
  <2>3. \A k \in 1 .. Len(body) : n + 2 + k - 1 = n + 1 + k
    BY <1>1, <1>4
  <2>4. \A k \in 1 .. Len(body) : made[n + 2 + k - 1] = body[k]
    BY <1>5, <2>3
  <2>5. body = [k \in 1 .. Len(body) |-> body[k]]
    BY <1>4, LenProperties
  <2> QED
    BY <2>1, <2>2, <2>4, <2>5
<1>13. Body(made, made, end) = body
  <2>1. end + 1 = n + 2
    BY <1>1, <1>9
  <2> QED
    BY <1>10, <1>12, <2>1 DEF Body
<1>14. Message!ParseMessage(made) = Message!Message(header, body)
  BY <1>8, <1>10, <1>11, <1>13
<1> QED
  BY <1>14 DEF made

(***************************************************************************)
(* The message that is filled in: the inductive invariant.  What it was    *)
(* made of is kept until a line is written.                                *)
(***************************************************************************)
MessageInv ==
  /\ message \in Message!Texts
  /\ sent \in [header : Message!Headers, body : Message!Texts]
  /\ sent.header # <<>> => message = Message!MakeText(sent)

LEMMA HeadersAreTexts ==
  ASSUME NEW header \in Message!Headers
  PROVE  header \in Seq(Message!Lines)
<1>1. header \in Seq([1 .. 2 -> Words])
  BY DEF Message!Headers
<1> DEFINE F == [1 .. 2 -> Words]
           L == Message!Lines
<1>2. \A field \in F : field \in L
  BY FieldTyped
<1>3. header \in [1 .. Len(header) -> F] /\ Len(header) \in Nat
  BY <1>1, LenProperties
<1> HIDE DEF F, L
<1>4. header \in [1 .. Len(header) -> L]
  BY <1>2, <1>3
<1>5. header \in Seq(L)
  BY <1>3, <1>4, SMT
<1> QED
  BY <1>5 DEF L

LEMMA NoMessageTyped ==
  /\ Message!NoMessage \in [header : Message!Headers, body : Message!Texts]
  /\ Message!NoMessage.header = <<>>
BY EmptyTyped DEF Message!NoMessage, Message!Message, Message!Headers

LEMMA MessageStep ==
  MessageInv /\ [PagesNext]_pages => MessageInv'
<1> SUFFICES ASSUME MessageInv, [PagesNext]_pages PROVE MessageInv'
  OBVIOUS
<1> DEFINE Record == [header : Message!Headers, body : Message!Texts]
<1>1. ASSUME NEW line \in Message!Lines, Message!WriteLine(line)
      PROVE  MessageInv'
  <2>1. message' = Append(message, line) /\ sent' = Message!NoMessage
    BY <1>1 DEF Message!WriteLine
  <2>2. message' \in Message!Texts
    BY <2>1 DEF MessageInv, Message!Texts
  <2> QED
    BY <2>1, <2>2, NoMessageTyped DEF MessageInv
<1>2. ASSUME NEW field \in [1 .. 2 -> Words], Message!AddHeader(field)
      PROVE  MessageInv'
  <2> DEFINE header == Append(sent.header, field)
             body   == IF sent.header = <<>> THEN message ELSE sent.body
  <2>1. /\ sent' = Message!Message(header, body)
        /\ message' = Message!MakeText(sent')
    BY <1>2 DEF Message!AddHeader
  <2>2. header \in Message!Headers /\ header # <<>>
    <3> DEFINE F == [1 .. 2 -> Words]
               h == sent.header
    <3>1. h \in Seq(F) /\ field \in F
      BY DEF MessageInv, Message!Headers
    <3> HIDE DEF F, h
    <3>2. Append(h, field) \in Seq(F) /\ Len(Append(h, field)) = Len(h) + 1
          /\ Len(h) \in Nat
      BY <3>1
    <3>3. Append(h, field) # <<>>
      BY <3>2
    <3> QED
      BY <3>2, <3>3 DEF F, h, Message!Headers
  <2>3. body \in Message!Texts
    BY DEF MessageInv
  <2> HIDE DEF header, body
  <2>4. sent' \in Record /\ sent'.header = header
    BY <2>1, <2>2, <2>3 DEF Message!Message
  <2>5. header \in Seq(Message!Lines)
    BY <2>2, HeadersAreTexts
  <2>6. message' \in Message!Texts
    BY <2>1, <2>2, <2>3, <2>5, MadeOfHeader
  <2> QED
    BY <2>1, <2>4, <2>6 DEF MessageInv
<1>3. CASE UNCHANGED messageText
  BY <1>3 DEF MessageInv, messageText
<1>4. CASE FillMessage
  BY <1>1, <1>2, <1>4 DEF FillMessage, Message!Next
<1> QED
  BY <1>3, <1>4 DEF PagesNext, FillContacts, FillRecipient, FillAmount, pages

LEMMA MessageHolds == PagesSpec => []MessageInv
<1>1. PagesInit => MessageInv
  BY EmptyTyped, NoMessageTyped DEF PagesInit, Message!Init, MessageInv
<1> QED
  BY <1>1, MessageStep, PTL DEF PagesSpec

LEMMA MadeMessageSurvives ==
  ASSUME MessageInv
  PROVE  Message!HeaderSurvives
<1> SUFFICES ASSUME sent.header # <<>>
             PROVE  Message!ParseMessage(message) = sent
  BY DEF Message!HeaderSurvives
<1>1. /\ sent.header \in Message!Headers /\ sent.body \in Message!Texts
      /\ sent = Message!Message(sent.header, sent.body)
      /\ message = Message!MakeText(sent)
  BY DEF MessageInv, Message!Message
<1> DEFINE header == sent.header
           body   == sent.body
<1> HIDE DEF header, body
<1>2. Message!ParseMessage(Message!MakeText(Message!Message(header, body))) =
        Message!Message(header, body)
  BY <1>1, MadeComesApart DEF header, body
<1> QED
  BY <1>1, <1>2 DEF header, body

(***************************************************************************)
(* A header and the text after it come apart as they were put together,    *)
(* the list of messages hides nothing but headers, and the details repeat  *)
(* the text (makeTextMessage() and parseMessage() of Message), for texts   *)
(* of any length.                                                          *)
(***************************************************************************)
THEOREM MessagesSurvive == PagesSpec => []MessageSurvives
<1>1. MessageInv => MessageSurvives
  BY MadeMessageSurvives, OnlyHeadersHidden, FullRepeats
     DEF MessageInv, MessageSurvives
<1> QED
  BY <1>1, MessageHolds, PTL
-----------------------------------------------------------------------------
(***************************************************************************)
(* The amount: induction over numbers, for a set of them, and functions    *)
(* that are defined by recursion over a rank.  What the steps of the       *)
(* recursion do is a function H, as a lemma has no operator for it.        *)
(***************************************************************************)
LEMMA Induction ==
  ASSUME NEW S, 0 \in S, \A n \in Nat : n \in S => n + 1 \in S
  PROVE  \A n \in Nat : n \in S
<1> DEFINE bad == {n \in Nat : n \notin S}
<1> SUFFICES ASSUME bad # {} PROVE FALSE
  OBVIOUS
<1>1. PICK n \in bad : \A m \in bad : n <= m
  <2> HIDE DEF bad
  <2>1. bad \in SUBSET Nat
    BY DEF bad
  <2> QED
    BY <2>1, Least
<1>2. n # 0
  BY <1>1
<1>3. n - 1 \in Nat /\ n - 1 \notin bad
  BY <1>1, <1>2
<1>4. n - 1 \in S
  BY <1>3
<1>5. (n - 1) + 1 = n
  BY <1>1
<1> QED
  BY <1>1, <1>3, <1>4, <1>5

Contracts(W, V, rank, H) ==
  /\ rank \in [W -> Nat]
  /\ H \in [W -> [[W -> V] -> V]]
  /\ \A w \in W : \A f, g \in [W -> V] :
       (\A u \in W : rank[u] < rank[w] => f[u] = g[u]) => H[w][f] = H[w][g]

Solved(W, V, H) == \E f \in [W -> V] : \A w \in W : f[w] = H[w][f]

LEMMA Recursion ==
  ASSUME NEW W, NEW V, V # {}, NEW rank, NEW H, Contracts(W, V, rank, H)
  PROVE  Solved(W, V, H)
<1> USE DEF Contracts
<1> PICK default \in V : TRUE
  OBVIOUS
<1> DEFINE Upto(n) ==
             {f \in [W -> V] : \A w \in W : rank[w] < n => f[w] = H[w][f]}
<1>1. \A n \in Nat : Upto(n) # {}
  <2> DEFINE S == {n \in Nat : Upto(n) # {}}
  <2>1. 0 \in S
    <3> DEFINE f == [w \in W |-> default]
    <3>1. f \in [W -> V]
      OBVIOUS
    <3>2. \A w \in W : ~(rank[w] < 0)
      OBVIOUS
    <3> HIDE DEF f
    <3>3. f \in Upto(0)
      BY <3>1, <3>2
    <3> QED
      BY <3>3
  <2>2. ASSUME NEW n \in Nat, n \in S PROVE n + 1 \in S
    <3>1. PICK f \in [W -> V] :
            \A w \in W : rank[w] < n => f[w] = H[w][f]
      BY <2>2
    <3> DEFINE g == [w \in W |-> H[w][f]]
    <3>2. g \in [W -> V] /\ \A w \in W : g[w] = H[w][f]
      OBVIOUS
    <3> HIDE DEF g
    <3>3. ASSUME NEW w \in W, rank[w] < n + 1
          PROVE  g[w] = H[w][g]
      <4>1. ASSUME NEW u \in W, rank[u] < rank[w] PROVE f[u] = g[u]
        <5>1. rank[u] < n
          BY <3>3, <4>1
        <5> QED
          BY <3>1, <3>2, <5>1
      <4>2. H[w][f] = H[w][g]
        BY <3>2, <4>1 DEF Contracts
      <4> QED
        BY <3>2, <4>2
    <3>4. g \in Upto(n + 1)
      BY <3>2, <3>3
    <3> QED
      BY <3>4
  <2> HIDE DEF S
  <2>3. \A n \in Nat : n \in S
    BY <2>1, <2>2, Induction
  <2> QED
    BY <2>3 DEF S
<1>2. ASSUME NEW m \in Nat, NEW k \in Nat, NEW f \in Upto(m), NEW g \in Upto(k)
      PROVE  \A w \in W : rank[w] < m /\ rank[w] < k => f[w] = g[w]
  <2> DEFINE S == {n \in Nat : \A w \in W :
                     rank[w] < n /\ rank[w] < m /\ rank[w] < k => f[w] = g[w]}
  <2>1. 0 \in S
    OBVIOUS
  <2>2. ASSUME NEW n \in Nat, n \in S PROVE n + 1 \in S
    <3>1. SUFFICES ASSUME NEW w \in W, rank[w] < n + 1,
                          rank[w] < m, rank[w] < k
                   PROVE  f[w] = g[w]
      OBVIOUS
    <3>2. ASSUME NEW u \in W, rank[u] < rank[w] PROVE f[u] = g[u]
      <4>1. rank[u] < n /\ rank[u] < m /\ rank[u] < k
        BY <3>1, <3>2
      <4> QED
        BY <2>2, <4>1
    <3>3. H[w][f] = H[w][g]
      BY <3>2 DEF Contracts
    <3>4. f[w] = H[w][f] /\ g[w] = H[w][g]
      BY <3>1
    <3> QED
      BY <3>3, <3>4
  <2> HIDE DEF S
  <2>3. \A n \in Nat : n \in S
    BY <2>1, <2>2, Induction
  <2>4. SUFFICES ASSUME NEW w \in W, rank[w] < m, rank[w] < k
                 PROVE  f[w] = g[w]
    OBVIOUS
  <2>5. m \in S
    BY <2>3
  <2> QED
    BY <2>4, <2>5 DEF S
<1> DEFINE at(w)  == CHOOSE g \in Upto(rank[w] + 1) : TRUE
           whole == [w \in W |-> at(w)[w]]
<1>3. ASSUME NEW w \in W PROVE at(w) \in Upto(rank[w] + 1)
  <2>1. rank[w] + 1 \in Nat
    OBVIOUS
  <2> HIDE DEF Upto
  <2>2. Upto(rank[w] + 1) # {}
    BY <1>1, <2>1
  <2> QED
    BY <2>2
<1> HIDE DEF at
<1>4. ASSUME NEW w \in W PROVE at(w) \in [W -> V] /\ at(w)[w] = H[w][at(w)]
  <2>1. rank[w] < rank[w] + 1
    OBVIOUS
  <2> QED
    BY <1>3, <2>1
<1>5. whole \in [W -> V] /\ \A w \in W : whole[w] = at(w)[w]
  BY <1>4
<1> HIDE DEF whole
<1>6. ASSUME NEW w \in W PROVE whole[w] = H[w][whole]
  <2>1. ASSUME NEW u \in W, rank[u] < rank[w] PROVE at(w)[u] = whole[u]
    <3>1. rank[u] < rank[w] + 1 /\ rank[u] < rank[u] + 1
          /\ rank[u] + 1 \in Nat /\ rank[w] + 1 \in Nat
      BY <2>1
    <3>2. at(w) \in Upto(rank[w] + 1) /\ at(u) \in Upto(rank[u] + 1)
      BY <1>3
    <3> HIDE DEF Upto
    <3>3. at(w)[u] = at(u)[u]
      BY <1>2, <3>1, <3>2
    <3> QED
      BY <1>5, <3>3
  <2>2. H[w][at(w)] = H[w][whole]
    BY <1>4, <1>5, <2>1 DEF Contracts
  <2> QED
    BY <1>4, <1>5, <2>2
<1> QED
  BY <1>5, <1>6 DEF Solved

LEMMA StrongInduction ==
  ASSUME NEW S,
         \A n \in Nat : (\A m \in Nat : m < n => m \in S) => n \in S
  PROVE  \A n \in Nat : n \in S
<1> DEFINE upto == {n \in Nat : \A m \in Nat : m < n => m \in S}
<1>1. 0 \in upto
  OBVIOUS
<1>2. ASSUME NEW n \in Nat, n \in upto PROVE n + 1 \in upto
  <2>1. n \in S
    BY <1>2
  <2>2. \A m \in Nat : m < n + 1 => m < n \/ m = n
    OBVIOUS
  <2> QED
    BY <1>2, <2>1, <2>2
<1> HIDE DEF upto
<1>3. \A n \in Nat : n \in upto
  BY <1>1, <1>2, Induction
<1> QED
  BY <1>3 DEF upto

(***************************************************************************)
(* Sequences by their last element.                                        *)
(***************************************************************************)
LEMMA Longer ==
  ASSUME NEW S, NEW s \in Seq(S), NEW e \in S
  PROVE  /\ Append(s, e) \in Seq(S) /\ Len(s) \in Nat
         /\ DOMAIN s = 1 .. Len(s)
         /\ Len(Append(s, e)) = Len(s) + 1
         /\ DOMAIN Append(s, e) = 1 .. Len(s) + 1
         /\ Append(s, e)[Len(s) + 1] = e
         /\ \A k \in 1 .. Len(s) : Append(s, e)[k] = s[k]
<1>1. Append(s, e) \in Seq(S) /\ Len(Append(s, e)) = Len(s) + 1
  OBVIOUS
<1>2. Len(s) \in Nat /\ DOMAIN s = 1 .. Len(s)
  BY LenProperties
<1>3. DOMAIN Append(s, e) = 1 .. Len(s) + 1
  BY <1>1, LenProperties
<1>4. /\ Append(s, e)[Len(s) + 1] = e
      /\ \A k \in 1 .. Len(s) : Append(s, e)[k] = s[k]
  OBVIOUS
<1> QED
  BY <1>1, <1>2, <1>3, <1>4

LEMMA Wider ==
  ASSUME NEW S, NEW T, S \subseteq T, NEW s \in Seq(S)
  PROVE  s \in Seq(T)
<1>1. s \in [1 .. Len(s) -> S] /\ Len(s) \in Nat
  BY LenProperties
<1>2. s \in [1 .. Len(s) -> T]
  BY <1>1
<1> QED
  BY <1>1, <1>2, IsASeq

LEMMA SplitLast ==
  ASSUME NEW S, NEW s \in Seq(S), NEW n \in Nat, Len(s) = n + 1
  PROVE  /\ SubSeq(s, 1, n) \in Seq(S) /\ Len(SubSeq(s, 1, n)) = n
         /\ s[n + 1] \in S
         /\ s = Append(SubSeq(s, 1, n), s[n + 1])
<1> DEFINE front == SubSeq(s, 1, n)
           e     == s[n + 1]
<1>1. s \in [1 .. n + 1 -> S]
  BY LenProperties
<1>2. /\ front \in Seq(S) /\ Len(front) = n
      /\ \A k \in 1 .. n : front[k] = s[k]
  <2>1. front = [k \in 1 .. n |-> s[k]]
    BY <1>1
  <2> HIDE DEF front
  <2>2. front \in [1 .. n -> S]
    BY <1>1, <2>1
  <2>3. front \in Seq(S)
    BY <2>2, IsASeq
  <2>4. Len(front) = n
    BY <1>1 DEF front
  <2> QED
    BY <2>1, <2>3, <2>4
<1>3. e \in S
  BY <1>1
<1> HIDE DEF front, e
<1>4. /\ Append(front, e) \in Seq(S) /\ Len(Append(front, e)) = n + 1
      /\ Append(front, e)[n + 1] = e
      /\ \A k \in 1 .. n : Append(front, e)[k] = s[k]
  BY <1>2, <1>3, Longer
<1>5. \A k \in 1 .. n + 1 : Append(front, e)[k] = s[k]
  <2>1. \A k \in 1 .. n + 1 : k \in 1 .. n \/ k = n + 1
    OBVIOUS
  <2> QED
    BY <1>4, <2>1 DEF e
<1>6. Append(front, e) \in [1 .. n + 1 -> S]
  BY <1>4, LenProperties
<1>7. s = Append(front, e)
  BY <1>1, <1>5, <1>6
<1> QED
  BY <1>2, <1>3, <1>7 DEF front, e

LEMMA SameSeq ==
  ASSUME NEW S, NEW s \in Seq(S), NEW T, NEW t \in Seq(T), Len(s) = Len(t),
         \A k \in 1 .. Len(s) : s[k] = t[k]
  PROVE  s = t
<1>1. /\ s \in [1 .. Len(s) -> S] /\ t \in [1 .. Len(s) -> T]
  BY LenProperties
<1>2. s = [k \in 1 .. Len(s) |-> s[k]] /\ t = [k \in 1 .. Len(s) |-> t[k]]
  BY <1>1
<1> QED
  BY <1>2

LEMMA Joined ==
  ASSUME NEW S, NEW s \in Seq(S), NEW t \in Seq(S)
  PROVE  /\ s \o t \in Seq(S) /\ Len(s) \in Nat /\ Len(t) \in Nat
         /\ Len(s \o t) = Len(s) + Len(t)
         /\ \A k \in 1 .. Len(s) : (s \o t)[k] = s[k]
         /\ \A k \in 1 .. Len(t) : (s \o t)[Len(s) + k] = t[k]
<1>1. s \o t \in Seq(S)
  OBVIOUS
<1>2. Len(s) \in Nat /\ Len(t) \in Nat /\ Len(s \o t) = Len(s) + Len(t)
  OBVIOUS
<1>3. ASSUME NEW k \in 1 .. Len(s) PROVE (s \o t)[k] = s[k]
  BY <1>2
<1>4. ASSUME NEW k \in 1 .. Len(t) PROVE (s \o t)[Len(s) + k] = t[k]
  BY <1>2
<1> QED
  BY <1>1, <1>2, <1>3, <1>4

LEMMA Part ==
  ASSUME NEW S, NEW s \in Seq(S), NEW i \in 1 .. Len(s) + 1,
         NEW j \in Nat, i - 1 <= j, j <= Len(s)
  PROVE  /\ SubSeq(s, i, j) \in Seq(S)
         /\ Len(SubSeq(s, i, j)) = j - i + 1
         /\ \A k \in 1 .. j - i + 1 : SubSeq(s, i, j)[k] = s[i - 1 + k]
<1>1. Len(s) \in Nat /\ \A k \in 1 .. Len(s) : s[k] \in S
  BY LenProperties
<1>2. \A k \in i .. j : s[k] \in S
  BY <1>1
<1>3. SubSeq(s, i, j) \in Seq(S)
  BY <1>1, <1>2
<1>4. Len(SubSeq(s, i, j)) = j - i + 1
  BY <1>1
<1>5. ASSUME NEW k \in 1 .. j - i + 1
      PROVE  SubSeq(s, i, j)[k] = s[i - 1 + k]
  <2>1. SubSeq(s, i, j)[k] = s[i + k - 1] /\ i + k - 1 = i - 1 + k
    BY <1>1
  <2> QED
    BY <2>1
<1> QED
  BY <1>3, <1>4, <1>5
-----------------------------------------------------------------------------
(***************************************************************************)
(* A fold over a sequence takes its elements in their order: the function  *)
(* on sets of places that a fold is defined by exists, and on the first i  *)
(* places it is the one on the first i - 1 and then the step at i.         *)
(***************************************************************************)
LEMMA Greatest ==
  ASSUME NEW n \in Nat, NEW T \in SUBSET (1 .. n), T # {}
  PROVE  Amount!Max(T) \in T /\ \A m \in T : m <= Amount!Max(T)
<1> DEFINE room == {n - m : m \in T}
<1>1. room \in SUBSET Nat /\ room # {}
  OBVIOUS
<1> HIDE DEF room
<1>2. PICK least \in room : \A j \in room : least <= j
  BY <1>1, Least
<1>3. PICK top \in T : least = n - top
  BY <1>2 DEF room
<1>4. \A m \in T : n - m \in room
  BY DEF room
<1>5. \A m \in T : top >= m
  <2>1. ASSUME NEW m \in T PROVE top >= m
    <3>1. n - top <= n - m
      BY <1>2, <1>3, <1>4
    <3> QED
      BY <3>1
  <2> QED
    BY <2>1
<1>6. /\ Amount!Max(T) \in T
      /\ \A m \in T : Amount!Max(T) >= m
  BY <1>3, <1>5 DEF Amount!Max
<1> QED
  BY <1>6

LEMMA Top ==
  ASSUME NEW n \in Nat, NEW i \in 1 .. n
  PROVE  /\ 1 .. i \in SUBSET (1 .. n) /\ 1 .. i # {}
         /\ Amount!Max(1 .. i) = i /\ (1 .. i) \ {i} = 1 .. i - 1
<1>1. 1 .. i \in SUBSET (1 .. n) /\ i \in 1 .. i
  OBVIOUS
<1>2. /\ Amount!Max(1 .. i) \in 1 .. i
      /\ \A m \in 1 .. i : m <= Amount!Max(1 .. i)
  BY <1>1, Greatest
<1>3. Amount!Max(1 .. i) = i
  BY <1>1, <1>2
<1>4. (1 .. i) \ {i} = 1 .. i - 1
  OBVIOUS
<1> QED
  BY <1>1, <1>3, <1>4

Steps(n, V, start, step) ==
  n \in Nat /\ start \in V /\ step \in [V \X (1 .. n) -> V]

Chained(n, V, start, step) ==
  \E f \in [SUBSET (1 .. n) -> V] : \A T \in SUBSET (1 .. n) :
    f[T] = IF T = {} THEN start
           ELSE step[<<f[T \ {Amount!Max(T)}], Amount!Max(T)>>]

LEMMA Chain ==
  ASSUME NEW n, NEW V, NEW start, NEW step, Steps(n, V, start, step)
  PROVE  Chained(n, V, start, step)
<1> USE DEF Steps
<1> DEFINE W    == SUBSET (1 .. n)
           rank == [T \in W |-> IF T = {} THEN 0 ELSE Amount!Max(T)]
           H    == [T \in W |-> [f \in [W -> V] |->
                      IF T = {} THEN start
                      ELSE step[<<f[T \ {Amount!Max(T)}], Amount!Max(T)>>]]]
<1>1. \A T \in W : T # {} =>
        /\ T \ {Amount!Max(T)} \in W
        /\ Amount!Max(T) \in 1 .. n
  BY Greatest
<1>2. rank \in [W -> Nat]
  BY <1>1
<1>3. ASSUME NEW T \in W, NEW f \in [W -> V]
      PROVE  /\ H[T][f] \in V
             /\ H[T][f] =
                  IF T = {} THEN start
                  ELSE step[<<f[T \ {Amount!Max(T)}], Amount!Max(T)>>]
  <2>1. CASE T = {}
    BY <2>1
  <2>2. CASE T # {}
    <3>1. f[T \ {Amount!Max(T)}] \in V /\ Amount!Max(T) \in 1 .. n
      BY <1>1, <2>2
    <3> QED
      BY <2>2, <3>1
  <2> QED
    BY <2>1, <2>2
<1>4. ASSUME NEW T \in W, T # {}
      PROVE  rank[T \ {Amount!Max(T)}] < rank[T]
  <2>1. Amount!Max(T) \in 1 .. n /\ \A m \in T : m <= Amount!Max(T)
    BY <1>4, Greatest
  <2>2. rank[T] = Amount!Max(T)
    BY <1>4
  <2> DEFINE less == T \ {Amount!Max(T)}
  <2>3. less \in W
    OBVIOUS
  <2>4. CASE less = {}
    BY <2>1, <2>2, <2>4
  <2>5. CASE less # {}
    <3>1. Amount!Max(less) \in less
      BY <2>3, <2>5, Greatest
    <3>2. Amount!Max(less) \in T /\ Amount!Max(less) # Amount!Max(T)
      BY <3>1
    <3>3. Amount!Max(less) \in 1 .. n
      BY <3>2
    <3>4. rank[less] = Amount!Max(less)
      BY <2>3, <2>5
    <3>5. Amount!Max(less) < Amount!Max(T)
      BY <2>1, <3>2, <3>3
    <3> QED
      BY <2>2, <3>4, <3>5
  <2> QED
    BY <2>4, <2>5
<1>5. H \in [W -> [[W -> V] -> V]]
  <2>1. \A T \in W : H[T] = [f \in [W -> V] |->
                      IF T = {} THEN start
                      ELSE step[<<f[T \ {Amount!Max(T)}], Amount!Max(T)>>]]
    OBVIOUS
  <2>2. \A T \in W : H[T] \in [[W -> V] -> V]
    BY <1>3, <2>1
  <2> QED
    BY <2>2
<1> HIDE DEF rank, H
<1>6. Contracts(W, V, rank, H)
  <2> SUFFICES ASSUME NEW T \in W, NEW f \in [W -> V], NEW g \in [W -> V],
                      \A u \in W : rank[u] < rank[T] => f[u] = g[u]
               PROVE  H[T][f] = H[T][g]
    BY <1>2, <1>5 DEF Contracts
  <2>1. CASE T = {}
    BY <1>3, <2>1
  <2>2. CASE T # {}
    <3>1. f[T \ {Amount!Max(T)}] = g[T \ {Amount!Max(T)}]
      BY <1>1, <1>4, <2>2
    <3>2. /\ H[T][f] = step[<<f[T \ {Amount!Max(T)}], Amount!Max(T)>>]
          /\ H[T][g] = step[<<g[T \ {Amount!Max(T)}], Amount!Max(T)>>]
      BY <1>3, <2>2
    <3> QED
      BY <3>1, <3>2
  <2> QED
    BY <2>1, <2>2
<1>7. Solved(W, V, H)
  <2>1. V # {}
    OBVIOUS
  <2> HIDE DEF W
  <2> QED
    BY ONLY <1>6, <2>1, Recursion
<1>8. PICK f \in [W -> V] : \A T \in W : f[T] = H[T][f]
  BY <1>7 DEF Solved
<1>9. ASSUME NEW T \in W
      PROVE  f[T] = IF T = {} THEN start
                    ELSE step[<<f[T \ {Amount!Max(T)}], Amount!Max(T)>>]
  BY <1>3, <1>8
<1> QED
  BY ONLY <1>9, f \in [W -> V] DEF Chained

LEMMA ConstantsOfAmounts ==
  /\ Base \in Nat /\ Base >= 2 /\ Decimals \in Nat /\ Decimals >= 2
  /\ MaxAmount \in Nat /\ MaxLength \in Nat
BY FieldsAssumption

Folds(n, V, start, step, g) ==
  /\ g[{}] = start
  /\ \A T \in SUBSET (1 .. n) :
       T # {} /\ g[T \ {Amount!Max(T)}] \in V
         => g[T] = step[<<g[T \ {Amount!Max(T)}], Amount!Max(T)>>]

Runs(n, V, start, step, result) ==
  \E f \in [0 .. n -> V] :
    /\ f[0] = start /\ f[n] = result
    /\ \A i \in 1 .. n : f[i] = step[<<f[i - 1], i>>]

LEMMA Fold ==
  ASSUME NEW n, NEW V, NEW start, NEW step, Steps(n, V, start, step),
         NEW g, Folds(n, V, start, step, g)
  PROVE  Runs(n, V, start, step, g[1 .. n])
<1> USE DEF Steps, Folds
<1>1. 1 .. 0 = {}
  OBVIOUS
<1>2. ASSUME NEW i \in 1 .. n, g[1 .. i - 1] \in V
      PROVE  /\ g[1 .. i] = step[<<g[1 .. i - 1], i>>]
             /\ g[1 .. i] \in V
  <2>1. /\ 1 .. i \in SUBSET (1 .. n) /\ 1 .. i # {}
        /\ Amount!Max(1 .. i) = i /\ (1 .. i) \ {i} = 1 .. i - 1
    BY Top
  <2>2. g[1 .. i] = step[<<g[1 .. i - 1], i>>]
    BY <1>2, <2>1
  <2>3. <<g[1 .. i - 1], i>> \in V \X (1 .. n)
    BY <1>2
  <2> QED
    BY <2>2, <2>3
<1> DEFINE S == {i \in Nat : i <= n => g[1 .. i] \in V}
<1>3. 0 \in S
  BY <1>1
<1>4. ASSUME NEW i \in Nat, i \in S PROVE i + 1 \in S
  <2>1. CASE i + 1 <= n
    <3>1. i + 1 \in 1 .. n /\ (i + 1) - 1 = i
      BY <2>1
    <3>2. g[1 .. (i + 1) - 1] \in V
      BY <1>4, <2>1, <3>1
    <3>3. g[1 .. i + 1] \in V
      BY <1>2, <3>1, <3>2
    <3> QED
      BY <3>3
  <2>2. CASE ~(i + 1 <= n)
    BY <2>2
  <2> QED
    BY <2>1, <2>2
<1> HIDE DEF S
<1>5. \A i \in Nat : i \in S
  BY <1>3, <1>4, Induction
<1>6. \A i \in 0 .. n : g[1 .. i] \in V
  BY <1>5 DEF S
<1> DEFINE f == [i \in 0 .. n |-> g[1 .. i]]
<1>7. f \in [0 .. n -> V] /\ \A i \in 0 .. n : f[i] = g[1 .. i]
  BY <1>6
<1> HIDE DEF f
<1>8. ASSUME NEW i \in 1 .. n PROVE f[i] = step[<<f[i - 1], i>>]
  <2>1. i - 1 \in 0 .. n /\ i \in 0 .. n
    OBVIOUS
  <2>2. f[i] = g[1 .. i] /\ f[i - 1] = g[1 .. i - 1] /\ g[1 .. i - 1] \in V
    BY <1>6, <1>7, <2>1
  <2> QED
    BY <1>2, <2>2
<1>9. f[0] = start /\ f[n] = g[1 .. n]
  <2>1. 0 \in 0 .. n /\ n \in 0 .. n
    OBVIOUS
  <2> QED
    BY <1>1, <1>7, <2>1
<1> QED
  BY <1>7, <1>8, <1>9 DEF Runs

LEMMA ValueRuns ==
  ASSUME NEW s \in Seq(Nat)
  PROVE  \E f \in [0 .. Len(s) -> Nat] :
           /\ f[0] = 0 /\ f[Len(s)] = Amount!ValueOf(s)
           /\ \A i \in 1 .. Len(s) : f[i] = f[i - 1] * Base + s[i]
<1> DEFINE n == Len(s)
           It(f) == [T \in SUBSET (DOMAIN s) |->
                       IF T = {} THEN 0
                       ELSE f[T \ {Amount!Max(T)}] * Base + s[Amount!Max(T)]]
           g     == CHOOSE f : f = It(f)
           step  == [p \in Nat \X (1 .. n) |-> p[1] * Base + s[p[2]]]
<1>1. Amount!ValueOf(s) = g[DOMAIN s]
  BY Zenon DEF Amount!ValueOf, Amount!FoldLeft, Amount!MapThenFoldSet
<1>2. n \in Nat /\ DOMAIN s = 1 .. n /\ \A i \in 1 .. n : s[i] \in Nat
  BY LenProperties
<1>3. \A v \in Nat, i \in 1 .. n : v * Base + s[i] \in Nat
  BY <1>2, ConstantsOfAmounts
<1>4. /\ Steps(n, Nat, 0, step)
      /\ \A v \in Nat, i \in 1 .. n : step[<<v, i>>] = v * Base + s[i]
  BY <1>2, <1>3 DEF Steps
<1> HIDE DEF step
<1>5. ASSUME NEW T \in SUBSET (1 .. n), T # {}
      PROVE  Amount!Max(T) \in 1 .. n
  BY <1>2, <1>5, Greatest
<1>6. \E f : f = It(f)
  <2>1. Chained(n, Nat, 0, step)
    BY <1>4, Chain
  <2>2. PICK f \in [SUBSET (1 .. n) -> Nat] : \A T \in SUBSET (1 .. n) :
           f[T] = IF T = {} THEN 0
                  ELSE step[<<f[T \ {Amount!Max(T)}], Amount!Max(T)>>]
    BY <2>1 DEF Chained
  <2>3. ASSUME NEW T \in SUBSET (1 .. n)
        PROVE  f[T] = IF T = {} THEN 0
                      ELSE f[T \ {Amount!Max(T)}] * Base + s[Amount!Max(T)]
    <3>1. T \ {Amount!Max(T)} \in SUBSET (1 .. n)
      OBVIOUS
    <3>2. f[T \ {Amount!Max(T)}] \in Nat
      BY <3>1
    <3> QED
      BY <1>4, <1>5, <2>2, <3>2
  <2>4. f = It(f)
    BY <1>2, <2>3
  <2> QED
    BY <2>4
<1>7. g = It(g)
  BY <1>6
<1> HIDE DEF g
<1>8. Folds(n, Nat, 0, step, g)
  <2>1. g[{}] = 0 /\ \A T \in SUBSET (1 .. n) : T # {} =>
          g[T] = g[T \ {Amount!Max(T)}] * Base + s[Amount!Max(T)]
    BY <1>2, <1>7
  <2> QED
    BY <1>4, <1>5, <2>1 DEF Folds
<1>9. Runs(n, Nat, 0, step, g[1 .. n])
  BY <1>4, <1>8, Fold
<1>10. PICK f \in [0 .. n -> Nat] :
        /\ f[0] = 0 /\ f[n] = g[1 .. n]
        /\ \A i \in 1 .. n : f[i] = step[<<f[i - 1], i>>]
  BY <1>9 DEF Runs
<1>11. ASSUME NEW i \in 1 .. n PROVE f[i] = f[i - 1] * Base + s[i]
  <2>1. i - 1 \in 0 .. n
    BY ONLY <1>2, i \in 1 .. n
  <2>2. f[i - 1] \in Nat
    BY ONLY <2>1, f \in [0 .. n -> Nat]
  <2> QED
    BY <1>4, <1>10, <2>2
<1> QED
  BY <1>1, <1>2, <1>10, <1>11

(***************************************************************************)
(* The powers of the base, and the digits of a number.                     *)
(***************************************************************************)
LEMMA Powers ==
  /\ Amount!Power[0] = 1
  /\ \A n \in Nat : /\ Amount!Power[n] \in Nat
                    /\ Amount!Power[n + 1] = Amount!Power[n] * Base
<1> DEFINE It(f) == [n \in Nat |-> IF n = 0 THEN 1 ELSE f[n - 1] * Base]
           g     == CHOOSE f : f = It(f)
           H     == [n \in Nat |-> [f \in [Nat -> Nat] |->
                       IF n = 0 THEN 1 ELSE f[n - 1] * Base]]
           rank  == [n \in Nat |-> n]
<1>1. Amount!Power = g
  BY Zenon DEF Amount!Power
<1>2. ASSUME NEW n \in Nat, NEW f \in [Nat -> Nat]
      PROVE  /\ H[n][f] \in Nat
             /\ H[n][f] = IF n = 0 THEN 1 ELSE f[n - 1] * Base
  <2>1. CASE n = 0
    BY <2>1
  <2>2. CASE n # 0
    <3>1. n - 1 \in Nat
      BY <2>2
    <3>2. f[n - 1] * Base \in Nat
      BY <3>1, ConstantsOfAmounts
    <3> QED
      BY <2>2, <3>2
  <2> QED
    BY <2>1, <2>2
<1>3. Contracts(Nat, Nat, rank, H)
  <2>1. H \in [Nat -> [[Nat -> Nat] -> Nat]]
    <3>1. \A n \in Nat : H[n] = [f \in [Nat -> Nat] |->
                                   IF n = 0 THEN 1 ELSE f[n - 1] * Base]
      OBVIOUS
    <3>2. \A n \in Nat : H[n] \in [[Nat -> Nat] -> Nat]
      BY <1>2, <3>1
    <3> QED
      BY <3>2
  <2> HIDE DEF H
  <2>2. ASSUME NEW n \in Nat, NEW f \in [Nat -> Nat], NEW h \in [Nat -> Nat],
               \A m \in Nat : rank[m] < rank[n] => f[m] = h[m]
        PROVE  H[n][f] = H[n][h]
    <3>1. n # 0 => n - 1 \in Nat /\ n - 1 < n
      OBVIOUS
    <3>2. n # 0 => f[n - 1] = h[n - 1]
      BY <2>2, <3>1
    <3>3. /\ H[n][f] = IF n = 0 THEN 1 ELSE f[n - 1] * Base
          /\ H[n][h] = IF n = 0 THEN 1 ELSE h[n - 1] * Base
      BY <1>2
    <3> QED
      BY <3>2, <3>3
  <2> QED
    BY <2>1, <2>2 DEF Contracts
<1>4. PICK f \in [Nat -> Nat] : \A n \in Nat : f[n] = H[n][f]
  <2> HIDE DEF H, rank
  <2>1. Solved(Nat, Nat, H)
    BY <1>3, Recursion
  <2> QED
    BY <2>1 DEF Solved
<1>5. f = It(f)
  BY <1>2, <1>4
<1>6. g = It(g)
  BY <1>5
<1> HIDE DEF g
<1>7. /\ g[0] = 1
      /\ \A n \in Nat : g[n + 1] = g[n] * Base
  BY <1>6
<1> DEFINE S == {n \in Nat : g[n] \in Nat}
<1>8. 0 \in S
  BY <1>7
<1>9. \A n \in Nat : n \in S => n + 1 \in S
  BY <1>7, ConstantsOfAmounts
<1> HIDE DEF S
<1>10. \A n \in Nat : n \in S
  BY <1>8, <1>9, Induction
<1> QED
  BY <1>1, <1>7, <1>10 DEF S

LEMMA Divided ==
  ASSUME NEW n \in Nat
  PROVE  \E d \in Nat, r \in 0 .. Base - 1 :
           /\ d = n \div Base /\ r = n % Base /\ n = d * Base + r
           /\ n >= Base => d < n /\ d # 0
<1>1. Base \in Nat /\ Base >= 2
  BY ConstantsOfAmounts
<1>2. n \div Base \in Nat /\ n % Base \in 0 .. Base - 1
  BY <1>1
<1>3. n - Base * (n \div Base) = n % Base
  BY <1>1
<1>4. n >= Base => n \div Base \in 0 .. n - 1
  BY <1>1
<1> DEFINE d == n \div Base
           r == n % Base
<1>5. /\ d \in Nat /\ r \in 0 .. Base - 1 /\ n - Base * d = r
      /\ n >= Base => d \in 0 .. n - 1
  BY <1>2, <1>3, <1>4
<1> HIDE DEF d, r
<1>6. Base * d \in Nat /\ Base * d = d * Base
  BY <1>1, <1>5
<1>7. n = d * Base + r
  BY <1>5, <1>6
<1>8. ASSUME n >= Base PROVE d < n /\ d # 0
  <2>1. SUFFICES ASSUME d = 0 PROVE FALSE
    BY <1>5, <1>8
  <2>2. d * Base = 0
    BY <1>1, <2>1
  <2> QED
    BY <1>1, <1>5, <1>7, <1>8, <2>2
<1>9. /\ d \in Nat /\ r \in 0 .. Base - 1 /\ n = d * Base + r
      /\ n >= Base => d < n /\ d # 0
  BY <1>5, <1>7, <1>8
<1>10. d = n \div Base /\ r = n % Base
  BY DEF d, r
<1> QED
  BY <1>9, <1>10

LEMMA Numbers ==
  ASSUME NEW n \in Nat
  PROVE  Amount!Number[n] = IF n < Base THEN <<n>>
                            ELSE Append(Amount!Number[n \div Base], n % Base)
<1> DEFINE V     == Seq(Nat)
           It(f) == [m \in Nat |-> IF m < Base THEN <<m>>
                                   ELSE Append(f[m \div Base], m % Base)]
           g     == CHOOSE f : f = It(f)
           H     == [m \in Nat |-> [f \in [Nat -> V] |->
                       IF m < Base THEN <<m>>
                       ELSE Append(f[m \div Base], m % Base)]]
           rank  == [m \in Nat |-> m]
<1>1. Amount!Number = g
  BY Zenon DEF Amount!Number
<1>2. ASSUME NEW m \in Nat, NEW f \in [Nat -> V]
      PROVE  /\ H[m][f] \in V
             /\ H[m][f] = IF m < Base THEN <<m>>
                          ELSE Append(f[m \div Base], m % Base)
  <2>1. m \div Base \in Nat /\ m % Base \in Nat
    BY Divided, ConstantsOfAmounts
  <2>2. f[m \div Base] \in V
    BY <2>1
  <2>3. Append(f[m \div Base], m % Base) \in V /\ <<m>> \in V
    BY <2>1, <2>2
  <2>4. H[m][f] = IF m < Base THEN <<m>>
                  ELSE Append(f[m \div Base], m % Base)
    OBVIOUS
  <2> QED
    BY <2>3, <2>4
<1>3. Contracts(Nat, V, rank, H)
  <2>1. H \in [Nat -> [[Nat -> V] -> V]]
    <3>1. \A m \in Nat : H[m] = [f \in [Nat -> V] |->
                       IF m < Base THEN <<m>>
                       ELSE Append(f[m \div Base], m % Base)]
      OBVIOUS
    <3>2. \A m \in Nat : H[m] \in [[Nat -> V] -> V]
      BY <1>2, <3>1
    <3> QED
      BY <3>2
  <2> HIDE DEF H
  <2>2. ASSUME NEW m \in Nat, NEW f \in [Nat -> V], NEW h \in [Nat -> V],
               \A k \in Nat : rank[k] < rank[m] => f[k] = h[k]
        PROVE  H[m][f] = H[m][h]
    <3>1. ~(m < Base) => m \div Base \in Nat /\ m \div Base < m
      <4>1. ~(m < Base) => m >= Base
        BY ConstantsOfAmounts
      <4>2. /\ m \div Base \in Nat
            /\ m >= Base => m \div Base < m /\ m \div Base # 0
        BY Divided
      <4> QED
        BY <4>1, <4>2
    <3>2. ~(m < Base) => f[m \div Base] = h[m \div Base]
      BY <2>2, <3>1
    <3>3. /\ H[m][f] = IF m < Base THEN <<m>>
                       ELSE Append(f[m \div Base], m % Base)
          /\ H[m][h] = IF m < Base THEN <<m>>
                       ELSE Append(h[m \div Base], m % Base)
      BY <1>2
    <3> QED
      BY <3>2, <3>3
  <2> QED
    BY <2>1, <2>2 DEF Contracts
<1>4. PICK f \in [Nat -> V] : \A m \in Nat : f[m] = H[m][f]
  <2>1. V # {}
    <3>1. <<>> \in V
      OBVIOUS
    <3> QED
      BY <3>1
  <2> HIDE DEF H, rank, V
  <2>2. Solved(Nat, V, H)
    BY <1>3, <2>1, Recursion
  <2> QED
    BY <2>2 DEF Solved
<1>5. f = It(f)
  BY <1>2, <1>4
<1>6. g = It(g)
  BY <1>5
<1> HIDE DEF g
<1> QED
  BY <1>1, <1>6

LEMMA ValueOfNone == Amount!ValueOf(<<>>) = 0
<1>1. <<>> \in Seq(Nat) /\ Len(<<>>) = 0
  OBVIOUS
<1>2. PICK f \in [0 .. Len(<<>>) -> Nat] :
        f[0] = 0 /\ f[Len(<<>>)] = Amount!ValueOf(<<>>)
  BY <1>1, ValueRuns
<1> QED
  BY <1>1, <1>2

LEMMA ValueOfLonger ==
  ASSUME NEW s \in Seq(Nat), NEW e \in Nat
  PROVE  /\ Amount!ValueOf(s) \in Nat
         /\ Amount!ValueOf(Append(s, e)) = Amount!ValueOf(s) * Base + e
<1> DEFINE n == Len(s)
           t == Append(s, e)
<1>1. /\ t \in Seq(Nat) /\ n \in Nat /\ Len(t) = n + 1
      /\ t[n + 1] = e /\ \A k \in 1 .. n : t[k] = s[k]
  BY Longer
<1> HIDE DEF t
<1>2. PICK f \in [0 .. n -> Nat] :
        /\ f[0] = 0 /\ f[n] = Amount!ValueOf(s)
        /\ \A i \in 1 .. n : f[i] = f[i - 1] * Base + s[i]
  BY ValueRuns
<1>3. PICK h \in [0 .. Len(t) -> Nat] :
        /\ h[0] = 0 /\ h[Len(t)] = Amount!ValueOf(t)
        /\ \A i \in 1 .. Len(t) : h[i] = h[i - 1] * Base + t[i]
  BY <1>1, ValueRuns
<1> DEFINE S == {i \in Nat : i <= n => f[i] = h[i]}
<1>4. 0 \in S
  BY <1>2, <1>3
<1>5. ASSUME NEW i \in Nat, i \in S PROVE i + 1 \in S
  <2>1. CASE i + 1 <= n
    <3>1. i + 1 \in 1 .. n /\ i + 1 \in 1 .. Len(t) /\ (i + 1) - 1 = i
      BY <1>1, <2>1
    <3>2. f[i] = h[i] /\ t[i + 1] = s[i + 1]
      BY <1>1, <1>5, <2>1, <3>1
    <3>3. /\ f[i + 1] = f[i] * Base + s[i + 1]
          /\ h[i + 1] = h[i] * Base + t[i + 1]
      BY <1>2, <1>3, <3>1
    <3> QED
      BY <3>2, <3>3
  <2>2. CASE ~(i + 1 <= n)
    BY <2>2
  <2> QED
    BY <2>1, <2>2
<1> HIDE DEF S
<1>6. n \in S
  BY <1>1, <1>4, <1>5, Induction
<1>7. f[n] = h[n]
  BY <1>1, <1>6 DEF S
<1>8. h[n + 1] = h[n] * Base + t[n + 1]
  <2>1. n + 1 \in 1 .. Len(t) /\ (n + 1) - 1 = n
    BY <1>1
  <2> QED
    BY <1>3, <2>1
<1>9. f[n] \in Nat
  <2>1. n \in 0 .. n
    BY ONLY <1>1
  <2> QED
    BY ONLY <2>1, f \in [0 .. n -> Nat]
<1> QED
  BY <1>1, <1>2, <1>3, <1>7, <1>8, <1>9 DEF t

(***************************************************************************)
(* The digits of a number are worth it, and the first is not 0 unless it   *)
(* is the only one.                                                        *)
(***************************************************************************)
LEMMA ZerosTyped ==
  ASSUME NEW n \in Nat
  PROVE  /\ Amount!Zeros(n) \in Seq({0}) /\ Amount!Zeros(n) \in Seq(Nat)
         /\ Len(Amount!Zeros(n)) = n
         /\ \A i \in 1 .. n : Amount!Zeros(n)[i] = 0
<1>1. /\ Amount!Zeros(n) \in [1 .. n -> {0}]
      /\ Amount!Zeros(n) \in [1 .. n -> Nat]
      /\ DOMAIN Amount!Zeros(n) = 1 .. n
      /\ \A i \in 1 .. n : Amount!Zeros(n)[i] = 0
  BY DEF Amount!Zeros
<1>2. Amount!Zeros(n) \in Seq({0}) /\ Amount!Zeros(n) \in Seq(Nat)
  BY <1>1, IsASeq
<1>3. Len(Amount!Zeros(n)) = n
  BY <1>1, <1>2, LenProperties
<1> QED
  BY <1>1, <1>2, <1>3

LEMMA NumberIsWorthIt ==
  ASSUME NEW n \in Nat
  PROVE  LET s == Amount!Number[n]
         IN /\ s \in Seq(Amount!Digits) /\ Len(s) >= 1
            /\ Amount!ValueOf(s) = n
            /\ Len(s) > 1 => s[1] # 0
<1> DEFINE Good(m) ==
             LET s == Amount!Number[m]
             IN /\ s \in Seq(Amount!Digits) /\ Len(s) >= 1
                /\ Amount!ValueOf(s) = m
                /\ m # 0 => s[1] # 0
                /\ m = 0 => Len(s) = 1
           S == {m \in Nat : Good(m)}
<1>1. ASSUME NEW m \in Nat, \A k \in Nat : k < m => k \in S
      PROVE  m \in S
  <2>1. CASE m < Base
    <3>1. Amount!Number[m] = <<m>>
      BY <2>1, Numbers
    <3>2. m \in Amount!Digits
      BY <2>1, ConstantsOfAmounts DEF Amount!Digits
    <3>3. <<m>> \in Seq(Amount!Digits) /\ Len(<<m>>) = 1 /\ <<m>>[1] = m
      BY <3>2
    <3>4. Amount!ValueOf(<<m>>) = m
      <4>1. <<m>> = Append(<<>>, m) /\ <<>> \in Seq(Nat)
        OBVIOUS
      <4>2. Amount!ValueOf(<<m>>) = Amount!ValueOf(<<>>) * Base + m
        BY <4>1, ValueOfLonger
      <4>3. 0 * Base + m = m
        BY ConstantsOfAmounts
      <4> QED
        BY <4>2, <4>3, ValueOfNone
    <3>5. /\ Amount!Number[m] \in Seq(Amount!Digits)
          /\ Len(Amount!Number[m]) = 1 /\ Amount!Number[m][1] = m
          /\ Amount!ValueOf(Amount!Number[m]) = m
      BY <3>1, <3>3, <3>4
    <3> QED
      BY <3>5
  <2>2. CASE ~(m < Base)
    <3>1. PICK d \in Nat, r \in 0 .. Base - 1 :
            /\ d = m \div Base /\ r = m % Base /\ m = d * Base + r
            /\ m >= Base => d < m /\ d # 0
      BY Divided
    <3>2. d < m /\ d # 0
      BY <2>2, <3>1, ConstantsOfAmounts
    <3>3. Amount!Number[m] = Append(Amount!Number[d], r)
      BY <2>2, <3>1, Numbers
    <3> DEFINE s == Amount!Number[d]
    <3>4. /\ s \in Seq(Amount!Digits) /\ Len(s) >= 1
          /\ Amount!ValueOf(s) = d /\ s[1] # 0
      BY <1>1, <3>2
    <3>5. r \in Amount!Digits /\ Amount!Digits \subseteq Nat
      BY ConstantsOfAmounts DEF Amount!Digits
    <3> HIDE DEF s
    <3>6. /\ Append(s, r) \in Seq(Amount!Digits)
          /\ Len(Append(s, r)) = Len(s) + 1 /\ Len(s) \in Nat
          /\ \A k \in 1 .. Len(s) : Append(s, r)[k] = s[k]
      BY <3>4, <3>5, Longer
    <3>7. Append(s, r)[1] = s[1]
      BY <3>4, <3>6
    <3>8. Amount!ValueOf(Append(s, r)) = m
      <4>1. s \in Seq(Nat) /\ r \in Nat
        BY <3>4, <3>5, Wider
      <4> QED
        BY <3>1, <3>4, <4>1, ValueOfLonger
    <3>9. m # 0 /\ Len(s) + 1 >= 1
      BY <3>2, <3>6
    <3> QED
      BY <3>3, <3>4, <3>6, <3>7, <3>8, <3>9 DEF s
  <2> QED
    BY <2>1, <2>2
<1> HIDE DEF S
<1>2. n \in S
  BY <1>1, StrongInduction
<1>3. Good(n)
  BY <1>2 DEF S
<1> DEFINE s == Amount!Number[n]
<1>4. /\ s \in Seq(Amount!Digits) /\ Len(s) >= 1
      /\ Amount!ValueOf(s) = n
      /\ n # 0 => s[1] # 0
      /\ n = 0 => Len(s) = 1
  BY <1>3
<1> HIDE DEF s
<1>5. Len(s) > 1 => n # 0
  <2>1. SUFFICES ASSUME n = 0 PROVE ~(Len(s) > 1)
    OBVIOUS
  <2>2. Len(s) = 1
    BY <1>4, <2>1
  <2> QED
    BY <2>2
<1> QED
  BY <1>4, <1>5 DEF s

LEMMA JoinedLonger ==
  ASSUME NEW S, NEW s \in Seq(S), NEW t \in Seq(S), NEW e \in S
  PROVE  s \o Append(t, e) = Append(s \o t, e)
<1> DEFINE a == s \o Append(t, e)
           b == Append(s \o t, e)
<1>1. /\ s \o t \in Seq(S) /\ Len(s) \in Nat /\ Len(t) \in Nat
      /\ Len(s \o t) = Len(s) + Len(t)
      /\ \A k \in 1 .. Len(s) : (s \o t)[k] = s[k]
      /\ \A k \in 1 .. Len(t) : (s \o t)[Len(s) + k] = t[k]
  BY Joined
<1>2. /\ Append(t, e) \in Seq(S) /\ Len(Append(t, e)) = Len(t) + 1
      /\ Append(t, e)[Len(t) + 1] = e
      /\ \A k \in 1 .. Len(t) : Append(t, e)[k] = t[k]
  BY Longer
<1>3. /\ b \in Seq(S) /\ Len(b) = Len(s) + Len(t) + 1
      /\ b[Len(s) + Len(t) + 1] = e
      /\ \A k \in 1 .. Len(s) + Len(t) : b[k] = (s \o t)[k]
  BY <1>1, Longer
<1>4. /\ a \in Seq(S) /\ Len(a) = Len(s) + (Len(t) + 1)
      /\ \A k \in 1 .. Len(s) : a[k] = s[k]
      /\ \A k \in 1 .. Len(t) + 1 : a[Len(s) + k] = Append(t, e)[k]
  BY <1>2, Joined
<1> HIDE DEF a, b
<1>5. ASSUME NEW k \in 1 .. Len(a) PROVE a[k] = b[k]
  <2>1. CASE k \in 1 .. Len(s)
    <3>1. k \in 1 .. Len(s) + Len(t)
      BY <1>1, <2>1
    <3>2. a[k] = s[k] /\ b[k] = (s \o t)[k] /\ (s \o t)[k] = s[k]
      BY <1>1, <1>3, <1>4, <2>1, <3>1
    <3> QED
      BY <3>2
  <2>2. CASE k = Len(s) + (Len(t) + 1)
    <3>1. a[k] = Append(t, e)[Len(t) + 1]
      BY <1>1, <1>4, <2>2
    <3> QED
      BY <1>1, <1>2, <1>3, <2>2, <3>1
  <2>3. CASE ~(k \in 1 .. Len(s)) /\ k # Len(s) + (Len(t) + 1)
    <3>1. PICK j \in 1 .. Len(t) : k = Len(s) + j
      <4>1. k - Len(s) \in 1 .. Len(t) /\ k = Len(s) + (k - Len(s))
        BY <1>1, <1>4, <2>3
      <4> QED
        BY <4>1
    <3>2. j \in 1 .. Len(t) + 1 /\ k \in 1 .. Len(s) + Len(t)
      BY <1>1, <3>1
    <3>3. a[k] = Append(t, e)[j]
      BY <1>4, <3>1, <3>2
    <3>4. b[k] = (s \o t)[Len(s) + j]
      BY <1>3, <3>1, <3>2
    <3> QED
      BY <1>1, <1>2, <3>3, <3>4
  <2> QED
    BY <2>1, <2>2, <2>3
<1>6. a = b
  <2>1. Len(a) = Len(b)
    BY <1>1, <1>3, <1>4
  <2> QED
    BY <1>3, <1>4, <1>5, <2>1, SameSeq
<1> QED
  BY <1>6 DEF a, b

LEMMA JoinedNone ==
  ASSUME NEW S, NEW s \in Seq(S)
  PROVE  s \o <<>> = s /\ <<>> \o s = s
BY ConcatEmptySeq

LEMMA MoreZeros ==
  ASSUME NEW n \in Nat
  PROVE  /\ Amount!Zeros(0) = <<>>
         /\ Amount!Zeros(n + 1) = Append(Amount!Zeros(n), 0)
<1>1. /\ Amount!Zeros(n) \in Seq(Nat) /\ Len(Amount!Zeros(n)) = n
      /\ \A i \in 1 .. n : Amount!Zeros(n)[i] = 0
  BY ZerosTyped
<1>2. /\ Amount!Zeros(n + 1) \in Seq(Nat) /\ Len(Amount!Zeros(n + 1)) = n + 1
      /\ \A i \in 1 .. n + 1 : Amount!Zeros(n + 1)[i] = 0
  BY ZerosTyped
<1>3. Amount!Zeros(0) \in Seq(Nat) /\ Len(Amount!Zeros(0)) = 0
  BY ZerosTyped
<1>4. Amount!Zeros(0) = <<>>
  BY <1>3, EmptySeq
<1> DEFINE a == Append(Amount!Zeros(n), 0)
<1>5. /\ a \in Seq(Nat) /\ Len(a) = n + 1 /\ a[n + 1] = 0
      /\ \A k \in 1 .. n : a[k] = Amount!Zeros(n)[k]
  BY <1>1, Longer
<1>6. \A k \in 1 .. n + 1 : a[k] = 0
  <2>1. \A k \in 1 .. n + 1 : k = n + 1 \/ k \in 1 .. n
    OBVIOUS
  <2> QED
    BY <1>1, <1>5, <2>1
<1> HIDE DEF a
<1>7. Amount!Zeros(n + 1) = a
  BY <1>2, <1>5, <1>6, SameSeq
<1> QED
  BY <1>4, <1>7 DEF a

LEMMA ZerosBefore ==
  ASSUME NEW k \in Nat, NEW s \in Seq(Nat)
  PROVE  Amount!ValueOf(Amount!Zeros(k) \o s) = Amount!ValueOf(s)
<1> DEFINE Z(n) == Amount!Zeros(n)
           S == {n \in Nat : Amount!ValueOf(Z(n)) = 0}
<1>1. 0 \in S
  BY MoreZeros, ValueOfNone
<1>2. ASSUME NEW n \in Nat, n \in S PROVE n + 1 \in S
  <2>1. Z(n) \in Seq(Nat)
    BY ZerosTyped
  <2>2. Amount!ValueOf(Append(Z(n), 0)) = 0 * Base + 0
    BY <1>2, <2>1, ValueOfLonger
  <2>3. 0 * Base + 0 = 0
    BY ConstantsOfAmounts
  <2>4. Z(n + 1) = Append(Z(n), 0)
    BY MoreZeros
  <2>5. Amount!ValueOf(Z(n + 1)) = 0
    BY <2>2, <2>3, <2>4
  <2> QED
    BY <2>5
<1>3. \A n \in Nat : n \in S
  <2> HIDE DEF S
  <2> QED
    BY <1>1, <1>2, Induction
<1>4. Amount!ValueOf(Z(k)) = 0 /\ Z(k) \in Seq(Nat)
  BY <1>3, ZerosTyped
<1> HIDE DEF S, Z
<1> DEFINE T == {n \in Nat : \A t \in Seq(Nat) : Len(t) = n =>
                   Amount!ValueOf(Z(k) \o t) = Amount!ValueOf(t)}
<1>5. 0 \in T
  <2>1. \A t \in Seq(Nat) : Len(t) = 0 => t = <<>>
    BY EmptySeq
  <2>2. Z(k) \o <<>> = Z(k)
    BY <1>4, JoinedNone
  <2> QED
    BY <1>4, <2>1, <2>2, ValueOfNone
<1>6. ASSUME NEW n \in Nat, n \in T PROVE n + 1 \in T
  <2> SUFFICES ASSUME NEW t \in Seq(Nat), Len(t) = n + 1
               PROVE  Amount!ValueOf(Z(k) \o t) = Amount!ValueOf(t)
    OBVIOUS
  <2>1. PICK front \in Seq(Nat), e \in Nat :
          t = Append(front, e) /\ Len(front) = n
    <3>1. /\ SubSeq(t, 1, n) \in Seq(Nat) /\ Len(SubSeq(t, 1, n)) = n
          /\ t[n + 1] \in Nat /\ t = Append(SubSeq(t, 1, n), t[n + 1])
      BY SplitLast
    <3> QED
      BY <3>1
  <2>2. Z(k) \o t = Append(Z(k) \o front, e)
    BY <1>4, <2>1, JoinedLonger
  <2>3. Z(k) \o front \in Seq(Nat)
    BY <1>4, Joined
  <2>4. /\ Amount!ValueOf(Append(Z(k) \o front, e))
             = Amount!ValueOf(Z(k) \o front) * Base + e
        /\ Amount!ValueOf(Append(front, e)) = Amount!ValueOf(front) * Base + e
    BY <2>3, ValueOfLonger
  <2>5. Amount!ValueOf(Z(k) \o front) = Amount!ValueOf(front)
    BY <1>6, <2>1
  <2> QED
    BY <2>1, <2>2, <2>4, <2>5
<1> HIDE DEF T
<1>7. Len(s) \in T
  <2>1. Len(s) \in Nat
    BY LenProperties
  <2> QED
    BY <1>5, <1>6, <2>1, Induction
<1> QED
  BY <1>7 DEF T, Z

LEMMA ZerosAfter ==
  ASSUME NEW k \in Nat, NEW s \in Seq(Nat)
  PROVE  Amount!ValueOf(s \o Amount!Zeros(k))
           = Amount!ValueOf(s) * Amount!Power[k]
<1> DEFINE v    == Amount!ValueOf(s)
           S    == {n \in Nat : Amount!ValueOf(s \o Amount!Zeros(n))
                                  = v * Amount!Power[n]}
<1>1. v \in Nat
  BY ValueOfLonger
<1>2. 0 \in S
  <2>1. s \o Amount!Zeros(0) = s
    BY MoreZeros, JoinedNone
  <2>2. v * 1 = v
    BY <1>1
  <2> QED
    BY <2>1, <2>2, Powers
<1>3. ASSUME NEW n \in Nat, n \in S PROVE n + 1 \in S
  <2>1. Amount!Zeros(n) \in Seq(Nat)
    BY ZerosTyped
  <2>2. s \o Amount!Zeros(n) \in Seq(Nat)
    BY <2>1, Joined
  <2>3. s \o Amount!Zeros(n + 1) = Append(s \o Amount!Zeros(n), 0)
    <3>1. Amount!Zeros(n + 1) = Append(Amount!Zeros(n), 0)
      BY MoreZeros
    <3>2. s \o Append(Amount!Zeros(n), 0) = Append(s \o Amount!Zeros(n), 0)
      BY <2>1, JoinedLonger
    <3> QED
      BY <3>1, <3>2
  <2>4. Amount!ValueOf(Append(s \o Amount!Zeros(n), 0))
          = Amount!ValueOf(s \o Amount!Zeros(n)) * Base + 0
    BY <2>2, ValueOfLonger
  <2>5. Amount!ValueOf(s \o Amount!Zeros(n)) = v * Amount!Power[n]
    BY <1>3
  <2>6. /\ Amount!Power[n] \in Nat
        /\ Amount!Power[n + 1] = Amount!Power[n] * Base
    BY Powers
  <2> HIDE DEF v
  <2>7. (v * Amount!Power[n]) * Base + 0 = v * Amount!Power[n + 1]
    <3>1. \A p, b \in Nat : (v * p) * b + 0 = v * (p * b)
      BY <1>1
    <3> QED
      BY <2>6, <3>1, ConstantsOfAmounts
  <2>8. Amount!ValueOf(s \o Amount!Zeros(n + 1)) = v * Amount!Power[n + 1]
    BY <2>3, <2>4, <2>5, <2>7
  <2> QED
    BY <2>8
<1> HIDE DEF S, v
<1>4. k \in S
  BY <1>2, <1>3, Induction
<1> QED
  BY <1>4 DEF S, v

(***************************************************************************)
(* What is left of a text without its commas.                              *)
(***************************************************************************)
Keep(kept, c) == IF c = Amount!Comma THEN kept ELSE Append(kept, c)

LEMMA CommasRun ==
  ASSUME NEW C, NEW s \in Seq(C)
  PROVE  \E f \in [0 .. Len(s) -> Seq(C)] :
           /\ f[0] = <<>> /\ f[Len(s)] = Amount!WithoutCommas(s)
           /\ \A i \in 1 .. Len(s) : f[i] = Keep(f[i - 1], s[i])
<1> DEFINE n == Len(s)
           It(f) == [T \in SUBSET (DOMAIN s) |->
                       IF T = {} THEN <<>>
                       ELSE Keep(f[T \ {Amount!Max(T)}], s[Amount!Max(T)])]
           g     == CHOOSE f : f = It(f)
           step  == [p \in Seq(C) \X (1 .. n) |-> Keep(p[1], s[p[2]])]
<1>1. Amount!WithoutCommas(s) = g[DOMAIN s]
  BY Zenon DEF Amount!WithoutCommas, Amount!FoldLeft, Amount!MapThenFoldSet,
              Keep
<1>2. n \in Nat /\ DOMAIN s = 1 .. n /\ \A i \in 1 .. n : s[i] \in C
  BY LenProperties
<1>3. /\ <<>> \in Seq(C)
      /\ \A v \in Seq(C), i \in 1 .. n : Keep(v, s[i]) \in Seq(C)
  BY <1>2, Longer DEF Keep
<1>4. /\ Steps(n, Seq(C), <<>>, step)
      /\ \A v \in Seq(C), i \in 1 .. n : step[<<v, i>>] = Keep(v, s[i])
  BY <1>2, <1>3 DEF Steps
<1> HIDE DEF step
<1>5. ASSUME NEW T \in SUBSET (1 .. n), T # {}
      PROVE  Amount!Max(T) \in 1 .. n
  BY <1>2, <1>5, Greatest
<1>6. \E f : f = It(f)
  <2>1. Chained(n, Seq(C), <<>>, step)
    BY <1>4, Chain
  <2>2. PICK f \in [SUBSET (1 .. n) -> Seq(C)] : \A T \in SUBSET (1 .. n) :
           f[T] = IF T = {} THEN <<>>
                  ELSE step[<<f[T \ {Amount!Max(T)}], Amount!Max(T)>>]
    BY <2>1 DEF Chained
  <2>3. ASSUME NEW T \in SUBSET (1 .. n)
        PROVE  f[T] = IF T = {} THEN <<>>
                      ELSE Keep(f[T \ {Amount!Max(T)}], s[Amount!Max(T)])
    <3>1. T \ {Amount!Max(T)} \in SUBSET (1 .. n)
      OBVIOUS
    <3>2. f[T \ {Amount!Max(T)}] \in Seq(C)
      BY <3>1
    <3> QED
      BY <1>4, <1>5, <2>2, <3>2
  <2>4. f = It(f)
    BY <1>2, <2>3
  <2> QED
    BY <2>4
<1>7. g = It(g)
  BY <1>6
<1> HIDE DEF g
<1>8. Folds(n, Seq(C), <<>>, step, g)
  <2>1. g[{}] = <<>> /\ \A T \in SUBSET (1 .. n) : T # {} =>
          g[T] = Keep(g[T \ {Amount!Max(T)}], s[Amount!Max(T)])
    BY <1>2, <1>7
  <2> QED
    BY <1>4, <1>5, <2>1 DEF Folds
<1>9. Runs(n, Seq(C), <<>>, step, g[1 .. n])
  BY <1>4, <1>8, Fold
<1>10. PICK f \in [0 .. n -> Seq(C)] :
        /\ f[0] = <<>> /\ f[n] = g[1 .. n]
        /\ \A i \in 1 .. n : f[i] = step[<<f[i - 1], i>>]
  BY <1>9 DEF Runs
<1>11. ASSUME NEW i \in 1 .. n PROVE f[i] = Keep(f[i - 1], s[i])
  <2>1. f[i - 1] \in Seq(C)
    BY <1>2
  <2> QED
    BY <1>4, <1>10, <2>1
<1> QED
  BY <1>1, <1>2, <1>10, <1>11

LEMMA WithoutNone == Amount!WithoutCommas(<<>>) = <<>>
<1> DEFINE none == <<>>
<1>1. none \in Seq(Nat) /\ Len(none) = 0
  OBVIOUS
<1> HIDE DEF none
<1>2. PICK f \in [0 .. Len(none) -> Seq(Nat)] :
        /\ f[0] = <<>> /\ f[Len(none)] = Amount!WithoutCommas(none)
        /\ \A i \in 1 .. Len(none) : f[i] = Keep(f[i - 1], none[i])
  <2>1. none \in Seq(Nat)
    BY <1>1
  <2> QED
    BY ONLY <2>1, CommasRun
<1>3. Amount!WithoutCommas(none) = <<>>
  BY ONLY <1>1, <1>2
<1> QED
  BY <1>3 DEF none

LEMMA WithoutTyped ==
  ASSUME NEW C, NEW s \in Seq(C)
  PROVE  Amount!WithoutCommas(s) \in Seq(C)
<1>1. PICK f \in [0 .. Len(s) -> Seq(C)] :
        f[Len(s)] = Amount!WithoutCommas(s)
  BY CommasRun
<1>2. Len(s) \in 0 .. Len(s)
  BY LenProperties
<1> QED
  BY <1>1, <1>2

LEMMA WithoutLonger ==
  ASSUME NEW C, NEW s \in Seq(C), NEW e \in C
  PROVE  Amount!WithoutCommas(Append(s, e))
           = Keep(Amount!WithoutCommas(s), e)
<1> DEFINE n == Len(s)
           t == Append(s, e)
<1>1. /\ t \in Seq(C) /\ n \in Nat /\ Len(t) = n + 1
      /\ t[n + 1] = e /\ \A k \in 1 .. n : t[k] = s[k]
  BY Longer
<1> HIDE DEF t
<1>2. PICK f \in [0 .. n -> Seq(C)] :
        /\ f[0] = <<>> /\ f[n] = Amount!WithoutCommas(s)
        /\ \A i \in 1 .. n : f[i] = Keep(f[i - 1], s[i])
  BY CommasRun
<1>3. PICK h \in [0 .. Len(t) -> Seq(C)] :
        /\ h[0] = <<>> /\ h[Len(t)] = Amount!WithoutCommas(t)
        /\ \A i \in 1 .. Len(t) : h[i] = Keep(h[i - 1], t[i])
  BY <1>1, CommasRun
<1> DEFINE S == {i \in Nat : i <= n => f[i] = h[i]}
<1>4. 0 \in S
  BY <1>2, <1>3
<1>5. ASSUME NEW i \in Nat, i \in S PROVE i + 1 \in S
  <2>1. CASE i + 1 <= n
    <3>1. i + 1 \in 1 .. n /\ i + 1 \in 1 .. Len(t) /\ (i + 1) - 1 = i
      BY <1>1, <2>1
    <3>2. f[i] = h[i] /\ t[i + 1] = s[i + 1]
      BY <1>1, <1>5, <2>1, <3>1
    <3>3. /\ f[i + 1] = Keep(f[i], s[i + 1])
          /\ h[i + 1] = Keep(h[i], t[i + 1])
      BY <1>2, <1>3, <3>1
    <3> QED
      BY <3>2, <3>3
  <2>2. CASE ~(i + 1 <= n)
    BY <2>2
  <2> QED
    BY <2>1, <2>2
<1> HIDE DEF S
<1>6. n \in S
  BY <1>1, <1>4, <1>5, Induction
<1>7. f[n] = h[n]
  BY <1>1, <1>6 DEF S
<1>8. h[n + 1] = Keep(h[n], t[n + 1])
  <2>1. n + 1 \in 1 .. Len(t) /\ (n + 1) - 1 = n
    BY <1>1
  <2> QED
    BY <1>3, <2>1
<1> QED
  BY <1>1, <1>2, <1>3, <1>7, <1>8 DEF t

LEMMA WithoutJoined ==
  ASSUME NEW C, NEW s \in Seq(C), NEW t \in Seq(C)
  PROVE  Amount!WithoutCommas(s \o t)
           = Amount!WithoutCommas(s) \o Amount!WithoutCommas(t)
<1> DEFINE Wo(u) == Amount!WithoutCommas(u)
           T == {n \in Nat : \A u \in Seq(C) : Len(u) = n =>
                   Wo(s \o u) = Wo(s) \o Wo(u)}
<1>1. \A u \in Seq(C) : Wo(u) \in Seq(C)
  BY WithoutTyped
<1>2. 0 \in T
  <2>1. \A u \in Seq(C) : Len(u) = 0 => u = <<>>
    BY EmptySeq
  <2>2. s \o <<>> = s /\ Wo(s) \o <<>> = Wo(s)
    BY <1>1, JoinedNone
  <2> QED
    BY <2>1, <2>2, WithoutNone
<1>3. ASSUME NEW n \in Nat, n \in T PROVE n + 1 \in T
  <2> SUFFICES ASSUME NEW u \in Seq(C), Len(u) = n + 1
               PROVE  Wo(s \o u) = Wo(s) \o Wo(u)
    OBVIOUS
  <2> DEFINE front == SubSeq(u, 1, n)
             e     == u[n + 1]
  <2>1. /\ front \in Seq(C) /\ Len(front) = n /\ e \in C
        /\ u = Append(front, e)
    BY SplitLast
  <2> HIDE DEF front, e
  <2>2. s \o u = Append(s \o front, e)
    BY <2>1, JoinedLonger
  <2>3. s \o front \in Seq(C)
    BY <2>1, Joined
  <2>4. /\ Wo(Append(s \o front, e)) = Keep(Wo(s \o front), e)
        /\ Wo(u) = Keep(Wo(front), e)
    BY <2>1, <2>3, WithoutLonger
  <2>5. Wo(s \o front) = Wo(s) \o Wo(front)
    BY <1>3, <2>1
  <2>6. Keep(Wo(s) \o Wo(front), e) = Wo(s) \o Keep(Wo(front), e)
    <3>1. Wo(s) \in Seq(C) /\ Wo(front) \in Seq(C)
      BY <1>1, <2>1
    <3>2. Wo(s) \o Append(Wo(front), e) = Append(Wo(s) \o Wo(front), e)
      BY <2>1, <3>1, JoinedLonger
    <3> QED
      BY <3>2 DEF Keep
  <2> QED
    BY <2>2, <2>4, <2>5, <2>6
<1> HIDE DEF T
<1>4. Len(t) \in T
  <2>1. Len(t) \in Nat
    BY LenProperties
  <2> QED
    BY <1>2, <1>3, <2>1, Induction
<1> QED
  BY <1>4 DEF T

LEMMA NothingToLose ==
  ASSUME NEW C, NEW t \in Seq(C), Amount!Comma \notin C
  PROVE  Amount!WithoutCommas(t) = t
<1> DEFINE T == {n \in Nat : \A u \in Seq(C) : Len(u) = n =>
                   Amount!WithoutCommas(u) = u}
<1>1. 0 \in T
  BY EmptySeq, WithoutNone
<1>2. ASSUME NEW n \in Nat, n \in T PROVE n + 1 \in T
  <2> SUFFICES ASSUME NEW u \in Seq(C), Len(u) = n + 1
               PROVE  Amount!WithoutCommas(u) = u
    OBVIOUS
  <2> DEFINE front == SubSeq(u, 1, n)
             e     == u[n + 1]
  <2>1. /\ front \in Seq(C) /\ Len(front) = n /\ e \in C
        /\ u = Append(front, e)
    BY SplitLast
  <2> HIDE DEF front, e
  <2>2. Amount!WithoutCommas(u) = Keep(Amount!WithoutCommas(front), e)
    BY <2>1, WithoutLonger
  <2>3. Amount!WithoutCommas(front) = front
    BY <1>2, <2>1
  <2> QED
    BY <2>1, <2>2, <2>3 DEF Keep
<1> HIDE DEF T
<1>3. Len(t) \in T
  <2>1. Len(t) \in Nat
    BY LenProperties
  <2> QED
    BY <1>1, <1>2, <2>1, Induction
<1> QED
  BY <1>3 DEF T

(***************************************************************************)
(* The first point of a text, and its zeros beyond the last decimal.       *)
(***************************************************************************)
PointAt(s, p) ==
  /\ p \in 1 .. Len(s)
  /\ s[p] = Amount!Point
  /\ \A j \in 1 .. p - 1 : s[j] # Amount!Point

LEMMA FirstPointAt ==
  ASSUME NEW C, NEW s \in Seq(C), NEW p, PointAt(s, p)
  PROVE  Amount!FirstPoint(s) = p
<1>1. Len(s) \in Nat /\ DOMAIN s = 1 .. Len(s)
  BY LenProperties
<1>2. ASSUME NEW q \in DOMAIN s, s[q] = Amount!Point,
             \A j \in 1 .. q - 1 : s[j] # Amount!Point
      PROVE  q = p
  <2>1. ~(q < p)
    BY <1>1, <1>2 DEF PointAt
  <2>2. ~(p < q)
    <3>1. SUFFICES ASSUME p < q PROVE FALSE
      OBVIOUS
    <3>2. p \in 1 .. q - 1
      BY <1>1, <3>1 DEF PointAt
    <3> QED
      BY <1>2, <3>2 DEF PointAt
  <2> QED
    BY <1>1, <2>1, <2>2 DEF PointAt
<1>3. p \in DOMAIN s /\ s[p] = Amount!Point
      /\ \A j \in 1 .. p - 1 : s[j] # Amount!Point
  BY <1>1 DEF PointAt
<1> QED
  BY <1>2, <1>3 DEF Amount!FirstPoint

LEMMA SomePoint ==
  ASSUME NEW C, NEW s \in Seq(C), NEW k \in 1 .. Len(s), s[k] = Amount!Point
  PROVE  /\ PointAt(s, Amount!FirstPoint(s))
         /\ Amount!FirstPoint(s) <= k
<1> DEFINE T == {i \in 1 .. Len(s) : s[i] = Amount!Point}
<1>1. T \in SUBSET Nat /\ k \in T
  OBVIOUS
<1>2. PICK p \in T : \A j \in T : p <= j
  <2> HIDE DEF T
  <2> QED
    BY <1>1, Least
<1>3. Len(s) \in Nat
  BY LenProperties
<1>4. PointAt(s, p) /\ p <= k
  BY <1>1, <1>2, <1>3 DEF PointAt
<1>5. Amount!FirstPoint(s) = p
  BY <1>4, FirstPointAt
<1> QED
  BY <1>4, <1>5

LEMMA CharactersTyped ==
  /\ Amount!Point \in Nat /\ Amount!Comma \in Nat
  /\ Amount!Point \in Amount!Characters /\ Amount!Comma \in Amount!Characters
  /\ Amount!Point # Amount!Comma
  /\ Amount!Digits \subseteq Amount!Characters
  /\ Amount!Point \notin Amount!Digits /\ Amount!Comma \notin Amount!Digits
  /\ Amount!Characters \subseteq Nat /\ 0 \in Amount!Digits
BY ConstantsOfAmounts
   DEF Amount!Point, Amount!Comma, Amount!Other, Amount!Characters,
       Amount!Digits

LEMMA Fronts ==
  ASSUME NEW C, NEW s \in Seq(C)
  PROVE  /\ Amount!Front(s) \in Seq(C)
         /\ s # <<>> => Len(Amount!Front(s)) = Len(s) - 1
         /\ s = <<>> => Amount!Front(s) = <<>>
<1>1. Len(s) \in Nat
  BY LenProperties
<1>2. CASE s = <<>>
  <2>1. SubSeq(<<>>, 1, Len(<<>>) - 1) = <<>>
    OBVIOUS
  <2> QED
    BY <1>2, <2>1 DEF Amount!Front
<1>3. CASE s # <<>>
  <2>1. Len(s) # 0
    BY <1>3, EmptySeq
  <2>2. Len(s) - 1 \in Nat /\ Len(s) = (Len(s) - 1) + 1
    BY <1>1, <2>1
  <2> QED
    BY <1>3, <2>2, SplitLast DEF Amount!Front
<1> QED
  BY <1>2, <1>3

LEMMA Shortening ==
  ASSUME NEW s \in Seq(Amount!Characters)
  PROVE  Amount!Shortened[s] =
           IF Len(s) > Amount!FirstPoint(s) + Decimals /\ Amount!Last(s) = 0
           THEN Amount!Shortened[Amount!Front(s)] ELSE s
<1> DEFINE V       == Seq(Amount!Characters)
           Long(t) == Len(t) > Amount!FirstPoint(t) + Decimals
                      /\ Amount!Last(t) = 0
           It(f)   == [t \in V |-> IF Long(t) THEN f[Amount!Front(t)] ELSE t]
           g       == CHOOSE f : f = It(f)
           H       == [t \in V |-> [f \in [V -> V] |->
                         IF Long(t) /\ t # <<>> THEN f[Amount!Front(t)] ELSE t]]
           rank    == [t \in V |-> Len(t)]
<1>1. Amount!Shortened = g
  BY Zenon DEF Amount!Shortened
<1> HIDE DEF Long
<1>2. ASSUME NEW t \in V
      PROVE  /\ Amount!Front(t) \in V
             /\ t # <<>> => rank[Amount!Front(t)] < rank[t]
             /\ t = <<>> => Amount!Front(t) = <<>>
  <2>1. /\ Amount!Front(t) \in V
        /\ t # <<>> => Len(Amount!Front(t)) = Len(t) - 1
        /\ t = <<>> => Amount!Front(t) = <<>>
    BY Fronts
  <2>2. Len(t) \in Nat
    BY LenProperties
  <2> QED
    BY <2>1, <2>2
<1>3. ASSUME NEW t \in V, NEW f \in [V -> V]
      PROVE  /\ H[t][f] \in V
             /\ H[t][f] = IF Long(t) /\ t # <<>> THEN f[Amount!Front(t)]
                          ELSE t
  BY <1>2
<1>4. rank \in [V -> Nat]
  BY LenProperties
<1>5. Contracts(V, V, rank, H)
  <2>1. H \in [V -> [[V -> V] -> V]]
    <3>1. \A t \in V : H[t] = [f \in [V -> V] |->
                 IF Long(t) /\ t # <<>> THEN f[Amount!Front(t)] ELSE t]
      OBVIOUS
    <3>2. \A t \in V : H[t] \in [[V -> V] -> V]
      BY <1>3, <3>1
    <3> QED
      BY <3>2
  <2> HIDE DEF H, rank
  <2>2. ASSUME NEW t \in V, NEW f \in [V -> V], NEW h \in [V -> V],
               \A u \in V : rank[u] < rank[t] => f[u] = h[u]
        PROVE  H[t][f] = H[t][h]
    <3>1. t # <<>> => f[Amount!Front(t)] = h[Amount!Front(t)]
      BY <1>2, <2>2
    <3> QED
      BY <1>3, <3>1
  <2> QED
    BY <1>4, <2>1, <2>2 DEF Contracts
<1>6. PICK f \in [V -> V] : \A t \in V : f[t] = H[t][f]
  <2>1. V # {}
    <3>1. <<>> \in V
      OBVIOUS
    <3> QED
      BY <3>1
  <2> HIDE DEF H, rank, V
  <2>2. Solved(V, V, H)
    BY <1>5, <2>1, Recursion
  <2> QED
    BY <2>2 DEF Solved
<1>7. f = It(f)
  <2>1. ASSUME NEW t \in V
        PROVE  f[t] = IF Long(t) THEN f[Amount!Front(t)] ELSE t
    <3>1. f[t] = IF Long(t) /\ t # <<>> THEN f[Amount!Front(t)] ELSE t
      BY <1>3, <1>6
    <3>2. t = <<>> => f[Amount!Front(t)] = f[t] /\ f[t] = t
      BY <1>2, <3>1
    <3> QED
      BY <3>1, <3>2
  <2> QED
    BY <2>1
<1>8. g = It(g)
  BY <1>7
<1> HIDE DEF g
<1>9. g[s] = IF Long(s) THEN g[Amount!Front(s)] ELSE s
  BY <1>8
<1> QED
  BY <1>1, <1>9 DEF Long

(* Where the zeros beyond the last decimal end. *)
Cut(s, p, n) ==
  /\ n \in p .. Len(s)
  /\ Amount!Shortened[s] = SubSeq(s, 1, n)
  /\ \A i \in n + 1 .. Len(s) : s[i] = 0
  /\ n > p + Decimals => s[n] # 0
  /\ n < Len(s) => n >= p + Decimals

LEMMA WholeSeq ==
  ASSUME NEW C, NEW s \in Seq(C)
  PROVE  SubSeq(s, 1, Len(s)) = s
<1>1. Len(s) \in Nat
  BY LenProperties
<1>2. /\ SubSeq(s, 1, Len(s)) \in Seq(C)
      /\ Len(SubSeq(s, 1, Len(s))) = Len(s) - 1 + 1
      /\ \A k \in 1 .. Len(s) - 1 + 1 : SubSeq(s, 1, Len(s))[k] = s[1 - 1 + k]
  BY <1>1, Part
<1>3. /\ Len(SubSeq(s, 1, Len(s))) = Len(s)
      /\ \A k \in 1 .. Len(s) : SubSeq(s, 1, Len(s))[k] = s[k]
  BY <1>1, <1>2
<1> HIDE <1>2
<1> QED
  BY <1>2, <1>3, SameSeq

LEMMA StartOfStart ==
  ASSUME NEW C, NEW s \in Seq(C), NEW n \in 0 .. Len(s), NEW m \in 0 .. n
  PROVE  /\ SubSeq(s, 1, n) \in Seq(C) /\ Len(SubSeq(s, 1, n)) = n
         /\ \A k \in 1 .. n : SubSeq(s, 1, n)[k] = s[k]
         /\ SubSeq(SubSeq(s, 1, n), 1, m) = SubSeq(s, 1, m)
<1>1. Len(s) \in Nat /\ n \in Nat /\ m \in Nat /\ n <= Len(s) /\ m <= n
  BY LenProperties
<1> DEFINE a == SubSeq(s, 1, n)
           b == SubSeq(s, 1, m)
           c == SubSeq(a, 1, m)
<1>2. /\ a \in Seq(C) /\ Len(a) = n /\ \A k \in 1 .. n : a[k] = s[k]
  <2>1. /\ a \in Seq(C) /\ Len(a) = n - 1 + 1
        /\ \A k \in 1 .. n - 1 + 1 : a[k] = s[1 - 1 + k]
    BY <1>1, Part
  <2> HIDE DEF a
  <2> QED
    BY <1>1, <2>1
<1>3. /\ b \in Seq(C) /\ Len(b) = m /\ \A k \in 1 .. m : b[k] = s[k]
  <2>1. /\ b \in Seq(C) /\ Len(b) = m - 1 + 1
        /\ \A k \in 1 .. m - 1 + 1 : b[k] = s[1 - 1 + k]
    BY <1>1, Part
  <2> HIDE DEF b
  <2> QED
    BY <1>1, <2>1
<1> HIDE DEF a
<1>4. /\ c \in Seq(C) /\ Len(c) = m /\ \A k \in 1 .. m : c[k] = a[k]
  <2>1. /\ c \in Seq(C) /\ Len(c) = m - 1 + 1
        /\ \A k \in 1 .. m - 1 + 1 : c[k] = a[1 - 1 + k]
    BY <1>1, <1>2, Part
  <2> HIDE DEF c
  <2> QED
    BY <1>1, <2>1
<1> HIDE DEF b, c
<1>5. ASSUME NEW k \in 1 .. m PROVE c[k] = b[k]
  BY <1>1, <1>2, <1>3, <1>4
<1>6. c = b
  <2>1. Len(c) = Len(b) /\ \A k \in 1 .. Len(c) : c[k] = b[k]
    BY <1>3, <1>4, <1>5
  <2> QED
    BY <1>3, <1>4, <2>1, SameSeq
<1> QED
  BY <1>2, <1>6 DEF a, b, c

LEMMA ShortenedCuts ==
  ASSUME NEW s \in Seq(Amount!Characters), NEW p, PointAt(s, p)
  PROVE  \E n \in p .. Len(s) : Cut(s, p, n)
<1> DEFINE V == Seq(Amount!Characters)
           S == {m \in Nat : \A t \in V : Len(t) = m /\ PointAt(t, p) =>
                   \E n \in p .. Len(t) : Cut(t, p, n)}
<1>1. 0 \in S
  BY DEF PointAt
<1>2. ASSUME NEW m \in Nat, m \in S PROVE m + 1 \in S
  <2> SUFFICES ASSUME NEW t \in V, Len(t) = m + 1, PointAt(t, p)
               PROVE  \E n \in p .. Len(t) : Cut(t, p, n)
    OBVIOUS
  <2>1. /\ Amount!FirstPoint(t) = p /\ p \in 1 .. m + 1
        /\ Decimals \in Nat /\ Decimals >= 2
    BY FirstPointAt, ConstantsOfAmounts DEF PointAt
  <2>2. CASE ~(m + 1 > p + Decimals /\ t[m + 1] = 0)
    <3>1. Amount!Shortened[t] = t
      BY <2>1, <2>2, Shortening DEF Amount!Last
    <3>2. SubSeq(t, 1, Len(t)) = t
      BY WholeSeq
    <3>3. Cut(t, p, Len(t))
      <4>1. Len(t) \in p .. Len(t) /\ ~(Len(t) < Len(t))
            /\ \A i \in Len(t) + 1 .. Len(t) : t[i] = 0
        BY <2>1
      <4>2. Len(t) > p + Decimals => t[Len(t)] # 0
        BY <2>2
      <4> QED
        BY <3>1, <3>2, <4>1, <4>2 DEF Cut
    <3>4. Len(t) \in p .. Len(t)
      BY <2>1
    <3> QED
      BY <3>3, <3>4
  <2>3. CASE m + 1 > p + Decimals /\ t[m + 1] = 0
    <3> DEFINE u == SubSeq(t, 1, m)
    <3>1. /\ u \in V /\ Len(u) = m /\ \A k \in 1 .. m : u[k] = t[k]
          /\ \A n \in 0 .. m : SubSeq(u, 1, n) = SubSeq(t, 1, n)
      <4>1. m \in 0 .. Len(t)
        OBVIOUS
      <4> QED
        BY <4>1, StartOfStart
    <3>2. Amount!Front(t) = u
      <4>1. Len(t) - 1 = m
        OBVIOUS
      <4> QED
        BY <4>1 DEF Amount!Front
    <3> HIDE DEF u
    <3>3. Amount!Shortened[t] = Amount!Shortened[u]
      BY <2>1, <2>3, <3>2, Shortening DEF Amount!Last
    <3>4. PointAt(u, p)
      BY <2>1, <2>3, <3>1 DEF PointAt
    <3>5. PICK n \in p .. m : Cut(u, p, n)
      BY <1>2, <3>1, <3>4
    <3>6. n \in 0 .. m /\ n \in 1 .. m /\ n \in p .. m + 1
      BY <2>1, <3>5
    <3>7. Amount!Shortened[t] = SubSeq(t, 1, n)
      BY <3>1, <3>3, <3>5, <3>6 DEF Cut
    <3>8. \A i \in n + 1 .. Len(t) : t[i] = 0
      <4>1. ASSUME NEW i \in n + 1 .. Len(t) PROVE t[i] = 0
        <5>1. CASE i = m + 1
          BY <2>3, <5>1
        <5>2. CASE i # m + 1
          <6>1. i \in n + 1 .. Len(u) /\ i \in 1 .. m
            BY <3>1, <3>6, <5>2
          <6> QED
            BY <3>1, <3>5, <6>1 DEF Cut
        <5> QED
          BY <5>1, <5>2
      <4> QED
        BY <4>1
    <3>9. n > p + Decimals => t[n] # 0
      BY <3>1, <3>5, <3>6 DEF Cut
    <3>10. n >= p + Decimals
      <4>1. CASE n < m
        BY <3>1, <3>5, <4>1 DEF Cut
      <4>2. CASE ~(n < m)
        BY <2>1, <2>3, <3>6, <4>2
      <4> QED
        BY <4>1, <4>2
    <3>11. Cut(t, p, n)
      BY <3>6, <3>7, <3>8, <3>9, <3>10 DEF Cut
    <3> QED
      BY <3>6, <3>11
  <2> QED
    BY <2>2, <2>3
<1> HIDE DEF S
<1>3. Len(s) \in S
  <2>1. Len(s) \in Nat
    BY LenProperties
  <2> QED
    BY <1>1, <1>2, <2>1, Induction
<1> QED
  BY <1>3 DEF S

(***************************************************************************)
(* What a text is worth: its digits weighed by their distance from the     *)
(* point are what the number without the point, with the zeros that are    *)
(* missing, is worth.                                                      *)
(***************************************************************************)
Place(p, i) == IF i < p THEN p - i - 1 + Decimals
               ELSE Amount!Less(Decimals + p, i)

Weigh(s, p, sum, i) ==
  IF i = p THEN sum ELSE sum + s[i] * Amount!Power[Place(p, i)]

Weighed(s, p) ==
  Amount!FoldLeft(LAMBDA sum, i : Weigh(s, p, sum, i), 0,
                  [i \in DOMAIN s |-> i])

LEMMA PlaceTyped ==
  ASSUME NEW p \in Nat, NEW i \in Nat
  PROVE  Place(p, i) \in Nat
BY ConstantsOfAmounts DEF Place, Amount!Less

LEMMA WeighedRuns ==
  ASSUME NEW s \in Seq(Nat), NEW p \in Nat
  PROVE  \E f \in [0 .. Len(s) -> Nat] :
           /\ f[0] = 0 /\ f[Len(s)] = Weighed(s, p)
           /\ \A i \in 1 .. Len(s) : f[i] = Weigh(s, p, f[i - 1], i)
<1> DEFINE n == Len(s)
           q == [i \in DOMAIN s |-> i]
           It(f) == [T \in SUBSET (DOMAIN q) |->
                       IF T = {} THEN 0
                       ELSE Weigh(s, p, f[T \ {Amount!Max(T)}],
                                  q[Amount!Max(T)])]
           g     == CHOOSE f : f = It(f)
           step  == [r \in Nat \X (1 .. n) |-> Weigh(s, p, r[1], r[2])]
<1>1. Weighed(s, p) = g[DOMAIN q]
  BY Zenon DEF Weighed, Amount!FoldLeft, Amount!MapThenFoldSet
<1>2. n \in Nat /\ DOMAIN s = 1 .. n /\ \A i \in 1 .. n : s[i] \in Nat
  BY LenProperties
<1>3. DOMAIN q = 1 .. n /\ \A i \in 1 .. n : q[i] = i
  BY <1>2
<1> HIDE DEF q
<1>4. \A v \in Nat, i \in 1 .. n : Weigh(s, p, v, i) \in Nat
  <2>1. ASSUME NEW v \in Nat, NEW i \in 1 .. n
        PROVE  Weigh(s, p, v, i) \in Nat
    <3> i \in Nat
      BY <1>2
    <3>1. Place(p, i) \in Nat /\ s[i] \in Nat
      BY <1>2, PlaceTyped
    <3>2. Amount!Power[Place(p, i)] \in Nat
      BY <3>1, Powers
    <3>3. s[i] * Amount!Power[Place(p, i)] \in Nat
      BY <3>1, <3>2
    <3> QED
      BY <3>3 DEF Weigh
  <2> QED
    BY <2>1
<1>5. /\ Steps(n, Nat, 0, step)
      /\ \A v \in Nat, i \in 1 .. n : step[<<v, i>>] = Weigh(s, p, v, i)
  BY <1>2, <1>4 DEF Steps
<1> HIDE DEF step
<1>6. ASSUME NEW T \in SUBSET (1 .. n), T # {}
      PROVE  Amount!Max(T) \in 1 .. n /\ q[Amount!Max(T)] = Amount!Max(T)
  BY <1>2, <1>3, <1>6, Greatest
<1>7. \E f : f = It(f)
  <2>1. Chained(n, Nat, 0, step)
    BY <1>5, Chain
  <2>2. PICK f \in [SUBSET (1 .. n) -> Nat] : \A T \in SUBSET (1 .. n) :
           f[T] = IF T = {} THEN 0
                  ELSE step[<<f[T \ {Amount!Max(T)}], Amount!Max(T)>>]
    BY <2>1 DEF Chained
  <2>3. ASSUME NEW T \in SUBSET (1 .. n)
        PROVE  f[T] = IF T = {} THEN 0
                      ELSE Weigh(s, p, f[T \ {Amount!Max(T)}],
                                 q[Amount!Max(T)])
    <3>1. T \ {Amount!Max(T)} \in SUBSET (1 .. n)
      OBVIOUS
    <3>2. f[T \ {Amount!Max(T)}] \in Nat
      BY <3>1
    <3> QED
      BY <1>5, <1>6, <2>2, <3>2
  <2>4. f = It(f)
    BY <1>3, <2>3
  <2> QED
    BY <2>4
<1>8. g = It(g)
  BY <1>7
<1> HIDE DEF g
<1>9. Folds(n, Nat, 0, step, g)
  <2>1. g[{}] = 0 /\ \A T \in SUBSET (1 .. n) : T # {} =>
          g[T] = Weigh(s, p, g[T \ {Amount!Max(T)}], q[Amount!Max(T)])
    BY <1>3, <1>8
  <2>2. ASSUME NEW T \in SUBSET (1 .. n), T # {},
               g[T \ {Amount!Max(T)}] \in Nat
        PROVE  g[T] = step[<<g[T \ {Amount!Max(T)}], Amount!Max(T)>>]
    <3>1. Amount!Max(T) \in 1 .. n /\ q[Amount!Max(T)] = Amount!Max(T)
      BY <1>6, <2>2
    <3>2. g[T] = Weigh(s, p, g[T \ {Amount!Max(T)}], Amount!Max(T))
      BY <2>1, <2>2, <3>1
    <3> QED
      BY <1>5, <2>2, <3>1, <3>2
  <2> QED
    BY <2>1, <2>2 DEF Folds
<1>10. Runs(n, Nat, 0, step, g[1 .. n])
  BY <1>5, <1>9, Fold
<1>11. PICK f \in [0 .. n -> Nat] :
        /\ f[0] = 0 /\ f[n] = g[1 .. n]
        /\ \A i \in 1 .. n : f[i] = step[<<f[i - 1], i>>]
  BY <1>10 DEF Runs
<1>12. ASSUME NEW i \in 1 .. n PROVE f[i] = Weigh(s, p, f[i - 1], i)
  <2>1. f[i - 1] \in Nat
    BY <1>2
  <2> QED
    BY <1>5, <1>11, <2>1
<1> QED
  BY <1>1, <1>3, <1>11, <1>12

LEMMA PartGrows ==
  ASSUME NEW C, NEW s \in Seq(C), NEW k \in Nat, k >= 1,
         NEW i \in Nat, k - 1 <= i, i + 1 <= Len(s)
  PROVE  /\ SubSeq(s, k, i) \in Seq(C)
         /\ SubSeq(s, k, i + 1) = Append(SubSeq(s, k, i), s[i + 1])
<1>0. Len(s) \in Nat /\ \A j \in 1 .. Len(s) : s[j] \in C
  BY LenProperties
<1> DEFINE a == SubSeq(s, k, i)
           b == SubSeq(s, k, i + 1)
<1>1. k \in 1 .. Len(s) + 1 /\ i <= Len(s) /\ k - 1 <= i + 1 /\ s[i + 1] \in C
  BY <1>0
<1>2. /\ a \in Seq(C) /\ Len(a) = i - k + 1
      /\ \A j \in 1 .. i - k + 1 : a[j] = s[k - 1 + j]
  BY <1>0, <1>1, Part
<1>3. /\ b \in Seq(C) /\ Len(b) = (i + 1) - k + 1
      /\ \A j \in 1 .. (i + 1) - k + 1 : b[j] = s[k - 1 + j]
  BY <1>0, <1>1, Part
<1> HIDE DEF a, b
<1>4. /\ Append(a, s[i + 1]) \in Seq(C)
      /\ Len(Append(a, s[i + 1])) = Len(a) + 1
      /\ Append(a, s[i + 1])[Len(a) + 1] = s[i + 1]
      /\ \A j \in 1 .. Len(a) : Append(a, s[i + 1])[j] = a[j]
  <2>1. a \in Seq(C) /\ s[i + 1] \in C
    BY <1>1, <1>2
  <2> QED
    BY ONLY <2>1, Longer
<1>5. ASSUME NEW j \in 1 .. Len(b) PROVE b[j] = Append(a, s[i + 1])[j]
  <2>1. CASE j = Len(a) + 1
    <3>1. j = i - k + 2 /\ k - 1 + j = i + 1 /\ j \in 1 .. (i + 1) - k + 1
      BY <1>2, <1>3, <2>1
    <3> QED
      BY <1>3, <1>4, <2>1, <3>1
  <2>2. CASE j # Len(a) + 1
    <3>1. j \in 1 .. Len(a) /\ j \in 1 .. i - k + 1
          /\ j \in 1 .. (i + 1) - k + 1
      BY <1>2, <1>3, <2>2
    <3> QED
      BY <1>2, <1>3, <1>4, <3>1
  <2> QED
    BY <2>1, <2>2
<1>6. b = Append(a, s[i + 1])
  <2>1. Len(b) = Len(Append(a, s[i + 1]))
    BY <1>2, <1>3, <1>4
  <2> QED
    BY <1>3, <1>4, <1>5, <2>1, SameSeq
<1> QED
  BY <1>2, <1>6 DEF a, b

LEMMA NoPart ==
  ASSUME NEW C, NEW s \in Seq(C), NEW k \in 0 .. Len(s)
  PROVE  SubSeq(s, k + 1, k) = <<>>
<1>1. Len(s) \in Nat
  BY LenProperties
<1>2. /\ SubSeq(s, k + 1, k) \in Seq(C)
      /\ Len(SubSeq(s, k + 1, k)) = k - (k + 1) + 1
  <2>1. k + 1 \in 1 .. Len(s) + 1 /\ k \in Nat /\ (k + 1) - 1 <= k
        /\ k <= Len(s)
    BY <1>1
  <2> QED
    BY <2>1, Part
<1>3. k - (k + 1) + 1 = 0
  BY <1>1
<1> QED
  BY <1>2, <1>3, EmptySeq

LEMMA Extended ==
  ASSUME NEW v \in Nat, NEW e \in Nat
  PROVE  v * Base + e \in Nat
BY ConstantsOfAmounts

LEMMA Distribute ==
  ASSUME NEW v \in Nat, NEW e \in Nat, NEW k \in Nat
  PROVE  v * Amount!Power[k + 1] + e * Amount!Power[k]
           = (v * Base + e) * Amount!Power[k]
<1>1. \A q, b \in Nat : v * (q * b) + e * q = (v * b + e) * q
  OBVIOUS
<1> QED
  BY <1>1, Powers, ConstantsOfAmounts

LEMMA WeighedBefore ==
  ASSUME NEW s \in Seq(Nat), NEW p \in 1 .. Len(s) + 1,
         NEW f \in [0 .. Len(s) -> Nat], f[0] = 0,
         \A i \in 1 .. Len(s) : f[i] = Weigh(s, p, f[i - 1], i)
  PROVE  f[p - 1] = Amount!ValueOf(SubSeq(s, 1, p - 1))
                      * Amount!Power[Decimals]
<1> DEFINE V(i) == Amount!ValueOf(SubSeq(s, 1, i))
           S == {i \in Nat : i < p =>
                   /\ V(i) \in Nat
                   /\ f[i] = V(i) * Amount!Power[p - 1 - i + Decimals]}
<1>1. /\ Len(s) \in Nat /\ p \in Nat /\ p >= 1 /\ p <= Len(s) + 1
      /\ Decimals \in Nat
      /\ \A j \in 1 .. Len(s) : s[j] \in Nat
  BY LenProperties, ConstantsOfAmounts
<1>2. 0 \in S
  <2>1. SubSeq(s, 1, 0) = <<>>
    <3>1. 0 \in 0 .. Len(s) /\ 0 + 1 = 1
      BY <1>1
    <3> QED
      BY <3>1, NoPart
  <2>2. V(0) = 0
    BY <2>1, ValueOfNone
  <2>3. Amount!Power[p - 1 - 0 + Decimals] \in Nat
    <3>1. p - 1 - 0 + Decimals \in Nat
      BY <1>1
    <3> QED
      BY <3>1, Powers
  <2>4. 0 * Amount!Power[p - 1 - 0 + Decimals] = 0
    BY <2>3
  <2> QED
    BY <2>2, <2>4
<1>3. ASSUME NEW i \in Nat, i \in S PROVE i + 1 \in S
  <2>1. SUFFICES ASSUME i + 1 < p
        PROVE  /\ V(i + 1) \in Nat
               /\ f[i + 1] = V(i + 1)
                               * Amount!Power[p - 1 - (i + 1) + Decimals]
    OBVIOUS
  <2> DEFINE k == p - 1 - (i + 1) + Decimals
  <2>2. /\ k \in Nat /\ p - 1 - i + Decimals = k + 1
        /\ i + 1 \in 1 .. Len(s) /\ (i + 1) - 1 = i /\ i < p
        /\ i + 1 <= Len(s) /\ i + 1 # p
    BY <1>1, <2>1
  <2>3. V(i) \in Nat /\ f[i] = V(i) * Amount!Power[k + 1]
    BY <1>3, <2>2
  <2>4. f[i + 1] = f[i] + s[i + 1] * Amount!Power[k]
    <3>1. Place(p, i + 1) = k
      BY <2>1 DEF Place
    <3>2. f[i + 1] = Weigh(s, p, f[i], i + 1)
      BY <2>2
    <3> HIDE DEF k
    <3> QED
      BY <2>2, <3>1, <3>2 DEF Weigh
  <2>5. /\ V(i + 1) = V(i) * Base + s[i + 1]
        /\ V(i + 1) \in Nat
    <3>1. /\ SubSeq(s, 1, i) \in Seq(Nat)
          /\ SubSeq(s, 1, i + 1) = Append(SubSeq(s, 1, i), s[i + 1])
      <4>1. 1 \in Nat /\ 1 >= 1 /\ 1 - 1 <= i
        OBVIOUS
      <4> QED
        BY <2>2, <4>1, PartGrows
    <3>2. s[i + 1] \in Nat
      BY <1>1, <2>2
    <3>3. V(i + 1) = V(i) * Base + s[i + 1]
      BY <3>1, <3>2, ValueOfLonger
    <3>4. V(i) * Base + s[i + 1] \in Nat
      <4>1. V(i) \in Nat
        BY <2>3
      <4> HIDE DEF V
      <4> QED
        BY <3>2, <4>1, Extended
    <3> QED
      BY <3>3, <3>4
  <2> HIDE DEF V, k
  <2>6. V(i) * Amount!Power[k + 1] + s[i + 1] * Amount!Power[k]
          = (V(i) * Base + s[i + 1]) * Amount!Power[k]
    <3>1. s[i + 1] \in Nat
      BY <1>1, <2>2
    <3> QED
      BY <2>2, <2>3, <3>1, Distribute
  <2>7. f[i + 1] = V(i + 1) * Amount!Power[k]
    BY <2>3, <2>4, <2>5, <2>6
  <2> QED
    BY <2>5, <2>7 DEF k
<1>4. p - 1 \in S
  <2> HIDE DEF S
  <2>1. p - 1 \in Nat
    BY <1>1
  <2> QED
    BY <1>2, <1>3, <2>1, Induction
<1>5. p - 1 < p /\ p - 1 - (p - 1) + Decimals = Decimals
  BY <1>1
<1> HIDE DEF V
<1>6. f[p - 1] = V(p - 1) * Amount!Power[Decimals]
  BY <1>4, <1>5
<1> QED
  BY <1>6 DEF V

WithoutPoint(s, p, n) == SubSeq(s, 1, p - 1) \o SubSeq(s, p + 1, n)

LEMMA WithoutPointGrows ==
  ASSUME NEW C, NEW s \in Seq(C), NEW p \in 1 .. Len(s),
         NEW i \in p .. Len(s)
  PROVE  /\ WithoutPoint(s, p, i) \in Seq(C)
         /\ WithoutPoint(s, p, p) = SubSeq(s, 1, p - 1)
         /\ i + 1 <= Len(s) => WithoutPoint(s, p, i + 1)
                                 = Append(WithoutPoint(s, p, i), s[i + 1])
<1>1. /\ Len(s) \in Nat /\ p \in Nat /\ p >= 1 /\ p <= Len(s)
      /\ i \in Nat /\ p <= i /\ i <= Len(s)
      /\ \A j \in 1 .. Len(s) : s[j] \in C
  BY LenProperties
<1>2. SubSeq(s, 1, p - 1) \in Seq(C)
  <2>1. p - 1 \in Nat /\ 1 \in 1 .. Len(s) + 1 /\ 1 - 1 <= p - 1
        /\ p - 1 <= Len(s)
    BY <1>1
  <2> QED
    BY <2>1, Part
<1>3. SubSeq(s, p + 1, i) \in Seq(C)
  <2>1. p + 1 \in 1 .. Len(s) + 1 /\ (p + 1) - 1 <= i
    BY <1>1
  <2> QED
    BY <1>1, <2>1, Part
<1>4. WithoutPoint(s, p, i) \in Seq(C)
  BY <1>2, <1>3, Joined DEF WithoutPoint
<1>5. WithoutPoint(s, p, p) = SubSeq(s, 1, p - 1)
  <2>1. SubSeq(s, p + 1, p) = <<>>
    <3>1. p \in 0 .. Len(s)
      BY <1>1
    <3> QED
      BY <3>1, NoPart
  <2> QED
    BY <1>2, <2>1, JoinedNone DEF WithoutPoint
<1>6. ASSUME i + 1 <= Len(s)
      PROVE  WithoutPoint(s, p, i + 1)
               = Append(WithoutPoint(s, p, i), s[i + 1])
  <2>1. SubSeq(s, p + 1, i + 1) = Append(SubSeq(s, p + 1, i), s[i + 1])
    <3>1. p + 1 \in Nat /\ p + 1 >= 1 /\ (p + 1) - 1 <= i
      BY <1>1
    <3> QED
      BY <1>1, <1>6, <3>1, PartGrows
  <2>2. s[i + 1] \in C
    BY <1>1, <1>6
  <2>3. SubSeq(s, 1, p - 1) \o Append(SubSeq(s, p + 1, i), s[i + 1])
          = Append(SubSeq(s, 1, p - 1) \o SubSeq(s, p + 1, i), s[i + 1])
    BY <1>2, <1>3, <2>2, JoinedLonger
  <2> QED
    BY <2>1, <2>3 DEF WithoutPoint
<1> QED
  BY <1>4, <1>5, <1>6

LEMMA WeighedAfter ==
  ASSUME NEW s \in Seq(Nat), NEW p \in 1 .. Len(s),
         NEW f \in [0 .. Len(s) -> Nat], f[0] = 0,
         \A i \in 1 .. Len(s) : f[i] = Weigh(s, p, f[i - 1], i),
         NEW n \in p .. Len(s), n <= p + Decimals
  PROVE  f[n] = Amount!ValueOf(WithoutPoint(s, p, n))
                  * Amount!Power[p + Decimals - n]
<1> DEFINE V(i) == Amount!ValueOf(WithoutPoint(s, p, i))
           S == {d \in Nat : p + d <= n =>
                   f[p + d] = V(p + d) * Amount!Power[Decimals - d]}
<1>1. /\ Len(s) \in Nat /\ p \in Nat /\ p >= 1 /\ p <= Len(s)
      /\ n \in Nat /\ p <= n /\ n <= Len(s)
      /\ Decimals \in Nat
      /\ \A j \in 1 .. Len(s) : s[j] \in Nat
  BY LenProperties, ConstantsOfAmounts
<1>2. \A i \in p .. Len(s) : V(i) \in Nat
  BY WithoutPointGrows, ValueOfLonger
<1>3. 0 \in S
  <2>1. f[p] = f[p - 1]
    <3>1. f[p] = Weigh(s, p, f[p - 1], p)
      OBVIOUS
    <3> QED
      BY <3>1 DEF Weigh
  <2>2. f[p - 1] = Amount!ValueOf(SubSeq(s, 1, p - 1))
                     * Amount!Power[Decimals]
    <3>1. p \in 1 .. Len(s) + 1
      BY <1>1
    <3> QED
      BY <3>1, WeighedBefore
  <2>3. WithoutPoint(s, p, p) = SubSeq(s, 1, p - 1)
    <3>1. p \in p .. Len(s)
      BY <1>1
    <3> QED
      BY <3>1, WithoutPointGrows
  <2>4. p + 0 = p /\ Decimals - 0 = Decimals
    BY <1>1
  <2> QED
    BY <2>1, <2>2, <2>3, <2>4
<1>4. ASSUME NEW d \in Nat, d \in S PROVE d + 1 \in S
  <2>1. SUFFICES ASSUME p + (d + 1) <= n
        PROVE  f[p + (d + 1)] = V(p + (d + 1))
                                  * Amount!Power[Decimals - (d + 1)]
    OBVIOUS
  <2> DEFINE i == p + d
             k == Decimals - (d + 1)
  <2>2. /\ i \in Nat /\ i + 1 = p + (d + 1) /\ i \in p .. Len(s)
        /\ i + 1 \in p .. Len(s)
        /\ k \in Nat /\ Decimals - d = k + 1 /\ p + d <= n
        /\ i + 1 \in 1 .. Len(s) /\ (i + 1) - 1 = i
        /\ i + 1 <= Len(s) /\ i + 1 # p
    BY <1>1, <2>1
  <2>3. V(i) \in Nat /\ f[i] = V(i) * Amount!Power[k + 1]
    BY <1>2, <1>4, <2>2
  <2>4. s[i + 1] \in Nat
    BY <1>1, <2>2
  <2>5. f[i + 1] = f[i] + s[i + 1] * Amount!Power[k]
    <3>1. Place(p, i + 1) = k
      BY <1>1, <2>1 DEF Place, Amount!Less
    <3>2. f[i + 1] = Weigh(s, p, f[i], i + 1)
      BY <2>2
    <3> HIDE DEF i, k
    <3> QED
      BY <2>2, <3>1, <3>2 DEF Weigh
  <2>6. V(i + 1) = V(i) * Base + s[i + 1]
    <3> HIDE DEF i
    <3>1. /\ WithoutPoint(s, p, i) \in Seq(Nat)
          /\ WithoutPoint(s, p, i + 1)
               = Append(WithoutPoint(s, p, i), s[i + 1])
      <4>1. /\ s \in Seq(Nat) /\ p \in 1 .. Len(s) /\ i \in p .. Len(s)
            /\ i + 1 <= Len(s)
        BY <2>2
      <4> QED
        BY ONLY <4>1, WithoutPointGrows
    <3> QED
      BY <2>4, <3>1, ValueOfLonger
  <2> HIDE DEF V, k, i
  <2>7. V(i) * Amount!Power[k + 1] + s[i + 1] * Amount!Power[k]
          = (V(i) * Base + s[i + 1]) * Amount!Power[k]
    BY <2>2, <2>3, <2>4, Distribute
  <2>8. f[i + 1] = V(i + 1) * Amount!Power[k]
    BY <2>3, <2>5, <2>6, <2>7
  <2>9. f[p + (d + 1)] = V(p + (d + 1)) * Amount!Power[k]
    BY <2>2, <2>8
  <2> QED
    BY <2>9 DEF k
<1>5. n - p \in S
  <2> HIDE DEF S
  <2>1. n - p \in Nat
    BY <1>1
  <2> QED
    BY <1>3, <1>4, <2>1, Induction
<1>6. p + (n - p) = n /\ Decimals - (n - p) = p + Decimals - n
  BY <1>1
<1> HIDE DEF V
<1>7. f[n] = V(n) * Amount!Power[p + Decimals - n]
  BY <1>5, <1>6
<1> QED
  BY <1>7 DEF V

LEMMA WeighedBeyond ==
  ASSUME NEW s \in Seq(Nat), NEW p \in 1 .. Len(s),
         NEW f \in [0 .. Len(s) -> Nat],
         \A i \in 1 .. Len(s) : f[i] = Weigh(s, p, f[i - 1], i),
         NEW n \in p .. Len(s), \A i \in n + 1 .. Len(s) : s[i] = 0
  PROVE  f[Len(s)] = f[n]
<1> DEFINE S == {d \in Nat : n + d <= Len(s) => f[n + d] = f[n]}
<1>1. /\ Len(s) \in Nat /\ p \in Nat /\ n \in Nat /\ p <= n /\ n <= Len(s)
  BY LenProperties
<1>2. 0 \in S
  BY <1>1
<1>3. ASSUME NEW d \in Nat, d \in S PROVE d + 1 \in S
  <2>1. SUFFICES ASSUME n + (d + 1) <= Len(s)
                 PROVE  f[n + (d + 1)] = f[n]
    OBVIOUS
  <2> DEFINE i == n + d
  <2>2. /\ i \in 0 .. Len(s) /\ n + (d + 1) = i + 1 /\ n + d <= Len(s)
        /\ i + 1 \in 1 .. Len(s) /\ (i + 1) - 1 = i /\ i + 1 # p
        /\ i + 1 \in n + 1 .. Len(s) /\ i + 1 \in Nat
    BY <1>1, <2>1
  <2>3. f[i] = f[n]
    BY <1>3, <2>2
  <2> HIDE DEF i
  <2>4. f[i + 1] = f[i] + 0 * Amount!Power[Place(p, i + 1)]
    <3>1. f[i + 1] = Weigh(s, p, f[i], i + 1) /\ s[i + 1] = 0
      BY <2>2
    <3> QED
      BY <2>2, <3>1 DEF Weigh
  <2>5. Amount!Power[Place(p, i + 1)] \in Nat /\ f[i] \in Nat
    BY <1>1, <2>2, PlaceTyped, Powers
  <2>6. f[i + 1] = f[i]
    <3>1. \A x, q \in Nat : x + 0 * q = x
      OBVIOUS
    <3> QED
      BY <2>4, <2>5, <3>1
  <2> QED
    BY <2>2, <2>3, <2>6
<1> HIDE DEF S
<1>4. Len(s) - n \in S
  <2>1. Len(s) - n \in Nat
    BY <1>1
  <2> QED
    BY <1>2, <1>3, <2>1, Induction
<1>5. n + (Len(s) - n) = Len(s)
  BY <1>1
<1> QED
  BY <1>4, <1>5 DEF S

LEMMA WeighedWithPoint ==
  ASSUME NEW s \in Seq(Nat), NEW p \in 1 .. Len(s),
         NEW n \in p .. Len(s), n <= p + Decimals,
         \A i \in n + 1 .. Len(s) : s[i] = 0
  PROVE  Weighed(s, p) = Amount!ValueOf(WithoutPoint(s, p, n)
                           \o Amount!Zeros(p + Decimals - n))
<1>1. PICK f \in [0 .. Len(s) -> Nat] :
        /\ f[0] = 0 /\ f[Len(s)] = Weighed(s, p)
        /\ \A i \in 1 .. Len(s) : f[i] = Weigh(s, p, f[i - 1], i)
  <2>1. p \in Nat
    OBVIOUS
  <2> QED
    BY <2>1, WeighedRuns
<1>2. f[Len(s)] = f[n]
  BY <1>1, WeighedBeyond
<1>3. f[n] = Amount!ValueOf(WithoutPoint(s, p, n))
               * Amount!Power[p + Decimals - n]
  BY <1>1, WeighedAfter
<1>4. WithoutPoint(s, p, n) \in Seq(Nat)
  BY WithoutPointGrows
<1>5. p + Decimals - n \in Nat
  BY LenProperties, ConstantsOfAmounts
<1> QED
  BY <1>1, <1>2, <1>3, <1>4, <1>5, ZerosAfter

LEMMA WeighedWithoutPoint ==
  ASSUME NEW s \in Seq(Nat)
  PROVE  Weighed(s, Len(s) + 1)
           = Amount!ValueOf(s \o Amount!Zeros(Decimals))
<1> DEFINE p == Len(s) + 1
<1>1. Len(s) \in Nat /\ p \in Nat /\ p \in 1 .. Len(s) + 1 /\ p - 1 = Len(s)
  BY LenProperties
<1> HIDE DEF p
<1>2. PICK f \in [0 .. Len(s) -> Nat] :
        /\ f[0] = 0 /\ f[Len(s)] = Weighed(s, p)
        /\ \A i \in 1 .. Len(s) : f[i] = Weigh(s, p, f[i - 1], i)
  BY <1>1, WeighedRuns
<1>3. f[p - 1] = Amount!ValueOf(SubSeq(s, 1, p - 1))
                   * Amount!Power[Decimals]
  BY <1>1, <1>2, WeighedBefore
<1>4. SubSeq(s, 1, Len(s)) = s
  BY WholeSeq
<1>5. Weighed(s, p) = Amount!ValueOf(s \o Amount!Zeros(Decimals))
  BY <1>1, <1>2, <1>3, <1>4, ZerosAfter, ConstantsOfAmounts
<1> QED
  BY <1>5 DEF p

(***************************************************************************)
(* Any text is worth what is written in it.                                *)
(***************************************************************************)
AllDigits(s) == \A i \in 1 .. Len(s) : s[i] \in Amount!Digits

LEMMA NumberWithZeros ==
  ASSUME NEW s \in Seq(Nat), NEW k \in Nat
  PROVE  /\ Amount!ValueOf(s \o Amount!Zeros(k)) \in Nat
         /\ s = <<>> => Amount!ValueOf(s \o Amount!Zeros(k)) = 0
         /\ s # <<>> => Amount!ToNumber(s \o Amount!Zeros(k)) =
              IF /\ AllDigits(s)
                 /\ Amount!ValueOf(s \o Amount!Zeros(k)) <= MaxAmount
              THEN Amount!ValueOf(s \o Amount!Zeros(k)) ELSE 0
<1> DEFINE z == Amount!Zeros(k)
           x == s \o z
<1>1. z \in Seq(Nat) /\ Len(z) = k /\ \A i \in 1 .. k : z[i] = 0
  BY ZerosTyped
<1>2. /\ x \in Seq(Nat) /\ Len(s) \in Nat
      /\ Len(x) = Len(s) + k /\ DOMAIN x = 1 .. Len(s) + k
      /\ \A j \in 1 .. Len(s) : x[j] = s[j]
      /\ \A j \in 1 .. k : x[Len(s) + j] = z[j]
  <2> HIDE DEF z
  <2>1. /\ x \in Seq(Nat) /\ Len(s) \in Nat /\ Len(x) = Len(s) + Len(z)
        /\ \A j \in 1 .. Len(s) : x[j] = s[j]
        /\ \A j \in 1 .. Len(z) : x[Len(s) + j] = z[j]
    <3>1. s \in Seq(Nat) /\ z \in Seq(Nat)
      BY <1>1
    <3> QED
      BY ONLY <3>1, Joined
  <2> HIDE DEF x
  <2> QED
    BY <1>1, <2>1, LenProperties
<1>3. Amount!ValueOf(x) \in Nat
  <2> HIDE DEF x
  <2> QED
    BY <1>2, ValueOfLonger
<1>4. s = <<>> => Amount!ValueOf(x) = 0
  <2>1. <<>> \o z = z /\ z \o <<>> = z
    <3> HIDE DEF z
    <3> QED
      BY <1>1, JoinedNone
  <2>2. Amount!ValueOf(z \o <<>>) = Amount!ValueOf(<<>>)
    <3>1. <<>> \in Seq(Nat)
      OBVIOUS
    <3> QED
      BY <3>1, ZerosBefore
  <2> QED
    BY <2>1, <2>2, ValueOfNone
<1> HIDE DEF z, x
<1>5. ASSUME s # <<>>
      PROVE  /\ x # <<>>
             /\ (\A i \in DOMAIN x : x[i] \in Amount!Digits) <=> AllDigits(s)
  <2>1. x # <<>>
    <3>1. Len(s) # 0
      BY <1>5, EmptySeq
    <3>2. Len(x) # 0
      BY <1>2, <3>1
    <3> QED
      BY <3>2
  <2>2. ASSUME \A i \in DOMAIN x : x[i] \in Amount!Digits
        PROVE  AllDigits(s)
    <3>1. ASSUME NEW i \in 1 .. Len(s) PROVE s[i] \in Amount!Digits
      <4>1. i \in DOMAIN x
        BY <1>2
      <4> QED
        BY <1>2, <2>2, <4>1
    <3> QED
      BY <3>1 DEF AllDigits
  <2>3. ASSUME AllDigits(s), NEW i \in DOMAIN x
        PROVE  x[i] \in Amount!Digits
    <3>1. CASE i \in 1 .. Len(s)
      BY <1>2, <2>3, <3>1 DEF AllDigits
    <3>2. CASE ~(i \in 1 .. Len(s))
      <4>1. i - Len(s) \in 1 .. k /\ i = Len(s) + (i - Len(s))
        BY <1>2, <3>2
      <4>2. x[i] = z[i - Len(s)]
        BY <1>2, <4>1
      <4> QED
        BY <1>1, <4>1, <4>2, CharactersTyped
    <3> QED
      BY <3>1, <3>2
  <2> QED
    BY <2>1, <2>2, <2>3
<1>6. s # <<>> => Amount!ToNumber(x) =
        IF AllDigits(s) /\ Amount!ValueOf(x) <= MaxAmount
        THEN Amount!ValueOf(x) ELSE 0
  BY <1>5 DEF Amount!ToNumber
<1> QED
  BY <1>3, <1>4, <1>6 DEF x, z

LEMMA EndOfStart ==
  ASSUME NEW C, NEW s \in Seq(C), NEW n \in 1 .. Len(s),
         NEW d \in Nat, d + 1 <= n + 1
  PROVE  SubSeq(SubSeq(s, 1, n), d + 1, n) = SubSeq(s, d + 1, n)
<1> DEFINE a == SubSeq(s, 1, n)
           b == SubSeq(a, d + 1, n)
           c == SubSeq(s, d + 1, n)
<1>1. Len(s) \in Nat /\ n \in Nat /\ n <= Len(s) /\ d <= n
  BY LenProperties
<1>2. a \in Seq(C) /\ Len(a) = n /\ \A k \in 1 .. n : a[k] = s[k]
  <2>1. n \in 0 .. Len(s) /\ 0 \in 0 .. n
    BY <1>1
  <2> QED
    BY <2>1, StartOfStart
<1> HIDE DEF a
<1>3. /\ b \in Seq(C) /\ Len(b) = n - (d + 1) + 1
      /\ \A k \in 1 .. n - (d + 1) + 1 : b[k] = a[(d + 1) - 1 + k]
  <2>1. d + 1 \in 1 .. Len(a) + 1 /\ (d + 1) - 1 <= n /\ n <= Len(a)
    BY <1>1, <1>2
  <2> QED
    BY <1>1, <1>2, <2>1, Part
<1>4. /\ c \in Seq(C) /\ Len(c) = n - (d + 1) + 1
      /\ \A k \in 1 .. n - (d + 1) + 1 : c[k] = s[(d + 1) - 1 + k]
  <2>1. d + 1 \in 1 .. Len(s) + 1 /\ (d + 1) - 1 <= n
    BY <1>1
  <2> QED
    BY <1>1, <2>1, Part
<1> HIDE DEF b, c
<1>5. ASSUME NEW k \in 1 .. Len(b) PROVE b[k] = c[k]
  <2>1. k \in 1 .. n - (d + 1) + 1 /\ (d + 1) - 1 + k \in 1 .. n
    BY <1>1, <1>3
  <2> QED
    BY <1>2, <1>3, <1>4, <2>1
<1>6. b = c
  <2>1. Len(b) = Len(c)
    BY <1>3, <1>4
  <2> QED
    BY <1>3, <1>4, <1>5, <2>1, SameSeq
<1> QED
  BY <1>6 DEF a, b, c

LEMMA PartOfStart ==
  ASSUME NEW C, NEW s \in Seq(C), NEW n \in 1 .. Len(s), NEW p \in 1 .. n
  PROVE  Amount!RemoveAt(SubSeq(s, 1, n), p) = WithoutPoint(s, p, n)
<1>1. Len(s) \in Nat /\ n \in 0 .. Len(s) /\ p \in Nat /\ p + 1 <= n + 1
      /\ p - 1 \in 0 .. n
  BY LenProperties
<1>2. /\ SubSeq(SubSeq(s, 1, n), 1, p - 1) = SubSeq(s, 1, p - 1)
      /\ Len(SubSeq(s, 1, n)) = n
  BY <1>1, StartOfStart
<1>3. SubSeq(SubSeq(s, 1, n), p + 1, n) = SubSeq(s, p + 1, n)
  BY <1>1, EndOfStart
<1> QED
  BY <1>2, <1>3 DEF Amount!RemoveAt, WithoutPoint

LEMMA DigitsButThePoint ==
  ASSUME NEW C, NEW s \in Seq(C), NEW p \in 1 .. Len(s), NEW n \in p .. Len(s)
  PROVE  AllDigits(WithoutPoint(s, p, n))
           <=> \A i \in 1 .. n : i = p \/ s[i] \in Amount!Digits
<1> DEFINE a == SubSeq(s, 1, p - 1)
           b == SubSeq(s, p + 1, n)
           w == WithoutPoint(s, p, n)
<1>1. /\ Len(s) \in Nat /\ n \in Nat /\ n <= Len(s) /\ p \in Nat /\ p >= 1
      /\ p <= n
  BY LenProperties
<1>2. a \in Seq(C) /\ Len(a) = p - 1 /\ \A k \in 1 .. p - 1 : a[k] = s[k]
  <2>1. p - 1 \in 0 .. Len(s) /\ 0 \in 0 .. p - 1
    BY <1>1
  <2> QED
    BY <2>1, StartOfStart
<1>3. /\ b \in Seq(C) /\ Len(b) = n - p
      /\ \A k \in 1 .. n - p : b[k] = s[p + k]
  <2>1. p + 1 \in 1 .. Len(s) + 1 /\ (p + 1) - 1 <= n
    BY <1>1
  <2>2. /\ b \in Seq(C) /\ Len(b) = n - (p + 1) + 1
        /\ \A k \in 1 .. n - (p + 1) + 1 : b[k] = s[(p + 1) - 1 + k]
    BY <1>1, <2>1, Part
  <2> HIDE DEF b
  <2>3. n - (p + 1) + 1 = n - p /\ (p + 1) - 1 = p
    BY <1>1
  <2> QED
    BY <2>2, <2>3
<1>4. w = a \o b
  BY DEF WithoutPoint
<1> HIDE DEF a, b, w
<1>5. /\ Len(w) = (p - 1) + (n - p)
      /\ \A k \in 1 .. p - 1 : w[k] = s[k]
      /\ \A k \in 1 .. n - p : w[(p - 1) + k] = s[p + k]
  <2>1. /\ Len(w) = Len(a) + Len(b)
        /\ \A k \in 1 .. Len(a) : w[k] = a[k]
        /\ \A k \in 1 .. Len(b) : w[Len(a) + k] = b[k]
    <3>1. a \in Seq(C) /\ b \in Seq(C)
      BY <1>2, <1>3
    <3>2. /\ Len(a \o b) = Len(a) + Len(b)
          /\ \A k \in 1 .. Len(a) : (a \o b)[k] = a[k]
          /\ \A k \in 1 .. Len(b) : (a \o b)[Len(a) + k] = b[k]
      BY ONLY <3>1, Joined
    <3> QED
      BY <1>4, <3>2
  <2> QED
    BY <1>2, <1>3, <2>1
<1>6. ASSUME AllDigits(w), NEW i \in 1 .. n, i # p
      PROVE  s[i] \in Amount!Digits
  <2>1. CASE i < p
    <3>1. i \in 1 .. p - 1 /\ i \in 1 .. Len(w)
      BY <1>1, <1>5, <2>1
    <3> QED
      BY <1>5, <1>6, <3>1 DEF AllDigits
  <2>2. CASE ~(i < p)
    <3>1. /\ i - p \in 1 .. n - p /\ i = p + (i - p)
          /\ (p - 1) + (i - p) \in 1 .. Len(w)
      BY <1>1, <1>5, <1>6, <2>2
    <3>2. w[(p - 1) + (i - p)] = s[p + (i - p)]
      BY <1>5, <3>1
    <3>3. w[(p - 1) + (i - p)] \in Amount!Digits
      BY <1>6, <3>1 DEF AllDigits
    <3> QED
      BY <3>1, <3>2, <3>3
  <2> QED
    BY <2>1, <2>2
<1>7. ASSUME \A i \in 1 .. n : i = p \/ s[i] \in Amount!Digits,
             NEW k \in 1 .. Len(w)
      PROVE  w[k] \in Amount!Digits
  <2>1. CASE k < p
    <3>1. k \in 1 .. p - 1 /\ k \in 1 .. n /\ k # p
      BY <1>1, <1>5, <2>1
    <3> QED
      BY <1>5, <1>7, <3>1
  <2>2. CASE ~(k < p)
    <3>1. /\ k - (p - 1) \in 1 .. n - p /\ k = (p - 1) + (k - (p - 1))
          /\ p + (k - (p - 1)) \in 1 .. n /\ p + (k - (p - 1)) # p
      BY <1>1, <1>5, <2>2
    <3>2. w[k] = s[p + (k - (p - 1))]
      BY <1>5, <3>1
    <3> QED
      BY <1>7, <3>1, <3>2
  <2> QED
    BY <2>1, <2>2
<1>8. AllDigits(w) <=> \A i \in 1 .. n : i = p \/ s[i] \in Amount!Digits
  <2>1. AllDigits(w) => \A i \in 1 .. n : i = p \/ s[i] \in Amount!Digits
    BY <1>6
  <2>2. (\A i \in 1 .. n : i = p \/ s[i] \in Amount!Digits) => AllDigits(w)
    BY <1>7 DEF AllDigits
  <2> QED
    BY <2>1, <2>2
<1> QED
  BY <1>8 DEF w

LEMMA Parses ==
  ASSUME NEW s \in Seq(Amount!Characters)
  PROVE  Amount!ParseAmount(s) = Amount!Worth(s)
<1> DEFINE plain  == Amount!WithoutCommas(s)
           points == {i \in DOMAIN plain : plain[i] = Amount!Point}
           point  == IF points = {} THEN Len(plain) + 1
                     ELSE CHOOSE i \in points : \A j \in points : i <= j
           bad    == \/ \E i \in DOMAIN plain :
                          plain[i] \notin Amount!Digits /\ i # point
                     \/ \E i \in DOMAIN plain :
                          i > point + Decimals /\ plain[i] # 0
           worth  == Weighed(plain, point)
<1>0. Amount!Worth(s) =
        IF \/ \E i \in DOMAIN plain :
                plain[i] \notin Amount!Digits /\ i # point
           \/ \E i \in DOMAIN plain : i > point + Decimals /\ plain[i] # 0
           \/ worth > MaxAmount
        THEN 0 ELSE worth
  BY Zenon DEF Amount!Worth, Weighed, Weigh, Place, Amount!FoldLeft,
               Amount!MapThenFoldSet
<1>1. Amount!Worth(s) = IF bad \/ worth > MaxAmount THEN 0 ELSE worth
  <2> HIDE DEF plain, point, worth
  <2> QED
    BY <1>0
<1>2. Amount!ParseAmount(s) =
        IF Amount!Contains(plain, Amount!Point) THEN Amount!ParseFraction(plain)
        ELSE IF plain = <<>> THEN 0
        ELSE Amount!ToNumber(plain \o Amount!Zeros(Decimals))
  BY DEF Amount!ParseAmount
<1>3. /\ plain \in Seq(Amount!Characters) /\ plain \in Seq(Nat)
      /\ Len(plain) \in Nat /\ DOMAIN plain = 1 .. Len(plain)
  <2>1. plain \in Seq(Amount!Characters)
    BY WithoutTyped
  <2> HIDE DEF plain
  <2>2. plain \in Seq(Nat)
    BY <2>1, Wider, CharactersTyped
  <2> QED
    BY <2>1, <2>2, LenProperties
<1>4. /\ Decimals \in Nat /\ Decimals >= 2 /\ MaxAmount \in Nat
      /\ 0 \in Amount!Digits /\ Amount!Point \notin Amount!Digits
  BY ConstantsOfAmounts, CharactersTyped
<1> HIDE DEF plain
<1>5. CASE points = {}
  <2>1. point = Len(plain) + 1
    BY <1>5
  <2>2. ~Amount!Contains(plain, Amount!Point)
    BY <1>3, <1>5 DEF Amount!Contains
  <2> DEFINE value == Amount!ValueOf(plain \o Amount!Zeros(Decimals))
  <2>3. worth = value
    BY <1>3, <2>1, WeighedWithoutPoint
  <2>4. bad <=> ~AllDigits(plain)
    <3> HIDE DEF point
    <3>1. \A i \in DOMAIN plain : i # point /\ ~(i > point + Decimals)
      BY <1>3, <1>4, <2>1
    <3> QED
      BY <1>3, <3>1 DEF AllDigits
  <2>5. /\ value \in Nat
        /\ plain = <<>> => value = 0
        /\ plain # <<>> => Amount!ToNumber(plain \o Amount!Zeros(Decimals)) =
             IF AllDigits(plain) /\ value <= MaxAmount THEN value ELSE 0
    BY <1>3, <1>4, NumberWithZeros
  <2> HIDE DEF points, point, worth, bad, value
  <2>6. CASE plain = <<>>
    BY <1>1, <1>2, <2>2, <2>3, <2>5, <2>6
  <2>7. CASE plain # <<>>
    <3>1. Amount!ParseAmount(s) =
            IF AllDigits(plain) /\ value <= MaxAmount THEN value ELSE 0
      BY <1>2, <2>2, <2>5, <2>7
    <3>2. value <= MaxAmount <=> ~(value > MaxAmount)
      BY <1>4, <2>5
    <3> QED
      BY <1>1, <2>3, <2>4, <3>1, <3>2
  <2> QED
    BY <2>6, <2>7
<1>6. CASE points # {}
  <2> DEFINE p == Amount!FirstPoint(plain)
  <2>1. PointAt(plain, p) /\ \A k \in points : p <= k
    <3>1. PICK k \in points : TRUE
      BY <1>6
    <3>2. \A j \in points : j \in 1 .. Len(plain) /\ plain[j] = Amount!Point
      BY <1>3
    <3> HIDE DEF points
    <3> QED
      BY <1>3, <3>1, <3>2, SomePoint
  <2> HIDE DEF p
  <2>2. p \in 1 .. Len(plain) /\ p \in points
    BY <1>3, <2>1 DEF PointAt
  <2>3. point = p
    <3>1. \A i \in points : (\A j \in points : i <= j) => i = p
      BY <1>3, <2>1, <2>2
    <3> HIDE DEF points
    <3> QED
      BY <1>6, <2>1, <2>2, <3>1
  <2>4. Amount!Contains(plain, Amount!Point)
    BY <1>3, <2>2 DEF Amount!Contains
  <2>5. PICK n \in p .. Len(plain) : Cut(plain, p, n)
    BY <1>3, <2>1, ShortenedCuts
  <2>6. /\ p \in Nat /\ p >= 1 /\ n \in Nat /\ p <= n /\ n <= Len(plain)
        /\ n \in 1 .. Len(plain) /\ p \in 1 .. n /\ n \in 0 .. Len(plain)
    BY <1>3, <2>2
  <2> DEFINE short  == SubSeq(plain, 1, n)
             digits == WithoutPoint(plain, p, n)
  <2>7. Amount!Shortened[plain] = short /\ Len(short) = n
    <3>1. 0 \in 0 .. n
      BY <2>6
    <3> QED
      BY <1>3, <2>5, <2>6, <3>1, StartOfStart DEF Cut
  <2>8. Amount!RemoveAt(short, p) = digits
    BY <1>3, <2>6, PartOfStart
  <2>9. Amount!ParseFraction(plain) =
          IF Decimals < n - p \/ digits = <<>> THEN 0
          ELSE Amount!ToNumber(digits \o Amount!Zeros(Decimals - (n - p)))
    <3> HIDE DEF short, digits
    <3> QED
      BY <2>7, <2>8 DEF Amount!ParseFraction, p
  <2>10. Amount!ParseAmount(s) = Amount!ParseFraction(plain)
    BY <1>2, <2>4
  <2>11. bad <=> \/ \E i \in 1 .. Len(plain) :
                      plain[i] \notin Amount!Digits /\ i # p
                 \/ \E i \in 1 .. Len(plain) :
                      i > p + Decimals /\ plain[i] # 0
    BY <1>3, <2>3
  <2>12. worth = Weighed(plain, p)
    <3> HIDE DEF point
    <3> QED
      BY <2>3
  <2>13. digits \in Seq(Nat)
    BY <1>3, <2>2, WithoutPointGrows
  <2> HIDE DEF points, point, worth, bad, short, digits
  <2>14. CASE n > p + Decimals
    <3>1. plain[n] # 0
      BY <2>5, <2>14 DEF Cut
    <3>2. bad
      BY <2>6, <2>11, <2>14, <3>1
    <3>3. Decimals < n - p
      BY <1>4, <2>6, <2>14
    <3> QED
      BY <1>1, <2>9, <2>10, <3>2, <3>3
  <2>15. CASE n <= p + Decimals
    <3> DEFINE k     == p + Decimals - n
               value == Amount!ValueOf(digits \o Amount!Zeros(k))
    <3>1. k \in Nat /\ Decimals - (n - p) = k /\ ~(Decimals < n - p)
      BY <1>4, <2>6, <2>15
    <3>2. \A i \in n + 1 .. Len(plain) : plain[i] = 0
      BY <2>5 DEF Cut
    <3>3. worth = value
      BY <1>3, <2>2, <2>12, <2>15, <3>2, WeighedWithPoint DEF digits
    <3> HIDE DEF k
    <3>4. /\ value \in Nat
          /\ digits = <<>> => value = 0
          /\ digits # <<>> => Amount!ToNumber(digits \o Amount!Zeros(k)) =
               IF AllDigits(digits) /\ value <= MaxAmount THEN value ELSE 0
      BY <2>13, <3>1, NumberWithZeros
    <3>5. AllDigits(digits)
            <=> \A i \in 1 .. n : i = p \/ plain[i] \in Amount!Digits
      BY <1>3, <2>2, DigitsButThePoint DEF digits
    <3>6. bad <=> ~AllDigits(digits)
      <4>1. ASSUME NEW i \in 1 .. Len(plain), ~(i \in 1 .. n)
            PROVE  plain[i] = 0
        <5>1. i \in n + 1 .. Len(plain)
          BY <2>6, <4>1
        <5> QED
          BY <3>2, <5>1
      <4>2. ASSUME NEW i \in 1 .. Len(plain), i > p + Decimals
            PROVE  plain[i] = 0
        <5>1. i \in n + 1 .. Len(plain)
          BY <1>4, <2>6, <2>15, <4>2
        <5> QED
          BY <3>2, <5>1
      <4>3. \A i \in 1 .. n : i \in 1 .. Len(plain)
        BY <2>6
      <4>4. (\E i \in 1 .. Len(plain) : plain[i] \notin Amount!Digits /\ i # p)
              <=> ~(\A i \in 1 .. n : i = p \/ plain[i] \in Amount!Digits)
        BY <1>4, <4>1, <4>3
      <4> QED
        BY <2>11, <3>5, <4>2, <4>4
    <3> HIDE DEF value
    <3>7. CASE digits = <<>>
      BY <1>1, <2>9, <2>10, <3>3, <3>4, <3>7
    <3>8. CASE digits # <<>>
      <4>1. Amount!ParseAmount(s) =
              IF AllDigits(digits) /\ value <= MaxAmount THEN value ELSE 0
        BY <2>9, <2>10, <3>1, <3>4, <3>8
      <4>2. value <= MaxAmount <=> ~(value > MaxAmount)
        BY <1>4, <3>4
      <4> QED
        BY <1>1, <3>3, <3>6, <4>1, <4>2
    <3> QED
      BY <3>7, <3>8
  <2> QED
    BY <1>4, <2>6, <2>14, <2>15
<1> QED
  BY <1>5, <1>6

(***************************************************************************)
(* The text of an amount: its digits, their groups, and the end that goes. *)
(***************************************************************************)
LEMMA PaddedIs ==
  ASSUME NEW n \in Nat
  PROVE  LET P == Amount!Padded(Amount!Number[n])
         IN /\ P \in Seq(Amount!Digits) /\ Len(P) \in Nat
            /\ Len(P) >= Decimals + 1
            /\ Amount!ValueOf(P) = n
            /\ P[1] = 0 => Len(P) = Decimals + 1
<1> DEFINE s == Amount!Number[n]
           k == Amount!Less(Decimals + 1, Len(s))
           z == Amount!Zeros(k)
           P == z \o s
<1>1. /\ s \in Seq(Amount!Digits) /\ Len(s) >= 1
      /\ Amount!ValueOf(s) = n
      /\ Len(s) > 1 => s[1] # 0
  BY NumberIsWorthIt
<1>2. P = Amount!Padded(s)
  BY DEF Amount!Padded
<1> HIDE DEF s
<1>3. Len(s) \in Nat /\ Decimals \in Nat /\ Decimals >= 2
  BY <1>1, LenProperties, ConstantsOfAmounts
<1>4. /\ k \in Nat
      /\ Len(s) >= Decimals + 1 => k = 0
      /\ ~(Len(s) >= Decimals + 1) => k >= 1 /\ k + Len(s) = Decimals + 1
  BY <1>3 DEF Amount!Less
<1> HIDE DEF k
<1>5. /\ z \in Seq({0}) /\ z \in Seq(Nat) /\ Len(z) = k
      /\ \A i \in 1 .. k : z[i] = 0
  BY <1>4, ZerosTyped
<1>6. z \in Seq(Amount!Digits) /\ s \in Seq(Nat)
  <2>1. {0} \subseteq Amount!Digits /\ Amount!Digits \subseteq Nat
    BY CharactersTyped
  <2> HIDE DEF z
  <2> QED
    BY <1>1, <1>5, <2>1, Wider
<1>7. Amount!ValueOf(P) = n
  BY <1>1, <1>4, <1>6, ZerosBefore
<1>8. k = 0 => P = s
  BY <1>1, MoreZeros, JoinedNone
<1> HIDE DEF z
<1>9. /\ P \in Seq(Amount!Digits)
      /\ Len(P) = k + Len(s)
  BY <1>1, <1>5, <1>6, Joined
<1>10. Len(P) >= Decimals + 1 /\ Len(P) \in Nat
  BY <1>3, <1>4, <1>9
<1>11. P[1] = 0 => Len(P) = Decimals + 1
  BY <1>1, <1>3, <1>4, <1>8, <1>9
<1> HIDE DEF P
<1>12. /\ P \in Seq(Amount!Digits) /\ Len(P) \in Nat
       /\ Len(P) >= Decimals + 1
       /\ Amount!ValueOf(P) = n
       /\ P[1] = 0 => Len(P) = Decimals + 1
  BY <1>7, <1>9, <1>10, <1>11
<1> QED
  BY <1>2, <1>12 DEF s

TrimmedAt(P, k) ==
  /\ k \in Len(P) - Decimals + 2 .. Len(P)
  /\ Amount!Trimmed(P) = SubSeq(P, 1, k)
  /\ \A i \in k + 1 .. Len(P) : P[i] = 0
  /\ k > Len(P) - Decimals + 2 => P[k] # 0

LEMMA TrimmedIs ==
  ASSUME NEW C, NEW P \in Seq(C), Len(P) >= Decimals + 1
  PROVE  \E k : TrimmedAt(P, k)
<1> DEFINE least == Len(P) - Decimals + 2
           keep  == {n \in least .. Len(P) :
                       \A i \in n + 1 .. Len(P) : P[i] = 0}
           k     == CHOOSE n \in keep : \A m \in keep : n <= m
<1>1. Amount!Trimmed(P) = SubSeq(P, 1, k)
  BY DEF Amount!Trimmed
<1>2. /\ Len(P) \in Nat /\ Decimals \in Nat /\ Decimals >= 2
      /\ least \in Nat /\ least <= Len(P)
  BY LenProperties, ConstantsOfAmounts
<1>3. keep \in SUBSET Nat /\ Len(P) \in keep
  BY <1>2
<1>4. k \in keep /\ \A m \in keep : k <= m
  <2> HIDE DEF keep
  <2> QED
    BY <1>3, Least
<1> HIDE DEF k
<1>5. ASSUME k > least PROVE P[k] # 0
  <2>1. SUFFICES ASSUME P[k] = 0 PROVE FALSE
    OBVIOUS
  <2>2. k \in Nat /\ k - 1 \in least .. Len(P) /\ ~(k <= k - 1)
    BY <1>2, <1>4, <1>5
  <2>3. ASSUME NEW i \in (k - 1) + 1 .. Len(P) PROVE P[i] = 0
    <3>1. i = k \/ i \in k + 1 .. Len(P)
      BY <2>2
    <3> QED
      BY <1>4, <2>1, <3>1
  <2>4. k - 1 \in keep
    BY <2>2, <2>3
  <2> QED
    BY <1>4, <2>2, <2>4
<1>6. /\ k \in least .. Len(P)
      /\ \A i \in k + 1 .. Len(P) : P[i] = 0
  BY <1>4
<1>7. TrimmedAt(P, k)
  BY <1>1, <1>5, <1>6 DEF TrimmedAt
<1> QED
  BY <1>7

LEMMA FlattenRuns ==
  ASSUME NEW C, NEW q \in Seq(Seq(C)), Len(q) >= 1
  PROVE  \E f \in [0 .. Len(q) -> Seq(C)] :
           /\ f[0] = <<>> /\ f[Len(q)] = Amount!FlattenSeq(q)
           /\ \A i \in 1 .. Len(q) : f[i] = f[i - 1] \o q[i]
<1> DEFINE n     == Len(q)
           V     == Seq(C)
           It(f) == [i \in 1 .. Len(q) |->
                       IF i = 1 THEN q[i] ELSE f[i - 1] \o q[i]]
           h     == CHOOSE f : f = It(f)
           step  == [r \in V \X (1 .. n) |-> r[1] \o q[r[2]]]
<1>1. Amount!FlattenSeq(q) = IF Len(q) = 0 THEN q ELSE h[Len(q)]
  BY Zenon DEF Amount!FlattenSeq
<1>2. n \in Nat /\ n # 0 /\ \A i \in 1 .. n : q[i] \in V
  BY LenProperties
<1>3. \A v \in V, i \in 1 .. n : v \o q[i] \in V
  BY <1>2
<1>4. /\ Steps(n, V, <<>>, step)
      /\ \A v \in V, i \in 1 .. n : step[<<v, i>>] = v \o q[i]
  <2>1. <<>> \in V
    OBVIOUS
  <2> HIDE DEF V
  <2> QED
    BY <1>2, <1>3, <2>1 DEF Steps
<1> HIDE DEF step
<1>5. PICK f \in [0 .. n -> V] :
        /\ f[0] = <<>>
        /\ \A i \in 1 .. n : f[i] = step[<<f[i - 1], i>>]
  <2>1. Chained(n, V, <<>>, step)
    BY <1>4, Chain
  <2>2. PICK g \in [SUBSET (1 .. n) -> V] : \A T \in SUBSET (1 .. n) :
           g[T] = IF T = {} THEN <<>>
                  ELSE step[<<g[T \ {Amount!Max(T)}], Amount!Max(T)>>]
    BY <2>1 DEF Chained
  <2>3. Folds(n, V, <<>>, step, g)
    BY <2>2 DEF Folds
  <2>4. Runs(n, V, <<>>, step, g[1 .. n])
    BY <1>4, <2>3, Fold
  <2> QED
    BY <2>4 DEF Runs
<1>6. \A i \in 1 .. n : f[i] = f[i - 1] \o q[i]
  <2>1. ASSUME NEW i \in 1 .. n PROVE f[i] = f[i - 1] \o q[i]
    <3>1. i - 1 \in 0 .. n
      BY <1>2
    <3>2. f[i - 1] \in V
      BY <1>5, <3>1
    <3> QED
      BY <1>4, <1>5, <3>2
  <2> QED
    BY <2>1
<1>7. f[1] = q[1]
  <2>1. 1 \in 1 .. n /\ 1 - 1 = 0
    BY <1>2
  <2>2. f[1] = <<>> \o q[1] /\ q[1] \in V
    BY <1>2, <1>5, <1>6, <2>1
  <2> QED
    BY <2>2, JoinedNone
<1>8. \E e : e = It(e)
  <2> DEFINE e == [i \in 1 .. n |-> f[i]]
  <2>1. \A i \in 1 .. n : i # 1 => i - 1 \in 1 .. n
    BY <1>2
  <2>2. ASSUME NEW i \in 1 .. n
        PROVE  e[i] = IF i = 1 THEN q[i] ELSE e[i - 1] \o q[i]
    BY <1>6, <1>7, <2>1
  <2>3. e = It(e)
    BY <2>2
  <2> HIDE DEF e
  <2> QED
    BY <2>3
<1>9. h = It(h)
  BY <1>8
<1> HIDE DEF h
<1>10. \A i \in 1 .. n : h[i] = IF i = 1 THEN q[i] ELSE h[i - 1] \o q[i]
  BY <1>9
<1> DEFINE S == {d \in Nat : d + 1 <= n => h[d + 1] = f[d + 1]}
<1>11. 0 \in S
  <2>1. 1 \in 1 .. n /\ 0 + 1 = 1
    BY <1>2
  <2> QED
    BY <1>7, <1>10, <2>1
<1>12. ASSUME NEW d \in Nat, d \in S PROVE d + 1 \in S
  <2>1. SUFFICES ASSUME (d + 1) + 1 <= n
                 PROVE  h[(d + 1) + 1] = f[(d + 1) + 1]
    OBVIOUS
  <2> DEFINE i == (d + 1) + 1
  <2>2. i \in 1 .. n /\ i # 1 /\ i - 1 = d + 1 /\ d + 1 <= n
    BY <1>2, <2>1
  <2>3. h[d + 1] = f[d + 1]
    BY <1>12, <2>2
  <2> HIDE DEF i
  <2>4. h[i] = f[i]
    <3>1. h[i] = h[i - 1] \o q[i]
      BY <1>10, <2>2
    <3>2. f[i] = f[i - 1] \o q[i]
      BY <1>6, <2>2
    <3> QED
      BY <2>2, <2>3, <3>1, <3>2
  <2> QED
    BY <2>4 DEF i
<1>13. n - 1 \in S
  <2> HIDE DEF S
  <2>1. n - 1 \in Nat
    BY <1>2
  <2> QED
    BY <1>11, <1>12, <2>1, Induction
<1>14. h[n] = f[n]
  <2>1. (n - 1) + 1 = n
    BY <1>2
  <2> QED
    BY <1>2, <1>13, <2>1
<1> QED
  BY <1>1, <1>2, <1>5, <1>6, <1>14

(* How many characters r digits take, with a comma before each three. *)
Spread(r) == r + r \div 3

LEMMA Groups ==
  ASSUME NEW j \in Nat, j >= 1
  PROVE  /\ Spread(j) \in Nat /\ Spread(j - 1) \in Nat
         /\ j % 3 = 0 => /\ Spread(j) = Spread(j - 1) + 2
                         /\ Spread(j) % 4 = 0 /\ (Spread(j) - 1) % 4 # 0
         /\ j % 3 # 0 => /\ Spread(j) = Spread(j - 1) + 1
                         /\ Spread(j) % 4 # 0
BY DEF Spread

LEMMA TwoSeq ==
  ASSUME NEW a, NEW b
  PROVE  Append(<<a>>, b) = <<a, b>>
<1> DEFINE C == {a, b}
           s == Append(<<a>>, b)
           t == <<a, b>>
<1>1. /\ <<a>> \in Seq(C) /\ b \in C /\ Len(<<a>>) = 1 /\ <<a>>[1] = a
      /\ t \in Seq(C) /\ Len(t) = 2 /\ t[1] = a /\ t[2] = b
  OBVIOUS
<1> HIDE DEF t
<1>2. s \in Seq(C) /\ Len(s) = 2 /\ s[1] = a /\ s[2] = b
  <2>1. /\ s \in Seq(C) /\ Len(s) = 1 + 1 /\ s[1 + 1] = b
        /\ \A k \in 1 .. 1 : s[k] = <<a>>[k]
    BY <1>1, Longer
  <2> HIDE DEF s
  <2> QED
    BY <1>1, <2>1
<1> HIDE DEF s
<1>3. \A k \in 1 .. Len(s) : s[k] = t[k]
  <2>1. \A k \in 1 .. 2 : k = 1 \/ k = 2
    OBVIOUS
  <2> QED
    BY <1>1, <1>2, <2>1
<1>4. s = t
  BY <1>1, <1>2, <1>3, SameSeq
<1> QED
  BY <1>4 DEF s, t

GroupedUpto(x, g, i) ==
  /\ g \in Seq(Amount!Digits \cup {Amount!Comma}) /\ Len(g) >= 1
  /\ Amount!WithoutCommas(g) = SubSeq(x, 1, i)
  /\ Len(g) + Spread(Len(x) - i) = 1 + Spread(Len(x) - 1)
  /\ g[1] = x[1]
  /\ \A p \in 1 .. Len(g) :
       (g[p] = Amount!Comma)
         = (p > 1 /\ (1 + Spread(Len(x) - 1) + 1 - p) % 4 = 0)

LEMMA GroupsUpto ==
  ASSUME NEW x \in Seq(Amount!Digits), NEW g, NEW i \in 1 .. Len(x),
         i + 1 <= Len(x), GroupedUpto(x, g, i),
         NEW new, new = IF (Len(x) - (i + 1) + 1) % 3 = 0
                        THEN <<Amount!Comma, x[i + 1]>> ELSE <<x[i + 1]>>
  PROVE  GroupedUpto(x, g \o new, i + 1)
<1> DEFINE C == Amount!Digits \cup {Amount!Comma}
           m == Len(x)
           j == m - i
           e == x[i + 1]
           t == 1 + Spread(m - 1)
<1>1. /\ m \in Nat /\ i \in Nat /\ i >= 1 /\ i + 1 <= m
      /\ j \in Nat /\ j >= 1 /\ m - (i + 1) = j - 1 /\ m - (i + 1) + 1 = j
      /\ m - 1 \in Nat /\ m >= 1
      /\ e \in Amount!Digits /\ e # Amount!Comma /\ e \in C
      /\ Amount!Comma \in C
  BY LenProperties, CharactersTyped
<1>2. /\ Spread(j) \in Nat /\ Spread(j - 1) \in Nat
      /\ j % 3 = 0 => /\ Spread(j) = Spread(j - 1) + 2
                      /\ Spread(j) % 4 = 0 /\ (Spread(j) - 1) % 4 # 0
      /\ j % 3 # 0 => /\ Spread(j) = Spread(j - 1) + 1
                      /\ Spread(j) % 4 # 0
  BY <1>1, Groups
<1>3. Spread(m - 1) \in Nat
  BY <1>1 DEF Spread
<1>4. /\ g \in Seq(C) /\ Len(g) >= 1 /\ Len(g) \in Nat
      /\ Amount!WithoutCommas(g) = SubSeq(x, 1, i)
      /\ Len(g) + Spread(j) = t
      /\ g[1] = x[1]
      /\ \A p \in 1 .. Len(g) :
           (g[p] = Amount!Comma) = (p > 1 /\ (t + 1 - p) % 4 = 0)
  <2>2. g \in Seq(C) /\ Len(g) >= 1
    BY DEF GroupedUpto
  <2>3. /\ Amount!WithoutCommas(g) = SubSeq(x, 1, i)
        /\ Len(g) + Spread(j) = t /\ g[1] = x[1]
    BY DEF GroupedUpto
  <2>5. \A p \in 1 .. Len(g) : (g[p] = Amount!Comma)
          = (p > 1 /\ (t + 1 - p) % 4 = 0)
    BY DEF GroupedUpto
  <2> HIDE DEF C, m, j, t
  <2>6. Len(g) \in Nat
    BY <2>2, LenProperties
  <2> QED
    BY <2>2, <2>3, <2>5, <2>6
<1>5. SubSeq(x, 1, i + 1) = Append(SubSeq(x, 1, i), e)
  <2>1. 1 \in Nat /\ 1 >= 1 /\ 1 - 1 <= i
    BY <1>1
  <2> QED
    BY <1>1, <2>1, PartGrows
<1>6. new = IF j % 3 = 0 THEN <<Amount!Comma, e>> ELSE <<e>>
  BY <1>1
<1> HIDE DEF C, j, e, t, m
<1>7. /\ new \in Seq(C) /\ Len(new) \in {1, 2}
      /\ j % 3 = 0 => Len(new) = 2 /\ new[1] = Amount!Comma /\ new[2] = e
      /\ j % 3 # 0 => Len(new) = 1 /\ new[1] = e
      /\ Amount!WithoutCommas(new) = <<e>>
  <2>1. /\ <<>> \in Seq(C) /\ <<e>> \in Seq(C) /\ <<Amount!Comma>> \in Seq(C)
        /\ Append(<<>>, e) = <<e>>
        /\ Append(<<>>, Amount!Comma) = <<Amount!Comma>>
        /\ Append(<<Amount!Comma>>, e) = <<Amount!Comma, e>>
        /\ <<Amount!Comma, e>> \in Seq(C)
    <3>1. e \in C /\ Amount!Comma \in C
      BY <1>1
    <3>2. <<>> \in Seq(C) /\ <<e>> \in Seq(C) /\ <<Amount!Comma>> \in Seq(C)
          /\ <<Amount!Comma, e>> \in Seq(C)
      BY <3>1
    <3>3. Append(<<>>, e) = <<e>>
      OBVIOUS
    <3>4. Append(<<>>, Amount!Comma) = <<Amount!Comma>>
      OBVIOUS
    <3>5. Append(<<Amount!Comma>>, e) = <<Amount!Comma, e>>
      BY TwoSeq
    <3> QED
      BY <3>2, <3>3, <3>4, <3>5
  <2>2. Amount!WithoutCommas(<<e>>) = <<e>>
    <3>1. Amount!WithoutCommas(Append(<<>>, e))
            = Keep(Amount!WithoutCommas(<<>>), e)
      BY <1>1, <2>1, WithoutLonger
    <3> QED
      BY <1>1, <2>1, <3>1, WithoutNone DEF Keep
  <2>3. Amount!WithoutCommas(<<Amount!Comma, e>>) = <<e>>
    <3>1. Amount!WithoutCommas(Append(<<>>, Amount!Comma))
            = Keep(Amount!WithoutCommas(<<>>), Amount!Comma)
      BY <1>1, <2>1, WithoutLonger
    <3>2. Amount!WithoutCommas(<<Amount!Comma>>) = <<>>
      BY <2>1, <3>1, WithoutNone DEF Keep
    <3>3. Amount!WithoutCommas(Append(<<Amount!Comma>>, e))
            = Keep(Amount!WithoutCommas(<<Amount!Comma>>), e)
      BY <1>1, <2>1, WithoutLonger
    <3> QED
      BY <1>1, <2>1, <3>2, <3>3 DEF Keep
  <2>4. Len(<<e>>) = 1 /\ <<e>>[1] = e /\ Len(<<Amount!Comma, e>>) = 2
        /\ <<Amount!Comma, e>>[1] = Amount!Comma /\ <<Amount!Comma, e>>[2] = e
    OBVIOUS
  <2>5. CASE j % 3 = 0
    <3>1. new = <<Amount!Comma, e>>
      BY <1>6, <2>5
    <3> QED
      BY <2>1, <2>3, <2>4, <2>5, <3>1
  <2>6. CASE j % 3 # 0
    <3>1. new = <<e>>
      BY <1>6, <2>6
    <3> QED
      BY <2>1, <2>2, <2>4, <2>6, <3>1
  <2> QED
    BY <2>5, <2>6
<1>7a. /\ Len(g) \in Nat /\ Len(g) >= 1 /\ Spread(j) \in Nat
      /\ Spread(j - 1) \in Nat /\ Len(g) + Spread(j) = t
  BY <1>2, <1>4
<1> DEFINE G == g \o new
<1>8. /\ G \in Seq(C) /\ Len(G) = Len(g) + Len(new)
      /\ \A p \in 1 .. Len(g) : G[p] = g[p]
      /\ \A p \in 1 .. Len(new) : G[Len(g) + p] = new[p]
  BY <1>4, <1>7, Joined
<1>9. Amount!WithoutCommas(G) = SubSeq(x, 1, i + 1)
  <2>1. Amount!WithoutCommas(G)
          = Amount!WithoutCommas(g) \o Amount!WithoutCommas(new)
    BY <1>4, <1>7, WithoutJoined
  <2>2. SubSeq(x, 1, i) \in Seq(C)
    BY <1>4, WithoutTyped
  <2>3. SubSeq(x, 1, i) \o Append(<<>>, e) = Append(SubSeq(x, 1, i) \o <<>>, e)
    <3>1. <<>> \in Seq(C)
      OBVIOUS
    <3> QED
      BY <1>1, <2>2, <3>1, JoinedLonger
  <2>4. SubSeq(x, 1, i) \o <<>> = SubSeq(x, 1, i) /\ Append(<<>>, e) = <<e>>
    BY <2>2, JoinedNone
  <2> QED
    BY <1>4, <1>5, <1>7, <2>1, <2>3, <2>4
<1> HIDE DEF G
<1>10. Len(G) + Spread(j - 1) = t /\ Len(G) >= 1
  <2>1. CASE j % 3 = 0
    <3>1. Spread(j) = Spread(j - 1) + 2 /\ Len(G) = Len(g) + 2
      BY <1>2, <1>7, <1>8, <2>1
    <3> QED
      BY ONLY <1>7a, <3>1
  <2>2. CASE j % 3 # 0
    <3>1. Spread(j) = Spread(j - 1) + 1 /\ Len(G) = Len(g) + 1
      BY <1>2, <1>7, <1>8, <2>2
    <3> QED
      BY ONLY <1>7a, <3>1
  <2> QED
    BY <2>1, <2>2
<1>11. G[1] = x[1]
  BY <1>4, <1>8
<1>12. ASSUME NEW p \in 1 .. Len(G)
       PROVE  (G[p] = Amount!Comma) = (p > 1 /\ (t + 1 - p) % 4 = 0)
  <2>1. CASE p <= Len(g)
    <3>1. p \in 1 .. Len(g)
      BY <1>4, <1>8, <2>1
    <3> QED
      BY <1>4, <1>8, <3>1
  <2>2. CASE ~(p <= Len(g)) /\ j % 3 = 0
    <3>1. p = Len(g) + 1 \/ p = Len(g) + 2
      BY <1>4, <1>7, <1>8, <2>2
    <3>2. CASE p = Len(g) + 1
      <4>1. p > 1 /\ t + 1 - p = Spread(j)
        BY <1>7a, <3>2
      <4>2. 1 \in 1 .. Len(new)
        BY <1>7, <2>2
      <4>3. G[p] = Amount!Comma
        BY <1>7, <1>8, <2>2, <3>2, <4>2
      <4> QED
        BY <1>2, <2>2, <4>1, <4>3
    <3>3. CASE p = Len(g) + 2
      <4>1. p > 1 /\ t + 1 - p = Spread(j) - 1
        BY <1>7a, <3>3
      <4>2. 2 \in 1 .. Len(new)
        BY <1>7, <2>2
      <4>3. G[p] = e
        BY <1>7, <1>8, <2>2, <3>3, <4>2
      <4> QED
        BY <1>1, <1>2, <2>2, <4>1, <4>3
    <3> QED
      BY <3>1, <3>2, <3>3
  <2>3. CASE ~(p <= Len(g)) /\ j % 3 # 0
    <3>1. p = Len(g) + 1
      BY <1>4, <1>7, <1>8, <2>3
    <3>2. p > 1 /\ t + 1 - p = Spread(j)
      BY <1>7a, <3>1
    <3>3. 1 \in 1 .. Len(new)
      BY <1>7, <2>3
    <3>4. G[p] = e
      BY <1>7, <1>8, <2>3, <3>1, <3>3
    <3> QED
      BY <1>1, <1>2, <2>3, <3>2, <3>4
  <2> QED
    BY <2>1, <2>2, <2>3
<1>13. GroupedUpto(x, G, i + 1)
  <2>1. Len(G) + Spread(m - (i + 1)) = 1 + Spread(m - 1)
    BY <1>1, <1>10 DEF t
  <2>2. \A p \in 1 .. Len(G) : (G[p] = Amount!Comma)
          = (p > 1 /\ (1 + Spread(m - 1) + 1 - p) % 4 = 0)
    BY <1>12 DEF t
  <2> QED
    BY <1>8, <1>9, <1>10, <1>11, <2>1, <2>2 DEF GroupedUpto, C, m
<1> QED
  BY <1>13 DEF G

LEMMA GroupedIs ==
  ASSUME NEW x \in Seq(Amount!Digits), Len(x) >= 1
  PROVE  GroupedUpto(x, Amount!Grouped(x), Len(x))
<1> DEFINE C == Amount!Digits \cup {Amount!Comma}
           m == Len(x)
           q == [i \in DOMAIN x |->
                   IF i > 1 /\ (Len(x) - i + 1) % 3 = 0
                   THEN <<Amount!Comma, x[i]>> ELSE <<x[i]>>]
<1>1. m \in Nat /\ m >= 1 /\ DOMAIN x = 1 .. m
      /\ \A i \in 1 .. m : x[i] \in Amount!Digits
  BY LenProperties
<1>2. Amount!Grouped(x) = Amount!FlattenSeq(q)
  BY DEF Amount!Grouped
<1>3. /\ DOMAIN q = 1 .. m
      /\ \A i \in 1 .. m :
           q[i] = IF i > 1 /\ (m - i + 1) % 3 = 0
                  THEN <<Amount!Comma, x[i]>> ELSE <<x[i]>>
      /\ q = [i \in 1 .. m |-> q[i]]
  BY <1>1
<1> HIDE DEF q
<1>4. ASSUME NEW i \in 1 .. m PROVE q[i] \in Seq(C)
  <2>1. x[i] \in C /\ Amount!Comma \in C
    BY <1>1
  <2> HIDE DEF C
  <2>2. <<x[i]>> \in Seq(C) /\ <<Amount!Comma, x[i]>> \in Seq(C)
    BY <2>1
  <2> QED
    BY <1>3, <2>2
<1>5. q \in Seq(Seq(C)) /\ Len(q) = m
  <2> HIDE DEF C
  <2>1. q \in [1 .. m -> Seq(C)]
    BY <1>3, <1>4
  <2> QED
    BY <1>1, <2>1, IsASeq, LenProperties
<1>6. PICK f \in [0 .. m -> Seq(C)] :
        /\ f[0] = <<>> /\ f[m] = Amount!FlattenSeq(q)
        /\ \A i \in 1 .. m : f[i] = f[i - 1] \o q[i]
  <2> HIDE DEF C, m
  <2> QED
    BY <1>1, <1>5, FlattenRuns
<1> DEFINE S == {d \in Nat : d + 1 <= m => GroupedUpto(x, f[d + 1], d + 1)}
<1>7. 0 \in S
  <2> DEFINE e == x[1]
  <2>1. e \in Amount!Digits /\ e \in C /\ e # Amount!Comma
    BY <1>1, CharactersTyped
  <2>2. f[1] = <<e>>
    <3>1. 1 \in 1 .. m /\ 1 - 1 = 0
      BY <1>1
    <3>2. q[1] = <<e>>
      BY <1>3, <3>1
    <3>3. f[1] = <<>> \o <<e>>
      BY <1>6, <3>1, <3>2
    <3>4. <<e>> \in Seq(C)
      BY <2>1
    <3> QED
      BY <3>3, <3>4, JoinedNone
  <2>3. SubSeq(x, 1, 1) = <<e>>
    <3>1. /\ SubSeq(x, 1, 1) \in Seq(Amount!Digits)
          /\ Len(SubSeq(x, 1, 1)) = 1
          /\ \A k \in 1 .. 1 : SubSeq(x, 1, 1)[k] = x[k]
      <4>1. 1 \in 0 .. m /\ 0 \in 0 .. 1
        BY <1>1
      <4> QED
        BY <4>1, StartOfStart
    <3>2. <<e>> \in Seq(C) /\ Len(<<e>>) = 1 /\ <<e>>[1] = e
      BY <2>1
    <3>3. \A k \in 1 .. 1 : k = 1
      OBVIOUS
    <3> HIDE DEF e
    <3>4. \A k \in 1 .. 1 : SubSeq(x, 1, 1)[k] = <<e>>[k]
      BY <3>1, <3>2, <3>3 DEF e
    <3> QED
      BY <3>1, <3>2, <3>4, SameSeq
  <2> HIDE DEF e, C
  <2>4. Amount!WithoutCommas(<<e>>) = <<e>>
    <3>1. <<>> \in Seq(C) /\ Append(<<>>, e) = <<e>>
      OBVIOUS
    <3>2. Amount!WithoutCommas(Append(<<>>, e))
            = Keep(Amount!WithoutCommas(<<>>), e)
      BY <2>1, <3>1, WithoutLonger
    <3> QED
      BY <2>1, <3>1, <3>2, WithoutNone DEF Keep
  <2>5. <<e>> \in Seq(C) /\ Len(<<e>>) = 1 /\ <<e>>[1] = e
    BY <2>1
  <2>6. \A p \in 1 .. Len(<<e>>) :
          (<<e>>[p] = Amount!Comma)
            = (p > 1 /\ (1 + Spread(m - 1) + 1 - p) % 4 = 0)
    <3>1. \A p \in 1 .. 1 : p = 1 /\ ~(p > 1)
      OBVIOUS
    <3> QED
      BY <2>1, <2>5, <3>1
  <2>7. GroupedUpto(x, <<e>>, 1)
    <3>1. Len(<<e>>) + Spread(Len(x) - 1) = 1 + Spread(Len(x) - 1)
      BY <2>5
    <3> QED
      BY <2>3, <2>4, <2>5, <2>6, <3>1 DEF GroupedUpto, C, e
  <2> QED
    BY <2>2, <2>7
<1>8. ASSUME NEW d \in Nat, d \in S PROVE d + 1 \in S
  <2>1. SUFFICES ASSUME (d + 1) + 1 <= m
                 PROVE  GroupedUpto(x, f[(d + 1) + 1], (d + 1) + 1)
    OBVIOUS
  <2> DEFINE i == d + 1
  <2>2. /\ i \in 1 .. m /\ i + 1 \in 1 .. m /\ (i + 1) - 1 = i /\ i + 1 > 1
        /\ i + 1 <= m /\ d + 1 <= m
    BY <1>1, <2>1
  <2>3. GroupedUpto(x, f[i], i)
    BY <1>8, <2>2
  <2> HIDE DEF i
  <2>4. q[i + 1] = IF (m - (i + 1) + 1) % 3 = 0
                   THEN <<Amount!Comma, x[i + 1]>> ELSE <<x[i + 1]>>
    BY <1>3, <2>2
  <2>5. f[i + 1] = f[i] \o q[i + 1]
    BY <1>6, <2>2
  <2>6. GroupedUpto(x, f[i] \o q[i + 1], i + 1)
    BY <2>2, <2>3, <2>4, GroupsUpto
  <2>7. GroupedUpto(x, f[i + 1], i + 1)
    BY <2>5, <2>6
  <2> QED
    BY <2>7 DEF i
<1>9. m - 1 \in S
  <2> HIDE DEF S
  <2>1. m - 1 \in Nat
    BY <1>1
  <2> QED
    BY <1>7, <1>8, <2>1, Induction
<1>10. GroupedUpto(x, f[m], m)
  <2>1. (m - 1) + 1 = m /\ m <= m
    BY <1>1
  <2> HIDE DEF m
  <2> QED
    BY <1>9, <2>1
<1> QED
  BY <1>2, <1>6, <1>10

(* The text of an amount a whose padded digits are P, of which k stay. *)
Form(a, P, k, G) ==
  LET dot == Len(P) - Decimals
  IN /\ P \in Seq(Amount!Digits) /\ Len(P) \in Nat
     /\ Len(P) >= Decimals + 1
     /\ Amount!ValueOf(P) = a
     /\ P[1] = 0 => Len(P) = Decimals + 1
     /\ k \in dot + 2 .. Len(P)
     /\ \A i \in k + 1 .. Len(P) : P[i] = 0
     /\ k > dot + 2 => P[k] # 0
     /\ GroupedUpto(SubSeq(P, 1, dot), G, dot)
     /\ Amount!FormatAmount(a)
          = (G \o <<Amount!Point>>) \o SubSeq(P, dot + 1, k)

LEMMA FormatIs ==
  ASSUME NEW a \in Nat
  PROVE  \E P, k, G : Form(a, P, k, G)
<1> DEFINE P   == Amount!Padded(Amount!Number[a])
           dot == Len(P) - Decimals
           x   == SubSeq(P, 1, dot)
           tr  == Amount!Trimmed(P)
           G   == Amount!Grouped(x)
<1>1. Amount!FormatAmount(a)
        = (G \o <<Amount!Point>>) \o SubSeq(tr, dot + 1, Len(tr))
  BY DEF Amount!FormatAmount
<1>2. /\ P \in Seq(Amount!Digits) /\ Len(P) \in Nat
      /\ Len(P) >= Decimals + 1
      /\ Amount!ValueOf(P) = a
      /\ P[1] = 0 => Len(P) = Decimals + 1
  BY PaddedIs
<1> HIDE DEF P
<1>3. Decimals \in Nat /\ Decimals >= 2
  BY ConstantsOfAmounts
<1>4. PICK k : TrimmedAt(P, k)
  BY <1>2, TrimmedIs
<1>5. /\ dot \in Nat /\ dot >= 1 /\ dot <= Len(P)
      /\ dot + 2 = Len(P) - Decimals + 2
      /\ k \in dot + 2 .. Len(P) /\ k \in Nat /\ dot + 1 <= k /\ k <= Len(P)
      /\ k \in 1 .. Len(P)
  BY <1>2, <1>3, <1>4 DEF TrimmedAt
<1>6. /\ tr = SubSeq(P, 1, k)
      /\ \A i \in k + 1 .. Len(P) : P[i] = 0
      /\ k > dot + 2 => P[k] # 0
  BY <1>4, <1>5 DEF TrimmedAt
<1>7. x \in Seq(Amount!Digits) /\ Len(x) = dot
  <2>1. dot \in 0 .. Len(P) /\ 0 \in 0 .. dot
    BY <1>2, <1>5
  <2> HIDE DEF dot
  <2> QED
    BY <1>2, <2>1, StartOfStart
<1>8. GroupedUpto(x, G, dot)
  <2> HIDE DEF x, dot
  <2> QED
    BY <1>5, <1>7, GroupedIs
<1>9. Len(tr) = k /\ SubSeq(tr, dot + 1, Len(tr)) = SubSeq(P, dot + 1, k)
  <2> HIDE DEF tr, dot
  <2>1. Len(tr) = k
    <3>1. k \in 0 .. Len(P) /\ 0 \in 0 .. k
      BY <1>2, <1>5
    <3> QED
      BY <1>2, <1>6, <3>1, StartOfStart
  <2>2. SubSeq(SubSeq(P, 1, k), dot + 1, k) = SubSeq(P, dot + 1, k)
    BY <1>2, <1>5, EndOfStart
  <2> QED
    BY <1>6, <2>1, <2>2
<1> HIDE DEF G, tr
<1>10. Form(a, P, k, G)
  BY <1>1, <1>2, <1>5, <1>6, <1>8, <1>9 DEF Form
<1> QED
  BY <1>10

(* A text with a point in it: what is before it, the point, what is after. *)
LEMMA Pointed ==
  ASSUME NEW C, Amount!Point \in C, NEW g \in Seq(C), NEW r \in Seq(C),
         NEW t, t = (g \o <<Amount!Point>>) \o r
  PROVE  /\ t \in Seq(C) /\ Len(g) \in Nat /\ Len(r) \in Nat
         /\ Len(t) = Len(g) + 1 + Len(r)
         /\ \A i \in 1 .. Len(g) : t[i] = g[i]
         /\ t[Len(g) + 1] = Amount!Point
         /\ \A i \in 1 .. Len(r) : t[Len(g) + 1 + i] = r[i]
<1> DEFINE p == <<Amount!Point>>
           h == g \o p
<1>1. p \in Seq(C) /\ Len(p) = 1 /\ p[1] = Amount!Point
  OBVIOUS
<1> HIDE DEF p
<1>2. /\ h \in Seq(C) /\ Len(g) \in Nat /\ Len(h) = Len(g) + 1
      /\ \A i \in 1 .. Len(g) : h[i] = g[i]
      /\ h[Len(g) + 1] = Amount!Point
  <2>1. /\ h \in Seq(C) /\ Len(g) \in Nat /\ Len(h) = Len(g) + Len(p)
        /\ \A i \in 1 .. Len(g) : h[i] = g[i]
        /\ \A i \in 1 .. Len(p) : h[Len(g) + i] = p[i]
    <3>1. g \in Seq(C) /\ p \in Seq(C)
      BY <1>1
    <3> QED
      BY ONLY <3>1, Joined
  <2> HIDE DEF h
  <2>2. 1 \in 1 .. Len(p)
    BY <1>1
  <2> QED
    BY <1>1, <2>1, <2>2
<1>3. t = h \o r
  BY DEF p
<1> HIDE DEF h
<1>4. /\ t \in Seq(C) /\ Len(r) \in Nat /\ Len(t) = Len(h) + Len(r)
      /\ \A i \in 1 .. Len(h) : t[i] = h[i]
      /\ \A i \in 1 .. Len(r) : t[Len(h) + i] = r[i]
  BY <1>2, <1>3, Joined
<1>5. \A i \in 1 .. Len(g) : i \in 1 .. Len(h)
  BY <1>2
<1>6. Len(g) + 1 \in 1 .. Len(h)
  BY <1>2
<1>7. t[Len(g) + 1] = Amount!Point
  BY <1>2, <1>4, <1>6
<1>8. \A i \in 1 .. Len(g) : t[i] = g[i]
  BY <1>2, <1>4, <1>5
<1>9. \A i \in 1 .. Len(r) : t[Len(g) + 1 + i] = r[i]
  BY <1>2, <1>4
<1> QED
  BY <1>2, <1>4, <1>7, <1>8, <1>9

FormHas(P, k, G, t, dot, x, r) ==
  /\ dot \in Nat /\ dot >= 1 /\ dot <= Len(P) /\ k \in Nat
  /\ k - dot \in 2 .. Decimals /\ k <= Len(P)
  /\ P[1] = 0 => dot = 1
  /\ G \in Seq(Amount!Digits \cup {Amount!Comma})
  /\ G \in Seq(Amount!Characters) /\ Len(G) >= 1
  /\ Amount!WithoutCommas(G) = x
  /\ x \in Seq(Amount!Digits) /\ Len(x) = dot
  /\ \A i \in 1 .. dot : x[i] = P[i]
  /\ Len(G) = 1 + Spread(dot - 1) /\ G[1] = P[1]
  /\ \A p \in 1 .. Len(G) :
       (G[p] = Amount!Comma) = (p > 1 /\ (Len(G) + 1 - p) % 4 = 0)
  /\ r \in Seq(Amount!Digits) /\ r \in Seq(Amount!Characters)
  /\ Len(r) = k - dot
  /\ \A i \in 1 .. k - dot : r[i] = P[dot + i]
  /\ t = (G \o <<Amount!Point>>) \o r

LEMMA FormParts ==
  ASSUME NEW a, NEW P, NEW k, NEW G, Form(a, P, k, G)
  PROVE  LET dot == Len(P) - Decimals
         IN FormHas(P, k, G, Amount!FormatAmount(a), dot,
                    SubSeq(P, 1, dot), SubSeq(P, dot + 1, k))
<1> DEFINE dot == Len(P) - Decimals
           t   == Amount!FormatAmount(a)
           r   == SubSeq(P, dot + 1, k)
           x   == SubSeq(P, 1, dot)
           D   == Amount!Digits
<1>1. /\ P \in Seq(D) /\ Len(P) \in Nat
      /\ Len(P) >= Decimals + 1
      /\ P[1] = 0 => Len(P) = Decimals + 1
      /\ k \in dot + 2 .. Len(P)
      /\ GroupedUpto(x, G, dot)
      /\ t = (G \o <<Amount!Point>>) \o r
  BY DEF Form
<1>2. Decimals \in Nat /\ Decimals >= 2
  BY ConstantsOfAmounts
<1>3. /\ dot \in Nat /\ dot >= 1 /\ dot <= Len(P) /\ k \in Nat
      /\ k - dot \in 2 .. Decimals /\ k <= Len(P)
      /\ P[1] = 0 => dot = 1
  BY <1>1, <1>2
<1>4. /\ x \in Seq(D) /\ Len(x) = dot
      /\ \A i \in 1 .. dot : x[i] = P[i]
  <2>1. dot \in 0 .. Len(P) /\ 0 \in 0 .. dot
    BY <1>1, <1>3
  <2> QED
    BY <1>1, <2>1, StartOfStart
<1>5. /\ r \in Seq(D) /\ Len(r) = k - dot
      /\ \A i \in 1 .. k - dot : r[i] = P[dot + i]
  <2>1. dot + 1 \in 1 .. Len(P) + 1 /\ (dot + 1) - 1 <= k
    <3>1. /\ dot \in Nat /\ dot <= Len(P) /\ Len(P) \in Nat /\ k \in Nat
          /\ k - dot \in 2 .. Decimals
      BY <1>1, <1>3
    <3> HIDE DEF dot
    <3> QED
      BY ONLY <3>1, <1>2
  <2>2. /\ r \in Seq(D) /\ Len(r) = k - (dot + 1) + 1
        /\ \A i \in 1 .. k - (dot + 1) + 1 : r[i] = P[(dot + 1) - 1 + i]
    <3>1. /\ P \in Seq(D) /\ dot + 1 \in 1 .. Len(P) + 1 /\ k \in Nat
          /\ (dot + 1) - 1 <= k /\ k <= Len(P)
      BY <1>1, <1>3, <2>1
    <3> HIDE DEF dot
    <3> QED
      BY ONLY <3>1, Part
  <2> HIDE DEF r, dot
  <2>3. k - (dot + 1) + 1 = k - dot /\ (dot + 1) - 1 = dot
    BY <1>3
  <2> QED
    BY <2>2, <2>3
<1>6. SubSeq(x, 1, dot) = x
  <2> HIDE DEF x
  <2> QED
    BY <1>4, WholeSeq
<1> HIDE DEF x, r
<1>7. /\ G \in Seq(Amount!Digits \cup {Amount!Comma}) /\ Len(G) >= 1
      /\ Amount!WithoutCommas(G) = x
      /\ Len(G) + Spread(dot - dot) = 1 + Spread(dot - 1)
      /\ G[1] = x[1]
      /\ \A p \in 1 .. Len(G) : (G[p] = Amount!Comma)
           = (p > 1 /\ (1 + Spread(dot - 1) + 1 - p) % 4 = 0)
  BY <1>1, <1>4, <1>6 DEF GroupedUpto
<1>8. Len(G) = 1 + Spread(dot - 1)
  <2>1. dot - dot = 0
    BY <1>3
  <2>2. Spread(0) = 0
    BY DEF Spread
  <2>3. Len(G) \in Nat
    BY <1>7, LenProperties
  <2> QED
    BY <1>7, <2>1, <2>2, <2>3
<1>9. \A p \in 1 .. Len(G) :
        (G[p] = Amount!Comma) = (p > 1 /\ (Len(G) + 1 - p) % 4 = 0)
  BY <1>7, <1>8
<1>10. G[1] = P[1]
  BY <1>3, <1>4, <1>7
<1>11. G \in Seq(Amount!Characters) /\ r \in Seq(Amount!Characters)
  <2>1. /\ Amount!Digits \cup {Amount!Comma} \subseteq Amount!Characters
        /\ D \subseteq Amount!Characters
    BY CharactersTyped
  <2> QED
    BY <1>5, <1>7, <2>1, Wider
<1> HIDE DEF dot, t
<1>12. FormHas(P, k, G, t, dot, x, r)
  BY <1>1, <1>3, <1>4, <1>5, <1>7, <1>8, <1>9, <1>10, <1>11 DEF FormHas
<1> QED
  BY <1>12, Zenon DEF x, r, dot, t

Written(t) ==
  LET point == Amount!FirstPoint(t)
      after == Len(t) - point
  IN /\ \A i \in 1 .. point - 1 :
          (t[i] = Amount!Comma) = (i > 1 /\ (point - i) % 4 = 0)
     /\ t[1] # 0 \/ point = 2
     /\ after \in 2 .. Decimals
     /\ after > 2 => Amount!Last(t) # 0

LEMMA FormattedIsWell ==
  ASSUME NEW a, NEW P, NEW k, NEW G, Form(a, P, k, G), NEW t,
         t = Amount!FormatAmount(a)
  PROVE  t \in Seq(Amount!Characters) /\ Written(t)
<1> DEFINE dot   == Len(P) - Decimals
           x     == SubSeq(P, 1, dot)
           r     == SubSeq(P, dot + 1, k)
           point == Len(G) + 1
<1>0. FormHas(P, k, G, t, dot, x, r)
  BY FormParts, Zenon
<1>2. k > dot + 2 => P[k] # 0
  BY DEF Form
<1> HIDE DEF dot, x, r
<1>1. /\ dot \in Nat /\ dot >= 1 /\ k \in Nat
      /\ k - dot \in 2 .. Decimals
      /\ P[1] = 0 => dot = 1
      /\ G \in Seq(Amount!Digits \cup {Amount!Comma})
      /\ G \in Seq(Amount!Characters) /\ Len(G) >= 1
      /\ Len(G) = 1 + Spread(dot - 1) /\ G[1] = P[1]
      /\ \A p \in 1 .. Len(G) :
           (G[p] = Amount!Comma) = (p > 1 /\ (Len(G) + 1 - p) % 4 = 0)
      /\ r \in Seq(Amount!Characters)
      /\ Len(r) = k - dot
      /\ \A i \in 1 .. k - dot : r[i] = P[dot + i]
      /\ t = (G \o <<Amount!Point>>) \o r
  BY <1>0 DEF FormHas
<1>3. /\ t \in Seq(Amount!Characters) /\ Len(G) \in Nat
      /\ Len(t) = Len(G) + 1 + (k - dot)
      /\ \A i \in 1 .. Len(G) : t[i] = G[i]
      /\ t[Len(G) + 1] = Amount!Point
      /\ \A i \in 1 .. k - dot : t[Len(G) + 1 + i] = r[i]
  <2>1. Amount!Point \in Amount!Characters
    BY CharactersTyped
  <2>2. /\ t \in Seq(Amount!Characters) /\ Len(G) \in Nat
        /\ Len(t) = Len(G) + 1 + Len(r)
        /\ \A i \in 1 .. Len(G) : t[i] = G[i]
        /\ t[Len(G) + 1] = Amount!Point
        /\ \A i \in 1 .. Len(r) : t[Len(G) + 1 + i] = r[i]
    <3>1. /\ Amount!Point \in Amount!Characters
          /\ G \in Seq(Amount!Characters) /\ r \in Seq(Amount!Characters)
          /\ t = (G \o <<Amount!Point>>) \o r
      BY <1>1, <2>1
    <3> QED
      BY ONLY <3>1, Pointed
  <2> QED
    BY <1>1, <2>2
<1>4. Amount!FirstPoint(t) = point
  <2>1. \A j \in 1 .. Len(G) : G[j] # Amount!Point
    <3>1. \A j \in 1 .. Len(G) : G[j] \in Amount!Digits \cup {Amount!Comma}
      BY <1>1, LenProperties
    <3> QED
      BY <3>1, CharactersTyped
  <2>2. PointAt(t, point)
    <3>1. point \in 1 .. Len(t) /\ point - 1 = Len(G)
      BY <1>1, <1>3
    <3> QED
      BY <1>3, <2>1, <3>1 DEF PointAt
  <2> QED
    BY <1>3, <2>2, FirstPointAt
<1>5. \A i \in 1 .. point - 1 :
        (t[i] = Amount!Comma) = (i > 1 /\ (point - i) % 4 = 0)
  <2> SUFFICES ASSUME NEW i \in 1 .. point - 1
               PROVE  (t[i] = Amount!Comma)
                        = (i > 1 /\ (point - i) % 4 = 0)
    OBVIOUS
  <2>1. i \in 1 .. Len(G)
    BY <1>3
  <2>2. t[i] = G[i]
    BY <1>3, <2>1
  <2>3. (G[i] = Amount!Comma) = (i > 1 /\ (Len(G) + 1 - i) % 4 = 0)
    BY <1>1, <2>1, Zenon
  <2> QED
    BY ONLY <2>2, <2>3
<1>6. t[1] # 0 \/ point = 2
  <2>1. t[1] = P[1]
    BY <1>1, <1>3
  <2>2. dot = 1 => Len(G) = 1
    <3>1. 1 - 1 = 0 /\ Spread(0) = 0
      BY DEF Spread
    <3> QED
      BY <1>1, <3>1
  <2> QED
    BY <1>1, <2>1, <2>2
<1>7. Len(t) - point = k - dot
  BY <1>1, <1>3
<1>8. k - dot > 2 => Amount!Last(t) # 0
  <2>1. SUFFICES ASSUME k - dot > 2 PROVE t[Len(t)] # 0
    BY DEF Amount!Last
  <2>2. k - dot \in 1 .. k - dot /\ dot + (k - dot) = k /\ k > dot + 2
    BY <1>1, <2>1
  <2>3. t[Len(t)] = r[k - dot]
    BY <1>3, <2>2
  <2>4. r[k - dot] = P[k]
    BY <1>1, <2>2
  <2> QED
    BY <1>2, <2>2, <2>3, <2>4
<1> HIDE DEF point
<1>9. /\ t \in Seq(Amount!Characters)
      /\ \A i \in 1 .. point - 1 :
           (t[i] = Amount!Comma) = (i > 1 /\ (point - i) % 4 = 0)
      /\ t[1] # 0 \/ point = 2
      /\ Len(t) - point \in 2 .. Decimals
      /\ Len(t) - point > 2 => Amount!Last(t) # 0
  BY <1>1, <1>3, <1>5, <1>6, <1>7, <1>8
<1> QED
  BY <1>4, <1>9 DEF Written

(* A number with a point: its digits, and the decimals it lacks. *)
LEMMA ParsesPointed ==
  ASSUME NEW x \in Seq(Amount!Digits), NEW r \in Seq(Amount!Digits),
         Len(x) >= 1, Len(r) <= Decimals,
         NEW t, t = (x \o <<Amount!Point>>) \o r
  PROVE  /\ Amount!Contains(t, Amount!Point)
         /\ Amount!ParseFraction(t) =
              Amount!ToNumber((x \o r) \o Amount!Zeros(Decimals - Len(r)))
<1> DEFINE C == Amount!Characters
           p == Len(x) + 1
           n == Len(t)
<1>1. /\ Amount!Digits \subseteq C /\ Amount!Point \in C
      /\ Amount!Point \notin Amount!Digits
      /\ Decimals \in Nat
  BY CharactersTyped, ConstantsOfAmounts
<1>2. /\ x \in Seq(C) /\ r \in Seq(C)
      /\ \A i \in 1 .. Len(x) : x[i] \in Amount!Digits
  BY <1>1, Wider, LenProperties
<1>3. /\ t \in Seq(C) /\ Len(x) \in Nat /\ Len(r) \in Nat
      /\ Len(t) = Len(x) + 1 + Len(r)
      /\ \A i \in 1 .. Len(x) : t[i] = x[i]
      /\ t[Len(x) + 1] = Amount!Point
      /\ \A i \in 1 .. Len(r) : t[Len(x) + 1 + i] = r[i]
  <2>1. /\ Amount!Point \in C /\ x \in Seq(C) /\ r \in Seq(C)
        /\ t = (x \o <<Amount!Point>>) \o r
    BY <1>1, <1>2
  <2> QED
    BY ONLY <2>1, Pointed
<1>4. p \in 1 .. n /\ n \in Nat /\ n >= 1 /\ p - 1 = Len(x) /\ p \in Nat
  BY <1>3
<1>5. PointAt(t, p)
  BY <1>1, <1>2, <1>3, <1>4 DEF PointAt
<1>6. Amount!FirstPoint(t) = p
  BY <1>3, <1>5, FirstPointAt
<1>7. Amount!Shortened[t] = t
  <2>1. ~(Len(t) > p + Decimals)
    BY <1>1, <1>3
  <2> QED
    BY <1>3, <1>6, <2>1, Shortening
<1>8. SubSeq(t, 1, p - 1) = x
  <2>1. /\ t \in Seq(C) /\ 1 \in 1 .. Len(t) + 1 /\ Len(x) \in Nat
        /\ 1 - 1 <= Len(x) /\ Len(x) <= Len(t)
    BY <1>3
  <2>2. /\ SubSeq(t, 1, Len(x)) \in Seq(C)
        /\ Len(SubSeq(t, 1, Len(x))) = Len(x) - 1 + 1
        /\ \A i \in 1 .. Len(x) - 1 + 1 :
             SubSeq(t, 1, Len(x))[i] = t[1 - 1 + i]
    BY ONLY <2>1, Part
  <2>3. SubSeq(t, 1, p - 1) = SubSeq(t, 1, Len(x))
    BY <1>4
  <2> DEFINE s == SubSeq(t, 1, Len(x))
  <2> HIDE DEF s
  <2>4. Len(s) = Len(x) /\ s \in Seq(C)
    BY <1>3, <2>2 DEF s
  <2>5. \A i \in 1 .. Len(s) : s[i] = x[i]
    <3> SUFFICES ASSUME NEW i \in 1 .. Len(x) PROVE s[i] = x[i]
      BY <2>4
    <3>1. i \in 1 .. Len(x) - 1 + 1 /\ 1 - 1 + i = i
      BY <1>3
    <3>2. s[i] = t[i]
      BY <2>2, <3>1 DEF s
    <3> QED
      BY <1>3, <3>2
  <2>6. s = x
    BY ONLY <1>2, <2>4, <2>5, SameSeq
  <2> QED
    BY <2>3, <2>6 DEF s
<1>9. SubSeq(t, p + 1, n) = r
  <2>1. /\ t \in Seq(C) /\ p + 1 \in 1 .. Len(t) + 1 /\ n \in Nat
        /\ (p + 1) - 1 <= n /\ n <= Len(t)
    BY <1>3, <1>4
  <2> HIDE DEF p, n
  <2>2. /\ SubSeq(t, p + 1, n) \in Seq(C)
        /\ Len(SubSeq(t, p + 1, n)) = n - (p + 1) + 1
        /\ \A i \in 1 .. n - (p + 1) + 1 :
             SubSeq(t, p + 1, n)[i] = t[(p + 1) - 1 + i]
    BY ONLY <2>1, Part
  <2> DEFINE s == SubSeq(t, p + 1, n)
  <2> HIDE DEF s
  <2>3. n - (p + 1) + 1 = Len(r) /\ (p + 1) - 1 = Len(x) + 1
    BY <1>3 DEF p, n
  <2>4. Len(s) = Len(r) /\ s \in Seq(C)
    BY <2>2, <2>3 DEF s
  <2>5. \A i \in 1 .. Len(s) : s[i] = r[i]
    <3>1. \A i \in 1 .. Len(r) : s[i] = t[Len(x) + 1 + i]
      BY <2>2, <2>3 DEF s
    <3> QED
      BY <1>3, <2>4, <3>1
  <2>6. s = r
    BY ONLY <1>2, <2>4, <2>5, SameSeq
  <2> QED
    BY <2>6 DEF s
<1>10. Amount!RemoveAt(t, p) = x \o r
  <2>1. SubSeq(t, 1, n) = t
    BY <1>3, WholeSeq
  <2>2. n \in 1 .. Len(t) /\ p \in 1 .. n
    BY <1>4
  <2> HIDE DEF p, n
  <2>3. Amount!RemoveAt(SubSeq(t, 1, n), p) = WithoutPoint(t, p, n)
    BY <1>3, <2>2, PartOfStart
  <2> QED
    BY <1>8, <1>9, <2>1, <2>3 DEF WithoutPoint
<1>11. Amount!Contains(t, Amount!Point)
  <2>1. DOMAIN t = 1 .. Len(t)
    BY <1>3, LenProperties
  <2> QED
    BY <1>3, <1>4, <2>1 DEF Amount!Contains
<1>12. x \o r # <<>>
  <2>1. Len(x \o r) = Len(x) + Len(r)
    BY ONLY <1>2, Joined
  <2> QED
    BY <1>3, <2>1
<1>13. n - p = Len(r) /\ ~(Decimals < n - p)
  BY <1>1, <1>3
<1>14. Amount!ParseFraction(t) =
         IF Decimals < n - p \/ x \o r = <<>> THEN 0
         ELSE Amount!ToNumber((x \o r) \o Amount!Zeros(Decimals - (n - p)))
  <2> HIDE DEF p
  <2> QED
    BY <1>6, <1>7, <1>10 DEF Amount!ParseFraction
<1> HIDE DEF p, n
<1> QED
  BY <1>11, <1>12, <1>13, <1>14

(* What the two parts of a number make up with the zeros that were cut. *)
LEMMA ZerosComeBack ==
  ASSUME NEW a, NEW P, NEW k, NEW G, Form(a, P, k, G),
         NEW dot, dot = Len(P) - Decimals
  PROVE  (SubSeq(P, 1, dot) \o SubSeq(P, dot + 1, k))
           \o Amount!Zeros(Decimals - (k - dot)) = P
<1> DEFINE x == SubSeq(P, 1, dot)
           r == SubSeq(P, dot + 1, k)
           m == Decimals - (k - dot)
           z == Amount!Zeros(m)
           h == x \o r
<1>1. FormHas(P, k, G, Amount!FormatAmount(a), dot, x, r)
  BY FormParts, Zenon
<1>2. /\ P \in Seq(Amount!Digits) /\ Len(P) \in Nat
      /\ \A i \in k + 1 .. Len(P) : P[i] = 0
  BY DEF Form
<1> HIDE DEF x, r
<1>3. /\ dot \in Nat /\ k \in Nat /\ k - dot \in 2 .. Decimals
      /\ x \in Seq(Amount!Digits) /\ Len(x) = dot
      /\ \A i \in 1 .. dot : x[i] = P[i]
      /\ r \in Seq(Amount!Digits) /\ Len(r) = k - dot
      /\ \A i \in 1 .. k - dot : r[i] = P[dot + i]
  BY <1>1 DEF FormHas
<1>4. /\ m \in Nat /\ Decimals \in Nat /\ k + m = Len(P)
      /\ dot + (k - dot) = k
  BY <1>2, <1>3, ConstantsOfAmounts
<1>5. z \in Seq(Nat) /\ Len(z) = m /\ \A i \in 1 .. m : z[i] = 0
  BY <1>4, ZerosTyped
<1>6. x \in Seq(Nat) /\ r \in Seq(Nat)
  <2>1. Amount!Digits \subseteq Nat
    BY CharactersTyped
  <2> QED
    BY <1>3, <2>1, Wider
<1> HIDE DEF m, z
<1>7. /\ h \in Seq(Nat) /\ Len(h) = Len(x) + Len(r)
      /\ \A i \in 1 .. Len(x) : h[i] = x[i]
      /\ \A i \in 1 .. Len(r) : h[Len(x) + i] = r[i]
  BY ONLY <1>6, Joined
<1>8. Len(h) = k
  BY <1>3, <1>4, <1>7
<1> HIDE DEF h
<1>9. /\ h \o z \in Seq(Nat) /\ Len(h \o z) = Len(h) + Len(z)
      /\ \A i \in 1 .. Len(h) : (h \o z)[i] = h[i]
      /\ \A i \in 1 .. Len(z) : (h \o z)[Len(h) + i] = z[i]
  BY ONLY <1>5, <1>7, Joined
<1> DEFINE w == h \o z
<1> HIDE DEF w
<1>10. w \in Seq(Nat) /\ Len(w) = Len(P)
  BY <1>4, <1>5, <1>8, <1>9 DEF w
<1>11. \A i \in 1 .. Len(w) : w[i] = P[i]
  <2> SUFFICES ASSUME NEW i \in 1 .. Len(P) PROVE w[i] = P[i]
    BY <1>10
  <2>1. CASE i <= dot
    <3>1. i \in 1 .. dot /\ i \in 1 .. k
      BY <1>2, <1>3, <2>1
    <3> QED
      BY <1>3, <1>7, <1>8, <1>9, <3>1 DEF w
  <2>2. CASE dot < i /\ i <= k
    <3>1. i - dot \in 1 .. k - dot /\ dot + (i - dot) = i /\ i \in 1 .. k
      BY <1>2, <1>3, <2>2
    <3>2. w[i] = h[i]
      BY <1>8, <1>9, <3>1 DEF w
    <3>3. h[dot + (i - dot)] = r[i - dot]
      BY <1>3, <1>7, <3>1
    <3>4. r[i - dot] = P[dot + (i - dot)]
      BY <1>3, <3>1
    <3> QED
      BY <3>1, <3>2, <3>3, <3>4
  <2>3. CASE k < i
    <3>1. /\ i - k \in 1 .. m /\ k + (i - k) = i /\ i \in k + 1 .. Len(P)
      BY <1>2, <1>3, <1>4, <2>3
    <3>2. w[k + (i - k)] = z[i - k]
      BY <1>5, <1>8, <1>9, <3>1 DEF w
    <3>3. z[i - k] = 0 /\ P[i] = 0
      BY <1>2, <1>5, <3>1
    <3> QED
      BY <3>1, <3>2, <3>3
  <2> QED
    BY <1>2, <1>3, <2>1, <2>2, <2>3
<1>12. w = P
  BY ONLY <1>2, <1>10, <1>11, SameSeq
<1> QED
  BY <1>12 DEF w, h, z, m, x, r

LEMMA FormattedParses ==
  ASSUME NEW a \in Amount!Amounts, NEW P, NEW k, NEW G, Form(a, P, k, G)
  PROVE  Amount!ParseAmount(Amount!FormatAmount(a)) = a
<1> DEFINE t   == Amount!FormatAmount(a)
           dot == Len(P) - Decimals
           x   == SubSeq(P, 1, dot)
           r   == SubSeq(P, dot + 1, k)
           point == <<Amount!Point>>
<1>1. FormHas(P, k, G, t, dot, x, r)
  BY FormParts, Zenon
<1>2. (x \o r) \o Amount!Zeros(Decimals - (k - dot)) = P
  BY ZerosComeBack
<1>3. /\ P \in Seq(Amount!Digits) /\ Len(P) \in Nat /\ Len(P) >= Decimals + 1
      /\ Amount!ValueOf(P) = a
  BY DEF Form
<1> HIDE DEF t, dot, x, r
<1>4. /\ dot \in Nat /\ dot >= 1 /\ k - dot \in 2 .. Decimals
      /\ G \in Seq(Amount!Characters)
      /\ Amount!WithoutCommas(G) = x
      /\ x \in Seq(Amount!Digits) /\ Len(x) = dot
      /\ r \in Seq(Amount!Digits) /\ r \in Seq(Amount!Characters)
      /\ Len(r) = k - dot
      /\ t = (G \o <<Amount!Point>>) \o r
  BY <1>1 DEF FormHas
<1>5. /\ Amount!Digits \subseteq Amount!Characters
      /\ Amount!Comma \notin Amount!Digits
      /\ Amount!Point # Amount!Comma
      /\ Amount!Point \in Amount!Characters
      /\ Decimals \in Nat /\ MaxAmount \in Nat
  BY CharactersTyped, ConstantsOfAmounts
<1> DEFINE plain == Amount!WithoutCommas(t)
<1>6. plain = (x \o point) \o r
  <2>1. point \in Seq(Amount!Characters) /\ point \in Seq({Amount!Point})
    BY <1>5
  <2>2. t = (G \o point) \o r
    BY <1>4
  <2> HIDE DEF point
  <2>3. G \o point \in Seq(Amount!Characters)
    BY <1>4, <2>1
  <2>4. plain = Amount!WithoutCommas(G \o point) \o Amount!WithoutCommas(r)
    BY <1>4, <2>2, <2>3, WithoutJoined
  <2>5. Amount!WithoutCommas(G \o point)
          = Amount!WithoutCommas(G) \o Amount!WithoutCommas(point)
    BY <1>4, <2>1, WithoutJoined
  <2>6. Amount!WithoutCommas(point) = point
    <3>1. Amount!Comma \notin {Amount!Point}
      BY <1>5
    <3> QED
      BY ONLY <2>1, <3>1, NothingToLose
  <2>7. Amount!WithoutCommas(r) = r
    BY <1>4, <1>5, NothingToLose
  <2> QED
    BY <1>4, <2>4, <2>5, <2>6, <2>7
<1>7. /\ Amount!Contains(plain, Amount!Point)
      /\ Amount!ParseFraction(plain) =
           Amount!ToNumber((x \o r) \o Amount!Zeros(Decimals - Len(r)))
  <2> HIDE DEF plain
  <2>1. /\ x \in Seq(Amount!Digits) /\ r \in Seq(Amount!Digits)
        /\ Len(x) >= 1 /\ Len(r) <= Decimals
        /\ plain = (x \o <<Amount!Point>>) \o r
    <3>1. Len(r) <= Decimals
      BY <1>4, <1>5
    <3>2. plain = (x \o <<Amount!Point>>) \o r
      BY <1>6
    <3> QED
      BY <1>4, <3>1, <3>2
  <2> QED
    BY ONLY <2>1, ParsesPointed
<1>8. Amount!ParseFraction(plain) = Amount!ToNumber(P)
  <2> HIDE DEF plain
  <2> QED
    BY <1>2, <1>4, <1>7
<1>9. Amount!ToNumber(P) = a
  <2>1. P # <<>> /\ \A i \in DOMAIN P : P[i] \in Amount!Digits
    BY <1>3, <1>5, LenProperties
  <2>2. a <= MaxAmount
    BY <1>5 DEF Amount!Amounts
  <2> QED
    BY <1>3, <2>1, <2>2 DEF Amount!ToNumber
<1>10. Amount!ParseAmount(t) = Amount!ParseFraction(plain)
  BY <1>7 DEF Amount!ParseAmount
<1> QED
  BY <1>8, <1>9, <1>10 DEF t

(***************************************************************************)
(* The amount that is filled in: the inductive invariant.  As long as it   *)
(* is known which amount the text was made from, the text is still the one *)
(* that was made.                                                          *)
(***************************************************************************)
AmountInv ==
  /\ Amount!TypeOK
  /\ source # Amount!NoAmount =>
       source \in Amount!Amounts /\ amount = Amount!FormatAmount(source)

LEMMA FormattedTyped ==
  ASSUME NEW a \in Amount!Amounts
  PROVE  Amount!FormatAmount(a) \in Seq(Amount!Characters)
<1>1. a \in Nat
  BY ConstantsOfAmounts DEF Amount!Amounts
<1>2. PICK P, k, G : Form(a, P, k, G)
  BY <1>1, FormatIs
<1> QED
  BY <1>2, FormattedIsWell, Zenon

LEMMA AmountStep ==
  AmountInv /\ [PagesNext]_pages => AmountInv'
<1> SUFFICES ASSUME AmountInv, [PagesNext]_pages PROVE AmountInv'
  OBVIOUS
<1> DEFINE C == Amount!Characters
<1>1. ASSUME NEW a \in Amount!Amounts, Amount!SetAmount(a)
      PROVE  AmountInv'
  <2>1. amount' = Amount!FormatAmount(a) /\ source' = a
    BY <1>1 DEF Amount!SetAmount
  <2>2. amount' \in Seq(C)
    BY <2>1, FormattedTyped
  <2> QED
    BY <2>1, <2>2 DEF AmountInv, Amount!TypeOK
<1>2. ASSUME NEW c \in C, Amount!Type(c) PROVE AmountInv'
  <2>1. amount' = Append(amount, c) /\ source' = Amount!NoAmount
    BY <1>2 DEF Amount!Type
  <2>2. amount' \in Seq(C)
    BY <2>1 DEF AmountInv, Amount!TypeOK
  <2> QED
    BY <2>1, <2>2 DEF AmountInv, Amount!TypeOK
<1>3. ASSUME Amount!Erase PROVE AmountInv'
  <2>1. amount' = Amount!Front(amount) /\ source' = Amount!NoAmount
    BY <1>3 DEF Amount!Erase
  <2>2. amount' \in Seq(C)
    BY <2>1, Fronts DEF AmountInv, Amount!TypeOK
  <2> QED
    BY <2>1, <2>2 DEF AmountInv, Amount!TypeOK
<1>4. CASE UNCHANGED amountText
  BY <1>4 DEF AmountInv, Amount!TypeOK, amountText
<1>5. CASE FillAmount
  BY <1>1, <1>2, <1>3, <1>5 DEF FillAmount, Amount!Next
<1> QED
  BY <1>4, <1>5 DEF PagesNext, FillContacts, FillRecipient, FillMessage, pages

LEMMA AmountHolds == PagesSpec => []AmountInv
<1>1. PagesInit => AmountInv
  BY EmptySeq DEF PagesInit, Amount!Init, AmountInv, Amount!TypeOK
<1> QED
  BY <1>1, AmountStep, PTL DEF PagesSpec

LEMMA TextOfAmount ==
  ASSUME AmountInv
  PROVE  Amount!RoundTrip /\ Amount!WellFormatted
<1> SUFFICES ASSUME source # Amount!NoAmount
             PROVE  Amount!RoundTrip /\ Amount!WellFormatted
  BY DEF Amount!RoundTrip, Amount!WellFormatted
<1>1. source \in Amount!Amounts /\ amount = Amount!FormatAmount(source)
  BY DEF AmountInv
<1>2. source \in Nat
  BY <1>1, ConstantsOfAmounts DEF Amount!Amounts
<1>3. PICK P, k, G : Form(source, P, k, G)
  BY <1>2, FormatIs
<1>4. Amount!ParseAmount(amount) = source
  BY <1>1, <1>3, FormattedParses
<1>5. Written(amount)
  BY <1>1, <1>3, FormattedIsWell, Zenon
<1> QED
  BY <1>4, <1>5, Zenon DEF Amount!RoundTrip, Amount!WellFormatted, Written

(***************************************************************************)
(* An amount that is put into its field as text (formatAmount() of         *)
(* CurrencyAdapter) is the amount that is paid (parseAmount()), the text   *)
(* is the one that people write, and any text is worth what is written in  *)
(* it, or nothing: for any base, number of decimals and largest number.    *)
(***************************************************************************)
THEOREM AmountsSurvive == PagesSpec => []AmountSurvives
<1>1. AmountInv => AmountSurvives
  <2> SUFFICES ASSUME AmountInv PROVE AmountSurvives
    OBVIOUS
  <2>1. Amount!ParsesAsWritten
    BY Parses DEF AmountInv, Amount!TypeOK, Amount!ParsesAsWritten
  <2> QED
    BY <2>1, TextOfAmount DEF AmountSurvives
<1> QED
  BY <1>1, AmountHolds, PTL

(***************************************************************************)
(* The fields of all the pages have their types.                           *)
(***************************************************************************)
THEOREM PagesTypeCorrect == PagesSpec => []PagesTypeOK
<1>1. RecipientInv => Recipient!TypeOK
  BY DEF RecipientInv
<1>2. AmountInv => Amount!TypeOK
  BY DEF AmountInv
<1>3. MessageInv => Message!TypeOK
  BY DEF MessageInv, Message!TypeOK
<1>4. TypeOK /\ RecipientInv /\ AmountInv /\ MessageInv => PagesTypeOK
  BY <1>1, <1>2, <1>3 DEF PagesTypeOK
<1> QED
  BY <1>4, BookTypeCorrect, RecipientHolds, AmountHolds, MessageHolds, PTL
================================================================================
