--------------------------- MODULE SendFlowProofs ---------------------------
(***************************************************************************)
(* Proofs about SendFlow, for any sums of money, any fees, any width of    *)
(* the numbers that holds a balance with its fees, and any number of       *)
(* clicks inside each other.                                               *)
(***************************************************************************)
EXTENDS SendFlow, TLAPS

(* What RunsAreCovered says of one run. *)
Covered(run) ==
  ~run.disturbed /\ ~Wrapped(run) =>
    open /\ run.amount + BaseFee + run.remoteFee <= balance

(* A run pays the fee of the remote node only if the node asked for it. *)
FeeKnown(run) == run.remoteFee # 0 => feeAddress

(* What updatePortfolio() would find. *)
WalletBalance == IF open THEN balance ELSE 0

(* What the pages know of the wallet and of the fee is old only while an   *)
(* update is on its way.                                                   *)
PagesKnow ==
  /\ ~due /\ ~updatePosted => actualBalance = WalletBalance
  /\ feeAddress => shownFee = BaseFee + RemoteFee
  /\ dust <= balance

(* An amount set by a percentage fits the wallet, whatever the page knows. *)
PercentageFits ==
  percent => WalletBalance >= Plus(amount, BaseFee + RemoteTransfer)

IInv ==
  /\ TypeOK
  /\ PagesKnow
  /\ \A i \in DOMAIN runs : Covered(runs[i]) /\ FeeKnown(runs[i])
  /\ PercentageFits
  /\ FeesAreShown
-----------------------------------------------------------------------------
(***************************************************************************)
(* Sums of money.                                                          *)
(***************************************************************************)
LEMMA Constants ==
  /\ BaseFee \in Nat /\ BaseFee > 0 /\ RemoteFee \in Nat /\ RemoteFee > 0
  /\ MaxBalance \in Nat /\ Mod \in Nat /\ Mod > 0
  /\ MessageCost \in Nat
  /\ MaxTyped \in Nat /\ MaxTyped < Mod
  /\ MaxBalance + BaseFee + RemoteFee < Mod
BY MoneyAssumption

LEMMA Modulo ==
  ASSUME NEW a \in Int
  PROVE  /\ a % Mod \in Money
         /\ a \in Money => a % Mod = a
BY Constants DEF Money

LEMMA Parts ==
  ASSUME NEW a \in Nat, NEW part \in {1, 2, 4}
  PROVE  a \div part \in Nat /\ a \div part <= a
<1>1. CASE part = 1
  BY <1>1
<1>2. CASE part = 2
  BY <1>2
<1>3. CASE part = 4
  BY <1>3
<1> QED
  BY <1>1, <1>2, <1>3

LEMMA RunTyped ==
  ASSUME NEW run \in Runs
  PROVE  /\ run.kind \in {"funds", "message", "deposit"}
         /\ run.pc \in {"password", "delay", "confirm"}
         /\ run.amount \in Money /\ run.amount \in Nat
         /\ run.remoteFee \in {0, RemoteFee} /\ run.remoteFee \in Nat
         /\ run.checked \in Balances /\ run.disturbed \in BOOLEAN
BY Constants DEF Runs, Money
-----------------------------------------------------------------------------
(***************************************************************************)
(* The stack of runs.                                                      *)
(***************************************************************************)
LEMMA DisturbedTyped ==
  ASSUME NEW rs \in Seq(Runs)
  PROVE  /\ Disturbed(rs) \in Seq(Runs)
         /\ DOMAIN Disturbed(rs) = DOMAIN rs
         /\ \A i \in DOMAIN rs :
              /\ Disturbed(rs)[i].disturbed = TRUE
              /\ Disturbed(rs)[i].remoteFee = rs[i].remoteFee
<1>1. \A i \in DOMAIN rs : rs[i] \in Runs
  OBVIOUS
<1>2. \A run \in Runs :
        /\ [run EXCEPT !.disturbed = TRUE] \in Runs
        /\ [run EXCEPT !.disturbed = TRUE].disturbed = TRUE
        /\ [run EXCEPT !.disturbed = TRUE].remoteFee = run.remoteFee
  BY DEF Runs
<1>3. Len(rs) \in Nat /\ DOMAIN rs = 1 .. Len(rs)
  OBVIOUS
<1>4. Disturbed(rs) \in [1 .. Len(rs) -> Runs]
  BY <1>1, <1>2, <1>3 DEF Disturbed
<1>5. Disturbed(rs) \in Seq(Runs)
  BY <1>3, <1>4
<1> QED
  BY <1>1, <1>2, <1>5 DEF Disturbed

LEMMA OthersTyped ==
  ASSUME runs \in Seq(Runs), runs # <<>>
  PROVE  /\ Others \in Seq(Runs)
         /\ DOMAIN Others \subseteq DOMAIN runs
         /\ \A i \in DOMAIN Others : Others[i] = runs[i]
BY DEF Others

LEMMA LastTyped ==
  ASSUME runs \in Seq(Runs), runs # <<>>
  PROVE  Len(runs) \in DOMAIN runs /\ Last = runs[Len(runs)] /\ Last \in Runs
BY DEF Last

LEMMA BegunTyped ==
  ASSUME runs \in Seq(Runs), NEW run \in Runs
  PROVE  /\ Append(runs, run) \in Seq(Runs)
         /\ \A i \in DOMAIN Append(runs, run) :
              \/ Append(runs, run)[i] = run
              \/ i \in DOMAIN runs /\ Append(runs, run)[i] = runs[i]
OBVIOUS

(* Runs stay covered if they are told of what goes. *)
LEMMA RunsKept ==
  ASSUME IInv, balance' \in Balances, feeAddress => feeAddress',
         runs' \in Seq(Runs),
         \A i \in DOMAIN runs' :
           /\ i \in DOMAIN runs
           /\ runs'[i].remoteFee = runs[i].remoteFee
           /\ \/ runs'[i].disturbed
              \/ /\ runs'[i].disturbed = runs[i].disturbed
                 /\ runs'[i].amount = runs[i].amount
                 /\ ~open \/ (open' /\ balance' >= balance)
  PROVE  \A i \in DOMAIN runs' : Covered(runs[i])' /\ FeeKnown(runs[i])'
<1> TAKE i \in DOMAIN runs'
<1>1. runs[i] \in Runs /\ runs'[i] \in Runs /\ i \in DOMAIN runs
  BY DEF IInv, TypeOK
<1>2. Covered(runs[i]) /\ FeeKnown(runs[i])
  BY <1>1 DEF IInv
<1>3. balance \in Nat /\ balance' \in Nat
  BY Constants DEF IInv, TypeOK, Balances
<1>4. FeeKnown(runs[i])'
  BY <1>2 DEF FeeKnown
<1>5. Covered(runs[i])'
  <2>1. CASE runs'[i].disturbed
    BY <2>1 DEF Covered
  <2>2. CASE ~runs'[i].disturbed
    <3>1. /\ runs'[i].disturbed = runs[i].disturbed
          /\ runs'[i].amount = runs[i].amount
          /\ runs'[i].remoteFee = runs[i].remoteFee
          /\ ~open \/ (open' /\ balance' >= balance)
      BY <2>2
    <3> DEFINE total == runs[i].amount + BaseFee + runs[i].remoteFee
    <3>2. total \in Nat
      BY <1>1, RunTyped, Constants
    <3>3. Wrapped(runs[i])' <=> Wrapped(runs[i])
      BY <3>1 DEF Wrapped
    <3>4. ~Wrapped(runs[i]) => open /\ total <= balance
      BY <1>2, <2>2, <3>1 DEF Covered
    <3>5. ~Wrapped(runs[i]) => open' /\ total <= balance'
      <4> HIDE DEF total
      <4> QED
        BY <1>3, <3>1, <3>2, <3>4
    <3> QED
      BY <3>1, <3>3, <3>5 DEF Covered
  <2> QED
    BY <2>1, <2>2
<1> QED
  BY <1>4, <1>5
-----------------------------------------------------------------------------
(***************************************************************************)
(* Each action keeps the inductive invariant.                              *)
(***************************************************************************)
LEMMA Facts ==
  ASSUME IInv
  PROVE  /\ balance \in Balances /\ balance \in Nat
         /\ dust \in Balances /\ dust \in Nat
         /\ actualBalance \in Balances /\ actualBalance \in Nat
         /\ WalletBalance \in Balances /\ WalletBalance \in Nat
         /\ amount \in Money /\ runs \in Seq(Runs)
         /\ {open, encrypted, shown, due, updatePosted, remote, feeAddress,
             percent} \subseteq BOOLEAN
         /\ completed \subseteq Completions
         /\ {actualFee, shownFee} \subseteq {BaseFee, BaseFee + RemoteFee}
         /\ paid \in {0, BaseFee, BaseFee + RemoteFee}
         /\ userActions \in 0 .. MaxUserActions
<1>1. balance \in 0 .. MaxBalance /\ 0 \in 0 .. MaxBalance
  BY Constants DEF IInv, TypeOK, Balances
<1>2. WalletBalance \in 0 .. MaxBalance
  BY <1>1 DEF WalletBalance
<1> QED
  BY <1>1, <1>2, Constants DEF IInv, TypeOK, Balances

LEMMA CountTyped ==
  ASSUME IInv, UserAction
  PROVE  userActions' \in 0 .. MaxUserActions
BY MoneyAssumption DEF IInv, TypeOK, UserAction

(* The pages show every fee that is asked for. *)
LEMMA FeesKnown ==
  ASSUME IInv
  PROVE  /\ 0 <= shownFee /\ BaseFee <= shownFee
         /\ BaseFee + RemoteTransfer <= shownFee
         /\ feeAddress => BaseFee + RemoteFee <= shownFee
         /\ \A i \in DOMAIN runs : BaseFee + runs[i].remoteFee <= shownFee
<1>1. /\ shownFee \in {BaseFee, BaseFee + RemoteFee}
      /\ feeAddress => shownFee = BaseFee + RemoteFee
  BY DEF IInv, TypeOK, PagesKnow
<1>2. ASSUME NEW i \in DOMAIN runs
      PROVE  BaseFee + runs[i].remoteFee <= shownFee
  <2>1. runs[i] \in Runs /\ FeeKnown(runs[i])
    BY DEF IInv, TypeOK
  <2>2. runs[i].remoteFee \in {0, RemoteFee}
    BY <2>1, RunTyped
  <2> QED
    BY <1>1, <2>1, <2>2, Constants DEF FeeKnown
<1> QED
  BY <1>1, <1>2, Constants DEF RemoteTransfer

(* The runs and the amount of a percentage, where neither is touched. *)
LEMMA SameRuns ==
  ASSUME IInv, UNCHANGED runs, balance' \in Balances,
         feeAddress => feeAddress',
         ~open \/ (open' /\ balance' >= balance)
  PROVE  \A i \in DOMAIN runs' : Covered(runs[i])' /\ FeeKnown(runs[i])'
<1>1. runs' \in Seq(Runs)
  BY Facts
<1> QED
  BY <1>1, RunsKept

LEMMA NoPercentage ==
  ASSUME percent' = FALSE
  PROVE  PercentageFits'
BY DEF PercentageFits

LEMMA SamePercentage ==
  ASSUME IInv,
         UNCHANGED <<percent, amount, open, balance, remote, feeAddress>>
  PROVE  PercentageFits'
BY DEF IInv, PercentageFits, WalletBalance, RemoteTransfer, Plus

LEMMA SameFees ==
  ASSUME IInv, UNCHANGED <<paid, shownFee>>
  PROVE  FeesAreShown'
BY DEF IInv, FeesAreShown

LEMMA BalanceChangesIInv ==
  ASSUME IInv, NEW b \in Balances, NEW d \in Balances, BalanceChanges(b, d)
  PROVE  IInv'
<1>1. /\ open /\ balance' = b /\ dust' = d /\ d <= b
      /\ due' = TRUE
      /\ runs' = IF b < balance THEN Disturbed(runs) ELSE runs
      /\ percent' = FALSE
      /\ UNCHANGED <<open, encrypted, shown, actualBalance, updatePosted,
                     remote, feeAddress, actualFee, shownFee, amount,
                     completed, paid, userActions>>
  BY DEF BalanceChanges, Outdated, fees
<1>2. runs \in Seq(Runs) /\ balance \in Nat /\ b \in Nat
  BY Facts, Constants DEF Balances
<1>3. runs' \in Seq(Runs)
  BY <1>1, <1>2, DisturbedTyped
<1>4. TypeOK'
  BY <1>1, <1>3, Facts DEF TypeOK
<1>5. PagesKnow'
  BY <1>1 DEF IInv, PagesKnow
<1>6. \A i \in DOMAIN runs' : Covered(runs[i])' /\ FeeKnown(runs[i])'
  <2>1. CASE b < balance
    <3>1. runs' = Disturbed(runs)
      BY <1>1, <2>1
    <3>2. \A i \in DOMAIN runs' :
            /\ i \in DOMAIN runs /\ runs'[i].disturbed
            /\ runs'[i].remoteFee = runs[i].remoteFee
      BY <1>2, <3>1, DisturbedTyped
    <3> QED
      BY <1>1, <1>3, <3>2, RunsKept
  <2>2. CASE ~(b < balance)
    BY <1>1, <1>2, <2>2, SameRuns
  <2> QED
    BY <2>1, <2>2
<1> QED
  BY <1>1, <1>4, <1>5, <1>6, NoPercentage, SameFees DEF IInv

LEMMA BalanceUpdatedIInv == ASSUME IInv, BalanceUpdated PROVE IInv'
<1>1. /\ due' = FALSE /\ updatePosted' = TRUE
      /\ UNCHANGED <<open, encrypted, balance, dust, shown, actualBalance,
                     remote, feeAddress, actualFee, shownFee, amount, runs,
                     completed, percent, paid, userActions>>
  BY DEF BalanceUpdated, wallet, fees
<1>2. TypeOK'
  BY <1>1, Facts DEF TypeOK
<1>3. PagesKnow'
  BY <1>1 DEF IInv, PagesKnow
<1>4. \A i \in DOMAIN runs' : Covered(runs[i])' /\ FeeKnown(runs[i])'
  BY <1>1, Facts, SameRuns
<1> QED
  BY <1>1, <1>2, <1>3, <1>4, SamePercentage, SameFees DEF IInv

LEMMA UpdatePortfolioIInv == ASSUME IInv, UpdatePortfolio PROVE IInv'
<1>1. /\ updatePosted' = FALSE /\ actualBalance' = WalletBalance
      /\ UNCHANGED <<open, encrypted, balance, dust, shown, due, remote,
                     feeAddress, actualFee, shownFee, amount, runs,
                     completed, percent, paid, userActions>>
  BY DEF UpdatePortfolio, wallet, fees, WalletBalance
<1>2. TypeOK'
  BY <1>1, Facts DEF TypeOK
<1>3. PagesKnow'
  BY <1>1 DEF IInv, PagesKnow, WalletBalance
<1>4. \A i \in DOMAIN runs' : Covered(runs[i])' /\ FeeKnown(runs[i])'
  BY <1>1, Facts, SameRuns
<1> QED
  BY <1>1, <1>2, <1>3, <1>4, SamePercentage, SameFees DEF IInv

LEMMA FeeAddressFoundIInv == ASSUME IInv, FeeAddressFound PROVE IInv'
<1>1. /\ remote /\ feeAddress' = TRUE
      /\ actualFee' = BaseFee + RemoteFee /\ shownFee' = actualFee'
      /\ percent' = FALSE
      /\ UNCHANGED <<open, encrypted, balance, dust, shown, actualBalance,
                     due, updatePosted, remote, amount, runs, completed,
                     paid, userActions>>
  BY DEF FeeAddressFound, Calculated, Outdated, wallet, news
<1>2. TypeOK'
  BY <1>1, Facts DEF TypeOK
<1>3. PagesKnow'
  BY <1>1 DEF IInv, PagesKnow, WalletBalance
<1>4. \A i \in DOMAIN runs' : Covered(runs[i])' /\ FeeKnown(runs[i])'
  BY <1>1, Facts, SameRuns
<1>5. FeesAreShown'
  BY <1>1, Facts, Constants DEF FeesAreShown
<1> QED
  BY <1>1, <1>2, <1>3, <1>4, <1>5, NoPercentage DEF IInv

LEMMA TransactionCompletedIInv ==
  ASSUME IInv, TransactionCompleted PROVE IInv'
<1>1. /\ completed' \subseteq completed /\ shown' = TRUE
      /\ \/ amount' = 0 /\ percent' = FALSE
         \/ UNCHANGED <<amount, percent>>
      /\ UNCHANGED <<open, encrypted, balance, dust, actualBalance, due,
                     updatePosted, remote, feeAddress, actualFee, shownFee,
                     runs, paid, userActions>>
  BY DEF TransactionCompleted, wallet, news, fees
<1>2. amount' \in Money /\ percent' \in BOOLEAN
  <2>1. 0 \in Money
    BY Constants DEF Money
  <2> QED
    BY <1>1, <2>1, Facts
<1>3. TypeOK'
  BY <1>1, <1>2, Facts DEF TypeOK
<1>4. PagesKnow'
  BY <1>1 DEF IInv, PagesKnow, WalletBalance
<1>5. \A i \in DOMAIN runs' : Covered(runs[i])' /\ FeeKnown(runs[i])'
  BY <1>1, Facts, SameRuns
<1>6. PercentageFits'
  BY <1>1, NoPercentage, SamePercentage
<1> QED
  BY <1>1, <1>3, <1>4, <1>5, <1>6, SameFees DEF IInv

LEMMA OpenIInv ==
  ASSUME IInv, NEW b \in Balances, NEW d \in Balances, Open(b, d)
  PROVE  IInv'
<1>1. /\ UserAction /\ ~open /\ open' = TRUE /\ encrypted' \in BOOLEAN
      /\ balance' = b /\ dust' = d /\ d <= b
      /\ shown' = TRUE /\ updatePosted' = TRUE /\ percent' = FALSE
      /\ UNCHANGED <<actualBalance, due, remote, feeAddress, actualFee,
                     shownFee, amount, runs, completed, paid>>
  BY DEF Open, Outdated, fees
<1>2. TypeOK'
  BY <1>1, Facts, CountTyped DEF TypeOK
<1>3. PagesKnow'
  BY <1>1 DEF IInv, PagesKnow
<1>4. \A i \in DOMAIN runs' : Covered(runs[i])' /\ FeeKnown(runs[i])'
  BY <1>1, SameRuns
<1> QED
  BY <1>1, <1>2, <1>3, <1>4, NoPercentage, SameFees DEF IInv

LEMMA CloseIInv == ASSUME IInv, Close PROVE IInv'
<1>1. /\ UserAction /\ open' = FALSE /\ balance' = 0 /\ dust' = 0
      /\ shown' = FALSE /\ due' = FALSE /\ updatePosted' = TRUE
      /\ runs' = Disturbed(runs) /\ percent' = FALSE
      /\ UNCHANGED <<encrypted, actualBalance, remote, feeAddress, actualFee,
                     shownFee, amount, completed, paid>>
  BY DEF Close, Outdated, fees
<1>2. runs \in Seq(Runs) /\ 0 \in Balances
  BY Facts, Constants DEF Balances
<1>3. /\ runs' \in Seq(Runs)
      /\ \A i \in DOMAIN runs' :
           /\ i \in DOMAIN runs /\ runs'[i].disturbed
           /\ runs'[i].remoteFee = runs[i].remoteFee
  BY <1>1, <1>2, DisturbedTyped
<1>4. TypeOK'
  BY <1>1, <1>2, <1>3, Facts, CountTyped DEF TypeOK
<1>5. PagesKnow'
  BY <1>1 DEF IInv, PagesKnow
<1>6. \A i \in DOMAIN runs' : Covered(runs[i])' /\ FeeKnown(runs[i])'
  BY <1>1, <1>2, <1>3, RunsKept
<1> QED
  BY <1>1, <1>4, <1>5, <1>6, NoPercentage, SameFees DEF IInv

LEMMA SaveConnectionIInv == ASSUME IInv, SaveConnection PROVE IInv'
<1>1. /\ UserAction /\ remote' = ~remote /\ percent' = FALSE
      /\ UNCHANGED <<open, encrypted, balance, dust, shown, actualBalance,
                     due, updatePosted, feeAddress, actualFee, shownFee,
                     amount, runs, completed, paid>>
  BY DEF SaveConnection, Outdated, wallet, news
<1>2. TypeOK'
  <2>1. remote' \in BOOLEAN
    BY <1>1
  <2> QED
    BY <1>1, <2>1, Facts, CountTyped DEF TypeOK
<1>3. PagesKnow'
  BY <1>1 DEF IInv, PagesKnow, WalletBalance
<1>4. \A i \in DOMAIN runs' : Covered(runs[i])' /\ FeeKnown(runs[i])'
  BY <1>1, Facts, SameRuns
<1> QED
  BY <1>1, <1>2, <1>3, <1>4, NoPercentage, SameFees DEF IInv

(* An amount is entered. *)
LEMMA AmountIInv ==
  ASSUME IInv, UserAction,
         UNCHANGED <<open, encrypted, balance, dust, shown, actualBalance,
                     due, updatePosted, remote, feeAddress, shownFee, runs,
                     completed, paid>>,
         actualFee' \in {BaseFee, BaseFee + RemoteFee},
         amount' \in Money, percent' \in BOOLEAN, PercentageFits'
  PROVE  IInv'
<1>1. TypeOK'
  BY Facts, CountTyped DEF TypeOK
<1>2. PagesKnow'
  BY DEF IInv, PagesKnow, WalletBalance
<1>3. \A i \in DOMAIN runs' : Covered(runs[i])' /\ FeeKnown(runs[i])'
  BY Facts, SameRuns
<1> QED
  BY <1>1, <1>2, <1>3, SameFees DEF IInv

LEMMA TypeAmountIInv ==
  ASSUME IInv, NEW a \in 0 .. MaxTyped, TypeAmount(a) PROVE IInv'
<1>1. /\ UserAction /\ amount' = a /\ percent' = FALSE
      /\ UNCHANGED <<open, encrypted, balance, dust, shown, actualBalance,
                     due, updatePosted, remote, feeAddress, actualFee,
                     shownFee, runs, completed, paid>>
  BY DEF TypeAmount, OnPage, wallet, news, fees
<1>2. amount' \in Money
  BY <1>1, Constants DEF Money
<1> QED
  BY <1>1, <1>2, Facts, NoPercentage, AmountIInv

(* An amount that leaves the fee of a balance can be sent with it. *)
LEMMA LeavesTheFee ==
  ASSUME IInv, NEW sum \in Balances, sum <= WalletBalance,
         NEW part \in {1, 2, 4},
         NEW fee \in {BaseFee, BaseFee + RemoteFee}, fee <= sum
  PROVE  LET a == Minus(sum, fee) \div part
         IN a \in Money /\ a + fee <= WalletBalance
                        /\ Plus(a, fee) = a + fee
<1> DEFINE a == Minus(sum, fee) \div part
<1>1. /\ sum \in Nat /\ fee \in Nat /\ WalletBalance \in Nat
      /\ WalletBalance < Mod
  BY Facts, Constants DEF Balances
<1>2. sum - fee \in Money /\ sum - fee \in Nat
  BY <1>1, Constants, Facts DEF Money, Balances
<1>3. Minus(sum, fee) = sum - fee
  BY <1>2, Modulo DEF Minus
<1>4. a \in Nat /\ a <= sum - fee
  BY <1>2, <1>3, Parts
<1> HIDE DEF a
<1>5. a \in Money /\ a + fee <= WalletBalance /\ a + fee \in Money
  BY <1>1, <1>4, Constants DEF Money
<1>6. Plus(a, fee) = a + fee
  <2>1. a + fee \in Int
    BY <1>1, <1>4
  <2>2. (a + fee) % Mod = a + fee
    BY <1>5, <2>1, Modulo
  <2> QED
    BY <2>2 DEF Plus
<1> QED
  BY <1>5, <1>6 DEF a

LEMMA DividedTyped ==
  ASSUME NEW s \in Int, NEW part \in {1, 2, 4}
  PROVE  (s % Mod) \div part \in Money
<1>1. s % Mod \in Money /\ s % Mod \in Nat
  BY Modulo, Constants DEF Money
<1>2. (s % Mod) \div part \in Nat /\ (s % Mod) \div part <= s % Mod
  BY <1>1, Parts
<1> QED
  BY <1>1, <1>2, Constants DEF Money

(* The fee that a percentage leaves is the one that sending adds. *)
LEMMA FeeIsSent ==
  /\ Calculated(feeAddress) = BaseFee + RemoteTransfer
  /\ Calculated(feeAddress) \in {BaseFee, BaseFee + RemoteFee}
BY Constants DEF Calculated, RemoteTransfer

LEMMA PercentageIInv ==
  ASSUME IInv, UserAction, NEW sum \in Balances, NEW part \in {1, 2, 4},
         UNCHANGED <<open, encrypted, balance, dust, shown, actualBalance,
                     due, updatePosted, remote, feeAddress, shownFee, runs,
                     completed, paid>>,
         actualFee' = Calculated(feeAddress),
         amount' = Minus(sum, actualFee') \div part,
         percent' \in BOOLEAN,
         percent' => sum >= actualFee' /\ sum <= WalletBalance
  PROVE  IInv'
<1> DEFINE fee == Calculated(feeAddress)
<1>1. fee \in {BaseFee, BaseFee + RemoteFee} /\ fee \in Int /\ sum \in Int
  BY FeeIsSent, Constants DEF Balances
<1>2. amount' \in Money
  <2>1. amount' = ((sum - fee) % Mod) \div part
    BY DEF Minus
  <2>2. sum - fee \in Int
    <3> HIDE DEF fee
    <3> QED
      BY <1>1
  <2> QED
    BY <2>1, <2>2, DividedTyped
<1>3. PercentageFits'
  <2>1. ASSUME percent'
        PROVE  WalletBalance' >= Plus(amount', BaseFee + RemoteTransfer')
    <3>1. fee <= sum /\ sum <= WalletBalance
      BY <1>1, <2>1
    <3>2. Plus(amount', fee) <= WalletBalance
      BY <1>1, <3>1, LeavesTheFee
    <3>3. RemoteTransfer' = RemoteTransfer
      BY DEF RemoteTransfer
    <3>4. fee = BaseFee + RemoteTransfer
      BY FeeIsSent
    <3>5. WalletBalance' = WalletBalance /\ WalletBalance \in Nat
      BY Facts DEF WalletBalance
    <3>6. Plus(amount', fee) \in Nat
      <4>1. amount' + fee \in Int
        <5> HIDE DEF fee
        <5> QED
          BY <1>1, <1>2, Constants DEF Money
      <4> QED
        BY <4>1, Modulo, Constants DEF Plus, Money
    <3> HIDE DEF fee
    <3> QED
      BY <3>2, <3>3, <3>4, <3>5, <3>6
  <2> QED
    BY <2>1 DEF PercentageFits, Plus
<1> QED
  BY <1>1, <1>2, <1>3, Facts, AmountIInv

LEMMA SetPercentageIInv ==
  ASSUME IInv, NEW part \in {2, 4}, SetPercentage(part) PROVE IInv'
<1>1. /\ UserAction /\ actualFee' = Calculated(feeAddress)
      /\ amount' = Minus(actualBalance, actualFee') \div part
      /\ percent' = (actualBalance >= actualFee' /\ ~due /\ ~updatePosted)
      /\ UNCHANGED <<open, encrypted, balance, dust, shown, actualBalance,
                     due, updatePosted, remote, feeAddress, shownFee, runs,
                     completed, paid>>
  BY DEF SetPercentage, OnPage, wallet, news
<1>2. actualBalance \in Balances /\ actualBalance \in Nat
  BY Facts
<1>3. ~due /\ ~updatePosted => actualBalance <= WalletBalance
  BY <1>2 DEF IInv, PagesKnow
<1>4. /\ percent' \in BOOLEAN
      /\ percent' => actualBalance >= actualFee'
                     /\ actualBalance <= WalletBalance
  BY <1>1, <1>3
<1> QED
  BY <1>1, <1>2, <1>4, PercentageIInv

LEMMA SetPercentage100IInv == ASSUME IInv, SetPercentage100 PROVE IInv'
<1>1. /\ UserAction /\ actualFee' = Calculated(feeAddress)
      /\ amount' = Minus(WalletMaximum, actualFee')
      /\ percent' = (WalletMaximum >= actualFee')
      /\ UNCHANGED <<open, encrypted, balance, dust, shown, actualBalance,
                     due, updatePosted, remote, feeAddress, shownFee, runs,
                     completed, paid>>
  BY DEF SetPercentage100, OnPage, wallet, news
<1>2. WalletMaximum \in Balances /\ WalletMaximum <= WalletBalance
  <2>1. balance \in 0 .. MaxBalance /\ dust \in 0 .. MaxBalance
    BY Facts DEF Balances
  <2>2. dust <= balance
    BY DEF IInv, PagesKnow
  <2> QED
    BY <2>1, <2>2, Constants DEF WalletMaximum, WalletBalance, Balances
<1>3. amount' = Minus(WalletMaximum, actualFee') \div 1
  <2>1. WalletMaximum \in Int /\ Calculated(feeAddress) \in Int
    BY <1>2, FeeIsSent, Constants DEF Balances
  <2>2. WalletMaximum - actualFee' \in Int
    BY <1>1, <2>1
  <2>3. amount' \in Nat
    BY <1>1, <2>2, Modulo, Constants DEF Minus, Money
  <2> QED
    BY <1>1, <2>3
<1>4. /\ percent' \in BOOLEAN
      /\ percent' => WalletMaximum >= actualFee'
                     /\ WalletMaximum <= WalletBalance
  <2>1. WalletMaximum \in Int /\ actualFee' \in Int
    BY <1>1, <1>2, FeeIsSent, Constants DEF Balances
  <2>2. (WalletMaximum >= actualFee') \in BOOLEAN
    BY <2>1
  <2>3. percent' = (WalletMaximum >= actualFee')
    BY <1>1
  <2> QED
    BY <1>2, <2>2, <2>3, Zenon
<1> QED
  BY <1>1, <1>2, <1>3, <1>4, PercentageIInv
-----------------------------------------------------------------------------
(***************************************************************************)
(* The clicks: one begins, goes on, is given up or pays.                   *)
(***************************************************************************)
LEMMA BeginIInv ==
  ASSUME IInv, UserAction,
         NEW kind \in {"funds", "message", "deposit"},
         NEW next \in {"delay", "confirm"}, NEW amt \in Money,
         NEW fee \in {0, RemoteFee}, NEW checked \in Balances,
         NEW disturbed \in BOOLEAN,
         Begin(kind, next, amt, fee, checked, disturbed),
         fee # 0 => feeAddress,
         ~disturbed /\ ~(amt + BaseFee + fee >= Mod) =>
           open /\ amt + BaseFee + fee <= balance
  PROVE  IInv'
<1> DEFINE pc == IF open /\ ~encrypted THEN next ELSE "password"
           run == [kind |-> kind, pc |-> pc, amount |-> amt,
                   remoteFee |-> fee, checked |-> checked,
                   disturbed |-> disturbed]
<1>1. /\ runs' = Append(runs, run)
      /\ UNCHANGED <<open, encrypted, balance, dust, shown, actualBalance,
                     due, updatePosted, remote, feeAddress, actualFee,
                     shownFee, amount, completed, percent, paid>>
  BY DEF Begin, wallet, news, fees
<1>2. run \in Runs
  BY DEF Runs
<1>3. /\ run.amount = amt /\ run.remoteFee = fee
      /\ run.disturbed = disturbed
  OBVIOUS
<1> HIDE DEF run
<1>4. /\ runs' \in Seq(Runs)
      /\ \A i \in DOMAIN runs' :
           runs'[i] = run \/ (i \in DOMAIN runs /\ runs'[i] = runs[i])
  BY <1>1, <1>2, Facts, BegunTyped
<1>5. TypeOK'
  BY <1>1, <1>4, Facts, CountTyped DEF TypeOK
<1>6. PagesKnow'
  BY <1>1 DEF IInv, PagesKnow, WalletBalance
<1>7. \A i \in DOMAIN runs' : Covered(runs[i])' /\ FeeKnown(runs[i])'
  <2> TAKE i \in DOMAIN runs'
  <2>1. CASE runs'[i] = run
    BY <1>1, <1>3, <2>1 DEF Covered, Wrapped, FeeKnown
  <2>2. CASE i \in DOMAIN runs /\ runs'[i] = runs[i]
    <3>1. Covered(runs[i]) /\ FeeKnown(runs[i])
      BY <2>2 DEF IInv
    <3> QED
      BY <1>1, <2>2, <3>1 DEF Covered, Wrapped, FeeKnown
  <2> QED
    BY <1>4, <2>1, <2>2
<1>8. PercentageFits'
  BY <1>1, SamePercentage
<1> QED
  BY <1>1, <1>5, <1>6, <1>7, <1>8, SameFees DEF IInv

(* A sum that does not wrap around is the sum that was compared. *)
LEMMA SendFundsIInv == ASSUME IInv, SendFunds PROVE IInv'
<1> DEFINE old == due \/ updatePosted
<1>1. /\ UserAction /\ HasFunds(amount, RemoteTransfer)
      /\ Begin("funds", "delay", amount, RemoteTransfer, actualBalance, old)
  BY DEF SendFunds, OnPage
<1>2. /\ RemoteTransfer \in {0, RemoteFee} /\ RemoteTransfer \in Nat
      /\ RemoteTransfer # 0 => feeAddress
  BY Constants DEF RemoteTransfer
<1>3. /\ amount \in Money /\ amount \in Nat
      /\ actualBalance \in Balances /\ old \in BOOLEAN
      /\ actualBalance \in Nat /\ balance \in Nat
  BY Facts, Constants DEF Money
<1> DEFINE sum == amount + BaseFee + RemoteTransfer
<1>4. ~old /\ ~(sum >= Mod) => open /\ sum <= balance
  <2>1. sum \in Nat /\ sum > 0
    BY <1>2, <1>3, Constants
  <2>2. amount + (BaseFee + RemoteTransfer) = sum
    BY <1>2, <1>3, Constants
  <2>3. sum % Mod <= actualBalance
    <3>1. Plus(amount, BaseFee + RemoteTransfer) = sum % Mod
      BY <2>2 DEF Plus
    <3>2. sum % Mod \in Nat
      <4> HIDE DEF sum
      <4> QED
        BY <2>1, Modulo DEF Money
    <3>3. actualBalance >= sum % Mod
      BY <1>1, <3>1 DEF HasFunds
    <3> HIDE DEF sum
    <3> QED
      BY <1>3, <3>2, <3>3
  <2>4. ~old => actualBalance = IF open THEN balance ELSE 0
    BY DEF IInv, PagesKnow, WalletBalance
  <2> HIDE DEF sum, old
  <2>5. ~(sum >= Mod) => sum % Mod = sum
    BY <2>1, Modulo, Constants DEF Money
  <2> QED
    BY <1>3, <2>1, <2>3, <2>4, <2>5
<1> HIDE DEF old
<1> QED
  BY <1>1, <1>2, <1>3, <1>4, BeginIInv

LEMMA NewDepositIInv ==
  ASSUME IInv, NEW amt \in Balances, NewDeposit(amt) PROVE IInv'
<1>1. /\ UserAction /\ open /\ Plus(amt, BaseFee) <= balance
      /\ Begin("deposit", "confirm", amt, 0, balance, FALSE)
  BY DEF NewDeposit, OnPage
<1>2. /\ amt \in Nat /\ amt \in Money /\ amt + BaseFee \in Money
      /\ balance \in Balances
  BY Facts, Constants DEF Balances, Money
<1>3. amt + BaseFee + 0 = amt + BaseFee /\ amt + BaseFee \in Int
  BY <1>2, Constants
<1>4. amt + BaseFee + 0 <= balance
  BY <1>1, <1>2, <1>3, Modulo DEF Plus
<1> QED
  BY <1>1, <1>2, <1>4, BeginIInv

LEMMA SendMessageIInv == ASSUME IInv, SendMessage PROVE IInv'
<1>1. UserAction /\ Begin("message", "delay", 0, 0, 0, TRUE)
  BY DEF SendMessage, OnPage
<1>2. 0 \in Money /\ 0 \in Balances
  BY Constants DEF Money, Balances
<1> QED
  BY <1>1, <1>2, BeginIInv

LEMMA EnterPasswordIInv == ASSUME IInv, EnterPassword PROVE IInv'
<1> DEFINE n == Len(runs)
           pc == IF Last.kind = "deposit" THEN "confirm" ELSE "delay"
<1>1. /\ runs # <<>> /\ runs' = [runs EXCEPT ![n].pc = pc]
      /\ UNCHANGED <<open, encrypted, balance, dust, shown, actualBalance,
                     due, updatePosted, remote, feeAddress, actualFee,
                     shownFee, amount, completed, percent, paid,
                     userActions>>
  BY DEF EnterPassword, wallet, news, fees
<1>2. runs \in Seq(Runs) /\ pc \in {"confirm", "delay"}
  BY Facts
<1> HIDE DEF pc
<1>3. [runs[n] EXCEPT !.pc = pc] \in Runs
  BY <1>1, <1>2, LastTyped DEF Runs
<1>4. runs' = [runs EXCEPT ![n] = [runs[n] EXCEPT !.pc = pc]]
  BY <1>1
<1>5. runs' \in Seq(Runs) /\ DOMAIN runs' = DOMAIN runs
  <2>1. n \in Nat /\ DOMAIN runs = 1 .. n /\ runs \in [1 .. n -> Runs]
    BY <1>2
  <2> DEFINE next == [runs[n] EXCEPT !.pc = pc]
  <2>2. next \in Runs /\ runs' = [runs EXCEPT ![n] = next]
    BY <1>3, <1>4
  <2> HIDE DEF next, n
  <2>3. runs' \in [1 .. n -> Runs]
    BY <2>1, <2>2
  <2> QED
    BY <2>1, <2>3
<1>6. \A i \in DOMAIN runs' :
        /\ runs'[i].disturbed = runs[i].disturbed
        /\ runs'[i].amount = runs[i].amount
        /\ runs'[i].remoteFee = runs[i].remoteFee
  <2> TAKE i \in DOMAIN runs'
  <2>1. runs[i] \in Runs
    BY <1>2, <1>5
  <2>2. runs'[i] = runs[i] \/ runs'[i] = [runs[i] EXCEPT !.pc = pc]
    BY <1>2, <1>4, <1>5
  <2> QED
    BY <2>1, <2>2 DEF Runs
<1>7. TypeOK'
  BY <1>1, <1>5, Facts DEF TypeOK
<1>8. PagesKnow'
  BY <1>1 DEF IInv, PagesKnow, WalletBalance
<1>9. \A i \in DOMAIN runs' : Covered(runs[i])' /\ FeeKnown(runs[i])'
  <2>1. /\ balance' \in Balances /\ balance' >= balance
        /\ open' = open /\ feeAddress' = feeAddress
    BY <1>1, Facts
  <2> QED
    BY <1>5, <1>6, <2>1, RunsKept
<1> QED
  BY <1>1, <1>7, <1>8, <1>9, SamePercentage, SameFees DEF IInv

LEMMA RefuseIInv ==
  ASSUME IInv, runs # <<>>, Refuse(Others),
         UNCHANGED <<open, encrypted, shown, actualBalance, updatePosted,
                     remote, feeAddress, actualFee, shownFee, amount,
                     userActions>>
  PROVE  IInv'
<1>1. /\ runs' = Others
      /\ UNCHANGED <<balance, dust, due, completed, percent, paid>>
  BY DEF Refuse
<1>2. runs' \in Seq(Runs) /\ DOMAIN runs' \subseteq DOMAIN runs
      /\ \A i \in DOMAIN runs' : runs'[i] = runs[i]
  BY <1>1, Facts, OthersTyped
<1>3. TypeOK'
  BY <1>1, <1>2, Facts DEF TypeOK
<1>4. PagesKnow'
  BY <1>1 DEF IInv, PagesKnow, WalletBalance
<1>5. \A i \in DOMAIN runs' : Covered(runs[i])' /\ FeeKnown(runs[i])'
  BY <1>1, <1>2, Facts, RunsKept
<1> QED
  BY <1>1, <1>3, <1>4, <1>5, SamePercentage, SameFees DEF IInv

LEMMA PaidIInv ==
  ASSUME IInv, NEW total \in Nat,
         NEW rest \in Seq(Runs), DOMAIN rest \subseteq DOMAIN runs,
         \A i \in DOMAIN rest : rest[i] = runs[i],
         NEW feesPaid \in {0, BaseFee, BaseFee + RemoteFee},
         feesPaid <= shownFee, Pay(total, feesPaid, rest),
         completed' \subseteq Completions,
         UNCHANGED <<open, encrypted, shown, actualBalance, updatePosted,
                     remote, feeAddress, actualFee, shownFee, amount,
                     userActions>>
  PROVE  IInv'
<1>1. /\ balance' \in Balances /\ dust' \in Balances /\ dust' <= balance'
  <2>1. balance \in 0 .. MaxBalance /\ dust \in 0 .. MaxBalance
    BY Facts DEF Balances
  <2> QED
    BY <2>1, Constants DEF Pay, Balances
<1>2. due' = TRUE /\ paid' = feesPaid /\ percent' = FALSE
  BY DEF Pay, Outdated
<1>3. /\ runs' \in Seq(Runs)
      /\ \A i \in DOMAIN runs' :
           /\ i \in DOMAIN runs /\ runs'[i].disturbed
           /\ runs'[i].remoteFee = runs[i].remoteFee
  <2>1. runs' = Disturbed(rest)
    BY DEF Pay
  <2>2. /\ Disturbed(rest) \in Seq(Runs)
        /\ DOMAIN Disturbed(rest) = DOMAIN rest
        /\ \A i \in DOMAIN rest :
             /\ Disturbed(rest)[i].disturbed = TRUE
             /\ Disturbed(rest)[i].remoteFee = rest[i].remoteFee
    BY DisturbedTyped
  <2> QED
    BY <2>1, <2>2
<1>4. TypeOK'
  BY <1>1, <1>2, <1>3, Facts DEF TypeOK
<1>5. PagesKnow'
  BY <1>1, <1>2 DEF IInv, PagesKnow
<1>6. \A i \in DOMAIN runs' : Covered(runs[i])' /\ FeeKnown(runs[i])'
  BY <1>1, <1>3, RunsKept
<1>7. FeesAreShown'
  BY <1>2 DEF FeesAreShown
<1> QED
  BY <1>2, <1>4, <1>5, <1>6, <1>7, NoPercentage DEF IInv

LEMMA TransferIInv ==
  ASSUME IInv, runs # <<>>, NEW amt \in Nat,
         NEW feesPaid \in {0, BaseFee, BaseFee + RemoteFee},
         feesPaid <= shownFee, NEW completions \in SUBSET Completions,
         Transfer(amt, feesPaid, completions, Others),
         UNCHANGED <<open, encrypted, shown, actualBalance, updatePosted,
                     remote, feeAddress, actualFee, shownFee, amount,
                     userActions>>
  PROVE  IInv'
<1>1. CASE Refuse(Others)
  BY <1>1, RefuseIInv
<1>2. CASE ~Refuse(Others)
  <2> DEFINE total == amt + feesPaid
  <2>1. /\ Pay(total, feesPaid, Others)
        /\ completed' = completed \cup completions
    BY <1>2 DEF Transfer
  <2>2. completed' \subseteq Completions
    BY <2>1, Facts
  <2>3. total \in Nat
    BY Constants
  <2>4. /\ Others \in Seq(Runs) /\ DOMAIN Others \subseteq DOMAIN runs
        /\ \A i \in DOMAIN Others : Others[i] = runs[i]
    BY Facts, OthersTyped
  <2> HIDE DEF total
  <2> QED
    BY <2>1, <2>2, <2>3, <2>4, PaidIInv
<1> QED
  BY <1>1, <1>2

LEMMA DepositCompletedIInv ==
  ASSUME IInv, NEW completion \in {"created", "deposit"},
         DepositCompleted(completion)
  PROVE  IInv'
<1>1. UNCHANGED <<open, encrypted, shown, actualBalance, updatePosted,
                  remote, feeAddress, actualFee, shownFee, amount,
                  userActions>>
  BY DEF DepositCompleted, fees
<1>2. CASE UNCHANGED balance
  <2>1. /\ completed' \subseteq completed
        /\ UNCHANGED <<balance, dust, due, runs, percent, paid>>
    <3>1. balance' # balance - (BaseFee + RemoteFee)
      BY <1>2, Facts, Constants
    <3> QED
      BY <3>1 DEF DepositCompleted, Pay
  <2>2. TypeOK'
    BY <1>1, <2>1, Facts DEF TypeOK
  <2>3. PagesKnow'
    BY <1>1, <2>1 DEF IInv, PagesKnow, WalletBalance
  <2>4. \A i \in DOMAIN runs' : Covered(runs[i])' /\ FeeKnown(runs[i])'
    BY <1>1, <2>1, Facts, SameRuns
  <2> QED
    BY <1>1, <2>1, <2>2, <2>3, <2>4, SamePercentage, SameFees DEF IInv
<1>3. CASE ~UNCHANGED balance
  <2> DEFINE total == BaseFee + RemoteFee
  <2>1. /\ feeAddress /\ Pay(total, total, runs)
        /\ completed' \subseteq completed \cup {"transaction"}
    BY <1>3 DEF DepositCompleted
  <2>2. completed' \subseteq Completions
    BY <2>1, Facts DEF Completions
  <2>3. /\ total \in Nat /\ total <= shownFee
        /\ total \in {0, BaseFee, BaseFee + RemoteFee}
    BY <2>1, FeesKnown, Constants
  <2>4. runs \in Seq(Runs)
    BY Facts
  <2> HIDE DEF total
  <2> QED
    BY <1>1, <2>1, <2>2, <2>3, <2>4, PaidIInv
<1> QED
  BY <1>2, <1>3

LEMMA CancelIInv == ASSUME IInv, Cancel PROVE IInv'
<1>1. /\ runs # <<>> /\ Refuse(Others)
      /\ UNCHANGED <<open, encrypted, shown, actualBalance, updatePosted,
                     remote, feeAddress, actualFee, shownFee, amount,
                     userActions>>
  BY DEF Cancel, Refuse, wallet, news, fees
<1> QED
  BY <1>1, RefuseIInv

LEMMA EndSendFundsIInv == ASSUME IInv, EndSendFunds PROVE IInv'
<1> DEFINE feesPaid == BaseFee + Last.remoteFee
<1>1. /\ runs # <<>>
      /\ IF open
         THEN Transfer(Last.amount, feesPaid, {"transaction"}, Others)
         ELSE Refuse(Others)
      /\ UNCHANGED <<open, encrypted, shown, actualBalance, updatePosted,
                     remote, feeAddress, actualFee, shownFee, amount,
                     userActions>>
  BY DEF EndSendFunds, InDelay, fees
<1>2. Last.amount \in Nat /\ Last.remoteFee \in {0, RemoteFee}
  BY <1>1, Facts, LastTyped, RunTyped
<1>3. /\ feesPaid \in {0, BaseFee, BaseFee + RemoteFee}
      /\ feesPaid <= shownFee
  <2>1. Len(runs) \in DOMAIN runs /\ Last = runs[Len(runs)]
    BY <1>1, Facts, LastTyped
  <2> QED
    BY <1>2, <2>1, FeesKnown, Constants
<1>4. {"transaction"} \in SUBSET Completions
  BY DEF Completions
<1> HIDE DEF feesPaid
<1>5. CASE open
  <2>1. Transfer(Last.amount, feesPaid, {"transaction"}, Others)
    BY <1>1, <1>5
  <2> QED
    BY <1>1, <1>2, <1>3, <1>4, <2>1, TransferIInv
<1>6. CASE ~open
  <2>1. Refuse(Others)
    BY <1>1, <1>6
  <2> QED
    BY <1>1, <2>1, RefuseIInv
<1> QED
  BY <1>5, <1>6

LEMMA EndSendMessageIInv == ASSUME IInv, EndSendMessage PROVE IInv'
<1> DEFINE goes == open /\ MessageCost <= balance
<1>1. /\ runs # <<>>
      /\ UNCHANGED <<open, encrypted, shown, actualBalance, updatePosted,
                     remote, feeAddress, actualFee, shownFee, amount,
                     userActions>>
  BY DEF EndSendMessage, InDelay, fees
<1>2. CASE goes
  <2>1. PICK messageFees \in {0, BaseFee + RemoteTransfer} :
          Transfer(MessageCost, messageFees, {"transaction"}, Others)
    BY <1>2 DEF EndSendMessage
  <2>2. /\ messageFees \in {0, BaseFee, BaseFee + RemoteFee}
        /\ messageFees <= shownFee
    <3>1. BaseFee + RemoteTransfer \in {BaseFee, BaseFee + RemoteFee}
      BY Constants DEF RemoteTransfer
    <3> QED
      BY <2>1, <3>1, FeesKnown
  <2>3. {"transaction"} \in SUBSET Completions /\ MessageCost \in Nat
    BY Constants DEF Completions
  <2> QED
    BY <1>1, <2>1, <2>2, <2>3, TransferIInv
<1>3. CASE ~goes
  <2>1. Refuse(Others)
    BY <1>3 DEF EndSendMessage
  <2> QED
    BY <1>1, <2>1, RefuseIInv
<1> QED
  BY <1>2, <1>3

LEMMA ConfirmDepositIInv == ASSUME IInv, ConfirmDeposit PROVE IInv'
<1>1. /\ runs # <<>>
      /\ IF open
         THEN Transfer(Last.amount, BaseFee,
                       {"transaction", "created", "deposit"}, Others)
         ELSE Refuse(Others)
      /\ UNCHANGED <<open, encrypted, shown, actualBalance, updatePosted,
                     remote, feeAddress, actualFee, shownFee, amount,
                     userActions>>
  BY DEF ConfirmDeposit, fees
<1>2. /\ Last.amount \in Nat /\ BaseFee <= shownFee
      /\ BaseFee \in {0, BaseFee, BaseFee + RemoteFee}
      /\ {"transaction", "created", "deposit"} \in SUBSET Completions
  BY <1>1, Facts, FeesKnown, LastTyped, RunTyped DEF Completions
<1>3. CASE open
  <2>1. Transfer(Last.amount, BaseFee,
                 {"transaction", "created", "deposit"}, Others)
    BY <1>1, <1>3
  <2> QED
    BY <1>1, <1>2, <2>1, TransferIInv
<1>4. CASE ~open
  <2>1. Refuse(Others)
    BY <1>1, <1>4
  <2> QED
    BY <1>1, <2>1, RefuseIInv
<1> QED
  BY <1>3, <1>4
-----------------------------------------------------------------------------
LEMMA InitIInv == Init => IInv
<1> SUFFICES ASSUME Init PROVE IInv
  OBVIOUS
<1>1. TypeOK
  <2>1. 0 \in Balances /\ 0 \in Money
    BY Constants DEF Balances, Money
  <2>2. runs \in Seq(Runs) /\ userActions \in 0 .. MaxUserActions
    BY MoneyAssumption DEF Init
  <2> QED
    BY <2>1, <2>2 DEF Init, TypeOK
<1>2. PagesKnow
  BY DEF Init, PagesKnow, WalletBalance
<1>3. \A i \in DOMAIN runs : Covered(runs[i]) /\ FeeKnown(runs[i])
  BY DEF Init
<1>4. PercentageFits /\ FeesAreShown
  BY Constants DEF Init, PercentageFits, FeesAreShown
<1> QED
  BY <1>1, <1>2, <1>3, <1>4 DEF IInv

LEMMA StepIInv == IInv /\ [Next]_vars => IInv'
<1> SUFFICES ASSUME IInv, [Next]_vars PROVE IInv'
  OBVIOUS
<1>1. CASE \E b, d \in Balances : BalanceChanges(b, d)
  BY <1>1, BalanceChangesIInv
<1>2. CASE Event
  <2>1. CASE \E completion \in {"created", "deposit"} :
               DepositCompleted(completion)
    BY <2>1, DepositCompletedIInv
  <2> QED
    BY <1>2, <2>1, UpdatePortfolioIInv, FeeAddressFoundIInv,
       TransactionCompletedIInv DEF Event
<1>3. CASE User
  <2>1. CASE \E b, d \in Balances : Open(b, d)
    BY <2>1, OpenIInv
  <2>2. CASE \E a \in 0 .. MaxTyped : TypeAmount(a)
    BY <2>2, TypeAmountIInv
  <2>3. CASE \E part \in {2, 4} : SetPercentage(part)
    BY <2>3, SetPercentageIInv
  <2>4. CASE \E amt \in Balances : NewDeposit(amt)
    BY <2>4, NewDepositIInv
  <2> QED
    BY <1>3, <2>1, <2>2, <2>3, <2>4, CloseIInv, SaveConnectionIInv,
       SetPercentage100IInv, SendFundsIInv, SendMessageIInv DEF User
<1>4. CASE Answer
  BY <1>4, EnterPasswordIInv, CancelIInv, ConfirmDepositIInv DEF Answer
<1>5. CASE EndDelay
  BY <1>5, EndSendFundsIInv, EndSendMessageIInv DEF EndDelay
<1>6. CASE UNCHANGED vars
  <2>1. UNCHANGED <<open, encrypted, balance, dust, shown, actualBalance,
                    due, updatePosted, remote, feeAddress, actualFee,
                    shownFee, amount, runs, completed, percent, paid,
                    userActions>>
    BY <1>6 DEF vars, wallet, news, fees
  <2>2. TypeOK'
    BY <2>1 DEF IInv, TypeOK
  <2>3. PagesKnow'
    BY <2>1 DEF IInv, PagesKnow, WalletBalance
  <2>4. \A i \in DOMAIN runs' : Covered(runs[i])' /\ FeeKnown(runs[i])'
    BY <2>1, Facts, SameRuns
  <2> QED
    BY <2>1, <2>2, <2>3, <2>4, SamePercentage, SameFees DEF IInv
<1> QED
  BY <1>1, <1>2, <1>3, <1>4, <1>5, <1>6, BalanceUpdatedIInv DEF Next

LEMMA Invariant == Spec => []IInv
BY InitIInv, StepIInv, PTL DEF Spec

(***************************************************************************)
(* TypeOK: every amount that the pages of OverviewFrame compute fits a     *)
(* quint64, and every sum they compare is one.                             *)
(***************************************************************************)
THEOREM TypeCorrect == Spec => []TypeOK
<1>1. IInv => TypeOK
  BY DEF IInv
<1> QED
  BY <1>1, Invariant, PTL

(***************************************************************************)
(* RunsAreCovered: a click of sendFundsClicked() or newDepositClicked()    *)
(* that compared while the page knew the balance, that has not wrapped     *)
(* around, and below which neither money nor the wallet went, has the      *)
(* money for what it will pay.                                             *)
(***************************************************************************)
THEOREM ClicksAreCovered == Spec => []RunsAreCovered
<1>1. IInv => RunsAreCovered
  BY DEF IInv, RunsAreCovered, Covered
<1> QED
  BY <1>1, Invariant, PTL

(***************************************************************************)
(* FeesAreShown: no transaction of OverviewFrame, the one that             *)
(* createDepositCompleted() makes included, pays more in fees than the     *)
(* pages show.                                                             *)
(***************************************************************************)
THEOREM NoHiddenFees == Spec => []FeesAreShown
<1>1. IInv => FeesAreShown
  BY DEF IInv
<1> QED
  BY <1>1, Invariant, PTL

(***************************************************************************)
(* PercentageCanBeSent: the buttons 25, 50 and 100 percent leave the fee   *)
(* that sendFundsClicked() adds, and the page does not refuse the amount   *)
(* once it knows the balance.                                              *)
(***************************************************************************)
THEOREM PercentagesFit == Spec => []PercentageCanBeSent
<1>1. IInv => PercentageCanBeSent
  BY DEF IInv, PercentageFits, PagesKnow, PercentageCanBeSent, HasFunds
<1> QED
  BY <1>1, Invariant, PTL
=============================================================================
