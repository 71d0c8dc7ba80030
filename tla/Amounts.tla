------------------------------- MODULE Amounts -------------------------------
(***************************************************************************)
(* CurrencyAdapter: amounts as numbers and as text.  An amount is a number *)
(* of the smallest unit; its text has a point, groups of three digits and  *)
(* no needless zeros.  The field of an amount holds the text of an amount  *)
(* (a click on a percentage) that the user may go on editing, and what is  *)
(* paid is what the text parses to.                                        *)
(*                                                                         *)
(* The code has base 10, 6 decimals and numbers of 64 bits.                *)
(***************************************************************************)
EXTENDS Naturals, Sequences, SequencesExt

CONSTANTS
  Base,            (* of the digits                                        *)
  Decimals,        (* getNumberOfDecimalPlaces()                           *)
  MaxAmount,       (* the largest number of a quint64                      *)
  MaxLength        (* bound: characters that a text is typed up to         *)

VARIABLES
  text,            (* m_amountEdit                                         *)
  source           (* history: the amount that the text was made from      *)

vars == <<text, source>>
-----------------------------------------------------------------------------
(* A digit is its value.  Other is a character that no amount has. *)
Digits     == 0 .. Base - 1
Point      == Base
Comma      == Base + 1
Other      == Base + 2
Characters == 0 .. Other

Amounts  == 0 .. MaxAmount
NoAmount == MaxAmount + 1

TypeOK ==
  /\ text \in Seq(Characters)
  /\ source \in Amounts \cup {NoAmount}

Init ==
  /\ text = <<>>
  /\ source = NoAmount
-----------------------------------------------------------------------------
Zeros(n) == [i \in 1 .. n |-> 0]

Less(a, b) == IF a > b THEN a - b ELSE 0

(* QString::number() *)
Number[n \in Nat] ==
  IF n < Base THEN <<n>> ELSE Append(Number[n \div Base], n % Base)

Padded(digits) == Zeros(Less(Decimals + 1, Len(digits))) \o digits

(* The zeros at the end go, but two decimals stay. *)
Trimmed(digits) ==
  LET least == Len(digits) - Decimals + 2
      keep  == {n \in least .. Len(digits) :
                  \A i \in n + 1 .. Len(digits) : digits[i] = 0}
  IN SubSeq(digits, 1, CHOOSE n \in keep : \A m \in keep : n <= m)

(* A comma before each group of three digits but the first. *)
Grouped(digits) ==
  FlattenSeq([i \in DOMAIN digits |->
    IF i > 1 /\ (Len(digits) - i + 1) % 3 = 0
    THEN <<Comma, digits[i]>> ELSE <<digits[i]>>])

(* formatAmount() *)
FormatAmount(amount) ==
  LET digits == Padded(Number[amount])
      dot    == Len(digits) - Decimals
  IN Grouped(SubSeq(digits, 1, dot)) \o <<Point>>
       \o SubSeq(Trimmed(digits), dot + 1, Len(Trimmed(digits)))
-----------------------------------------------------------------------------
WithoutCommas(s) ==
  FoldLeft(LAMBDA kept, c : IF c = Comma THEN kept ELSE Append(kept, c),
           <<>>, s)

FirstPoint(s) ==
  CHOOSE i \in DOMAIN s : s[i] = Point /\ \A j \in 1 .. i - 1 : s[j] # Point

(* Zeros beyond the last decimal go. *)
Shortened[s \in Seq(Characters)] ==
  IF Len(s) > FirstPoint(s) + Decimals /\ Last(s) = 0
  THEN Shortened[Front(s)] ELSE s

ValueOf(digits) == FoldLeft(LAMBDA value, d : value * Base + d, 0, digits)

(* toULongLong(): what is not a number, or too large a one, is 0. *)
ToNumber(s) ==
  IF s # <<>> /\ (\A i \in DOMAIN s : s[i] \in Digits)
     /\ ValueOf(s) <= MaxAmount
  THEN ValueOf(s) ELSE 0

(* Mutant: decimals that do not fit are cut off. *)
ParseFractionCut(s) ==
  LET point == FirstPoint(s)
      fraction == SubSeq(s, point + 1, Len(s))
      n == IF Len(fraction) < Decimals THEN Len(fraction) ELSE Decimals
  IN ToNumber(SubSeq(s, 1, point - 1) \o SubSeq(fraction, 1, n)
                \o Zeros(Decimals - n))

(* The rest of parseAmount() for a text with a point. *)
ParseFraction(s) ==
  LET short == Shortened[s]
      point == FirstPoint(s)
      fractionSize == Len(short) - point
      digits == RemoveAt(short, point)
  IN IF Decimals < fractionSize \/ digits = <<>> THEN 0
     ELSE ToNumber(digits \o Zeros(Decimals - fractionSize))

(* parseAmount() *)
ParseAmount(s) ==
  LET plain == WithoutCommas(s)
  IN IF Contains(plain, Point) THEN ParseFraction(plain)
     ELSE IF plain = <<>> THEN 0 ELSE ToNumber(plain \o Zeros(Decimals))
-----------------------------------------------------------------------------
(* setPercentage25() and the others; what was in the field does not matter.*)
SetAmount(amount) ==
  /\ text = <<>>
  /\ text' = FormatAmount(amount)
  /\ source' = amount

Type(c) ==
  /\ Len(text) < MaxLength
  /\ text' = Append(text, c)
  /\ source' = NoAmount

Erase ==
  /\ text # <<>>
  /\ text' = Front(text)
  /\ source' = NoAmount

Next ==
  \/ \E amount \in Amounts : SetAmount(amount)
  \/ \E c \in Characters : Type(c)
  \/ Erase

Spec == Init /\ [][Next]_vars
-----------------------------------------------------------------------------
(***************************************************************************)
(* An amount that is put into the field is the amount that is paid, at     *)
(* every number of digits.                                                 *)
(***************************************************************************)
RoundTrip == source # NoAmount => ParseAmount(text) = source

(***************************************************************************)
(* The text of an amount is the one that people write: groups of three     *)
(* from the point, nothing but a single zero before it if it is less than  *)
(* one, and two decimals or as many as it needs.                           *)
(***************************************************************************)
WellFormatted ==
  source # NoAmount =>
    LET point  == FirstPoint(text)
        after  == Len(text) - point
    IN /\ \A i \in 1 .. point - 1 :
            (text[i] = Comma) = (i > 1 /\ (point - i) % 4 = 0)
       /\ text[1] # 0 \/ point = 2
       /\ after \in 2 .. Decimals
       /\ after > 2 => Last(text) # 0

(* What a digit n places from the last decimal is multiplied by. *)
Power[n \in Nat] == IF n = 0 THEN 1 ELSE Power[n - 1] * Base

(***************************************************************************)
(* What any text is worth, written without the steps of the parser: the    *)
(* digits weighed by their distance from the point.  A text with another   *)
(* character or a second point, with more decimals than there are, or of   *)
(* more than a quint64 is worth nothing, rather than something else.       *)
(***************************************************************************)
Worth(s) ==
  LET plain  == WithoutCommas(s)
      points == {i \in DOMAIN plain : plain[i] = Point}
      point  == IF points = {} THEN Len(plain) + 1
                ELSE CHOOSE i \in points : \A j \in points : i <= j
      place(i) == IF i < point THEN point - i - 1 + Decimals
                  ELSE Less(Decimals + point, i)
      value  == FoldLeft(LAMBDA sum, i :
                           IF i = point THEN sum
                           ELSE sum + plain[i] * Power[place(i)],
                         0, [i \in DOMAIN plain |-> i])
  IN IF \/ \E i \in DOMAIN plain : plain[i] \notin Digits /\ i # point
        \/ \E i \in DOMAIN plain : i > point + Decimals /\ plain[i] # 0
        \/ value > MaxAmount
     THEN 0 ELSE value

ParsesAsWritten == ParseAmount(text) = Worth(text)
=============================================================================
