--------------------------------- MODULE Pages ---------------------------------
(***************************************************************************)
(* The pages that the user fills in: the address book, and the fields of a *)
(* payment for its recipient, its amount and its message.  They share      *)
(* nothing: no decision about one depends on what is in another, so that   *)
(* each behaviour is about one of them and the others are left empty.      *)
(***************************************************************************)
EXTENDS AddressBook, FiniteSets

CONSTANTS
  Plain, Listed, Integrated, Aliases, Empty, TypedId, MaxFieldActions,
  Base, Decimals, MaxAmount, MaxLength,
  Words, MaxLines

ASSUME FieldsAssumption ==
  /\ LET kinds == <<Plain, Listed, Integrated, Aliases>>
     IN \A i, j \in DOMAIN kinds : i # j => kinds[i] \cap kinds[j] = {}
  /\ Empty \notin Plain \cup Listed \cup Integrated \cup Aliases
  /\ TypedId \notin Integrated \cup {Empty}
  /\ {Base, Decimals} \subseteq Nat \ {0, 1}
  /\ {MaxFieldActions, MaxAmount, MaxLength, MaxLines} \subseteq Nat

VARIABLES
  page,            (* the page that is filled in                           *)
  address, paymentId, exchangeName, questions, known, crossed, payments,
  fieldActions,
  amount, source,
  message, sent

Recipient == INSTANCE RecipientCheck
  WITH MaxUserActions <- MaxFieldActions, userActions <- fieldActions
Amount  == INSTANCE Amounts WITH text <- amount
Message == INSTANCE MessageText WITH text <- message

recipient    == <<address, paymentId, exchangeName, questions, known, crossed,
                  payments, fieldActions>>
amountText   == <<amount, source>>
messageText  == <<message, sent>>
pages        == <<page, vars, recipient, amountText, messageText>>
-----------------------------------------------------------------------------
PagesInit ==
  /\ page \in {"contacts", "recipient", "amount", "message"}
  /\ Init
  /\ page # "contacts" => files = [w \in Wallets |-> NoFile]
  /\ page # "contacts" => named = CHOOSE w \in Wallets : TRUE
  /\ Recipient!Init
  /\ Amount!Init
  /\ Message!Init

FillContacts ==
  /\ page = "contacts"
  /\ Next
  /\ UNCHANGED <<page, recipient, amountText, messageText>>

FillRecipient ==
  /\ page = "recipient"
  /\ Recipient!Next
  /\ UNCHANGED <<page, vars, amountText, messageText>>

FillAmount ==
  /\ page = "amount"
  /\ Amount!Next
  /\ UNCHANGED <<page, vars, recipient, messageText>>

FillMessage ==
  /\ page = "message"
  /\ Message!Next
  /\ UNCHANGED <<page, vars, recipient, amountText>>

PagesNext == FillContacts \/ FillRecipient \/ FillAmount \/ FillMessage

PagesSpec == PagesInit /\ [][PagesNext]_pages
-----------------------------------------------------------------------------
PagesTypeOK ==
  /\ TypeOK
  /\ Recipient!TypeOK
  /\ Amount!TypeOK
  /\ Message!TypeOK

(***************************************************************************)
(* A payment to an exchange without a payment id is stopped once the       *)
(* answer about its address has come, whatever other answers come before   *)
(* or after it; the exchange that is named is the recipient's, unless the  *)
(* answer about an address before it came last; and a payment to an        *)
(* integrated address carries the id in it (RecipientCheck).               *)
(***************************************************************************)
ReachesItsRecipient ==
  /\ Recipient!KnownExchangesGetIds
  /\ Recipient!NamesTheRecipient
  /\ Recipient!IntegratedKeepsItsId

(***************************************************************************)
(* An amount that is put into its field as text is the amount that is      *)
(* paid, the text is the one that people write, and any text is worth what *)
(* is written in it, or nothing (Amounts).                                 *)
(***************************************************************************)
AmountSurvives ==
  /\ Amount!RoundTrip
  /\ Amount!WellFormatted
  /\ Amount!ParsesAsWritten

(***************************************************************************)
(* A header and the text after it come apart as they were put together,    *)
(* the list of messages hides nothing but headers, and the details repeat  *)
(* the text (MessageText).                                                 *)
(***************************************************************************)
MessageSurvives ==
  /\ Message!HeaderSurvives
  /\ Message!HidesOnlyHeaders
  /\ Message!FullIsFaithful
================================================================================
