--------------------------- MODULE RecipientCheck ---------------------------
(***************************************************************************)
(* Whom OverviewFrame pays, and with which payment id.  An exchange tells  *)
(* its customers apart by payment ids, and all of them by one address: a   *)
(* payment to it without an id is lost to its sender.  Each change of the  *)
(* field of the address asks ExchangeProvider whether the address is that  *)
(* of an exchange; only a match is signalled, and the signal does not say  *)
(* which question it answers.                                              *)
(*                                                                         *)
(* All of it is the GUI thread; the answers come from the network, late,   *)
(* in any order or never.  sendFundsClicked() is one step: what it pays is *)
(* copied from the fields before its first nested event loop (SendFlow is  *)
(* what may happen in those).                                              *)
(***************************************************************************)
EXTENDS Naturals, FiniteSets

CONSTANTS
  Plain,           (* addresses of nobody in particular; like the next     *)
                   (* three, a set disjoint from the others                *)
  Listed,          (* addresses of exchanges; each stands for its name too *)
  Integrated,      (* addresses with a payment id in them                  *)
  Aliases,         (* Conceal IDs                                          *)
  Empty,           (* an empty field                                       *)
  TypedId,         (* a payment id that the user enters                    *)
  MaxUserActions   (* bound: things the user does                          *)

VARIABLES
  address,         (* m_addressEdit                                        *)
  paymentId,       (* m_paymentIdEdit                                      *)
  exchangeName,    (* exchangeName                                         *)
  questions,       (* the requests of ExchangeProvider under way           *)
  known,           (* history: the address is an exchange's and the answer *)
                   (* has come since it was entered                        *)
  crossed,         (* history: an answer about another address came since  *)
  payments,        (* history: what was paid                               *)
  userActions      (* history: things the user did so far                  *)

fields  == <<address, paymentId>>
history == <<known, crossed, payments>>
vars    == <<fields, exchangeName, questions, history, userActions>>
-----------------------------------------------------------------------------
(* What a payment may be sent to, and what may be in the fields.  The id   *)
(* in an integrated address is named by the address.                       *)
Payable   == Plain \cup Listed \cup Integrated
Addresses == Payable \cup Aliases \cup {Empty}
Ids       == Integrated \cup {TypedId, Empty}

Payments == [to : Payable, id : Ids, known : BOOLEAN]

TypeOK ==
  /\ address \in Addresses
  /\ paymentId \in Ids
  /\ exchangeName \in Listed \cup {Empty}
  /\ questions \in [Addresses -> 0 .. 2 * userActions]
  /\ {known, crossed} \subseteq BOOLEAN
  /\ payments \subseteq Payments /\ Cardinality(payments) <= userActions
  /\ userActions \in 0 .. MaxUserActions

Init ==
  /\ address = Empty
  /\ paymentId = Empty
  /\ exchangeName = Empty
  /\ questions = [a \in Addresses |-> 0]
  /\ known = FALSE
  /\ crossed = FALSE
  /\ payments = {}
  /\ userActions = 0
-----------------------------------------------------------------------------
(* addressChanged() *)
AddressChanged(new) ==
  /\ address' = new
  /\ exchangeName' = Empty
  /\ questions' = [questions EXCEPT ![new] = @ + 1]
  /\ known' = FALSE
  /\ crossed' = FALSE

(* setText() of the field, which signals a change only if there is one. *)
SetAddress(new) ==
  IF new = address
  THEN UNCHANGED <<address, exchangeName, questions, known, crossed>>
  ELSE AddressChanged(new)

Asked(a) ==
  /\ questions[a] > 0
  /\ questions' = [questions EXCEPT ![a] = @ - 1]

(* readyRead() and onExchangeFound() *)
ExchangeFound(a) ==
  /\ a \in Listed
  /\ Asked(a)
  /\ exchangeName' = a
  /\ known' = (known \/ a = address)
  /\ crossed' = (a # address)
  /\ UNCHANGED <<fields, payments, userActions>>

(* Mutant: an answer without a match is passed on as an empty name. *)
NothingFoundSignalled(a) ==
  /\ Asked(a)
  /\ exchangeName' = Empty
  /\ UNCHANGED <<fields, history, userActions>>

(* The request fails, or its answer is no match or no document. *)
NothingFound(a) ==
  /\ Asked(a)
  /\ UNCHANGED <<fields, exchangeName, history, userActions>>
-----------------------------------------------------------------------------
UserAction ==
  /\ userActions < MaxUserActions
  /\ userActions' = userActions + 1

EnterAddress(new) ==
  /\ UserAction
  /\ new # address
  /\ AddressChanged(new)
  /\ UNCHANGED <<paymentId, payments>>

EnterId(id) ==
  /\ UserAction
  /\ paymentId' = id
  /\ UNCHANGED <<address, exchangeName, questions, history>>

(* MainWindow::payTo() of a contact.  setAddress() writes the address to   *)
(* the page that the contacts were opened from, which may be that for      *)
(* messages; the payment id goes to this page in any case.                 *)
PayTo(contact, id) ==
  /\ UserAction
  /\ paymentId' = id
  /\ \E to \in {contact, address} : SetAddress(to)
  /\ UNCHANGED payments

(* clearAllClicked() *)
ClearAll ==
  /\ UserAction
  /\ paymentId' = Empty
  /\ SetAddress(Empty)
  /\ UNCHANGED payments

(* The id in an integrated address goes to the field. *)
IdFor(to) == IF to \in Integrated THEN to ELSE paymentId

(* The second half of sendFundsClicked(), with the address that is paid.   *)
(* It is ended by an address or an id that is not valid, an exchange named *)
(* for a payment without an id, too little money or a wrong password.      *)
Pay(to) ==
  \/ UNCHANGED payments
  \/ /\ to \in Payable
     /\ paymentId' = Empty => exchangeName' = Empty
     /\ payments' = payments \cup
          {[to |-> to, id |-> paymentId', known |-> known']}

SendFunds ==
  /\ UserAction
  /\ address \notin Aliases
  /\ paymentId' = IdFor(address)
  /\ UNCHANGED <<address, exchangeName, questions, known, crossed>>
  /\ Pay(address)

(* A Conceal ID becomes the address that it names (or stays, if there is   *)
(* none) and the handler goes on.                                          *)
SendFundsToAlias(target) ==
  /\ UserAction
  /\ address \in Aliases
  /\ UNCHANGED paymentId
  /\ SetAddress(target)
  /\ Pay(target)
-----------------------------------------------------------------------------
Network ==
  \E a \in Addresses : ExchangeFound(a) \/ NothingFound(a)

User ==
  \/ \E a \in Addresses : EnterAddress(a)
  \/ \E id \in {TypedId, Empty} : EnterId(id)
  \/ \E a \in Payable, id \in {TypedId, Empty} : PayTo(a, id)
  \/ ClearAll
  \/ SendFunds
  \/ \E target \in Plain \cup Listed \cup {address} : SendFundsToAlias(target)

Next == Network \/ User

Spec == Init /\ [][Next]_vars
-----------------------------------------------------------------------------
(***************************************************************************)
(* A payment to an exchange without a payment id is stopped once the       *)
(* answer about its address has come, whatever other answers come before   *)
(* or after it.                                                            *)
(***************************************************************************)
KnownExchangesGetIds ==
  \A payment \in payments :
    payment.to \in Listed /\ payment.known => payment.id # Empty

(***************************************************************************)
(* An exchange that is named is the one of the address in the field,       *)
(* unless an answer about an address before it was the last to come: then  *)
(* a payment to anybody may be refused.                                    *)
(***************************************************************************)
NamesTheRecipient ==
  exchangeName # Empty /\ ~crossed => exchangeName = address

(***************************************************************************)
(* A payment to an integrated address carries the id in it, whatever id    *)
(* was in the field.                                                       *)
(***************************************************************************)
IntegratedKeepsItsId ==
  \A payment \in payments :
    payment.to \in Integrated => payment.id = payment.to
=============================================================================
