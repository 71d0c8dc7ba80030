----------------------------- MODULE AddressBook -----------------------------
(***************************************************************************)
(* The address book: AddressBookModel with the pages of OverviewFrame that *)
(* change it.  Each wallet has a file of contacts beside its own.  The     *)
(* model reads that file when a wallet reports that it is loaded, is       *)
(* cleared by an event that close() posts, and writes the whole file with  *)
(* every change.                                                           *)
(*                                                                         *)
(* All of it is the GUI thread.  A payment adds its recipient after the    *)
(* delay in sendFundsClicked(), which handles events: wallets are closed   *)
(* and opened meanwhile.  WalletSession is how wallets open in detail;     *)
(* here an open has one of three outcomes.                                 *)
(***************************************************************************)
EXTENDS Naturals, Sequences

CONSTANTS
  Wallets,         (* wallet files                                         *)
  NoFile,          (* a file that is not there or holds no document        *)
  NoContact,
  MaxContacts,     (* bound: contacts that the user adds                   *)
  MaxUserActions   (* bound: things the user asks for                      *)

ASSUME BookAssumption ==
  /\ NoFile \notin Seq([id : Nat, of : Wallets])
  /\ NoContact \notin [id : Nat, of : Wallets]
  /\ {MaxContacts, MaxUserActions} \subseteq Nat

VARIABLES
  open,            (* m_wallet != nullptr                                  *)
  named,           (* the wallet that Settings names: the open one, or the *)
                   (* one that was last to be opened                       *)
  files,           (* the files of contacts                                *)
  queue,           (* events posted to the GUI thread                      *)
  book,            (* m_addressBook                                        *)
  loaded,          (* history: the book is that of the open wallet         *)
  shown,           (* the pages of the wallet are shown                    *)
  current,         (* the view's current row, from 1; 0 for none           *)
  selected,        (* history: the contact that row had when it was chosen *)
  buttons,         (* the buttons to edit and to delete are enabled        *)
  dialog,          (* ContactDialog: "none", "new" or "edit"               *)
  again,           (* history: the contacts were loaded again since a      *)
                   (* contact was selected                                 *)
  sending,         (* sendFundsClicked() calls that wait in delay()        *)
  added,           (* contacts added so far                                *)
  early,           (* history: a contact was saved into a book that was    *)
                   (* not yet loaded                                       *)
  userActions      (* history: things the user asked for so far            *)

model == <<book, loaded, early>>
view  == <<shown, current, selected, again, buttons>>
vars  == <<open, named, files, queue, model, view, dialog, sending, added,
           userActions>>
-----------------------------------------------------------------------------
(* A contact with the wallet that it was added for. *)
Contact(id, of) == [id |-> id, of |-> of]
Contacts  == [id : 0 .. MaxContacts, of : Wallets]

Books  == Seq(Contacts)
Events == {"initCompleted", "initFailed", "closed"}

Entries(contacts) == {contacts[i] : i \in DOMAIN contacts}

TypeOK ==
  /\ named \in Wallets
  /\ files \in [Wallets -> Books \cup {NoFile}]
  /\ queue \in Seq(Events) /\ Len(queue) <= 2 * userActions
  /\ book \in Books
  /\ {open, loaded, shown, buttons, again, early} \subseteq BOOLEAN
  /\ current \in Nat
  /\ selected \in Contacts \cup {NoContact}
  /\ dialog \in {"none", "new", "edit"}
  /\ sending \in 0 .. userActions
  /\ added \in 0 .. MaxContacts
  /\ userActions \in 0 .. MaxUserActions

Init ==
  /\ open = FALSE
  /\ named \in Wallets
  /\ \E old \in SUBSET Wallets :
       files = [w \in Wallets |->
                  IF w \in old THEN <<Contact(0, w)>> ELSE NoFile]
  /\ queue = <<>>
  /\ book = <<>>
  /\ loaded = FALSE
  /\ shown = FALSE
  /\ current = 0
  /\ selected = NoContact
  /\ again = FALSE
  /\ buttons = FALSE
  /\ dialog = "none"
  /\ sending = 0
  /\ added = 0
  /\ early = FALSE
  /\ userActions = 0
-----------------------------------------------------------------------------
(***************************************************************************)
(* AddressBookModel                                                        *)
(***************************************************************************)
(* saveAddressBook() *)
Save ==
  /\ files' = [files EXCEPT ![named] = book']
  /\ early' = (early \/ ~loaded)

(* A view keeps its current row on the contact when a row is inserted. *)
Moved(row, from, n) == IF row >= from THEN row + n ELSE row

(* addAddress() *)
Add ==
  /\ added < MaxContacts
  /\ added' = added + 1
  /\ book' = Append(book, Contact(added + 1, named))
  /\ current' = Moved(current, Len(book) + 1, 1)
  /\ Save

(* The row that a view makes current before it loses row. *)
Successor(row, contacts) ==
  IF row < Len(contacts) THEN row ELSE row - 1

Without(contacts, row) ==
  SubSeq(contacts, 1, row - 1) \o SubSeq(contacts, row + 1, Len(contacts))

(* removeAddress(row) of the view's current row, with                      *)
(* currentAddressChanged() after it.  There may be no such row.            *)
RemoveRow(row, contacts) ==
  IF row \in DOMAIN contacts
  THEN LET next == Successor(row, contacts)
       IN /\ book' = Without(contacts, row)
          /\ current' = next
          /\ selected' = IF next = 0 THEN NoContact ELSE book'[next]
          /\ buttons' = (next # 0)
  ELSE /\ book' = contacts
       /\ current' = row
       /\ buttons' = (row # 0)
       /\ UNCHANGED selected
-----------------------------------------------------------------------------
(***************************************************************************)
(* The events                                                              *)
(***************************************************************************)
Deliver(type) ==
  /\ queue # <<>>
  /\ Head(queue) = type
  /\ queue' = Tail(queue)

(* Mutant: a file without a document is not told from one with. *)
LoadAnything == book' = files[named]

(* Mutant: the contacts are added to those that are there. *)
LoadOnto == book' = IF files[named] = NoFile THEN book ELSE book \o files[named]

LoadBook == book' = IF files[named] = NoFile THEN book ELSE files[named]

(* walletInitCompleted(), with MainWindow::walletOpened().  The rows are   *)
(* inserted, as far as views know, even if they had been before.           *)
OnInitCompleted ==
  /\ Deliver("initCompleted")
  /\ LoadBook
  /\ current' = IF current = 0 THEN 0 ELSE current + Len(book')
  /\ loaded' = (open /\ \A i \in DOMAIN queue : queue[i] # "closed")
  /\ again' = (current # 0)
  /\ shown' = TRUE
  /\ UNCHANGED <<open, named, files, early, selected, buttons, dialog, sending,
                 added, userActions>>

(* WalletAdapter::onWalletInitCompleted() *)
OnInitFailed ==
  /\ Deliver("initFailed")
  /\ open' = FALSE
  /\ loaded' = FALSE
  /\ shown' = FALSE
  /\ UNCHANGED <<named, files, book, early, current, selected, again, buttons,
                 dialog, sending, added, userActions>>

(* Mutant: the list is emptied row by row, as if the user did it. *)
OnClosedSaving ==
  /\ Deliver("closed")
  /\ book' = <<>>
  /\ current' = 0
  /\ selected' = NoContact
  /\ again' = FALSE
  /\ files' = [files EXCEPT ![named] = <<>>]
  /\ UNCHANGED <<open, named, loaded, early, shown, buttons, dialog, sending,
                 added, userActions>>

(* Mutant: the views are not told. *)
OnClosedUnseen ==
  /\ Deliver("closed")
  /\ book' = <<>>
  /\ UNCHANGED <<open, named, files, loaded, early, view, dialog, sending,
                 added, userActions>>

(* reset().  Views forget their current row without saying so, and the     *)
(* buttons stay as they are.                                               *)
OnClosed ==
  /\ Deliver("closed")
  /\ book' = <<>>
  /\ current' = 0
  /\ selected' = NoContact
  /\ again' = FALSE
  /\ UNCHANGED <<open, named, files, loaded, early, shown, buttons, dialog,
                 sending, added, userActions>>
-----------------------------------------------------------------------------
(***************************************************************************)
(* What the user asks for, also while sendFundsClicked() waits, but not    *)
(* while ContactDialog is open.  The report of a failure is delivered       *)
(* before the user can react, as in WalletSession.                         *)
(***************************************************************************)
UserAction ==
  /\ dialog = "none"
  /\ \A i \in DOMAIN queue : queue[i] # "initFailed"
  /\ userActions < MaxUserActions
  /\ userActions' = userActions + 1

(* Mutant: a wallet is replaced without close(). *)
ClosingSilently == <<>>

(* What close() posts. *)
Closing == IF open THEN <<"closed">> ELSE <<>>

(* MainWindow::openWallet(): close() and open(), which may refuse the file *)
(* or report later.                                                        *)
Open(file, outcome) ==
  /\ UserAction
  /\ named' = file
  /\ open' = (outcome # "refused")
  /\ queue' = queue \o Closing \o
                (IF outcome = "refused" THEN <<>> ELSE <<outcome>>)
  /\ loaded' = FALSE
  /\ shown' = FALSE
  /\ UNCHANGED <<files, book, early, current, selected, again, buttons, dialog,
                 sending, added>>

Close ==
  /\ UserAction
  /\ shown /\ open
  /\ open' = FALSE
  /\ queue' = queue \o Closing
  /\ loaded' = FALSE
  /\ shown' = FALSE
  /\ UNCHANGED <<named, files, book, early, current, selected, again, buttons,
                 dialog, sending, added>>

(* The wallet loads again and reports it again. *)
Rescan ==
  /\ UserAction
  /\ shown /\ open
  /\ queue' = Append(queue, "initCompleted")
  /\ UNCHANGED <<open, named, files, model, view, dialog, sending, added>>

(* currentAddressChanged() *)
Select(row) ==
  /\ UserAction
  /\ shown
  /\ current' = row
  /\ selected' = book[row]
  /\ again' = FALSE
  /\ buttons' = TRUE
  /\ UNCHANGED <<open, named, files, queue, model, shown, dialog, sending,
                 added>>

(* deleteABClicked().  -1 is beyond every row but those of an empty model, *)
(* which loses nothing but is saved.                                       *)
Delete ==
  /\ UserAction
  /\ shown /\ buttons
  /\ RemoveRow(current, book)
  /\ IF current \in DOMAIN book \/ (current = 0 /\ book = <<>>)
     THEN Save ELSE UNCHANGED <<files, early>>
  /\ UNCHANGED <<open, named, queue, loaded, shown, again, dialog, sending,
                 added>>

(* addABClicked() and editABClicked() up to the dialog *)
OpenDialog(kind) ==
  /\ UserAction
  /\ shown
  /\ kind = "edit" => buttons
  /\ dialog' = kind
  /\ UNCHANGED <<open, named, files, queue, model, view, sending, added>>

(* okButtonClicked() of a new contact *)
AcceptNew ==
  /\ dialog = "new"
  /\ Add
  /\ dialog' = "none"
  /\ UNCHANGED <<open, named, queue, loaded, shown, selected, again, buttons,
                 sending, userActions>>

(* ... of an edited one: addAddress(), then deleteABClicked(). *)
AcceptEdit ==
  /\ dialog = "edit"
  /\ added < MaxContacts
  /\ added' = added + 1
  /\ RemoveRow(Moved(current, Len(book) + 1, 1),
               Append(book, Contact(added + 1, named)))
  /\ Save
  /\ dialog' = "none"
  /\ UNCHANGED <<open, named, queue, loaded, shown, again, sending,
                 userActions>>

Reject ==
  /\ dialog # "none"
  /\ dialog' = "none"
  /\ UNCHANGED <<open, named, files, queue, model, view, sending, added,
                 userActions>>

(* sendFundsClicked() with a label and "save address", up to delay() *)
Send ==
  /\ UserAction
  /\ shown /\ open
  /\ sending' = sending + 1
  /\ UNCHANGED <<open, named, files, queue, model, view, dialog, added>>

(* ... after it, if some wallet is open. *)
EndSend ==
  /\ sending > 0
  /\ dialog = "none"
  /\ sending' = sending - 1
  /\ IF open THEN Add ELSE UNCHANGED <<files, book, early, current, added>>
  /\ UNCHANGED <<open, named, queue, loaded, shown, selected, again, buttons,
                 dialog, userActions>>
-----------------------------------------------------------------------------
GuiStep == OnInitCompleted \/ OnInitFailed \/ OnClosed

User ==
  \/ \E file \in Wallets,
        outcome \in {"initCompleted", "initFailed", "refused"} :
       Open(file, outcome)
  \/ Close \/ Rescan \/ Delete \/ Send
  \/ \E row \in DOMAIN book : Select(row)
  \/ \E kind \in {"new", "edit"} : OpenDialog(kind)

Page == AcceptNew \/ AcceptEdit \/ Reject \/ EndSend

Next == GuiStep \/ User \/ Page

Spec == Init /\ [][Next]_vars
-----------------------------------------------------------------------------
Saved(w) == IF files[w] = NoFile THEN <<>> ELSE files[w]

(***************************************************************************)
(* When nothing is left to deliver, the page shows the contacts that the   *)
(* file of the open wallet holds: the model is loaded without being        *)
(* cleared, and a wallet may have no file of contacts.  The exception is   *)
(* that a contact was saved into a book that was not that of an open       *)
(* wallet.  There are two ways to do it: a payment that waited while       *)
(* another wallet was opened, and the page of a wallet whose report was    *)
(* delivered when it was gone.                                             *)
(***************************************************************************)
ShowsSaved ==
  open /\ queue = <<>> /\ ~early => book = Saved(named)

(***************************************************************************)
(* A file holds the contacts that were added for its wallet, with the same *)
(* exception.                                                              *)
(***************************************************************************)
NoForeignContacts ==
  ~early => \A w \in Wallets : \A contact \in Entries(Saved(w)) :
              contact.of = w

(***************************************************************************)
(* A contact leaves a file only if it is the selected one of the open      *)
(* wallet, and the user deletes or edits it, with the same exception.      *)
(***************************************************************************)
ContactsKept ==
  [][\A w \in Wallets : \A contact \in Entries(Saved(w)) :
       \/ contact \in Entries(Saved(w)')
       \/ w = named /\ contact = selected
       \/ early']_vars

(***************************************************************************)
(* The row that a click on "edit" or "delete" acts on is still the one     *)
(* that was selected, whatever was added, removed or loaded since, except  *)
(* that a rescan of the wallet moves it beyond the last.                   *)
(***************************************************************************)
ActsOnSelected ==
  current # 0 => IF again THEN current > Len(book)
                          ELSE current <= Len(book) /\ book[current] = selected
=============================================================================
