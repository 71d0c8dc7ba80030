---------------------------- MODULE WalletSession ----------------------------
(***************************************************************************)
(* From the start of the program to its end: which wallet is open, what    *)
(* the settings say about it, whether its password is asked for and which  *)
(* screen is shown.  WalletAdapter opens, creates and closes; Settings     *)
(* keeps the file and the flag "encrypted" across restarts; MainWindow and *)
(* WelcomeFrame ask and show.                                              *)
(*                                                                         *)
(* All of it is the GUI thread.  The report of a load (initCompleted), the *)
(* request for a password and the completion of a transaction that was     *)
(* sent are queued.  The program may stop at any time; a crash while the   *)
(* settings are being written leaves none.                                 *)
(*                                                                         *)
(* One assumption is about the wallet library: it refuses to make a wallet *)
(* over a file that exists (Refused).                                      *)
(***************************************************************************)
EXTENDS Sequences, Naturals

CONSTANTS
  Files,           (* wallet files                                         *)
  DefaultFile,     (* the one of settings without a file                   *)
  LegacyFile,      (* a file ".keys"                                       *)
  ConvertedFile,   (* the file ".wallet" of the same name                  *)
  NoFile,
  MaxStarts,       (* bound: how often the program is started              *)
  MaxUserActions   (* bound: things the user asks for                      *)

ASSUME FilesAssumption ==
  /\ {DefaultFile, ConvertedFile} \subseteq Files
  /\ LegacyFile \notin Files
  /\ NoFile \notin Files \cup {LegacyFile}
  /\ {MaxStarts, MaxUserActions} \subseteq Nat

VARIABLES
  running,         (* the program runs                                     *)
  disk,            (* the wallet files                                     *)
  settings,        (* Settings: the wallet file, and isEncrypted()         *)
  saved,           (* the file of the settings                             *)
  wallet,          (* m_wallet                                             *)
  queue,           (* events posted to the GUI thread                      *)
  gui,             (* what the GUI thread is doing                         *)
  welcome,         (* m_welcomeFrame is visible                            *)
  overview,        (* m_overviewFrame is visible                           *)
  late,            (* history: a completion was delivered when no wallet   *)
                   (* was open, and the pages have been there since        *)
  stale,           (* history: the report of a wallet was delivered when   *)
                   (* that wallet was gone                                 *)
  starts,          (* history: how often the program was started           *)
  userActions      (* history: things the user asked for so far            *)

screen == <<welcome, overview, late>>
vars == <<running, disk, settings, saved, wallet, queue, gui, screen, stale,
          starts, userActions>>
-----------------------------------------------------------------------------
AllFiles == Files \cup {LegacyFile}

(* "locked" needs a password, "broken" is cut off. *)
Contents == {"absent", "plain", "locked", "broken"}

Config(file, encrypted) == [file |-> file, encrypted |-> encrypted]
DefaultSettings == Config(DefaultFile, FALSE)

(* "empty" is a wallet object that nothing was loaded into, "created" one  *)
(* whose seed the user has yet to confirm, "loading" one whose report is   *)
(* yet to be delivered.                                                    *)
Wallet(file, state) == [file |-> file, state |-> state]
NoWallet == Wallet(NoFile, "none")
Wallets ==
  {NoWallet} \cup [file : AllFiles,
                   state : {"empty", "created", "loading", "open"}]

Outcomes == {"ok", "failed", "wrongPassword"}
Report(file, outcome) ==
  [type |-> "initCompleted", file |-> file, outcome |-> outcome]
Question == [type |-> "question", file |-> NoFile, outcome |-> "ok"]
Completion == [type |-> "completed", file |-> NoFile, outcome |-> "ok"]
Events ==
  {Question, Completion}
  \cup [type : {"initCompleted"}, file : AllFiles,
                   outcome : Outcomes]

(* "open" is in a handler that opens a wallet, after close() and perhaps   *)
(* setWalletFile(), "create" in one that creates one and "import" in one   *)
(* that imports one; "asking" is in askForWalletPassword(), and "password" *)
(* between the change of the wallet's password and that of the settings.   *)
GuiAt(pc, file, shown) == [pc |-> pc, file |-> file, shown |-> shown]
EventLoop == GuiAt("eventLoop", NoFile, FALSE)
GuiPositions ==
  [pc : {"eventLoop", "open", "create", "import", "asking", "password"},
   file : AllFiles \cup {NoFile}, shown : BOOLEAN]

TypeOK ==
  /\ {running, welcome, overview, late, stale} \subseteq BOOLEAN
  /\ disk \in [AllFiles -> Contents]
  /\ {settings, saved} \subseteq [file : AllFiles, encrypted : BOOLEAN]
  /\ wallet \in Wallets
  /\ queue \in Seq(Events) /\ Len(queue) <= userActions + starts
  /\ gui \in GuiPositions
  /\ starts \in 0 .. MaxStarts
  /\ userActions \in 0 .. MaxUserActions

Init ==
  /\ running = FALSE
  /\ disk \in [AllFiles -> Contents]
  /\ settings = DefaultSettings
  /\ saved = DefaultSettings
  /\ wallet = NoWallet
  /\ queue = <<>>
  /\ gui = EventLoop
  /\ welcome = TRUE
  /\ overview = FALSE
  /\ late = FALSE
  /\ stale = FALSE
  /\ starts = 0
  /\ userActions = 0
-----------------------------------------------------------------------------
(***************************************************************************)
(* WalletAdapter and Settings: what handlers do with the wallet.           *)
(***************************************************************************)
(* Every change of the settings is written to their file. *)
Save(config) == settings' = config /\ saved' = config

Post(event) == queue' = Append(queue, event)

(* setWalletFile(): nothing is known of a file that is new. *)
SetWalletFile(file) ==
  Save(Config(file, file = settings.file /\ settings.encrypted))

(* walletFileNeedsPassword() *)
NeedsPassword(file) == disk[file] \in {"locked", "broken"}

(* importLegacyWallet() goes on with the file ".wallet". *)
LoadedFile(file) == IF file = LegacyFile THEN ConvertedFile ELSE file

(* load() throws: the wallet object goes and the password is asked for. *)
LoadThrows(file) ==
  /\ Save(Config(file, TRUE))
  /\ wallet' = NoWallet
  /\ Post(Question)

(* load() starts, and reports how it ended. *)
Loads(file, encrypted, outcome) ==
  /\ Save(Config(file, encrypted))
  /\ wallet' = Wallet(file, "loading")
  /\ Post(Report(file, outcome))

(* There is no file: nothing is loaded and nothing will be reported. *)
LoadsNothing(file, encrypted) ==
  /\ Save(Config(file, encrypted))
  /\ wallet' = Wallet(file, "empty")
  /\ UNCHANGED queue

(* open("") of the file of the settings *)
OpenEmpty(file) ==
  CASE NeedsPassword(file) ->
         /\ Save(Config(file, TRUE))
         /\ Post(Question)
         /\ UNCHANGED wallet
    [] disk[file] = "absent" -> LoadsNothing(file, FALSE)
    [] OTHER ->
         IF disk[LoadedFile(file)] = "plain"
         THEN \E outcome \in {"ok", "failed"} :
                Loads(LoadedFile(file), FALSE, outcome)
         ELSE LoadThrows(LoadedFile(file))

(* open() with a password.  A wrong one makes load() throw, or is reported.*)
OpenWithPassword(file, right) ==
  LET loaded == LoadedFile(file)
  IN CASE disk[file] = "absent" -> LoadsNothing(file, TRUE)
       [] disk[file] # "absent" /\ disk[loaded] = "locked" /\ right ->
            \E outcome \in {"ok", "failed"} : Loads(loaded, TRUE, outcome)
       [] OTHER ->
            \/ LoadThrows(loaded)
            \/ /\ disk[loaded] = "locked"
               /\ Loads(loaded, TRUE, "wrongPassword")

(* The wallet library refuses to make a wallet in a file that exists. *)
Refused(file) == disk[file] # "absent"

(* close(), with MainWindow::walletClosed(), which its signal calls. *)
ShowClosed == welcome' = TRUE /\ overview' = FALSE /\ late' = FALSE

(* The overview frame instead of the welcome frame. *)
ShowOpened == welcome' = FALSE /\ overview' = TRUE /\ late' = FALSE
-----------------------------------------------------------------------------
(***************************************************************************)
(* The events, delivered also in the event loop of a dialog.  A report     *)
(* goes to onWalletInitCompleted() and then to MainWindow::walletOpened(). *)
(***************************************************************************)
Deliver(type) ==
  /\ running
  /\ gui.pc \in {"eventLoop", "asking"}
  /\ queue # <<>>
  /\ Head(queue).type = type

(* The report is not about the wallet that is there. *)
IsStale(report) == wallet # Wallet(report.file, "loading")

OnLoaded ==
  /\ Deliver("initCompleted")
  /\ Head(queue).outcome = "ok"
  /\ queue' = Tail(queue)
  /\ wallet' = IF wallet = NoWallet THEN NoWallet
                                    ELSE [wallet EXCEPT !.state = "open"]
  /\ stale' = (stale \/ IsStale(Head(queue)))
  /\ ShowOpened
  /\ UNCHANGED <<running, disk, settings, saved, gui, starts, userActions>>

(* Mutant: the main window shows the wallet whatever the report says. *)
OnLoadFailedShown ==
  /\ Deliver("initCompleted")
  /\ Head(queue).outcome = "failed"
  /\ queue' = Tail(queue)
  /\ wallet' = NoWallet
  /\ stale' = (stale \/ IsStale(Head(queue)))
  /\ ShowOpened
  /\ UNCHANGED <<running, disk, settings, saved, gui, starts, userActions>>

OnLoadFailed ==
  /\ Deliver("initCompleted")
  /\ Head(queue).outcome = "failed"
  /\ queue' = Tail(queue)
  /\ wallet' = NoWallet
  /\ stale' = (stale \/ IsStale(Head(queue)))
  /\ ShowClosed
  /\ UNCHANGED <<running, disk, settings, saved, gui, starts, userActions>>

OnWrongPassword ==
  /\ Deliver("initCompleted")
  /\ Head(queue).outcome = "wrongPassword"
  /\ IF wallet = NoWallet
     THEN queue' = Tail(queue) /\ UNCHANGED <<settings, saved>>
     ELSE /\ queue' = Append(Tail(queue), Question)
          /\ Save(Config(settings.file, TRUE))
  /\ wallet' = NoWallet
  /\ stale' = (stale \/ IsStale(Head(queue)))
  /\ ShowClosed
  /\ UNCHANGED <<running, disk, gui, starts, userActions>>

(* dashboardTo(), whatever wallet is there by now *)
OnCompleted ==
  /\ Deliver("completed")
  /\ queue' = Tail(queue)
  /\ overview' = TRUE
  /\ late' = (late \/ wallet.state # "open")
  /\ UNCHANGED <<running, disk, settings, saved, wallet, gui, welcome, stale,
                 starts, userActions>>

(* askForWalletPassword() up to its dialog *)
AskForPassword ==
  /\ Deliver("question")
  /\ queue' = Tail(queue)
  /\ gui' = GuiAt("asking", NoFile, FALSE)
  /\ welcome' = FALSE
  /\ UNCHANGED <<running, disk, settings, saved, wallet, overview, late,
                 stale, starts, userActions>>
-----------------------------------------------------------------------------
(***************************************************************************)
(* The dialog for the password.                                            *)
(***************************************************************************)
Answers(answer) ==
  CASE answer = "empty" -> OpenEmpty(settings.file)
    [] answer = "right" -> OpenWithPassword(settings.file, TRUE)
    [] answer = "wrong" -> OpenWithPassword(settings.file, FALSE)

EnterPassword(answer) ==
  /\ running
  /\ gui.pc = "asking"
  /\ Answers(answer)
  /\ gui' = EventLoop
  /\ UNCHANGED <<running, disk, screen, stale, starts, userActions>>

(* Mutant: the welcome frame stays hidden. *)
RejectPasswordHidden ==
  /\ running
  /\ gui.pc = "asking"
  /\ gui' = EventLoop
  /\ UNCHANGED <<running, disk, settings, saved, wallet, queue, screen,
                 stale, starts, userActions>>

(* welcomeFrame() *)
RejectPassword ==
  /\ running
  /\ gui.pc = "asking"
  /\ gui' = EventLoop
  /\ ShowClosed
  /\ UNCHANGED <<running, disk, settings, saved, wallet, queue, stale, starts,
                 userActions>>
-----------------------------------------------------------------------------
(***************************************************************************)
(* What the user asks for.  A question, and the report of a failure, are   *)
(* delivered before the user can react to the screen.                      *)
(***************************************************************************)
Urgent(event) == event.type = "question" \/ event.outcome # "ok"

UserAction ==
  /\ running
  /\ gui = EventLoop
  /\ \A i \in DOMAIN queue : ~Urgent(queue[i])
  /\ userActions < MaxUserActions
  /\ userActions' = userActions + 1

(* Mutant: the wallet that is open is not closed before another one. *)
OpenWalletOver(file) ==
  /\ UserAction
  /\ welcome \/ overview
  /\ disk[file] # "absent"
  /\ SetWalletFile(file)
  /\ gui' = GuiAt("open", file, welcome)
  /\ UNCHANGED <<running, disk, wallet, queue, screen, stale, starts>>

(* MainWindow::openWallet() up to open(""): close() if a wallet is open,   *)
(* which shows the welcome frame until the end of the handler.             *)
OpenWallet(file) ==
  /\ UserAction
  /\ welcome \/ overview
  /\ disk[file] # "absent"
  /\ wallet' = NoWallet
  /\ SetWalletFile(file)
  /\ gui' = GuiAt("open", file, welcome)
  /\ IF wallet = NoWallet THEN UNCHANGED screen ELSE ShowClosed
  /\ UNCHANGED <<running, disk, queue, stale, starts>>

(* ... to its end, which is also that of nextValidate(). *)
OpenChosen ==
  /\ running
  /\ gui.pc = "open"
  /\ OpenEmpty(gui.file)
  /\ welcome' = gui.shown
  /\ gui' = EventLoop
  /\ UNCHANGED <<running, disk, overview, late, stale, starts, userActions>>

(* WelcomeFrame::nextShowSeed(), and the imports (then import is TRUE), up *)
(* to the creation.  Of those importKey() does not look for the file.      *)
CreateWallet(file, import) ==
  /\ UserAction
  /\ welcome \/ (import /\ overview)
  /\ file # LegacyFile
  /\ import \/ disk[file] = "absent"
  /\ wallet' = NoWallet
  /\ SetWalletFile(file)
  /\ gui' = GuiAt(IF import THEN "import" ELSE "create", file, welcome)
  /\ IF wallet = NoWallet THEN UNCHANGED screen ELSE ShowClosed
  /\ UNCHANGED <<running, disk, queue, stale, starts>>

Creating == running /\ gui.pc \in {"create", "import"}

(* createWallet(), or createWithKeys() and open(""), after which the       *)
(* welcome frame is as it was before the import.                           *)
CreateChosen ==
  /\ Creating
  /\ ~Refused(gui.file)
  /\ disk' = [disk EXCEPT ![gui.file] = "plain"]
  /\ IF gui.pc = "import"
     THEN /\ \E outcome \in {"ok", "failed"} : Loads(gui.file, FALSE, outcome)
          /\ welcome' = gui.shown
     ELSE /\ Save(Config(gui.file, FALSE))
          /\ wallet' = Wallet(gui.file, "created")
          /\ UNCHANGED <<queue, welcome>>
  /\ gui' = EventLoop
  /\ UNCHANGED <<running, overview, late, stale, starts, userActions>>

(* nextValidate() up to open("") of the file that was closed *)
ConfirmSeed ==
  /\ UserAction
  /\ welcome
  /\ wallet.state = "created"
  /\ wallet' = NoWallet
  /\ ShowClosed
  /\ gui' = GuiAt("open", settings.file, TRUE)
  /\ UNCHANGED <<running, disk, settings, saved, queue, stale, starts>>

(* MainWindow::closeWallet() *)
CloseWallet ==
  /\ UserAction
  /\ overview
  /\ wallet' = NoWallet
  /\ ShowClosed
  /\ UNCHANGED <<running, disk, settings, saved, queue, gui, stale, starts>>

(* MainWindow::createWallet() and welcomeFrame(): the wallet stays open. *)
GoToWelcome ==
  /\ UserAction
  /\ overview
  /\ ShowClosed
  /\ UNCHANGED <<running, disk, settings, saved, wallet, queue, gui, stale,
                 starts>>

(* changePassword() of the wallet, which rewrites its file: the dialog for *)
(* a wallet that is not encrypted does not take an empty password.         *)
ChangePassword(contents) ==
  /\ UserAction
  /\ overview
  /\ wallet.state \in {"open", "loading", "created"}
  /\ settings.encrypted \/ contents = "locked"
  /\ disk' = [disk EXCEPT ![wallet.file] = contents]
  /\ gui' = GuiAt("password", wallet.file, contents = "locked")
  /\ UNCHANGED <<running, settings, saved, wallet, queue, screen, stale,
                 starts>>

(* Mutant: the settings are not told. *)
PasswordChangedSilently ==
  /\ running
  /\ gui.pc = "password"
  /\ gui' = EventLoop
  /\ UNCHANGED <<running, disk, settings, saved, wallet, queue, screen, stale,
                 starts, userActions>>

PasswordChanged ==
  /\ running
  /\ gui.pc = "password"
  /\ Save(Config(settings.file, gui.shown))
  /\ gui' = EventLoop
  /\ UNCHANGED <<running, disk, wallet, queue, screen, stale, starts,
                 userActions>>

(* The wallet thread: a transaction that the user sent is completed. *)
TransactionSent ==
  /\ running
  /\ wallet.state = "open"
  /\ userActions < MaxUserActions
  /\ userActions' = userActions + 1
  /\ Post(Completion)
  /\ UNCHANGED <<running, disk, settings, saved, wallet, gui, screen, stale,
                 starts>>

(***************************************************************************)
(* The program ends or crashes, perhaps while it writes its settings (some *)
(* setting or other can be changed at any time).  It starts with the       *)
(* settings it finds.                                                      *)
(***************************************************************************)
Ends ==
  /\ running
  /\ running' = FALSE
  /\ wallet' = NoWallet
  /\ queue' = <<>>
  /\ gui' = EventLoop
  /\ UNCHANGED <<disk, screen, stale, starts, userActions>>

Stop ==
  /\ Ends
  /\ saved' \in {saved, DefaultSettings}
  /\ UNCHANGED settings

(* The library throws in createWithKeys(), and nobody catches it. *)
CreateRefused ==
  /\ Creating
  /\ Refused(gui.file)
  /\ Save(Config(gui.file, FALSE))
  /\ Ends

(* main(), with the constructor of MainWindow. *)
Start ==
  /\ ~running
  /\ starts < MaxStarts
  /\ running' = TRUE
  /\ starts' = starts + 1
  /\ stale' = FALSE
  /\ ShowClosed
  /\ IF saved.encrypted
     THEN settings' = saved /\ Post(Question) /\ UNCHANGED <<saved, wallet>>
     ELSE OpenEmpty(saved.file)
  /\ UNCHANGED <<disk, gui, userActions>>
-----------------------------------------------------------------------------
GuiStep ==
  \/ OnLoaded \/ OnLoadFailed \/ OnWrongPassword \/ OnCompleted
  \/ AskForPassword
  \/ OpenChosen \/ CreateChosen \/ CreateRefused \/ PasswordChanged

Dialog ==
  \/ \E answer \in {"empty", "right", "wrong"} : EnterPassword(answer)
  \/ RejectPassword

User ==
  \/ \E file \in AllFiles : OpenWallet(file)
  \/ \E file \in Files, import \in BOOLEAN : CreateWallet(file, import)
  \/ ConfirmSeed \/ CloseWallet \/ GoToWelcome
  \/ \E contents \in {"plain", "locked"} : ChangePassword(contents)

Next == GuiStep \/ Dialog \/ User \/ TransactionSent \/ Stop \/ Start

Spec == Init /\ [][Next]_vars

FairSpec == Spec /\ WF_vars(GuiStep)
-----------------------------------------------------------------------------
(***************************************************************************)
(* What the settings say of the password of the open wallet is so, after   *)
(* any crash and whatever was known of the file: OverviewFrame asks for a  *)
(* password before it pays, or asks for none, by this flag.                *)
(***************************************************************************)
EncryptedAgrees ==
  wallet.state \in {"open", "loading", "created"} /\ ~stale
  /\ gui.pc # "password" =>
    settings.encrypted = (disk[wallet.file] = "locked")

(***************************************************************************)
(* The open wallet is the one that the settings name: its address book,    *)
(* its name on the screen and the password dialog go by the settings.      *)
(***************************************************************************)
WalletIsOfSettings ==
  wallet # NoWallet => wallet.file = settings.file

(***************************************************************************)
(* Nobody is asked for a password while a wallet is open: open() would     *)
(* replace that wallet without saving it.                                  *)
(***************************************************************************)
AsksWhileClosed ==
  gui.pc = "asking" \/ (\E i \in DOMAIN queue : queue[i] = Question) =>
    wallet = NoWallet

(***************************************************************************)
(* The pages of a wallet are shown only while that wallet is open, unless  *)
(* the report of a wallet that is gone, or the completion of a transaction *)
(* that it sent, has come too late.                                        *)
(***************************************************************************)
ScreenFits ==
  running /\ overview /\ ~stale /\ ~late => wallet.state = "open"

(***************************************************************************)
(* The user always gets a screen to go on with: the wallet, the welcome    *)
(* page or the question for the password.  The exception is a wallet into  *)
(* which nothing was loaded, as when a file ".keys" has no ".wallet".      *)
(***************************************************************************)
NeverBlank ==
  running ~> \/ welcome \/ overview \/ gui.pc = "asking"
             \/ wallet.state = "empty" \/ ~running

(***************************************************************************)
(* The session implements OneWallet; a wallet without contents counts as   *)
(* none.                                                                   *)
(***************************************************************************)
Promise == INSTANCE OneWallet
  WITH current <- IF wallet.state \in {"none", "empty"}
                  THEN NoFile ELSE wallet.file

ImplementsOneWallet == Promise!Spec
=============================================================================
