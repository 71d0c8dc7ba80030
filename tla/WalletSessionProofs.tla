------------------------- MODULE WalletSessionProofs -------------------------
(***************************************************************************)
(* Proofs about WalletSession, for any files, any number of starts and any *)
(* number of user actions.  The inductive invariant says where a question  *)
(* and a wallet object can be while the GUI thread is in the middle of a   *)
(* handler, and what is known of the file then.                            *)
(***************************************************************************)
EXTENDS WalletSession, TLAPS

(* The GUI thread may still post an event in what it is doing. *)
Posting == IF gui.pc \in {"asking", "open", "create", "import"} THEN 1 ELSE 0

Bounded == Len(queue) + Posting <= userActions + starts

(* A question is the last event, and nobody is asked in between. *)
QuestionOrder ==
  /\ \A i \in DOMAIN queue : queue[i] = Question =>
       i = Len(queue) /\ wallet = NoWallet /\ gui.pc = "eventLoop"
  /\ gui.pc = "asking" => queue = <<>>
  /\ wallet.state = "empty" => queue = <<>>

(* What is there while a handler is under way, and without the program. *)
HandlerOrder ==
  /\ ~running => queue = <<>> /\ wallet = NoWallet /\ gui = EventLoop
  /\ gui.pc \in {"asking", "open", "create", "import"} => wallet = NoWallet
  /\ gui.pc = "open" => gui.file \in AllFiles /\ disk[gui.file] # "absent"
  /\ gui.pc \in {"create", "import"} => gui.file \in Files
  /\ gui.pc = "password" =>
       /\ wallet.state \in {"open", "loading", "created"}
       /\ gui.shown = (disk[wallet.file] = "locked")
  /\ wallet.state = "created" =>
       wallet.file \in Files /\ disk[wallet.file] \in {"plain", "locked"}

IInv ==
  /\ TypeOK
  /\ Bounded
  /\ QuestionOrder
  /\ HandlerOrder
  /\ WalletIsOfSettings
  /\ EncryptedAgrees
  /\ ScreenFits

(* What an attempt to open a file leaves behind. *)
Opened ==
  /\ settings' \in [file : AllFiles, encrypted : BOOLEAN]
  /\ saved' = settings'
  /\ wallet' \in Wallets
  /\ wallet'.state \in {"none", "empty", "loading"}
  /\ wallet'.state # "none" => wallet'.file = settings'.file
  /\ wallet'.state = "loading" =>
       /\ disk[wallet'.file] \in {"plain", "locked"}
       /\ settings'.encrypted = (disk[wallet'.file] = "locked")
  /\ \/ queue' = queue /\ wallet'.state = "empty"
     \/ \E event \in Events :
          /\ queue' = Append(queue, event)
          /\ wallet'.state # "empty"
          /\ event = Question => wallet'.state = "none"

-----------------------------------------------------------------------------
(***************************************************************************)
(* The wallet objects.                                                     *)
(***************************************************************************)
LEMMA WalletKinds ==
  ASSUME NEW w \in Wallets
  PROVE  /\ w = NoWallet <=> w.state = "none"
         /\ w # NoWallet => w.file \in AllFiles /\ w.file # NoFile
BY FilesAssumption DEF Wallets, NoWallet, Wallet, AllFiles

LEMMA LoadedFileTyped ==
  ASSUME NEW file \in AllFiles
  PROVE  LoadedFile(file) \in AllFiles
BY FilesAssumption DEF LoadedFile, AllFiles

LEMMA LoadsOpens ==
  ASSUME TypeOK, NEW file \in AllFiles, NEW outcome \in Outcomes,
         NEW encrypted \in BOOLEAN, Loads(file, encrypted, outcome),
         disk[file] \in {"plain", "locked"},
         encrypted = (disk[file] = "locked")
  PROVE  Opened /\ wallet' = Wallet(file, "loading")
<1>1. wallet' = Wallet(file, "loading") /\ wallet' \in Wallets
  BY DEF Loads, Wallet, Wallets
<1>2. Report(file, outcome) \in Events /\ Report(file, outcome) # Question
  BY DEF Events, Report, Question
<1>3. queue' = Append(queue, Report(file, outcome))
  BY DEF Loads, Post
<1>4. settings' = Config(file, encrypted) /\ saved' = settings'
  BY DEF Loads, Save
<1> QED
  BY <1>1, <1>2, <1>3, <1>4 DEF Opened, Config, Wallet

LEMMA LoadThrowsOpens ==
  ASSUME TypeOK, NEW file \in AllFiles, LoadThrows(file)
  PROVE  Opened
<1>1. wallet' = NoWallet /\ wallet' \in Wallets /\ wallet'.state = "none"
  BY DEF LoadThrows, NoWallet, Wallet, Wallets
<1>2. Question \in Events /\ queue' = Append(queue, Question)
  BY DEF LoadThrows, Post, Events
<1>3. settings' = Config(file, TRUE) /\ saved' = settings'
  BY DEF LoadThrows, Save
<1> QED
  BY <1>1, <1>2, <1>3 DEF Opened, Config

LEMMA LoadsNothingOpens ==
  ASSUME TypeOK, NEW file \in AllFiles, NEW encrypted \in BOOLEAN,
         LoadsNothing(file, encrypted)
  PROVE  Opened
<1>1. /\ wallet' = Wallet(file, "empty") /\ wallet' \in Wallets
      /\ wallet'.state = "empty" /\ wallet'.file = file
  BY DEF LoadsNothing, Wallet, Wallets
<1>2. settings' = Config(file, encrypted) /\ saved' = settings'
  BY DEF LoadsNothing, Save
<1>3. queue' = queue
  BY DEF LoadsNothing
<1> QED
  BY <1>1, <1>2, <1>3 DEF Opened, Config

LEMMA OpenEmptyOpens ==
  ASSUME TypeOK, NEW file \in AllFiles, OpenEmpty(file), wallet = NoWallet
  PROVE  /\ Opened
         /\ disk[file] # "absent" => wallet'.state # "empty"
<1> DEFINE loaded == LoadedFile(file)
<1>0. loaded \in AllFiles /\ disk[file] \in Contents
  BY LoadedFileTyped DEF TypeOK
<1>1. CASE NeedsPassword(file)
  <2>1. disk[file] \notin {"plain", "absent"}
    BY <1>1 DEF NeedsPassword
  <2>2. /\ settings' = Config(file, TRUE) /\ saved' = settings'
        /\ queue' = Append(queue, Question) /\ wallet' = wallet
    BY <1>1, <2>1 DEF OpenEmpty, NeedsPassword, Save, Post
  <2>3. Question \in Events /\ NoWallet \in Wallets /\ NoWallet.state = "none"
    BY DEF Events, Wallets, NoWallet, Wallet
  <2> QED
    BY <2>1, <2>2, <2>3 DEF Opened, Config
<1>2. CASE disk[file] = "absent"
  <2>1. LoadsNothing(file, FALSE)
    BY <1>2 DEF OpenEmpty, NeedsPassword
  <2> QED
    BY <1>2, <2>1, LoadsNothingOpens
<1>3. CASE ~NeedsPassword(file) /\ disk[file] # "absent"
  <2>1. CASE disk[loaded] = "plain"
    <3>1. PICK outcome \in {"ok", "failed"} : Loads(loaded, FALSE, outcome)
      BY <1>3, <2>1 DEF OpenEmpty
    <3>2. Opened /\ wallet' = Wallet(loaded, "loading")
      BY <1>0, <2>1, <3>1, LoadsOpens DEF Outcomes
    <3>3. wallet'.state # "empty"
      BY <3>2 DEF Wallet
    <3> QED
      BY <3>2, <3>3
  <2>2. CASE disk[loaded] # "plain"
    <3>1. LoadThrows(loaded)
      BY <1>3, <2>2 DEF OpenEmpty
    <3>2. Opened /\ wallet'.state = "none"
      BY <1>0, <3>1, LoadThrowsOpens DEF LoadThrows, NoWallet, Wallet
    <3> QED
      BY <3>2
  <2> QED
    BY <2>1, <2>2
<1> QED
  BY <1>1, <1>2, <1>3

LEMMA OpenWithPasswordOpens ==
  ASSUME TypeOK, NEW file \in AllFiles, NEW right \in BOOLEAN,
         OpenWithPassword(file, right)
  PROVE  Opened
<1> DEFINE loaded == LoadedFile(file)
<1>0. loaded \in AllFiles
  BY LoadedFileTyped
<1>1. CASE disk[file] = "absent"
  <2>1. LoadsNothing(file, TRUE)
    BY <1>1 DEF OpenWithPassword
  <2> QED
    BY <2>1, LoadsNothingOpens
<1>2. CASE disk[file] # "absent" /\ disk[loaded] = "locked" /\ right
  <2>1. PICK outcome \in {"ok", "failed"} : Loads(loaded, TRUE, outcome)
    BY <1>2 DEF OpenWithPassword
  <2> QED
    BY <1>0, <1>2, <2>1, LoadsOpens DEF Outcomes
<1>3. CASE /\ disk[file] # "absent"
           /\ ~(disk[loaded] = "locked" /\ right)
  <2>1. \/ LoadThrows(loaded)
        \/ disk[loaded] = "locked" /\ Loads(loaded, TRUE, "wrongPassword")
    BY <1>3 DEF OpenWithPassword
  <2> QED
    BY <1>0, <2>1, LoadThrowsOpens, LoadsOpens DEF Outcomes
<1> QED
  BY <1>1, <1>2, <1>3
-----------------------------------------------------------------------------
(***************************************************************************)
(* The queue, when an event is posted and when one is delivered.           *)
(***************************************************************************)
LEMMA Appended ==
  ASSUME queue \in Seq(Events), NEW event \in Events,
         queue' = Append(queue, event)
  PROVE  /\ queue' \in Seq(Events)
         /\ Len(queue') = Len(queue) + 1
         /\ DOMAIN queue' = 1 .. Len(queue')
         /\ queue'[Len(queue')] = event
         /\ \A i \in DOMAIN queue : i \in DOMAIN queue' /\ queue'[i] = queue[i]
         /\ \A i \in DOMAIN queue' : i \in DOMAIN queue \/ i = Len(queue')
OBVIOUS

LEMMA Delivered ==
  ASSUME queue \in Seq(Events), queue # <<>>, NEW rest, rest = Tail(queue)
  PROVE  /\ rest \in Seq(Events)
         /\ Len(rest) = Len(queue) - 1
         /\ Head(queue) = queue[1] /\ 1 \in DOMAIN queue
         /\ Head(queue) \in Events
         /\ \A i \in DOMAIN rest :
              i \in Nat /\ i + 1 \in DOMAIN queue /\ rest[i] = queue[i + 1]
OBVIOUS

LEMMA CountsTyped ==
  ASSUME TypeOK
  PROVE  /\ userActions \in Nat /\ starts \in Nat
         /\ queue \in Seq(Events) /\ Len(queue) \in Nat
         /\ Posting \in {0, 1}
BY FilesAssumption DEF TypeOK, Posting

LEMMA EventKinds ==
  /\ \A event \in Events : event.type = "question" <=> event = Question
  /\ Completion \in Events /\ Completion # Question
BY DEF Events, Question, Completion

LEMMA InitIInv == Init => IInv
<1> SUFFICES ASSUME Init PROVE IInv
  OBVIOUS
<1> USE DEF Init, NoWallet, Wallet, EventLoop, GuiAt
<1>1. TypeOK
  <2>1. NoWallet \in Wallets /\ EventLoop \in GuiPositions
    BY DEF Wallets, GuiPositions
  <2>2. DefaultSettings \in [file : AllFiles, encrypted : BOOLEAN]
    BY FilesAssumption DEF DefaultSettings, Config, AllFiles
  <2>3. queue \in Seq(Events) /\ Len(queue) <= userActions + starts
    OBVIOUS
  <2>4. 0 \in 0 .. MaxStarts /\ 0 \in 0 .. MaxUserActions
    BY FilesAssumption
  <2>5. gui \in GuiPositions /\ wallet \in Wallets
    BY <2>1
  <2>6. {settings, saved} \subseteq [file : AllFiles, encrypted : BOOLEAN]
    BY <2>2
  <2>7. starts \in 0 .. MaxStarts /\ userActions \in 0 .. MaxUserActions
    BY <2>4
  <2> HIDE DEF NoWallet, Wallet, EventLoop, GuiAt
  <2> QED
    BY <2>3, <2>5, <2>6, <2>7 DEF TypeOK
<1>2. Bounded
  BY DEF Bounded, Posting
<1>3. QuestionOrder /\ HandlerOrder
  BY DEF QuestionOrder, HandlerOrder
<1>4. WalletIsOfSettings /\ EncryptedAgrees /\ ScreenFits
  BY DEF WalletIsOfSettings, EncryptedAgrees, ScreenFits
<1> QED
  BY <1>1, <1>2, <1>3, <1>4 DEF IInv

(***************************************************************************)
(* A step that opens a file and returns to the event loop.                 *)
(***************************************************************************)
LEMMA OpenedIInv ==
  ASSUME IInv, Opened, running', gui' = EventLoop, disk' = disk,
         {welcome', overview', late', stale'} \subseteq BOOLEAN,
         starts' \in 0 .. MaxStarts, userActions' \in 0 .. MaxUserActions,
         Len(queue) + 1 <= userActions' + starts',
         \A i \in DOMAIN queue : queue[i] # Question,
         wallet'.state = "empty" => queue = <<>>,
         overview' => stale' \/ late'
  PROVE  IInv'
<1> USE DEF EventLoop, GuiAt
<1>1. queue \in Seq(Events) /\ Len(queue) \in Nat
  BY CountsTyped DEF IInv
<1>2. userActions' \in Nat /\ starts' \in Nat
  BY FilesAssumption
<1>3. /\ queue' \in Seq(Events)
      /\ Len(queue') <= Len(queue) + 1
      /\ \A i \in DOMAIN queue' : queue'[i] = Question =>
           i = Len(queue') /\ wallet'.state = "none"
      /\ wallet'.state = "empty" => queue' = <<>>
  <2>1. CASE queue' = queue /\ wallet'.state = "empty"
    BY <1>1, <2>1
  <2>2. CASE \E event \in Events :
               /\ queue' = Append(queue, event)
               /\ wallet'.state # "empty"
               /\ event = Question => wallet'.state = "none"
    <3> PICK event \in Events :
          /\ queue' = Append(queue, event)
          /\ wallet'.state # "empty"
          /\ event = Question => wallet'.state = "none"
      BY <2>2
    <3> QED
      BY <1>1, Appended
  <2> QED
    BY <2>1, <2>2 DEF Opened
<1>4. wallet' = NoWallet <=> wallet'.state = "none"
  BY WalletKinds DEF Opened
<1>5. TypeOK'
  <2>1. gui' \in GuiPositions
    BY DEF GuiPositions
  <2>2. running' \in BOOLEAN
    BY DEF IInv, TypeOK
  <2>3. Len(queue') <= userActions' + starts'
    BY <1>1, <1>2, <1>3
  <2> QED
    BY <1>3, <2>1, <2>3 DEF IInv, TypeOK, Opened
<1>6. Bounded'
  BY <1>1, <1>2, <1>3 DEF Bounded, Posting
<1>7. QuestionOrder'
  BY <1>3, <1>4 DEF QuestionOrder
<1>8. HandlerOrder'
  BY DEF HandlerOrder, Opened
<1>9. WalletIsOfSettings' /\ EncryptedAgrees' /\ ScreenFits'
  BY <1>4 DEF WalletIsOfSettings, EncryptedAgrees, ScreenFits, Opened
<1> QED
  BY <1>5, <1>6, <1>7, <1>8, <1>9 DEF IInv
-----------------------------------------------------------------------------
(***************************************************************************)
(* Each action keeps the inductive invariant: first the delivered events,  *)
(* then the dialog, what the user asks for, and the ends of handlers.      *)
(***************************************************************************)
LEMMA DeliverAt ==
  ASSUME IInv, NEW type, Deliver(type)
  PROVE  /\ gui.pc = "eventLoop" /\ wallet.state # "empty"
         /\ running /\ queue # <<>> /\ queue \in Seq(Events)
         /\ Head(queue) \in Events /\ Head(queue).type = type
BY Delivered DEF IInv, TypeOK, Deliver, QuestionOrder

LEMMA DeliveredOrder ==
  ASSUME IInv, NEW type, Deliver(type), queue' = Tail(queue), gui' = gui,
         wallet = NoWallet => wallet' = NoWallet,
         wallet'.state # "empty",
         userActions' = userActions, starts' = starts
  PROVE  /\ QuestionOrder' /\ Bounded'
         /\ queue' \in Seq(Events) /\ Len(queue') <= userActions' + starts'
<1>1. gui.pc = "eventLoop" /\ queue # <<>> /\ queue \in Seq(Events)
  BY DeliverAt
<1>2. /\ queue' \in Seq(Events) /\ Len(queue') = Len(queue) - 1
      /\ \A i \in DOMAIN queue' : /\ i \in Nat /\ i + 1 \in DOMAIN queue
                                  /\ queue'[i] = queue[i + 1]
  BY <1>1, Delivered
<1>3. userActions \in Nat /\ starts \in Nat /\ Len(queue) \in Nat
  BY CountsTyped DEF IInv
<1>4. Bounded' /\ Len(queue') <= userActions' + starts'
  BY <1>1, <1>2, <1>3 DEF IInv, Bounded, Posting
<1>5. QuestionOrder'
  <2>1. ASSUME NEW i \in DOMAIN queue', queue'[i] = Question
        PROVE  i = Len(queue') /\ wallet' = NoWallet
    <3>1. i + 1 = Len(queue) /\ wallet = NoWallet
      BY <1>2, <2>1 DEF IInv, QuestionOrder
    <3> QED
      BY <1>2, <1>3, <2>1, <3>1
  <2> QED
    BY <1>1, <2>1 DEF QuestionOrder
<1> QED
  BY <1>2, <1>4, <1>5

LEMMA OnLoadedIInv == ASSUME IInv, OnLoaded PROVE IInv'
<1>1. /\ Deliver("initCompleted") /\ queue' = Tail(queue)
      /\ wallet' = IF wallet = NoWallet THEN NoWallet
                   ELSE [wallet EXCEPT !.state = "open"]
      /\ stale' = (stale \/ IsStale(Head(queue)))
      /\ welcome' = FALSE /\ overview' = TRUE /\ late' = FALSE
      /\ UNCHANGED <<running, disk, settings, saved, gui, starts, userActions>>
  BY DEF OnLoaded, ShowOpened
<1>2. gui.pc = "eventLoop" /\ wallet.state # "empty" /\ running
  BY <1>1, DeliverAt
<1>3. wallet \in Wallets
  BY DEF IInv, TypeOK
<1>4. /\ wallet' \in Wallets
      /\ wallet = NoWallet => wallet' = NoWallet /\ wallet'.state = "none"
      /\ wallet # NoWallet => /\ wallet'.state = "open"
                              /\ wallet'.file = wallet.file
  BY <1>1, <1>3 DEF Wallets, NoWallet, Wallet
<1>5. wallet'.state # "empty"
  BY <1>4
<1>6. /\ QuestionOrder' /\ Bounded'
      /\ queue' \in Seq(Events) /\ Len(queue') <= userActions' + starts'
  BY <1>1, <1>4, <1>5, DeliveredOrder
<1>7. stale' \in BOOLEAN
  BY <1>1 DEF IInv, TypeOK, IsStale
<1>8. TypeOK'
  <2>1. {running', welcome', overview', late', stale'} \subseteq BOOLEAN
    BY <1>1, <1>7 DEF IInv, TypeOK
  <2> QED
    BY <1>1, <1>4, <1>6, <2>1 DEF IInv, TypeOK
<1>9. HandlerOrder'
  BY <1>1, <1>2, <1>4 DEF IInv, HandlerOrder
<1>10. WalletIsOfSettings'
  BY <1>1, <1>4 DEF IInv, WalletIsOfSettings
<1>11. ~stale' => ~stale /\ wallet.state = "loading" /\ wallet # NoWallet
  <2>1. ASSUME ~stale'
        PROVE  ~stale /\ wallet = Wallet(Head(queue).file, "loading")
    BY <1>1, <2>1 DEF IsStale
  <2>2. \A file : /\ Wallet(file, "loading").state = "loading"
                  /\ Wallet(file, "loading") # NoWallet
    BY DEF Wallet, NoWallet
  <2> QED
    BY <2>1, <2>2
<1>12. EncryptedAgrees' /\ ScreenFits'
  BY <1>1, <1>2, <1>4, <1>11 DEF IInv, EncryptedAgrees, ScreenFits
<1> QED
  BY <1>6, <1>8, <1>9, <1>10, <1>12 DEF IInv

LEMMA NoWalletFacts ==
  NoWallet \in Wallets /\ NoWallet.state = "none" /\ NoWallet.file = NoFile
BY DEF NoWallet, Wallet, Wallets

LEMMA OnLoadFailedIInv == ASSUME IInv, OnLoadFailed PROVE IInv'
<1>1. /\ Deliver("initCompleted") /\ queue' = Tail(queue)
      /\ wallet' = NoWallet
      /\ stale' = (stale \/ IsStale(Head(queue)))
      /\ welcome' = TRUE /\ overview' = FALSE /\ late' = FALSE
      /\ UNCHANGED <<running, disk, settings, saved, gui, starts, userActions>>
  BY DEF OnLoadFailed, ShowClosed
<1>2. gui.pc = "eventLoop" /\ running
  BY <1>1, DeliverAt
<1>3. /\ QuestionOrder' /\ Bounded'
      /\ queue' \in Seq(Events) /\ Len(queue') <= userActions' + starts'
  BY <1>1, NoWalletFacts, DeliveredOrder
<1>4. stale' \in BOOLEAN
  BY <1>1 DEF IInv, TypeOK, IsStale
<1>5. TypeOK'
  BY <1>1, <1>3, <1>4, NoWalletFacts DEF IInv, TypeOK
<1>6. HandlerOrder' /\ WalletIsOfSettings' /\ EncryptedAgrees' /\ ScreenFits'
  BY <1>1, <1>2, NoWalletFacts
     DEF IInv, HandlerOrder, WalletIsOfSettings, EncryptedAgrees, ScreenFits
<1> QED
  BY <1>3, <1>5, <1>6 DEF IInv

LEMMA OnWrongPasswordIInv == ASSUME IInv, OnWrongPassword PROVE IInv'
<1>1. /\ Deliver("initCompleted")
      /\ wallet' = NoWallet
      /\ stale' = (stale \/ IsStale(Head(queue)))
      /\ welcome' = TRUE /\ overview' = FALSE /\ late' = FALSE
      /\ UNCHANGED <<running, disk, gui, starts, userActions>>
  BY DEF OnWrongPassword, ShowClosed
<1>2. /\ gui.pc = "eventLoop" /\ running
      /\ queue # <<>> /\ queue \in Seq(Events)
  BY <1>1, DeliverAt
<1>3. userActions \in Nat /\ starts \in Nat /\ Len(queue) \in Nat
  BY CountsTyped DEF IInv
<1>4. /\ QuestionOrder' /\ Bounded'
      /\ queue' \in Seq(Events) /\ Len(queue') <= userActions' + starts'
      /\ {settings', saved'} \subseteq [file : AllFiles, encrypted : BOOLEAN]
  <2>1. CASE wallet = NoWallet
    <3>1. queue' = Tail(queue) /\ UNCHANGED <<settings, saved>>
      BY <2>1 DEF OnWrongPassword
    <3>2. /\ QuestionOrder' /\ Bounded'
          /\ queue' \in Seq(Events) /\ Len(queue') <= userActions' + starts'
      BY <1>1, <3>1, NoWalletFacts, DeliveredOrder
    <3> QED
      BY <3>1, <3>2 DEF IInv, TypeOK
  <2>2. CASE wallet # NoWallet
    <3> DEFINE rest == Tail(queue)
    <3>1. /\ queue' = Append(rest, Question)
          /\ settings' = Config(settings.file, TRUE) /\ saved' = settings'
      BY <2>2 DEF OnWrongPassword, Save
    <3>2. /\ rest \in Seq(Events) /\ Len(rest) = Len(queue) - 1
          /\ \A i \in DOMAIN rest : /\ i \in Nat /\ i + 1 \in DOMAIN queue
                                    /\ rest[i] = queue[i + 1]
      BY <1>2, Delivered
    <3>3. \A i \in DOMAIN rest : rest[i] # Question
      BY <2>2, <3>2 DEF IInv, QuestionOrder
    <3>4. Question \in Events
      BY DEF Events
    <3>5. /\ queue' \in Seq(Events) /\ Len(queue') = Len(queue)
          /\ \A i \in DOMAIN queue' : queue'[i] = Question => i = Len(queue')
      <4> HIDE DEF rest
      <4> QED
        BY <3>1, <3>2, <3>3, <3>4
    <3>6. QuestionOrder'
      BY <1>1, <1>2, <3>5, NoWalletFacts DEF QuestionOrder
    <3>7. Bounded' /\ Len(queue') <= userActions' + starts'
      BY <1>1, <1>2, <1>3, <3>5 DEF IInv, Bounded, Posting
    <3>8. settings' \in [file : AllFiles, encrypted : BOOLEAN]
      BY <3>1 DEF IInv, TypeOK, Config
    <3> QED
      BY <3>1, <3>5, <3>6, <3>7, <3>8
  <2> QED
    BY <2>1, <2>2
<1>5. stale' \in BOOLEAN
  BY <1>1 DEF IInv, TypeOK, IsStale
<1>6. TypeOK'
  BY <1>1, <1>4, <1>5, NoWalletFacts DEF IInv, TypeOK
<1>7. HandlerOrder' /\ WalletIsOfSettings' /\ EncryptedAgrees' /\ ScreenFits'
  BY <1>1, <1>2, NoWalletFacts
     DEF IInv, HandlerOrder, WalletIsOfSettings, EncryptedAgrees, ScreenFits
<1> QED
  BY <1>4, <1>6, <1>7 DEF IInv

LEMMA OnCompletedIInv == ASSUME IInv, OnCompleted PROVE IInv'
<1>1. /\ Deliver("completed") /\ queue' = Tail(queue)
      /\ overview' = TRUE /\ late' = (late \/ wallet.state # "open")
      /\ UNCHANGED <<running, disk, settings, saved, wallet, gui, welcome,
                     stale, starts, userActions>>
  BY DEF OnCompleted
<1>2. gui.pc = "eventLoop" /\ wallet.state # "empty" /\ running
  BY <1>1, DeliverAt
<1>3. /\ QuestionOrder' /\ Bounded'
      /\ queue' \in Seq(Events) /\ Len(queue') <= userActions' + starts'
  BY <1>1, <1>2, DeliveredOrder
<1>4. TypeOK'
  <2>1. {running', welcome', overview', late', stale'} \subseteq BOOLEAN
    BY <1>1 DEF IInv, TypeOK
  <2> QED
    BY <1>1, <1>3, <2>1 DEF IInv, TypeOK
<1>5. HandlerOrder' /\ WalletIsOfSettings' /\ EncryptedAgrees'
  BY <1>1, <1>2 DEF IInv, HandlerOrder, WalletIsOfSettings, EncryptedAgrees
<1>6. ScreenFits'
  BY <1>1 DEF IInv, ScreenFits
<1> QED
  BY <1>3, <1>4, <1>5, <1>6 DEF IInv

LEMMA AskForPasswordIInv == ASSUME IInv, AskForPassword PROVE IInv'
<1>1. /\ Deliver("question")
      /\ queue' = Tail(queue)
      /\ gui' = GuiAt("asking", NoFile, FALSE)
      /\ welcome' = FALSE
      /\ UNCHANGED <<running, disk, settings, saved, wallet, overview, late,
                     stale, starts, userActions>>
  BY DEF AskForPassword
<1>2. /\ gui.pc = "eventLoop" /\ running
      /\ queue # <<>> /\ queue \in Seq(Events)
      /\ Head(queue) = Question
  BY <1>1, DeliverAt, EventKinds
<1>3. queue[1] = Question /\ 1 \in DOMAIN queue
  BY <1>2, Delivered
<1>4. Len(queue) = 1 /\ wallet = NoWallet
  BY <1>3 DEF IInv, QuestionOrder
<1>5. queue' = <<>> /\ queue' \in Seq(Events) /\ Len(queue') = 0
  BY <1>1, <1>2, <1>4
<1>6. /\ gui'.pc = "asking" /\ gui'.file = NoFile
      /\ gui' \in GuiPositions
  BY <1>1 DEF GuiAt, GuiPositions
<1>7. /\ userActions \in Nat /\ starts \in Nat
      /\ userActions' = userActions /\ starts' = starts
  BY <1>1, CountsTyped DEF IInv
<1>8. TypeOK'
  <2>1. {running', welcome', overview', late', stale'} \subseteq BOOLEAN
    BY <1>1 DEF IInv, TypeOK
  <2>2. Len(queue') <= userActions' + starts'
    BY <1>5, <1>7
  <2> QED
    BY <1>1, <1>5, <1>6, <2>1, <2>2 DEF IInv, TypeOK
<1>9. Bounded'
  <2>1. 1 <= userActions + starts
    BY <1>2, <1>4 DEF IInv, Bounded, Posting
  <2>2. Posting' = 1
    BY <1>6 DEF Posting
  <2> QED
    BY <1>5, <1>7, <2>1, <2>2 DEF Bounded
<1>10. QuestionOrder'
  BY <1>5 DEF QuestionOrder
<1>11. HandlerOrder'
  BY <1>1, <1>2, <1>4, <1>6, NoWalletFacts DEF IInv, HandlerOrder
<1>12. WalletIsOfSettings' /\ EncryptedAgrees' /\ ScreenFits'
  BY <1>1, <1>4, NoWalletFacts
     DEF IInv, WalletIsOfSettings, EncryptedAgrees, ScreenFits
<1> QED
  BY <1>8, <1>9, <1>10, <1>11, <1>12 DEF IInv

LEMMA EnterPasswordIInv ==
  ASSUME IInv, NEW answer \in {"empty", "right", "wrong"},
         EnterPassword(answer)
  PROVE  IInv'
<1>1. /\ running /\ gui.pc = "asking"
      /\ Answers(answer)
      /\ gui' = EventLoop
      /\ UNCHANGED <<running, disk, welcome, overview, late, stale, starts,
                     userActions>>
  BY DEF EnterPassword, screen
<1>2. queue = <<>> /\ wallet = NoWallet
  BY <1>1 DEF IInv, QuestionOrder, HandlerOrder
<1>3. settings.file \in AllFiles
  BY DEF IInv, TypeOK
<1>4. Opened
  <2>1. \/ OpenEmpty(settings.file)
        \/ OpenWithPassword(settings.file, TRUE)
        \/ OpenWithPassword(settings.file, FALSE)
    BY <1>1 DEF Answers
  <2>2. TypeOK
    BY DEF IInv
  <2>3. CASE OpenEmpty(settings.file)
    BY <1>2, <1>3, <2>2, <2>3, OpenEmptyOpens
  <2>4. ASSUME NEW right \in BOOLEAN, OpenWithPassword(settings.file, right)
        PROVE  Opened
    BY <1>3, <2>2, <2>4, OpenWithPasswordOpens
  <2> QED
    BY <2>1, <2>3, <2>4
<1>5. Len(queue) + 1 <= userActions' + starts'
  BY <1>1, <1>2 DEF IInv, Bounded, Posting
<1>6. overview => stale \/ late
  BY <1>1, <1>2, NoWalletFacts DEF IInv, ScreenFits
<1>7. /\ {welcome', overview', late', stale'} \subseteq BOOLEAN
      /\ starts' \in 0 .. MaxStarts /\ userActions' \in 0 .. MaxUserActions
  BY <1>1 DEF IInv, TypeOK
<1>8. /\ \A i \in DOMAIN queue : queue[i] # Question
      /\ running' /\ disk' = disk /\ gui' = EventLoop
      /\ overview' => stale' \/ late'
      /\ wallet'.state = "empty" => queue = <<>>
  BY <1>1, <1>2, <1>6
<1> QED
  BY <1>4, <1>5, <1>7, <1>8, OpenedIInv

LEMMA RejectPasswordIInv == ASSUME IInv, RejectPassword PROVE IInv'
<1>1. /\ running /\ gui.pc = "asking"
      /\ gui' = EventLoop
      /\ welcome' = TRUE /\ overview' = FALSE /\ late' = FALSE
      /\ UNCHANGED <<running, disk, settings, saved, wallet, queue, stale,
                     starts, userActions>>
  BY DEF RejectPassword, ShowClosed
<1>2. queue = <<>> /\ wallet = NoWallet
  BY <1>1 DEF IInv, QuestionOrder, HandlerOrder
<1>3. gui' \in GuiPositions /\ gui'.pc = "eventLoop"
  BY <1>1 DEF EventLoop, GuiAt, GuiPositions
<1>4. TypeOK'
  <2>1. {running', welcome', overview', late', stale'} \subseteq BOOLEAN
    BY <1>1 DEF IInv, TypeOK
  <2> QED
    BY <1>1, <1>3, <2>1 DEF IInv, TypeOK
<1>5. Bounded'
  BY <1>1, <1>3, CountsTyped DEF IInv, Bounded, Posting
<1>6. QuestionOrder' /\ HandlerOrder'
  BY <1>1, <1>2, <1>3, NoWalletFacts DEF QuestionOrder, HandlerOrder
<1>7. WalletIsOfSettings' /\ EncryptedAgrees' /\ ScreenFits'
  BY <1>1, <1>2, NoWalletFacts
     DEF WalletIsOfSettings, EncryptedAgrees, ScreenFits
<1> QED
  BY <1>4, <1>5, <1>6, <1>7 DEF IInv

(* What the user asks for while there is no question. *)
LEMMA AtUserAction ==
  ASSUME IInv, UserAction
  PROVE  /\ running /\ gui = EventLoop /\ gui.pc = "eventLoop"
         /\ \A i \in DOMAIN queue : queue[i] # Question
         /\ userActions' \in 0 .. MaxUserActions
         /\ userActions \in Nat /\ starts \in Nat /\ Len(queue) \in Nat
         /\ userActions' = userActions + 1
         /\ Len(queue) <= userActions + starts
<1>1. running /\ gui = EventLoop /\ gui.pc = "eventLoop"
  BY DEF UserAction, EventLoop, GuiAt
<1>2. \A i \in DOMAIN queue : queue[i] # Question
  BY DEF UserAction, Urgent, Question
<1>3. userActions' = userActions + 1 /\ userActions < MaxUserActions
  BY DEF UserAction
<1>4. userActions \in Nat /\ starts \in Nat /\ Len(queue) \in Nat
  BY CountsTyped DEF IInv
<1>5. userActions' \in 0 .. MaxUserActions
  BY <1>3, <1>4, FilesAssumption
<1>6. Len(queue) <= userActions + starts
  BY DEF IInv, TypeOK
<1> QED
  BY <1>1, <1>2, <1>3, <1>4, <1>5, <1>6

(* A wallet is closed to open or create another one. *)
LEMMA ChosenIInv ==
  ASSUME IInv, UserAction, NEW file \in AllFiles,
         NEW pc \in {"open", "create", "import"}, NEW shown \in BOOLEAN,
         pc = "open" => disk[file] # "absent",
         pc # "open" => file \in Files,
         wallet' = NoWallet,
         SetWalletFile(file)
           \/ (file = settings.file /\ UNCHANGED <<settings, saved>>),
         gui' = GuiAt(pc, file, shown),
         IF wallet = NoWallet THEN UNCHANGED screen ELSE ShowClosed,
         UNCHANGED <<running, disk, queue, stale, starts>>
  PROVE  IInv'
<1>1. /\ running /\ \A i \in DOMAIN queue : queue[i] # Question
      /\ userActions' \in 0 .. MaxUserActions
      /\ userActions \in Nat /\ starts \in Nat /\ Len(queue) \in Nat
      /\ userActions' = userActions + 1
      /\ Len(queue) <= userActions + starts
  BY AtUserAction
<1>2. /\ settings' \in [file : AllFiles, encrypted : BOOLEAN]
      /\ saved' \in [file : AllFiles, encrypted : BOOLEAN]
  <2>1. {settings, saved} \subseteq [file : AllFiles, encrypted : BOOLEAN]
    BY DEF IInv, TypeOK
  <2>2. CASE SetWalletFile(file)
    <3>1. (file = settings.file /\ settings.encrypted) \in BOOLEAN
      BY <2>1
    <3> QED
      BY <2>2, <3>1 DEF SetWalletFile, Save, Config
  <2>3. CASE UNCHANGED <<settings, saved>>
    BY <2>1, <2>3
  <2> QED
    BY <2>2, <2>3
<1>3. gui' \in GuiPositions /\ gui'.pc = pc /\ gui'.file = file
  BY DEF GuiAt, GuiPositions
<1>4. /\ {welcome', overview', late'} \subseteq BOOLEAN
      /\ overview' => stale' \/ late'
  <2>1. CASE wallet = NoWallet
    <3>1. welcome' = welcome /\ overview' = overview /\ late' = late
      BY <2>1 DEF screen
    <3>2. overview => stale \/ late
      BY <1>1, <2>1, NoWalletFacts DEF IInv, ScreenFits
    <3> QED
      BY <3>1, <3>2 DEF IInv, TypeOK
  <2>2. CASE wallet # NoWallet
    BY <2>2 DEF ShowClosed
  <2> QED
    BY <2>1, <2>2
<1>5. TypeOK'
  <2>1. {running', welcome', overview', late', stale'} \subseteq BOOLEAN
    BY <1>4 DEF IInv, TypeOK
  <2>2. Len(queue') <= userActions' + starts'
    BY <1>1
  <2> QED
    BY <1>1, <1>2, <1>3, <2>1, <2>2, NoWalletFacts DEF IInv, TypeOK
<1>6. Bounded'
  BY <1>1, <1>3 DEF Bounded, Posting
<1>7. QuestionOrder'
  BY <1>1, <1>3, NoWalletFacts DEF QuestionOrder
<1>8. HandlerOrder'
  BY <1>1, <1>3, NoWalletFacts DEF HandlerOrder
<1>9. WalletIsOfSettings' /\ EncryptedAgrees' /\ ScreenFits'
  BY <1>4, NoWalletFacts DEF WalletIsOfSettings, EncryptedAgrees, ScreenFits
<1> QED
  BY <1>5, <1>6, <1>7, <1>8, <1>9 DEF IInv

LEMMA OpenWalletIInv ==
  ASSUME IInv, NEW file \in AllFiles, OpenWallet(file) PROVE IInv'
<1>1. welcome \in BOOLEAN
  BY DEF IInv, TypeOK
<1> QED
  BY <1>1, ChosenIInv DEF OpenWallet

LEMMA CreateWalletIInv ==
  ASSUME IInv, NEW file \in Files, NEW import \in BOOLEAN,
         CreateWallet(file, import)
  PROVE  IInv'
<1>1. file \in AllFiles /\ welcome \in BOOLEAN
  BY DEF AllFiles, IInv, TypeOK
<1>2. CASE import
  BY <1>1, <1>2, ChosenIInv DEF CreateWallet
<1>3. CASE ~import
  BY <1>1, <1>3, ChosenIInv DEF CreateWallet
<1> QED
  BY <1>2, <1>3

LEMMA OpenChosenIInv == ASSUME IInv, OpenChosen PROVE IInv'
<1>1. /\ running /\ gui.pc = "open" /\ OpenEmpty(gui.file)
      /\ welcome' = gui.shown /\ gui' = EventLoop
      /\ UNCHANGED <<running, disk, overview, late, stale, starts,
                     userActions>>
  BY DEF OpenChosen
<1>2. wallet = NoWallet /\ gui.file \in AllFiles /\ disk[gui.file] # "absent"
  BY <1>1 DEF IInv, HandlerOrder
<1>3. Opened /\ wallet'.state # "empty"
  <2>1. TypeOK
    BY DEF IInv
  <2>2. OpenEmpty(gui.file)
    BY <1>1
  <2> QED
    BY <1>2, <2>1, <2>2, OpenEmptyOpens
<1>4. \A i \in DOMAIN queue : queue[i] # Question
  BY <1>1 DEF IInv, QuestionOrder
<1>5. Len(queue) + 1 <= userActions' + starts'
  BY <1>1 DEF IInv, Bounded, Posting
<1>6. overview => stale \/ late
  BY <1>1, <1>2, NoWalletFacts DEF IInv, ScreenFits
<1>7. gui.shown \in BOOLEAN
  BY DEF IInv, TypeOK, GuiPositions
<1>8. /\ {welcome', overview', late', stale'} \subseteq BOOLEAN
      /\ starts' \in 0 .. MaxStarts /\ userActions' \in 0 .. MaxUserActions
  BY <1>1, <1>7 DEF IInv, TypeOK
<1>9. /\ running' /\ disk' = disk /\ gui' = EventLoop
      /\ overview' => stale' \/ late'
  BY <1>1, <1>6
<1> QED
  BY <1>3, <1>4, <1>5, <1>8, <1>9, OpenedIInv

LEMMA ConfirmSeedIInv == ASSUME IInv, ConfirmSeed PROVE IInv'
<1>1. /\ UserAction /\ wallet.state = "created" /\ wallet' = NoWallet
      /\ ShowClosed
      /\ gui' = GuiAt("open", settings.file, TRUE)
      /\ UNCHANGED <<running, disk, settings, saved, queue, stale, starts>>
  BY DEF ConfirmSeed
<1>2. wallet # NoWallet
  BY <1>1, NoWalletFacts
<1>3. settings.file \in AllFiles /\ disk[settings.file] # "absent"
  BY <1>1, <1>2 DEF IInv, TypeOK, HandlerOrder, WalletIsOfSettings
<1> QED
  BY <1>1, <1>2, <1>3, ChosenIInv

(* The wallet goes, or only the screen changes. *)
LEMMA ClosedIInv ==
  ASSUME IInv, UserAction, wallet' = NoWallet \/ wallet' = wallet,
         ShowClosed,
         UNCHANGED <<running, disk, settings, saved, queue, gui, stale,
                     starts>>
  PROVE  IInv'
<1>1. /\ running /\ gui = EventLoop /\ gui.pc = "eventLoop"
      /\ \A i \in DOMAIN queue : queue[i] # Question
      /\ userActions' \in 0 .. MaxUserActions
      /\ userActions \in Nat /\ starts \in Nat /\ Len(queue) \in Nat
      /\ userActions' = userActions + 1
      /\ Len(queue) <= userActions + starts
  BY AtUserAction
<1>2. welcome' = TRUE /\ overview' = FALSE /\ late' = FALSE
  BY DEF ShowClosed
<1>3. wallet' \in Wallets
  BY NoWalletFacts DEF IInv, TypeOK
<1>4. TypeOK'
  <2>1. {running', welcome', overview', late', stale'} \subseteq BOOLEAN
    BY <1>2 DEF IInv, TypeOK
  <2>2. Len(queue') <= userActions' + starts'
    BY <1>1
  <2> QED
    BY <1>1, <1>3, <2>1, <2>2 DEF IInv, TypeOK
<1>5. Bounded'
  BY <1>1 DEF Bounded, Posting
<1>6. QuestionOrder'
  BY <1>1, NoWalletFacts DEF IInv, QuestionOrder
<1>7. HandlerOrder'
  BY <1>1, NoWalletFacts DEF IInv, HandlerOrder
<1>8. WalletIsOfSettings'
  BY NoWalletFacts DEF IInv, WalletIsOfSettings
<1>9. EncryptedAgrees' /\ ScreenFits'
  BY <1>1, <1>2, NoWalletFacts DEF IInv, EncryptedAgrees, ScreenFits
<1> QED
  BY <1>4, <1>5, <1>6, <1>7, <1>8, <1>9 DEF IInv

LEMMA CloseWalletIInv == ASSUME IInv, CloseWallet PROVE IInv'
BY ClosedIInv DEF CloseWallet

LEMMA GoToWelcomeIInv == ASSUME IInv, GoToWelcome PROVE IInv'
BY ClosedIInv DEF GoToWelcome

LEMMA CreateChosenIInv == ASSUME IInv, CreateChosen PROVE IInv'
<1>1. /\ running /\ gui.pc \in {"create", "import"}
      /\ disk' = [disk EXCEPT ![gui.file] = "plain"]
      /\ gui' = EventLoop
      /\ welcome' \in {welcome, gui.shown}
      /\ UNCHANGED <<running, overview, late, stale, starts, userActions>>
  BY DEF CreateChosen, Creating
<1>2. /\ wallet = NoWallet /\ gui.file \in Files /\ gui.file \in AllFiles
      /\ disk \in [AllFiles -> Contents]
  BY <1>1 DEF IInv, TypeOK, HandlerOrder, AllFiles
<1>3. disk' \in [AllFiles -> Contents] /\ disk'[gui.file] = "plain"
  BY <1>1, <1>2 DEF Contents
<1>4. /\ userActions \in Nat /\ starts \in Nat
      /\ queue \in Seq(Events) /\ Len(queue) \in Nat
      /\ Len(queue) + 1 <= userActions + starts
      /\ \A i \in DOMAIN queue : queue[i] # Question
  BY <1>1, CountsTyped DEF IInv, Bounded, Posting, QuestionOrder
<1>5. gui' \in GuiPositions /\ gui'.pc = "eventLoop"
  BY <1>1 DEF EventLoop, GuiAt, GuiPositions
<1>6. /\ settings' = Config(gui.file, FALSE) /\ saved' = settings'
      /\ \/ /\ wallet' = Wallet(gui.file, "created")
            /\ queue' = queue
         \/ /\ wallet' = Wallet(gui.file, "loading")
            /\ \E outcome \in Outcomes :
                 queue' = Append(queue, Report(gui.file, outcome))
  BY DEF CreateChosen, Loads, Save, Post, Outcomes
<1>7. /\ settings' \in [file : AllFiles, encrypted : BOOLEAN]
      /\ settings'.file = gui.file /\ settings'.encrypted = FALSE
      /\ wallet' \in Wallets /\ wallet' # NoWallet
      /\ wallet'.file = gui.file /\ wallet'.state \in {"created", "loading"}
  BY <1>2, <1>6 DEF Config, Wallet, Wallets, NoWallet
<1>8. /\ queue' \in Seq(Events) /\ Len(queue') <= Len(queue) + 1
      /\ \A i \in DOMAIN queue' : queue'[i] # Question
  <2>1. \A outcome \in Outcomes :
          /\ Report(gui.file, outcome) \in Events
          /\ Report(gui.file, outcome) # Question
    BY <1>2 DEF Report, Events, Question
  <2>2. CASE queue' = queue
    BY <1>4, <2>2
  <2>3. ASSUME NEW outcome \in Outcomes,
               queue' = Append(queue, Report(gui.file, outcome))
        PROVE  /\ queue' \in Seq(Events) /\ Len(queue') <= Len(queue) + 1
               /\ \A i \in DOMAIN queue' : queue'[i] # Question
    BY <1>4, <2>1, <2>3, Appended
  <2> QED
    BY <1>6, <2>2, <2>3
<1>9. Len(queue') \in Nat /\ Len(queue') <= userActions' + starts'
  BY <1>1, <1>4, <1>8
<1>10. TypeOK'
  <2>1. {running', welcome', overview', late', stale'} \subseteq BOOLEAN
    BY <1>1 DEF IInv, TypeOK, GuiPositions
  <2>2. starts' \in 0 .. MaxStarts /\ userActions' \in 0 .. MaxUserActions
    BY <1>1 DEF IInv, TypeOK
  <2> QED
    BY <1>3, <1>5, <1>6, <1>7, <1>8, <1>9, <2>1, <2>2 DEF TypeOK
<1>11. Bounded'
  BY <1>5, <1>9 DEF Bounded, Posting
<1>12. QuestionOrder' /\ HandlerOrder'
  BY <1>1, <1>2, <1>3, <1>5, <1>7, <1>8 DEF QuestionOrder, HandlerOrder
<1>13. WalletIsOfSettings' /\ EncryptedAgrees'
  BY <1>3, <1>7 DEF WalletIsOfSettings, EncryptedAgrees
<1>14. ScreenFits'
  BY <1>1, <1>2, NoWalletFacts DEF IInv, ScreenFits
<1> QED
  BY <1>10, <1>11, <1>12, <1>13, <1>14 DEF IInv

LEMMA ChangePasswordIInv ==
  ASSUME IInv, NEW contents \in {"plain", "locked"}, ChangePassword(contents)
  PROVE  IInv'
<1>1. /\ UserAction /\ wallet.state \in {"open", "loading", "created"}
      /\ disk' = [disk EXCEPT ![wallet.file] = contents]
      /\ gui' = GuiAt("password", wallet.file, contents = "locked")
      /\ UNCHANGED <<running, settings, saved, wallet, queue, welcome,
                     overview, late, stale, starts>>
  BY DEF ChangePassword, screen
<1>2. /\ running /\ \A i \in DOMAIN queue : queue[i] # Question
      /\ userActions' \in 0 .. MaxUserActions
      /\ userActions \in Nat /\ starts \in Nat /\ Len(queue) \in Nat
      /\ userActions' = userActions + 1
      /\ Len(queue) <= userActions + starts
  BY <1>1, AtUserAction
<1>3. wallet \in Wallets /\ wallet # NoWallet /\ wallet.file \in AllFiles
  BY <1>1, WalletKinds, NoWalletFacts DEF IInv, TypeOK
<1>4. /\ disk' \in [AllFiles -> Contents]
      /\ disk'[wallet.file] = contents
  BY <1>1, <1>3 DEF IInv, TypeOK, Contents
<1>5. /\ gui' \in GuiPositions /\ gui'.pc = "password"
      /\ gui'.shown = (contents = "locked")
  BY <1>1, <1>3 DEF GuiAt, GuiPositions
<1>6. TypeOK'
  <2>1. {running', welcome', overview', late', stale'} \subseteq BOOLEAN
    BY <1>1 DEF IInv, TypeOK
  <2>2. Len(queue') <= userActions' + starts'
    BY <1>1, <1>2
  <2> QED
    BY <1>1, <1>2, <1>4, <1>5, <2>1, <2>2 DEF IInv, TypeOK
<1>7. Bounded'
  BY <1>1, <1>2, <1>5 DEF Bounded, Posting
<1>8. QuestionOrder' /\ HandlerOrder'
  BY <1>1, <1>2, <1>3, <1>4, <1>5 DEF IInv, QuestionOrder, HandlerOrder
<1>9. WalletIsOfSettings' /\ EncryptedAgrees' /\ ScreenFits'
  BY <1>1, <1>5
     DEF IInv, WalletIsOfSettings, EncryptedAgrees, ScreenFits
<1> QED
  BY <1>6, <1>7, <1>8, <1>9 DEF IInv

LEMMA PasswordChangedIInv == ASSUME IInv, PasswordChanged PROVE IInv'
<1>1. /\ running /\ gui.pc = "password" /\ gui' = EventLoop
      /\ settings' = Config(settings.file, gui.shown) /\ saved' = settings'
      /\ UNCHANGED <<running, disk, wallet, queue, welcome, overview, late,
                     stale, starts, userActions>>
  BY DEF PasswordChanged, Save, screen
<1>2. gui.shown \in BOOLEAN /\ settings.file \in AllFiles
  BY DEF IInv, TypeOK, GuiPositions
<1>3. /\ settings' \in [file : AllFiles, encrypted : BOOLEAN]
      /\ settings'.file = settings.file
      /\ settings'.encrypted = gui.shown
  BY <1>1, <1>2 DEF Config
<1>4. gui' \in GuiPositions /\ gui'.pc = "eventLoop"
  BY <1>1 DEF EventLoop, GuiAt, GuiPositions
<1>5. /\ wallet.state \in {"open", "loading", "created"}
      /\ gui.shown = (disk[wallet.file] = "locked")
  BY <1>1 DEF IInv, HandlerOrder
<1>6. TypeOK'
  <2>1. {running', welcome', overview', late', stale'} \subseteq BOOLEAN
    BY <1>1 DEF IInv, TypeOK
  <2> QED
    BY <1>1, <1>3, <1>4, <2>1 DEF IInv, TypeOK
<1>7. Bounded'
  BY <1>1, <1>4, CountsTyped DEF IInv, Bounded, Posting
<1>8. QuestionOrder' /\ HandlerOrder'
  BY <1>1, <1>4, <1>5 DEF IInv, QuestionOrder, HandlerOrder
<1>9. WalletIsOfSettings' /\ EncryptedAgrees' /\ ScreenFits'
  BY <1>1, <1>3, <1>5
     DEF IInv, WalletIsOfSettings, EncryptedAgrees, ScreenFits
<1> QED
  BY <1>6, <1>7, <1>8, <1>9 DEF IInv

(* The end of the program, whatever becomes of the settings. *)
LEMMA EndsIInv ==
  ASSUME IInv, Ends,
         {settings', saved'} \subseteq [file : AllFiles, encrypted : BOOLEAN]
  PROVE  IInv'
<1>1. /\ running' = FALSE
      /\ wallet' = NoWallet /\ queue' = <<>> /\ gui' = EventLoop
      /\ UNCHANGED <<disk, welcome, overview, late, stale, starts,
                     userActions>>
  BY DEF Ends, screen
<1>2. gui' \in GuiPositions /\ gui'.pc = "eventLoop"
  BY <1>1 DEF EventLoop, GuiAt, GuiPositions
<1>3. /\ userActions \in Nat /\ starts \in Nat
      /\ userActions' = userActions /\ starts' = starts
  BY <1>1, CountsTyped DEF IInv
<1>4. queue' \in Seq(Events) /\ Len(queue') = 0
  BY <1>1
<1>5. Len(queue') <= userActions' + starts'
  BY <1>3, <1>4
<1>6. TypeOK'
  <2>1. {running', welcome', overview', late', stale'} \subseteq BOOLEAN
    BY <1>1 DEF IInv, TypeOK
  <2> QED
    BY <1>1, <1>2, <1>4, <1>5, <2>1, NoWalletFacts DEF IInv, TypeOK
<1>7. Bounded'
  BY <1>2, <1>3, <1>4 DEF Bounded, Posting
<1>8. QuestionOrder' /\ HandlerOrder'
  BY <1>1, <1>2, NoWalletFacts DEF QuestionOrder, HandlerOrder
<1>9. WalletIsOfSettings' /\ EncryptedAgrees' /\ ScreenFits'
  BY <1>1, NoWalletFacts
     DEF WalletIsOfSettings, EncryptedAgrees, ScreenFits
<1> QED
  BY <1>6, <1>7, <1>8, <1>9 DEF IInv

LEMMA StopIInv == ASSUME IInv, Stop PROVE IInv'
<1>1. DefaultSettings \in [file : AllFiles, encrypted : BOOLEAN]
  BY FilesAssumption DEF DefaultSettings, Config, AllFiles
<1>2. {settings, saved} \subseteq [file : AllFiles, encrypted : BOOLEAN]
  BY DEF IInv, TypeOK
<1> QED
  BY <1>1, <1>2, EndsIInv DEF Stop

LEMMA CreateRefusedIInv == ASSUME IInv, CreateRefused PROVE IInv'
<1>1. /\ settings' = Config(gui.file, FALSE) /\ saved' = settings' /\ Ends
      /\ gui.file \in AllFiles
  BY DEF CreateRefused, Creating, Save, IInv, HandlerOrder, AllFiles
<1>2. settings' \in [file : AllFiles, encrypted : BOOLEAN]
  BY <1>1 DEF Config
<1> QED
  BY <1>1, <1>2, EndsIInv

LEMMA TransactionSentIInv == ASSUME IInv, TransactionSent PROVE IInv'
<1>1. /\ running /\ wallet.state = "open"
      /\ userActions < MaxUserActions /\ userActions' = userActions + 1
      /\ queue' = Append(queue, Completion)
      /\ UNCHANGED <<running, disk, settings, saved, wallet, gui, welcome,
                     overview, late, stale, starts>>
  BY DEF TransactionSent, Post, screen
<1>2. /\ userActions \in Nat /\ starts \in Nat
      /\ queue \in Seq(Events) /\ Len(queue) \in Nat
      /\ Len(queue) + Posting <= userActions + starts
      /\ Len(queue) <= userActions + starts
  BY CountsTyped DEF IInv, Bounded, TypeOK
<1>3. wallet # NoWallet /\ gui.pc # "asking"
  BY <1>1, NoWalletFacts DEF IInv, HandlerOrder
<1>4. \A i \in DOMAIN queue : queue[i] # Question
  BY <1>3 DEF IInv, QuestionOrder
<1>5. /\ queue' \in Seq(Events) /\ Len(queue') = Len(queue) + 1
      /\ \A i \in DOMAIN queue' : queue'[i] # Question
  BY <1>1, <1>2, <1>4, Appended, EventKinds
<1>6. userActions' \in 0 .. MaxUserActions
  BY <1>1, <1>2, FilesAssumption
<1>7. Len(queue') <= userActions' + starts'
  BY <1>1, <1>2, <1>5
<1>8. TypeOK'
  <2>1. {running', welcome', overview', late', stale'} \subseteq BOOLEAN
    BY <1>1 DEF IInv, TypeOK
  <2> QED
    BY <1>1, <1>5, <1>6, <1>7, <2>1 DEF IInv, TypeOK
<1>9. Bounded'
  <2>1. Posting' = Posting /\ Posting \in {0, 1}
    BY <1>1 DEF Posting
  <2> QED
    BY <1>1, <1>2, <1>5, <2>1 DEF Bounded
<1>10. QuestionOrder' /\ HandlerOrder'
  BY <1>1, <1>3, <1>5 DEF IInv, QuestionOrder, HandlerOrder
<1>11. WalletIsOfSettings' /\ EncryptedAgrees' /\ ScreenFits'
  BY <1>1 DEF IInv, WalletIsOfSettings, EncryptedAgrees, ScreenFits
<1> QED
  BY <1>8, <1>9, <1>10, <1>11 DEF IInv

LEMMA StartIInv == ASSUME IInv, Start PROVE IInv'
<1>1. /\ ~running /\ starts < MaxStarts /\ running' = TRUE
      /\ starts' = starts + 1 /\ stale' = FALSE
      /\ welcome' = TRUE /\ overview' = FALSE /\ late' = FALSE
      /\ UNCHANGED <<disk, gui, userActions>>
  BY DEF Start, ShowClosed
<1>2. queue = <<>> /\ wallet = NoWallet /\ gui = EventLoop
  BY <1>1 DEF IInv, HandlerOrder
<1>3. /\ userActions \in Nat /\ starts \in Nat
      /\ userActions' \in 0 .. MaxUserActions
      /\ userActions' = userActions
  BY <1>1, CountsTyped DEF IInv, TypeOK
<1>4. starts' \in 0 .. MaxStarts
  BY <1>1, <1>3, FilesAssumption
<1>5. Opened
  <2>1. CASE saved.encrypted
    <3>1. /\ settings' = saved /\ saved' = saved /\ wallet' = wallet
          /\ queue' = Append(queue, Question)
      BY <2>1 DEF Start, Post
    <3>2. Question \in Events
      BY DEF Events
    <3>3. saved \in [file : AllFiles, encrypted : BOOLEAN]
      BY DEF IInv, TypeOK
    <3> QED
      BY <1>2, <3>1, <3>2, <3>3, NoWalletFacts DEF Opened
  <2>2. CASE ~saved.encrypted
    <3>1. OpenEmpty(saved.file) /\ saved.file \in AllFiles /\ TypeOK
      BY <2>2 DEF Start, IInv, TypeOK
    <3> QED
      BY <1>2, <3>1, OpenEmptyOpens
  <2> QED
    BY <2>1, <2>2
<1>6. Len(queue) + 1 <= userActions' + starts'
  BY <1>1, <1>2, <1>3
<1>7. {welcome', overview', late', stale'} \subseteq BOOLEAN
  BY <1>1
<1>8. /\ running' /\ gui' = EventLoop /\ disk' = disk
      /\ \A i \in DOMAIN queue : queue[i] # Question
      /\ wallet'.state = "empty" => queue = <<>>
      /\ overview' => stale' \/ late'
  BY <1>1, <1>2
<1> QED
  BY <1>3, <1>4, <1>5, <1>6, <1>7, <1>8, OpenedIInv

LEMMA StutterIInv == ASSUME IInv, UNCHANGED vars PROVE IInv'
BY DEF vars, screen, IInv, TypeOK, Bounded, Posting, QuestionOrder,
       HandlerOrder, WalletIsOfSettings, EncryptedAgrees, ScreenFits

LEMMA StepIInv == IInv /\ [Next]_vars => IInv'
<1> SUFFICES ASSUME IInv, [Next]_vars PROVE IInv'
  OBVIOUS
<1>1. CASE GuiStep
  BY <1>1, OnLoadedIInv, OnLoadFailedIInv, OnWrongPasswordIInv,
     OnCompletedIInv, AskForPasswordIInv, OpenChosenIInv, CreateChosenIInv,
     CreateRefusedIInv, PasswordChangedIInv
     DEF GuiStep
<1>2. CASE Dialog
  BY <1>2, EnterPasswordIInv, RejectPasswordIInv DEF Dialog
<1>3. CASE User
  BY <1>3, OpenWalletIInv, CreateWalletIInv, ConfirmSeedIInv,
     CloseWalletIInv, GoToWelcomeIInv, ChangePasswordIInv
     DEF User
<1>4. CASE TransactionSent \/ Stop \/ Start
  BY <1>4, TransactionSentIInv, StopIInv, StartIInv
<1>5. CASE UNCHANGED vars
  BY <1>5, StutterIInv
<1> QED
  BY <1>1, <1>2, <1>3, <1>4, <1>5 DEF Next

LEMMA Inductive == Spec => []IInv
BY InitIInv, StepIInv, PTL DEF Spec
-----------------------------------------------------------------------------
(***************************************************************************)
(* The variables keep their types, and no more events are queued than the  *)
(* user and the starts of the program have caused.                         *)
(***************************************************************************)
THEOREM TypeCorrect == Spec => []TypeOK
<1>1. IInv => TypeOK
  BY DEF IInv
<1> QED
  BY <1>1, Inductive, PTL

(***************************************************************************)
(* The wallet object is always that of the file which the settings name.   *)
(***************************************************************************)
THEOREM OneFile == Spec => []WalletIsOfSettings
<1>1. IInv => WalletIsOfSettings
  BY DEF IInv
<1> QED
  BY <1>1, Inductive, PTL

(***************************************************************************)
(* The flag "encrypted" of the settings is right about the open wallet,    *)
(* through crashes, changes of the password and other wallets opened.      *)
(***************************************************************************)
THEOREM FlagIsRight == Spec => []EncryptedAgrees
<1>1. IInv => EncryptedAgrees
  BY DEF IInv
<1> QED
  BY <1>1, Inductive, PTL

(***************************************************************************)
(* A password is asked for only while no wallet is open.                   *)
(***************************************************************************)
THEOREM NoQuestionOverAWallet == Spec => []AsksWhileClosed
<1>1. IInv => AsksWhileClosed
  BY DEF IInv, QuestionOrder, HandlerOrder, AsksWhileClosed
<1> QED
  BY <1>1, Inductive, PTL

(***************************************************************************)
(* The pages of a wallet are shown only while it is open, or else a report *)
(* or the completion of a transaction came for a wallet that was gone.     *)
(***************************************************************************)
THEOREM PagesOfAnOpenWallet == Spec => []ScreenFits
<1>1. IInv => ScreenFits
  BY DEF IInv
<1> QED
  BY <1>1, Inductive, PTL
-----------------------------------------------------------------------------
(***************************************************************************)
(* The refinement: each step of the session is a step of OneWallet, or     *)
(* leaves the open wallet and the files as they are.                       *)
(***************************************************************************)
Current == IF wallet.state \in {"none", "empty"} THEN NoFile ELSE wallet.file

Implemented == [Promise!Next]_<<Current, disk>>

LEMMA ClosesOrStays ==
  ASSUME IInv, disk' = disk,
         \/ wallet' = NoWallet
         \/ wallet' = wallet
         \/ /\ wallet.state # "empty" /\ wallet # NoWallet
            /\ wallet' = [wallet EXCEPT !.state = "open"]
  PROVE  Implemented
<1>1. wallet \in Wallets
  BY DEF IInv, TypeOK
<1>2. CASE wallet' = NoWallet
  <2>1. Current' = NoFile
    BY <1>2, NoWalletFacts DEF Current
  <2> QED
    BY <1>2, <2>1 DEF Implemented, Current, Promise!Next, Promise!Close
<1>3. CASE wallet' = wallet
  BY <1>3 DEF Implemented, Current
<1>4. CASE /\ wallet.state # "empty" /\ wallet # NoWallet
           /\ wallet' = [wallet EXCEPT !.state = "open"]
  <2>1. wallet.state # "none"
    BY <1>1, <1>4, WalletKinds
  <2>2. wallet'.state = "open" /\ wallet'.file = wallet.file
    BY <1>1, <1>4 DEF Wallets, NoWallet, Wallet
  <2> QED
    BY <1>4, <2>1, <2>2 DEF Implemented, Current
<1> QED
  BY <1>2, <1>3, <1>4

LEMMA OpenedImplements ==
  ASSUME IInv, Opened, disk' = disk, wallet = NoWallet
  PROVE  Implemented
<1>1. Current = NoFile
  BY NoWalletFacts DEF Current
<1>2. CASE wallet'.state \in {"none", "empty"}
  <2>1. Current' = NoFile
    BY <1>2 DEF Current
  <2> QED
    BY <2>1 DEF Implemented, Current, Promise!Next, Promise!Close
<1>3. CASE wallet'.state = "loading"
  <2>1. wallet' # NoWallet /\ wallet'.file \in AllFiles
    BY <1>3, WalletKinds, NoWalletFacts DEF Opened
  <2>2. Current' = wallet'.file /\ disk[wallet'.file] \in {"plain", "locked"}
    BY <1>3 DEF Current, Opened
  <2>3. Promise!Open(wallet'.file)
    BY <1>1, <2>2 DEF Promise!Open, Current
  <2> QED
    BY <2>1, <2>3 DEF Implemented, Promise!Next
<1> QED
  BY <1>2, <1>3 DEF Opened

LEMMA CreateChosenImplements == ASSUME IInv, CreateChosen PROVE Implemented
<1>1. /\ gui.pc \in {"create", "import"} /\ disk[gui.file] = "absent"
      /\ disk' = [disk EXCEPT ![gui.file] = "plain"]
      /\ \/ wallet' = Wallet(gui.file, "created")
         \/ wallet' = Wallet(gui.file, "loading")
  BY DEF CreateChosen, Creating, Refused, Loads
<1>2. wallet = NoWallet /\ gui.file \in AllFiles
  BY <1>1 DEF IInv, HandlerOrder, AllFiles
<1>3. Current = NoFile /\ Current' = gui.file
  BY <1>1, <1>2, NoWalletFacts DEF Current, Wallet
<1>4. Promise!Create(gui.file)
  BY <1>1, <1>2, <1>3 DEF Promise!Create, Current
<1> QED
  BY <1>2, <1>4 DEF Implemented, Promise!Next

LEMMA ChangePasswordImplements ==
  ASSUME IInv, NEW contents \in {"plain", "locked"}, ChangePassword(contents)
  PROVE  Implemented
<1>1. /\ wallet.state \in {"open", "loading", "created"}
      /\ wallet' = wallet
      /\ disk' = [disk EXCEPT ![wallet.file] = contents]
  BY DEF ChangePassword
<1>2. wallet # NoWallet /\ wallet.file # NoFile
  BY <1>1, WalletKinds, NoWalletFacts DEF IInv, TypeOK
<1>3. Current = wallet.file /\ Current' = Current
  BY <1>1 DEF Current
<1>4. Promise!ChangePassword
  BY <1>1, <1>2, <1>3 DEF Promise!ChangePassword, Current
<1> QED
  BY <1>4 DEF Implemented, Promise!Next

LEMMA StepImplements == IInv /\ [Next]_vars => Implemented
<1> SUFFICES ASSUME IInv, [Next]_vars PROVE Implemented
  OBVIOUS
<1>1. CASE OnLoaded
  <2>1. Deliver("initCompleted") /\ disk' = disk
    BY <1>1 DEF OnLoaded
  <2>2. wallet.state # "empty"
    BY <2>1, DeliverAt
  <2>3. wallet' = NoWallet \/ ( /\ wallet # NoWallet
                               /\ wallet' = [wallet EXCEPT !.state = "open"])
    BY <1>1 DEF OnLoaded
  <2> QED
    BY <2>1, <2>2, <2>3, ClosesOrStays
<1>2. CASE OnLoadFailed \/ OnWrongPassword \/ AskForPassword
           \/ PasswordChanged \/ RejectPassword \/ CloseWallet
           \/ GoToWelcome \/ ConfirmSeed \/ OnCompleted \/ TransactionSent
           \/ CreateRefused \/ Stop
  <2>1. disk' = disk /\ (wallet' = NoWallet \/ wallet' = wallet)
    BY <1>2 DEF OnLoadFailed, OnWrongPassword, AskForPassword,
                PasswordChanged, RejectPassword, CloseWallet, GoToWelcome,
                ConfirmSeed, OnCompleted, TransactionSent, CreateRefused,
                Stop, Ends
  <2> QED
    BY <2>1, ClosesOrStays
<1>3. CASE OpenChosen
  <2>1. wallet = NoWallet /\ gui.file \in AllFiles /\ disk' = disk
    BY <1>3 DEF OpenChosen, IInv, HandlerOrder
  <2>2. OpenEmpty(gui.file) /\ TypeOK
    BY <1>3 DEF OpenChosen, IInv
  <2> QED
    BY <2>1, <2>2, OpenEmptyOpens, OpenedImplements
<1>4. CASE CreateChosen
  BY <1>4, CreateChosenImplements
<1>5. ASSUME NEW answer \in {"empty", "right", "wrong"},
             EnterPassword(answer)
      PROVE  Implemented
  <2>1. wallet = NoWallet /\ disk' = disk
    BY <1>5 DEF EnterPassword, IInv, HandlerOrder
  <2>2. settings.file \in AllFiles /\ TypeOK
    BY DEF IInv, TypeOK
  <2>3. \/ OpenEmpty(settings.file)
        \/ OpenWithPassword(settings.file, TRUE)
        \/ OpenWithPassword(settings.file, FALSE)
    BY <1>5 DEF EnterPassword, Answers
  <2>4. CASE OpenEmpty(settings.file)
    BY <2>1, <2>2, <2>4, OpenEmptyOpens, OpenedImplements
  <2>5. ASSUME NEW right \in BOOLEAN, OpenWithPassword(settings.file, right)
        PROVE  Implemented
    BY <2>1, <2>2, <2>5, OpenWithPasswordOpens, OpenedImplements
  <2> QED
    BY <2>3, <2>4, <2>5
<1>6. ASSUME NEW file \in AllFiles, OpenWallet(file) PROVE Implemented
  BY <1>6, ClosesOrStays DEF OpenWallet
<1>7. ASSUME NEW file \in Files, NEW import \in BOOLEAN,
             CreateWallet(file, import)
      PROVE  Implemented
  BY <1>7, ClosesOrStays DEF CreateWallet
<1>9. ASSUME NEW contents \in {"plain", "locked"}, ChangePassword(contents)
      PROVE  Implemented
  BY <1>9, ChangePasswordImplements
<1>10. CASE Start
  <2>1. wallet = NoWallet /\ disk' = disk
    BY <1>10 DEF Start, IInv, HandlerOrder
  <2>2. saved.file \in AllFiles /\ TypeOK
    BY DEF IInv, TypeOK
  <2>3. wallet' = wallet \/ OpenEmpty(saved.file)
    BY <1>10 DEF Start
  <2>4. CASE wallet' = wallet
    BY <2>1, <2>4, ClosesOrStays
  <2>5. CASE OpenEmpty(saved.file)
    BY <2>1, <2>2, <2>5, OpenEmptyOpens, OpenedImplements
  <2> QED
    BY <2>3, <2>4, <2>5
<1>11. CASE UNCHANGED vars
  BY <1>11, ClosesOrStays DEF vars
<1> QED
  BY <1>1, <1>2, <1>3, <1>4, <1>5, <1>6, <1>7, <1>9, <1>10, <1>11
     DEF Next, GuiStep, Dialog, User

(***************************************************************************)
(* The session implements OneWallet: whatever is asked, fails or crashes,  *)
(* one wallet is open at a time, it is closed before another one is        *)
(* opened, no file is made anew, and only the open wallet's file changes.  *)
(***************************************************************************)
THEOREM Implements == Spec => ImplementsOneWallet
<1>1. Init => Promise!Init
  BY DEF Init, Promise!Init, NoWallet, Wallet, Contents
<1>2. IInv /\ [Next]_vars => [Promise!Next]_<<Current, disk>>
  BY StepImplements DEF Implemented
<1> QED
  BY <1>1, <1>2, Inductive, PTL
     DEF Spec, ImplementsOneWallet, Promise!Spec, Current
=============================================================================
