# Verification of conceal-desktop

Conceal Desktop is a Qt wallet for the CCX currency. One thread, the *GUI
thread*, runs Qt's event loop. The node (embedded or remote) and the wallet
library (`cn::WalletGreen`, in the git submodule `cryptonote`) run on threads of
their own and notify the program through observer callbacks. What is hard about
this program is where these meet: what a callback leaves in shared variables,
what has been posted to the event loop when the wallet it is about is closed,
and what a nested event loop delivers in the middle of a handler.

This directory holds TLA+ models of those parts, the TLC configurations that
check them on small instances, and TLAPS proofs of what holds for every
instance. `PROJECT.json` maps every definition to the lines it models.

Contents: [The system](#the-system) · [Modules](#modules-and-the-code) ·
[Runs](#runs) · [Fairness](#fairness) · [History variables](#history-variables) ·
[Proofs](#proofs) · [Assumptions](#what-is-assumed-of-code-outside-the-repository) ·
[Findings](#findings) · [Not modelled](#what-is-not-modelled) · [Plan](#plan)

## The system

All paths are under `src/src/`.

| component | state | operations | interacts with | hard behaviour | correct when | module |
|---|---|---|---|---|---|---|
| `WalletAdapter`: notifications | `m_wallet`, atomics `m_isSynchronized` and `m_lastWalletTransactionId`, a 500 ms timer | open, create, import, close, rescan; observer callbacks; queued handlers | callbacks from the wallet; queued signals to every list | callbacks race with the notification and with `close()`; events outlive their wallet; a load fails after `open()` has returned | every transaction of the open wallet is announced, "no transaction" never is | `WalletFeed` |
| `WalletAdapter`: operations | four slots with ids of sent transactions | send, optimize, send a message, deposit, withdraw; report | wallet by calls and callbacks; `OverviewFrame` by signals | the wallet may report an id before it is stored; slots survive the wallet and its rescan | a completion is signalled for its own kind, once | `SentTransactions` |
| `TransactionsModel` | `m_transfers`, `m_transactionRow` | append, reload, reset | queued signals; asks the adapter for transactions | the wallet changes between two rounds of a loop | row = transaction id; rows of the open wallet only | `TransactionFeed` |
| `MessagesModel` | `m_messages`, reload position and generation | append, reload in chunks, reset | as above, and a timer for each chunk | events between chunks; stale chunks | in order, no duplicates, one reload at a time | `MessageFeed` |
| `DepositModel` | count of deposits, pending rows | append, reload, reset | adapter's signals, transactions by row | pending rows shift | each deposit is shown once, a pending one until its transaction is in a block | `DepositList` |
| `OptimizationManager` | two timer ids, `m_isSynchronized`, `m_isOptimizing` | check, optimize, nested wait | adapter, settings | the nested event loop closes the wallet below a run | runs only on an open, spendable wallet, and keeps running | `OptimizationManager` |
| `NodeAdapter`, `CryptoNoteWrapper`, `main()` | `m_node`, the initializer's thread, two wait loops | init, deinit | node library; event loops | signals emitted before a loop is connected; slots that refer to locals; the node dies by itself | both waits end; the node outlives its users | `NodeLifecycle` |
| `OverviewFrame` | fees, balances, the lock, the exchange found | send funds, messages, deposits, withdraw, optimize, lock | everything above | nested event loops after checks; answers out of order | what is sent is what was checked; the pages fit the wallet | `SendFlow`, `RecipientCheck`, `SyncIndicator`; the pages of contacts in `AddressBook`, the number of fees of a deposit in `SentTransactions`, the switch of automatic optimization in `OptimizationManager` |
| `MainWindow`, `WelcomeFrame` | which screen is shown | open, create, import, encrypt, close | adapter, settings | retries of passwords; a completion of a transaction shows the pages, whatever wallet there is by then | the screen fits the wallet | `WalletSession`, which implements `OneWallet` |
| `Settings` | the settings and their file | load, save | everyone | the file is truncated before it is written | what they say of a wallet is so, also after a crash | `WalletSession`: the wallet file and the flag of its encryption |
| `AddressBookModel` | the entries | add, edit, remove, load, save | wallet file, `OverviewFrame` | load without clear; the wallet changes under a payment | entries are those of the open wallet | `AddressBook` |
| `CurrencyAdapter`, `Message`, `UpdateManager` | none | format and parse amounts and messages, compare versions | - | boundaries | parse inverts format | `Amounts`, `MessageText` |
| views over the models | none | filter, sort | the models | - | - | not modelled |
| providers of prices, aliases, addresses, exchanges | none | one request each | network | order of answers | - | `RecipientCheck` (exchanges), `SendFlow` (address of the remote node) |
| dialogs, frames, styles | widgets | layout | - | - | - | not modelled |
| command line, logging, translation, signals of the OS | - | I/O | - | - | - | not modelled |
| `libqrencode` | - | - | - | - | - | vendored |
| `cryptonote` | the wallet and the node | - | callbacks | - | - | external, see below |

The hazards that these parts are exposed to, each at its line and with the
properties that would catch it going wrong, are listed in `PROJECT.json`.

## Modules and the code

### WalletFeed

`WalletAdapter.cpp` between the wallet and the lists. Two threads:

- The **wallet thread** makes the callbacks `synchronizationProgressUpdated`
  (`BeginProgress`, `StoreBehind`, `EmitProgress`), `synchronizationCompleted`
  (`BeginCompleted`, `StoreCaughtUp`, `EmitCompleted`),
  `externalTransactionCreated` (`BeginExternal`, `ReadSynchronized`, then
  `StoreLast` or `EmitCreated`) and `sendTransactionCompleted`
  (`SendCompleted`). No callback takes `m_mutex`, so each access to an atomic is
  an action of its own. `close()` keeps a callback from beginning, but one that
  has begun goes on: it may store after `close()` has cleared what it stores.
- The **GUI thread** takes events in the order in which they were posted
  (`queue`) and is at one place (`gui`) inside a handler whose steps the other
  thread can see: `notifyAboutLastTransaction()` is
  `NotifyAboutLastTransaction`, `Announce` and `ClearLast`; `close()` is `Close`
  and `CloseWallet`; an import is `Import` and `OpenImported`, because
  `createWithKeys()` and `open("")` replace one wallet by another without a
  `close()`.

A signal is one entry of `queue` although Qt posts one event per receiver: the
receivers of one signal are independent of each other, and the events of one
signal are adjacent except for events of the other thread. The module has the events the lists
react to. The module of each list EXTENDS
`WalletFeed`, adds its variables and handles `created`, `reload` and `closed`.
The lists get the same events and share no state; `TransactionFeed` is checked
together with the main page (`SyncIndicator`), `MessageFeed` on its own.

### TransactionFeed and MessageFeed

`TransactionFeed` is `TransactionsModel`: `rows` is `m_transfers` with the id of
each row. `appendTransaction` guesses the first row to append from the number of
transactions in `m_transactionRow` and loops to the given id
(`AppendTransaction`, `AppendRow`); `reloadWalletTransactions` asks for the number
of transactions in each round (`ReloadTransactions`, `ReloadRow`). Each round is an action because the wallet
thread may add a transaction between two of them.

`MessageFeed` is `MessagesModel`: `known` is the keys of `m_transactionRow`,
`messages` the list. A reload (`ReloadMessages`) is cut into chunks which timers run (`StartChunk`,
`ChunkRound`, `EndChunk`); `timers` holds the generation that each scheduled
chunk was scheduled for, in the order in which they expire (all have the same
delay).

### SentTransactions

`sendTransaction`, `optimizeWallet`, `sendMessage`, `deposit` and
`withdrawUnlockedDeposits` are `Send` (the wallet makes the transaction) and
`Store` (the GUI thread stores its id in the slot of its kind, with what
`deposit()` signals at once); `Refuse` is the wallet throwing.
`sendTransactionCompleted` is `Report` (compare and signal) and `ClearSlot`.
`CompleteDeposit` is `OverviewFrame::createDepositCompleted`, which sends the fee
of the remote node. Slots are cleared neither by `Close` nor by `Rescan`
(`WalletAdapter::reset`), after which ids begin at the start again; `callback`
keeps what `Report` found in the slots, and `Report` and `ClearSlot` are two
actions because the GUI thread may store in between. `ReportIsKnown` is the
assertion at the top of `sendTransactionCompleted`, see [Findings](#findings).

### OptimizationManager

All on the GUI thread, with two levels of event loop. `Optimize` is `optimize()`
up to its first `delay()`, `EndDelay` what follows a delay; in between every
other action may happen, which is what the nested event loop of `delay()` does.
`within` is the timer whose event the run is part of: Qt does not deliver a
timer again before its event has been handled. `CheckOptimization` is
`timerEvent` for the check timer with `ensureStarted`/`ensureStopped`.
`OnOpened` is the manager's `walletOpened` together with
`MainWindow::checkTrackingMode`, which the same signal calls. `OpenWallet` may
fail (`OnFailed` destroys the wallet without a close); `CreateWallet` is a wallet
of which no signal comes, as `WelcomeFrame` makes it to show its seed.
`walletCloseCompletedSignal` is emitted by `close()` on the GUI thread and is a
direct call, so `CloseWallet` is one action; the signals of the wallet thread
are queued.

### NodeLifecycle

`main()` and `NodeAdapter` on the GUI thread (`pc`), the initializer on its
thread (`worker`), and the node library's callback (`Report`). `init()` is
`EmitInit`, `ConnectSlots`, `WaitInit`, `ReturnInit`, as the order of the emit,
of the connections and of `waitLoop.exec()` matters; `deinit()` is `CheckNode`,
`StopNode`, `WaitDeinit`, `ReturnDeinit`, `JoinThread`. `posted` holds the
queued calls of `waitLoop.quit` and `waitLoop.exit`, `quitNow` is Qt's flag that keeps a
nested event loop from starting after `QCoreApplication::quit()`. `kind` is the
embedded or the remote node; they differ in `FailNode`. An exception in the
node's `init` is `ThrowNode`.

### SyncIndicator

`walletSynced` of `OverviewFrame`, which opens the pages for sending. The module
EXTENDS `TransactionFeed`, whose list reacts to the same events, and adds to each
event what the page does:
`onWalletSynchronizationProgress` and `reset` are `Forget`,
`tryEnableRecentActivityIfSynced` is `TryEnable`, which asks the adapter, at the
time of delivery, whether the wallet is synchronized. `tries` says that a timer
of 0 ms is left that tries it again after a load or a reload; how many are left
makes no difference, since a try does what the next one does.

`m_isSynchronized` is not the wallet's own word: it outlives the wallet in two
ways, which the model has. A callback of `synchronizationCompleted` that has
begun may store TRUE after `close()` has stored FALSE (`StoreCaughtUp` while
`gui` is at "closing"), and an import replaces the wallet of `createWithKeys()`
without a `close()`. `reported` remembers what the open wallet itself said last,
`leftOver` that the flag was left by another wallet and that no wallet has stored
into it since (`Remember`); the properties are about these.

### DepositList

`DepositModel`, which keeps no deposits: row *i* is deposit *i* of the wallet, and
below the first `depositCount` rows are those of `pending`. `CallBack` is the
wallet thread; what it is about to notify of is `due`, since the change of the wallet
and the callback are two steps. `OnDeposits` and `OnInitCompleted` are
`syncDepositRowsFromWallet` with `appendDeposit`; `OnUpdated` is
`transactionUpdated`, `OnPending` `walletDepositPendingSubmitted`, and `OnReload`
with `CountReloaded` is `reloadWalletDeposits`, which counts twice. `Deposit` and
`SubmitPending` are `WalletAdapter::deposit` before and after the wallet made the
transaction. `viewRows` adds up what `beginInsertRows` and `beginRemoveRows` told the
views.

### SendFlow

`sendFundsClicked`, `sendMessageClicked` and `newDepositClicked`. A click is not
one step: it asks for the password in a modal dialog (`EnterPassword`, `Cancel`)
and waits in `delay()`, which processes events (`EndSendFunds`, `EndSendMessage`).
The clicks under way are the stack `runs`; only the last goes on, and while no
dialog is shown the user starts another one inside it or closes the wallet. Money is
counted modulo `Mod`, as a `quint64` is. The wallet's money changes in one step
(`BalanceChanges`, or a transaction that the wallet makes), its callback posts
the update in another (`BalanceUpdated`, until then `due`), and `UpdatePortfolio`
is the update of `m_actualBalance`; the user can click in both gaps.
`setPercentage100()` asks the wallet, the other percentages and
`sendFundsClicked()` the page. `FeeAddressFound` is the answer of
`AddressProvider`, `SaveConnection` the settings dialog. `TransactionCompleted`
is the completion of any transaction, which clears the form and shows the pages
even if the wallet is gone; otherwise the pages can be clicked on only while a
wallet is open (`shown`). `DepositCompleted` is `createDepositCompleted`, which
pays the fee of the remote node as a transaction of its own. So a deposit is two
transactions, or three (see [Findings](#findings)), each of which pays no more
than the pages show (`FeesAreShown`); together they pay more.

### RecipientCheck

The fields of the address and the payment id and what `ExchangeProvider` answers
about them. `AddressChanged` asks once for each change; `ExchangeFound` answers
any question under way, so that answers come in any order or never; the signal does
not say which question it answers. `SendFunds` and `SendFundsToAlias` pay with
the id that `IdFor` gives.

### WalletSession and OneWallet

The program from its start to its end: `OpenEmpty` and `OpenWithPassword` are
`WalletAdapter::open` with `walletFileNeedsPassword`, `importLegacyWallet` and the
handlers of its exceptions; `OnLoaded`, `OnLoadFailed` and `OnWrongPassword` are
`onWalletInitCompleted` with what `MainWindow` does on the same signal;
`AskForPassword`, `EnterPassword` and `RejectPassword` are
`askForWalletPassword`. Opening and creating are two actions each
(`OpenWallet`, `OpenChosen`; `CreateWallet`, `CreateChosen`), as is the change of a
password (`ChangePassword`, `PasswordChanged`), because the program may stop
between them. `CreateWallet` is `WelcomeFrame::nextShowSeed`, whose dialog looks
whether the file exists, and the imports, of which `importKey` does not look: it
closes the open wallet, names the file in the settings and has the library make
it. If the library refuses because the file exists, nobody catches what it throws
and the program ends (`CreateRefused`). A dialog and what follows its answer are
one step, as the event loop of the dialog delivers nothing that the answer
depends on.

`TransactionSent` is the wallet thread reporting a transaction, `OnCompleted` the
delivery of it to `dashboardTo()`, which shows the pages whether a wallet is
open or not (`late`).

`disk` is what each wallet file is like: absent, without a password
("plain"), with one ("locked"), or cut off ("broken"). `Stop` is any end of the
program: the settings are what was saved, or, if a crash cut off their file while
it was being written, the defaults.

`OneWallet` is what the session promises: one wallet at a time, closed before
another is opened, an existing file never made anew, and a password that only
the open wallet gains or loses. The refinement maps `current` to the file of the
wallet object, and to no file if there is none or nothing was loaded into it. That
an existing file is never made anew is the dialogs' doing for all ways but
`importKey`, and the library's for that one (`Refused`).

### AddressBook

`AddressBookModel` with the pages that change it. `files` has the contacts of each
wallet; `Save` writes the whole file of the wallet that `Settings` names at that time. `OnInitCompleted`
loads the file if there is one (`LoadBook`), `OnClosed` is the queued `reset`.
`Select`, `Delete`, `OpenDialog`, `AcceptNew`, `AcceptEdit` and `Reject` are the
user, with the current row of Qt's view; `Send` and `EndSend` are a payment that
adds its recipient after the delay in which wallets may change.

### Amounts and MessageText

Pure functions, as operators over sequences. `FormatAmount` and `ParseAmount` are those of
`CurrencyAdapter`; the state is the text in the field of the amount, which starts
as any amount's and is edited in any way. `MakeText`, `ParseMessage`, `Shown` and
`ShownInFull` are those of `Message`; the state is a text as it is written line by
line or made with a header. They are checked against definitions written without the
steps of the code (`Worth`, `WellFormatted`, `HidesOnlyHeaders`), and proved to
agree with them.

### Pages

The pages that the user fills in: `AddressBook`, `RecipientCheck`, `Amounts` and
`MessageText` side by side. They share no state and none decides anything about
another, so that a behaviour is about one page (`page`) while the others are
empty; the states of the four are added up, not multiplied.

## Runs

All runs use two workers at most; `sync_indicator` and `send_flow` take about two
minutes, the others less than one. Deadlock is not checked: the bound on the user's
actions, or the end of the program, lets each system stop.

| run | specification | bounds | states | what it shows |
|---|---|---|---|---|
| `sync_indicator` | `PageFairSpec` | MaxTx 2, MaxPosted 2, MaxUserActions 3 | 642 thousand | of the feed: "no transaction" is never announced (`NeverAnnouncesNone`) although the id may be overwritten between the test and the announcement; of the list: `RowIsId`, `NoForeignRows`, `EventuallyShown`; of the page: `SyncedIsCurrent`, `OpensWhenSynchronized` |
| `message_feed` | `MessageFairSpec` | MaxTx 2, MaxPosted 2, MaxUserActions 2, ChunkSize 1 | 260 thousand | `InOrder`, `OneReload`, `NoForeignMessages`, `EventuallyKnown` |
| `node_lifecycle` | `FairSpec` | MaxQuits 2 | 2 thousand | `RunsOnNode`, `StopsLiveNode`, `EndsClean`, `WaitsEnd` |
| `optimization` | `FairSpec` | Enough 1, MaxRounds 3, MaxOutputs 3, MaxPosted 2, MaxUserActions 4 | 66 thousand | `OptimizesOpenWallet`, `StartsOnSpendable`, `KeepsOptimizing` |
| `sent_transactions` | `Spec` | MaxTx 3, MaxUserActions 4, RemoteFee | 389 thousand | `SignalsItsKind`, `FeesBounded` |
| `sent_transactions_known` | `Spec` | the same | - | violation of `ReportIsKnown`, see [Findings](#findings) |
| `sent_transactions_fee` | `Spec` | the same | - | violation of `OneFeePerDeposit`, see [Findings](#findings) |
| `deposit_list` | `FairSpec` | MaxDeposits 2, MaxTx 2, MaxPosted 3, MaxUserActions 3 | 132 thousand | `TypeOK`, `ShowsDeposits` (no deposit of another wallet, `NoForeignDeposits`, and none missing, `CaughtUp`), `PendingIsUnconfirmed`, `ViewsAgree`, `EventuallyAllShown` |
| `send_flow` | `Spec` | Mod 6, each fee 1, MaxBalance 3, MaxTyped 5, MaxRuns 2, MaxUserActions 4 | 2.95 million | `RunsAreCovered`, `FeesAreShown`, `PercentageCanBeSent` |
| `send_flow_funds` | `Spec` | the same | - | violation of `EnoughFunds`, see [Findings](#findings) |
| `wallet_session` | `FairSpec` | two wallet files and one legacy file, MaxStarts 2, MaxUserActions 5 | 189 thousand | `EncryptedAgrees`, `ScreenFits`, `NeverBlank`, the refinement `ImplementsOneWallet` |
| `pages` | `PagesSpec` | two wallets, MaxContacts 2, MaxUserActions 6; one plain address, two exchanges, one integrated address, one alias, MaxFieldActions 4; Base 2, Decimals 3, MaxAmount 1000, MaxLength 7; two words, MaxLines 4 | 227 thousand | `PagesTypeOK`; of contacts `ShowsSaved`, `NoForeignContacts`, `ActsOnSelected`, `ContactsKept`; of recipients `ReachesItsRecipient`; of amounts `AmountSurvives`; of messages `MessageSurvives` |

Where a module has proofs, its type invariant and some smaller invariants
(`CheckedWhileStarted`, `SlotsOutliveInit`, `WalletIsOfSettings`,
`AsksWhileClosed`) are proved for every instance and not checked again by a run.

Why the bounds are enough:

- **MaxTx 2** gives a transaction 0 (the one a test for "none" confuses), one
  after it, a wallet that shrinks (rescan) and one that is replaced by a smaller
  or larger one; with ChunkSize 1 a reload of two transactions has two chunks.
- **MaxUserActions 3** is open, close (or rescan), open again, with a payment in
  place of any; **4** in `optimization` adds the switch, and in
  `sent_transactions` is two transactions, with a close and an open in between or
  a rescan; **5** in `wallet_session` lets a transaction be completed behind a
  close and another wallet be imported after that.
- **MaxPosted** bounds only when a callback may *begin*; what callbacks and
  handlers post beyond it is not cut off. Two posted events are enough for one
  of an old wallet to be in front of one of the new.
- **MaxQuits 2** is a quit during `init()` and another in `deinit()`. After the
  first, further ones only repeat what the flag says.
- **Enough 1, MaxOutputs 3**: outputs below, at and above the threshold of 100,
  and two different numbers above it, which is what a run compares.
- **MaxDeposits 2** tells the last deposit, at which the list looks, from one
  before it; **MaxPosted 3** lets the event of a deposit, that of its
  transaction and one of another wallet be queued at once.
- **Mod 6, MaxBalance 3, fees 1**: the smallest width that holds a balance with both fees;
  amounts near `Mod` wrap around with one fee or with two. **MaxTyped 5** is every
  amount of that width. **MaxRuns 2** is a click
  inside the delay of another.
- **MaxStarts 2** and two files: a crash, a restart with what it left, and a
  wallet that is not the default one.
- **MaxUserActions 6** in `pages`: open, add, close, open the other, add,
  edit.
- **Two exchanges** are needed for an answer that is about another exchange than
  the one in the field; four actions enter two addresses, an id and pay.
- **Base 2, Decimals 3**: amounts with no, one and two groups of digits before
  the point, every length of the fraction, and texts that are worth more than
  MaxAmount.
- **MaxLines 4**: an empty line before a header, a field, the empty line and a
  text.

Each property has a mutant in `PROJECT.json`: an operator in the module, marked
*Mutant*, that changes one definition as a plausible bug would, and with which
TLC finds the property violated under the run's own configuration.

## Fairness

Nothing makes the user act, a transaction arrive, the program quit or the node
throw. Beyond that:

- *Feeds.* WF of the GUI thread (`AdapterOnGui` and the list's steps): Qt's event
  loop handles what is posted. WF of `EndCallback`: a thread finishes the
  callback it is in. SF of `BeginCompleted` and `ReportSent`: the wallet ends
  each synchronization and reports each transaction it has sent, although other
  callbacks come in between and disable them for a while (a callback is under way,
  or MaxPosted events are queued). This is the contract of
  the wallet library as `WalletAdapter` relies on it. `MessageFeed` adds SF of
  `StartChunk`: Qt runs expired timers even if there are always events.
- *NodeLifecycle.* WF of `GuiStep`, `WorkerStep` and `NodeReports`: both threads
  run and the node library calls back, which is all that `init()` waits for.
- *OptimizationManager.* WF of `Deliver` and of each timer. A run's wait ends
  after 15 s (`EndDelay`).
- *SyncIndicator.* WF of the GUI thread (`OnGui`), and of the wallet thread what
  the feeds assume of it.
- *WalletSession.* WF of the GUI thread (`GuiStep`): what is posted is delivered and
  a handler goes on. No dialog need be answered.
- *DepositList.* WF of `GuiStep` and of `CallBack`: a wallet that has changed
  notifies.

`SendFlow` and `Pages` have no fairness: no dialog need be answered and no answer
need come.

## History variables

Some properties have exceptions because the code has the behaviour excepted.
Each is a history variable that is set only by the event it names, so that the
property says *in no other way*:

| variable | excuses | what happens in the code |
|---|---|---|
| `lost` (feeds) | an id that is never announced | the wallet thread stores an id between the announcement of `m_lastWalletTransactionId` and its clearing (`WalletAdapter.cpp:799`) |
| `strayRow`, `strayMessage` (feeds) | rows that are not ids | a list is given the id of a closed wallet's transaction (`WalletAdapter.cpp:745`), after which `TransactionsModel` guesses the next row wrong |
| `missed` (node) | a wait that does not end | the signal is emitted before `waitLoop` is connected (`NodeAdapter.cpp:292`, `:349`) |
| `threw` (node) | `deinit()` that does not return, the node not deleted | the initializer's `start` returns without deleting the node or signalling its end (`NodeAdapter.cpp:82`), which `deinit()` called at `main.cpp:134` waits for |
| `interrupted` (node) | slots that run after `init()` | the program is told to quit during `init()` |
| `late` (optimization) | a run on a tracking wallet | the "opened" signal of a wallet that has been closed starts the check timer when no wallet is loaded |
| `foreign` (sent) | a completion for the wrong kind | slots keep the ids of before a close or a rescan (`WalletAdapter.cpp:301`, `:337`) |
| `leftOver` (page) | pages that are open although the open wallet has not said that it is synchronized | a callback stores after `close()` (`WalletAdapter.cpp:712` after `:307`), or an import replaces a wallet without it |
| `torn` (deposits) | views that count other rows | a deposit comes between the two counts of a reload (`DepositModel.cpp:453`) |
| `missed` (deposits) | a pending row of a deposit in a block | the confirmation is delivered before the pending row is added |
| `disturbed` (send) | a payment that the balance does not cover | the click compared while the wallet had changed and the page was yet to learn it, or money or the wallet went while it waited |
| `late` (session) | pages that are shown without a wallet | the completion of a transaction is delivered when its wallet is closed, and `dashboardTo()` shows the pages (`MainWindow.cpp:103`, `:740`) |
| `stale` (session) | a flag, or pages, that do not fit the wallet | the report of a wallet is delivered when that wallet is gone: it does not say which it is about (`WalletAdapter.cpp:658`) |
| `early` (contacts) | contacts that are not saved, or are another wallet's | a contact is saved into a book that is not, or not yet, that of an open wallet |
| `again` (contacts) | a row that is not the one selected | a rescan loads the contacts again |
| `crossed` (recipient) | the name of another exchange | an answer about an earlier address comes last |

`reported` (page), `percent`, `paid` and `checked` (send), `loaded` and `selected` (contacts),
`known` and `payments` (recipient) and `sent` (message) excuse nothing; they remember what
the properties compare with.

## Proofs

TLAPS proves the following for every value of the constants. The assumptions are
the named ones of the modules: `BoundsAssumption`, `ChunkAssumption` and
`QuitsAssumption` say that the bounds are natural numbers (MaxTx, MaxPosted in
`WalletFeed` and `DepositList`, MaxDeposits, MaxRounds and ChunkSize not 0), that WithMessages is a set of ids, and that
RemoteFee is a Boolean; `MoneyAssumption`, that the fees are positive and that a
balance with both fees is a number of the width the code has; `FilesAssumption`,
that the legacy file and "no file" are none of the wallet files;
`BookAssumption`, that "no file" and "no contact" are not a file and a contact;
`FieldsAssumption`, that an address is of one kind (plain, of an exchange,
integrated, or an alias), that an empty field is none of them and no payment id,
and that there are at least two digits and two decimals.

| module | theorems | argument |
|---|---|---|
| `FeedProofs`: the feed | `NoneNeverAnnounced` | The announcement is only reached when the id was one, and while the GUI thread is between its test and its clearing only `StoreLast` writes the id. That the announcement's id is a transaction then is `AnnounceInv`, which with the type invariant is inductive. Shared by the lists: `ListedInv`, for any set of listed ids: without a wallet the set is empty or the event that clears it is posted, and a wallet whose load has failed has no transactions and found no ids that stay. A rescan and an import post the load, whose event asks for the reload, so that the clearing is always on its way (`FeedKeepsListed`, `ListKeepsListed`). |
| `FeedProofs`: the transactions | `TransactionTypeCorrect`, `RowsAreIds`, `NoForeignRowsStay` | `RowsInOrder`: as long as no stray id was given, the rows are 0, 1, 2, ... and a loop stands at the next one. `NoForeignRows` is the feed's `ListedInv` for the ids of the rows. |
| `FeedProofs`: the messages | `MessageTypeCorrect`, `OneReloadAtATime`, `NoForeignMessagesStay`, `MessagesInOrder` | `OneReload` is inductive over the type invariant: each reload and each close raises the generation, and a chunk schedules the next only when it ends. `MessagesInOrder` needs `OrderInv`: the known ids are 0 to one less than their number unless a stray id was given (`KnownInOrder`), and a chunk under way begins where they end (`ChunkFits`). |
| `FeedProofs`: the page | `SyncedStaysCurrent`, `PageNeverAnnouncesNone`, `PageKeepsRows` | `SyncInv`: beside the property, what the adapter's flag is worth at each point (set only by the open wallet's report, or left over), that no callback is under way without a wallet or once its failure is posted, and that a page which is open has an event that shuts it in the queue before that of a failure: else destroying the wallet would leave the page open. The steps of the page are steps of the list (`PageFollowsList`), so that what is proved of the list holds with the page. |
| `DepositListProofs` | `TypeCorrect`, `ViewsAlwaysAgree`, `DepositsAreShown`, `PendingRowsAreUnconfirmed` | `ShownInv`: an event that sets the count back is in the queue, or the list is right now (`ShownNow`): it counts no more than the open wallet has, and if it counts fewer, the news of it is posted or about to be (`due`). A closing in the queue of an open wallet is followed by what loads it (`ClosedThenLoaded`). `OwedInv` adds that each hash is that of one pending row at most (`HashInv`) and that the confirmation of a pending row is still to come, or was delivered before the row (`Covered`). |
| `PagesProofs`: contacts | `BookTypeCorrect`, `PageShowsSaved`, `FilesHoldOwnContacts`, `ClicksActOnSelected`, `ContactsAreKept` | `BookInv`. Its parts hold each other up: a book that is loaded is that of the open wallet (`LoadedInv`), which needs that the report of a wallet that is gone is followed by the event of its closing (`ClosedAfterLoads`), that a failure is the last event (`FailsLast`), and that an open wallet whose book is not loaded has a report in the queue behind every clearing (`QueueInv`). A save from a loaded book then writes what the file held but for the contact changed, which gives both `NoForeignContacts` and the action property `ContactsKept`. |
| `PagesProofs`: recipients | `PaymentsReachTheirRecipients` | `RecipientInv`: the three properties are inductive together, with the types, once it is said that an exchange whose answer has come is named. |
| `PagesProofs`: messages | `MessagesSurvive` | For every text: the parser stops at the first empty line after the leading ones (`StrippedLines`, `Parsed`; the least of a set of numbers exists because numbers are well-founded), so that a text has one of three forms (`ParsedCases`). A text made of a header has the line after the header as its first empty one, since a field is no empty line (`MadeComesApart`). `MessageInv` says that a text made of a header is still that text. |
| `PagesProofs`: amounts | `AmountsSurvive`, `PagesTypeCorrect` | For every base, number of decimals and largest number. The provers have no induction over an operator, so the lemmas state it for a set of numbers (`Induction`, `StrongInduction`) and prove that functions defined by recursion over a rank exist (`Recursion`), from which come the digits of a number (`Numbers`), the shortened text (`Shortening`) and what a fold does with each element (`Fold`). Then: the digits of a number are worth it (`NumberIsWorthIt`), zeros before them add nothing (`ZerosBefore`), `Trimmed` takes only zeros (`TrimmedIs`), and a group's comma stands at every fourth place from the point (`GroupedIs`), which together say what the text of an amount looks like (`FormatIs`, `FormattedIsWell`); without its commas, the cut zeros come back (`ZerosComeBack`) and the number is the amount (`FormattedParses`). For any other text, the digits without the point weigh what each weighs at its place (`WeighedWithPoint`, `Parses`). `AmountInv` says that a text whose amount is known is still that amount's. |
| `OptimizationManagerProofs` | `TypeCorrect`, `CheckTimerOutlives`, `OptimizesOnlyOpenWallet`, `StartsOnlyOnSpendable` | `ModeKnown`: while the check timer runs and no late signal came, a wallet is loaded and the tracking mode is its own. It needs `WalletOrder`: a wallet whose failure is queued is not loaded, so that it is no exception. The two action properties follow step by step from this (`StepOptimizes`). |
| `NodeLifecycleProofs` | `TypeCorrect`, `RunsOnlyOnNode`, `DeinitStopsLiveNode`, `SlotsRunOnce`, `ProgramEndsClean` | One inductive invariant `IInv`: `StopOrder` (the node is told to stop on the way into the second wait), `NodeOrder` (a node that has not failed is alive until then) and `InitOrder` (what `init()` knows when it returns). None of the properties is inductive without the three. |
| `SentTransactionsProofs` | `TypeCorrect`, `SignalsTheKindSent`, `AtMostTwoFees` | A slot that is not left from before a close or a rescan holds an id of its kind (`SlotsKnown`), and so does the report that found one (`ReportKnown`). `FeesOwed` counts the fees paid, the completions posted and the report awaited: together never more than two for a deposit. |
| `SendFlowProofs` | `TypeCorrect`, `ClicksAreCovered`, `NoHiddenFees`, `PercentagesFit` | `PagesKnow`: what the pages know of the balance is old only while the wallet is yet to call back or an update is posted, and of the fee never once the node's address is known. `PercentageFits`: the amount of a percentage fits the wallet itself, whatever the page knows. With these each click under way stays covered (`Covered`) and pays a fee the node asked for (`FeeKnown`), and so does what follows a deposit; one lemma for each action, and one for what the wallet does with a transaction (`TransferIInv`). |
| `WalletSessionProofs` | `TypeCorrect`, `OneFile`, `FlagIsRight`, `NoQuestionOverAWallet`, `PagesOfAnOpenWallet`, `Implements` | `QuestionOrder` (a question is the last event, and then there is no wallet) and `HandlerOrder` (what is there in the middle of a handler). What each attempt to open leaves behind is `Opened`, proved once and used by the four handlers that open. `Implements` is the step refinement: each step is one of `OneWallet` or leaves its variables alone (`StepImplements`). |

Every safety invariant and every action property that a passing run checks is
proved. Only model-checked is liveness (`EventuallyShown`, `EventuallyKnown`,
`WaitsEnd`, `KeepsOptimizing`, `OpensWhenSynchronized`, `EventuallyAllShown`,
`NeverBlank`): the prover does not reason about fairness and ENABLED. The proofs of
`PagesProofs` take about ten minutes.

## What is assumed of code outside the repository

The submodule `cryptonote` is not part of the repository. Its behaviour is
taken from how `WalletAdapter` and `NodeAdapter` use it, and Qt's from its
documentation:

- The wallet notifies its observer on one thread of the node, and destroying a
  wallet waits for the callback under way.
- `load()` reports its outcome as `initCompleted`, and a failed load has been
  posted before the user can do something else. `reset()` (a rescan) loads again
  and reports again.
- The wallet reports deposits and withdrawals as it reports payments: the
  branches at `WalletAdapter.cpp:760`-`766` expect it to.
- A wallet's transaction ids are 0, 1, 2, ... in the order in which it learned of
  them.
- The node's `init` calls back once; a stop request that comes before the node
  waits for one is not forgotten.
- Without a wallet, `getAccountKeys` leaves its argument uninitialized
  (`WalletAdapter.cpp:421`): the tracking mode is then either value.
- The library refuses to make a wallet in a file that exists (`Refused`):
  `importKey()` relies on it (`MainWindow.cpp:486`).
- A wallet that changes does so before it notifies, and a deposit's transaction
  is known to the wallet when `createDeposit` returns.
- A question for a password and the failure of a load are delivered before the
  user does something else (`Urgent` in `WalletSession`): both are posted from
  within the handler that opens.
- A crash leaves each file as it was, except that the settings' file, which is
  truncated and then written, may be lost. Wallet files survive: the library
  writes them.
- Qt's views keep their current row with its contact when rows are inserted
  above it or removed.

## Findings

Three runs expect a violation: what a comment or an assertion says of the program
is not what it does.

- **The fee of the remote node is paid twice for one deposit**
  (`sent_transactions_fee`, `OneFeePerDeposit`). `deposit()` signals
  `walletCreateDepositCompletedSignal` without an error once the wallet has
  created the deposit (`WalletAdapter.cpp:601`), and
  `sendTransactionCompleted()` signals it again when the wallet reports the
  deposit's id (`WalletAdapter.cpp:761`). `createDepositCompleted` sends the fee
  on each; its comment says "Remote node fee (only after a successful deposit)"
  (`OverviewFrame.cpp:1729`). It is never more than two: `FeesBounded`, which is
  proved.
- **The check for enough funds passes an amount that has wrapped around**
  (`send_flow_funds`, `EnoughFunds`). "Check if there are enough funds for the
  amount plus total fees" (`OverviewFrame.cpp:1412`): on an open wallet with less
  money than the fee, `setPercentage100()` subtracts the fee from the maximum
  (line 1255) and enters an amount of about 2^64; the sum of the check (line
  1413) adds the fee again and wraps back. The run opens such a wallet, presses
  the button and clicks on send.
- **A transaction may be reported whose id is in no slot**
  (`sent_transactions_known`, `ReportIsKnown`). `sendTransactionCompleted()`
  asserts that one of the four slots holds the id (`WalletAdapter.cpp:752`). It
  runs on the wallet thread, and `sendTransaction()` stores what `transfer()`
  returns only after it has returned (`WalletAdapter.cpp:490`); the run shows the
  report in between. A second payment that overwrites the slot before the first
  is reported leads there without a race. A debug build ends at the assertion; a
  release build signals no completion of its kind.

Two more disagreements were met while modelling. The models follow the code in
them, and no run is about them:

- "Prevent users from sending message over 260 characters"
  (`OverviewFrame.cpp:1514`): the cut and the check both let 261 pass. `SendFlow`
  does not model the length: what is typed is cut, so that no message is too long
  for the check.
- "Returns false → empty password works (or file is unreadable / not yet
  created)" (`WalletAdapter.cpp:142`): for a file that ends within its prefix
  `walletFileNeedsPassword()` returns true (line 161), and its password is asked
  for (`NeedsPassword` in `WalletSession`).

## What is not modelled

- What a cell of a list displays, the proxy models that sort and filter, styles,
  layout and wording: no state that a property is about.
- The providers' HTTP requests, the logger, the translator and the command line:
  pure I/O.
- `libqrencode` and `cryptonote`: third-party code.
- In the modelled parts: balances and status texts that signals carry;
  `updateWalletTransaction`, which adds no row; a check timer that a second
  `walletOpened()` leaks (`OptimizationManager.cpp:52`), whose events are ignored.
- Of the main page: the lock screen, withdrawing (one call of `WalletAdapter`),
  prices and charts. Of the main window: backups of wallets and keys to other files, the tray
  icon and the menus.
- A crash while the file of contacts is written: there is no second copy, so
  that a property could only restate the loss. Whether the label of a contact is
  taken already.
- A creation of a wallet that fails is one that did nothing; the welcome page
  then uses a null pointer (`WelcomeFrame.cpp:115`), whose outcomes are not
  followed.
- Hazards that no property covers: `updateBlockStatusText` schedules ever more
  timers (`WalletAdapter.cpp:833`), whose runs are idempotent; a second click on
  Send starts another payment inside the first (`OverviewFrame.cpp:2012`), and a
  message is read after its delay, not at the click (`OverviewFrame.cpp:1640`),
  which the models have, but nothing in the repository speaks against.
- The comparison of versions (`UpdateManager.cpp:37`-`55`): one call of
  `std::lexicographical_compare`.
- The rows of deposits are looked up by transaction id as rows of
  `TransactionsModel`; that row and id agree is `RowIsId` of `TransactionFeed`
  and not modelled again.

## Plan

The plan of the first version is built, except for:

1. **Abstract list**: what a list promises is the set of ids of the open wallet,
   eventually. `TransactionFeed` and `MessageFeed` would implement it.
2. **Lock screen** of `OverviewFrame`, composed with `SendFlow`: what a click
   that waits does after the wallet was locked.
