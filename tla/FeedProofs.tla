------------------------------ MODULE FeedProofs ------------------------------
(***************************************************************************)
(* What TLAPS proves of WalletFeed and of the components that live on its  *)
(* events: TransactionFeed, MessageFeed and SyncIndicator, each for every  *)
(* value of the bounds, of the size of a chunk and of the transactions     *)
(* that carry a message.  The lemmas about the feed are shared by all.     *)
(***************************************************************************)
EXTENDS TransactionFeed, MessageFeed, SyncIndicator, FiniteSetTheorems, TLAPS

(***************************************************************************)
(* What the constructors of the model's records return.                    *)
(***************************************************************************)
LEMMA EventTyped ==
  \A type \in EventTypes :
    /\ Signal(type) \in Events
    /\ \A id \in TxIds \cup {NoTx} : Event(type, id) \in Events
BY DEF Event, Signal, Events

LEMMA CallbackTyped ==
  /\ NoCallback \in Callbacks
  /\ \A kind \in CallbackKinds, id \in TxIds \cup {NoTx} :
       Callback(kind, id) \in Callbacks
BY DEF Callback, Callbacks, NoCallback, CallbackKinds

LEMMA GuiTyped ==
  /\ EventLoop \in GuiPositions
  /\ \A pc \in GuiStates :
       /\ GuiAt(pc, 0, 0) \in GuiPositions
       /\ \A next \in Nat, last \in TxIds \cup {NoTx} :
            GuiAt(pc, next, last) \in GuiPositions
<1>1. 0 \in TxIds
  BY BoundsAssumption DEF TxIds
<1> QED
  BY <1>1 DEF GuiAt, GuiPositions, EventLoop, GuiStates

LEMMA NextRoundTyped ==
  ASSUME gui \in GuiPositions
  PROVE  [gui EXCEPT !.next = @ + 1] \in GuiPositions
BY DEF GuiPositions

(***************************************************************************)
(* An id that the open wallet has is an id within the bound.               *)
(***************************************************************************)
LEMMA HasTransactionTyped ==
  ASSUME txCount \in 0 .. MaxTx, NEW id, HasTransaction(id)
  PROVE  id \in TxIds
BY BoundsAssumption DEF HasTransaction, TxIds

(***************************************************************************)
(* The event that is taken is an event, and so are those that remain.      *)
(***************************************************************************)
LEMMA TakeTyped ==
  ASSUME queue \in Seq(Events), queue # <<>>
  PROVE  /\ Head(queue) \in Events
         /\ Head(queue).id \in TxIds \cup {NoTx}
         /\ Tail(queue) \in Seq(Events)
<1>1. Head(queue) \in Events /\ Tail(queue) \in Seq(Events)
  OBVIOUS
<1> QED
  BY <1>1 DEF Events

LEMMA FeedInitTyped == FeedInit => FeedTypeOK
<1> SUFFICES ASSUME FeedInit PROVE FeedTypeOK
  OBVIOUS
<1>1. callback \in Callbacks /\ gui \in GuiPositions
  BY CallbackTyped, GuiTyped DEF FeedInit
<1>2. queue \in Seq(Events)
  BY DEF FeedInit
<1>3. txCount \in 0 .. MaxTx /\ userActions \in 0 .. MaxUserActions
  BY BoundsAssumption DEF FeedInit
<1> QED
  BY <1>1, <1>2, <1>3 DEF FeedInit, FeedTypeOK

(***************************************************************************)
(* Each step of the two threads keeps the types, and so does a list that   *)
(* only takes its event.                                                   *)
(***************************************************************************)
LEMMA FeedStepTyped == FeedTypeOK /\ FeedNext => FeedTypeOK'
<1> SUFFICES ASSUME FeedTypeOK, FeedNext PROVE FeedTypeOK'
  OBVIOUS
<1>1. CASE WalletThread
  <2>1. CASE BeginProgress
    BY <2>1, CallbackTyped DEF FeedTypeOK, BeginProgress, CallbackKinds, wallet,
       adapter
  <2>2. CASE EmitProgress
    BY <2>2, EventTyped, CallbackTyped DEF FeedTypeOK, EmitProgress, Post,
       EventTypes, CallbackKinds, wallet, adapter
  <2>3. CASE BeginCompleted
    BY <2>3, CallbackTyped DEF FeedTypeOK, BeginCompleted, CallbackKinds,
       wallet, adapter
  <2>4. CASE EmitCompleted
    BY <2>4, EventTyped, CallbackTyped DEF FeedTypeOK, EmitCompleted, Post,
       EventTypes, CallbackKinds, wallet, adapter
  <2>5. CASE BeginExternal
    BY <2>5, BoundsAssumption, CallbackTyped DEF FeedTypeOK, BeginExternal,
       CallbackKinds, TxIds, adapter
  <2>6. CASE ReadSynchronized
    BY <2>6 DEF FeedTypeOK, ReadSynchronized, Callbacks, CallbackKinds, wallet,
       adapter
  <2>7. CASE StoreLast
    BY <2>7, CallbackTyped DEF FeedTypeOK, StoreLast, Callbacks, CallbackKinds,
       wallet
  <2>8. CASE EmitCreated
    BY <2>8, CallbackTyped, EventTyped DEF FeedTypeOK, EmitCreated, Post,
       EventTypes, Callbacks, CallbackKinds, wallet, adapter
  <2>9. CASE \E id \in TxIds : SendCompleted(id)
    BY <2>9, EventTyped DEF FeedTypeOK, SendCompleted, Post, EventTypes,
       adapter
  <2>10. CASE StoreBehind \/ StoreCaughtUp
    BY <2>10, CallbackTyped DEF FeedTypeOK, StoreBehind, StoreCaughtUp,
       CallbackKinds, wallet
  <2> QED
    BY <1>1, <2>1, <2>2, <2>3, <2>4, <2>5, <2>6, <2>7, <2>8, <2>9, <2>10 DEF
       WalletThread
<1>2. CASE AdapterOnGui
  <2>1. CASE OnProgress
    BY <2>1, TakeTyped DEF FeedTypeOK, OnProgress, Take, wallet
  <2>2. CASE OnCompleted
    BY <2>2, TakeTyped, GuiTyped DEF FeedTypeOK, OnCompleted, Take,
       NotifyAboutLastTransaction, GuiStates, wallet
  <2>3. CASE OnSendCompleted
    BY <2>3, TakeTyped, EventTyped DEF FeedTypeOK, OnSendCompleted, Take,
       EventTypes, wallet, adapter
  <2>4. CASE OnInitCompleted
    BY <2>4, TakeTyped, EventTyped DEF FeedTypeOK, OnInitCompleted, Take,
       EventTypes, wallet, adapter
  <2>5. CASE OnInitFailed
    <3>1. queue' \in Seq(Events)
      BY <2>5, TakeTyped DEF FeedTypeOK, OnInitFailed, Take
    <3>2. /\ txCount' \in 0 .. MaxTx
          /\ unconfirmed' \subseteq TxIds
      BY <2>5, BoundsAssumption DEF FeedTypeOK, OnInitFailed, DestroyWallet,
         wallet
    <3> QED
      BY <2>5, <3>1, <3>2 DEF FeedTypeOK, OnInitFailed, DestroyWallet, wallet,
         adapter
  <2>6. CASE OnTimeout
    BY <2>6, GuiTyped DEF FeedTypeOK, OnTimeout, NotifyAboutLastTransaction,
       GuiStates, wallet, adapter
  <2>7. CASE Announce
    BY <2>7, EventTyped, GuiTyped DEF FeedTypeOK, Announce, Post, EventTypes,
       GuiStates, wallet, adapter
  <2>8. CASE ClearLast
    BY <2>8, GuiTyped DEF FeedTypeOK, ClearLast, GuiStates, wallet
  <2>9. CASE CloseWallet
    <3>1. gui' \in GuiPositions
      BY <2>9, GuiTyped DEF FeedTypeOK, CloseWallet, GuiStates
    <3>2. queue' \in Seq(Events)
      BY <2>9, EventTyped DEF FeedTypeOK, CloseWallet, Post, EventTypes
    <3>3. /\ txCount' \in 0 .. MaxTx
          /\ unconfirmed' \subseteq TxIds
      BY <2>9, BoundsAssumption DEF FeedTypeOK, CloseWallet, DestroyWallet
    <3> QED
      BY <2>9, <3>1, <3>2, <3>3 DEF FeedTypeOK, CloseWallet, DestroyWallet,
         adapter
  <2>10. CASE \E n \in 0 .. MaxTx : OpenImported(n)
    BY <2>10, EventTyped, GuiTyped, BoundsAssumption DEF FeedTypeOK,
       OpenImported, Load, Post, EventTypes, GuiStates, adapter
  <2> QED
    BY <1>2, <2>1, <2>2, <2>3, <2>4, <2>5, <2>6, <2>7, <2>8, <2>9, <2>10
       DEF AdapterOnGui
<1>3. CASE User
  <2>1. CASE \E n \in 0 .. MaxTx : Open(n)
    <3>1. queue' \in Seq(Events)
      <4>1. \A type \in {"initCompleted", "initFailed"} :
              Post(Signal(type)) => queue' \in Seq(Events)
        BY EventTyped DEF FeedTypeOK, Post, EventTypes
      <4> QED
        BY <2>1, <4>1 DEF FeedTypeOK, Open, Load, LoadFails, LoadNothing
    <3>2. /\ txCount' \in 0 .. MaxTx
          /\ unconfirmed' \subseteq TxIds
      BY <2>1, BoundsAssumption DEF FeedTypeOK, Open, Load, LoadFails,
         LoadNothing
    <3>3. userActions' \in 0 .. MaxUserActions
      BY <2>1, BoundsAssumption DEF FeedTypeOK, Open, UserAction
    <3> QED
      BY <2>1, <3>1, <3>2, <3>3 DEF FeedTypeOK, Open, Load, LoadFails,
         LoadNothing, adapter
  <2>2. CASE Create
    BY <2>2, BoundsAssumption DEF FeedTypeOK, Create, UserAction, adapter
  <2>3. CASE Import
    BY <2>3, GuiTyped, BoundsAssumption DEF FeedTypeOK, Import, UserAction,
       GuiStates, adapter
  <2>4. CASE Close
    <3>1. gui' \in GuiPositions
      BY <2>4, GuiTyped DEF FeedTypeOK, Close, GuiStates
    <3>2. userActions' \in 0 .. MaxUserActions
      BY <2>4, BoundsAssumption DEF FeedTypeOK, Close, UserAction
    <3> QED
      BY <2>4, <3>1, <3>2 DEF FeedTypeOK, Close, wallet
  <2>5. CASE Rescan
    BY <2>5, EventTyped, BoundsAssumption DEF FeedTypeOK, Rescan, UserAction,
       Post, EventTypes, adapter
  <2>6. CASE SendTransaction
    <3>1. queue' \in Seq(Events)
      BY <2>6, EventTyped DEF FeedTypeOK, SendTransaction, Post, EventTypes
    <3>2. txCount' \in 0 .. MaxTx
      BY <2>6, BoundsAssumption DEF FeedTypeOK, SendTransaction
    <3>3. unconfirmed' \subseteq TxIds
      <4>1. txCount < MaxTx => txCount \in TxIds
        BY BoundsAssumption DEF FeedTypeOK, TxIds
      <4> QED
        BY <2>6, <4>1 DEF FeedTypeOK, SendTransaction
    <3>4. userActions' \in 0 .. MaxUserActions
      BY <2>6, BoundsAssumption DEF FeedTypeOK, SendTransaction, UserAction
    <3> QED
      BY <2>6, <3>1, <3>2, <3>3, <3>4 DEF FeedTypeOK, SendTransaction, adapter
  <2> QED
    BY <1>3, <2>1, <2>2, <2>3, <2>4, <2>5, <2>6 DEF User
<1> QED
  BY <1>1, <1>2, <1>3 DEF FeedNext

LEMMA FeedStutterTyped == FeedTypeOK /\ UNCHANGED feed => FeedTypeOK'
BY DEF FeedTypeOK, feed
-----------------------------------------------------------------------------
(***************************************************************************)
(* The types of the posted events after one is posted, or one is taken.    *)
(***************************************************************************)
LEMMA PostedAfterAppend ==
  ASSUME NEW q \in Seq(Events), NEW event \in Events
  PROVE  EventTypesIn(Append(q, event)) = EventTypesIn(q) \cup {event.type}
<1>1. ASSUME NEW i \in DOMAIN Append(q, event)
      PROVE  Append(q, event)[i].type \in EventTypesIn(q) \cup {event.type}
  BY DEF EventTypesIn
<1>2. ASSUME NEW i \in DOMAIN q
      PROVE  q[i].type \in EventTypesIn(Append(q, event))
  <2>1. i \in DOMAIN Append(q, event) /\ Append(q, event)[i] = q[i]
    OBVIOUS
  <2> QED
    BY <2>1 DEF EventTypesIn
<1>3. event.type \in EventTypesIn(Append(q, event))
  <2>1. /\ Len(q) + 1 \in DOMAIN Append(q, event)
        /\ Append(q, event)[Len(q) + 1] = event
    OBVIOUS
  <2> QED
    BY <2>1 DEF EventTypesIn
<1> QED
  BY <1>1, <1>2, <1>3 DEF EventTypesIn

LEMMA PostedBeforeTake ==
  ASSUME NEW q \in Seq(Events), q # <<>>
  PROVE  EventTypesIn(q) = EventTypesIn(Tail(q)) \cup {Head(q).type}
<1>1. ASSUME NEW i \in DOMAIN q
      PROVE  q[i].type \in EventTypesIn(Tail(q)) \cup {Head(q).type}
  <2>1. CASE i = 1
    BY <2>1
  <2>2. CASE i # 1
    <3>1. i - 1 \in DOMAIN Tail(q) /\ Tail(q)[i - 1] = q[i]
      BY <2>2
    <3> QED
      BY <3>1 DEF EventTypesIn
  <2> QED
    BY <2>1, <2>2
<1>2. ASSUME NEW i \in DOMAIN Tail(q)
      PROVE  Tail(q)[i].type \in EventTypesIn(q)
  <2>1. i + 1 \in DOMAIN q /\ q[i + 1] = Tail(q)[i]
    OBVIOUS
  <2> QED
    BY <2>1 DEF EventTypesIn
<1>3. Head(q).type \in EventTypesIn(q)
  <2>1. 1 \in DOMAIN q /\ q[1] = Head(q)
    OBVIOUS
  <2> QED
    BY <2>1 DEF EventTypesIn
<1> QED
  BY <1>1, <1>2, <1>3 DEF EventTypesIn

LEMMA PostedAfterPost ==
  ASSUME FeedTypeOK, NEW event \in Events, Post(event)
  PROVE  Posted' = Posted \cup {event.type}
BY PostedAfterAppend DEF FeedTypeOK, Posted, Post, EventTypesIn

LEMMA PostedAfterTake ==
  ASSUME FeedTypeOK, NEW type, Take(type), queue' = Tail(queue)
  PROVE  Posted = Posted' \cup {type}
BY PostedBeforeTake DEF FeedTypeOK, Posted, Take, EventTypesIn

LEMMA PostedAfterForward ==
  ASSUME FeedTypeOK, NEW type, Take(type), NEW event \in Events,
         queue' = Append(Tail(queue), event)
  PROVE  Posted \cup {event.type} = Posted' \cup {type}
<1>1. queue \in Seq(Events) /\ queue # <<>> /\ Head(queue).type = type
  BY DEF FeedTypeOK, Take
<1>2. Tail(queue) \in Seq(Events)
  BY <1>1, TakeTyped
<1>3. Posted = EventTypesIn(Tail(queue)) \cup {type}
  BY <1>1, PostedBeforeTake DEF Posted
<1>4. Posted' = EventTypesIn(Tail(queue)) \cup {event.type}
  BY <1>2, PostedAfterAppend DEF Posted, EventTypesIn
<1> QED
  BY <1>3, <1>4

-----------------------------------------------------------------------------
(***************************************************************************)
(* "No transaction" is not announced because only the GUI thread writes it *)
(* to m_lastWalletTransactionId: what the notification has tested stays    *)
(* another id until it has announced it, although the wallet thread may    *)
(* store a different one in between.                                       *)
(***************************************************************************)
NoneAnnounced(q) ==
  \A i \in DOMAIN q : q[i].type = "created" => q[i].id # NoTx

AnnounceInv ==
  /\ NoneAnnounced(queue)
  /\ gui.pc = "announce" => lastId # NoTx
  /\ callback.kind \in {"external", "store", "emit"} => callback.id # NoTx

LEMMA NoneAnnouncedAfterAppend ==
  ASSUME NEW q \in Seq(Events), NoneAnnounced(q),
         NEW event \in Events, event.type = "created" => event.id # NoTx
  PROVE  NoneAnnounced(Append(q, event))
BY DEF NoneAnnounced

LEMMA NoneAnnouncedAfterTake ==
  ASSUME NEW q \in Seq(Events), NoneAnnounced(q), q # <<>>
  PROVE  NoneAnnounced(Tail(q))
BY DEF NoneAnnounced

LEMMA FeedKeepsAnnounced ==
  ASSUME FeedTypeOK, AnnounceInv, FeedNext
  PROVE  AnnounceInv'
<1>1. NoneAnnounced(queue)' <=> NoneAnnounced(queue')
  BY DEF NoneAnnounced
\* The event that a step posts, after the one it may have taken.
<1>2. ASSUME NEW q \in Seq(Events), NoneAnnounced(q),
             NEW type \in EventTypes, NEW id \in TxIds \cup {NoTx},
             type = "created" => id # NoTx,
             queue' = Append(q, Event(type, id))
      PROVE  NoneAnnounced(queue)'
  <2>1. Event(type, id) \in Events
    BY EventTyped
  <2> QED
    BY <1>1, <1>2, <2>1, NoneAnnouncedAfterAppend DEF Event
<1>3. ASSUME queue' = queue \/ (queue # <<>> /\ queue' = Tail(queue))
      PROVE  NoneAnnounced(queue)'
  BY <1>1, <1>3, NoneAnnouncedAfterTake DEF FeedTypeOK, AnnounceInv
<1>4. CASE WalletThread
  <2>1. CASE BeginProgress \/ StoreBehind \/ BeginCompleted \/ StoreCaughtUp
    BY <1>3, <2>1 DEF BeginProgress, StoreBehind, BeginCompleted,
                      StoreCaughtUp, Callback, AnnounceInv, adapter
  <2>2. CASE EmitProgress \/ EmitCompleted
    <3>1. PICK type \in {"progress", "completed"} :
            queue' = Append(queue, Event(type, NoTx))
      BY <2>2 DEF EmitProgress, EmitCompleted, Post, Signal
    <3>2. NoneAnnounced(queue)'
      BY <1>2, <3>1 DEF FeedTypeOK, AnnounceInv, EventTypes
    <3> QED
      BY <2>2, <3>2 DEF EmitProgress, EmitCompleted, AnnounceInv, NoCallback,
                        Callback, adapter
  <2>3. CASE BeginExternal
    <3>1. txCount # NoTx
      BY DEF FeedTypeOK, NoTx
    <3> QED
      BY <1>3, <2>3, <3>1 DEF BeginExternal, AnnounceInv, Callback, adapter
  <2>4. CASE ReadSynchronized \/ StoreLast
    BY <1>3, <2>4 DEF ReadSynchronized, StoreLast, AnnounceInv, NoCallback,
                      Callback, FeedTypeOK, Callbacks, adapter
  <2>5. CASE EmitCreated
    <3>1. NoneAnnounced(queue)'
      BY <1>2, <2>5
         DEF EmitCreated, Post, FeedTypeOK, AnnounceInv, Callbacks,
                        EventTypes
    <3> QED
      BY <2>5, <3>1 DEF EmitCreated, AnnounceInv, NoCallback, Callback,
                        adapter
  <2>6. CASE \E id \in TxIds : SendCompleted(id)
    <3>1. NoneAnnounced(queue)'
      BY <1>2, <2>6
         DEF SendCompleted, Post, FeedTypeOK, AnnounceInv, EventTypes
    <3> QED
      BY <2>6, <3>1 DEF SendCompleted, AnnounceInv, adapter
  <2> QED
    BY <1>4, <2>1, <2>2, <2>3, <2>4, <2>5, <2>6 DEF WalletThread
<1>5. CASE AdapterOnGui
  <2>1. CASE OnProgress
    BY <1>3, <2>1 DEF OnProgress, Take, AnnounceInv
  <2>2. CASE OnCompleted \/ OnTimeout
    BY <1>3, <2>2 DEF OnCompleted, OnTimeout, NotifyAboutLastTransaction,
                      Take, GuiAt, EventLoop, AnnounceInv, adapter
  <2>3. CASE OnSendCompleted
    <3>1. queue # <<>> /\ Tail(queue) \in Seq(Events)
      BY <2>3, TakeTyped DEF OnSendCompleted, Take, FeedTypeOK
    <3>2. NoneAnnounced(Tail(queue))
      BY <3>1, NoneAnnouncedAfterTake DEF FeedTypeOK, AnnounceInv
    <3>3. CASE HasTransaction(Head(queue).id)
      <4>1. Head(queue).id \in TxIds /\ Head(queue).id # NoTx
        BY <3>3, HasTransactionTyped DEF FeedTypeOK, TxIds, NoTx
      <4> QED
        BY <1>2, <2>3, <3>1, <3>2, <3>3, <4>1
           DEF OnSendCompleted, AnnounceInv, EventTypes, adapter
    <3>4. CASE ~HasTransaction(Head(queue).id)
      BY <1>3, <2>3, <3>1, <3>4 DEF OnSendCompleted, AnnounceInv, adapter
    <3> QED
      BY <3>3, <3>4
  <2>4. CASE OnInitCompleted
    <3>1. queue # <<>> /\ Tail(queue) \in Seq(Events)
      BY <2>4, TakeTyped DEF OnInitCompleted, Take, FeedTypeOK
    <3>2. NoneAnnounced(Tail(queue))
      BY <3>1, NoneAnnouncedAfterTake DEF FeedTypeOK, AnnounceInv
    <3> QED
      BY <1>2, <1>3, <2>4, <3>1, <3>2
         DEF OnInitCompleted, Signal, AnnounceInv, EventTypes, adapter
  <2>5. CASE OnInitFailed
    BY <1>3, <2>5 DEF OnInitFailed, Take, AnnounceInv, adapter
  <2>6. CASE Announce
    BY <1>2, <2>6
       DEF Announce, Post, FeedTypeOK, AnnounceInv, EventTypes, GuiAt,
                      adapter
  <2>7. CASE ClearLast
    BY <1>3, <2>7 DEF ClearLast, EventLoop, GuiAt, AnnounceInv
  <2>8. CASE CloseWallet \/ \E n \in 0 .. MaxTx : OpenImported(n)
    BY <1>2, <2>8
       DEF CloseWallet, OpenImported, Load, Post, Signal, FeedTypeOK,
                      AnnounceInv, EventTypes, EventLoop, GuiAt, adapter
  <2> QED
    BY <1>5, <2>1, <2>2, <2>3, <2>4, <2>5, <2>6, <2>7, <2>8 DEF AdapterOnGui
<1>6. CASE User
  <2>1. UNCHANGED callback /\ gui'.pc # "announce"
    BY <1>6 DEF User, Open, Create, Import, Close, Rescan, SendTransaction,
                UserAction, Idle, GuiAt
  <2>2. CASE queue' = queue
    BY <1>3, <2>1, <2>2 DEF AnnounceInv
  <2>3. CASE \E type \in EventTypes \ {"created"} :
               queue' = Append(queue, Event(type, NoTx))
    BY <1>2, <2>1, <2>3 DEF AnnounceInv, FeedTypeOK
  <2> QED
    BY <1>6, <2>2, <2>3
       DEF User, Open, Load, LoadFails, LoadNothing, Create, Import, Close,
           Rescan, SendTransaction, Post, Signal, EventTypes
<1> QED
  BY <1>4, <1>5, <1>6 DEF FeedNext
-----------------------------------------------------------------------------
(***************************************************************************)
(* A loop of a list goes on undisturbed: the adapter and the user wait for *)
(* it, and the wallet thread only adds transactions.                       *)
(***************************************************************************)
LEMMA FeedLeavesLoops ==
  ASSUME FeedTypeOK, FeedNext
  PROVE  \/ gui'.pc \notin {"append", "reload"}
         \/ /\ UNCHANGED <<gui, open>>
            /\ txCount \in Nat /\ txCount' \in Nat /\ txCount' >= txCount
<1>1. txCount \in 0 .. MaxTx
  BY DEF FeedTypeOK
<1>2. CASE WalletThread
  BY <1>1, <1>2
     DEF WalletThread, BeginProgress, StoreBehind, EmitProgress,
         BeginCompleted, StoreCaughtUp, EmitCompleted, BeginExternal,
         ReadSynchronized, StoreLast, EmitCreated, SendCompleted, wallet
<1>3. CASE User
  BY <1>3 DEF User, Open, Create, Import, Close, Rescan, SendTransaction,
              UserAction, Idle, GuiAt
<1>4. CASE AdapterOnGui
  <2>1. CASE OnProgress \/ OnSendCompleted \/ OnInitCompleted
    BY <1>1, <2>1 DEF OnProgress, OnSendCompleted, OnInitCompleted, wallet
  <2>2. CASE \/ OnCompleted \/ OnTimeout \/ Announce \/ ClearLast
             \/ OnInitFailed \/ CloseWallet
             \/ \E n \in 0 .. MaxTx : OpenImported(n)
    BY <2>2 DEF OnCompleted, OnTimeout, Announce, ClearLast, OnInitFailed,
                CloseWallet, OpenImported, NotifyAboutLastTransaction, Take,
                Idle, EventLoop, GuiAt
  <2> QED
    BY <1>4, <2>1, <2>2 DEF AdapterOnGui
<1> QED
  BY <1>2, <1>3, <1>4 DEF FeedNext
-----------------------------------------------------------------------------
(***************************************************************************)
(* What a list shows, and the events that clear it.  S stands for the ids  *)
(* that the list shows.  Nothing foreign is shown for long because close() *)
(* always posts the event that clears the list, and a load that failed had *)
(* no transactions to show.  The ids that were shown when it was asked for *)
(* are those whose clearing is posted already.                             *)
(***************************************************************************)
ClearedOf(S) == S = {} \/ Posted \cap {"closed", "reload"} # {}

ListedInv(S) ==
  /\ ClearPosted \/ \A id \in S : HasTransaction(id)
  /\ ~open => txCount = 0 /\ ClearedOf(S)
  /\ FailurePosted => /\ txCount = 0
                      /\ ClearedOf(S)
                      /\ gui.pc \notin {"importing", "closing"}

LEMMA FeedKeepsListed ==
  ASSUME FeedTypeOK, NEW S, ListedInv(S), FeedNext
  PROVE  ListedInv(S)'
<1> USE DEF ListedInv, ClearedOf, ClearPosted, FailurePosted, HasTransaction
\* Steps that take no event that clears the list, post no failure and do not
\* change the wallet.
<1>1. ASSUME UNCHANGED <<open, txCount>>,
             Posted \cap {"closed", "initCompleted", "reload"}
               \subseteq Posted',
             FailurePosted' => FailurePosted,
             FailurePosted => gui'.pc \notin {"importing", "closing"}
      PROVE  ListedInv(S)'
  BY <1>1
<1>2. CASE WalletThread
  <2>1. CASE \/ BeginProgress \/ StoreBehind
             \/ BeginCompleted \/ StoreCaughtUp
             \/ ReadSynchronized \/ StoreLast
    <3>1. UNCHANGED <<open, txCount, queue, gui>>
      BY <2>1 DEF BeginProgress, StoreBehind, BeginCompleted, StoreCaughtUp,
                  ReadSynchronized, StoreLast, wallet
    <3>2. Posted' = Posted
      BY <3>1 DEF Posted, EventTypesIn
    <3> QED
      BY <1>1, <3>1, <3>2
  <2>2. CASE \/ EmitProgress \/ EmitCompleted \/ EmitCreated
             \/ \E id \in TxIds : SendCompleted(id)
    <3>1. PICK event \in Events : Post(event) /\ event.type # "initFailed"
      <4>1. CASE EmitProgress \/ EmitCompleted
        BY <4>1, EventTyped
           DEF EmitProgress, EmitCompleted, Signal, Event, EventTypes
      <4>2. CASE EmitCreated
        <5>1. Event("created", callback.id) \in Events
          BY EventTyped DEF FeedTypeOK, Callbacks, EventTypes
        <5> QED
          BY <4>2, <5>1 DEF EmitCreated, Event
      <4>3. CASE \E id \in TxIds : SendCompleted(id)
        BY <4>3, EventTyped DEF SendCompleted, Event, EventTypes
      <4> QED
        BY <2>2, <4>1, <4>2, <4>3
    <3>2. Posted' = Posted \cup {event.type}
      BY <3>1, PostedAfterPost
    <3> QED
      BY <1>1, <2>2, <3>1, <3>2
         DEF EmitProgress, EmitCompleted, EmitCreated, SendCompleted,
             wallet
  <2>3. CASE BeginExternal
    <3>1. Posted' = Posted
      BY <2>3 DEF BeginExternal, Posted, EventTypesIn
    <3> QED
      BY <2>3, <3>1 DEF FeedTypeOK, BeginExternal, MayBegin
  <2> QED
    BY <1>2, <2>1, <2>2, <2>3 DEF WalletThread
<1>3. CASE AdapterOnGui
  <2>1. CASE OnProgress \/ OnCompleted
    <3>1. PICK type \in {"progress", "completed"} :
            Take(type) /\ queue' = Tail(queue)
      BY <2>1 DEF OnProgress, OnCompleted
    <3>2. Posted = Posted' \cup {type}
      BY <3>1, PostedAfterTake
    <3>3. gui'.pc \notin {"importing", "closing"}
      BY <2>1 DEF OnProgress, OnCompleted, NotifyAboutLastTransaction, Take,
                  Idle, EventLoop, GuiAt
    <3> QED
      BY <1>1, <2>1, <3>2, <3>3 DEF OnProgress, OnCompleted, wallet
  <2>2. CASE OnSendCompleted
    <3> DEFINE id == Head(queue).id
    <3>1. Take("sendCompleted") /\ UNCHANGED <<open, txCount, gui>>
      BY <2>2 DEF OnSendCompleted, wallet
    <3>2. CASE HasTransaction(id)
      <4>1. Event("created", id) \in Events
        BY <3>1, TakeTyped, EventTyped
           DEF FeedTypeOK, Take, EventTypes
      <4>2. queue' = Append(Tail(queue), Event("created", id))
        BY <2>2, <3>2 DEF OnSendCompleted
      <4>3. Posted \cup {"created"} = Posted' \cup {"sendCompleted"}
        BY <3>1, <4>1, <4>2, PostedAfterForward DEF Event
      <4> QED
        BY <1>1, <3>1, <4>3
    <3>3. CASE ~HasTransaction(id)
      <4>1. queue' = Tail(queue)
        BY <2>2, <3>3 DEF OnSendCompleted
      <4>2. Posted = Posted' \cup {"sendCompleted"}
        BY <3>1, <4>1, PostedAfterTake
      <4> QED
        BY <1>1, <3>1, <4>2
    <3> QED
      BY <3>2, <3>3
  <2>3. CASE OnInitCompleted
    <3>1. Take("initCompleted") /\ UNCHANGED <<open, txCount, gui>>
      BY <2>3 DEF OnInitCompleted, wallet
    <3>2. CASE open
      <4>1. Signal("reload") \in Events
        BY EventTyped DEF EventTypes
      <4>2. Posted \cup {"reload"} = Posted' \cup {"initCompleted"}
        BY <2>3, <3>1, <3>2, <4>1, PostedAfterForward
           DEF OnInitCompleted, Signal, Event
      <4> QED
        BY <3>1, <3>2, <4>2
    <3>3. CASE ~open
      <4>1. Posted = Posted' \cup {"initCompleted"}
        BY <2>3, <3>1, <3>3, PostedAfterTake DEF OnInitCompleted
      <4> QED
        BY <3>1, <3>3, <4>1
    <3> QED
      BY <3>2, <3>3
  <2>4. CASE OnInitFailed
    <3>1. Posted = Posted' \cup {"initFailed"}
      BY <2>4, PostedAfterTake DEF OnInitFailed
    <3>2. gui' = gui /\ open' = FALSE /\ txCount' = 0
      BY <2>4, <3>1
         DEF OnInitFailed, DestroyWallet, FeedTypeOK, wallet
    <3>3. ClearedOf(S)' /\ gui.pc = "eventLoop"
      BY <2>4, <3>1, <3>2 DEF OnInitFailed, Take, Idle
    <3> QED
      BY <3>1, <3>2, <3>3
  <2>5. CASE OnTimeout \/ ClearLast
    <3>1. Posted' = Posted
      BY <2>5 DEF OnTimeout, ClearLast, adapter, Posted, EventTypesIn
    <3>2. gui'.pc \notin {"importing", "closing"}
      BY <2>5 DEF OnTimeout, ClearLast, NotifyAboutLastTransaction,
                  EventLoop, GuiAt
    <3> QED
      BY <1>1, <2>5, <3>1, <3>2 DEF OnTimeout, ClearLast, wallet
  <2>6. CASE Announce
    <3>1. Event("created", lastId) \in Events
      BY EventTyped DEF FeedTypeOK, EventTypes
    <3>2. Posted' = Posted \cup {"created"}
      BY <2>6, <3>1, PostedAfterPost DEF Announce, Event
    <3> QED
      BY <1>1, <2>6, <3>2 DEF Announce, GuiAt, wallet
  <2>7. CASE CloseWallet
    <3>1. Signal("closed") \in Events
      BY EventTyped DEF EventTypes
    <3>2. Posted' = Posted \cup {"closed"}
      BY <2>7, <3>1, PostedAfterPost DEF CloseWallet, Signal, Event
    <3>3. txCount' = 0 /\ gui'.pc \notin {"importing", "closing"}
      BY <2>7 DEF CloseWallet, DestroyWallet, EventLoop, GuiAt
    <3> QED
      BY <3>2, <3>3
  <2>8. CASE \E n \in 0 .. MaxTx : OpenImported(n)
    <3>1. Signal("initCompleted") \in Events
      BY EventTyped DEF EventTypes
    <3>2. Posted' = Posted \cup {"initCompleted"}
      BY <2>8, <3>1, PostedAfterPost DEF OpenImported, Load, Signal, Event
    <3>3. open' /\ ~FailurePosted'
      BY <2>8, <3>2 DEF OpenImported, Load
    <3> QED
      BY <3>2, <3>3
  <2> QED
    BY <1>3, <2>1, <2>2, <2>3, <2>4, <2>5, <2>6, <2>7, <2>8
       DEF AdapterOnGui
<1>4. CASE User
  <2>1. CASE \E n \in 0 .. MaxTx : Open(n)
    <3>1. /\ ~open /\ open' /\ ~FailurePosted /\ gui.pc = "eventLoop"
          /\ UNCHANGED gui
      BY <2>1 DEF Open, Load, LoadFails, LoadNothing, UserAction, Idle
    <3>2. CASE \E n \in 0 .. MaxTx : Load(n)
      <4>1. Posted' = Posted \cup {"initCompleted"}
        BY <3>2, EventTyped, PostedAfterPost
           DEF Load, EventTypes, Signal, Event
      <4> QED
        BY <3>1, <4>1
    <3>3. CASE LoadFails
      <4>1. Posted' = Posted \cup {"initFailed"}
        BY <3>3, EventTyped, PostedAfterPost
           DEF LoadFails, EventTypes, Signal, Event
      <4>2. txCount' = txCount
        BY <3>3 DEF LoadFails
      <4> QED
        BY <3>1, <4>1, <4>2
    <3>4. CASE LoadNothing
      <4>1. Posted' = Posted /\ txCount' = txCount
        BY <3>4 DEF LoadNothing, Posted, EventTypesIn
      <4> QED
        BY <3>1, <4>1
    <3> QED
      BY <2>1, <3>2, <3>3, <3>4 DEF Open
  <2>2. CASE Create \/ Import
    <3>1. Posted' = Posted /\ UNCHANGED txCount
      BY <2>2 DEF Create, Import, Posted, EventTypesIn
    <3>2. ~open /\ open' /\ ~FailurePosted
      BY <2>2 DEF Create, Import, UserAction
    <3> QED
      BY <3>1, <3>2
  <2>3. CASE Close
    <3>1. Posted' = Posted /\ ~FailurePosted
      BY <2>3 DEF Close, UserAction, Posted, EventTypesIn
    <3> QED
      BY <1>1, <2>3, <3>1 DEF Close, wallet
  <2>4. CASE Rescan
    <3>1. Posted' = Posted \cup {"initCompleted"}
      BY <2>4, EventTyped, PostedAfterPost
         DEF Rescan, EventTypes, Signal, Event
    <3> QED
      BY <2>4, <3>1 DEF Rescan, UserAction
  <2>5. CASE SendTransaction
    <3>1. Posted' = Posted \/ Posted' = Posted \cup {"sendCompleted"}
      <4>1. Event("sendCompleted", NoTx) \in Events
        BY EventTyped DEF EventTypes
      <4>2. CASE Post(Event("sendCompleted", NoTx))
        BY <4>1, <4>2, PostedAfterPost DEF Event
      <4>3. CASE UNCHANGED queue
        BY <4>3 DEF Posted, EventTypesIn
      <4> QED
        BY <2>5, <4>2, <4>3 DEF SendTransaction
    <3>2. /\ open /\ ~FailurePosted /\ UNCHANGED open
          /\ txCount' \in Nat /\ txCount' >= txCount
      BY <2>5 DEF SendTransaction, UserAction, FeedTypeOK
    <3> QED
      BY <3>1, <3>2 DEF FeedTypeOK
  <2> QED
    BY <1>4, <2>1, <2>2, <2>3, <2>4, <2>5 DEF User
<1> QED
  BY <1>2, <1>3, <1>4 DEF FeedNext

(***************************************************************************)
(* A step of a list takes the event that clears it, takes another event,   *)
(* or shows one more transaction of the open wallet.                       *)
(***************************************************************************)
LEMMA ListKeepsListed ==
  ASSUME FeedTypeOK, NEW S, NEW T, ListedInv(S), UNCHANGED <<open, txCount>>,
         gui'.pc \notin {"importing", "closing"},
         FailurePosted' => FailurePosted,
         \/ T = {}
         \/ /\ Posted \cap {"closed", "initCompleted", "reload"}
                 \subseteq Posted'
            /\ \/ T = S
               \/ \E id : T = S \cup {id} /\ HasTransaction(id)
  PROVE  ListedInv(T)'
<1> USE DEF ListedInv, ClearedOf, ClearPosted, FailurePosted, HasTransaction
<1>1. CASE T = {}
  BY <1>1
<1>2. CASE /\ Posted \cap {"closed", "initCompleted", "reload"}
                \subseteq Posted'
           /\ T = S
  BY <1>2
<1>3. CASE /\ Posted \cap {"closed", "initCompleted", "reload"}
                \subseteq Posted'
           /\ \E id : T = S \cup {id} /\ HasTransaction(id)
  <2>1. open /\ txCount # 0
    BY <1>3 DEF FeedTypeOK
  <2> QED
    BY <1>3, <2>1
<1> QED
  BY <1>1, <1>2, <1>3
-----------------------------------------------------------------------------
(***************************************************************************)
(* The number of keys of m_transactionRow is a natural number.             *)
(***************************************************************************)
LEMMA ShownIdsFinite ==
  ASSUME rows \in Seq(TxIds), MaxTx \in Nat
  PROVE  /\ ShownIds \subseteq TxIds
         /\ IsFiniteSet(ShownIds)
         /\ Cardinality(ShownIds) \in Nat
<1>1. ShownIds \in SUBSET TxIds
  BY DEF ShownIds
<1>2. IsFiniteSet(TxIds)
  BY FS_Interval DEF TxIds
<1> QED
  BY <1>1, <1>2, FS_Subset, FS_CardinalityType

(***************************************************************************)
(* The steps of the list keep the types of all variables.                  *)
(***************************************************************************)
LEMMA TransactionStepTyped ==
  TransactionTypeOK /\ TransactionStep => TransactionTypeOK'
<1> SUFFICES ASSUME TransactionTypeOK, TransactionStep PROVE TransactionTypeOK'
  OBVIOUS
<1> USE DEF TransactionTypeOK, FeedTypeOK
<1>1. CASE AppendTransaction
  BY <1>1, TakeTyped, GuiTyped, ShownIdsFinite, BoundsAssumption
     DEF AppendTransaction, Take, GuiStates, wallet, adapter
<1>2. CASE ReloadTransactions
  <2>1. gui' \in GuiPositions
    BY <1>2, GuiTyped DEF ReloadTransactions, GuiStates
  <2>2. rows' \in Seq(TxIds) /\ queue' \in Seq(Events)
    BY <1>2, TakeTyped DEF ReloadTransactions, Take
  <2> QED
    BY <1>2, <2>1, <2>2 DEF ReloadTransactions, wallet, adapter
<1>3. CASE ResetTransactions
  <2>1. rows' \in Seq(TxIds) /\ queue' \in Seq(Events)
    BY <1>3, TakeTyped DEF ResetTransactions, Take
  <2> QED
    BY <1>3, <2>1 DEF ResetTransactions, wallet, adapter
<1>4. CASE AppendRow
  <2>1. gui' \in GuiPositions
    BY <1>4, GuiTyped, NextRoundTyped DEF AppendRow
  <2>2. rows' \in Seq(TxIds)
    BY <1>4, HasTransactionTyped DEF AppendRow
  <2> QED
    BY <1>4, <2>1, <2>2 DEF AppendRow, wallet, adapter
<1>5. CASE ReloadRow
  <2>1. gui' \in GuiPositions
    BY <1>5, GuiTyped, NextRoundTyped DEF ReloadRow
  <2>2. rows' \in Seq(TxIds)
    <3>1. CASE HasTransaction(gui.next)
      <4>1. gui.next \in TxIds
        BY <3>1, HasTransactionTyped
      <4> QED
        BY <1>5, <3>1, <4>1 DEF ReloadRow
    <3>2. CASE ~HasTransaction(gui.next)
      BY <1>5, <3>2 DEF ReloadRow
    <3> QED
      BY <3>1, <3>2
  <2> QED
    BY <1>5, <2>1, <2>2 DEF ReloadRow, wallet, adapter
<1> QED
  BY <1>1, <1>2, <1>3, <1>4, <1>5 DEF TransactionStep

(***************************************************************************)
(* All variables keep their types, whatever the bounds: in particular the  *)
(* list never holds an id beyond those that a wallet may have.             *)
(***************************************************************************)
THEOREM TransactionTypeCorrect == TransactionSpec => []TransactionTypeOK
<1>1. TransactionInit => TransactionTypeOK
  <2>1. TransactionInit => rows \in Seq(TxIds)
    BY DEF TransactionInit
  <2> QED
    BY <2>1, FeedInitTyped DEF TransactionInit, TransactionTypeOK
<1>2. TransactionTypeOK /\ [TransactionNext]_transactionVars
        => TransactionTypeOK'
  BY FeedStepTyped, FeedStutterTyped, TransactionStepTyped
     DEF TransactionTypeOK, TransactionNext, transactionVars, transactionList
<1> QED
  BY <1>1, <1>2, PTL DEF TransactionSpec
-----------------------------------------------------------------------------
(***************************************************************************)
(* The list is never told that "no transaction" was created, for every     *)
(* number of transactions and of posted events.                            *)
(***************************************************************************)
THEOREM NoneNeverAnnounced == TransactionSpec => []NeverAnnouncesNone
<1>1. TransactionInit => AnnounceInv
  BY DEF TransactionInit, FeedInit, AnnounceInv, NoneAnnounced, EventLoop,
         GuiAt, NoCallback, Callback
<1>2. FeedTypeOK /\ AnnounceInv /\ [TransactionNext]_transactionVars
        => AnnounceInv'
  <2> SUFFICES ASSUME FeedTypeOK, AnnounceInv,
                      [TransactionNext]_transactionVars
               PROVE  AnnounceInv'
    OBVIOUS
  \* The list takes an event or leaves the queue alone.
  <2>1. ASSUME queue' = queue \/ (queue # <<>> /\ queue' = Tail(queue)),
               UNCHANGED <<callback, lastId>>,
               gui' = gui \/ gui'.pc # "announce"
        PROVE  AnnounceInv'
    BY <2>1, NoneAnnouncedAfterTake DEF FeedTypeOK, AnnounceInv, NoneAnnounced
  <2>2. CASE AppendTransaction \/ ReloadTransactions \/ ResetTransactions
    BY <2>1, <2>2 DEF AppendTransaction, ReloadTransactions,
                      ResetTransactions, Take, GuiAt, EventLoop, adapter
  <2>3. CASE AppendRow \/ ReloadRow
    <3>1. gui'.pc # "announce"
      BY <2>3 DEF AppendRow, ReloadRow, GuiAt, EventLoop, FeedTypeOK,
                  GuiPositions
    <3> QED
      BY <2>1, <2>3, <3>1 DEF AppendRow, ReloadRow, adapter
  <2>4. CASE UNCHANGED transactionVars
    BY <2>1, <2>4 DEF transactionVars, feed
  <2> QED
    BY <2>2, <2>3, <2>4, FeedKeepsAnnounced
       DEF TransactionNext, TransactionStep
<1>3. AnnounceInv => NeverAnnouncesNone
  BY DEF AnnounceInv, NoneAnnounced, NeverAnnouncesNone
<1> QED
  BY <1>1, <1>2, <1>3, TransactionTypeCorrect, PTL
     DEF TransactionSpec, TransactionTypeOK
-----------------------------------------------------------------------------
(***************************************************************************)
(* RowIsId is not inductive: it says nothing of the loops that are under   *)
(* way.  RowsInOrder adds where each of them is: its next id is the next   *)
(* row, and the loop that appends up to an id only asks for transactions   *)
(* that the wallet has, as nothing closes or resets the wallet meanwhile.  *)
(***************************************************************************)
RowsInOrder ==
  ~strayRow =>
    /\ \A i \in DOMAIN rows : rows[i] = i - 1
    /\ gui.pc = "append" => /\ gui.next = Len(rows)
                            /\ gui.next <= gui.last
                            /\ HasTransaction(gui.last)
    /\ gui.pc = "reload" => gui.next = Len(rows)

(***************************************************************************)
(* The ids of a list in order are those from 0 to its last row.            *)
(***************************************************************************)
LEMMA ShownIdsInOrder ==
  ASSUME rows \in Seq(TxIds), \A i \in DOMAIN rows : rows[i] = i - 1
  PROVE  /\ ShownIds = 0 .. Len(rows) - 1
         /\ Cardinality(ShownIds) = Len(rows)
<1>1. ShownIds = 0 .. Len(rows) - 1
  <2>1. ShownIds \subseteq 0 .. Len(rows) - 1
    BY DEF ShownIds
  <2>2. ASSUME NEW id \in 0 .. Len(rows) - 1 PROVE id \in ShownIds
    <3>1. id + 1 \in DOMAIN rows /\ rows[id + 1] = id
      OBVIOUS
    <3> QED
      BY <3>1 DEF ShownIds
  <2> QED
    BY <2>1, <2>2
<1>2. Len(rows) \in Nat
  OBVIOUS
<1> QED
  BY <1>1, <1>2, FS_Interval

(***************************************************************************)
(* Each row shows the transaction whose id is its row number, whatever the *)
(* number of transactions and of posted events, unless the list was given  *)
(* an id that the wallet does not have.                                    *)
(***************************************************************************)
THEOREM RowsAreIds == TransactionSpec => []RowIsId
<1>1. TransactionInit => RowsInOrder
  BY DEF TransactionInit, FeedInit, RowsInOrder, EventLoop, GuiAt
<1>2. TransactionTypeOK /\ RowsInOrder /\ [TransactionNext]_transactionVars
        => RowsInOrder'
  <2> SUFFICES ASSUME TransactionTypeOK, FeedTypeOK, RowsInOrder,
                      [TransactionNext]_transactionVars
               PROVE  RowsInOrder'
    BY DEF TransactionTypeOK
  <2>1. ASSUME UNCHANGED <<rows, strayRow, gui, open>>,
               txCount' \in Nat, txCount' >= txCount
        PROVE  RowsInOrder'
    BY <2>1
       DEF TransactionTypeOK, FeedTypeOK, RowsInOrder, HasTransaction,
           GuiPositions
  <2>2. ASSUME UNCHANGED <<rows, strayRow>>, gui'.pc \notin {"append",
                           "reload"}
        PROVE  RowsInOrder'
    BY <2>2 DEF RowsInOrder
  <2>3. CASE FeedNext /\ UNCHANGED transactionList
    BY <2>1, <2>2, <2>3, FeedLeavesLoops DEF transactionList
  <2>4. CASE TransactionStep
    <3>1. CASE AppendTransaction
      <4> DEFINE id == Head(queue).id
      <4>1. CASE id \in ShownIds
        BY <2>1, <3>1, <4>1
           DEF TransactionTypeOK, FeedTypeOK, AppendTransaction, wallet
      <4>2. CASE id \notin ShownIds
        <5> SUFFICES ASSUME ~strayRow'
                     PROVE  RowsInOrder'
          BY DEF RowsInOrder
        <5>1. ~strayRow /\ HasTransaction(id)
          BY <3>1, <4>2 DEF AppendTransaction, TransactionTypeOK, FeedTypeOK
        <5>2. /\ ShownIds = 0 .. Len(rows) - 1
              /\ Cardinality(ShownIds) = Len(rows)
          BY <5>1, ShownIdsInOrder
             DEF TransactionTypeOK, FeedTypeOK, RowsInOrder
        <5>3. Len(rows) <= id /\ id \in 0 .. txCount - 1
          BY <5>1, <5>2, <4>2 DEF TransactionTypeOK, FeedTypeOK, HasTransaction
        <5>4. gui' = GuiAt("append", Len(rows), id)
          BY <3>1, <4>2, <5>2, <5>3 DEF AppendTransaction
        <5>5. UNCHANGED <<rows, open, txCount>>
          BY <3>1 DEF AppendTransaction, wallet
        <5> QED
          BY <5>1, <5>3, <5>4, <5>5 DEF RowsInOrder, HasTransaction, GuiAt
      <4> QED
        BY <4>1, <4>2
    <3>2. CASE ReloadTransactions \/ ResetTransactions
      BY <3>2
         DEF ReloadTransactions, ResetTransactions, Take, Idle, RowsInOrder,
             GuiAt
    <3>3. CASE AppendRow
      <4> SUFFICES ASSUME ~strayRow PROVE RowsInOrder'
        BY <3>3 DEF AppendRow, RowsInOrder
      <4>1. /\ gui.next = Len(rows)
            /\ gui.next <= gui.last
            /\ HasTransaction(gui.last)
            /\ \A i \in DOMAIN rows : rows[i] = i - 1
        BY <3>3 DEF AppendRow, RowsInOrder
      <4>2. HasTransaction(gui.next) /\ gui.next \in TxIds
        BY <4>1, HasTransactionTyped
           DEF TransactionTypeOK, FeedTypeOK, GuiPositions, HasTransaction
      <4>3. rows' = Append(rows, Len(rows))
        BY <3>3, <4>1, <4>2 DEF AppendRow
      <4>4. /\ \A i \in DOMAIN rows' : rows'[i] = i - 1
            /\ Len(rows') = Len(rows) + 1
        BY <4>1, <4>2, <4>3 DEF TransactionTypeOK, FeedTypeOK
      <4>5. CASE gui.next < gui.last
        BY <3>3, <4>1, <4>4, <4>5
           DEF AppendRow, RowsInOrder, TransactionTypeOK, FeedTypeOK,
               GuiPositions,
               HasTransaction,
               wallet
      <4>6. CASE ~(gui.next < gui.last)
        BY <3>3, <4>4, <4>6 DEF AppendRow, RowsInOrder, EventLoop, GuiAt
      <4> QED
        BY <4>5, <4>6
    <3>4. CASE ReloadRow
      <4> SUFFICES ASSUME ~strayRow PROVE RowsInOrder'
        BY <3>4 DEF ReloadRow, RowsInOrder
      <4>1. /\ gui.next = Len(rows)
            /\ \A i \in DOMAIN rows : rows[i] = i - 1
        BY <3>4 DEF ReloadRow, RowsInOrder
      <4>2. CASE HasTransaction(gui.next)
        <5>1. gui.next \in TxIds
          BY <4>2, HasTransactionTyped DEF TransactionTypeOK, FeedTypeOK
        <5>2. /\ rows' = Append(rows, Len(rows))
              /\ gui' = [gui EXCEPT !.next = @ + 1]
          BY <3>4, <4>1, <4>2 DEF ReloadRow
        <5>3. /\ \A i \in DOMAIN rows' : rows'[i] = i - 1
              /\ Len(rows') = Len(rows) + 1
          BY <4>1, <5>1, <5>2 DEF TransactionTypeOK, FeedTypeOK
        <5>4. gui'.pc = "reload" /\ gui'.next = Len(rows')
          BY <3>4, <4>1, <5>2, <5>3
             DEF ReloadRow, TransactionTypeOK, FeedTypeOK, GuiPositions
        <5> QED
          BY <5>3, <5>4 DEF RowsInOrder
      <4>3. CASE ~HasTransaction(gui.next)
        BY <2>2, <3>4, <4>3 DEF ReloadRow, EventLoop, GuiAt
      <4> QED
        BY <4>2, <4>3
    <3> QED
      BY <2>4, <3>1, <3>2, <3>3, <3>4 DEF TransactionStep
  <2>5. CASE UNCHANGED transactionVars
    BY <2>1, <2>5
       DEF TransactionTypeOK, FeedTypeOK, transactionVars, feed,
           transactionList
  <2> QED
    BY <2>3, <2>4, <2>5 DEF TransactionNext
<1>3. RowsInOrder => RowIsId
  BY DEF RowsInOrder, RowIsId
<1> QED
  BY <1>1, <1>2, <1>3, TransactionTypeCorrect, PTL DEF TransactionSpec
-----------------------------------------------------------------------------
(***************************************************************************)
(* The ids of a list with one more row.                                    *)
(***************************************************************************)
LEMMA AppendedRow ==
  ASSUME NEW q \in Seq(TxIds), NEW id \in TxIds
  PROVE  {Append(q, id)[i] : i \in DOMAIN Append(q, id)}
           = {q[i] : i \in DOMAIN q} \cup {id}
<1> DEFINE longer == Append(q, id)
<1>1. /\ Len(q) \in Nat /\ DOMAIN q = 1 .. Len(q)
      /\ DOMAIN longer = 1 .. Len(q) + 1
      /\ longer[Len(q) + 1] = id
      /\ \A i \in DOMAIN q : longer[i] = q[i]
  OBVIOUS
<1> HIDE DEF longer
<1>2. \A i \in DOMAIN longer : i \in DOMAIN q \/ i = Len(q) + 1
  BY <1>1
<1>3. Len(q) + 1 \in DOMAIN longer /\ DOMAIN q \subseteq DOMAIN longer
  BY <1>1
<1>4. {longer[i] : i \in DOMAIN longer} = {q[i] : i \in DOMAIN q} \cup {id}
  BY <1>1, <1>2, <1>3
<1> QED
  BY <1>4 DEF longer

(***************************************************************************)
(* A list that is left by closing, opening or rescanning is always on its  *)
(* way to being cleared, for every number of transactions and events.      *)
(***************************************************************************)
THEOREM NoForeignRowsStay == TransactionSpec => []NoForeignRows
<1>1. TransactionInit => ListedInv(ShownIds)
  BY DEF TransactionInit, FeedInit, ListedInv, ClearedOf, ShownIds,
     FailurePosted,
         Posted, EventTypesIn
<1>2. TransactionTypeOK /\ ListedInv(ShownIds)
        /\ [TransactionNext]_transactionVars => ListedInv(ShownIds)'
  <2> SUFFICES ASSUME TransactionTypeOK, FeedTypeOK, ListedInv(ShownIds),
                      [TransactionNext]_transactionVars
               PROVE  ListedInv(ShownIds)'
    BY DEF TransactionTypeOK
  <2> USE DEF ListedInv, ClearedOf, ClearPosted, FailurePosted,
              HasTransaction
  <2>1. CASE FeedNext /\ UNCHANGED transactionList
    <3>1. ShownIds' = ShownIds
      BY <2>1 DEF transactionList, ShownIds
    <3> QED
      BY <2>1, <3>1, FeedKeepsListed
  <2>2. CASE TransactionStep
    <3>1. CASE AppendTransaction
      <4>1. Posted = Posted' \cup {"created"}
        BY <3>1, PostedAfterTake DEF AppendTransaction
      <4>2. gui'.pc \notin {"importing", "closing"}
        BY <3>1 DEF AppendTransaction, Take, Idle, EventLoop, GuiAt
      <4>3. UNCHANGED <<open, txCount>> /\ ShownIds' = ShownIds
        BY <3>1 DEF AppendTransaction, wallet, ShownIds
      <4> QED
        BY <4>1, <4>2, <4>3, ListKeepsListed
    <3>2. CASE ReloadTransactions \/ ResetTransactions
      <4>1. PICK type \in {"reload", "closed"} :
              Take(type) /\ queue' = Tail(queue)
        BY <3>2 DEF ReloadTransactions, ResetTransactions
      <4>2. Posted = Posted' \cup {type}
        BY <4>1, PostedAfterTake
      <4>3. UNCHANGED <<open, txCount>> /\ ShownIds' = {}
        BY <3>2 DEF ReloadTransactions, ResetTransactions, wallet, ShownIds
      <4>4. gui'.pc \notin {"importing", "closing"}
        BY <3>2 DEF ReloadTransactions, ResetTransactions, Take, Idle, GuiAt
      <4> QED
        BY <4>2, <4>3, <4>4, ListKeepsListed
    <3>3. CASE AppendRow \/ ReloadRow
      <4>1. Posted' = Posted /\ UNCHANGED <<open, txCount>>
        BY <3>3 DEF AppendRow, ReloadRow, Posted, EventTypesIn, wallet
      <4>2. gui'.pc \notin {"importing", "closing"}
        BY <3>3 DEF AppendRow, ReloadRow, EventLoop, GuiAt, TransactionTypeOK,
                    FeedTypeOK, GuiPositions
      <4>3. \/ ShownIds' = ShownIds
            \/ /\ ShownIds' = ShownIds \cup {gui.next}
               /\ HasTransaction(gui.next)
        <5>1. CASE rows' = rows
          BY <5>1 DEF ShownIds
        <5>2. CASE rows' = Append(rows, gui.next) /\ HasTransaction(gui.next)
          <6>1. gui.next \in TxIds
            BY <5>2, HasTransactionTyped DEF FeedTypeOK
          <6>2. ShownIds' = ShownIds \cup {gui.next}
            BY <5>2, <6>1, AppendedRow DEF ShownIds, TransactionTypeOK
          <6> QED
            BY <5>2, <6>2
        <5> QED
          BY <3>3, <5>1, <5>2 DEF AppendRow, ReloadRow
      <4> QED
        BY <4>1, <4>2, <4>3, ListKeepsListed
    <3> QED
      BY <2>2, <3>1, <3>2, <3>3 DEF TransactionStep
  <2>3. CASE UNCHANGED transactionVars
    BY <2>3
       DEF transactionVars, feed, transactionList, Posted, EventTypesIn,
           ShownIds
  <2> QED
    BY <2>1, <2>2, <2>3 DEF TransactionNext
<1>3. ListedInv(ShownIds) => NoForeignRows
  BY DEF ListedInv, NoForeignRows, ShownIds
<1> QED
  BY <1>1, <1>2, <1>3, TransactionTypeCorrect, PTL DEF TransactionSpec
-----------------------------------------------------------------------------
(***************************************************************************)
(* What one more transaction does to the list.                             *)
(***************************************************************************)
LEMMA AppendOneTyped ==
  ASSUME known \subseteq TxIds, messages \in Seq(WithMessages),
         txCount \in 0 .. MaxTx, NEW id, AppendOne(id)
  PROVE  known' \subseteq TxIds /\ messages' \in Seq(WithMessages)
<1>1. CASE id \notin known /\ HasTransaction(id)
  <2>1. id \in TxIds
    BY <1>1, HasTransactionTyped
  <2> QED
    BY <1>1, <2>1 DEF AppendOne
<1>2. CASE ~(id \notin known /\ HasTransaction(id))
  BY <1>2 DEF AppendOne, messageRows
<1> QED
  BY <1>1, <1>2

LEMMA KnownFinite ==
  ASSUME known \subseteq TxIds
  PROVE  Cardinality(known) \in Nat
<1>1. IsFiniteSet(TxIds)
  BY FS_Interval, BoundsAssumption DEF TxIds
<1> QED
  BY <1>1, FS_Subset, FS_CardinalityType

(***************************************************************************)
(* The chunks that are scheduled were scheduled for this or for an earlier *)
(* generation.                                                             *)
(***************************************************************************)
LEMMA TimersTyped ==
  ASSUME generation \in Nat, timers \in Seq(0 .. generation)
  PROVE  /\ Append(timers, generation) \in Seq(0 .. generation)
         /\ Append(timers, generation + 1) \in Seq(0 .. generation + 1)
         /\ timers \in Seq(0 .. generation + 1)
         /\ timers # <<>> => Tail(timers) \in Seq(0 .. generation)
<1>1. timers \in Seq(0 .. generation + 1)
  <2>1. \A i \in DOMAIN timers : timers[i] \in 0 .. generation + 1
    OBVIOUS
  <2> QED
    BY <2>1
<1> QED
  BY <1>1

(***************************************************************************)
(* The steps of the list keep the types of all variables.                  *)
(***************************************************************************)
LEMMA MessageStepTyped == MessageTypeOK /\ MessageStep => MessageTypeOK'
<1> SUFFICES ASSUME MessageTypeOK, MessageStep PROVE MessageTypeOK'
  OBVIOUS
<1> USE DEF MessageTypeOK, FeedTypeOK
<1>1. CASE AppendMessage
  <2>1. gui' \in GuiPositions /\ queue' \in Seq(Events)
    BY <1>1, TakeTyped, GuiTyped, KnownFinite, BoundsAssumption
       DEF AppendMessage, Take, GuiStates
  <2>2. strayMessage' \in BOOLEAN
    BY <1>1 DEF AppendMessage
  <2> QED
    BY <1>1, <2>1, <2>2 DEF AppendMessage, wallet, adapter, messageRows, chunks
<1>2. CASE AppendRound
  <2>1. gui' \in GuiPositions
    BY <1>2, GuiTyped, NextRoundTyped DEF AppendRound
  <2>2. known' \subseteq TxIds /\ messages' \in Seq(WithMessages)
    BY <1>2, AppendOneTyped DEF AppendRound
  <2> QED
    BY <1>2, <2>1, <2>2 DEF AppendRound, wallet, adapter, chunks
<1>3. CASE ReloadMessages
  <2>1. queue' \in Seq(Events)
    BY <1>3, TakeTyped DEF ReloadMessages, Take
  <2>2. generation' \in Nat /\ timers' \in Seq(0 .. generation')
    BY <1>3, TimersTyped DEF ReloadMessages
  <2>3. known' \subseteq TxIds /\ messages' \in Seq(WithMessages)
    BY <1>3 DEF ReloadMessages, Clear
  <2>4. reloadId' \in 0 .. MaxTx
    BY <1>3, BoundsAssumption DEF ReloadMessages
  <2> QED
    BY <1>3, <2>1, <2>2, <2>3, <2>4 DEF ReloadMessages, Clear, wallet, adapter
<1>4. CASE StartChunk
  <2>1. gui' \in GuiPositions
    <3> DEFINE next == reloadId + ChunkSize
               end  == IF next < txCount THEN next ELSE txCount
    <3>1. end \in 0 .. MaxTx
      BY BoundsAssumption, ChunkAssumption
    <3>2. end - 1 \in TxIds \cup {NoTx}
      BY <3>1, BoundsAssumption DEF TxIds, NoTx
    <3>3. GuiAt("reload", 0, end - 1) \in GuiPositions
      BY <3>2, GuiTyped DEF GuiStates
    <3> QED
      BY <1>4, <3>3 DEF StartChunk
  <2>2. timers' \in Seq(0 .. generation)
    BY <1>4, TimersTyped DEF StartChunk
  <2>3. more' \in BOOLEAN
    <3> DEFINE next == reloadId + ChunkSize
               end  == IF next < txCount THEN next ELSE txCount
    <3>1. more' = more \/ more' = (end < txCount)
      BY <1>4 DEF StartChunk
    <3>2. (end < txCount) \in BOOLEAN
      OBVIOUS
    <3> QED
      BY <3>1, <3>2, Zenon
  <2> QED
    BY <1>4, <2>1, <2>2, <2>3 DEF StartChunk, wallet, adapter, messageRows
<1>5. CASE ChunkRound
  <2>1. known' \subseteq TxIds /\ messages' \in Seq(WithMessages)
    BY <1>5, AppendOneTyped DEF ChunkRound
  <2>2. reloadId' \in 0 .. MaxTx
    BY <1>5, BoundsAssumption
       DEF ChunkRound, GuiPositions, TxIds, NoTx
  <2> QED
    BY <1>5, <2>1, <2>2 DEF ChunkRound, feed
<1>6. CASE EndChunk
  <2>1. gui' \in GuiPositions
    BY <1>6, GuiTyped DEF EndChunk
  <2>2. timers' \in Seq(0 .. generation)
    BY <1>6, TimersTyped DEF EndChunk
  <2> QED
    BY <1>6, <2>1, <2>2 DEF EndChunk, wallet, adapter, messageRows
<1>7. CASE ResetMessages
  <2>1. queue' \in Seq(Events)
    BY <1>7, TakeTyped DEF ResetMessages, Take
  <2>2. generation' \in Nat /\ timers' \in Seq(0 .. generation')
    BY <1>7, TimersTyped DEF ResetMessages
  <2>3. known' \subseteq TxIds /\ messages' \in Seq(WithMessages)
    BY <1>7 DEF ResetMessages, Clear
  <2> QED
    BY <1>7, <2>1, <2>2, <2>3 DEF ResetMessages, Clear, wallet, adapter
<1> QED
  BY <1>1, <1>2, <1>3, <1>4, <1>5, <1>6, <1>7 DEF MessageStep

(***************************************************************************)
(* All variables keep their types, whatever the bounds: in particular a    *)
(* chunk never asks for an id beyond those that a wallet may have, and no  *)
(* chunk is scheduled for a generation that is yet to come.                *)
(***************************************************************************)
THEOREM MessageTypeCorrect == MessageSpec => []MessageTypeOK
<1>1. MessageInit => MessageTypeOK
  <2>1. MessageInit => /\ known \subseteq TxIds
                /\ messages \in Seq(WithMessages)
                /\ timers \in Seq(0 .. generation)
    BY DEF MessageInit
  <2>2. MessageInit => reloadId \in 0 .. MaxTx /\ generation \in Nat
    BY BoundsAssumption DEF MessageInit
  <2> QED
    BY <2>1, <2>2, FeedInitTyped DEF MessageInit, MessageTypeOK
<1>2. MessageTypeOK /\ [MessageNext]_messageVars => MessageTypeOK'
  BY FeedStepTyped, FeedStutterTyped, MessageStepTyped
     DEF MessageTypeOK, MessageNext, messageVars, messageList, messageRows,
         chunks
<1> QED
  BY <1>1, <1>2, PTL DEF MessageSpec
-----------------------------------------------------------------------------
(***************************************************************************)
(* OneReload is inductive with the types: a new reload is of a generation  *)
(* that no scheduled chunk has, and the chunk that schedules another has   *)
(* been taken from the schedule itself.                                    *)
(***************************************************************************)
LEMMA FeedStartsNoReload ==
  ASSUME FeedNext, gui'.pc = "reload"
  PROVE  gui.pc = "reload"
<1>1. CASE WalletThread
  BY <1>1 DEF WalletThread, BeginProgress, StoreBehind, EmitProgress,
              BeginCompleted, StoreCaughtUp, EmitCompleted, BeginExternal,
              ReadSynchronized, StoreLast, EmitCreated, SendCompleted
<1>2. CASE AdapterOnGui
  BY <1>2 DEF AdapterOnGui, OnProgress, OnCompleted, OnSendCompleted,
              OnInitCompleted, OnInitFailed, OnTimeout, Announce, ClearLast,
              CloseWallet, OpenImported, NotifyAboutLastTransaction,
              EventLoop, GuiAt
<1>3. CASE User
  BY <1>3 DEF User, Open, Create, Import, Close, Rescan, SendTransaction,
              GuiAt
<1> QED
  BY <1>1, <1>2, <1>3 DEF FeedNext

(***************************************************************************)
(* At most one chunk of the current list is ever scheduled, and none while *)
(* one is running, whatever the size of the chunks and of the wallet.      *)
(***************************************************************************)
THEOREM OneReloadAtATime == MessageSpec => []OneReload
<1>1. MessageInit => OneReload
  BY DEF MessageInit, OneReload, Scheduled, FeedInit, EventLoop, GuiAt
<1>2. MessageTypeOK /\ OneReload /\ [MessageNext]_messageVars => OneReload'
  <2> SUFFICES ASSUME MessageTypeOK, OneReload, [MessageNext]_messageVars
               PROVE  OneReload'
    OBVIOUS
  <2> USE DEF OneReload, Scheduled
  <2>1. timers \in Seq(0 .. generation) /\ generation \in Nat
    BY DEF MessageTypeOK
  \* Steps that leave the schedule alone and start no chunk.
  <2>2. ASSUME UNCHANGED <<timers, generation>>,
               gui'.pc = "reload" => gui.pc = "reload"
        PROVE  OneReload'
    BY <2>2
  <2>3. CASE FeedNext /\ UNCHANGED messageList
    BY <2>2, <2>3, FeedStartsNoReload DEF messageList, chunks
  <2>4. CASE AppendMessage \/ AppendRound
    BY <2>2, <2>4
       DEF AppendMessage, AppendRound, GuiAt, EventLoop, chunks, Take,
                      Idle, MessageTypeOK, FeedTypeOK, GuiPositions
  <2>5. CASE ReloadMessages
    <3>1. /\ timers' = Append(timers, generation + 1)
          /\ generation' = generation + 1
          /\ gui'.pc = "eventLoop"
      BY <2>5 DEF ReloadMessages, Take, Idle
    <3>2. \A i \in DOMAIN timers' : timers'[i] = generation'
                                      => i = Len(timers) + 1
      BY <2>1, <3>1
    <3> QED
      BY <3>1, <3>2
  <2>6. CASE ResetMessages
    <3>1. /\ timers' = timers
          /\ generation' = generation + 1
          /\ gui'.pc = "eventLoop"
      BY <2>6 DEF ResetMessages, Take, Idle
    <3>2. \A i \in DOMAIN timers : timers[i] # generation + 1
      BY <2>1
    <3> QED
      BY <3>1, <3>2
  <2>7. CASE StartChunk
    <3>1. /\ timers # <<>> /\ timers' = Tail(timers)
          /\ generation' = generation /\ gui.pc = "eventLoop"
      BY <2>7 DEF StartChunk, Idle
    <3>2. \A i \in DOMAIN timers' :
            i + 1 \in DOMAIN timers /\ timers'[i] = timers[i + 1]
      BY <2>1, <3>1
    <3>3. Scheduled' = {} \/ gui'.pc = "eventLoop"
      <4>1. CASE Head(timers) = generation
        <5>1. 1 \in Scheduled
          BY <2>1, <3>1, <4>1
        <5> QED
          BY <2>1, <3>1, <3>2, <5>1
      <4>2. CASE Head(timers) # generation
        BY <2>7, <3>1, <4>2 DEF StartChunk
      <4> QED
        BY <4>1, <4>2
    <3>4. \A i, j \in Scheduled' : i = j
      <4> TAKE i, j \in Scheduled'
      <4>1. i + 1 \in Scheduled /\ j + 1 \in Scheduled
        BY <3>1, <3>2
      <4>2. i \in Int /\ j \in Int
        BY <2>1, <3>1
      <4> QED
        BY <4>1, <4>2
    <3> QED
      BY <3>3, <3>4
  <2>8. CASE ChunkRound
    BY <2>2, <2>8 DEF ChunkRound, feed
  <2>9. CASE EndChunk
    <3>1. /\ Scheduled = {} /\ generation' = generation
          /\ gui'.pc = "eventLoop"
          /\ timers' = Append(timers, generation) \/ timers' = timers
      BY <2>9 DEF EndChunk, EventLoop, GuiAt
    <3>2. \A i \in DOMAIN timers' : timers'[i] = generation
                                      => i = Len(timers) + 1
      BY <2>1, <3>1
    <3> QED
      BY <3>1, <3>2
  <2>10. CASE UNCHANGED messageVars
    BY <2>2, <2>10 DEF messageVars, feed, messageList, chunks
  <2> QED
    BY <2>3, <2>4, <2>5, <2>6, <2>7, <2>8, <2>9, <2>10
       DEF MessageNext, MessageStep
<1> QED
  BY <1>1, <1>2, MessageTypeCorrect, PTL DEF MessageSpec
-----------------------------------------------------------------------------
(***************************************************************************)
(* What one more transaction adds to the list.                             *)
(***************************************************************************)
LEMMA AppendOneKnows ==
  ASSUME NEW id, AppendOne(id)
  PROVE  \/ known' = known
         \/ known' = known \cup {id} /\ HasTransaction(id)
BY DEF AppendOne, messageRows

(***************************************************************************)
(* The messages of a wallet that is closed, replaced or rescanned are      *)
(* always on their way to being cleared, whatever chunks are left over.    *)
(***************************************************************************)
LEMMA KnownListed ==
  MessageTypeOK /\ ListedInv(known) /\ [MessageNext]_messageVars
          => ListedInv(known)'
<1> SUFFICES ASSUME MessageTypeOK, FeedTypeOK, ListedInv(known),
                    [MessageNext]_messageVars
             PROVE  ListedInv(known)'
  BY DEF MessageTypeOK
<1> USE DEF ListedInv, ClearedOf, ClearPosted, FailurePosted, HasTransaction
<1>1. CASE FeedNext /\ UNCHANGED messageList
  <2>1. known' = known
    BY <1>1 DEF messageList, messageRows
  <2> QED
    BY <1>1, <2>1, FeedKeepsListed
<1>2. CASE AppendMessage
  <2>1. Posted = Posted' \cup {"created"}
    BY <1>2, PostedAfterTake DEF AppendMessage
  <2>2. gui'.pc \notin {"importing", "closing"}
    BY <1>2 DEF AppendMessage, Take, Idle, EventLoop, GuiAt
  <2>3. UNCHANGED <<open, txCount>> /\ known' = known
    BY <1>2 DEF AppendMessage, wallet, messageRows
  <2> QED
    BY <2>1, <2>2, <2>3, ListKeepsListed
<1>3. CASE ReloadMessages \/ ResetMessages
  <2>1. PICK type \in {"reload", "closed"} :
          Take(type) /\ queue' = Tail(queue)
    BY <1>3 DEF ReloadMessages, ResetMessages
  <2>2. Posted = Posted' \cup {type}
    BY <2>1, PostedAfterTake
  <2>3. UNCHANGED <<open, txCount>> /\ known' = {}
    BY <1>3 DEF ReloadMessages, ResetMessages, Clear, wallet
  <2>4. gui'.pc \notin {"importing", "closing"}
    BY <1>3, <2>1 DEF ReloadMessages, ResetMessages, Take, Idle
  <2> QED
    BY <2>2, <2>3, <2>4, ListKeepsListed
<1>4. CASE AppendRound \/ ChunkRound
  <2>1. Posted' = Posted /\ UNCHANGED <<open, txCount>>
    BY <1>4 DEF AppendRound, ChunkRound, Posted, EventTypesIn, wallet, feed
  <2>2. gui'.pc \notin {"importing", "closing"}
    BY <1>4 DEF AppendRound, ChunkRound, EventLoop, GuiAt, FeedTypeOK,
                GuiPositions, feed
  <2>3. \E id : \/ known' = known
                \/ known' = known \cup {id} /\ HasTransaction(id)
    BY <1>4, AppendOneKnows DEF AppendRound, ChunkRound
  <2> QED
    BY <2>1, <2>2, <2>3, ListKeepsListed
<1>5. CASE StartChunk \/ EndChunk
  <2>1. /\ Posted' = Posted /\ UNCHANGED <<open, txCount>>
        /\ known' = known
    BY <1>5 DEF StartChunk, EndChunk, Posted, EventTypesIn, wallet, messageRows
  <2>2. gui'.pc \notin {"importing", "closing"}
    BY <1>5 DEF StartChunk, EndChunk, Idle, EventLoop, GuiAt
  <2> QED
    BY <2>1, <2>2, ListKeepsListed
<1>6. CASE UNCHANGED messageVars
  BY <1>6 DEF messageVars, feed, messageList, messageRows, Posted, EventTypesIn
<1> QED
  BY <1>1, <1>2, <1>3, <1>4, <1>5, <1>6 DEF MessageNext, MessageStep

LEMMA KnownInitially == MessageInit => ListedInv(known)
BY DEF MessageInit, FeedInit, ListedInv, ClearedOf, FailurePosted, Posted,
       EventTypesIn

(***************************************************************************)
(* Each message listed is of the wallet that is open, or its clearing is   *)
(* posted, for every number of transactions, chunks and events.            *)
(***************************************************************************)
THEOREM NoForeignMessagesStay == MessageSpec => []NoForeignMessages
<1>1. ListedInv(known) => NoForeignMessages
  BY DEF ListedInv, NoForeignMessages
<1> QED
  BY <1>1, KnownInitially, KnownListed, MessageTypeCorrect, PTL DEF MessageSpec
-----------------------------------------------------------------------------
(***************************************************************************)
(* InOrder is not inductive.  The ids that the list knows are the first    *)
(* ones, whichever loop brought them: a loop that appends up to an id      *)
(* begins where the list ends, and a chunk never begins beyond that, as    *)
(* the reload has come to its first id only through ids that are known.    *)
(***************************************************************************)
Known == Cardinality(known)

ReloadsFrom == gui.pc = "reload" \/ Scheduled # {}

KnownInOrder ==
  ~strayMessage =>
    /\ known = 0 .. Known - 1
    /\ \A i \in DOMAIN messages : messages[i] < Known
    /\ \A i, j \in DOMAIN messages : i < j => messages[i] < messages[j]
    /\ gui.pc = "append" => /\ gui.next = Known
                            /\ gui.next <= gui.last
                            /\ HasTransaction(gui.last)
    /\ ReloadsFrom => reloadId <= Known

(* A chunk asks for transactions that the wallet has. *)
ChunkFits ==
  gui.pc = "reload" => gui.last = NoTx \/ HasTransaction(gui.last)

LEMMA FirstIds ==
  ASSUME NEW n \in Nat
  PROVE  /\ Cardinality(0 .. n - 1) = n
         /\ 0 .. (n + 1) - 1 = (0 .. n - 1) \cup {n}
<1>1. Cardinality(0 .. n - 1) = IF 0 > n - 1 THEN 0 ELSE (n - 1) - 0 + 1
  BY FS_Interval
<1>2. 0 .. (n + 1) - 1 = (0 .. n - 1) \cup {n}
  OBVIOUS
<1> QED
  BY <1>1, <1>2

LEMMA WithMessagesInt == ASSUME NEW id \in WithMessages PROVE id \in Int
<1>1. id \in TxIds
  BY ChunkAssumption
<1> QED
  BY <1>1 DEF TxIds

LEMMA LongerInOrder ==
  ASSUME NEW q \in Seq(WithMessages), NEW id \in WithMessages, id \in Int,
         \A i \in DOMAIN q : q[i] < id,
         \A i, j \in DOMAIN q : i < j => q[i] < q[j]
  PROVE  /\ \A i \in DOMAIN Append(q, id) : Append(q, id)[i] < id + 1
         /\ \A i, j \in DOMAIN Append(q, id) :
              i < j => Append(q, id)[i] < Append(q, id)[j]
<1>1. \A i \in DOMAIN q : q[i] \in Int
  <2>1. \A i \in DOMAIN q : q[i] \in WithMessages
    OBVIOUS
  <2> QED
    BY <2>1, WithMessagesInt
<1> QED
  BY <1>1

(* One more transaction of a list in order, at its end or known already. *)
LEMMA AppendOneInOrder ==
  ASSUME MessageTypeOK, NEW id \in Nat, id <= Known, HasTransaction(id),
         AppendOne(id), known = 0 .. Known - 1,
         \A i \in DOMAIN messages : messages[i] < Known,
         \A i, j \in DOMAIN messages : i < j => messages[i] < messages[j]
  PROVE  /\ Known' \in Nat /\ Known' >= Known
         /\ known' = 0 .. Known' - 1
         /\ id < Known' /\ (id = Known => Known' = Known + 1)
         /\ \A i \in DOMAIN messages' : messages'[i] < Known'
         /\ \A i, j \in DOMAIN messages' :
              i < j => messages'[i] < messages'[j]
<1>1. /\ known \subseteq TxIds /\ messages \in Seq(WithMessages)
      /\ txCount \in 0 .. MaxTx
  BY DEF MessageTypeOK, FeedTypeOK
<1>2. Known \in Nat
  BY <1>1, KnownFinite DEF Known
<1>3. CASE id \in known
  <2>1. known' = known /\ messages' = messages
    BY <1>3 DEF AppendOne, messageRows
  <2>2. Known' = Known /\ id < Known
    BY <1>2, <1>3, <2>1 DEF Known
  <2> QED
    BY <1>2, <2>1, <2>2
<1>4. CASE id \notin known
  <2>1. id = Known
    BY <1>2, <1>4
  <2>2. known' = known \cup {id}
    BY <1>4 DEF AppendOne
  <2>3. known' = 0 .. (Known + 1) - 1
    BY <1>2, <2>1, <2>2, FirstIds
  <2>4. Known' = Known + 1
    BY <1>2, <2>3, FirstIds DEF Known
  <2>5. CASE id \in WithMessages
    <3>1. messages' = Append(messages, id)
      BY <1>4, <2>5 DEF AppendOne
    <3>2. id \in Int /\ \A i \in DOMAIN messages : messages[i] < id
      BY <2>1
    <3>3. /\ \A i \in DOMAIN Append(messages, id) :
               Append(messages, id)[i] < id + 1
          /\ \A i, j \in DOMAIN Append(messages, id) :
               i < j => Append(messages, id)[i] < Append(messages, id)[j]
      BY <1>1, <2>5, <3>2, LongerInOrder
    <3> QED
      BY <1>2, <2>1, <2>3, <2>4, <3>1, <3>3
  <2>6. CASE id \notin WithMessages
    <3>1. messages' = messages
      BY <1>4, <2>6 DEF AppendOne
    <3>2. \A i \in DOMAIN messages : messages[i] < Known + 1
      <4> TAKE i \in DOMAIN messages
      <4>1. messages[i] \in Int
        <5>1. messages[i] \in WithMessages
          BY <1>1
        <5> QED
          BY <5>1, WithMessagesInt
      <4> QED
        BY <1>2, <4>1
    <3> QED
      BY <1>2, <2>1, <2>3, <2>4, <3>1, <3>2
  <2> QED
    BY <2>5, <2>6
<1> QED
  BY <1>3, <1>4

OrderInv == ListedInv(known) /\ KnownInOrder /\ ChunkFits

LEMMA OrderStep ==
  MessageTypeOK /\ OrderInv /\ [MessageNext]_messageVars
          => KnownInOrder' /\ ChunkFits'
<1> SUFFICES ASSUME MessageTypeOK, FeedTypeOK, OrderInv,
                    [MessageNext]_messageVars
             PROVE  KnownInOrder' /\ ChunkFits'
  BY DEF MessageTypeOK
<1>1. /\ txCount \in 0 .. MaxTx /\ txCount \in Nat /\ gui \in GuiPositions
      /\ known \subseteq TxIds /\ messages \in Seq(WithMessages)
      /\ reloadId \in Nat /\ generation \in Nat
      /\ timers \in Seq(0 .. generation)
  BY BoundsAssumption DEF MessageTypeOK, FeedTypeOK
<1>2. Known \in Nat
  BY <1>1, KnownFinite DEF Known
\* Steps of the feed, and those that only leave the event loop.
<1>3. ASSUME UNCHANGED <<messageRows, strayMessage, chunks>>,
             \/ gui'.pc \notin {"append", "reload"}
             \/ /\ UNCHANGED <<gui, open>>
                /\ txCount' \in Nat /\ txCount' >= txCount
      PROVE  KnownInOrder' /\ ChunkFits'
  <2>1. /\ Known' = Known /\ Scheduled' = Scheduled
        /\ UNCHANGED <<known, messages, reloadId>>
    BY <1>3 DEF Known, Scheduled, messageRows, chunks
  <2>2. CASE gui'.pc \notin {"append", "reload"}
    BY <1>3, <2>1, <2>2 DEF OrderInv, KnownInOrder, ChunkFits, ReloadsFrom
  <2>3. CASE /\ UNCHANGED <<gui, open>>
             /\ txCount' \in Nat /\ txCount' >= txCount
    <3>1. HasTransaction(gui.last) => HasTransaction(gui.last)'
      BY <1>1, <2>3 DEF HasTransaction
    <3>2. ReloadsFrom' = ReloadsFrom
      BY <2>1, <2>3 DEF ReloadsFrom
    <3> QED
      BY <1>3, <2>1, <2>3, <3>1, <3>2 DEF OrderInv, KnownInOrder, ChunkFits
  <2> QED
    BY <1>3, <2>2, <2>3
<1>4. CASE FeedNext /\ UNCHANGED messageList
  BY <1>3, <1>4, FeedLeavesLoops DEF messageList
<1>5. CASE AppendMessage
  <2> DEFINE id == Head(queue).id
  <2>0. UNCHANGED <<messageRows, chunks, open, txCount>>
    BY <1>5 DEF AppendMessage, wallet
  <2>1. CASE id \in known
    <3>1. UNCHANGED <<gui, strayMessage>>
      BY <1>5, <2>1 DEF AppendMessage
    <3> QED
      BY <1>1, <1>3, <2>0, <3>1
  <2>2. CASE id \notin known
    <3>1. /\ gui' = IF Known <= id THEN GuiAt("append", Known, id)
                                   ELSE EventLoop
          /\ strayMessage' = (strayMessage \/ ~HasTransaction(id))
      BY <1>5, <2>2 DEF AppendMessage, Known
    <3>2. gui'.pc # "reload" /\ ChunkFits'
      BY <3>1 DEF GuiAt, EventLoop, ChunkFits
    <3>3. ASSUME ~strayMessage' PROVE KnownInOrder'
      <4>1. ~strayMessage /\ HasTransaction(id)
        BY <3>1, <3>3 DEF MessageTypeOK
      <4>2. Known <= id /\ id \in Nat
        BY <1>1, <1>2, <2>2, <4>1
           DEF HasTransaction, OrderInv, KnownInOrder
      <4>3. gui' = GuiAt("append", Known, id)
        BY <3>1, <4>2
      <4>4. gui'.next = Known /\ gui'.last = id /\ gui'.pc = "append"
        BY <4>3 DEF GuiAt
      <4>5. HasTransaction(gui.last)'
        BY <2>0, <4>1, <4>4 DEF HasTransaction
      <4>6. /\ Known' = Known /\ UNCHANGED <<known, messages, reloadId>>
            /\ ReloadsFrom' => ReloadsFrom
        BY <2>0, <3>2 DEF Known, Scheduled, ReloadsFrom, messageRows, chunks
      <4> HIDE DEF id
      <4> QED
        BY <4>1, <4>2, <4>4, <4>5, <4>6 DEF OrderInv, KnownInOrder
    <3> QED
      BY <3>2, <3>3 DEF KnownInOrder
  <2> QED
    BY <2>1, <2>2
<1>6. CASE ReloadMessages \/ ResetMessages
  <2>1. /\ known' = {} /\ messages' = <<>> /\ gui'.pc = "eventLoop"
        /\ reloadId' = 0 \/ Scheduled' = {}
    <3>1. ResetMessages => Scheduled' = {}
      <4>1. ASSUME ResetMessages PROVE timers' = timers
                                  /\ generation' = generation + 1
        BY <4>1 DEF ResetMessages
      <4> QED
        BY <1>1, <4>1 DEF Scheduled
    <3> QED
      BY <1>6, <3>1 DEF ReloadMessages, ResetMessages, Clear, Take, Idle
  <2>2. Known' = 0
    BY <2>1, FS_EmptySet DEF Known
  <2>3. ChunkFits'
    BY <2>1 DEF ChunkFits
  <2>4. ReloadsFrom' => reloadId' <= Known'
    BY <2>1, <2>2 DEF ReloadsFrom
  <2> QED
    BY <2>1, <2>2, <2>3, <2>4 DEF KnownInOrder
<1>7. CASE AppendRound
  <2>0. /\ gui.pc = "append" /\ AppendOne(gui.next)
        /\ UNCHANGED <<strayMessage, chunks, open, txCount>>
    BY <1>7 DEF AppendRound, wallet
  <2>1. gui'.pc # "reload" /\ ChunkFits'
    BY <1>1, <1>7 DEF AppendRound, EventLoop, GuiAt, GuiPositions, ChunkFits
  <2>2. ASSUME ~strayMessage PROVE KnownInOrder'
    <3>1. /\ gui.next = Known /\ gui.next <= gui.last
          /\ HasTransaction(gui.last)
          /\ known = 0 .. Known - 1
          /\ \A i \in DOMAIN messages : messages[i] < Known
          /\ \A i, j \in DOMAIN messages :
               i < j => messages[i] < messages[j]
      BY <2>0, <2>2 DEF OrderInv, KnownInOrder
    <3>2. HasTransaction(gui.next) /\ gui.next <= Known /\ gui.next \in Nat
      BY <1>1, <1>2, <3>1 DEF HasTransaction
    <3>3. /\ Known' \in Nat /\ Known' = Known + 1
          /\ known' = 0 .. Known' - 1
          /\ \A i \in DOMAIN messages' : messages'[i] < Known'
          /\ \A i, j \in DOMAIN messages' :
               i < j => messages'[i] < messages'[j]
      BY <2>0, <3>1, <3>2, AppendOneInOrder
    <3>4. gui'.pc = "append" => /\ gui'.next = Known'
                                /\ gui'.next <= gui'.last
                                /\ gui'.last = gui.last
      <4>1. gui' = IF gui.next < gui.last THEN [gui EXCEPT !.next = @ + 1]
                                          ELSE EventLoop
        BY <1>7 DEF AppendRound
      <4>2. CASE gui.next < gui.last
        <5>1. gui.last \in Int
          BY <1>1, <3>1 DEF HasTransaction
        <5>2. gui'.next = gui.next + 1 /\ gui'.last = gui.last
          BY <1>1, <4>1, <4>2 DEF GuiPositions
        <5> QED
          BY <1>2, <3>1, <3>3, <4>2, <5>1, <5>2
      <4>3. CASE ~(gui.next < gui.last)
        BY <4>1, <4>3 DEF EventLoop, GuiAt
      <4> QED
        BY <4>2, <4>3
    <3>5. gui'.pc = "append" => HasTransaction(gui.last)'
      BY <2>0, <3>1, <3>4 DEF HasTransaction
    <3>6. ReloadsFrom' => reloadId' <= Known'
      <4>1. UNCHANGED <<reloadId, timers, generation>>
        BY <2>0 DEF chunks
      <4>2. ReloadsFrom' => ReloadsFrom
        BY <2>1, <4>1 DEF ReloadsFrom, Scheduled
      <4>3. ReloadsFrom => reloadId <= Known
        BY <2>2 DEF OrderInv, KnownInOrder
      <4> QED
        BY <1>1, <1>2, <3>3, <4>1, <4>2, <4>3
    <3> QED
      BY <3>3, <3>4, <3>5, <3>6 DEF KnownInOrder
  <2>3. strayMessage' = strayMessage
    BY <2>0
  <2> QED
    BY <2>1, <2>2, <2>3 DEF KnownInOrder
<1>8. CASE StartChunk
  <2>0. /\ gui.pc = "eventLoop" /\ timers # <<>> /\ timers' = Tail(timers)
        /\ UNCHANGED <<known, messages, reloadId, generation, strayMessage,
                       open,
                       txCount>>
    BY <1>8 DEF StartChunk, Idle, wallet, messageRows
  <2>1. Known' = Known
    BY <2>0 DEF Known
  <2>2. Scheduled' # {} => Scheduled # {}
    BY <1>1, <2>0 DEF Scheduled
  <2> DEFINE next == reloadId + ChunkSize
             end  == IF next < txCount THEN next ELSE txCount
  <2>3. CASE Head(timers) = generation
    <3>1. gui' = GuiAt("reload", 0, end - 1)
      BY <1>8, <2>3 DEF StartChunk
    <3>2. gui'.pc = "reload" /\ gui'.last = end - 1
      BY <3>1 DEF GuiAt
    <3>3. end \in Nat /\ end <= txCount
      BY <1>1, ChunkAssumption
    <3>4. end = 0 \/ (open /\ end - 1 \in 0 .. txCount - 1)
      <4>1. ~open => txCount = 0
        BY DEF OrderInv, ListedInv
      <4> HIDE DEF end
      <4> QED
        BY <1>1, <3>3, <4>1
    <3>5. ChunkFits'
      <4> HIDE DEF end
      <4> QED
        BY <2>0, <3>2, <3>4 DEF ChunkFits, HasTransaction, NoTx
    <3>6. Scheduled # {}
      BY <1>1, <2>0, <2>3 DEF Scheduled
    <3>7. KnownInOrder'
      <4> HIDE DEF end
      <4> QED
        BY <2>0, <2>1, <3>2, <3>6 DEF OrderInv, KnownInOrder, ReloadsFrom
    <3> QED
      BY <3>5, <3>7
  <2>4. CASE Head(timers) # generation
    <3>1. gui' = gui
      BY <1>8, <2>4 DEF StartChunk
    <3> QED
      BY <2>0, <2>1, <2>2, <3>1
         DEF OrderInv, KnownInOrder, ReloadsFrom, ChunkFits
  <2> QED
    BY <2>3, <2>4
<1>9. CASE ChunkRound
  <2>0. /\ gui.pc = "reload" /\ reloadId <= gui.last
        /\ AppendOne(reloadId) /\ reloadId' = reloadId + 1
        /\ UNCHANGED <<gui, strayMessage, open, txCount>>
    BY <1>9 DEF ChunkRound, feed
  <2>1. gui.last # NoTx /\ HasTransaction(gui.last)
    BY <1>1, <2>0 DEF OrderInv, ChunkFits, NoTx
  <2>2. ChunkFits'
    BY <2>0, <2>1 DEF ChunkFits, HasTransaction
  <2>3. HasTransaction(reloadId)
    BY <1>1, <2>0, <2>1 DEF HasTransaction
  <2>4. ASSUME ~strayMessage PROVE KnownInOrder'
    <3>1. /\ reloadId <= Known
          /\ known = 0 .. Known - 1
          /\ \A i \in DOMAIN messages : messages[i] < Known
          /\ \A i, j \in DOMAIN messages :
               i < j => messages[i] < messages[j]
      BY <2>0, <2>4 DEF OrderInv, KnownInOrder, ReloadsFrom
    <3>2. /\ Known' \in Nat /\ reloadId < Known'
          /\ known' = 0 .. Known' - 1
          /\ \A i \in DOMAIN messages' : messages'[i] < Known'
          /\ \A i, j \in DOMAIN messages' :
               i < j => messages'[i] < messages'[j]
      BY <1>1, <2>0, <2>3, <3>1, AppendOneInOrder
    <3>3. reloadId' <= Known'
      BY <1>1, <2>0, <3>2
    <3> QED
      BY <2>0, <3>2, <3>3 DEF KnownInOrder
  <2> QED
    BY <2>0, <2>2, <2>4 DEF KnownInOrder
<1>10. CASE EndChunk
  <2>1. /\ gui.pc = "reload" /\ gui'.pc = "eventLoop"
        /\ UNCHANGED <<known, messages, reloadId, strayMessage>>
    BY <1>10 DEF EndChunk, EventLoop, GuiAt, messageRows
  <2>2. Known' = Known
    BY <2>1 DEF Known
  <2> QED
    BY <2>1, <2>2 DEF OrderInv, KnownInOrder, ReloadsFrom, ChunkFits
<1>11. CASE UNCHANGED messageVars
  BY <1>1, <1>3, <1>11 DEF messageVars, feed, messageList
<1> QED
  BY <1>4, <1>5, <1>6, <1>7, <1>8, <1>9, <1>10, <1>11
     DEF MessageNext, MessageStep

(***************************************************************************)
(* The messages are listed in the order of their transactions and none of  *)
(* them twice, for chunks of any size, with transactions that are created  *)
(* between chunks, unless the list was given an id that the wallet does    *)
(* not have.                                                               *)
(***************************************************************************)
THEOREM MessagesInOrder == MessageSpec => []InOrder
<1>1. MessageInit => OrderInv
  <2>1. MessageInit => Known = 0
    BY FS_EmptySet DEF MessageInit, Known
  <2>2. MessageInit => KnownInOrder /\ ChunkFits
    BY <2>1 DEF MessageInit, FeedInit, KnownInOrder, ChunkFits, ReloadsFrom,
                Scheduled, EventLoop, GuiAt
  <2> QED
    BY <2>2, KnownInitially DEF OrderInv
<1>2. MessageTypeOK /\ OrderInv /\ [MessageNext]_messageVars => OrderInv'
  BY KnownListed, OrderStep DEF OrderInv
<1>3. OrderInv => InOrder
  BY DEF OrderInv, KnownInOrder, InOrder
<1> QED
  BY <1>1, <1>2, <1>3, MessageTypeCorrect, PTL DEF MessageSpec
-----------------------------------------------------------------------------
(***************************************************************************)
(* SyncedIsCurrent is not inductive: the page asks for m_isSynchronized,   *)
(* and a wallet whose load has failed is destroyed without close().  The   *)
(* strengthening says where a flag that is set comes from (FlagInv), and   *)
(* that a wallet that is closed or has failed makes no callbacks and has   *)
(* reported nothing, while a completion that is reported gets into the     *)
(* flag (ReportInv).                                                       *)
(***************************************************************************)
Shuts == {"progress", "closed"}

FlagInv ==
  /\ isSynchronized =>
       \/ leftOver
       \/ gui.pc # "closing" /\ (reported \/ callback.kind = "behind")
  /\ leftOver => isSynchronized

ReportInv ==
  /\ ~open \/ FailurePosted => ~reported /\ callback = NoCallback
  /\ callback.kind = "caughtUp" => reported
  /\ callback.kind = "behind" => ~reported
  /\ reported =>
       isSynchronized \/ callback.kind = "caughtUp" \/ gui.pc = "closing"

SyncInv == SyncedIsCurrent /\ FlagInv /\ ReportInv

(***************************************************************************)
(* What the history variables keep when no callback goes on, which is so   *)
(* in every step of the GUI thread, and when the GUI thread does nothing.  *)
(***************************************************************************)
LEMMA RememberedOnGui ==
  ASSUME Remember, UNCHANGED callback
  PROVE  /\ reported' <=> open' /\ ~Replaces /\ reported
         /\ leftOver' <=> \/ Replaces /\ isSynchronized
                          \/ leftOver /\ ~StartsToClose
BY DEF Remember, Begins, Stores

LEMMA RememberedOnWallet ==
  ASSUME Remember, UNCHANGED <<open, gui>>
  PROVE  /\ reported' <=> /\ open /\ ~Begins("behind")
                          /\ reported \/ Begins("caughtUp")
         /\ leftOver' <=> \/ Stores("caughtUp") /\ gui.pc = "closing"
                          \/ /\ leftOver
                             /\ ~Stores("caughtUp") /\ ~Stores("behind")
BY DEF Remember, Replaces, StartsToClose

(***************************************************************************)
(* Every step of the page is one of the list and its feed.                 *)
(***************************************************************************)
LEMMA PageStepFollowsList ==
  ASSUME [PageNext]_pageVars
  PROVE  [TransactionNext]_transactionVars
<1>1. CASE Completed \/ Progress \/ InitCompleted
  BY <1>1 DEF Completed, Progress, InitCompleted, TransactionNext, FeedNext,
              AdapterOnGui
<1>2. CASE Reload \/ Closed \/ RunTry
  BY <1>2 DEF Reload, Closed, RunTry, TransactionNext, TransactionStep
<1>3. CASE OtherEvent
  BY <1>3 DEF OtherEvent, TransactionNext, TransactionStep, FeedNext,
              AdapterOnGui
<1>4. CASE Elsewhere
  BY <1>4 DEF Elsewhere, TransactionNext, FeedNext
<1>5. CASE UNCHANGED pageVars
  BY <1>5 DEF pageVars
<1> QED
  BY <1>1, <1>2, <1>3, <1>4, <1>5 DEF PageNext, OnGui

LEMMA PageFollowsList == PageSpec => TransactionSpec
<1>1. PageInit => TransactionInit
  BY DEF PageInit
<1>2. [PageNext]_pageVars => [TransactionNext]_transactionVars
  BY PageStepFollowsList
<1> QED
  BY <1>1, <1>2, PTL DEF PageSpec, TransactionSpec

(***************************************************************************)
(* The wallet thread: what a callback does to the flag and to what the     *)
(* wallet has reported, and the events that it posts.                      *)
(***************************************************************************)
LEMMA WalletThreadKeepsSync ==
  ASSUME FeedTypeOK, SyncInv, WalletThread, Remember, UNCHANGED page
  PROVE  SyncInv'
<1> USE DEF page, wallet, adapter
<1>1. UNCHANGED <<open, gui>>
  BY DEF WalletThread, BeginProgress, StoreBehind, EmitProgress,
         BeginCompleted, StoreCaughtUp, EmitCompleted, BeginExternal,
         ReadSynchronized, StoreLast, EmitCreated, SendCompleted
<1>2. /\ reported' <=> /\ open /\ ~Begins("behind")
                       /\ reported \/ Begins("caughtUp")
      /\ leftOver' <=> \/ Stores("caughtUp") /\ gui.pc = "closing"
                       \/ /\ leftOver
                          /\ ~Stores("caughtUp") /\ ~Stores("behind")
  BY <1>1, RememberedOnWallet
<1>3. CASE BeginProgress \/ BeginCompleted \/ BeginExternal
  <2>1. /\ open /\ ~FailurePosted /\ gui.pc # "closing"
        /\ callback.kind = "none" /\ UNCHANGED <<queue, isSynchronized>>
        /\ callback'.kind \in {"behind", "caughtUp", "external"}
    BY <1>3 DEF BeginProgress, BeginCompleted, BeginExternal, MayBegin,
                NoCallback, Callback
  <2>2. Posted' = Posted /\ (FailurePosted <=> FailurePosted')
    BY <2>1 DEF Posted, EventTypesIn, FailurePosted
  <2> QED
    BY <1>1, <1>2, <2>1, <2>2
       DEF SyncInv, SyncedIsCurrent, FlagInv, ReportInv, Begins, Stores
<1>4. CASE StoreBehind \/ StoreCaughtUp
  <2>1. /\ \/ callback.kind = "behind" /\ callback'.kind = "progress"
              /\ ~isSynchronized'
           \/ callback.kind = "caughtUp" /\ callback'.kind = "completed"
              /\ isSynchronized'
        /\ UNCHANGED queue
    BY <1>4 DEF StoreBehind, StoreCaughtUp, Callback
  <2>2. Posted' = Posted /\ (FailurePosted <=> FailurePosted')
    BY <2>1 DEF Posted, EventTypesIn, FailurePosted
  <2>3. open /\ ~FailurePosted
    BY <2>1 DEF SyncInv, ReportInv, NoCallback, Callback
  <2> QED
    BY <1>1, <1>2, <2>1, <2>2, <2>3
       DEF SyncInv, SyncedIsCurrent, FlagInv, ReportInv, Begins, Stores
<1>5. CASE ReadSynchronized \/ StoreLast
  <2>1. /\ callback.kind \in {"external", "store"}
        /\ callback'.kind \in {"store", "emit", "none"}
        /\ UNCHANGED <<queue, isSynchronized>>
    BY <1>5 DEF ReadSynchronized, StoreLast, NoCallback, Callback, FeedTypeOK,
                Callbacks
  <2>2. Posted' = Posted /\ (FailurePosted <=> FailurePosted')
    BY <2>1 DEF Posted, EventTypesIn, FailurePosted
  <2>3. open /\ ~FailurePosted
    BY <2>1 DEF SyncInv, ReportInv, NoCallback, Callback
  <2> QED
    BY <1>1, <1>2, <1>5, <2>1, <2>2, <2>3
       DEF SyncInv, SyncedIsCurrent, FlagInv, ReportInv, Begins, Stores
<1>6. CASE \/ EmitProgress \/ EmitCompleted \/ EmitCreated
           \/ \E id \in TxIds : SendCompleted(id)
  <2>1. PICK event \in Events :
          /\ Post(event)
          /\ event.type # "initFailed"
          /\ callback.kind = "progress" => event.type = "progress"
    <3>1. Event("created", callback.id) \in Events
      BY EventTyped DEF FeedTypeOK, Callbacks, EventTypes
    <3>2. Signal("progress") \in Events /\ Signal("completed") \in Events
      BY EventTyped DEF EventTypes
    <3>3. \A id \in TxIds : Event("sendCompleted", id) \in Events
      BY EventTyped DEF EventTypes
    <3>4. CASE EmitProgress \/ EmitCompleted
      BY <3>2, <3>4 DEF EmitProgress, EmitCompleted, Signal, Event
    <3>5. CASE EmitCreated
      BY <3>1, <3>5 DEF EmitCreated, Event
    <3>6. CASE \E id \in TxIds : SendCompleted(id)
      BY <3>3, <3>6 DEF SendCompleted, MayBegin, NoCallback, Callback, Event
    <3> QED
      BY <1>6, <3>4, <3>5, <3>6
  <2>2. Posted' = Posted \cup {event.type}
    BY <2>1, PostedAfterPost
  <2>3. /\ callback.kind \in {"progress", "completed", "emit", "none"}
        /\ callback' = NoCallback /\ callback'.kind = "none"
        /\ UNCHANGED isSynchronized
    BY <1>6 DEF EmitProgress, EmitCompleted, EmitCreated, SendCompleted,
                MayBegin, NoCallback, Callback
  <2> QED
    BY <1>1, <1>2, <2>1, <2>2, <2>3
       DEF SyncInv, SyncedIsCurrent, FlagInv, ReportInv, FailurePosted,
           Begins, Stores
<1> QED
  BY <1>3, <1>4, <1>5, <1>6 DEF WalletThread

(***************************************************************************)
(* The user: a wallet that is opened has reported nothing, and closing one *)
(* clears the flag.                                                        *)
(***************************************************************************)
LEMMA UserKeepsSync ==
  ASSUME FeedTypeOK, SyncInv, User, Remember, UNCHANGED page
  PROVE  SyncInv'
<1> USE DEF page, wallet, adapter
<1>1. /\ ~FailurePosted /\ gui.pc = "eventLoop"
      /\ UNCHANGED <<walletSynced, callback>>
  BY DEF User, Open, Create, Import, Close, Rescan, SendTransaction,
         UserAction, Idle
<1>2. /\ reported' <=> open' /\ ~Replaces /\ reported
      /\ leftOver' <=> \/ Replaces /\ isSynchronized
                       \/ leftOver /\ ~StartsToClose
  BY <1>1, RememberedOnGui
<1>3. ~Replaces
  BY <1>1 DEF Replaces
<1>4. /\ queue' = queue => Posted' = Posted
      /\ \A event \in Events :
           Post(event) => Posted' = Posted \cup {event.type}
  BY PostedAfterPost DEF Posted, EventTypesIn
<1>5. CASE (\E n \in 0 .. MaxTx : Open(n)) \/ Create \/ Import
  <2>1. /\ ~open /\ open' /\ UNCHANGED isSynchronized
        /\ gui'.pc # "closing"
    BY <1>1, <1>5 DEF Open, Load, LoadFails, LoadNothing, Create, Import, GuiAt
  <2>2. Posted \subseteq Posted'
    <3>1. \A type \in {"initCompleted", "initFailed"} : Signal(type) \in Events
      BY EventTyped DEF EventTypes
    <3> QED
      BY <1>4, <1>5, <3>1
         DEF Open, Load, LoadFails, LoadNothing, Create, Import
  <2>3. ~StartsToClose
    BY <2>1 DEF StartsToClose
  <2>4. ~reported /\ callback = NoCallback
    BY <2>1 DEF SyncInv, ReportInv
  <2> QED
    BY <1>1, <1>2, <1>3, <2>1, <2>2, <2>3, <2>4
       DEF SyncInv, SyncedIsCurrent, FlagInv, ReportInv, NoCallback, Callback
<1>6. CASE Close
  <2>1. /\ open /\ open' /\ ~isSynchronized' /\ gui'.pc = "closing"
        /\ UNCHANGED queue /\ StartsToClose
    BY <1>1, <1>6 DEF Close, GuiAt, StartsToClose
  <2>2. FailurePosted' <=> FailurePosted
    BY <1>4, <2>1 DEF FailurePosted
  <2> QED
    BY <1>1, <1>2, <1>3, <2>1, <2>2
       DEF SyncInv, SyncedIsCurrent, FlagInv, ReportInv
<1>7. CASE Rescan \/ SendTransaction
  <2>1. open /\ UNCHANGED <<open, isSynchronized, gui>>
    BY <1>7 DEF Rescan, SendTransaction
  <2>2. Posted \subseteq Posted' /\ ~FailurePosted'
    <3>1. /\ Signal("initCompleted") \in Events
          /\ Event("sendCompleted", NoTx) \in Events
      BY EventTyped DEF EventTypes
    <3> QED
      BY <1>1, <1>4, <1>7, <3>1
         DEF Rescan, SendTransaction, FailurePosted, Signal, Event
  <2>3. ~StartsToClose
    BY <2>1 DEF StartsToClose
  <2> QED
    BY <1>1, <1>2, <1>3, <2>1, <2>2, <2>3
       DEF SyncInv, SyncedIsCurrent, FlagInv, ReportInv
<1> QED
  BY <1>5, <1>6, <1>7 DEF User

(***************************************************************************)
(* The GUI thread: an event that does not shut the page leaves the reason  *)
(* for which it is open, and the page opens only for the flag.             *)
(***************************************************************************)
LEMMA GuiKeepsSync ==
  ASSUME FeedTypeOK, SyncInv, OnGui, Remember
  PROVE  SyncInv'
<1> USE DEF page, wallet, adapter, transactionList
\* The wallet stays as it is, and so does the flag.
<1>1. ASSUME UNCHANGED <<open, isSynchronized, callback>>,
             gui.pc \notin {"closing", "importing"}, gui'.pc # "closing",
             Posted \cap Shuts \subseteq Posted' \/ ~walletSynced',
             FailurePosted' => FailurePosted,
             walletSynced' => walletSynced \/ (open /\ isSynchronized)
      PROVE  SyncInv'
  <2>1. (reported' <=> open /\ reported) /\ (leftOver' <=> leftOver)
    BY <1>1, RememberedOnGui DEF Replaces, StartsToClose
  <2>2. FlagInv' /\ ReportInv'
    BY <1>1, <2>1 DEF SyncInv, FlagInv, ReportInv
  <2>3. SyncedIsCurrent'
    BY <1>1, <2>1 DEF SyncInv, FlagInv, SyncedIsCurrent, Shuts
  <2> QED
    BY <2>2, <2>3 DEF SyncInv
<1>2. CASE \/ Completed \/ Progress \/ Reload \/ Closed
           \/ AppendTransaction /\ UNCHANGED page
  <2>1. PICK type \in EventTypes \ {"initFailed"} :
          /\ Take(type) /\ queue' = Tail(queue)
          /\ type \in Shuts => ~walletSynced'
    <3>1. CASE Completed
      BY <3>1 DEF Completed, OnCompleted, EventTypes, Shuts
    <3>2. CASE Progress
      BY <3>2 DEF Progress, OnProgress, Forget, EventTypes
    <3>3. CASE Reload
      BY <3>3 DEF Reload, ReloadTransactions, EventTypes, Shuts
    <3>4. CASE Closed
      BY <3>4 DEF Closed, ResetTransactions, Forget, EventTypes
    <3>5. CASE AppendTransaction
      BY <3>5 DEF AppendTransaction, EventTypes, Shuts
    <3> QED
      BY <1>2, <3>1, <3>2, <3>3, <3>4, <3>5
  <2>2. Posted = Posted' \cup {type}
    BY <2>1, PostedAfterTake
  <2>3. /\ UNCHANGED <<open, isSynchronized, callback>>
        /\ gui'.pc # "closing"
        /\ walletSynced' => walletSynced \/ (open /\ isSynchronized)
    <3>1. CASE Completed \/ Progress
      <4>1. gui'.pc # "closing" /\ UNCHANGED <<open, isSynchronized, callback>>
        BY <3>1 DEF Completed, Progress, OnCompleted, OnProgress, Take, Idle,
                    NotifyAboutLastTransaction, GuiAt, EventLoop
      <4>2. walletSynced' => walletSynced \/ (open /\ isSynchronized)
        BY <3>1 DEF Completed, Progress, Forget, TryEnable
      <4> QED
        BY <4>1, <4>2
    <3>2. CASE Reload \/ Closed
      BY <3>2 DEF Reload, Closed, ReloadTransactions, ResetTransactions, Take,
                  Idle, GuiAt, Forget
    <3>3. CASE AppendTransaction /\ UNCHANGED page
      BY <3>3 DEF AppendTransaction, Take, Idle, GuiAt, EventLoop
    <3> QED
      BY <1>2, <3>1, <3>2, <3>3
  <2>4. gui.pc = "eventLoop"
    BY <2>1 DEF Take, Idle
  <2> QED
    BY <1>1, <2>1, <2>2, <2>3, <2>4 DEF FailurePosted, Shuts
<1>3. CASE InitCompleted \/ (OnSendCompleted /\ UNCHANGED page)
  <2>1. PICK type \in {"initCompleted", "sendCompleted"} :
          /\ Take(type)
          /\ UNCHANGED <<open, isSynchronized, callback, gui, walletSynced>>
    BY <1>3 DEF InitCompleted, OnInitCompleted, OnSendCompleted
  <2>2. /\ queue # <<>> /\ Tail(queue) \in Seq(Events)
        /\ Head(queue).id \in TxIds \cup {NoTx}
    BY <2>1, TakeTyped DEF FeedTypeOK, Take
  <2>3. PICK event \in Events :
          /\ event.type \in {"reload", "created"}
          /\ queue' \in {Tail(queue), Append(Tail(queue), event)}
    <3>1. /\ Signal("reload") \in Events
          /\ Event("created", Head(queue).id) \in Events
      BY <2>2, EventTyped DEF EventTypes
    <3> QED
      BY <1>3, <3>1
         DEF InitCompleted, OnInitCompleted, OnSendCompleted, Signal, Event
  <2>4. \/ Posted = Posted' \cup {type}
        \/ Posted \cup {event.type} = Posted' \cup {type}
    BY <2>1, <2>3, PostedAfterTake, PostedAfterForward
  <2>5. gui.pc = "eventLoop"
    BY <2>1 DEF Take, Idle
  <2> QED
    BY <1>1, <2>1, <2>3, <2>4, <2>5 DEF FailurePosted, Shuts
<1>4. CASE OnInitFailed /\ UNCHANGED <<transactionList, page>>
  <2>1. /\ queue \in Seq(Events) /\ queue # <<>> /\ gui.pc = "eventLoop"
        /\ Head(queue).type = "initFailed" /\ queue' = Tail(queue)
        /\ UNCHANGED <<callback, gui, isSynchronized, walletSynced>>
    BY <1>4 DEF OnInitFailed, Take, Idle, FeedTypeOK
  <2>2. Posted = Posted' \cup {"initFailed"} /\ FailurePosted
    <3>1. Posted = Posted' \cup {"initFailed"}
      BY <1>4, PostedAfterTake DEF OnInitFailed
    <3> QED
      BY <3>1 DEF FailurePosted
  <2>3. ~reported /\ callback = NoCallback
    BY <2>2 DEF SyncInv, ReportInv
  <2>4. ~reported' /\ (leftOver' <=> leftOver)
    BY <2>1, <2>3, RememberedOnGui DEF Replaces, StartsToClose
  <2> QED
    BY <2>1, <2>2, <2>3, <2>4
       DEF SyncInv, SyncedIsCurrent, FlagInv, ReportInv, NoCallback, Callback
<1>5. CASE \/ RunTry
           \/ (OnTimeout \/ ClearLast) /\ UNCHANGED page
           \/ (AppendRow \/ ReloadRow) /\ UNCHANGED page
  <2>1. CASE RunTry
    <3>1. UNCHANGED <<open, isSynchronized, callback, queue, gui>>
      BY <2>1 DEF RunTry, transactionVars, feed
    <3>2. walletSynced' => walletSynced \/ (open /\ isSynchronized)
      BY <2>1 DEF RunTry, TryEnable
    <3>3. Posted' = Posted
      BY <3>1 DEF Posted, EventTypesIn
    <3>4. gui.pc = "eventLoop" /\ gui'.pc = "eventLoop"
      BY <2>1, <3>1 DEF RunTry, Idle
    <3> QED
      BY <1>1, <3>1, <3>2, <3>3, <3>4 DEF FailurePosted
  <2>2. CASE \/ (OnTimeout \/ ClearLast) /\ UNCHANGED page
             \/ (AppendRow \/ ReloadRow) /\ UNCHANGED page
    <3>1. UNCHANGED <<open, isSynchronized, callback, queue, walletSynced>>
      BY <2>2 DEF OnTimeout, ClearLast, AppendRow, ReloadRow
    <3>2. Posted' = Posted
      BY <3>1 DEF Posted, EventTypesIn
    <3>3. gui.pc \notin {"closing", "importing"} /\ gui'.pc # "closing"
      BY <2>2 DEF OnTimeout, ClearLast, AppendRow, ReloadRow, Idle,
                  NotifyAboutLastTransaction, GuiAt, EventLoop, FeedTypeOK,
                  GuiPositions
    <3> QED
      BY <1>1, <3>1, <3>2, <3>3 DEF FailurePosted
  <2> QED
    BY <1>5, <2>1, <2>2
<1>6. CASE Announce /\ UNCHANGED page
  <2>1. PICK event \in Events : Post(event) /\ event.type = "created"
    BY <1>6, EventTyped DEF Announce, FeedTypeOK, EventTypes, Event
  <2>2. Posted' = Posted \cup {"created"}
    BY <2>1, PostedAfterPost
  <2>3. /\ UNCHANGED <<open, isSynchronized, callback, walletSynced>>
        /\ gui.pc = "announce" /\ gui'.pc # "closing"
    BY <1>6 DEF Announce, GuiAt
  <2> QED
    BY <1>1, <2>2, <2>3 DEF FailurePosted
<1>7. CASE CloseWallet /\ UNCHANGED page
  <2>1. Posted' = Posted \cup {"closed"}
    <3>1. Signal("closed") \in Events /\ Post(Signal("closed"))
      BY <1>7, EventTyped DEF CloseWallet, EventTypes
    <3> QED
      BY <3>1, PostedAfterPost DEF Signal, Event
  <2>2. /\ UNCHANGED <<callback, isSynchronized, walletSynced>>
        /\ callback = NoCallback /\ ~open'
        /\ gui.pc = "closing" /\ gui'.pc = "eventLoop"
    BY <1>7 DEF CloseWallet, DestroyWallet, GuiAt, EventLoop
  <2>3. ~reported' /\ (leftOver' <=> leftOver)
    BY <2>2, RememberedOnGui DEF Replaces, StartsToClose
  <2> QED
    BY <2>1, <2>2, <2>3
       DEF SyncInv, SyncedIsCurrent, FlagInv, ReportInv, NoCallback, Callback
<1>8. CASE (\E n \in 0 .. MaxTx : OpenImported(n)) /\ UNCHANGED page
  <2>1. Posted' = Posted \cup {"initCompleted"}
    <3>1. /\ Signal("initCompleted") \in Events
          /\ Post(Signal("initCompleted"))
      BY <1>8, EventTyped DEF OpenImported, Load, EventTypes
    <3> QED
      BY <3>1, PostedAfterPost DEF Signal, Event
  <2>2. /\ UNCHANGED <<callback, isSynchronized, walletSynced>>
        /\ callback = NoCallback /\ open'
        /\ gui.pc = "importing" /\ gui'.pc = "eventLoop"
    BY <1>8 DEF OpenImported, Load, GuiAt, EventLoop
  <2>3. ~reported' /\ (leftOver' <=> isSynchronized \/ leftOver)
    BY <2>2, RememberedOnGui DEF Replaces, StartsToClose
  <2> QED
    BY <2>1, <2>2, <2>3
       DEF SyncInv, SyncedIsCurrent, FlagInv, ReportInv, NoCallback, Callback
<1> QED
  BY <1>2, <1>3, <1>4, <1>5, <1>6, <1>7, <1>8 DEF OnGui, OtherEvent

(***************************************************************************)
(* The pages for sending are open only while the open wallet's last report *)
(* is that it is synchronized, or what shuts them is on its way, or the    *)
(* flag is one left over from a wallet before, for every number of         *)
(* transactions, of posted events and of wallets opened and closed.        *)
(***************************************************************************)
THEOREM SyncedStaysCurrent == PageSpec => []SyncedIsCurrent
<1>1. PageInit => SyncInv
  BY DEF PageInit, TransactionInit, FeedInit, SyncInv, SyncedIsCurrent,
         FlagInv, ReportInv, NoCallback, Callback
<1>2. FeedTypeOK /\ SyncInv /\ [PageNext]_pageVars => SyncInv'
  <2> SUFFICES ASSUME FeedTypeOK, SyncInv, [PageNext]_pageVars PROVE SyncInv'
    OBVIOUS
  <2>1. CASE UNCHANGED pageVars
    <3>1. Posted' = Posted
      BY <2>1 DEF pageVars, transactionVars, feed, Posted, EventTypesIn
    <3> QED
      BY <2>1, <3>1 DEF pageVars, transactionVars, feed, page, history,
         SyncInv, SyncedIsCurrent, FlagInv, ReportInv, FailurePosted
  <2> QED
    BY <2>1, WalletThreadKeepsSync, UserKeepsSync, GuiKeepsSync
       DEF PageNext, Elsewhere
<1>3. SyncInv => SyncedIsCurrent
  BY DEF SyncInv
<1> QED
  BY <1>1, <1>2, <1>3, PageFollowsList, TransactionTypeCorrect, PTL
     DEF PageSpec, TransactionTypeOK

(***************************************************************************)
(* The page keeps the list company and changes nothing of it: with it, too *)
(* notifyAboutLastTransaction() never announces "no transaction".          *)
(***************************************************************************)
THEOREM PageNeverAnnouncesNone == PageSpec => []NeverAnnouncesNone
BY PageFollowsList, NoneNeverAnnounced, PTL

(***************************************************************************)
(* With the page, too, the rows of TransactionsModel are the ids of the    *)
(* transactions, and none of another wallet stays.                         *)
(***************************************************************************)
THEOREM PageKeepsRows == PageSpec => []RowIsId /\ []NoForeignRows
BY PageFollowsList, RowsAreIds, NoForeignRowsStay, PTL
=============================================================================
