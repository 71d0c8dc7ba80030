----------------------------- MODULE MessageFeed -----------------------------
(***************************************************************************)
(* The list of messages: MessagesModel, fed by WalletAdapter.  Unlike the  *)
(* list of transactions it reloads itself in chunks, each run by a timer   *)
(* of its own, so that events come between them: transactions, the end of  *)
(* the wallet, a rescan, another reload.  A chunk that is left over from   *)
(* an earlier list is told by the generation it was scheduled for.         *)
(***************************************************************************)
EXTENDS WalletFeed

CONSTANTS
  ChunkSize,       (* CHUNK_SIZE                                           *)
  WithMessages     (* the ids of the transactions that carry a message     *)

ASSUME ChunkAssumption ==
  /\ ChunkSize \in Nat \ {0}
  /\ WithMessages \subseteq TxIds

VARIABLES
  known,           (* the keys of m_transactionRow                         *)
  messages,        (* m_messages: the transaction of each message          *)
  reloadId,        (* m_reloadTransactionId                                *)
  generation,      (* m_reloadGeneration                                   *)
  timers,          (* the generations of the chunks that are scheduled     *)
  more,            (* the chunk that is running is not the last one        *)
  strayMessage     (* history: since the list was last cleared, the list   *)
                   (* was given an id the open wallet does not have        *)

messageRows == <<known, messages>>
chunks      == <<reloadId, generation, timers, more>>
messageList == <<messageRows, chunks, strayMessage>>
messageVars == <<feed, messageList>>

MessageTypeOK ==
  /\ FeedTypeOK
  /\ known \subseteq TxIds
  /\ messages \in Seq(WithMessages)
  /\ reloadId \in 0 .. MaxTx
  /\ generation \in Nat
  /\ timers \in Seq(0 .. generation)
  /\ more \in BOOLEAN
  /\ strayMessage \in BOOLEAN

MessageInit ==
  /\ FeedInit
  /\ known = {}
  /\ messages = <<>>
  /\ reloadId = 0
  /\ generation = 0
  /\ timers = <<>>
  /\ more = FALSE
  /\ strayMessage = FALSE
-----------------------------------------------------------------------------
Clear ==
  /\ known' = {}
  /\ messages' = <<>>
  /\ strayMessage' = FALSE

(* Mutant: a transaction that is in the list already is appended again. *)
AppendAlways(id) ==
  IF HasTransaction(id)
  THEN /\ known' = known \cup {id}
       /\ messages' = IF id \in WithMessages THEN Append(messages, id)
                                             ELSE messages
  ELSE UNCHANGED messageRows

(* appendTransaction(id, insertedRowCount): one transaction. *)
AppendOne(id) ==
  IF id \notin known /\ HasTransaction(id)
  THEN /\ known' = known \cup {id}
       /\ messages' = IF id \in WithMessages THEN Append(messages, id)
                                             ELSE messages
  ELSE UNCHANGED messageRows

(* appendTransaction(id) up to its loop. *)
AppendMessage ==
  /\ Take("created")
  /\ queue' = Tail(queue)
  /\ LET id    == Head(queue).id
         first == Cardinality(known)
     IN IF id \in known
        THEN UNCHANGED <<gui, strayMessage>>
        ELSE /\ gui' = IF first <= id THEN GuiAt("append", first, id)
                                      ELSE EventLoop
             /\ strayMessage' = (strayMessage \/ ~HasTransaction(id))
  /\ UNCHANGED <<wallet, callback, adapter, messageRows, chunks, lost,
                 userActions>>

(* One round of that loop. *)
AppendRound ==
  /\ gui.pc = "append"
  /\ AppendOne(gui.next)
  /\ gui' = IF gui.next < gui.last THEN [gui EXCEPT !.next = @ + 1]
                                   ELSE EventLoop
  /\ UNCHANGED <<wallet, callback, adapter, queue, chunks, strayMessage, lost,
                 userActions>>

(* Mutant: the chunks of an earlier reload go on. *)
ReloadSameGeneration ==
  /\ Take("reload")
  /\ queue' = Tail(queue)
  /\ Clear
  /\ reloadId' = 0
  /\ timers' = Append(timers, generation)
  /\ lost' = FALSE
  /\ UNCHANGED <<wallet, callback, adapter, gui, generation, more,
                 userActions>>

(* reloadWalletTransactions(). *)
ReloadMessages ==
  /\ Take("reload")
  /\ queue' = Tail(queue)
  /\ Clear
  /\ generation' = generation + 1
  /\ reloadId' = 0
  /\ timers' = Append(timers, generation')
  /\ lost' = FALSE
  /\ UNCHANGED <<wallet, callback, adapter, gui, more, userActions>>

(* processNextChunk(generation) up to its loop, which ends before "end".   *)
StartChunk ==
  /\ Idle
  /\ timers # <<>>
  /\ timers' = Tail(timers)
  /\ LET next == reloadId + ChunkSize
         end  == IF next < txCount THEN next ELSE txCount
     IN IF Head(timers) = generation
        THEN /\ gui' = GuiAt("reload", 0, end - 1)
             /\ more' = (end < txCount)
        ELSE UNCHANGED <<gui, more>>
  /\ UNCHANGED <<wallet, callback, adapter, queue, messageRows, reloadId,
                 generation, strayMessage, lost, userActions>>

ChunkRound ==
  /\ gui.pc = "reload"
  /\ reloadId <= gui.last
  /\ AppendOne(reloadId)
  /\ reloadId' = reloadId + 1
  /\ UNCHANGED <<feed, generation, timers, more, strayMessage>>

(* Mutant: the chunk is taken for the last one. *)
EndOnlyChunk ==
  /\ gui.pc = "reload"
  /\ reloadId > gui.last
  /\ gui' = EventLoop
  /\ UNCHANGED <<wallet, callback, adapter, queue, messageList, lost,
                 userActions>>

(* The generation it was scheduled for is still the current one. *)
EndChunk ==
  /\ gui.pc = "reload"
  /\ reloadId > gui.last
  /\ gui' = EventLoop
  /\ timers' = IF more THEN Append(timers, generation) ELSE timers
  /\ UNCHANGED <<wallet, callback, adapter, queue, messageRows, reloadId,
                 generation, more, strayMessage, lost, userActions>>

(* reset(), queued by close(). *)
ResetMessages ==
  /\ Take("closed")
  /\ queue' = Tail(queue)
  /\ Clear
  /\ generation' = generation + 1
  /\ UNCHANGED <<wallet, callback, adapter, gui, reloadId, timers, more, lost,
                 userActions>>
-----------------------------------------------------------------------------
MessageStep ==
  \/ AppendMessage \/ AppendRound
  \/ ReloadMessages \/ StartChunk \/ ChunkRound \/ EndChunk
  \/ ResetMessages

MessageNext == (FeedNext /\ UNCHANGED messageList) \/ MessageStep

MessageSpec == MessageInit /\ [][MessageNext]_messageVars

(***************************************************************************)
(* As for the list of transactions.  Besides, the event loop runs timers   *)
(* that have expired although there are always other events to handle.     *)
(***************************************************************************)
MessageFairness ==
  /\ WF_messageVars((AdapterOnGui /\ UNCHANGED messageList) \/ MessageStep)
  /\ SF_messageVars(StartChunk)
  /\ WF_messageVars(EndCallback /\ UNCHANGED messageList)
  /\ SF_messageVars(BeginCompleted /\ UNCHANGED messageList)
  /\ SF_messageVars(ReportSent /\ UNCHANGED messageList)

MessageFairSpec == MessageSpec /\ MessageFairness
-----------------------------------------------------------------------------
(***************************************************************************)
(* The messages are listed in the order of their transactions and none of  *)
(* them twice, although a transaction that is created during a reload is   *)
(* appended before the chunk that would have come to it, unless the list   *)
(* was given an id that the open wallet does not have.                     *)
(***************************************************************************)
InOrder ==
  ~strayMessage =>
    \A i, j \in DOMAIN messages : i < j => messages[i] < messages[j]

(***************************************************************************)
(* At most one chunk of the current list is scheduled, and none while one  *)
(* is running: two reloads never work on the list side by side.            *)
(***************************************************************************)
Scheduled == {i \in DOMAIN timers : timers[i] = generation}
OneReload ==
  /\ \A i, j \in Scheduled : i = j
  /\ gui.pc = "reload" => Scheduled = {}

(***************************************************************************)
(* Each message listed is of a transaction of the wallet that is open now, *)
(* or the event that clears or reloads the list is already on its way.     *)
(* The chunks left over from another wallet add nothing to this one's.     *)
(***************************************************************************)
NoForeignMessages == ClearPosted \/ \A id \in known : HasTransaction(id)

(***************************************************************************)
(* Once the user leaves the wallet alone the list comes to cover all its   *)
(* transactions and keeps doing so, unless a store into                    *)
(* m_lastWalletTransactionId was overwritten by the notification or the    *)
(* list was given an id that the wallet does not have.                     *)
(***************************************************************************)
EventuallyKnown ==
  <>[](open /\ ~lost /\ ~strayMessage => known = 0 .. txCount - 1)
=============================================================================
