# A verification of Telethon-Secret-Chat

TLA+ models of the secret-chat engine in `telethon_secret_chat/`, checked with TLC on
small instances and, for the core, proved with TLAPS for all instances. Line numbers in
`PROJECT.json` refer to `src/`.

## 1. The system

The package adds end-to-end encrypted *secret chats* to a Telethon client. Two clients
agree on a key, then exchange numbered, encrypted wrappers through Telegram's server,
which may delay, reorder, repeat or lose them. Each side keeps a durable record per chat
so that it can stop at any moment and go on later. Around that core stand other ways to
run it (bounded custody, durable ingress, a transient mode), files, auto-save, and an
export of saved and online chats in the form of Telegram Desktop.

| component | state | operations | where it is hard |
|---|---|---|---|
| retained outbox (`outbox.py`) | sent records with their exact ciphertext, `pending` marks | `_send`, `retry_pending`, withdrawal, `_request_due_resend` | an RPC whose result is unknown, a record rejected for good, a send stopped by an older one |
| sequence rules (`sequence.py`) | the counters, the gap queue, `gap_requested`, `gap_end`, `resend_due` | `preflight`, `accept`, `answer_resend`, `forget_acknowledged` | order of arrival, holes behind holes, edges of the window |
| receive path (`receive.py`) | the mailbox `pending_deliveries` | `_on_encrypted_message`, `_drain_deliveries` | a crash between hand-over and pop, network steps after the commit |
| key exchange (`rekey.py`) | current, pending and previous key, exchange id, role | `start`, `_on_request`, `_on_accept`, `_on_commit`, abort | collisions, redelivered steps, when the previous key may go |
| chat record (`chat.py`) | `ChatState`, all of the above | `transition_to`, `close`, `scrub` | an illegal move raises in the middle of a commit |
| layers and framing (`framing.py`, `crypto.py`) | capability layer, wrapper layer | `raise_remote_layer`, `outgoing_layer`, `unwrap`, padding and digest | a layer seen out of order; lengths at the edge of a block |
| manager (`manager.py`), locks (`locking.py`), events (`dispatch.py`) | the chats, generation, stop task, locks, handler tasks | sends, deletions, `start`, `stop`, `close`, `forget`, `_atomic` | stop against running work, state captured before a lock |
| handshake (`establishment.py`), Diffie-Hellman (`dh.py`, `handshake.py`) | requested/pending chats, early updates | `create`, `accept`, `_on_encryption`, the checks of parameters and values | updates that overtake the RPC's answer |
| storage (`storage/`), temporaries (`temporary.py`) | the whole state, a snapshot, owned names | nested transactions, `FileStorage._write`, `create`, `cleanup` | failure inside the replace, another process's sweep |
| bounded custody (`bounded*.py`) | limits, reservations, pauses, relay | admission, projection, acknowledgement, resume | limits under concurrency, pauses that cannot be stored |
| durable ingress (`ingress*.py`, `strong_manager.py`) | checkpoint, ledger of batches, marks | capture, guards on requests, drain | crash between capture and application |
| transient mode (`transient*.py`, `protected.py`) | envelopes on disk, frames in memory, owned tasks | suspension, deadlines, budgets | what runs on after a suspension |
| auto-save (`autosave.py`) | `messages.jsonl`, `pending.json`, files | record, owe, fetch, resume | restart with a download owed |
| files (`files.py`, `media.py`, `ogg_tags.py`) | streams, temporary files | `send_file`, `decrypt_stream`, `receive`, `save`, kinds | a source that changes, a write that fails late |
| export (`saved_export.py`, `tdexport/`) | the chat's messages, pages, handles, caches | reading a saved or an online chat, two writers, rich messages | slices and splits of a changing history, page turns, five walks over one tree |

Interaction: the application calls the manager; every operation on a chat takes the chat
lock (`locking.serialized`, re-entrant per task) and holds it across its RPCs. Updates enter
through `_on_update`, take the same lock, commit to storage in one `_atomic` block and do
their network work afterwards. `start()` resumes whatever a crash or `stop()` left. The
bounded and transient managers override admission, storage and hand-over; the strong
manager captures updates below Telethon's own update box and applies them from its ledger.

What makes the parts correct: nothing the peer may still ask for is forgotten; holes are
asked for and filled; messages reach the application in order, at least once; deleted
content is never sent again; honest sides never refuse each other; every frame that may
still arrive can be read; both sides end an exchange with the same key; every exchange
ends; stop() waits in no circle and leaves nothing running; a block of changes happens as
a whole; limits hold; nothing is acknowledged that the store does not hold; a suspended
chat stays quiet; a saved file is never lost; what is read back is what was written.

## 2. Modules

| module | models |
|---|---|
| `Framing` | the two sides, number transforms, layers, wrappers (`framing.py`) |
| `Sequence` | the rules of `sequence.py` as operators on a record `c`, the gap queue `Q`, the outbox `R` |
| `Rekey` | the key fields and the rules of `rekey.py` on them |
| `Conversation` | the composition: two sides, the server, faults, crashes |
| `Dialogue` | the abstract chat: two logs that only grow, each given to the other side in order; `Conversation` implements it |
| `SendContract` | what the caller of `send_message` is told, on top of `Conversation` |
| `Establishment` | the handshake of one chat: requester, acceptor, server, a second device |
| `Lifecycle` | `start()` and `stop()` against handlers, queued updates, an upload, a failing save, `forget()` |
| `AtomicStore` | the abstract store: a block happens as a whole or not at all |
| `Store` | `FileStorage` under `_atomic`, for several processes in one directory; implements `AtomicStore` |
| `Custody` | the bounded manager of one chat |
| `Ingress` | capture, ledger and drain of the strong manager |
| `Transient` | the transient manager of several chats |
| `AutoSave` | the lines, owed downloads and files of one saved chat |
| `DiffieHellman` | the arithmetic and the checks of the key exchange, with real small numbers |
| `MessageFrame` | padding, digests and the order of checks of a frame, counted in words |
| `Transfer` | a file from the sender's disk to a path at the receiver |
| `Media` | the kind of a file, from the request through the Ogg container to the export |
| `DesktopExport` | the export of a saved chat: records, slices, pages, both writers |
| `Fetch` | the export of an online chat: session, splits, slices, files and emoji |
| `RichMessage` | a rich message: parser, visitor, anchors, both writers |
| `MCConversation`, `MCScenarios`, `MCRuntime`, `MCStores`, `MCRich`, `MCSaving` | constants for TLC, and the runs that hold several instances |
| `ConversationProofs`, `ProtocolProofs`, `NumberProofs` | the proofs about `Conversation` |
| `HandshakeProofs`, `RuntimeProofs`, `StoreProofs`, `CustodyProofs`, `TransientProofs` | the proofs about `Establishment` and `MessageFrame`; `Lifecycle`, `Ingress` and `AutoSave`; `Store`; `Custody`; `Transient` |

### How `Conversation` corresponds to the code

* *One operation at a time.* `Idle(p)` is the free chat lock; `todo[p]` lists what the
  operation that holds it has still to do after the commit it has just made: `drain`,
  `retry`, `ask`, `noop` (the tail of `_on_encrypted_message`), `pop` (the commit that ends
  a delivery), `delete`, `flush` (the send that follows a local deletion). A `SendPending`
  empties `todo[p]`, as the exception leaves the handler.
* *Atomic blocks are single actions.* What `_atomic` writes is in `chatVars` and
  `storeVars` and survives `Crash(p)`; `todo` does not. Where a handler changes the entity
  only in memory and a later block saves it (`_clear` after an AbortKey or a tie), the model
  makes the change in that later block (`Pop`): no other step of that side can run between.
  That a block is one step is what `Store` and its proof justify.
* *A send* is `Commit`: number, ciphertext and `after_prepare`'s effect in one block, then
  one RPC whose outcome is chosen: `ok`; `lost` (failed, the server has nothing); `unknown`
  (failed for the caller, the server has the frame); `dropped` (confirmed, then lost by the
  server); `rejected` (a PERMANENT error). Every `_send` needs `Pending(p) = {}` because it
  first retries what is pending; `RetryPending` is enabled at every point that sends.
  The commit and its RPC are one step: a death between them shows as `lost` or `unknown`
  followed by `Crash`.
* *Receiving* is `ReceiveNext`, `ReceiveEarly`, `ReceiveRefused`, `ReceiveIgnored`. Frames
  stay in `net` for ever, so each may arrive late, out of order, and again.
* *Delivery* is one action per kind of message at the head of the mailbox, then `Pop`.
* *Recovery* is `Start`, `ResumeDelivery`, `ResumeWork`: `start()` subscribes first, so
  updates interleave with it.
* *History variables*: `sent` (what each side committed), `handed` (what reached the
  application), `minted` (keys derived). No guard reads `handed`; `sent` only bounds how
  much a side sends.

Keys are numbers (0 from the handshake, then one per acceptance), exchange ids are numbers
compared as the code compares them. A message is named by its sender and raw number. An
exchange may begin whenever `rekey()` or the trigger may start one: the 100-message and
7-day counters are not kept, `StartRekey` is simply enabled.

### How `Establishment` corresponds to the code

* *The requester "A"* runs `create()` in the steps between which something else can
  happen: `BeginCreate` (the request is on its way, `_creating` counts it), then one of
  `CreateFails`, `CreateStale` (`_check_generation` raises), `CreateUnsaved`, or
  `CreateReturns` and `CreateHandles`. A crash may fall between storing the record and
  handling the remembered update. `busy` is another `create()` of the same manager: it
  keeps `_creating` above zero and so decides what becomes of an unknown update.
* *The acceptor "B"*: `OnRequested` and `StoreRequest` are the two halves of the handler
  around the await for the parameters; `BeginAccept` stores the secret, `ServerAccepts`
  is the server's answer, `AcceptReturns` or `AcceptFails` ends the call. `work` is the
  chat lock, held throughout.
* *Updates* stay deliverable after they were taken, so each may come late and again
  (`Left`). `early` is the entry of `_early_encryption` for this chat, `Choice` the order
  in which `create()` looks at it and at its own answer.
* *A discard* (`DiscardRemote`) is best effort: it may fail, and then only the local side
  has ended. The local close and the call are one step; a death between them shows as a
  failing call followed by `Crash`.
* *Keys*: a key is named by the acceptor's secret, which is what `g_b` and the fingerprint
  identify; an update's key agrees with a secret when they are the same number.
* The history variables `told`, `died`, `forgot` are read by properties only.

### How `Lifecycle` corresponds to the code

`coordinator` is the shared `_stop_task`, in the steps between its awaits: unsubscribe,
one chat lock and save after another (`Sweep`), then rounds that cancel and gather the
handlers (`DrainRound`, `RoundEnds`). `inner` says which handlers run in a task of their
own, because `asyncio.current_task()` then differs from the registered wrapper; the two
sets `_stop_callers` and `_draining_handlers` hold tasks in that sense. `detached` is the
entity an earlier `start()` installed: an upload that began then still points to it.

### How `Store` corresponds to the code

A store is the record of one chat and its two queues. `Begin` is `_atomic` together with
the outermost `transaction()`: it copies the entity and takes the snapshot. Each `Change`
is one call of the block in a nested scope, which changes the entity first and then the
state, as the code does. `MakeTemp`, `FillTemp` and `Replace` are `_write` between the
points at which another process, a failure or a death can show; `cleanup` is the sweep,
run with the sweeper's own pid, which the system may have given to another process before.
`Do` says what a block is *for*, without the calls: it is what `AtomicStore` commits.

### How `Custody`, `Ingress` and `Transient` correspond to the code

* `Custody`: `holder` is the task that has the chat lock, with the rest of its work
  (`plan`) and the RPC it awaits; other tasks are in `arrived` and `waiting`. `Quiet` says
  when the event loop is free: only then may something else start. Bytes are counted like
  records: the two limits take the same path.
* `Ingress`: an update is its qts. `Live`, `ReceivedQueue`, `GetDifference` and `Answer`
  are the points at which Telethon's box meets `ingress.py`; `deleted` is what the server
  has forgotten. `Uncertain` is a write that may or may not have happened, after which the
  store closes. A pass of the drain visits updates one by one and marks each in the commit
  that applies it.
* `Transient`: each owned task has a slot in `tasks` and a stage between its awaits, so
  that a suspension can fall at any of them; `retained` and `mail` are memory, `envelope`
  is disk. What `_require` permits is checked where the code checks it, after every await.

### How the modules about files and exports correspond to the code

* `AutoSave`: `doing` is what the code does without an await: only a crash comes between.
  A sent message is recorded at its commit and has its file copied, or owed, when its RPC
  has answered; until then it is in `sending`, and a stop, the switch or another message
  may come first. A send that ends with `SendPending` goes no further. What a logged
  failure, the switch or a death left out is in `unsaved`.
* `Transfer`: the sender's reader, the server's ciphertext and the receiver's temporary
  file go part by part, while the source and the download may change. Cipher blocks are
  named by key and plain prefix, as IGE chains them.
* `DiffieHellman`: modular powers, Miller-Rabin, the residue table and the range checks
  are computed with numbers of six bits; the server may offer any parameters.
* `MessageFrame`: a digest is the tuple of what it is taken over, so that a changed block
  or length gives another digest; lengths keep the proportions of 4-byte words.
* `Media`: containers are short sequences of numbers; the parser of pages, packets and
  comments is the code's, the reference is what was put in. The export is compared by its
  media group and its JSON `media_type`; neither tells a photo from a document.
* `DesktopExport`, `Fetch`: one action per call the driver makes, so that a failure, or a
  change of the history, can fall between any two of them.
* `RichMessage`: a tree of blocks and texts; the parser, the visitor, the numbering of
  anchors and the two writers are the code's five walks over it, translated one by one,
  and what they write is a sequence of tokens.

## 3. Runs

Several instances share a run where one question is asked of each: `scenario` or
`subject`, chosen in the initial state and never changed, says which instance takes
steps. The variables of the others rest in an initial state (or are 0), so the state space
is the sum of the instances and not their product. All have `CHECK_DEADLOCK FALSE`: with
bounded inputs every instance falls silent.

| run | instances | shows |
|---|---|---|
| `conversations` | *ordering*: two messages and one, one faulty RPC (lost, unknown, dropped), one crash; *layers*: announcements from both sides, a window of 2; *withdrawal*: delete and flush, two RPCs lost or rejected; *fault*: one exchange, one RPC lost or unknown; *endings*: the same with two, and both applications free to close | `NeverRefused`, `NothingForgottenEarly`, `MailboxFaithful`, `DeletedIsWithdrawn`, `SendKeyHeld`, `ImplementsDialogue`, `HoleHealsInOrdering` |
| `exchanges` | *crashing*: either side or both request with one id, a crash anywhere; *colliding*: both request, ids unequal or equal, one may request again | `FramesReadable`, `AcceptedCanComplete`, `ExchangeMatchesState`, `ExchangeEnds` |
| `handshake` | one handshake, one failing call, one `stop()` or crash of either side, a second device, deletions | `KeysAgree`, `DiscardIsFinal`, `OrphanIsDiscarded`, `RequestIsKeyed` |
| `runtime` | `Lifecycle` with two chats, two handlers, two shutdowns, a failing save; `Ingress` with queues of one or two updates, a pause, an uncertain write, a reopening | `NoneLeftRunning`, `RecordIsCurrent`, `CallersReturn`; `ForgottenIsHeld`, `LedgerOpens`, `CapturedIsApplied` |
| `stores` | `Store` with two processes, three pids and a death; `Custody` with six records, two tasks, an ageing, a failing save, a restart; `Transient` with two chats, two task slots, two lives | `ViewsAgree`, `LiveTempKept`, `ImplementsAtomicStore`; `WithinLimits`, `HeldOnce`, `RefusedIsLost`; `NoLostSlot`, `NothingLeftBehind`, `QuietForGood` |
| `saving` | `AutoSave`, `DiffieHellman`, `MessageFrame`, `Transfer`, `Media`, `DesktopExport`, `Fetch`, `RichMessage` | `FileNotLost`, `OwedIsFetched`; `KeyInPrimeSubgroup`; `OpensAsSealed`; `SavedIsSent`; `KindIsKept`; `ExportIsWhole`; `FetchedIsWhole`; `RichIsWhole` |

Violations, each a disagreement between the code and what it says of itself:

* `withdrawn_under_new_key`. A deletion re-encrypts the retained record under the *current*
  key (`outbox.py:86`). If the initiator has just switched, a resend of that slot is a
  new-key frame numbered before the CommitKey. The peer adopts the new key on it, the hole
  closes, and it discards the previous key (`rekey.py:180`) while the CommitKey under that
  key is still to come. It can never read that slot; the chat is stuck. `CONTEXT.md:40`
  says the previous key is kept "until nothing sent under it can still arrive".
* `request_handled_twice`. A RequestKey whose AcceptKey went out but was reported failed
  stays at the head of the mailbox. If the exchange it began ends through an early new-key
  frame before the mailbox is drained again, the request is accepted a second time with
  another key; the CommitKey behind it then mismatches and the chat is closed, although
  both sides hold the same key. `rekey.py:340` takes a mismatch as proof that they do not.
  It needs two failing RPCs, or one and a crash.
* `send_stopped`. `send_message` raises `SendPending` because an *older* record failed
  again, before its own message is stored; `manager.py:350` says the message is stored and
  must not be sent again.
* `accepted_elsewhere`. `accept()` takes `ENCRYPTION_ALREADY_ACCEPTED` for its own earlier
  acceptance (`establishment.py:121`): "the persisted secret reproduces exactly the key the
  peer holds". A second device of the account that accepts while the call is on its way
  gives the same error, and this device becomes ready with a key nobody else has. No call
  fails and nothing crashes. `KeysAgree` is what does hold: the keys agree when the server
  took *this* device's g_b and the acceptor has not removed its record in between.
* `forgotten_returns`. `_finish_stop` lists the chats (`manager.py:221`) before it takes
  their locks one by one. A closed chat that the application forgets while the sweep waits
  for another chat's lock is still in that list and is saved again (`manager.py:223`); the
  next `start()` installs it. `manager.py:250` says of `forget`: "Drop a closed chat's
  record; ``list()`` no longer shows it."
* `saved_line_lost`. `_append` (`autosave.py:301`) writes behind whatever the file ends
  with. After a crash cut a line short, the next line is glued to the torn one and neither
  can be read; if it is the line that names a downloaded file, the file is in no record.
  `autosave.py:193` says of the torn line "everything before it stands".

Two more divergences are modelled and have no run. `sent_file()` and `forwarded()` are called
after the send has returned (`manager.py:447`, `466`). A send that ends with `SendPending` has
been recorded and is transmitted later, but its file is neither copied nor owed, although
`README.md:293` says of auto-save "save every message sent or received in any secret chat"
and "download and decrypt every file at once". `FileNotLost` leaves such a message out
(`kept_pending`).

The other: a chat whose newest message is exactly at `date_from` is counted as empty
(`_messages_count` and `request_messages_count` want it later), although the filter of single
messages takes `date_from` in. `ExportIsWhole` leaves such a chat out (`EndsAtFrom`),
`FetchedIsWhole` leaves the message out (`Owed`). And since only the first and the last date
of a saved chat are looked at, `InDateOrder` says for which records the range is exact.

### Bounds

*Conversations and exchanges.* `MaxMessages`, `ExchangeIds`, `MaxFaults`, `MaxCrashes` bound
what the environment does; nothing the protocol does in answer is bounded. Two messages one
way are the fewest that make a hole (one early, one missing) and, with the answers to
requests, make holes behind holes; one the other way makes acknowledgements cross. One
fault makes every kind of loss or duplicate, two are needed for a rejection to repeat. One
crash can fall between any two steps. `MAX_RESEND_COUNT` is 1000 in the code; where the
window matters it is 2 so that it is reached.

*Handshake.* One failing call and one halt suffice for a lost answer that is repeated, a
halt at any point, and both together.

*Runtime.* Two chats, so that the sweep can wait for one lock while something happens to
the other; two handlers, so that one can call `stop()` while another waits; two shutdowns,
one of them after a save that failed. Two updates are the fewest that can be captured in
one batch or in two, and applied in either chat first; one uncertain write, one pause and
one reopening can fall between any two steps.

*Stores.* Two processes make every race for a temporary name, the third pid is what a
restarted process may be given, one death leaves one orphan. In `Custody` six records with
two places for the application's messages reach the limits of tasks and chats, and two
tasks let one wait while another holds the lock. A send reserves four places, so with these
bounds at most four records are held at once: that they stay within their limit is what
`LimitsHold` proves, for all bounds. In `Transient` two chats share the budget, two task slots let an expiry overtake a
delivery, and two lives put a restart between any two steps.

*Saving.* A mail with a file each way, the one that is sent by `send_file` or by
`forward_file`, two stops or deaths, one failing write. `OwedIsFetched` speaks of downloads that begin, are
under way or were interrupted: one owed from before auto-save was switched off and on again
waits for the next `start()`.
The arithmetic uses every offer of 6 bits, with a floor of 2 bits in the place of 2048 - 64.
Frames have bodies of up to four words and two cipher blocks. A file has one or two parts, and
the longer one is too large for an old layer.
Lists of two comments are the fewest in which one hides another. The export has up to four
records and pages of two, so that a page ends before, in and after the range. The online
histories have up to four new and three old messages, one change while the export runs,
slices of two and splits of two. The rich messages are each kind of block and of text
alone, nested in each that can hold it, and beside another.

No symmetry is used: the sides differ in parity and in who breaks a tie, and the rest is
small without it.

### Fairness

Nothing obliges anybody to send, rekey, close, stop or crash, and no call is obliged to
fail or to succeed unless it is said here.

* `FairScenarios`, for the conversations: weak fairness of applying a frame the server holds
  (`Applied`: Telegram keeps updates until they are taken), of `Drain`, `Work` and
  `SendDelete` (the event loop runs ready tasks; `retry_pending` is a public call and also
  runs before every send), and of `Recovery` (a stopped process is started again).
* `FairSpec` of `Establishment`: weak fairness of `CreateHandles` and `FinishStop` (the event
  loop), of `Start("A")` (the process comes back) and of `OnReadyA` (Telegram keeps an update
  until it is taken). Nobody is obliged to accept, and the server is not obliged to answer.
* `LifeFairness`: the event loop runs the shutdown's own task, callers whose await is over,
  cancelled handlers and an update that has its lock. A handler is not obliged to return
  by itself, and an upload is not obliged to end.
* `IngressFairness`: the drain runs again while there is something it can apply
  (`strong_manager.py` starts it after each capture and at each opening).
* `SaveFairness`: weak fairness of the code between awaits and of opening and resuming at
  `start()`; *strong* fairness of the end of a fetch, because a stop cancels it again and
  again and each `start()` begins it anew. `MaxOutages` bounds the stops and deaths.
* `QuietForGood` is an action property and needs none.

In a shared run the variables of an instance that is not chosen rest where none of its fair
actions is enabled, or the condition names the scenario: fairness asks nothing of it and
removes no behaviour of the chosen one.

`HoleHealsInOrdering` allows one frame to be confirmed and lost: the package asks once per
hole, and an answer that is confirmed and lost as well leaves the hole open for good, by
design (CONTEXT.md, *Resend*). `ExchangeEnds` is checked with crashes but without failing
RPCs: an action whose answer failed stays at the head of the mailbox until the next update
or `start()`, so a peer that then stays silent leaves the exchange open.

### Refinement

`Store` has `INSTANCE AtomicStore WITH store <- disk`: the file as it stands after
`os.replace` is the abstract store. `ImplementsAtomicStore` says that each process's file
only ever changes by the effect of one whole block, whatever calls, failures, deaths and
sweeps it took; it is checked in `stores` and proved in `StoreProofs`. Together with
`ViewsAgree` (memory, entity and file are the same between blocks) it is the reason why
`Conversation` may make a block one step.

`Conversation` has `INSTANCE Dialogue WITH said <- sent, heard <- handed`, `given` the head
of the mailbox while its delivery is under way, and `ended` the sides that are closed.
`Dialogue` knows no server, no numbers on the wire, no keys and no crashes: a side says
something, is given the next message of the other, or the last one again, answers it, is
done with it, or ends. `Reads` says what a message may be given as: itself, its own deletion,
or, for a Resend, the Noop it is stored as. `ImplementsDialogue` is checked in
`conversations` and proved in `ProtocolProofs`; it is what the parts of the engine add up to.

## 4. Proofs

Assumptions, each named in the module that declares the constants: `WindowAssumption` (the
window is a positive number), `BoundsAssumption`, `HandshakeAssumption`, `StoreAssumption`,
`IngressAssumption`, `TransientLimits`, `CustodyAssumption` (the types of the bounds; there
are enough process ids for the processes to have different ones; the senders of the bounded
manager are finitely many and none has the name of an internal task; no chat is called
"none"),
`LifecycleAssumption` (a handler is not a main task). Nothing else: all theorems hold for
every window, every queue, every number of messages, ids, faults, crashes, processes,
chats, tasks and handlers. One has a hypothesis of its own, `AllReadableUnlessWithdrawn`.

### The conversation

* `TypeCorrect`: `Spec => []TypeOK`. Invariant: `TypeInv == TypeOK /\ KeyHeld /\ MailCounted`.
  `KeyHeld` (an open chat has a key) is needed because a frame carries a key number;
  `MailCounted` (no more mail than messages received) because the number of the mailbox's
  head is a difference of naturals. The part that is not routine is that a run of queued
  wrappers is a sequence of wrappers (`ReadyType`) and that the outbox stays finite, which
  counting failures in `RetryPending` needs.
* `ExchangeConsistent`: `Spec => []ExchangeMatchesState`. With `TypeInv` the property is
  inductive. It is the reason why no `transition_to` in `rekey.py` or `receive.py` can
  raise: the state is `rekeying` exactly while an exchange is held, so each move it makes
  is one `_TRANSITIONS` allows.
* `DeliveredInOrder`: `Spec => []AtLeastOnceInOrder`, the invariant behind the dialogue below:
  what has been handed over ends just before the head of the mailbox, or with it.
  Strengthening `PopFollows`: a `pop`
  stands only at the head of `todo`, and only when the head of the mailbox is the last
  message handed over. Without it a `pop` could advance the head past a message nobody saw.
  A receipt keeps the number of the head because it appends exactly what it counts.
* `NobodyRefused`, `NothingLostEarly`, `MailboxIsFaithful`: `Spec` implies `[]NeverRefused`,
  `[]NothingForgottenEarly` and `[]MailboxFaithful`. None is inductive: a receiver judges a
  wrapper by the wrappers before it, which may still be anywhere. `NumberInv` therefore
  speaks of every wrapper a side has written that still exists (`Written`: in its outbox, on
  the server, in the peer's gap queue). Each fits the counters of both sides (`Fits`);
  number, acknowledgement and layer grow together (`InStep`); nobody has heard more than was
  said (`Heard`); what is to be asked for may be asked for (`DueWell`); and what the peer
  has not acknowledged is retained (`Retains`). For a wrapper not yet processed `Fits`
  gives just what `preflight` checks, and `Askable` what `answer_resend` needs. The lemmas
  follow the code: taking a wrapper, then the run behind it from the gap queue, keeps it.
  The mailbox follows from the same invariant, as a receipt appends a run of `Faithful`
  wrappers with consecutive numbers.
* `DeletedStaysWithdrawn`: `Spec => []DeletedIsWithdrawn`. Strengthening `GoneInv`: a
  `delete` or `flush` that is still to be sent has its content withdrawn already (`DueStep`),
  and a deletion names a number given out before it, so that no later send can have it.
* `NextIsReadable`, `SettledKeys`: `Spec` implies `[]SendKeyHeld` and `[]SettledKeysAgree`. The
  second follows from the first for sides without an exchange; only the first has a run. Both
  look at the keys alone, which say nothing of the messages that will change them. `KeyInv`
  has two parts. `SaidWell` is about what each side has said, whether heard or not: no
  id is requested twice and no key offered twice; an answer is to a request that was
  handled; a commit takes the key of an answer, and its sender said nothing of any exchange
  between the request and the commit. `HeldWell` relates the keys to that: a pending key was
  offered (`PendingOffered`); while one side waits, the answer on its way is what the peer
  still holds (`AnswerHeld`); a side that has switched first keeps the old key until it hears
  the new one (`Ahead`); nobody else speaks of the new key or under it (`PeerUse`, `OwnUse`);
  the commit is still to be handled (`CommitWaits`); and the keys meet (`KeysMeet`): equal, or
  one side's is the other's pending one. The proof takes every action as one of nine kinds
  of move of one side and shows for each kind that it keeps `KeyInv`. It rests on
  `MailboxIsFaithful` (what is at the head was said), on `DeliveredInOrder`, on `NumberInv`
  and on `ExchangeConsistent`. A message handled twice, after a crash, is why an answer must
  be matched by number and not only by id.

* `AllReadableUnlessWithdrawn`: `Spec => []FramesReadable`, given `NoWithdrawal` (nobody deletes
  or flushes, the server rejects no record). The hypothesis is needed:
  `withdrawn_under_new_key` refutes the property without it. A withdrawn record is the only
  one encrypted again in an old slot; without it keys rise along the numbers. `ReadInv` says
  so: the later the number, the later the key, the present one last (`KeysInOrder`,
  `KeyTop`); what follows a commit is under the key it brings (`AfterCommit`); the key that is
  offered is newer than those of both sides (`AnswerNew`, `KeysRise`), and is used only after
  a commit took it (`UseFollows`). The heart is `OldKeyDone`: once the new key is confirmed,
  the side has taken something later than all that is under the previous one and its peer
  writes nothing more under it; so when no hole is left (`GapKnown`: what waits in the queue
  waits for a known hole), nothing it needs is under the previous key, which may go. The
  proof takes the nine kinds of move again and adds what a step writes (`Writes`: at most one
  new message, under the key before or after), what it takes (`Gathers`) and why the keys
  change (`Steers`). `PlainInv` is what excludes the withdrawals: no `flush` is ever said and
  no operation has one to send.

* `DialogueImplemented`: `Spec => ImplementsDialogue`. It needs no invariant of its own: the
  next number comes from `DeliveredInOrder`, that it was said from `NumberInv`, what it reads
  from `MailboxIsFaithful`. Every action that commits a message is a `Say`, a hand-over is a
  `Hear`, both together an `Answer`, a pop or a crash a `Leave`, and whatever closes the chat
  an `End`; receiving, retrying and starting again are stutters.

### The handshake

* `SameKey`: `Spec => []KeysAgree` of `Establishment`. Invariant `KeyInv`: nobody hears of an
  acceptance before there is one, and there is only one (`OneAcceptance`); the requester's
  key is the server's (`RequesterKey`); while `accept()` runs its secret stays
  (`SecretKept`); and from the server's acceptance on, a kept record is pending with that
  very secret, ready with its key, or closed (`AcceptorKey`). This is where storing the
  secret before the call matters: a repeated `accept()` cannot draw another.
* `DiscardFinal`: `Spec => []DiscardIsFinal`. Invariant `EndInv`: there is no record before
  the answer (`NothingBefore`); a discard already taken is remembered, or the `create()` is
  stale, or it is over and the chat closed (`DiscardKept`). `StoppedIsStale` is needed because
  `_finish_stop` clears the remembered updates: only a stale `create()` can then be waiting.
* `NoOrphan`: `Spec => []OrphanIsDiscarded`. Strengthening `OrphanInv`, on top of `EndInv`: a
  terminal update, taken, remembered or on its way to the requester, means that the server
  has discarded the chat; `CreateHandles` begins with a requested record; and a record, or
  an answer to handle, means that the server has the chat. The last is what makes the
  discard of a stale `create()` hit something.

* `FramesOpen`: `FrameSpec => []OpensAsSealed` of `MessageFrame`. `FrameInv`: what a frame says
  of itself was taken over its payload, which begins with the body, and it has lost nothing
  or its end (`Framed`). `OwnOpens` is the arithmetic of the padding: it fills the last block
  and is never below the least. `OpenedWhole` reads the checks of `decrypt_frame` backwards:
  only the whole payload, deciphered in the direction it was sealed for, has its digest.

### Storage, start and stop, ingress, auto-save

* `ViewsKept`, `TempKept`, `AtomicStoreImplemented`: `StoreSpec` implies `[]ViewsAgree`,
  `[]LiveTempKept` and `ImplementsAtomicStore`. One invariant, `StoreInv`, serves all three:
  processes that live have different ids (`PidsDiffer`); between blocks memory, entity and
  file are the same (`Resting`); inside a block the snapshot is the file, and `Result` of the
  calls still to come, applied to what is in memory, is the effect of one whole block on it
  (`Working`); at the write nothing is left to do and the temporary file is there
  (`Writing`). `PidsDiffer` is what a sweep relies on: it spares the file of every live pid
  but its own. `BlockDone` shows, kind by kind, that the calls of a block have the effect
  `Do` names. A failure then restores the file's contents, a replace commits one block, and
  everything else stutters.

* `ShutdownReachesAll`, `StoredIsCurrent`: `LifeSpec` implies `[]NoneLeftRunning` and
  `[]RecordIsCurrent`. `ShutdownInv` says from when on no handler runs undisturbed (`Quiet`:
  from the first cancellation of the drain), and that only who waits in `stop()` is one of
  its callers, under the name its code has (`CallersWait`). The rounds of the drain are
  needed because an event may come after the first of them. `RecordInv` adds to the
  property only that both tables are functions.
* `LedgerStaysWhole`, `NothingForgottenUnheld`: `IngressSpec` implies `[]LedgerOpens` and
  `[]ForgottenIsHeld`. `LedgerInv`: between steps the box is the stored checkpoint; the
  batches are chained up to it; what the server has forgotten is not beyond it; and each
  number up to it is captured or applied (`Held`). A capture moves the checkpoint and
  appends the batch that covers the step; a completion drops batches from the front only;
  an uncertain write does one or neither, and closes the store.
* `FilesStay`: `SaveSpec /\ [](cuts = 0) => []FileNotLost` of `AutoSave`. Without the second
  conjunct it is false: the run `saved_line_lost` shows what a line cut short does.
  `SavedInv`: what is owed, being fetched or being sent has its record, unless a failure or
  the switch left it out (`Known`); and wherever the running
  code is in an operation (`Operating`) or in the tail of a download (`Fetched`), what its
  earlier steps did still stands. A record that comes a second time takes the place of
  the first, file and all; that loses nothing because its operation is not over then.

### Bounded custody

* `RefusedForGood`: `CustodySpec => []RefusedIsLost`. `LostInv` adds the stored control: a
  restart takes the chat's control from there.
* `EachHeldOnce`: `CustodySpec => []HeldOnce`. `HeldOnce` as it stands would let a message of
  the gap be in the relay as well, which counting it later would double; `InboxInv` says
  that what is held or settled is *exactly* what was counted.
* `LimitsHold`: `CustodySpec => []WithinLimits`. A commit in a paused chat does not check
  the limit again, so `LimitInv` says that while a plan still contains an admitted record
  its place is free (`Bound`): only the holder of the lock adds records. `Shape` lists the
  plans that a holder can have.

### Transient mode

Nearly every action may end in `_suspend`. `SuspendEffects` says once what that does, and
`OrdinaryStep` that every action but a new chat, `start` and the process's death does to the
chats only what `Refuses` and `SameChats` allow.

* `QuietAfterwards`: `TransientSpec => QuietForGood`, an action property. `QuietInv`: whatever
  was ever refused is on disk, and is suspended whenever it is known; a `create` under way
  is for a chat that is not on disk, the only one for it. So a chat that comes to exist
  cannot be one that was refused before.
* `NothingStays`: `TransientSpec => []NothingLeftBehind`. `EmptyInv`: the outbox and the
  mailbox of a refused chat *are* empty, and change only while the chat is permitted.
* `NoSlotLost`: `TransientSpec => []NoLostSlot`. `SlotInv`: one task in a chat's lock; what is
  retained is below the counter; the server has every slot below the counter of a permitted
  chat, but for the newest while its RPC is under way; an RPC under way is for the newest
  slot, also in a chat that was suspended meanwhile. `GentleStep` covers every step but a
  sent frame, a new chat, `start` and the process's death. A resend then gives the server
  nothing new: it needs the lock, so no RPC is under way.

### Only model-checked

Every liveness property and `HoleHealsInOrdering` (TLAPS proves no liveness here), among
them `RequestIsKeyed`, `ExchangeEnds`, `CallersReturn`, `CapturedIsApplied`, `OwedIsFetched`.
`FramesReadable` where content is withdrawn: it holds in the instances of its run, where
nobody deletes, and `withdrawn_under_new_key` refutes it in others. `AcceptedCanComplete` holds in the instances of
its run and not for every value of the bounds: an acceptance repeated after its exchange
was aborted (`request_handled_twice`) refutes it. `SavedIsSent`,
`KindIsKept`, `ExportIsWhole`, `FetchedIsWhole` and `RichIsWhole` compare what is read back
with what was written through folds and recursive functions over the data, which would take
an induction the provers do not have; `KeyInPrimeSubgroup` rests on modular powers,
computed in the same way.

## 5. Left out

* *Conversation*: typing, read, screenshot and TTL actions (no state the rest reads; each is
  traffic like a Noop); deleting the *peer's* messages (its record at the peer is the peer's
  business and an acknowledged one is gone); the trigger's counters; `_inflight` (guards a
  nested receive the chat lock already excludes); parsing failures; the in-memory history.
  `retry_pending` sends its records in one step: the peer sees only the set of frames, which
  is the same.
* *Handshake*: the limit of 100 early updates, a `create()` of the acceptor's own that is in
  flight, operations called after `stop()`, stored handshakes from before secrets were kept.
* *Storage*: settings, the encoding of bytes, the memory store (the same nested transactions
  without the write), names without an owner.
* *Bounded, ingress, transient*: bytes are counted like records; the encryption of the
  ingress store, the provenance of the Telethon build, validation of stored bytes.
* *Auto-save*: deleting saved messages while a download runs; a `stop()` while `start()` still
  recovers.
* *Cryptography*: SHA and AES are injective functions; only the checks around them and the
  arithmetic of the exchange are modelled.
* *Exports*: wording, attributes, styles, layout, pictures and the `qt_*` helpers, actions
  that are a record with a text. Text entities and the key picture are formatting without
  state.
* *Rich messages*: that an anchor's id, with its number behind it, equals that of another
  name (it takes more anchors of one name than a message holds).
* *Schema*: generated code, not modelled.

## 6. Plan

1. Proofs: the conditions on the exchange under which `AcceptedCanComplete` holds for every
   bound; the parts of `Transfer` that need no induction
   (lengths, keys, what a refused receive leaves at the path).
2. The handshake's limit of 100 early updates, with an operation that fills it.
3. Deleting saved messages against downloads, and `stop()` against a `start()` that still
   recovers.
