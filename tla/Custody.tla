------------------------------- MODULE Custody ------------------------------
(***************************************************************************)
(* BoundedSecretChatManager for one chat (bounded.py, bounded_storage.py,  *)
(* bounded_transport.py, bounded_media.py): finite custody, reservations,  *)
(* pauses and the consumer's relay, under concurrent sends, updates, the   *)
(* operator, storage failures and crashes.                                 *)
(*                                                                         *)
(* Incoming messages are their sequence numbers, and so are outgoing ones. *)
(* The reason of a pause is left out: only the first is kept, and nothing  *)
(* depends on it. An `admission` callback that refuses is a pause by the   *)
(* operator just before.                                                   *)
(***************************************************************************)
EXTENDS Naturals, Sequences, FiniteSets, SequencesExt

CONSTANTS
  Records,     \* limits.records
  Tasks,       \* limits.tasks
  ChatSlots,   \* limits.chats
  Senders,     \* the tasks of the application that send
  Kinds,       \* what the incoming messages may be: sequences of kinds
  MaxOut,      \* how many records may be prepared for sending
  MaxTicks,    \* how often the age limit may run out for what is held
  MaxSaveFailures, MaxRestarts

ASSUME CustodyAssumption ==
  /\ Records \in Nat /\ Tasks \in Nat \ {0} /\ ChatSlots \in Nat \ {0}
  /\ IsFiniteSet(Senders) /\ Senders \cap {"nobody", "receive", "resume", "start"} = {}
  /\ Kinds \subseteq Seq({"text", "request", "delete", "huge"})
  /\ MaxOut \in Nat /\ MaxTicks \in Nat

VARIABLES
  kind,      \* the kind of each incoming message; it never changes
  control,   \* the chat's control in memory: paused, lost
  stored,    \* the one in the store
  failed,    \* _failed_pauses
  counted,   \* in_seq_no
  gap, mailbox, relay,         \* the incoming messages held
  settled,   \* history: acknowledged by the consumer, or acted upon
  prepared,  \* out_seq_no
  out, pending,                \* the retained records, and the unconfirmed ones
  due,       \* resend_due
  ages,      \* ages: when each held item came into custody
  now,
  arrived,   \* updates past _on_update that wait for the chat lock
  waiting,   \* senders past _work that wait for it
  holder,    \* who has the chat lock, what is left of its work, its RPC
  media, creating, chats,      \* _media_tasks, _creating_slots, the controls held
  refused,   \* history: the updates that were turned away
  orphans,   \* history: records retained by calls that ended with ChatPaused
  unsaved,   \* history: the process ended with a pause it could not store
  saveFailures, restarts

inbox == <<counted, gap, mailbox, relay, settled>>
outbox == <<prepared, out, pending, due>>
controls == <<control, stored, failed>>
work == <<arrived, waiting, media, creating, chats>>
history == <<refused, orphans, unsaved>>
custodyVars == <<kind, controls, inbox, outbox, ages, now, work, holder, history,
                 saveFailures, restarts>>

Incoming == 1 .. Len(kind)
Free == [who |-> "nobody", plan |-> <<>>, left |-> {}, rpc |-> 0, bad |-> FALSE]
Fresh == [paused |-> FALSE, lost |-> FALSE]

----------------------------------------------------------------------------
(* CustodyStorage *)

\* The keys of refresh_age: transfers between the queues keep an item's key.
KeysOf(o, g, m, r) ==
  {<<"out", n>> : n \in o} \cup {<<"in", n>> : n \in g \cup ToSet(m) \cup r}
Usage == Cardinality(out) + Cardinality(gap) + Len(mailbox) + Cardinality(relay)

\* refresh_age, on what the commit will hold.
refresh_age(keys) == [k \in keys |-> IF k \in DOMAIN ages THEN ages[k] ELSE now]

TooOld == \E k \in DOMAIN ages : ages[k] < now

Fits(n) == Usage + n <= Records

check(n) == Fits(n) /\ ~ TooOld

\* The end of an outermost transaction that touched the chat.
Commit ==
  /\ ages' = refresh_age(KeysOf(out', gap', mailbox', relay'))
  /\ stored' = control'

PausedBy(lost) == [paused |-> TRUE, lost |-> control.lost \/ lost]

\* _pause; when it cannot be stored the chat stays paused, and lost, in memory.
Pause(lost) ==
  \/ /\ control' = PausedBy(lost) /\ stored' = control'
     /\ UNCHANGED <<failed, saveFailures>>
  \/ /\ saveFailures < MaxSaveFailures /\ saveFailures' = saveFailures + 1
     /\ control' = [paused |-> TRUE, lost |-> TRUE] /\ failed' = TRUE
     /\ UNCHANGED stored

----------------------------------------------------------------------------
(* Admission *)

Workers == waiting \cup {holder.who}
\* What the other tasks have reserved.
Reserved(me) ==
  4 * Cardinality(Senders \cap (Workers \ {me}))
    + IF "receive" \in Workers \ {me} THEN 2 ELSE 0

\* _admit
Admitted(me, n) == ~ control.paused /\ check(n + Reserved(me))

\* _active and the media tasks. A recovery is no work of its own until it retries.
Recovering == holder.who \in {"resume", "start"} /\ holder.plan # <<>> /\ Head(holder.plan) = "drain"
Active ==
  Cardinality(Workers \ {"nobody"}) - (IF Recovering THEN 1 ELSE 0) + media + creating

\* The event loop is free: the holder of the lock, if any, awaits an answer.
Quiet == holder.who # "nobody" => holder.rpc # 0

\* Faulty variant: the chat is paused as if the operator had asked.
Bad_Refuse(n) ==
  /\ Pause(FALSE)
  /\ refused' = refused \cup {n}
  /\ UNCHANGED <<orphans, unsaved>>

\* An update is turned away.
Refuse(n) ==
  /\ Pause(TRUE)
  /\ refused' = refused \cup {n}
  /\ UNCHANGED <<orphans, unsaved>>

----------------------------------------------------------------------------

CustodyInit ==
  /\ kind \in Kinds
  /\ control = Fresh /\ stored = Fresh /\ failed = FALSE
  /\ counted = 0 /\ gap = {} /\ mailbox = <<>> /\ relay = {} /\ settled = {}
  /\ prepared = 0 /\ out = {} /\ pending = {} /\ due = FALSE
  /\ ages = <<>> /\ now = 0
  /\ arrived = {} /\ waiting = {} /\ holder = Free
  /\ media = 0 /\ creating = 0 /\ chats = 1
  /\ refused = {} /\ orphans = {} /\ unsaved = FALSE
  /\ saveFailures = 0 /\ restarts = 0

\* _on_update: admitted before anything else.
Arrive(n) ==
  /\ Quiet /\ n \notin arrived
  /\ IF Admitted("update", 0)
       THEN arrived' = arrived \cup {n} /\ UNCHANGED <<controls, history, saveFailures>>
       ELSE Refuse(n) /\ UNCHANGED arrived
  /\ UNCHANGED <<inbox, outbox, ages, now, waiting, holder, media, creating, chats, restarts>>

\* The run of messages that n completes.
Run(n) == CHOOSE k \in n .. Len(kind) :
            /\ (n + 1) .. k \subseteq gap
            /\ k + 1 \notin gap

\* The retained records whose RPC has been issued, they and all before them: what the
\* peer may acknowledge.
Issued == {k \in out : \A j \in 1 .. k : j \notin orphans}

\* The commit of _on_encrypted_message: n joins the mailbox, with the run it
\* completes, or the gap; what the peer acknowledges is dropped.
Accept(n, ack) ==
  /\ \/ /\ n = counted + 1
        /\ counted' = Run(n) /\ gap' = gap \ (n .. Run(n))
        /\ mailbox' = mailbox \o [i \in 1 .. Run(n) - n + 1 |-> n + i - 1]
        /\ UNCHANGED due
     \/ /\ n > counted + 1 /\ n \notin gap
        /\ gap' = gap \cup {n} /\ due' = (due \/ gap = {})
        /\ UNCHANGED <<counted, mailbox>>
     \/ /\ n <= counted \/ n \in gap
        /\ UNCHANGED <<counted, gap, mailbox, due>>
  /\ out' = {k \in out : k > ack} /\ pending' = pending \cap out' /\ UNCHANGED relay /\ Commit
  /\ UNCHANGED <<settled, prepared>>

\* _on_encrypted_message, once it has the lock.
Receive(n) ==
  /\ Quiet /\ holder.who = "nobody" /\ n \in arrived
  /\ arrived' = arrived \ {n}
  /\ \/ /\ kind[n] # "huge" /\ Admitted("receive", 2) /\ Active < Tasks
        /\ UNCHANGED <<control, failed, history, saveFailures>>
        /\ \E ack \in {0} \cup Issued : Accept(n, ack)
        /\ holder' = [Free EXCEPT !.who = "receive",
                        !.plan = IF kind[n] = "request" THEN <<"drain", "retry", "due">>
                                 ELSE <<"drain", "due">>]
     \/ /\ kind[n] = "huge" \/ ~ Admitted("receive", 2) \/ Active >= Tasks
           \/ saveFailures < MaxSaveFailures
        /\ Refuse(n)
        /\ UNCHANGED <<inbox, outbox, ages, holder>>
  /\ UNCHANGED <<now, waiting, media, creating, chats, restarts>>

\* resume_chat
Resume ==
  /\ Quiet /\ holder.who = "nobody"
  /\ control.paused /\ ~ control.lost /\ ~ failed /\ check(0)
  /\ control' = Fresh /\ stored' = Fresh
  /\ holder' = [Free EXCEPT !.who = "resume", !.plan = <<"drain", "retry", "due">>]
  /\ UNCHANGED <<failed, inbox, outbox, ages, now, work, history, saveFailures, restarts>>

\* send_message: _work reserves before the locks.
BeginSend(s) ==
  /\ Quiet /\ s \notin Workers /\ prepared < MaxOut
  /\ IF Admitted(s, 4) /\ Active < Tasks
       THEN waiting' = waiting \cup {s} /\ UNCHANGED <<controls, saveFailures>>
       ELSE Pause(FALSE) /\ UNCHANGED waiting
  /\ UNCHANGED <<inbox, outbox, ages, now, arrived, media, creating, chats, holder,
                 history, restarts>>

\* It has them: admitted again, it retries what is pending before its own record.
LockSend(s) ==
  /\ Quiet /\ holder.who = "nobody" /\ s \in waiting
  /\ waiting' = waiting \ {s}
  /\ IF Admitted(s, 2)
       THEN /\ holder' = [Free EXCEPT !.who = s, !.plan = <<"retry", "own">>, !.left = pending]
            /\ UNCHANGED <<controls, saveFailures>>
       ELSE Pause(FALSE) /\ UNCHANGED holder
  /\ UNCHANGED <<inbox, outbox, ages, now, arrived, media, creating, chats, history, restarts>>

\* A send that waits for the locks runs into its deadline.
SendExpires(s) ==
  /\ Quiet /\ s \in waiting /\ waiting' = waiting \ {s}
  /\ Pause(FALSE)
  /\ UNCHANGED <<inbox, outbox, ages, now, arrived, media, creating, chats, holder,
                 history, restarts>>

----------------------------------------------------------------------------
(* What the holder of the lock does between its RPCs *)

Doing(step) == holder.who # "nobody" /\ holder.rpc = 0 /\ holder.plan # <<>>
                 /\ Head(holder.plan) = step
Others == <<now, work, saveFailures, restarts>>

\* It ends with ChatPaused: a receive is then taken for one that was refused. When a
\* commit raised it, nobody has paused the chat before.
EndPaused(pausing) ==
  /\ holder' = Free
  /\ control' = IF holder.who = "receive" \/ pausing
                  THEN PausedBy(holder.who = "receive") ELSE control
  /\ stored' = control'
  /\ UNCHANGED failed

Proceed == holder' = [holder EXCEPT !.plan = Tail(@), !.left = pending]

\* Faulty variant: the relay entry and the removal are not one commit.
Bad_Project(n) ==
  /\ relay' = relay \cup {n}
  /\ UNCHANGED <<mailbox, settled>>

\* _drain_deliveries, of a message: the relay entry and its removal from the mailbox
\* are one commit.
Project(n) ==
  /\ relay' = relay \cup {n} /\ mailbox' = Tail(mailbox)
  /\ UNCHANGED settled

DrainOne ==
  /\ Doing("drain") /\ mailbox # <<>> /\ Admitted(holder.who, 0)
  /\ UNCHANGED <<gap, outbox>>
  /\ LET n == Head(mailbox)
     IN \/ /\ kind[n] = "text"
           /\ Project(n) /\ UNCHANGED <<control, failed, holder>> /\ Commit
        \/ /\ kind[n] = "request"
           /\ mailbox' = Tail(mailbox) /\ settled' = settled \cup {n}
           /\ UNCHANGED <<relay, control, failed, holder>> /\ Commit
        \/ /\ kind[n] = "delete"
           /\ control' = PausedBy(TRUE) /\ stored' = control' /\ holder' = Free
           /\ UNCHANGED <<mailbox, relay, settled, ages, failed>>
  /\ UNCHANGED <<counted, history, Others>>

DrainEnds ==
  /\ Doing("drain") /\ mailbox = <<>> /\ (Recovering => Active < Tasks)
  /\ Proceed
  /\ UNCHANGED <<controls, inbox, outbox, ages, history, Others>>

\* Any step needs admission: without it the work ends here.
StepPaused ==
  /\ \/ Recovering /\ mailbox = <<>> /\ Active >= Tasks
     \/ /\ \/ Doing("drain") /\ mailbox # <<>>
           \/ Doing("retry") /\ holder.left # {}
           \/ Doing("due")
        /\ ~ Admitted(holder.who, IF Doing("due") /\ due THEN 2 ELSE 0)
  /\ EndPaused(TRUE)
  /\ UNCHANGED <<inbox, outbox, ages, history, Others>>

\* retry_pending: the next unconfirmed record goes out.
RetryOne ==
  /\ Doing("retry") /\ holder.left # {} /\ Admitted(holder.who, 0)
  /\ LET n == CHOOSE k \in holder.left : \A j \in holder.left : k <= j
     IN holder' = [holder EXCEPT !.rpc = n, !.left = @ \ {n}]
  /\ UNCHANGED <<controls, inbox, outbox, ages, history, Others>>

\* Everything was tried: a failure ends the work with SendPending.
RetryEnds ==
  /\ Doing("retry") /\ holder.left = {}
  /\ holder' = IF holder.bad THEN Free ELSE [holder EXCEPT !.plan = Tail(@)]
  /\ UNCHANGED <<controls, inbox, outbox, ages, history, Others>>

\* _request_due_resend: when a hole waits for its request, that is a send.
Due ==
  /\ Doing("due") /\ Admitted(holder.who, IF due THEN 2 ELSE 0)
  /\ holder' = IF due /\ prepared < MaxOut
                 THEN [holder EXCEPT !.plan = <<"retry", "request">>, !.left = pending] ELSE Free
  /\ UNCHANGED <<controls, inbox, outbox, ages, history, Others>>

\* The commit of _send and the beginning of its transmission. The commit checks the
\* limits unless the chat was paused meanwhile; the transmission is admitted again.
Prepare ==
  /\ Doing("own") \/ Doing("request")
  /\ LET n == prepared + 1
         fits == control.paused \/ check(1)
     IN IF fits
          THEN /\ prepared' = n /\ out' = out \cup {n} /\ pending' = pending \cup {n}
               /\ due' = (due /\ Doing("own"))
               /\ UNCHANGED inbox /\ ages' = refresh_age(KeysOf(out', gap, mailbox, relay))
               /\ IF control.paused
                    THEN EndPaused(TRUE) /\ orphans' = orphans \cup {n}
                    ELSE /\ holder' = [holder EXCEPT !.rpc = n, !.plan = <<>>]
                         /\ stored' = control /\ UNCHANGED <<control, failed, orphans>>
          ELSE /\ EndPaused(FALSE)
               /\ UNCHANGED <<inbox, outbox, ages, orphans>>
  /\ UNCHANGED <<refused, unsaved, Others>>

\* The work is done.
HolderEnds ==
  /\ holder.who # "nobody" /\ holder.rpc = 0 /\ holder.plan = <<>>
  /\ holder' = Free
  /\ UNCHANGED <<controls, inbox, outbox, ages, history, Others>>

----------------------------------------------------------------------------
(* Answers *)

Answered == holder' = [holder EXCEPT !.rpc = 0]

\* _transmit's bookkeeping is a commit like any other: it may find custody too old.
Confirmed ==
  /\ holder.rpc # 0
  /\ IF control.paused \/ check(0)
       THEN /\ pending' = pending \ {holder.rpc} /\ Answered
            /\ UNCHANGED <<inbox, prepared, out, due, control, failed>> /\ Commit
       ELSE EndPaused(FALSE) /\ UNCHANGED <<inbox, outbox, ages>>
  /\ UNCHANGED <<history, Others>>

\* A failure, or the deadline: the record stays pending.
Unconfirmed ==
  /\ holder.rpc # 0
  /\ holder' = IF holder.plan = <<>> THEN Free ELSE [holder EXCEPT !.rpc = 0, !.bad = TRUE]
  /\ UNCHANGED <<controls, inbox, outbox, ages, history, Others>>

\* _rejected
Rejected ==
  /\ holder.rpc # 0
  /\ Pause(TRUE)
  /\ holder' = IF holder.plan = <<>> THEN Free ELSE [holder EXCEPT !.rpc = 0, !.bad = TRUE]
  /\ UNCHANGED <<inbox, outbox, ages, history, now, work, restarts>>

----------------------------------------------------------------------------
(* The operator, the consumer, time, the process *)

\* pause_chat; close, which cannot be undone.
OperatorPause(lost) ==
  /\ Quiet /\ Pause(lost)
  /\ UNCHANGED <<inbox, outbox, ages, now, work, holder, history, restarts>>

\* check_custody finds custody too old.
AgePause ==
  /\ Quiet /\ ~ control.paused /\ ~ check(0)
  /\ Pause(FALSE)
  /\ UNCHANGED <<inbox, outbox, ages, now, work, holder, history, restarts>>

\* acknowledge_delivery, also while paused.
Acknowledge(n) ==
  /\ Quiet /\ n \in relay
  /\ relay' = relay \ {n} /\ settled' = settled \cup {n}
  /\ UNCHANGED <<counted, gap, mailbox, outbox, control, failed>>
  /\ LET kept == refresh_age(KeysOf(out, gap, mailbox, relay'))
     IN /\ control.paused \/ \A k \in DOMAIN kept : kept[k] = now
        /\ ages' = kept /\ stored' = control
  /\ UNCHANGED <<holder, history, Others>>

Tick ==
  /\ Quiet /\ now < MaxTicks /\ now' = now + 1
  /\ UNCHANGED <<controls, inbox, outbox, ages, work, holder, history, saveFailures, restarts>>

\* receive_file
BeginMedia ==
  /\ Quiet /\ Admitted("media", 0) /\ Active < Tasks
  /\ media' = media + 1
  /\ UNCHANGED <<controls, inbox, outbox, ages, now, arrived, waiting, creating, chats, holder,
                 history, saveFailures, restarts>>

EndMedia ==
  /\ Quiet /\ media > 0
  /\ media' = media - 1
  /\ UNCHANGED <<controls, inbox, outbox, ages, now, arrived, waiting, creating, chats, holder,
                 history, saveFailures, restarts>>

\* Faulty variant: the slot is taken when the server has answered.
Bad_BeginCreate ==
  /\ Quiet /\ chats < ChatSlots /\ Active < Tasks /\ Records >= 4
  /\ creating' = creating + 1

\* create: the slot is reserved before the first await.
BeginCreate ==
  /\ Quiet /\ chats + creating < ChatSlots /\ Active < Tasks /\ Records >= 4
  /\ creating' = creating + 1

EndCreate ==
  /\ Quiet /\ creating > 0
  /\ creating' = creating - 1 /\ \E made \in {0, 1} : chats' = chats + made

\* _on_update, of a request of a peer for a chat of its own.
Requested ==
  /\ Quiet /\ chats + creating < ChatSlots
  /\ chats' = chats + 1

Slots ==
  /\ \/ BeginCreate /\ UNCHANGED chats
     \/ EndCreate
     \/ Requested /\ UNCHANGED creating
  /\ UNCHANGED <<controls, inbox, outbox, ages, now, arrived, waiting, media, holder, history,
                 saveFailures, restarts>>

\* The process dies; the next one opens the store, and recovers unless it is paused.
Restart ==
  LET intact == ~ stored.paused /\ \A k \in DOMAIN ages : ages[k] = now
  IN /\ restarts < MaxRestarts /\ restarts' = restarts + 1
     /\ control' = IF intact THEN stored ELSE [stored EXCEPT !.paused = TRUE]
     /\ stored' = control' /\ failed' = FALSE
     /\ unsaved' = (unsaved \/ failed)
     /\ arrived' = {} /\ waiting' = {} /\ media' = 0 /\ creating' = 0
     /\ holder' = IF intact THEN [Free EXCEPT !.who = "start",
                                    !.plan = <<"drain", "retry", "due">>] ELSE Free
     /\ UNCHANGED <<inbox, outbox, ages, now, chats, refused, orphans, saveFailures>>

CustodyStep ==
  \/ \E n \in Incoming : Arrive(n) \/ Receive(n) \/ Acknowledge(n)
  \/ \E s \in Senders : BeginSend(s) \/ LockSend(s) \/ SendExpires(s)
  \/ Resume
  \/ DrainOne \/ DrainEnds \/ StepPaused \/ RetryOne \/ RetryEnds \/ Due \/ Prepare \/ HolderEnds
  \/ Confirmed \/ Unconfirmed \/ Rejected
  \/ \E lost \in BOOLEAN : OperatorPause(lost)
  \/ AgePause \/ Tick
  \/ BeginMedia \/ EndMedia \/ Slots
  \/ Restart

CustodyNext == CustodyStep /\ UNCHANGED kind

CustodySpec == CustodyInit /\ [][CustodyNext]_custodyVars

----------------------------------------------------------------------------
(* Properties *)

\* Neither races between tasks nor a pause between an admission and its commit take
\* custody, work or chats beyond their limits.
WithinLimits ==
  /\ Usage <= Records
  /\ Active <= Tasks
  /\ chats + creating <= ChatSlots

\* Every message counted as received, or held for a hole, is in exactly one place:
\* nothing is evicted, lost or doubled on its way to the consumer.
HeldOnce ==
  /\ (1 .. counted) \cup gap = gap \cup ToSet(mailbox) \cup relay \cup settled
  /\ IsInjective(mailbox)
  /\ ToSet(mailbox) \cap relay = {} /\ settled \cap (relay \cup ToSet(mailbox)) = {}
  /\ gap \cap 1 .. counted = {}

\* A chat that turned an update away can not be resumed, also not after a restart,
\* unless the very pause could not be stored.
RefusedIsLost == (refused # {} /\ ~ unsaved) => control.lost

=============================================================================
