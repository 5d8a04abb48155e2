--------------------------- MODULE Conversation ----------------------------
(***************************************************************************)
(* One established secret chat between two sides that both run this        *)
(* package: the retained outbox (outbox.py), the receive path and the      *)
(* delivery mailbox (receive.py), the sequence rules (sequence.py) and the *)
(* key exchange (rekey.py), over a server that may delay, reorder,         *)
(* duplicate or lose frames, with failed RPCs and crashes.                 *)
(*                                                                         *)
(* Every operation on a chat holds its chat lock from its first step to    *)
(* its last, RPCs included (locking.py), so one operation runs at a time   *)
(* on each side; todo[p] is what the running one has still to do. What an  *)
(* _atomic block writes survives a crash; todo does not.                   *)
(***************************************************************************)
EXTENDS Sequence, Rekey, Sequences

CONSTANTS
  MaxMessages,  \* [Side -> Nat]: ordinary messages each side sends
  ExchangeIds,  \* [Side -> SUBSET Nat]: exchange ids each side may draw
  Announcers,   \* the sides that announce their layer
  Deleters,     \* the sides that delete a message or flush the history
  Closers,      \* the sides whose application ends the chat
  Outcomes,     \* what an RPC that sends a record may do, besides "ok"
  MaxFaults,    \* how many RPCs may end in one of those
  MaxCrashes    \* how many times a process may die

ASSUME BoundsAssumption ==
  /\ MaxMessages \in [Side -> Nat]
  /\ ExchangeIds \in [Side -> SUBSET Nat]
  /\ Announcers \subseteq Side
  /\ Deleters \subseteq Side
  /\ Closers \subseteq Side
  /\ Outcomes \subseteq {"lost", "unknown", "dropped", "rejected"}
  /\ MaxFaults \in Nat
  /\ MaxCrashes \in Nat

VARIABLES
  state,               \* ChatState: "ready", "rekeying" or "closed"
  closed_reason,       \* why a closed chat ended, "open" before
  seq,                 \* counters, layers and gap fields
  keys,                \* key fields
  queue_in,            \* storage "in": wrappers received too early
  retained_out,        \* storage "out": sent records not yet acknowledged
  pending_deliveries,  \* the durable mailbox
  todo,                \* remaining steps of the operation holding the lock
  boot,                \* start(): "down", recovery still due, or "done"
  net,                 \* frames the server may (again) deliver
  minted,              \* number of keys derived by exchanges so far
  sent,                \* history: every message committed, by sequence number
  handed,              \* history: messages handed to the application
  faults, crashes      \* budgets used

chatVars == <<state, closed_reason, seq, keys>>
storeVars == <<queue_in, retained_out, pending_deliveries>>
runVars == <<todo, boot>>
history == <<minted, sent, handed>>
budget == <<faults, crashes>>
vars == <<chatVars, storeVars, runVars, net, history, budget>>

\* A record of the retained outbox: body and frame, with the frame's key.
Item == [w : Wrapper, key : Nat, pending : BOOLEAN, failures : Nat]
Frame == [to : Side, w : Wrapper, key : Nat]
Steps == {"drain", "pop", "retry", "ask", "noop", "delete", "flush"}
Step == [do : Steps, arg : Nat]
Reasons == {"open", "sequence", "unsatisfiable", "window", "rejected",
            "commit", "application", "peer"}

Do(step) == [do |-> step, arg |-> 0]

Init ==
  /\ state = [p \in Side |-> "ready"]
  /\ closed_reason = [p \in Side |-> "open"]
  /\ seq = [p \in Side |-> InitialSeq]
  /\ keys = [p \in Side |-> InitialKeys]
  /\ queue_in = [p \in Side |-> {}]
  /\ retained_out = [p \in Side |-> {}]
  /\ pending_deliveries = [p \in Side |-> <<>>]
  /\ todo = [p \in Side |-> <<>>]
  /\ boot = [p \in Side |-> "done"]
  /\ net = {}
  /\ minted = 0
  /\ sent = [p \in Side |-> <<>>]
  /\ handed = [p \in Side |-> 0]
  /\ faults = 0
  /\ crashes = 0

----------------------------------------------------------------------------
(* Guards *)

Up(p) == boot[p] # "down"
Open(p) == state[p] # "closed"
\* The chat lock is free: a new operation may begin.
Idle(p) == Up(p) /\ Open(p) /\ todo[p] = <<>>
\* The running operation has reached this step.
At(p, step) == Up(p) /\ Open(p) /\ todo[p] # <<>> /\ Head(todo[p]).do = step

Pending(p) == {r \in retained_out[p] : r.pending}

\* Messages of a kind that side p has committed.
SentActs(p, acts) == {i \in DOMAIN sent[p] : sent[p][i].act \in acts}

----------------------------------------------------------------------------
(* Transmitting a record: _transmit, _transmit_or_pending, _rejected *)

FrameOf(p, r) == [to |-> Peer(p), w |-> r.w, key |-> r.key]

\* The server holds the frame after "ok", and after "unknown" although the
\* caller saw a failure; after "dropped" it confirmed and lost it.
Arrives(o) == o \in {"ok", "unknown"}
Confirmed(o) == o \in {"ok", "dropped"}

\* §3.8: content withdrawn as a self-delete in the same slot, encrypted anew.
Withdrawn(r, key) ==
  IF r.w.act # "msg" THEN r
  ELSE [r EXCEPT !.w.act = "delete", !.w.a = RawOut(r.w),
                 !.key = key]

\* Faulty variant: only what is still unsent is withdrawn.
Bad_rewrite_retained(R, raws, key) ==
  {IF r.pending /\ RawOut(r.w) \in raws THEN Withdrawn(r, key) ELSE r : r \in R}

\* Withdrawing the messages with the given raw numbers.
rewrite_retained_as_deletes(R, raws, key) ==
  {IF RawOut(r.w) \in raws THEN Withdrawn(r, key) ELSE r : r \in R}

\* A record after one RPC for it.
Transmitted(r, o, key) ==
  CASE Confirmed(o) -> [r EXCEPT !.pending = FALSE]
    [] o = "rejected" /\ r.w.act = "msg" -> Withdrawn(r, key)
    [] o = "rejected" /\ r.w.act # "msg" -> [r EXCEPT !.failures = @ + 1]
    [] OTHER -> r

\* A service record is given one more try; a second rejection ends the chat.
EndsChat(r, o) == o = "rejected" /\ r.w.act # "msg" /\ r.failures >= 1

----------------------------------------------------------------------------
(* _close_local: the only closer *)

CloseChat(p, reason) ==
  /\ state' = [state EXCEPT ![p] = "closed"]
  /\ closed_reason' = [closed_reason EXCEPT ![p] = reason]
  /\ keys' = [keys EXCEPT ![p] = Scrubbed(@)]
  /\ queue_in' = [queue_in EXCEPT ![p] = {}]
  /\ retained_out' = [retained_out EXCEPT ![p] = {}]
  /\ pending_deliveries' = [pending_deliveries EXCEPT ![p] = <<>>]
  /\ todo' = [todo EXCEPT ![p] = <<>>]
  /\ UNCHANGED <<seq, boot>>

\* close() by the application.
Close(p) ==
  /\ p \in Closers /\ Idle(p)
  /\ CloseChat(p, "application")
  /\ UNCHANGED <<net, history, budget>>

----------------------------------------------------------------------------
(* _send, once nothing older is pending: the commit and its transmission.  *)
(* after_prepare leaves the key fields `new` and the chat state `st`.      *)

NewWrapper(p, act, a, b) ==
  [in_seq_no |-> transform_in_seq_no(seq[p].in_seq_no, p),
   out_seq_no |-> transform_out_seq_no(seq[p].out_seq_no, p),
   layer |-> outgoing_layer(seq[p].layer), act |-> act, a |-> a, b |-> b]

Commit(p, act, a, b, key, new, st, o) ==
  LET r == [w |-> NewWrapper(p, act, a, b), key |-> key,
            pending |-> TRUE, failures |-> 0]
  IN /\ Pending(p) = {}
     /\ keys' = [keys EXCEPT ![p] = new]
     /\ state' = [state EXCEPT ![p] = st]
     /\ retained_out' = [retained_out EXCEPT ![p] =
                           @ \cup {Transmitted(r, o, new.key)}]
     /\ net' = net \cup (IF Arrives(o) THEN {FrameOf(p, r)} ELSE {})
     /\ sent' = [sent EXCEPT ![p] = Append(@, [act |-> act, a |-> a, b |-> b])]
     /\ faults' = IF o = "ok" THEN faults ELSE faults + 1
     /\ faults' <= MaxFaults
     /\ UNCHANGED <<closed_reason, queue_in, pending_deliveries, boot, crashes>>

Counted(p) == [seq EXCEPT ![p].out_seq_no = @ + 1]

\* SendPending ends the whole operation; otherwise it goes on with `rest`.
GoOn(p, o, rest) ==
  todo' = [todo EXCEPT ![p] = IF Confirmed(o) THEN rest ELSE <<>>]

AnyOutcome == {"ok"} \cup Outcomes

\* send_message, send_file, forward_file: content.
SendMessage(p) ==
  /\ Idle(p)
  /\ Cardinality(SentActs(p, {"msg"})) < MaxMessages[p]
  /\ \E o \in AnyOutcome :
       Commit(p, "msg", 0, 0, keys[p].key, keys[p], state[p], o)
  /\ seq' = Counted(p)
  /\ UNCHANGED <<todo, minted, handed>>

\* establishment._notify_layer: each side announces MAX_LAYER once.
NotifyLayer(p) ==
  /\ Idle(p) /\ p \in Announcers /\ SentActs(p, {"notify"}) = {}
  /\ \E o \in AnyOutcome :
       Commit(p, "notify", MAX_LAYER, 0, keys[p].key, keys[p], state[p], o)
  /\ seq' = Counted(p)
  /\ UNCHANGED <<todo, minted, handed>>

\* rekey.start, by rekey() or because the trigger is due before a send.
StartRekey(p) ==
  /\ Idle(p) \/ At(p, "ask") \/ At(p, "delete") \/ At(p, "flush")
  /\ keys[p].exchange_id = NoExchange /\ keys[p].previous_key = NoKey
  /\ \E e \in ExchangeIds[p], o \in AnyOutcome :
       /\ \A i \in SentActs(p, {"request"}) : sent[p][i].a # e
       /\ Commit(p, "request", e, 0, keys[p].key,
                 Requested(keys[p], e), "rekeying", o)
       /\ GoOn(p, o, todo[p])
  /\ seq' = Counted(p)
  /\ UNCHANGED <<minted, handed>>

(* delete_messages and flush_history withdraw retained content first, then *)
(* send the action. A message is named by its sender and raw number.       *)

Forget(p, raws) ==
  retained_out' = [retained_out EXCEPT ![p] =
                     rewrite_retained_as_deletes(@, raws, keys[p].key)]

AllRaws(p) == {RawOut(r.w) : r \in retained_out[p]}

BeginDelete(p) ==
  /\ Idle(p) /\ p \in Deleters /\ SentActs(p, {"delete", "flush"}) = {}
  /\ \E i \in SentActs(p, {"msg"}) :
       /\ Forget(p, {i - 1})
       /\ todo' = [todo EXCEPT ![p] = <<[do |-> "delete", arg |-> i - 1]>>]
  /\ UNCHANGED <<chatVars, queue_in, pending_deliveries, boot, net, history, budget>>

BeginFlush(p) ==
  /\ Idle(p) /\ p \in Deleters /\ SentActs(p, {"delete", "flush"}) = {}
  /\ Forget(p, AllRaws(p))
  /\ todo' = [todo EXCEPT ![p] = <<Do("flush")>>]
  /\ UNCHANGED <<chatVars, queue_in, pending_deliveries, boot, net, history, budget>>

SendDelete(p) ==
  /\ At(p, "delete") \/ At(p, "flush")
  /\ LET step == Head(todo[p])
     IN \E o \in AnyOutcome :
          /\ Commit(p, step.do, step.arg, 0, keys[p].key, keys[p], state[p], o)
          /\ GoOn(p, o, Tail(todo[p]))
  /\ seq' = Counted(p)
  /\ UNCHANGED <<minted, handed>>

----------------------------------------------------------------------------
(* The receive path: _on_encrypted_message *)

\* The Resend a wrapper carries is answered at once and stored as a Noop.
Stored(w) == IF w.act = "resend" THEN [w EXCEPT !.act = "noop"] ELSE w

\* What the handler still has to do after its commit, empty steps left out.
Plan(mail, answer, due, switched) ==
  (IF mail # <<>> THEN <<Do("drain")>> ELSE <<>>)
    \o (IF answer # {} THEN <<Do("retry")>> ELSE <<>>)
    \o (IF due # NoSpan THEN <<Do("ask")>> ELSE <<>>)
    \o (IF switched THEN <<Do("noop")>> ELSE <<>>)

\* Faulty variant: what has just been accepted goes first.
Bad_Mailed(box, ready) == ready \o box

\* The mailbox grows at its end.
Mailed(box, ready) == box \o ready

\* The rest of the commit, once accept has produced c and the ready run.
Receipt(p, f, c, ready) ==
  LET R == retained_out[p]
      answer == IF f.w.act = "resend" THEN answer_resend(R, f.w.a, f.w.b) ELSE {}
      kept == forget_acknowledged(p, R, c.peer_in_seq_no)
      switched == keys[p].pending_key # NoKey /\ f.key = keys[p].pending_key
      mail == Mailed(pending_deliveries[p], ready)
  IN /\ seq' = [seq EXCEPT ![p] = c]
     /\ keys' = [keys EXCEPT ![p] = retire_previous_key_if_settled(
                                      Witnessed(@, f.key), c.gap_requested)]
     /\ state' = IF switched THEN [state EXCEPT ![p] = "ready"] ELSE state
     /\ retained_out' = [retained_out EXCEPT ![p] =
          (kept \ answer) \cup {[r EXCEPT !.pending = TRUE] : r \in answer}]
     /\ pending_deliveries' = [pending_deliveries EXCEPT ![p] = mail]
     /\ todo' = [todo EXCEPT ![p] = Plan(mail, answer, c.resend_due, switched)]
     /\ UNCHANGED <<closed_reason, boot, net, history, budget>>

\* A frame the server delivers to p, or delivers again, that p can read.
Readable(p, f) == f \in net /\ f.to = p /\ f.key \in HeldKeys(keys[p])

Verdict(p, f) ==
  LET v == preflight(p, seq[p], queue_in[p], f.w)
  IN IF /\ v = "take" /\ f.w.act = "resend"
        /\ ~ Answerable(p, retained_out[p], f.w.a, f.w.b)
       THEN "unsatisfiable" ELSE v

ReceiveEarly(p, f) ==
  /\ Idle(p) /\ Readable(p, f)
  /\ Verdict(p, f) = "take" /\ RawOut(f.w) > seq[p].in_seq_no
  /\ queue_in' = [queue_in EXCEPT ![p] = @ \cup {Stored(f.w)}]
  /\ Receipt(p, f, accept_early(seq[p], f.w), <<>>)

ReceiveNext(p, f) ==
  /\ Idle(p) /\ Readable(p, f)
  /\ Verdict(p, f) = "take" /\ RawOut(f.w) = seq[p].in_seq_no
  /\ \E m \in NextMissing(queue_in[p], RawOut(f.w)) :
       /\ RunInOrder(seq[p], queue_in[p], f.w, m)
       /\ queue_in' = [queue_in EXCEPT ![p] = Waiting(@, m)]
       /\ \E first \in FirstWaiting(queue_in[p], m) :
            Receipt(p, f, accept_next(seq[p], queue_in[p], f.w, m, first),
                    Ready(queue_in[p], Stored(f.w), m))

\* Why the commit raises a fatal error, or "open" if it does not.
Refusal(p, f) ==
  LET v == Verdict(p, f)
  IN IF v \in {"sequence", "window", "unsatisfiable"} THEN v
     ELSE IF /\ v = "take" /\ RawOut(f.w) = seq[p].in_seq_no
             /\ \E m \in NextMissing(queue_in[p], RawOut(f.w)) :
                  ~ RunInOrder(seq[p], queue_in[p], f.w, m)
       THEN "sequence"
     ELSE "open"

ReceiveRefused(p, f) ==
  /\ Idle(p) /\ Readable(p, f) /\ Refusal(p, f) # "open"
  /\ CloseChat(p, Refusal(p, f))
  /\ UNCHANGED <<net, history, budget>>

\* A replay, or a frame under no key p holds: reported or ignored, not applied.
ReceiveIgnored(p, f) ==
  /\ Idle(p) /\ f \in net /\ f.to = p
  /\ f.key \notin HeldKeys(keys[p]) \/ Verdict(p, f) = "replay"
  /\ UNCHANGED vars

----------------------------------------------------------------------------
(* _drain_deliveries: the head of the mailbox is handed over, then popped  *)
(* in a commit of its own.                                                 *)

Mail(p) == Head(pending_deliveries[p])
\* The number of the head of the mailbox.
MailNumber(p) == seq[p].in_seq_no - Len(pending_deliveries[p])

\* The loop of _drain_deliveries at its next item.
Draining(p) == At(p, "drain") /\ pending_deliveries[p] # <<>>

HandOver(p) ==
  /\ todo' = [todo EXCEPT ![p] = <<Do("pop")>> \o Tail(@)]
  /\ handed' = [handed EXCEPT ![p] = MailNumber(p) + 1]

\* Content, and the actions that change no state of this side: a Noop, and a
\* deletion of the peer's own message.
DeliverPlain(p) ==
  /\ Draining(p) /\ Mail(p).act \in {"msg", "noop", "delete"}
  /\ HandOver(p)
  /\ UNCHANGED <<chatVars, storeVars, boot, net, minted, sent, budget>>

DeliverNotifyLayer(p) ==
  /\ Draining(p) /\ Mail(p).act = "notify"
  /\ seq' = [seq EXCEPT ![p].layer = raise_remote_layer(@, Mail(p).a)]
  /\ HandOver(p)
  /\ UNCHANGED <<state, closed_reason, keys, storeVars, boot, net, minted, sent, budget>>

DeliverFlush(p) ==
  /\ Draining(p) /\ Mail(p).act = "flush"
  /\ Forget(p, AllRaws(p))
  /\ HandOver(p)
  /\ UNCHANGED <<chatVars, queue_in, pending_deliveries, boot, net, minted, sent, budget>>

(* The inbound half of the exchange. An answer that cannot be sent raises  *)
(* SendPending: the action stays at the head and is handled again later.   *)

Reply(p, act, a, b, key, new, st) ==
  /\ seq' = Counted(p)
  /\ \E o \in AnyOutcome :
       /\ Commit(p, act, a, b, key, new, st, o)
       /\ IF Confirmed(o) THEN HandOver(p)
          ELSE /\ todo' = [todo EXCEPT ![p] = <<>>]
               /\ UNCHANGED handed

\* Nothing is sent and nothing saved: what the handler changes in memory is
\* saved by the pop that follows, or lost with the process before it.
Unanswered(p) ==
  /\ HandOver(p)
  /\ UNCHANGED <<chatVars, storeVars, boot, net, minted, sent, budget>>

\* _on_request's decision.
RequestOutcome(k, e) ==
  IF k.previous_key # NoKey THEN "abort"
  ELSE IF k.exchange_id = NoExchange THEN "join_theirs"
  ELSE IF k.rekey_role # "requested" THEN "abandon_theirs"
  ELSE resolve_collision(k.exchange_id, e)

DeliverRequestKey(p) ==
  LET e == Mail(p).a
      outcome == RequestOutcome(keys[p], e)
  IN /\ Draining(p) /\ Mail(p).act = "request"
     /\ \/ /\ outcome = "abort"
           /\ Reply(p, "abort", e, 0, keys[p].key, keys[p], state[p])
           /\ UNCHANGED minted
        \/ /\ outcome \in {"abandon_theirs", "abort_both"}
           /\ Unanswered(p)
        \/ /\ outcome = "join_theirs"
           /\ minted' = minted + 1
           /\ Reply(p, "accept", e, minted', keys[p].key,
                    Accepted(keys[p], e, minted'), "rekeying")

\* The commit travels under the old key; the new one is adopted with it.
AcceptMatches(k, w) == k.exchange_id = w.a /\ k.exchange_secret

DeliverAcceptKey(p) ==
  /\ Draining(p) /\ Mail(p).act = "accept"
  /\ \/ /\ ~ AcceptMatches(keys[p], Mail(p))
        /\ Unanswered(p)
     \/ /\ AcceptMatches(keys[p], Mail(p))
        /\ Reply(p, "commit", Mail(p).a, Mail(p).b, keys[p].key,
                 adopt_new_key(keys[p], Mail(p).b), "ready")
        /\ UNCHANGED minted

CommitMatches(k, w) == k.exchange_id = w.a /\ k.pending_key # NoKey

DeliverCommitKey(p) ==
  /\ Draining(p) /\ Mail(p).act = "commit"
  /\ \/ /\ ~ CommitMatches(keys[p], Mail(p))
        /\ Unanswered(p)
     \/ /\ CommitMatches(keys[p], Mail(p)) /\ keys[p].pending_key = Mail(p).b
        /\ Reply(p, "noop", 0, 0, keys[p].pending_key, Committed(keys[p]), "ready")
        /\ UNCHANGED minted
     \/ /\ CommitMatches(keys[p], Mail(p)) /\ keys[p].pending_key # Mail(p).b
        /\ CloseChat(p, "commit")
        /\ UNCHANGED <<net, history, budget>>

DeliverAbortKey(p) ==
  /\ Draining(p) /\ Mail(p).act = "abort"
  /\ Unanswered(p)

\* Whether the handler of w has ended this side's exchange without an answer.
EndsExchange(k, w) ==
  \/ w.act = "abort" /\ k.exchange_id = w.a
  \/ w.act = "request" /\ RequestOutcome(k, w.a) = "abort_both"

\* The commit that pops the head saves the whole chat record with it.
Pop(p) ==
  LET ends == EndsExchange(keys[p], Mail(p))
  IN /\ At(p, "pop") /\ pending_deliveries[p] # <<>>
     /\ pending_deliveries' = [pending_deliveries EXCEPT ![p] = Tail(@)]
     /\ keys' = IF ends THEN [keys EXCEPT ![p] = clear(@)] ELSE keys
     /\ state' = IF ends /\ state[p] = "rekeying"
                   THEN [state EXCEPT ![p] = "ready"] ELSE state
     /\ todo' = [todo EXCEPT ![p] =
                   IF Len(pending_deliveries[p]) = 1 THEN Tail(@)
                   ELSE <<Do("drain")>> \o Tail(@)]
     /\ UNCHANGED <<closed_reason, seq, queue_in, retained_out, boot, net,
                    history, budget>>

----------------------------------------------------------------------------
(* retry_pending: every pending record in turn. Any failure is raised at   *)
(* the end; _send calls it first, so a failure there also stops the send.  *)

\* Handling the head of the mailbox will send something.
WillReply(p) ==
  LET w == Mail(p)
  IN \/ w.act = "request" /\ RequestOutcome(keys[p], w.a) \in {"abort", "join_theirs"}
     \/ w.act = "accept" /\ AcceptMatches(keys[p], w)
     \/ /\ w.act = "commit" /\ CommitMatches(keys[p], w)
        /\ keys[p].pending_key = w.b

Retrying(p) ==
  \/ Idle(p)
  \/ \E step \in {"retry", "ask", "noop", "delete", "flush"} : At(p, step)
  \/ Draining(p) /\ WillReply(p)

\* The peer's side is gone: a discarded update while the lock is free, or a
\* CHAT_ENDING error from whatever RPC the running operation makes.
Discarded(p) ==
  /\ Retrying(p) /\ ~ Open(Peer(p))
  /\ CloseChat(p, "peer")
  /\ UNCHANGED <<net, history, budget>>

\* Where the operation stands when every record went.
Retried(p) == IF At(p, "retry") THEN Tail(todo[p]) ELSE todo[p]

RetryPending(p) ==
  /\ Retrying(p) /\ Pending(p) # {}
  /\ \E o \in [Pending(p) -> AnyOutcome] :
       LET fatal == {r \in Pending(p) : EndsChat(r, o[r])}
           tried == {r \in Pending(p) : \A x \in fatal :
                       r.w.out_seq_no <= x.w.out_seq_no}
           failed == {r \in tried : ~ Confirmed(o[r])}
       IN /\ faults' = faults + Cardinality({r \in Pending(p) : o[r] # "ok"})
          /\ faults' <= MaxFaults
          /\ net' = net \cup {FrameOf(p, r) : r \in {x \in tried : Arrives(o[x])}}
          /\ \/ /\ fatal = {}
                /\ retained_out' = [retained_out EXCEPT ![p] =
                     (@ \ Pending(p)) \cup
                       {Transmitted(r, o[r], keys[p].key) : r \in Pending(p)}]
                /\ todo' = [todo EXCEPT ![p] =
                              IF failed = {} THEN Retried(p) ELSE <<>>]
                /\ UNCHANGED <<chatVars, queue_in, pending_deliveries, boot>>
             \/ /\ fatal # {}
                /\ CloseChat(p, "rejected")
  /\ UNCHANGED <<history, crashes>>

\* The retry step with nothing left to retry.
RetryNothing(p) ==
  /\ At(p, "retry") /\ Pending(p) = {}
  /\ todo' = [todo EXCEPT ![p] = Tail(@)]
  /\ UNCHANGED <<chatVars, storeVars, boot, net, history, budget>>

----------------------------------------------------------------------------
(* _request_due_resend: ask only for what is still missing *)

MissingFrom(c) ==
  LET now == 2 * c.in_seq_no + (c.resend_due.start % 2)
  IN IF now > c.resend_due.start THEN now ELSE c.resend_due.start

Ask(p) ==
  LET due == seq[p].resend_due
  IN /\ At(p, "ask")
     /\ IF due = NoSpan \/ MissingFrom(seq[p]) > due.end
          THEN /\ seq' = [seq EXCEPT ![p].resend_due = NoSpan]
               /\ todo' = [todo EXCEPT ![p] = Tail(@)]
               /\ UNCHANGED <<state, closed_reason, keys, storeVars, boot, net,
                              history, budget>>
        ELSE /\ \E o \in AnyOutcome :
                  /\ Commit(p, "resend", MissingFrom(seq[p]), due.end,
                            keys[p].key, keys[p], state[p], o)
                  /\ GoOn(p, o, Tail(todo[p]))
             /\ seq' = [Counted(p) EXCEPT ![p].resend_due = NoSpan]
             /\ UNCHANGED <<minted, handed>>

\* The Noop that tells the peer of the switch a frame of its own caused.
ConfirmSwitch(p) ==
  /\ At(p, "noop")
  /\ \E o \in AnyOutcome :
       /\ Commit(p, "noop", 0, 0, keys[p].key, keys[p], state[p], o)
       /\ GoOn(p, o, Tail(todo[p]))
  /\ seq' = Counted(p)
  /\ UNCHANGED <<minted, handed>>

----------------------------------------------------------------------------
(* The process dies between two steps; start() subscribes again and then   *)
(* resumes the chat: its mailbox, then its pending records and its request.*)

Bad_Crash_mailbox(p) ==
  /\ Up(p) /\ crashes < MaxCrashes
  /\ crashes' = crashes + 1
  /\ boot' = [boot EXCEPT ![p] = "down"]
  /\ todo' = [todo EXCEPT ![p] = <<>>]
  /\ pending_deliveries' = [pending_deliveries EXCEPT ![p] = <<>>]
  /\ UNCHANGED <<chatVars, queue_in, retained_out, net, history, faults>>

Crash(p) ==
  /\ Up(p) /\ crashes < MaxCrashes
  /\ crashes' = crashes + 1
  /\ boot' = [boot EXCEPT ![p] = "down"]
  /\ todo' = [todo EXCEPT ![p] = <<>>]
  /\ UNCHANGED <<chatVars, storeVars, net, history, faults>>

Start(p) ==
  /\ boot[p] = "down"
  /\ boot' = [boot EXCEPT ![p] = IF Open(p) THEN "drain" ELSE "done"]
  /\ UNCHANGED <<chatVars, storeVars, todo, net, history, budget>>

ResumeDelivery(p) ==
  /\ Idle(p) /\ boot[p] = "drain"
  /\ boot' = [boot EXCEPT ![p] = "work"]
  /\ todo' = [todo EXCEPT ![p] = Plan(pending_deliveries[p], {}, NoSpan, FALSE)]
  /\ UNCHANGED <<chatVars, storeVars, net, history, budget>>

ResumeWork(p) ==
  /\ Idle(p) /\ boot[p] = "work"
  /\ boot' = [boot EXCEPT ![p] = "done"]
  /\ todo' = [todo EXCEPT ![p] =
                Plan(<<>>, Pending(p), seq[p].resend_due, FALSE)]
  /\ UNCHANGED <<chatVars, storeVars, net, history, budget>>

----------------------------------------------------------------------------

Application(p) ==
  \/ SendMessage(p) \/ NotifyLayer(p) \/ StartRekey(p)
  \/ BeginDelete(p) \/ BeginFlush(p) \/ SendDelete(p) \/ Close(p)

Receive(p) ==
  \/ \E f \in net : \/ ReceiveNext(p, f) \/ ReceiveEarly(p, f)
                    \/ ReceiveRefused(p, f) \/ ReceiveIgnored(p, f)
  \/ Discarded(p)

Drain(p) ==
  \/ DeliverPlain(p) \/ DeliverNotifyLayer(p) \/ DeliverFlush(p)
  \/ DeliverRequestKey(p) \/ DeliverAcceptKey(p)
  \/ DeliverCommitKey(p) \/ DeliverAbortKey(p)
  \/ Pop(p)

Work(p) ==
  \/ RetryPending(p) \/ RetryNothing(p)
  \/ Ask(p) \/ ConfirmSwitch(p)

Lifecycle(p) ==
  \/ Crash(p) \/ Start(p) \/ ResumeDelivery(p) \/ ResumeWork(p)

Next == \E p \in Side :
  Application(p) \/ Receive(p) \/ Drain(p) \/ Work(p) \/ Lifecycle(p)

Spec == Init /\ [][Next]_vars

(***************************************************************************)
(* Fairness: the event loop runs what is ready, a stopped process is       *)
(* started again, the server delivers what it holds, and the application   *)
(* calls retry_pending. Nothing obliges anyone to send, to rekey or to end *)
(* the chat, and a crash or a failed RPC is never owed.                    *)
(***************************************************************************)
Applied(p) == \E f \in net : ReceiveNext(p, f) \/ ReceiveEarly(p, f)
Recovery(p) == Start(p) \/ ResumeDelivery(p) \/ ResumeWork(p)

----------------------------------------------------------------------------
(* Properties *)

\* Every variable keeps its type; a closed chat has a reason.
TypeOK ==
  /\ state \in [Side -> {"ready", "rekeying", "closed"}]
  /\ closed_reason \in [Side -> Reasons]
  /\ seq \in [Side -> SeqState]
  /\ keys \in [Side -> KeyState]
  /\ queue_in \in [Side -> SUBSET Wrapper]
  /\ retained_out \in [Side -> SUBSET Item]
  /\ \A p \in Side : IsFiniteSet(retained_out[p])
  /\ pending_deliveries \in [Side -> Seq(Wrapper)]
  /\ todo \in [Side -> Seq(Step)]
  /\ boot \in [Side -> {"down", "drain", "work", "done"}]
  /\ net \subseteq Frame
  /\ minted \in Nat
  /\ sent \in [Side -> Seq([act : Acts, a : Nat, b : Nat])]
  /\ handed \in [Side -> Nat]
  /\ faults \in 0 .. MaxFaults
  /\ crashes \in 0 .. MaxCrashes

\* Two sides that both follow the rules never refuse each other: no wrapper
\* fails preflight's order checks and no Resend asks for a record that has
\* been dropped, whatever is delayed, repeated, lost or interrupted.
NeverRefused ==
  \A p \in Side : closed_reason[p] \notin {"sequence", "unsatisfiable"}

\* The retained outbox keeps every message the peer has not yet processed,
\* so whatever hole the peer finds can be filled.
NothingForgottenEarly ==
  \A p \in Side : Open(p) =>
    \A n \in seq[Peer(p)].in_seq_no .. (seq[p].out_seq_no - 1) :
      \E r \in retained_out[p] : RawOut(r.w) = n

\* What a side passes on is what its peer committed, number by number; only
\* content may have become the deletion of itself.
Faithful(w, said) ==
  \/ w.act = said.act /\ w.a = said.a /\ w.b = said.b
  \/ said.act = "msg" /\ w.act = "delete" /\ w.a = RawOut(w)
  \/ said.act = "resend" /\ w.act = "noop"

MailboxFaithful ==
  \A p \in Side : \A i \in DOMAIN pending_deliveries[p] :
    LET w == pending_deliveries[p][i]
        n == MailNumber(p) + i - 1
    IN RawOut(w) = n /\ Faithful(w, sent[Peer(p)][n + 1])

\* Nothing leaves the mailbox before it is handed over, and nothing but the
\* head is handed over: at least once, in order, across crashes.
AtLeastOnceInOrder ==
  \A p \in Side : Open(p) => handed[p] \in {MailNumber(p), MailNumber(p) + 1}

\* A message that was deleted, or flushed, is not retained any more: whatever is
\* retried or resent later, its content is not.
DeletedIsWithdrawn ==
  \A p \in Side : \A r \in retained_out[p] : r.w.act = "msg" =>
    /\ \A i \in SentActs(p, {"delete"}) : sent[p][i].a # RawOut(r.w)
    /\ \A i \in SentActs(p, {"flush"}) : i - 1 < RawOut(r.w)

\* Every frame a side may still need can be read: it is under a key that its
\* receiver holds (the two-key window of rekey.py).
StillNeeded(p, w) ==
  /\ RawOut(w) >= seq[p].in_seq_no
  /\ \A x \in queue_in[p] : RawOut(x) # RawOut(w)

FramesReadable ==
  \A p \in Side : Open(p) =>
    /\ \A f \in net : f.to = p /\ StillNeeded(p, f.w) =>
         f.key \in HeldKeys(keys[p])
    /\ \A r \in retained_out[Peer(p)] : StillNeeded(p, r.w) =>
         r.key \in HeldKeys(keys[p])

\* The chat is rekeying exactly while it holds an exchange, and the material
\* it holds is that of its role (every transition_to of an exchange is legal).
ExchangeMatchesState ==
  \A p \in Side :
    /\ state[p] = "rekeying" <=> keys[p].exchange_id # NoExchange
    /\ keys[p].exchange_id # NoExchange <=> keys[p].rekey_role # "none"
    /\ keys[p].pending_key # NoKey <=> keys[p].rekey_role = "accepted"
    /\ keys[p].exchange_secret <=> keys[p].rekey_role = "requested"

\* Two sides that hold one key each and no exchange hold the same key.
SettledKeysAgree ==
  (\A p \in Side : Open(p) /\ keys[p].exchange_id = NoExchange
                            /\ keys[p].previous_key = NoKey)
    => keys["alice"].key = keys["bob"].key

\* What a side sends next is under a key that its peer holds, whatever has become
\* of the exchanges between them (select_key in rekey.py).
SendKeyHeld ==
  \A p \in Side : Open(p) /\ Open(Peer(p)) =>
    keys[Peer(p)].key \in HeldKeys(keys[p])

\* An accepted exchange can still end: its requester waits for the answer, or
\* has already switched to the key this side holds for it.
AcceptedCanComplete ==
  \A p \in Side :
    (Open(p) /\ Open(Peer(p)) /\ keys[p].rekey_role = "accepted") =>
      \/ keys[Peer(p)].exchange_id = keys[p].exchange_id
      \/ keys[Peer(p)].key = keys[p].pending_key

\* A fingerprint mismatch at CommitKey never ends a chat of two honest sides.
NoFalseMismatch == \A p \in Side : closed_reason[p] # "commit"

\* An exchange that has begun ends: neither side stays in it for ever.
ExchangeEnds == \A p \in Side : state[p] = "rekeying" ~> state[p] # "rekeying"

----------------------------------------------------------------------------
(* The abstract dialogue *)

\* What the application at p is being given: the head, until its pop.
BeingGiven(p) ==
  IF Open(p) /\ todo[p] # <<>> /\ Head(todo[p]).do = "pop" THEN {Mail(p)} ELSE {}

Reads(w, said, n) == RawOut(w) = n - 1 /\ Faithful(w, said)

Talk == INSTANCE Dialogue WITH
  said <- sent,
  heard <- handed,
  given <- [p \in Side |-> BeingGiven(p)],
  ended <- {p \in Side : ~ Open(p)}

\* Underneath all faults the chat is a dialogue: what either application is given
\* is what the other said, number by number, and only the last message comes
\* again (_drain_deliveries and everything that fills its mailbox).
ImplementsDialogue == Talk!Spec
============================================================================
