----------------------------- MODULE Transient -----------------------------
(* The transient manager: keys and counters of a chat are on disk in a       *)
(* protected envelope, its frames and its mailbox only in memory.  A chat    *)
(* whose memory can no longer be trusted is suspended, for good: after a     *)
(* failure, a deadline, a lost budget, a stop, and at every start.           *)
EXTENDS Naturals, FiniteSets

CONSTANTS
  Rooms,          \* chats that may come to exist
  TaskSlots,        \* task slots: limits.tasks
  RecordLimit,    \* limits.records
  ChatLimit,      \* limits.chats
  AttemptLimit,   \* limits.attempts
  MaxSent,        \* bound: messages sent in one chat
  MaxFrames,      \* bound: updates from the server
  MaxLives        \* bound: crashes and stops

ASSUME TransientLimits ==
  /\ RecordLimit \in Nat \ {0} /\ ChatLimit \in Nat \ {0} /\ AttemptLimit \in Nat \ {0}
  /\ IsFiniteSet(TaskSlots) /\ TaskSlots # {}
  /\ "none" \notin Rooms

VARIABLES
  phase,       \* "down", "running", "draining" (stop under way), "stuck" (it failed)
  listening,   \* a MessageReceived handler is registered
  known,       \* _chats
  suspended,   \* TransientStorage.suspended
  envelope,    \* on disk: chat -> [sent, suspended], of the chats saved so far
  counter,     \* chat.out_seq_no
  retained,    \* RAM: chat -> [slot -> attempts], the outbox
  mail,        \* RAM: chat -> records in the mailbox
  tasks,       \* _owned and _handler_tasks: worker -> task or Idle
  served,      \* chat -> slots the server took
  condemned,   \* history: chats that were suspended, or open when the process died
  unwritten,     \* history: chats whose suspension could not be written
  frames, lives

manager == <<phase, listening, lives>>
memory == <<known, counter, retained, mail>>
refusal == <<suspended, envelope, condemned, unwritten>>
transientVars == <<manager, memory, refusal, tasks, served, frames>>

Idle == [kind |-> "idle", room |-> "none", stage |-> "none", cancelled |-> FALSE, stale |-> FALSE]
Task(kind, room, stage) ==
  [kind |-> kind, room |-> room, stage |-> stage, cancelled |-> FALSE, stale |-> FALSE]
Alive(ts) == {w \in TaskSlots : ts[w] # Idle}
Spare(ts) == TaskSlots \ Alive(ts)
Ended(w) == [tasks EXCEPT ![w] = Idle]
Staged(w, stage) == [tasks EXCEPT ![w].stage = stage]

\* Holds of the chat lock: one protocol step at a time in each chat.
Locked(c) == \E w \in TaskSlots : tasks[w].room = c /\ tasks[w].stage \in {"rpc", "resend", "drain"}

Held(c) == Cardinality(DOMAIN retained[c]) + mail[c]
count == Cardinality(UNION {{<<c, i>> : i \in 1 .. Held(c)} : c \in known})

\* check_limits, after a transaction that adds `n` records
check_limits(n) == count + n <= RecordLimit

\* _require, and through it _check_current, save, queue_out and queue_in
Bad_Permitted(c) == c \in known
Permitted(c) == c \in known /\ c \notin suspended

\* _generation moved on: a create under way is too late, and so is a send that
\* waits for its turn in the outbound lock.
Overtaken(ts) ==
  [w \in TaskSlots |->
     IF \/ ts[w].kind = "create"
        \/ ts[w].kind = "send" /\ ts[w].stage = "scheduled" /\ Locked(ts[w].room)
     THEN [ts[w] EXCEPT !.stale = TRUE] ELSE ts[w]]

-----------------------------------------------------------------------------
\* _emit with a registered handler: one more task, when a worker is free
Emitted(ts, task) ==
  {[ts EXCEPT ![w] = task] : w \in IF listening /\ phase = "running" THEN Spare(ts) ELSE {}}

\* _suspend(c), with `ts` the tasks after what else the step did.  Memory refuses
\* first; a failed write rolls the purge back and leaves the chat refused.
Cancel(ts, c, own) ==
  [w \in TaskSlots |->
     IF ts[w].room = c /\ w # own /\ ts[w].stage # "stopping"
     THEN [ts[w] EXCEPT !.cancelled = TRUE] ELSE ts[w]]

Suspend(c, own, ts) ==
  /\ IF c \notin known \ suspended
     THEN tasks' = ts /\ UNCHANGED <<refusal, retained, mail>>
     ELSE \E saved \in BOOLEAN :
       /\ suspended' = suspended \cup {c}
       /\ condemned' = condemned \cup {c}
       /\ IF saved
          THEN /\ retained' = [retained EXCEPT ![c] = <<>>]
               /\ mail' = [mail EXCEPT ![c] = 0]
               /\ envelope' = [envelope EXCEPT ![c].suspended = TRUE]
               /\ unwritten' = unwritten
               /\ LET cleared == Cancel(ts, c, own)
                      told == Emitted(cleared, Task("diagnostic", "none", "scheduled"))
                  IN tasks' \in IF told = {} THEN {cleared} ELSE told
          ELSE /\ unwritten' = unwritten \cup {c}
               /\ tasks' = Cancel(ts, c, own)
               /\ UNCHANGED <<retained, mail, envelope>>
  /\ UNCHANGED <<known, counter>>

-----------------------------------------------------------------------------
\* create, in a worker of its own: the chat limit is looked at before the RPC,
\* and again by the commit.
RequestChat(w) ==
  /\ phase = "running" /\ w \in Spare(tasks)
  /\ Cardinality(known) < ChatLimit
  /\ \E c \in Rooms \ (known \cup DOMAIN envelope) :
       /\ \A v \in TaskSlots : ~(tasks[v].kind = "create" /\ tasks[v].room = c)
       /\ tasks' = [tasks EXCEPT ![w] = Task("create", c, "request")]
  /\ UNCHANGED <<manager, memory, refusal, served, frames>>

\* The answer to the request.  A timed-out create (another generation) and a full
\* store refuse; a failed write leaves no chat either.
ChatCreated(w) ==
  /\ tasks[w].kind = "create"
  /\ tasks' = Ended(w)
  /\ LET c == tasks[w].room
         fits == ~tasks[w].stale /\ Cardinality(known) < ChatLimit
     IN \E saved \in BOOLEAN :
           IF fits /\ saved
           THEN /\ known' = known \cup {c}
                /\ envelope' = [d \in DOMAIN envelope \cup {c} |->
                     IF d = c THEN [sent |-> 0, suspended |-> FALSE] ELSE envelope[d]]
           ELSE UNCHANGED <<known, envelope>>
  /\ UNCHANGED <<manager, counter, retained, mail, suspended, condemned, unwritten,
                 served, frames>>

-----------------------------------------------------------------------------
\* send_message and the other public operations: _execute admits the call
AdmitSend(w, c) ==
  /\ phase = "running" /\ w \in Spare(tasks) /\ Permitted(c)
  /\ counter[c] < MaxSent
  /\ tasks' = [tasks EXCEPT ![w] = Task("send", c, "scheduled")]
  /\ UNCHANGED <<manager, memory, refusal, served, frames>>

\* _send: one transaction takes the slot, retains the frame and saves the counter,
\* and the RPC leaves without another await.  A call by a running callback is the
\* same, in the callback's own task.
SendFrame(w) ==
  LET c == tasks[w].room IN
  /\ \/ tasks[w].kind = "send" /\ tasks[w].stage = "scheduled"
     \/ tasks[w].kind = "callback" /\ tasks[w].stage = "handler"
  /\ ~Locked(c)
  /\ counter[c] < MaxSent
  /\ IF Permitted(c) /\ phase = "running" /\ ~tasks[w].stale /\ check_limits(1)
     THEN \/ /\ retained' = [retained EXCEPT ![c] =
                  [s \in DOMAIN @ \cup {counter[c]} |-> IF s \in DOMAIN @ THEN @[s] ELSE 1]]
             /\ counter' = [counter EXCEPT ![c] = @ + 1]
             /\ envelope' = [envelope EXCEPT ![c].sent = counter[c] + 1]
             /\ tasks' = Staged(w, "rpc")
             /\ UNCHANGED <<known, mail, suspended, condemned, unwritten>>
          \/ Suspend(c, w, Ended(w))  \* the write failed
     ELSE Suspend(c, w, Ended(w))
  /\ UNCHANGED <<manager, served, frames>>

\* The RPC of the newest frame returns.  Taken, the frame is marked sent if it is
\* still retained; a chat suspended meanwhile refuses even that.
SendAnswered(w) ==
  LET c == tasks[w].room IN
  /\ tasks[w].stage = "rpc"
  /\ served' = [served EXCEPT ![c] = @ \cup {counter[c] - 1}]
  /\ tasks' = IF tasks[w].kind = "callback" /\ Permitted(c) THEN Staged(w, "handler") ELSE Ended(w)
  /\ UNCHANGED <<manager, memory, refusal, frames>>

\* The RPC fails, or its outcome is unknown: no retry is promised, the chat stops.
SendFailed(w) ==
  LET c == tasks[w].room IN
  /\ tasks[w].stage \in {"rpc", "resend"}
  /\ Suspend(c, w, Ended(w))
  /\ served' \in {served, [served EXCEPT ![c] = @ \cup
       IF tasks[w].stage = "rpc" THEN {counter[c] - 1} ELSE {}]}
  /\ UNCHANGED <<manager, frames>>

-----------------------------------------------------------------------------
\* _on_update: without a free worker, and for a frame over its budget, the chat
\* cannot take what the server will not send again.
TakeUpdate(c) ==
  /\ phase = "running" /\ Permitted(c) /\ frames < MaxFrames
  /\ frames' = frames + 1
  /\ \/ \E w \in Spare(tasks), kind \in {"message", "acknowledge", "resend", "ending"} :
          /\ tasks' = [tasks EXCEPT ![w] = Task(kind, c, "scheduled")]
          /\ UNCHANGED <<memory, refusal>>
     \/ Suspend(c, "none", tasks)  \* no worker, too large, or not to be decrypted
  /\ UNCHANGED <<manager, served>>

\* The receive transaction.  An ending, a peer's deletion and whatever raises
\* suspend; a message goes to the mailbox; an acknowledgement drops the frames.
ApplyFrame(w) ==
  LET c == tasks[w].room IN
  /\ tasks[w].stage = "scheduled" /\ tasks[w].kind \in {"message", "acknowledge", "resend", "ending"}
  /\ ~Locked(c)
  /\ IF \/ ~Permitted(c) \/ phase # "running" \/ tasks[w].kind = "ending"
        \/ tasks[w].kind = "message" /\ ~check_limits(1)
     THEN Suspend(c, w, Ended(w))
     ELSE \/ /\ tasks[w].kind = "message"
             /\ mail' = [mail EXCEPT ![c] = @ + 1]
             /\ tasks' = Staged(w, "drain")
             /\ UNCHANGED <<known, counter, retained, refusal>>
          \/ /\ tasks[w].kind = "acknowledge"
             /\ retained' = [retained EXCEPT ![c] = <<>>]
             /\ tasks' = Ended(w)
             /\ UNCHANGED <<known, counter, mail, refusal>>
          \/ /\ tasks[w].kind = "resend" /\ DOMAIN retained[c] # {}
             /\ tasks' = Staged(w, "resend")
             /\ UNCHANGED <<memory, refusal>>
          \/ tasks[w].kind = "resend" /\ DOMAIN retained[c] = {} /\ Suspend(c, w, Ended(w))
          \/ Suspend(c, w, Ended(w))  \* the write failed
  /\ UNCHANGED <<manager, served, frames>>

\* _transmit of a retained frame again: no more than `attempts` times
Resend(w) ==
  LET c == tasks[w].room IN
  /\ tasks[w].stage = "resend"
  /\ \/ /\ Permitted(c) /\ DOMAIN retained[c] # {}
        /\ \A s \in DOMAIN retained[c] : retained[c][s] < AttemptLimit
        /\ retained' = [retained EXCEPT ![c] = [s \in DOMAIN @ |-> @[s] + 1]]
        /\ served' = [served EXCEPT ![c] = @ \cup DOMAIN retained[c]]
        /\ tasks' = Ended(w)
        /\ UNCHANGED <<known, counter, mail, refusal>>
     \/ /\ ~Permitted(c) \/ \E s \in DOMAIN retained[c] : retained[c][s] >= AttemptLimit
        /\ Suspend(c, w, Ended(w))
        /\ UNCHANGED served
  /\ UNCHANGED <<manager, frames>>

\* _deliver: each handler gets a task.  Without a handler, or without a worker
\* for it, the message has nowhere to go.
Deliver(w) ==
  LET c == tasks[w].room
      called == Emitted(Ended(w), Task("callback", c, "scheduled"))
  IN
  /\ tasks[w].stage = "drain"
  /\ \/ /\ Permitted(c) /\ called # {}
        /\ tasks' \in called
        /\ mail' = [mail EXCEPT ![c] = @ - 1]
        /\ UNCHANGED <<known, counter, retained, refusal>>
     \/ /\ ~Permitted(c) \/ called = {}
        /\ Suspend(c, w, Ended(w))
     \/ Suspend(c, w, Ended(w))  \* the write failed
  /\ UNCHANGED <<manager, served, frames>>

-----------------------------------------------------------------------------
\* _callback, in its own task: refused when its chat is, before the handler runs
Enter(w) ==
  LET c == tasks[w].room IN
  /\ tasks[w].kind \in {"callback", "diagnostic"} /\ tasks[w].stage = "scheduled"
  /\ IF phase = "running" /\ (tasks[w].kind = "callback" => Permitted(c))
     THEN tasks' = Staged(w, "handler") /\ UNCHANGED <<memory, refusal>>
     ELSE Suspend(c, w, Ended(w))
  /\ UNCHANGED <<manager, served, frames>>

\* The handler returns; or it raises or passes its deadline, and its chat stops.
HandlerEnds(w) ==
  /\ tasks[w].stage = "handler"
  /\ \/ tasks' = Ended(w) /\ UNCHANGED <<memory, refusal>>
     \/ Suspend(tasks[w].room, w, Ended(w))
  /\ UNCHANGED <<manager, served, frames>>

\* Cancelled code that does not resist ends at its await.
Yield(w) ==
  /\ tasks[w].cancelled
  /\ Suspend(tasks[w].room, w, Ended(w))
  /\ UNCHANGED <<manager, served, frames>>

\* The deadline of _execute: the chat stops, or the generation moves on so that
\* a create cannot finish late; the child is cancelled.
Deadline(w) ==
  /\ tasks[w].kind \notin {"idle", "callback", "diagnostic"} /\ ~tasks[w].cancelled
  /\ LET late == [tasks EXCEPT ![w].cancelled = TRUE] IN
     IF tasks[w].kind = "create"
     THEN tasks' = Overtaken(late) /\ UNCHANGED <<memory, refusal>>
     ELSE Suspend(tasks[w].room, "none", late)
  /\ UNCHANGED <<manager, served, frames>>

\* _expire, and the same check in _require: a record outlived retention_seconds
Expire(c) ==
  /\ phase = "running" /\ Permitted(c) /\ Held(c) > 0
  /\ Suspend(c, "none", tasks)
  /\ UNCHANGED <<manager, served, frames>>

\* close, and everything else the peer or the application ends a chat with
Close(c) ==
  /\ phase # "down" /\ Permitted(c)
  /\ Suspend(c, "none", tasks)
  /\ UNCHANGED <<manager, served, frames>>

-----------------------------------------------------------------------------
\* stop(): refuse new work and cancel what is owned, except the handlers that
\* called stop themselves.
BeginStop ==
  /\ phase \in {"running", "stuck"}
  /\ phase = "running" => lives > 0
  /\ phase' = "draining"
  /\ lives' = IF phase = "running" THEN lives - 1 ELSE lives
  /\ \E callers \in SUBSET {w \in TaskSlots : tasks[w].stage = "handler"} :
       tasks' = Overtaken([w \in TaskSlots |->
         IF tasks[w] = Idle THEN Idle
         ELSE IF w \in callers \/ tasks[w].stage = "stopping" THEN [tasks[w] EXCEPT !.stage = "stopping"]
         ELSE [tasks[w] EXCEPT !.cancelled = TRUE]])
  /\ UNCHANGED <<listening, memory, refusal, served, frames>>

Drained == \A w \in TaskSlots : tasks[w] = Idle \/ tasks[w].stage = "stopping"

\* cancel_owned ran out of cleanup_seconds: reported, and nothing else is done
Incomplete ==
  /\ phase = "draining" /\ ~Drained
  /\ phase' = "stuck"
  /\ UNCHANGED <<listening, lives, memory, refusal, tasks, served,
                 frames>>

\* The rest of _finish_stop: every chat is suspended, one write each
FinishStop ==
  /\ phase = "draining" /\ Drained
  /\ IF known \subseteq suspended
     THEN phase' = "down" /\ UNCHANGED <<memory, refusal, tasks>>
     ELSE /\ \E c \in known \ suspended : Suspend(c, "none", tasks)
          /\ phase' = IF unwritten' = unwritten THEN "draining" ELSE "stuck"
  /\ UNCHANGED <<listening, lives, served, frames>>

\* A handler that called stop() goes on when it has ended, either way.
StopReturns(w) ==
  /\ tasks[w].stage = "stopping" /\ phase # "draining"
  /\ tasks' = Ended(w)
  /\ UNCHANGED <<manager, memory, refusal, served, frames>>

\* start(): nothing of the last life may be running; every envelope is loaded
\* and its chat suspended, and the flags are written in one transaction.
Bad_Reconstructed == {c \in DOMAIN envelope : envelope[c].suspended}
Reconstructed == DOMAIN envelope

Start ==
  /\ phase = "down" /\ Alive(tasks) = {}
  /\ known' = DOMAIN envelope
  /\ counter' = [c \in Rooms |-> IF c \in DOMAIN envelope THEN envelope[c].sent ELSE 0]
  /\ retained' = [c \in Rooms |-> <<>>]
  /\ mail' = [c \in Rooms |-> 0]
  /\ suspended' = suspended \cup Reconstructed
  /\ condemned' = condemned \cup Reconstructed
  /\ \E saved \in BOOLEAN :
       /\ phase' = IF saved THEN "running" ELSE "down"
       /\ envelope' = IF ~saved THEN envelope
            ELSE [c \in DOMAIN envelope |-> [envelope[c] EXCEPT !.suspended = c \in suspended']]
  /\ UNCHANGED <<listening, lives, unwritten, tasks, served, frames>>

\* The process dies; only the envelopes are left.
ProcessDies ==
  /\ phase # "down" /\ lives > 0
  /\ lives' = lives - 1 /\ phase' = "down"
  /\ tasks' = [w \in TaskSlots |-> Idle]
  /\ known' = {} /\ suspended' = {} /\ unwritten' = {}
  /\ counter' = [c \in Rooms |-> 0]
  /\ retained' = [c \in Rooms |-> <<>>]
  /\ mail' = [c \in Rooms |-> 0]
  /\ condemned' = condemned \cup known
  /\ UNCHANGED <<listening, envelope, served, frames>>

-----------------------------------------------------------------------------
TransientInit ==
  /\ phase = "down" /\ listening \in BOOLEAN
  /\ known = {} /\ suspended = {} /\ condemned = {} /\ unwritten = {}
  /\ envelope = <<>>
  /\ counter = [c \in Rooms |-> 0]
  /\ retained = [c \in Rooms |-> <<>>]
  /\ mail = [c \in Rooms |-> 0]
  /\ tasks = [w \in TaskSlots |-> Idle]
  /\ served = [c \in Rooms |-> {}]
  /\ frames = 0 /\ lives = MaxLives

TransientNext ==
  \/ \E w \in TaskSlots :
       \/ RequestChat(w) \/ ChatCreated(w)
       \/ \E c \in Rooms : AdmitSend(w, c)
       \/ SendFrame(w) \/ SendAnswered(w) \/ SendFailed(w)
       \/ ApplyFrame(w) \/ Resend(w) \/ Deliver(w)
       \/ Enter(w) \/ HandlerEnds(w) \/ Yield(w) \/ Deadline(w) \/ StopReturns(w)
  \/ \E c \in Rooms : TakeUpdate(c) \/ Expire(c) \/ Close(c)
  \/ BeginStop \/ Incomplete \/ FinishStop \/ Start \/ ProcessDies

-----------------------------------------------------------------------------
\* A chat once refused stays quiet: after a suspension, a stop or a crash no slot
\* of it is taken again, although cancelled code may go on and processes restart.
QuietForGood ==
  [][\A c \in condemned \cap DOMAIN envelope : envelope'[c].sent = envelope[c].sent]_transientVars

\* The server never holds a frame whose predecessor the peer can never get: a slot
\* lost with the memory, or to a failed RPC, ends the chat.
NoLostSlot == \A c \in Rooms : \A s \in served[c] : 0 .. s \subseteq served[c]

\* A suspended chat leaves no frame and no message in memory, whatever its other
\* tasks were doing, unless the suspension itself could not be written.
NothingLeftBehind == \A c \in (suspended \cap known) \ unwritten : Held(c) = 0

TransientSpec == TransientInit /\ [][TransientNext]_transientVars
=============================================================================
