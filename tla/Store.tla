-------------------------------- MODULE Store ------------------------------
(***************************************************************************)
(* FileStorage under the manager's atomic blocks (storage/__init__.py,     *)
(* locking.py, temporary.py). Each process has a store of its own; the     *)
(* stores share a directory, and so each other's temporary files.          *)
(*                                                                         *)
(* A store is the record of one chat (its two counters, or none) and its   *)
(* two queues, each a set of sequence numbers.                             *)
(***************************************************************************)
EXTENDS Naturals, Sequences

CONSTANTS
  Process,    \* the processes, each with its own store
  Pids,       \* the process ids the system hands out
  MaxNumber,  \* [Process -> Nat]: how far the counters of its chat go
  MaxDeaths   \* how many times a process may die

ASSUME StoreAssumption ==
  /\ MaxNumber \in [Process -> Nat]
  /\ \E f \in [Process -> Pids] : \A p, q \in Process : f[p] = f[q] => p = q

VARIABLES
  disk,      \* the file that os.replace last put in place
  state,     \* _state
  snapshot,  \* _snapshot
  entity,    \* the SecretChat in _chats: its counters, or NoRecord
  previous,  \* _atomic's copy of it
  todo,      \* what the open block has still to do
  stage,     \* "idle", "open", "temp", "filled", or "dead"
  pid,       \* os.getpid()
  temps,     \* the temporary files in the directory, by their owner's pid
  active,    \* _active: the process registers its own file
  deaths

block == <<state, snapshot, entity, previous, todo>>
storeVars == <<disk, block, stage, pid, temps, active, deaths>>

NoRecord == [open |-> FALSE, out |-> 0, in |-> 0]
Empty == [record |-> NoRecord, out |-> {}, in |-> {}]
None == <<>>  \* Python's None: no snapshot, no copy
Number(p) == 1 .. MaxNumber[p]

----------------------------------------------------------------------------
(* The operations of StorageBackend, on a state *)

Save(s, r) == [s EXCEPT !.record = r]
QueueOut(s, n) == [s EXCEPT !.out = @ \cup {n}]
DropOut(s, n) == [s EXCEPT !.out = {m \in @ : m > n}]
QueueIn(s, n) == [s EXCEPT !.in = @ \cup {n}]
TakeIn(s) == [s EXCEPT !.in = {}]
RequeueIn(s, waiting) == [s EXCEPT !.in = @ \cup waiting]
Delete(s) == Empty

\* One call inside a block. `chat` is the entity: it changes before it is saved.
Apply(op, s, chat) ==
  CASE op.call = "queue_out" -> QueueOut(s, chat.out)
    [] op.call = "drop_out" -> DropOut(s, op.n)
    [] op.call = "queue_in" -> QueueIn(s, op.n)
    [] op.call = "take_in" -> TakeIn(s)
    [] op.call = "requeue_in" -> RequeueIn(s, {m \in op.held : m > chat.in})
    [] op.call = "delete" -> Delete(s)
    [] op.call = "save" -> Save(s, chat)
    [] OTHER -> s

\* What the code of the block does to the entity meanwhile.
Entity(op, chat) ==
  CASE op.call = "queue_out" -> [chat EXCEPT !.out = @ + 1]
    [] op.call = "take_in" -> [chat EXCEPT !.in = op.n]
    [] op.call = "close" -> [chat EXCEPT !.open = FALSE]
    [] op.call = "create" -> [NoRecord EXCEPT !.open = TRUE]
    [] op.call = "forget" -> NoRecord
    [] OTHER -> chat

Call(name) == [call |-> name, n |-> 0, held |-> {}]
CallN(name, n) == [Call(name) EXCEPT !.n = n]

\* The blocks of the manager, by the number they are about: a send, an acknowledgement, an early message, a run
\* of messages that closes a hole, the end of a chat, its creation and removal.
BlockOps(b, s) ==
  CASE b.kind = "send" -> <<Call("queue_out"), Call("save")>>
    [] b.kind = "ack" -> <<CallN("drop_out", b.n), Call("save")>>
    [] b.kind = "early" -> <<CallN("queue_in", b.n), Call("save")>>
    [] b.kind = "run" -> <<CallN("take_in", b.n),
                           [Call("requeue_in") EXCEPT !.held = s.in], Call("save")>>
    [] b.kind = "close" -> <<Call("close"), Call("delete"), Call("save")>>
    [] b.kind = "create" -> <<Call("create"), Call("save")>>
    [] b.kind = "remove" -> <<Call("delete"), Call("forget")>>
    [] OTHER -> <<>>

BlocksOf(p) == [kind : {"send", "ack", "early", "run", "close", "create", "remove"},
                n : Number(p)]
Blocks == UNION {BlocksOf(p) : p \in Process}

\* The code's reasons for a block.
Allowed(b, s) ==
  LET r == s.record
  IN CASE b.kind = "send" -> r.open /\ b.n = r.out + 1
       [] b.kind = "ack" -> r.open /\ b.n <= r.out
       [] b.kind = "early" -> r.open /\ b.n > r.in + 1
       [] b.kind = "run" -> r.open /\ b.n = r.in + 1
       [] b.kind = "close" -> r.open
       [] b.kind = "create" -> r = NoRecord
       [] b.kind = "remove" -> ~ r.open /\ r # NoRecord
       [] OTHER -> FALSE

\* What a block is for: its effect on the store from end to end, the counters
\* and the queues together.
Do(b, s) ==
  IF ~ Allowed(b, s) THEN s
  ELSE CASE b.kind = "send" -> [s EXCEPT !.record.out = b.n, !.out = @ \cup {b.n}]
         [] b.kind = "ack" -> [s EXCEPT !.out = {m \in @ : m > b.n}]
         [] b.kind = "early" -> [s EXCEPT !.in = @ \cup {b.n}]
         [] b.kind = "run" -> [s EXCEPT !.record.in = b.n, !.in = {m \in @ : m > b.n}]
         [] b.kind = "close" -> [Empty EXCEPT !.record = [s.record EXCEPT !.open = FALSE]]
         [] b.kind = "create" -> [s EXCEPT !.record.open = TRUE]
         [] OTHER -> Empty

----------------------------------------------------------------------------

StoreInit ==
  /\ disk = [p \in Process |-> Empty]
  /\ state = disk /\ snapshot = [p \in Process |-> None]
  /\ entity = [p \in Process |-> NoRecord] /\ previous = snapshot
  /\ todo = [p \in Process |-> <<>>]
  /\ stage = [p \in Process |-> "idle"]
  /\ pid = CHOOSE f \in [Process -> Pids] : \A p, q \in Process : f[p] = f[q] => p = q
  /\ temps = {} /\ active = [p \in Process |-> FALSE]
  /\ deaths = 0

Set(f, p, v) == [f EXCEPT ![p] = v]

\* _atomic and the outermost transaction() begin.
Begin(p) ==
  /\ stage[p] = "idle"
  /\ \E b \in BlocksOf(p) :
       /\ Allowed(b, state[p])
       /\ todo' = Set(todo, p, BlockOps(b, state[p]))
  /\ snapshot' = Set(snapshot, p, state[p])
  /\ previous' = Set(previous, p, entity[p])
  /\ stage' = Set(stage, p, "open")
  /\ UNCHANGED <<disk, state, entity, pid, temps, active, deaths>>

\* One call of the block, in a nested scope.
Change(p) ==
  /\ stage[p] = "open" /\ todo[p] # <<>>
  /\ LET op == Head(todo[p])
     IN /\ entity' = Set(entity, p, Entity(op, entity[p]))
        /\ state' = Set(state, p, Apply(op, state[p], Entity(op, entity[p])))
  /\ todo' = Set(todo, p, Tail(todo[p]))
  /\ UNCHANGED <<disk, snapshot, previous, stage, pid, temps, active, deaths>>

\* Faulty variant: the entity keeps what the block did to it.
Bad_Rollback(p) ==
  /\ state' = Set(state, p, snapshot[p])
  /\ UNCHANGED entity

\* Faulty variant: the backend keeps what the block did to it.
Bad_Restore(p) ==
  /\ entity' = Set(entity, p, previous[p])
  /\ UNCHANGED state

\* The except branches of transaction() and _atomic.
Rollback(p) ==
  /\ state' = Set(state, p, snapshot[p])
  /\ entity' = Set(entity, p, previous[p])

\* The finally branch of transaction(), and the end of _atomic's frame.
Leave(p) ==
  /\ snapshot' = Set(snapshot, p, None) /\ previous' = Set(previous, p, None)
  /\ todo' = Set(todo, p, <<>>) /\ stage' = Set(stage, p, "idle")

\* Something in the block raises: the outermost scope unwinds it all.
Fail(p) ==
  /\ stage[p] = "open"
  /\ Rollback(p) /\ Leave(p)
  /\ UNCHANGED <<disk, pid, temps, active, deaths>>

\* Nothing changed: there is no write.
Unchanged(p) ==
  /\ stage[p] = "open" /\ todo[p] = <<>> /\ state[p] = snapshot[p]
  /\ Leave(p)
  /\ UNCHANGED <<disk, state, entity, pid, temps, active, deaths>>

Live == {pid[q] : q \in {r \in Process : stage[r] # "dead"}}

\* Faulty variant: another process's file is taken for a leftover.
Bad_cleanup(p, own) ==
  {t \in temps : t = own /\ active[p]}

\* cleanup(): what stays in the directory. `own` is the pid of the sweeper.
cleanup(p, own) ==
  {t \in temps : IF t = own THEN active[p] ELSE t \in Live}

\* _write: create() sweeps, makes the file and registers it.
MakeTemp(p) ==
  /\ stage[p] = "open" /\ todo[p] = <<>> /\ state[p] # snapshot[p]
  /\ temps' = cleanup(p, pid[p]) \cup {pid[p]}
  /\ active' = Set(active, p, TRUE)
  /\ stage' = Set(stage, p, "temp")
  /\ UNCHANGED <<disk, block, pid, deaths>>

\* The state is written to it and synced.
FillTemp(p) ==
  /\ stage[p] = "temp"
  /\ stage' = Set(stage, p, "filled")
  /\ UNCHANGED <<disk, block, pid, temps, active, deaths>>

\* A step of _write raises, or the file is gone: it is unlinked and released.
WriteFails(p) ==
  /\ stage[p] \in {"temp", "filled"}
  /\ temps' = temps \ {pid[p]} /\ active' = Set(active, p, FALSE)
  /\ Rollback(p) /\ Leave(p)
  /\ UNCHANGED <<disk, pid, deaths>>

\* os.replace. What follows it, syncing the directory, can fail but not raise.
Replace(p) ==
  /\ stage[p] = "filled" /\ pid[p] \in temps
  /\ disk' = Set(disk, p, state[p])
  /\ temps' = temps \ {pid[p]} /\ active' = Set(active, p, FALSE)
  /\ Leave(p)
  /\ UNCHANGED <<state, entity, pid, deaths>>

Die(p) ==
  /\ stage[p] # "dead" /\ deaths < MaxDeaths
  /\ stage' = Set(stage, p, "dead") /\ deaths' = deaths + 1
  /\ state' = Set(state, p, Empty) /\ entity' = Set(entity, p, NoRecord)
  /\ snapshot' = Set(snapshot, p, None) /\ previous' = Set(previous, p, None)
  /\ todo' = Set(todo, p, <<>>) /\ active' = Set(active, p, FALSE)
  /\ UNCHANGED <<disk, pid, temps>>

\* FileStorage.__init__ and start(): a new process sweeps, then loads.
Reopen(p) ==
  /\ stage[p] = "dead"
  /\ \E n \in Pids \ Live :
       /\ pid' = Set(pid, p, n)
       /\ temps' = cleanup(p, n)
  /\ state' = Set(state, p, disk[p])
  /\ entity' = Set(entity, p, disk[p].record)
  /\ Leave(p)
  /\ UNCHANGED <<disk, active, deaths>>

StoreStep(p) ==
  \/ Begin(p) \/ Change(p) \/ Fail(p) \/ Unchanged(p)
  \/ MakeTemp(p) \/ FillTemp(p) \/ WriteFails(p) \/ Replace(p)
  \/ Die(p) \/ Reopen(p)

StoreNext == \E p \in Process : StoreStep(p)

StoreSpec == StoreInit /\ [][StoreNext]_storeVars

----------------------------------------------------------------------------
(* Properties *)

\* Between blocks the entity, the backend's view and the file agree, whatever
\* failed, rolled back or died before.
ViewsAgree ==
  \A p \in Process : stage[p] = "idle" =>
    state[p] = disk[p] /\ entity[p] = disk[p].record

\* No sweep takes the file a live writer is about to put in place.
LiveTempKept ==
  \A p \in Process : stage[p] \in {"temp", "filled"} => pid[p] \in temps

Atomic == INSTANCE AtomicStore WITH store <- disk

\* Every process's file changes by whole blocks only.
ImplementsAtomicStore == Atomic!Spec
============================================================================
