----------------------------- MODULE StoreProofs ----------------------------
(***************************************************************************)
(* That the file store implements the atomic one, and what it rests on:    *)
(* an open block always comes out as the block it was begun as, and        *)
(* whatever fails puts back what the file still holds.                     *)
(***************************************************************************)
EXTENDS Store, SequenceTheorems, TLAPS

Counters == [open : BOOLEAN, out : Nat, in : Nat]
Contents == [record : Counters, out : SUBSET Nat, in : SUBSET Nat]
CallNames == {"queue_out", "drop_out", "queue_in", "take_in", "requeue_in",
              "delete", "save", "close", "create", "forget"}
Ops == [call : CallNames, n : Nat, held : SUBSET Nat]

\* The entity and the backend's state after one call, and after the last of
\* at most three.
After(op, x) ==
  [chat |-> Entity(op, x.chat), s |-> Apply(op, x.s, Entity(op, x.chat))]

Result(ops, x) ==
  CASE Len(ops) = 0 -> x
    [] Len(ops) = 1 -> After(ops[1], x)
    [] Len(ops) = 2 -> After(ops[2], After(ops[1], x))
    [] OTHER -> After(ops[3], After(ops[2], After(ops[1], x)))

View(s) == [chat |-> s.record, s |-> s]

----------------------------------------------------------------------------
(* What a block does *)

\* One call fewer to do, and one done.
LEMMA ResultStep ==
  ASSUME NEW ops \in Seq(Ops), ops # <<>>, Len(ops) <= 3, NEW x
  PROVE  Result(ops, x) = Result(Tail(ops), After(Head(ops), x))
<1> DEFINE rest == Tail(ops)
           first == Head(ops)
<1>1. Len(ops) \in {1, 2, 3} /\ first = ops[1]
  <2>1. Len(ops) \in Nat \ {0} BY EmptySeq
  <2> DEFINE n == Len(ops)
  <2>2. n \in {1, 2, 3}
    <3> HIDE DEF n
    <3>1. n \in Nat \ {0} /\ n <= 3 BY <2>1 DEF n
    <3>2. QED BY <3>1
  <2>3. first = ops[1] BY <2>1
  <2>4. QED BY <2>2, <2>3
<1>2. Len(rest) = Len(ops) - 1 /\ \A i \in 1 .. Len(rest) : rest[i] = ops[i + 1]
  BY HeadTailProperties
<1> HIDE DEF rest, first
<1>3. CASE Len(ops) = 1
  <2>1. Len(rest) = 0 BY <1>2, <1>3
  <2>2. Result(rest, After(first, x)) = After(first, x) BY <2>1 DEF Result
  <2>3. Result(ops, x) = After(first, x) BY <1>1, <1>3 DEF Result
  <2>4. QED BY <2>2, <2>3 DEF rest, first
<1>4. CASE Len(ops) = 2
  <2>1. Len(rest) = 1 /\ rest[1] = ops[2] BY <1>2, <1>4
  <2>2. Result(rest, After(first, x)) = After(ops[2], After(ops[1], x))
    BY <1>1, <2>1 DEF Result
  <2>3. Result(ops, x) = After(ops[2], After(ops[1], x)) BY <1>4 DEF Result
  <2>4. QED BY <2>2, <2>3 DEF rest, first
<1>5. CASE Len(ops) = 3
  <2>1. Len(rest) = 2 /\ rest[1] = ops[2] /\ rest[2] = ops[3] BY <1>2, <1>5
  <2>2. Result(rest, After(first, x)) = After(ops[3], After(ops[2], After(ops[1], x)))
    BY <1>1, <2>1 DEF Result
  <2>3. Result(ops, x) = After(ops[3], After(ops[2], After(ops[1], x))) BY <1>5 DEF Result
  <2>4. QED BY <2>2, <2>3 DEF rest, first
<1>6. QED BY <1>1, <1>3, <1>4, <1>5

LEMMA TwoCalls ==
  ASSUME NEW a, NEW b, NEW x
  PROVE  Result(<<a, b>>, x) = After(b, After(a, x))
BY DEF Result

LEMMA ThreeCalls ==
  ASSUME NEW a, NEW b, NEW c, NEW x
  PROVE  Result(<<a, b, c>>, x) = After(c, After(b, After(a, x)))
BY DEF Result

\* What is stored keeps its shape.
LEMMA DoType ==
  ASSUME NEW p \in Process, NEW b \in BlocksOf(p), NEW s \in Contents
  PROVE  Do(b, s) \in Contents
<1>1. b.n \in Nat /\ s.record \in Counters /\ Empty \in Contents
  BY StoreAssumption DEF BlocksOf, Number, Contents, Counters, Empty, NoRecord
<1>2. QED BY <1>1 DEF Do, Allowed, Contents, Counters, Empty, NoRecord

\* The calls of a block, one after the other, have the effect the block is for,
\* and leave the entity as the record that is stored.
LEMMA BlockDone ==
  ASSUME NEW p \in Process, NEW b \in BlocksOf(p), NEW s \in Contents, Allowed(b, s)
  PROVE  Result(BlockOps(b, s), View(s)) = View(Do(b, s))
<1> DEFINE r == s.record
<1>0. /\ b.n \in Nat /\ r \in Counters
      /\ b.kind \in {"send", "ack", "early", "run", "close", "create", "remove"}
  BY StoreAssumption DEF BlocksOf, Number, Contents
<1>1. CASE b.kind = "send"
  <2>1. BlockOps(b, s) = <<Call("queue_out"), Call("save")>> BY <1>1 DEF BlockOps
  <2>2. After(Call("queue_out"), View(s))
          = [chat |-> [r EXCEPT !.out = b.n], s |-> [s EXCEPT !.out = @ \cup {b.n}]]
    BY <1>0, <1>1 DEF After, View, Call, Entity, Apply, QueueOut, Allowed, Contents, Counters
  <2>3. After(Call("save"), [chat |-> [r EXCEPT !.out = b.n], s |-> [s EXCEPT !.out = @ \cup {b.n}]])
          = View([s EXCEPT !.record.out = b.n, !.out = @ \cup {b.n}])
    BY <1>0 DEF After, View, Call, Entity, Apply, Save, Contents, Counters
  <2>4. QED BY <2>1, <2>2, <2>3, <1>1, TwoCalls DEF Do
<1>2. CASE b.kind = "ack"
  <2> DEFINE t == [s EXCEPT !.out = {m \in @ : m > b.n}]
  <2>1. BlockOps(b, s) = <<CallN("drop_out", b.n), Call("save")>> BY <1>2 DEF BlockOps
  <2>2. After(CallN("drop_out", b.n), View(s)) = [chat |-> r, s |-> t]
    BY <1>0 DEF After, View, Call, CallN, Entity, Apply, DropOut, Contents
  <2>3. After(Call("save"), [chat |-> r, s |-> t]) = View(t)
    BY <1>0 DEF After, View, Call, Entity, Apply, Save, Contents, Counters
  <2>4. QED BY <2>1, <2>2, <2>3, <1>2, TwoCalls DEF Do
<1>3. CASE b.kind = "early"
  <2> DEFINE t == [s EXCEPT !.in = @ \cup {b.n}]
  <2>1. BlockOps(b, s) = <<CallN("queue_in", b.n), Call("save")>> BY <1>3 DEF BlockOps
  <2>2. After(CallN("queue_in", b.n), View(s)) = [chat |-> r, s |-> t]
    BY <1>0 DEF After, View, Call, CallN, Entity, Apply, QueueIn, Contents
  <2>3. After(Call("save"), [chat |-> r, s |-> t]) = View(t)
    BY <1>0 DEF After, View, Call, Entity, Apply, Save, Contents, Counters
  <2>4. QED BY <2>1, <2>2, <2>3, <1>3, TwoCalls DEF Do
<1>4. CASE b.kind = "run"
  <2> DEFINE back == [Call("requeue_in") EXCEPT !.held = s.in]
             chat == [r EXCEPT !.in = b.n]
             t == [s EXCEPT !.in = {m \in s.in : m > b.n}]
  <2>1. BlockOps(b, s) = <<CallN("take_in", b.n), back, Call("save")>> BY <1>4 DEF BlockOps
  <2>2. After(CallN("take_in", b.n), View(s)) = [chat |-> chat, s |-> [s EXCEPT !.in = {}]]
    BY <1>0 DEF After, View, Call, CallN, Entity, Apply, TakeIn, Contents, Counters
  <2>3. After(back, [chat |-> chat, s |-> [s EXCEPT !.in = {}]]) = [chat |-> chat, s |-> t]
    BY <1>0 DEF After, Call, Entity, Apply, RequeueIn, Contents, Counters
  <2>4. After(Call("save"), [chat |-> chat, s |-> t])
          = View([s EXCEPT !.record.in = b.n, !.in = {m \in @ : m > b.n}])
    BY <1>0 DEF After, View, Call, Entity, Apply, Save, Contents, Counters
  <2>5. QED BY <2>1, <2>2, <2>3, <2>4, <1>4, ThreeCalls DEF Do
<1>5. CASE b.kind = "close"
  <2> DEFINE chat == [r EXCEPT !.open = FALSE]
  <2>1. BlockOps(b, s) = <<Call("close"), Call("delete"), Call("save")>> BY <1>5 DEF BlockOps
  <2>2. After(Call("close"), View(s)) = [chat |-> chat, s |-> s]
    BY <1>0 DEF After, View, Call, Entity, Apply, Contents, Counters
  <2>3. After(Call("delete"), [chat |-> chat, s |-> s]) = [chat |-> chat, s |-> Empty]
    BY DEF After, Call, Entity, Apply, Delete
  <2>4. After(Call("save"), [chat |-> chat, s |-> Empty]) = View([Empty EXCEPT !.record = chat])
    BY <1>0 DEF After, View, Call, Entity, Apply, Save, Empty
  <2>5. Do(b, s) = [Empty EXCEPT !.record = chat] BY <1>5 DEF Do
  <2>6. QED
    <3> HIDE DEF chat
    <3>1. Result(BlockOps(b, s), View(s))
            = After(Call("save"), After(Call("delete"), After(Call("close"), View(s))))
      BY <2>1, ThreeCalls
    <3>2. QED BY <2>2, <2>3, <2>4, <2>5, <3>1, Zenon
<1>6. CASE b.kind = "create"
  <2> DEFINE chat == [NoRecord EXCEPT !.open = TRUE]
  <2>1. BlockOps(b, s) = <<Call("create"), Call("save")>> BY <1>6 DEF BlockOps
  <2>2. After(Call("create"), View(s)) = [chat |-> chat, s |-> s]
    BY DEF After, View, Call, Entity, Apply
  <2>3. After(Call("save"), [chat |-> chat, s |-> s]) = View([s EXCEPT !.record = chat])
    BY <1>0 DEF After, View, Call, Entity, Apply, Save, Contents
  <2>4. Do(b, s) = [s EXCEPT !.record = chat] BY <1>6 DEF Do, Allowed
  <2>5. QED
    <3> HIDE DEF chat
    <3>1. Result(BlockOps(b, s), View(s)) = After(Call("save"), After(Call("create"), View(s)))
      BY <2>1, TwoCalls
    <3>2. QED BY <2>2, <2>3, <2>4, <3>1, Zenon
<1>7. CASE b.kind = "remove"
  <2>1. BlockOps(b, s) = <<Call("delete"), Call("forget")>> BY <1>7 DEF BlockOps
  <2>2. After(Call("delete"), View(s)) = [chat |-> r, s |-> Empty]
    BY DEF After, View, Call, Entity, Apply, Delete
  <2>3. After(Call("forget"), [chat |-> r, s |-> Empty]) = View(Empty)
    BY DEF After, View, Call, Entity, Apply, Empty
  <2>4. QED BY <2>1, <2>2, <2>3, <1>7, TwoCalls DEF Do
<1>8. QED BY <1>0, <1>1, <1>2, <1>3, <1>4, <1>5, <1>6, <1>7

\* No block has more than three calls.
LEMMA BlockShort ==
  ASSUME NEW p \in Process, NEW b \in BlocksOf(p), NEW s \in Contents
  PROVE  BlockOps(b, s) \in Seq(Ops) /\ Len(BlockOps(b, s)) <= 3
<1>1. b.n \in Nat /\ s.in \in SUBSET Nat
  BY StoreAssumption DEF BlocksOf, Number, Contents
<1>2. \A name \in CallNames : Call(name) \in Ops /\ CallN(name, b.n) \in Ops
  BY <1>1 DEF Call, CallN, Ops
<1>3. [Call("requeue_in") EXCEPT !.held = s.in] \in Ops
  BY <1>1 DEF Call, Ops, CallNames
<1> HIDE DEF Ops
<1>4. ASSUME NEW x \in Ops, NEW y \in Ops, BlockOps(b, s) = <<x, y>>
      PROVE  BlockOps(b, s) \in Seq(Ops) /\ Len(BlockOps(b, s)) <= 3
  BY <1>4
<1>5. ASSUME NEW x \in Ops, NEW y \in Ops, NEW z \in Ops, BlockOps(b, s) = <<x, y, z>>
      PROVE  BlockOps(b, s) \in Seq(Ops) /\ Len(BlockOps(b, s)) <= 3
  BY <1>5
<1>6. CASE b.kind = "run"
  <2> DEFINE back == [Call("requeue_in") EXCEPT !.held = s.in]
  <2>1. CallN("take_in", b.n) \in Ops /\ back \in Ops /\ Call("save") \in Ops
    BY <1>2, <1>3 DEF CallNames
  <2>2. BlockOps(b, s) = <<CallN("take_in", b.n), back, Call("save")>> BY <1>6 DEF BlockOps
  <2> HIDE DEF back
  <2>3. QED BY <1>5, <2>1, <2>2
<1>7. CASE b.kind = "close"
  <2>1. Call("close") \in Ops /\ Call("delete") \in Ops /\ Call("save") \in Ops
    BY <1>2 DEF CallNames
  <2>2. BlockOps(b, s) = <<Call("close"), Call("delete"), Call("save")>> BY <1>7 DEF BlockOps
  <2>3. QED BY <1>5, <2>1, <2>2
<1>8. CASE b.kind \in {"send", "ack", "early", "create", "remove"}
  <2>1. PICK x \in Ops, y \in Ops : BlockOps(b, s) = <<x, y>>
    BY <1>2, <1>8 DEF BlockOps, CallNames
  <2>2. QED BY <1>4, <2>1
<1>9. QED BY <1>6, <1>7, <1>8 DEF BlocksOf

----------------------------------------------------------------------------
(* The invariant *)

Stages == {"idle", "open", "temp", "filled", "dead"}
InBlock == {"open", "temp", "filled"}

Arrays ==
  /\ disk \in [Process -> Contents] /\ stage \in [Process -> Stages]
  /\ pid \in [Process -> Pids]
  /\ DOMAIN state = Process /\ DOMAIN snapshot = Process /\ DOMAIN entity = Process
  /\ DOMAIN previous = Process /\ DOMAIN todo = Process /\ DOMAIN active = Process

\* Between blocks, what ViewsAgree says of p.
Resting(p) == stage[p] = "idle" => state[p] = disk[p] /\ entity[p] = disk[p].record

\* In a block: what a failure puts back is what the file holds, and what is left to do
\* makes the state that of one whole block.
Comes(p) == Result(todo[p], [chat |-> entity[p], s |-> state[p]])
Working(p) ==
  stage[p] \in InBlock =>
    /\ snapshot[p] = disk[p] /\ previous[p] = disk[p].record
    /\ todo[p] \in Seq(Ops) /\ Len(todo[p]) <= 3
    /\ \E b \in BlocksOf(p) : Comes(p) = View(Do(b, disk[p]))

\* At the write the block is done, and the temporary file is there.
Writing(p) == stage[p] \in {"temp", "filled"} => todo[p] = <<>> /\ pid[p] \in temps

\* Processes that live at the same time have different ids.
PidsDiffer ==
  \A p, q \in Process :
    stage[p] # "dead" /\ stage[q] # "dead" /\ pid[p] = pid[q] => p = q

Sound(p) == Resting(p) /\ Working(p) /\ Writing(p)
StoreInv == Arrays /\ PidsDiffer /\ \A p \in Process : Sound(p)

\* A block with nothing left to do has become what it is for.
LEMMA BlockEnds ==
  ASSUME NEW p \in Process, stage[p] \in InBlock, Working(p), todo[p] = <<>>
  PROVE  \E b \in BlocksOf(p) : state[p] = Do(b, disk[p]) /\ entity[p] = state[p].record
<1>1. PICK b \in BlocksOf(p) : Comes(p) = View(Do(b, disk[p])) BY DEF Working
<1>2. Comes(p) = [chat |-> entity[p], s |-> state[p]] BY DEF Comes, Result
<1> DEFINE d == Do(b, disk[p])
<1> HIDE DEF d
<1>3. [chat |-> entity[p], s |-> state[p]] = [chat |-> d.record, s |-> d]
  BY <1>1, <1>2 DEF View, d
<1>4. state[p] = d /\ entity[p] = d.record BY <1>3
<1>5. QED BY <1>4 DEF d

LEMMA InitSound == StoreInit => StoreInv
<1> SUFFICES ASSUME StoreInit PROVE StoreInv OBVIOUS
<1>1. pid \in [Process -> Pids] /\ \A p, q \in Process : pid[p] = pid[q] => p = q
  BY StoreAssumption DEF StoreInit
<1>2. Empty \in Contents /\ Empty.record = NoRecord
  BY DEF Contents, Counters, Empty, NoRecord
<1>3. Arrays BY <1>1, <1>2 DEF StoreInit, Arrays, Stages
<1>4. PidsDiffer BY <1>1 DEF PidsDiffer
<1>5. \A p \in Process : Sound(p)
  BY <1>2 DEF StoreInit, Sound, Resting, Working, Writing, InBlock
<1>6. QED BY <1>3, <1>4, <1>5 DEF StoreInv

\* A step that leaves everything of q as it is, its temporary file included, leaves q
\* sound.
LEMMA OthersSound ==
  ASSUME NEW q \in Process, Sound(q),
         disk'[q] = disk[q], state'[q] = state[q], snapshot'[q] = snapshot[q],
         entity'[q] = entity[q], previous'[q] = previous[q], todo'[q] = todo[q],
         stage'[q] = stage[q], pid'[q] = pid[q],
         stage[q] \in {"temp", "filled"} => (pid[q] \in temps => pid[q] \in temps')
  PROVE  Sound(q)'
<1>1. Comes(q)' = Comes(q) BY DEF Comes
<1>2. QED BY <1>1 DEF Sound, Resting, Working, Writing

----------------------------------------------------------------------------
(* Each step keeps it *)

\* What is left to show for a step of p that keeps the ids, the arrays in shape and the
\* others' temporary files.
LEMMA StepSound ==
  ASSUME NEW p \in Process, StoreInv, Arrays', PidsDiffer', Sound(p)',
         \A q \in Process \ {p} :
           /\ disk'[q] = disk[q] /\ state'[q] = state[q] /\ snapshot'[q] = snapshot[q]
           /\ entity'[q] = entity[q] /\ previous'[q] = previous[q] /\ todo'[q] = todo[q]
           /\ stage'[q] = stage[q] /\ pid'[q] = pid[q]
           /\ stage[q] \in {"temp", "filled"} => (pid[q] \in temps => pid[q] \in temps')
  PROVE  StoreInv'
<1>1. ASSUME NEW q \in Process \ {p} PROVE Sound(q)'
  BY <1>1, OthersSound DEF StoreInv
<1>2. QED BY <1>1 DEF StoreInv

LEMMA BeginSound == ASSUME NEW p \in Process, StoreInv, Begin(p) PROVE StoreInv'
<1> USE DEF StoreInv, Begin, Set
<1>1. Arrays' BY DEF Arrays, Stages
<1>2. PidsDiffer' BY DEF PidsDiffer, Arrays
<1>3. Sound(p)'
  <2>1. state[p] = disk[p] /\ entity[p] = disk[p].record BY DEF Sound, Resting
  <2>2. PICK b \in BlocksOf(p) :
          Allowed(b, state[p]) /\ todo' = [todo EXCEPT ![p] = BlockOps(b, state[p])]
    OBVIOUS
  <2> DEFINE s == disk[p]
  <2>3. s \in Contents BY DEF Arrays
  <2>4. /\ stage'[p] = "open" /\ snapshot'[p] = s /\ previous'[p] = s.record
        /\ todo'[p] = BlockOps(b, s) /\ disk'[p] = s
        /\ entity'[p] = s.record /\ state'[p] = s
    BY <2>1, <2>2 DEF Arrays
  <2>5. todo'[p] \in Seq(Ops) /\ Len(todo'[p]) <= 3 BY <2>3, <2>4, BlockShort
  <2>6. Comes(p)' = View(Do(b, s))
    <3>1. Comes(p)' = Result(BlockOps(b, s), View(s)) BY <2>4 DEF Comes, View
    <3>2. Allowed(b, s) BY <2>1, <2>2
    <3>3. QED BY <2>3, <3>1, <3>2, BlockDone
  <2> HIDE DEF s
  <2>7. Working(p)' BY <2>4, <2>5, <2>6 DEF Working
  <2>8. QED BY <2>4, <2>7 DEF Sound, Resting, Writing
<1>4. QED BY <1>1, <1>2, <1>3, StepSound DEF Arrays

LEMMA ChangeSound == ASSUME NEW p \in Process, StoreInv, Change(p) PROVE StoreInv'
<1> USE DEF StoreInv, Change, Set
<1>1. Arrays' BY DEF Arrays, Stages
<1>2. PidsDiffer' BY DEF PidsDiffer, Arrays
<1>3. Sound(p)'
  <2>1. Working(p) /\ stage[p] = "open" /\ todo[p] # <<>> BY DEF Sound
  <2>2. /\ todo[p] \in Seq(Ops) /\ Len(todo[p]) <= 3
        /\ snapshot[p] = disk[p] /\ previous[p] = disk[p].record
    BY <2>1 DEF Working, InBlock
  <2> DEFINE ops == todo[p]
             op == Head(ops)
             x == [chat |-> entity[p], s |-> state[p]]
  <2>3. PICK b \in BlocksOf(p) : Result(ops, x) = View(Do(b, disk[p]))
    BY <2>1 DEF Working, InBlock, Comes
  <2>4. /\ todo'[p] = Tail(ops) /\ entity'[p] = Entity(op, entity[p])
        /\ state'[p] = Apply(op, state[p], Entity(op, entity[p]))
        /\ stage'[p] = "open" /\ disk'[p] = disk[p]
        /\ snapshot'[p] = disk[p] /\ previous'[p] = disk[p].record
    BY <2>2 DEF Arrays
  <2>5. Comes(p)' = Result(Tail(ops), After(op, x))
    BY <2>4 DEF Comes, After
  <2>6. Comes(p)' = View(Do(b, disk[p]))
    <3> HIDE DEF x
    <3>1. QED BY <2>1, <2>2, <2>3, <2>5, ResultStep
  <2>7. Tail(ops) \in Seq(Ops) /\ Len(Tail(ops)) <= 3
    <3>1. Len(Tail(ops)) = Len(ops) - 1 /\ Tail(ops) \in Seq(Ops) /\ Len(ops) \in Nat
      BY <2>1, <2>2, HeadTailProperties, LenProperties
    <3>2. QED BY <2>2, <3>1
  <2>8. Working(p)'
    <3> HIDE DEF ops, op, x
    <3>1. QED BY <2>4, <2>6, <2>7 DEF Working
  <2>9. QED BY <2>4, <2>8 DEF Sound, Resting, Writing
<1>4. QED BY <1>1, <1>2, <1>3, StepSound DEF Arrays

LEMMA FailSound == ASSUME NEW p \in Process, StoreInv, Fail(p) PROVE StoreInv'
<1> USE DEF StoreInv, Fail, Rollback, Leave, Set
<1>1. Arrays' BY DEF Arrays, Stages
<1>2. PidsDiffer' BY DEF PidsDiffer, Arrays
<1>3. snapshot[p] = disk[p] /\ previous[p] = disk[p].record
  BY DEF Sound, Working, InBlock
<1>4. /\ stage'[p] = "idle" /\ state'[p] = disk[p] /\ entity'[p] = disk[p].record
      /\ disk'[p] = disk[p]
  BY <1>3 DEF Arrays
<1>5. Sound(p)' BY <1>4 DEF Sound, Resting, Working, Writing, InBlock
<1>6. QED BY <1>1, <1>2, <1>5, StepSound DEF Arrays

LEMMA UnchangedSound == ASSUME NEW p \in Process, StoreInv, Unchanged(p) PROVE StoreInv'
<1> USE DEF StoreInv, Unchanged, Leave, Set
<1>1. Arrays' BY DEF Arrays, Stages
<1>2. PidsDiffer' BY DEF PidsDiffer, Arrays
<1>3. snapshot[p] = disk[p] /\ entity[p] = state[p].record
  <2>1. Working(p) /\ stage[p] \in InBlock BY DEF Sound, InBlock
  <2>2. QED BY <2>1, BlockEnds DEF Working
<1>4. /\ stage'[p] = "idle" /\ state'[p] = disk[p] /\ entity'[p] = disk[p].record
      /\ disk'[p] = disk[p]
  BY <1>3 DEF Arrays
<1>5. Sound(p)' BY <1>4 DEF Sound, Resting, Working, Writing, InBlock
<1>6. QED BY <1>1, <1>2, <1>5, StepSound DEF Arrays

\* A sweep spares the file of every other live process.
LEMMA SweepSpares ==
  ASSUME NEW p \in Process, NEW q \in Process \ {p}, NEW own,
         stage[q] # "dead", pid[q] # own, pid[q] \in temps
  PROVE  pid[q] \in cleanup(p, own)
BY DEF cleanup, Live

LEMMA MakeTempSound == ASSUME NEW p \in Process, StoreInv, MakeTemp(p) PROVE StoreInv'
<1> USE DEF StoreInv, MakeTemp, block, Set
<1>1. Arrays' BY DEF Arrays, Stages
<1>2. PidsDiffer' BY DEF PidsDiffer, Arrays
<1>3. Sound(p)'
  <2>1. stage[p] = "open" /\ stage'[p] = "temp" /\ Working(p) BY DEF Sound, Arrays
  <2>2. Comes(p)' = Comes(p) BY DEF Comes
  <2>3. Working(p)' BY <2>1, <2>2 DEF Working, InBlock
  <2>4. Writing(p)' BY <2>1 DEF Writing
  <2>5. QED BY <2>1, <2>3, <2>4 DEF Sound, Resting
<1>4. ASSUME NEW q \in Process \ {p}, stage[q] \in {"temp", "filled"}, pid[q] \in temps
      PROVE  pid[q] \in temps'
  <2>1. stage[p] # "dead" /\ stage[q] # "dead" BY <1>4
  <2>2. pid[q] # pid[p] BY <2>1 DEF PidsDiffer
  <2>3. pid[q] \in cleanup(p, pid[p]) BY <1>4, <2>1, <2>2, SweepSpares
  <2>4. QED BY <2>3
<1>5. QED BY <1>1, <1>2, <1>3, <1>4, StepSound DEF Arrays

LEMMA FillTempSound == ASSUME NEW p \in Process, StoreInv, FillTemp(p) PROVE StoreInv'
<1> USE DEF StoreInv, FillTemp, block, Set
<1>1. Arrays' BY DEF Arrays, Stages
<1>2. PidsDiffer' BY DEF PidsDiffer, Arrays
<1>3. Sound(p)'
  <2>1. stage[p] = "temp" /\ stage'[p] = "filled" /\ Working(p) /\ Writing(p)
    BY DEF Sound, Arrays
  <2>2. Comes(p)' = Comes(p) BY DEF Comes
  <2>3. Working(p)' BY <2>1, <2>2 DEF Working, InBlock
  <2>4. Writing(p)' BY <2>1 DEF Writing
  <2>5. QED BY <2>1, <2>3, <2>4 DEF Sound, Resting
<1>4. QED BY <1>1, <1>2, <1>3, StepSound DEF Arrays

LEMMA WriteFailsSound == ASSUME NEW p \in Process, StoreInv, WriteFails(p) PROVE StoreInv'
<1> USE DEF StoreInv, WriteFails, Rollback, Leave, Set
<1>1. Arrays' BY DEF Arrays, Stages
<1>2. PidsDiffer' BY DEF PidsDiffer, Arrays
<1>3. snapshot[p] = disk[p] /\ previous[p] = disk[p].record
  BY DEF Sound, Working, InBlock
<1>4. /\ stage'[p] = "idle" /\ state'[p] = disk[p] /\ entity'[p] = disk[p].record
      /\ disk'[p] = disk[p]
  BY <1>3 DEF Arrays
<1>5. Sound(p)' BY <1>4 DEF Sound, Resting, Working, Writing, InBlock
<1>6. ASSUME NEW q \in Process \ {p}, stage[q] \in {"temp", "filled"}, pid[q] \in temps
      PROVE  pid[q] \in temps'
  <2>1. pid[q] # pid[p] BY <1>6 DEF PidsDiffer
  <2>2. QED BY <1>6, <2>1
<1>7. QED BY <1>1, <1>2, <1>5, <1>6, StepSound DEF Arrays

\* What is put in place is the effect of a whole block.
LEMMA ReplaceCommits ==
  ASSUME NEW p \in Process, StoreInv, Replace(p)
  PROVE  \E b \in BlocksOf(p) :
           /\ disk' = [disk EXCEPT ![p] = Do(b, disk[p])]
           /\ entity[p] = state[p].record
<1>1. stage[p] \in InBlock /\ Working(p) /\ todo[p] = <<>>
  BY DEF Replace, StoreInv, Sound, Writing, InBlock
<1>2. QED BY <1>1, BlockEnds DEF Replace, Set

LEMMA ReplaceSound == ASSUME NEW p \in Process, StoreInv, Replace(p) PROVE StoreInv'
<1> USE DEF StoreInv, Replace, Leave, Set
<1>1. PICK b \in BlocksOf(p) :
        /\ disk' = [disk EXCEPT ![p] = Do(b, disk[p])]
        /\ entity[p] = state[p].record
  BY ReplaceCommits
<1>2. Arrays'
  <2>1. Do(b, disk[p]) \in Contents BY DoType DEF Arrays
  <2>2. disk' \in [Process -> Contents] BY <1>1, <2>1 DEF Arrays
  <2>3. QED BY <2>2 DEF Arrays, Stages
<1>3. PidsDiffer' BY DEF PidsDiffer, Arrays
<1>4. /\ stage'[p] = "idle" /\ disk'[p] = state[p]
      /\ state'[p] = state[p] /\ entity'[p] = state[p].record
  BY <1>1 DEF Arrays
<1>5. Sound(p)' BY <1>4 DEF Sound, Resting, Working, Writing, InBlock
<1>6. ASSUME NEW q \in Process \ {p}, stage[q] \in {"temp", "filled"}, pid[q] \in temps
      PROVE  pid[q] \in temps'
  <2>1. pid[q] # pid[p] BY <1>6 DEF PidsDiffer
  <2>2. QED BY <1>6, <2>1
<1>7. QED BY <1>2, <1>3, <1>5, <1>6, StepSound DEF Arrays

LEMMA DieSound == ASSUME NEW p \in Process, StoreInv, Die(p) PROVE StoreInv'
<1> USE DEF StoreInv, Die, Set
<1>1. Arrays' BY DEF Arrays, Stages
<1>2. PidsDiffer' BY DEF PidsDiffer, Arrays
<1>3. stage'[p] = "dead" BY DEF Arrays
<1>4. Sound(p)' BY <1>3 DEF Sound, Resting, Working, Writing, InBlock
<1>5. QED BY <1>1, <1>2, <1>4, StepSound DEF Arrays

LEMMA ReopenSound == ASSUME NEW p \in Process, StoreInv, Reopen(p) PROVE StoreInv'
<1> USE DEF StoreInv, Leave, Set
<1>1. PICK n \in Pids \ Live :
        pid' = [pid EXCEPT ![p] = n] /\ temps' = cleanup(p, n)
  BY DEF Reopen
<1>2. /\ stage[p] = "dead" /\ stage' = [stage EXCEPT ![p] = "idle"]
      /\ state' = [state EXCEPT ![p] = disk[p]]
      /\ entity' = [entity EXCEPT ![p] = disk[p].record]
      /\ snapshot' = [snapshot EXCEPT ![p] = None] /\ previous' = [previous EXCEPT ![p] = None]
      /\ todo' = [todo EXCEPT ![p] = <<>>] /\ UNCHANGED <<disk, active>>
  BY DEF Reopen
<1>3. Arrays' BY <1>1, <1>2 DEF Arrays, Stages
<1>4. \A q \in Process : stage[q] # "dead" => pid[q] # n BY DEF Live
<1>5. PidsDiffer' BY <1>1, <1>2, <1>4 DEF PidsDiffer, Arrays
<1>6. Sound(p)'
  <2>1. stage'[p] = "idle" /\ state'[p] = disk'[p] /\ entity'[p] = disk'[p].record
    BY <1>2 DEF Arrays
  <2>2. QED BY <2>1 DEF Sound, Resting, Working, Writing, InBlock
<1>7. ASSUME NEW q \in Process \ {p}, stage[q] \in {"temp", "filled"}, pid[q] \in temps
      PROVE  pid[q] \in temps'
  <2>1. stage[q] # "dead" /\ pid[q] # n BY <1>4, <1>7
  <2>2. pid[q] \in cleanup(p, n) BY <1>7, <2>1, SweepSpares
  <2>3. QED BY <1>1, <2>2
<1>8. QED BY <1>1, <1>2, <1>3, <1>5, <1>6, <1>7, StepSound DEF Arrays

LEMMA NextSound == StoreInv /\ [StoreNext]_storeVars => StoreInv'
<1> SUFFICES ASSUME StoreInv, [StoreNext]_storeVars PROVE StoreInv' OBVIOUS
<1>1. CASE UNCHANGED storeVars
  <2>1. \A p \in Process : Comes(p)' = Comes(p) BY <1>1 DEF Comes, storeVars, block
  <2>2. Arrays' /\ PidsDiffer' BY <1>1 DEF StoreInv, Arrays, PidsDiffer, storeVars, block
  <2>3. \A p \in Process : Sound(p)'
    BY <1>1, <2>1 DEF StoreInv, Sound, Resting, Working, Writing, storeVars, block
  <2>4. QED BY <2>2, <2>3 DEF StoreInv
<1>2. CASE StoreNext
  BY <1>2, BeginSound, ChangeSound, FailSound, UnchangedSound, MakeTempSound, FillTempSound,
     WriteFailsSound, ReplaceSound, DieSound, ReopenSound
     DEF StoreNext, StoreStep
<1>3. QED BY <1>1, <1>2

THEOREM StoreSound == StoreSpec => []StoreInv
BY InitSound, NextSound, PTL DEF StoreSpec

----------------------------------------------------------------------------
(* The theorems *)

(* Between blocks the entity in memory, the backend's view of the chat and  *)
(* the file agree, whatever failed, was rolled back, or died (_atomic,      *)
(* transaction and FileStorage._write).                                     *)
THEOREM ViewsKept == StoreSpec => []ViewsAgree
<1>1. StoreInv => ViewsAgree BY DEF StoreInv, Sound, Resting, ViewsAgree
<1>2. QED BY <1>1, StoreSound, PTL

(* No process's sweep removes the temporary file that another is about to   *)
(* put in place, although process ids are used again (temporary.cleanup).   *)
THEOREM TempKept == StoreSpec => []LiveTempKept
<1>1. StoreInv => LiveTempKept BY DEF StoreInv, Sound, Writing, LiveTempKept
<1>2. QED BY <1>1, StoreSound, PTL

(* The file store implements the atomic store: each file starts empty, and  *)
(* every step of any process leaves it alone or does one whole block to it. *)
THEOREM AtomicStoreImplemented == StoreSpec => ImplementsAtomicStore
<1>1. StoreInit => Atomic!Init BY DEF StoreInit, Atomic!Init
<1>2. StoreInv /\ [StoreNext]_storeVars => [Atomic!Next]_disk
  <2> SUFFICES ASSUME StoreInv, [StoreNext]_storeVars PROVE [Atomic!Next]_disk OBVIOUS
  <2>1. CASE UNCHANGED storeVars BY <2>1 DEF storeVars
  <2>2. ASSUME NEW p \in Process, Replace(p) PROVE Atomic!Next
    <3>1. PICK b \in BlocksOf(p) : disk' = [disk EXCEPT ![p] = Do(b, disk[p])]
      BY <2>2, ReplaceCommits
    <3>2. b \in Blocks BY DEF Blocks
    <3>3. Atomic!Commit(p, b) BY <3>1 DEF Atomic!Commit
    <3>4. QED BY <3>2, <3>3 DEF Atomic!Next
  <2>3. ASSUME NEW p \in Process, StoreStep(p), ~ Replace(p) PROVE disk' = disk
    BY <2>3 DEF StoreStep, Begin, Change, Fail, Unchanged, MakeTemp, FillTemp, WriteFails,
                Die, Reopen
  <2>4. CASE StoreNext BY <2>2, <2>3, <2>4 DEF StoreNext
  <2>5. QED BY <2>1, <2>4
<1>3. QED BY <1>1, <1>2, StoreSound, PTL DEF StoreSpec, ImplementsAtomicStore, Atomic!Spec
=============================================================================
