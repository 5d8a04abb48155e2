-------------------------- MODULE TransientProofs --------------------------
(***************************************************************************)
(* Proofs about Transient, for any number of chats, tasks, frames and      *)
(* lives: a refused chat stays quiet, it leaves nothing in memory, and the *)
(* server never holds a frame behind one that is lost.                     *)
(***************************************************************************)
EXTENDS Transient, FiniteSetTheorems, TLAPS

LockStages == {"rpc", "resend", "drain"}
TaskKinds == {"idle", "create", "send", "message", "acknowledge", "resend", "ending",
              "callback", "diagnostic"}
Stages == LockStages \cup {"none", "request", "scheduled", "handler", "stopping"}
TaskRecord == [kind : TaskKinds, room : Rooms \cup {"none"}, stage : Stages,
               cancelled : BOOLEAN, stale : BOOLEAN]
TaskTable == [TaskSlots -> TaskRecord]

TransientType ==
  /\ tasks \in TaskTable
  /\ known \subseteq DOMAIN envelope /\ DOMAIN envelope \subseteq Rooms
  /\ envelope \in [DOMAIN envelope -> [sent : Nat, suspended : BOOLEAN]]
  /\ counter \in [Rooms -> Nat]
  /\ mail \in [Rooms -> Int]
  /\ retained = [c \in Rooms |-> retained[c]]
  /\ \A c \in Rooms : DOMAIN retained[c] \subseteq Int
  /\ served \in [Rooms -> SUBSET Int]

----------------------------------------------------------------------------
(* What the steps do to the tasks                                          *)

\* What a cancellation leaves alone.
Alike(t, u) == t.kind = u.kind /\ t.room = u.room /\ t.stage = u.stage
Calm(t) == t.kind # "create" /\ t.stage \notin LockStages

\* The tasks of `old`, cancelled or not, and new ones in place of some that held no lock.
Follows(ts, old) ==
  /\ ts \in TaskTable
  /\ \A w \in TaskSlots : Alike(ts[w], old[w]) \/ (old[w] = Idle /\ Calm(ts[w]))

LEMMA NewTask ==
  /\ Idle \in TaskRecord /\ Calm(Idle)
  /\ \A kind \in TaskKinds, room \in Rooms \cup {"none"}, stage \in Stages :
       /\ Task(kind, room, stage) \in TaskRecord
       /\ Task(kind, room, stage).kind = kind /\ Task(kind, room, stage).room = room
       /\ Task(kind, room, stage).stage = stage
BY DEF Idle, Task, TaskRecord, Calm, TaskKinds, Stages, LockStages

LEMMA CancelAlike ==
  ASSUME NEW ts \in TaskTable, NEW c, NEW own
  PROVE  /\ Cancel(ts, c, own) \in TaskTable
         /\ \A w \in TaskSlots : Alike(Cancel(ts, c, own)[w], ts[w])
BY DEF Cancel, TaskTable, TaskRecord, Alike

LEMMA SuspendTasks ==
  ASSUME NEW ts \in TaskTable, NEW c \in Rooms \cup {"none"}, NEW own, Suspend(c, own, ts), known \subseteq Rooms
  PROVE  Follows(tasks', ts)
<1>1. \A w \in TaskSlots : Alike(ts[w], ts[w])
  BY DEF Alike
<1>2. CASE tasks' = ts
  BY <1>1, <1>2 DEF Follows
<1> DEFINE cleared == Cancel(ts, c, own)
           told == Emitted(cleared, Task("diagnostic", "none", "scheduled"))
<1>3. cleared \in TaskTable /\ \A w \in TaskSlots : Alike(cleared[w], ts[w])
  BY CancelAlike
<1>4. CASE tasks' = cleared
  BY <1>3, <1>4 DEF Follows
<1>5. ASSUME c \in known, tasks' \in told PROVE Follows(tasks', ts)
  <2>1. PICK w \in TaskSlots : /\ cleared[w] = Idle
                               /\ tasks' = [cleared EXCEPT ![w] = Task("diagnostic", "none", "scheduled")]
    BY <1>5 DEF Emitted, Spare, Alive
  <2>2. ts[w] = Idle
    <3>1. c # "none"
      BY <1>5, TransientLimits
    <3>2. cleared[w] = IF ts[w].room = c /\ w # own /\ ts[w].stage # "stopping"
                       THEN [ts[w] EXCEPT !.cancelled = TRUE] ELSE ts[w]
      BY DEF Cancel
    <3>3. Alike(Idle, ts[w])
      BY <1>3, <2>1
    <3>4. ts[w].room = "none"
      BY <3>3 DEF Alike, Idle
    <3> HIDE DEF cleared
    <3> QED
      BY <2>1, <3>1, <3>2, <3>4
  <2>3. /\ Task("diagnostic", "none", "scheduled") \in TaskRecord
        /\ Calm(Task("diagnostic", "none", "scheduled"))
    BY NewTask DEF TaskKinds, Stages, Calm, LockStages
  <2> HIDE DEF cleared
  <2>4. tasks' \in TaskTable
    BY <1>3, <2>1, <2>3 DEF TaskTable
  <2>5. ASSUME NEW v \in TaskSlots PROVE Alike(tasks'[v], ts[v]) \/ (ts[v] = Idle /\ Calm(tasks'[v]))
    <3>1. CASE v = w
      BY <1>3, <2>1, <2>2, <2>3, <3>1 DEF TaskTable
    <3>2. CASE v # w
      <4>1. tasks'[v] = cleared[v]
        BY <1>3, <2>1, <3>2 DEF TaskTable
      <4> QED
        BY <1>3, <4>1
    <3> QED
      BY <3>1, <3>2
  <2> QED
    BY <2>4, <2>5 DEF Follows
<1> QED
  BY <1>2, <1>4, <1>5 DEF Suspend

----------------------------------------------------------------------------
(* What the steps do to the chats                                          *)

\* The frames and the mail of a chat change only while it is permitted, or are purged
\* as it is refused; a purge that fails is remembered.
Refuses ==
  \/ /\ UNCHANGED <<suspended, condemned, unwritten>>
     /\ \A c \in Rooms : ~ Permitted(c) => retained'[c] = retained[c] /\ mail'[c] = mail[c]
  \/ \E c \in known \ suspended :
       /\ suspended' = suspended \cup {c} /\ condemned' = condemned \cup {c}
       /\ \/ unwritten' = unwritten \cup {c} /\ retained'[c] = retained[c] /\ mail'[c] = mail[c]
          \/ unwritten' = unwritten /\ retained'[c] = <<>> /\ mail'[c] = 0
       /\ \A d \in Rooms \ {c} : retained'[d] = retained[d] /\ mail'[d] = mail[d]

\* No chat is new, and only a permitted one counts another frame.
SameChats ==
  /\ known' = known /\ DOMAIN envelope' = DOMAIN envelope
  /\ \A c \in DOMAIN envelope : ~ Permitted(c) => envelope'[c].sent = envelope[c].sent

LEMMA SuspendEffects ==
  ASSUME TransientType, NEW ts \in TaskTable, NEW c \in Rooms \cup {"none"}, NEW own,
         Suspend(c, own, ts), served' \in [Rooms -> SUBSET Int]
  PROVE  /\ TransientType' /\ Refuses /\ SameChats /\ counter' = counter
         /\ Follows(tasks', ts)
         /\ (c \in known => c \in suspended')
         /\ suspended \subseteq suspended'
         /\ \A d \in Rooms : retained'[d] = retained[d] \/ retained'[d] = <<>>
<1>1. Follows(tasks', ts) /\ tasks' \in TaskTable /\ known' = known /\ counter' = counter
  BY SuspendTasks DEF Suspend, TransientType, Follows
<1>2. CASE c \notin known \ suspended
  <2>1. UNCHANGED <<refusal, retained, mail>>
    BY <1>2 DEF Suspend
  <2> QED
    BY <1>1, <1>2, <2>1 DEF TransientType, Refuses, SameChats, refusal
<1>3. CASE c \in known \ suspended
  <2>1. c \in Rooms /\ c \in DOMAIN envelope
    BY <1>3 DEF TransientType
  <2>2. /\ suspended' = suspended \cup {c} /\ condemned' = condemned \cup {c}
        /\ \/ /\ retained' = [retained EXCEPT ![c] = <<>>] /\ mail' = [mail EXCEPT ![c] = 0]
              /\ envelope' = [envelope EXCEPT ![c].suspended = TRUE] /\ unwritten' = unwritten
           \/ unwritten' = unwritten \cup {c} /\ UNCHANGED <<retained, mail, envelope>>
    BY <1>3 DEF Suspend
  <2>3. /\ DOMAIN envelope' = DOMAIN envelope
        /\ envelope' \in [DOMAIN envelope -> [sent : Nat, suspended : BOOLEAN]]
        /\ \A d \in DOMAIN envelope : envelope'[d].sent = envelope[d].sent
    <3> DEFINE new == [envelope[c] EXCEPT !.suspended = TRUE]
    <3>1. envelope[c] \in [sent : Nat, suspended : BOOLEAN]
      BY <2>1 DEF TransientType
    <3>2. new \in [sent : Nat, suspended : BOOLEAN] /\ new.sent = envelope[c].sent
      BY <3>1
    <3>3. envelope' = [envelope EXCEPT ![c] = new] \/ envelope' = envelope
      BY <2>2
    <3> HIDE DEF new
    <3> QED
      BY <2>1, <3>2, <3>3 DEF TransientType
  <2>4. /\ mail' \in [Rooms -> Int] /\ retained' = [d \in Rooms |-> retained'[d]]
        /\ \A d \in Rooms \ {c} : retained'[d] = retained[d] /\ mail'[d] = mail[d]
        /\ \/ unwritten' = unwritten \cup {c} /\ retained'[c] = retained[c] /\ mail'[c] = mail[c]
           \/ unwritten' = unwritten /\ retained'[c] = <<>> /\ mail'[c] = 0
    BY <2>1, <2>2 DEF TransientType
  <2>5. TransientType'
    <3>1. ASSUME NEW d \in Rooms PROVE DOMAIN retained'[d] \subseteq Int
      <4>1. retained'[d] = retained[d] \/ retained'[d] = <<>>
        BY <2>4
      <4>2. DOMAIN <<>> = {}
        OBVIOUS
      <4>3. DOMAIN retained[d] \subseteq Int
        BY DEF TransientType
      <4> QED
        BY <4>1, <4>2, <4>3
    <3> QED
      BY <1>1, <2>3, <2>4, <3>1 DEF TransientType
  <2>6. Refuses
    BY <1>3, <2>2, <2>4 DEF Refuses
  <2>7. SameChats
    BY <1>1, <2>3 DEF SameChats
  <2>8. \A d \in Rooms : retained'[d] = retained[d] \/ retained'[d] = <<>>
    BY <2>4
  <2> QED
    BY <1>1, <2>2, <2>5, <2>6, <2>7, <2>8
<1> QED
  BY <1>2, <1>3

LEMMA EndedTask ==
  ASSUME tasks \in TaskTable, NEW w \in TaskSlots
  PROVE  /\ Ended(w) \in TaskTable /\ Ended(w)[w] = Idle
         /\ \A v \in TaskSlots \ {w} : Ended(w)[v] = tasks[v]
BY NewTask DEF Ended, TaskTable

LEMMA StagedTask ==
  ASSUME tasks \in TaskTable, NEW w \in TaskSlots, NEW stage \in Stages
  PROVE  /\ Staged(w, stage) \in TaskTable
         /\ Staged(w, stage)[w].kind = tasks[w].kind /\ Staged(w, stage)[w].room = tasks[w].room
         /\ Staged(w, stage)[w].stage = stage
         /\ \A v \in TaskSlots \ {w} : Staged(w, stage)[v] = tasks[v]
<1>1. tasks[w] \in TaskRecord
  BY DEF TaskTable
<1>2. /\ [tasks[w] EXCEPT !.stage = stage] \in TaskRecord
      /\ [tasks[w] EXCEPT !.stage = stage].kind = tasks[w].kind
      /\ [tasks[w] EXCEPT !.stage = stage].room = tasks[w].room
      /\ [tasks[w] EXCEPT !.stage = stage].stage = stage
  BY <1>1 DEF TaskRecord
<1>3. Staged(w, stage) = [tasks EXCEPT ![w] = [tasks[w] EXCEPT !.stage = stage]]
  BY DEF Staged
<1> QED
  BY <1>2, <1>3 DEF TaskTable

LEMMA GivenTask ==
  ASSUME NEW ts \in TaskTable, NEW w \in TaskSlots, NEW task \in TaskRecord
  PROVE  /\ [ts EXCEPT ![w] = task] \in TaskTable /\ [ts EXCEPT ![w] = task][w] = task
         /\ \A v \in TaskSlots \ {w} : [ts EXCEPT ![w] = task][v] = ts[v]
BY DEF TaskTable

LEMMA OvertakenTask ==
  ASSUME NEW ts \in TaskTable
  PROVE  Overtaken(ts) \in TaskTable /\ \A w \in TaskSlots : Alike(Overtaken(ts)[w], ts[w])
BY DEF Overtaken, TaskTable, TaskRecord, Alike

----------------------------------------------------------------------------
(* The ordinary steps: all but a new chat, a start and the process's death *)

NoNewCreate ==
  \A w \in TaskSlots : tasks'[w].kind = "create" => tasks[w].kind = "create" /\ tasks'[w].room = tasks[w].room
Ordinary == TransientType' /\ Refuses /\ SameChats /\ NoNewCreate

LEMMA RestsOrdinary ==
  ASSUME TransientType, UNCHANGED <<memory, refusal, served>>,
         tasks' \in TaskTable, NoNewCreate
  PROVE  Ordinary
BY DEF TransientType, Ordinary, Refuses, SameChats, memory, refusal

LEMMA SuspendOrdinary ==
  ASSUME TransientType, NEW ts \in TaskTable, NEW c \in Rooms \cup {"none"}, NEW own,
         \A w \in TaskSlots : ts[w].kind = "create" => Alike(ts[w], tasks[w]),
         Suspend(c, own, ts), served' \in [Rooms -> SUBSET Int]
  PROVE  Ordinary
<1>1. TransientType' /\ Refuses /\ SameChats /\ Follows(tasks', ts)
  BY SuspendEffects
<1>2. NoNewCreate
  BY <1>1 DEF NoNewCreate, Follows, Alike, Calm
<1> QED
  BY <1>1, <1>2 DEF Ordinary

LEMMA EndSuspends ==
  ASSUME TransientType, NEW w \in TaskSlots, NEW own, Suspend(tasks[w].room, own, Ended(w)),
         served' \in [Rooms -> SUBSET Int]
  PROVE  Ordinary
<1>1. Ended(w) \in TaskTable /\ tasks[w].room \in Rooms \cup {"none"}
  BY EndedTask DEF TransientType, TaskTable, TaskRecord
<1>2. \A v \in TaskSlots : Ended(w)[v].kind = "create" => Alike(Ended(w)[v], tasks[v])
  BY EndedTask, NewTask DEF TransientType, Alike, Calm
<1> QED
  BY <1>1, <1>2, SuspendOrdinary

\* A worker's task is replaced by one that does not create a chat, or ends.
LEMMA ReplacedOrdinary ==
  ASSUME TransientType, NEW w \in TaskSlots, tasks' \in TaskTable,
         \A v \in TaskSlots \ {w} : tasks'[v] = tasks[v],
         tasks'[w].kind # "create"
  PROVE  NoNewCreate
BY DEF NoNewCreate

LEMMA SendOrdinary ==
  ASSUME TransientType, NEW w \in TaskSlots, SendFrame(w) \/ SendAnswered(w) \/ SendFailed(w)
  PROVE  Ordinary
<1> DEFINE c == tasks[w].room
<1>1. c \in Rooms \cup {"none"} /\ tasks \in TaskTable
  BY DEF TransientType, TaskTable, TaskRecord
<1>2. CASE SendFrame(w) /\ Suspend(c, w, Ended(w))
  BY <1>2, EndSuspends DEF SendFrame, TransientType
<1>3. CASE /\ SendFrame(w) /\ Permitted(c)
           /\ retained' = [retained EXCEPT ![c] =
                  [s \in DOMAIN @ \cup {counter[c]} |-> IF s \in DOMAIN @ THEN @[s] ELSE 1]]
           /\ counter' = [counter EXCEPT ![c] = @ + 1]
           /\ envelope' = [envelope EXCEPT ![c].sent = counter[c] + 1]
           /\ tasks' = Staged(w, "rpc")
           /\ UNCHANGED <<known, mail, suspended, condemned, unwritten>>
  <2>1. c \in DOMAIN envelope /\ c \in Rooms /\ counter[c] \in Nat
    BY <1>3 DEF Permitted, TransientType
  <2>2. /\ DOMAIN envelope' = DOMAIN envelope
        /\ envelope' \in [DOMAIN envelope -> [sent : Nat, suspended : BOOLEAN]]
        /\ \A d \in DOMAIN envelope \ {c} : envelope'[d] = envelope[d]
    <3> DEFINE new == [envelope[c] EXCEPT !.sent = counter[c] + 1]
    <3>1. envelope[c] \in [sent : Nat, suspended : BOOLEAN]
      BY <2>1 DEF TransientType
    <3>2. new \in [sent : Nat, suspended : BOOLEAN]
      BY <2>1, <3>1
    <3>3. envelope' = [envelope EXCEPT ![c] = new]
      BY <1>3
    <3> HIDE DEF new
    <3> QED
      BY <2>1, <3>2, <3>3 DEF TransientType
  <2>3. counter' \in [Rooms -> Nat]
    BY <1>3, <2>1 DEF TransientType
  <2>4. retained' = [d \in Rooms |-> retained'[d]] /\ \A d \in Rooms \ {c} : retained'[d] = retained[d]
    <3> DEFINE new == [s \in DOMAIN retained[c] \cup {counter[c]} |->
                         IF s \in DOMAIN retained[c] THEN retained[c][s] ELSE 1]
    <3>1. retained' = [retained EXCEPT ![c] = new]
      BY <1>3
    <3> HIDE DEF new
    <3> QED
      BY <3>1 DEF TransientType
  <2>10. \A d \in Rooms : DOMAIN retained'[d] \subseteq Int
    <3> DEFINE new == [s \in DOMAIN retained[c] \cup {counter[c]} |->
                         IF s \in DOMAIN retained[c] THEN retained[c][s] ELSE 1]
    <3>1. retained' = [retained EXCEPT ![c] = new]
      BY <1>3
    <3>2. DOMAIN new \subseteq Int
      BY <2>1 DEF TransientType
    <3> HIDE DEF new
    <3> QED
      BY <2>1, <3>1, <3>2 DEF TransientType
  <2>5. tasks' \in TaskTable /\ NoNewCreate
    BY <1>1, <1>3, StagedTask, ReplacedOrdinary DEF Stages, LockStages, SendFrame
  <2>6. served' = served /\ mail' = mail /\ known' = known
    BY <1>3 DEF SendFrame
  <2>7. TransientType'
    BY <2>2, <2>3, <2>4, <2>10, <2>5, <2>6 DEF TransientType
  <2>8. Refuses
    BY <1>3, <2>4, <2>6 DEF Refuses
  <2>9. SameChats
    BY <1>3, <2>2, <2>6 DEF SameChats
  <2> QED
    BY <2>5, <2>7, <2>8, <2>9 DEF Ordinary
<1>4. CASE SendAnswered(w)
  <2>1. served' \in [Rooms -> SUBSET Int] /\ UNCHANGED <<memory, refusal>>
    <3>1. c \in Rooms => counter[c] - 1 \in Int
      BY DEF TransientType
    <3> QED
      BY <1>4, <3>1 DEF SendAnswered, TransientType
  <2>2. tasks' = Ended(w) \/ (tasks' = Staged(w, "handler") /\ tasks[w].kind = "callback")
    BY <1>4 DEF SendAnswered
  <2>3. tasks' \in TaskTable
    BY <1>1, <2>2, EndedTask, StagedTask DEF Stages
  <2>4. NoNewCreate
    BY <1>1, <2>2, <2>3, EndedTask, StagedTask, ReplacedOrdinary, NewTask DEF Stages, Calm
  <2> QED
    BY <2>1, <2>3, <2>4 DEF TransientType, Ordinary, Refuses, SameChats, memory, refusal
<1>5. CASE SendFailed(w)
  <2>1. served' \in [Rooms -> SUBSET Int]
    <3>1. c \in Rooms => counter[c] - 1 \in Int
      BY DEF TransientType
    <3> QED
      BY <1>5, <3>1 DEF SendFailed, TransientType
  <2> QED
    BY <1>5, <2>1, EndSuspends DEF SendFailed
<1> QED
  BY <1>2, <1>3, <1>4, <1>5 DEF SendFrame

\* A task given to a free worker, or none, when a handler is told.
LEMMA EmittedTask ==
  ASSUME NEW ts \in TaskTable, NEW task \in TaskRecord, NEW after \in Emitted(ts, task)
  PROVE  /\ after \in TaskTable
         /\ \E w \in TaskSlots : /\ ts[w] = Idle /\ after[w] = task
                                 /\ \A v \in TaskSlots \ {w} : after[v] = ts[v]
<1>1. PICK w \in TaskSlots : ts[w] = Idle /\ after = [ts EXCEPT ![w] = task]
  BY DEF Emitted, Spare, Alive
<1>2. after \in TaskTable /\ after[w] = task /\ \A v \in TaskSlots \ {w} : after[v] = ts[v]
  BY <1>1 DEF TaskTable
<1> QED
  BY <1>1, <1>2

LEMMA FrameOrdinary ==
  ASSUME TransientType, NEW w \in TaskSlots, ApplyFrame(w) \/ Resend(w) \/ Deliver(w)
  PROVE  Ordinary
<1> DEFINE c == tasks[w].room
<1>1. c \in Rooms \cup {"none"} /\ tasks \in TaskTable /\ served \in [Rooms -> SUBSET Int]
  BY DEF TransientType, TaskTable, TaskRecord
<1>2. CASE Suspend(c, w, Ended(w)) /\ UNCHANGED served
  BY <1>1, <1>2, EndSuspends
<1>3. CASE ApplyFrame(w) /\ tasks' \in {Ended(w), Staged(w, "drain"), Staged(w, "resend")}
             /\ tasks[w].kind # "create" /\ Permitted(c)
             /\ \/ mail' = [mail EXCEPT ![c] = @ + 1]
                   /\ UNCHANGED <<known, counter, retained, refusal>>
                \/ retained' = [retained EXCEPT ![c] = <<>>]
                   /\ UNCHANGED <<known, counter, mail, refusal>>
                \/ UNCHANGED <<memory, refusal>>
  <2>1. tasks' \in TaskTable /\ NoNewCreate
    BY <1>1, <1>3, EndedTask, StagedTask, NewTask, ReplacedOrdinary DEF Stages, LockStages, Calm
  <2>2. UNCHANGED <<known, counter, refusal, served>> /\ c \in Rooms
    BY <1>3 DEF ApplyFrame, memory, Permitted, TransientType
  <2>3. mail' \in [Rooms -> Int] /\ \A d \in Rooms \ {c} : mail'[d] = mail[d]
    BY <1>3, <2>2 DEF TransientType, memory
  <2>4. /\ retained' = [d \in Rooms |-> retained'[d]]
        /\ \A d \in Rooms \ {c} : retained'[d] = retained[d]
        /\ \A d \in Rooms : DOMAIN retained'[d] \subseteq Int
    BY <1>3, <2>2 DEF TransientType, memory
  <2> QED
    BY <1>3, <2>1, <2>2, <2>3, <2>4 DEF Ordinary, TransientType, Refuses, SameChats, refusal
<1>4. CASE /\ Resend(w) /\ Permitted(c) /\ DOMAIN retained[c] # {}
           /\ \A s \in DOMAIN retained[c] : retained[c][s] < AttemptLimit
           /\ retained' = [retained EXCEPT ![c] = [s \in DOMAIN @ |-> @[s] + 1]]
           /\ served' = [served EXCEPT ![c] = @ \cup DOMAIN retained[c]]
           /\ tasks' = Ended(w)
           /\ UNCHANGED <<known, counter, mail, refusal>>
  <2>1. tasks' \in TaskTable /\ NoNewCreate
    BY <1>1, <1>4, EndedTask, NewTask, ReplacedOrdinary DEF Calm
  <2>2. c \in Rooms
    BY <1>4 DEF Permitted, TransientType
  <2>3. served' \in [Rooms -> SUBSET Int]
    BY <1>1, <1>4, <2>2 DEF TransientType
  <2>4. /\ retained' = [d \in Rooms |-> retained'[d]]
        /\ \A d \in Rooms \ {c} : retained'[d] = retained[d]
        /\ \A d \in Rooms : DOMAIN retained'[d] \subseteq Int
    <3> DEFINE new == [s \in DOMAIN retained[c] |-> retained[c][s] + 1]
    <3>1. retained' = [retained EXCEPT ![c] = new] /\ DOMAIN new = DOMAIN retained[c]
      BY <1>4
    <3> HIDE DEF new
    <3> QED
      BY <2>2, <3>1 DEF TransientType
  <2> QED
    BY <1>4, <2>1, <2>2, <2>3, <2>4 DEF Ordinary, TransientType, Refuses, SameChats, refusal
<1>5. CASE /\ Deliver(w) /\ Permitted(c)
           /\ tasks' \in Emitted(Ended(w), Task("callback", c, "scheduled"))
           /\ mail' = [mail EXCEPT ![c] = @ - 1]
           /\ UNCHANGED <<known, counter, retained, refusal, served>>
  <2>1. Task("callback", c, "scheduled") \in TaskRecord /\ Calm(Task("callback", c, "scheduled"))
    BY <1>1, NewTask DEF TaskKinds, Stages, Calm, LockStages
  <2>2. tasks' \in TaskTable /\ NoNewCreate
    <3>1. PICK u \in TaskSlots :
            /\ tasks' \in TaskTable /\ tasks'[u] = Task("callback", c, "scheduled")
            /\ \A v \in TaskSlots \ {u} : tasks'[v] = Ended(w)[v]
      BY <1>1, <1>5, <2>1, EndedTask, EmittedTask
    <3> QED
      BY <1>1, <2>1, <3>1, EndedTask, NewTask DEF NoNewCreate, Alike, Calm
  <2>3. c \in Rooms
    BY <1>5 DEF Permitted, TransientType
  <2>4. mail' \in [Rooms -> Int] /\ \A d \in Rooms \ {c} : mail'[d] = mail[d]
    BY <1>5, <2>3 DEF TransientType
  <2> QED
    BY <1>5, <2>2, <2>4 DEF Ordinary, TransientType, Refuses, SameChats, refusal
<1>6. CASE ApplyFrame(w)
  <2>1. \/ Suspend(c, w, Ended(w))
        \/ /\ Permitted(c) /\ tasks[w].kind \in {"message", "acknowledge", "resend", "ending"}
           /\ \/ tasks' = Staged(w, "drain") /\ mail' = [mail EXCEPT ![c] = @ + 1]
                 /\ UNCHANGED <<known, counter, retained, refusal>>
              \/ tasks' = Ended(w) /\ retained' = [retained EXCEPT ![c] = <<>>]
                 /\ UNCHANGED <<known, counter, mail, refusal>>
              \/ tasks' = Staged(w, "resend") /\ UNCHANGED <<memory, refusal>>
    BY <1>6 DEF ApplyFrame
  <2>2. UNCHANGED served
    BY <1>6 DEF ApplyFrame
  <2> QED
    BY <1>2, <1>3, <1>6, <2>1, <2>2
<1>7. CASE Resend(w)
  BY <1>2, <1>4, <1>7 DEF Resend
<1>8. CASE Deliver(w)
  BY <1>2, <1>5, <1>8 DEF Deliver
<1> QED
  BY <1>6, <1>7, <1>8

LEMMA CallbackOrdinary ==
  ASSUME TransientType, NEW w \in TaskSlots, Enter(w) \/ HandlerEnds(w) \/ Yield(w) \/ StopReturns(w)
  PROVE  Ordinary
<1>1. tasks \in TaskTable /\ served \in [Rooms -> SUBSET Int] /\ UNCHANGED served
  BY DEF TransientType, Enter, HandlerEnds, Yield, StopReturns
<1>2. CASE Suspend(tasks[w].room, w, Ended(w))
  BY <1>1, <1>2, EndSuspends
<1>3. CASE tasks' = Ended(w) /\ UNCHANGED <<memory, refusal>>
  <2>1. tasks' \in TaskTable /\ NoNewCreate
    BY <1>1, <1>3, EndedTask, NewTask, ReplacedOrdinary DEF Calm
  <2> QED
    BY <1>1, <1>3, <2>1, RestsOrdinary
<1>4. CASE /\ tasks' = Staged(w, "handler") /\ UNCHANGED <<memory, refusal>>
           /\ tasks[w].kind \in {"callback", "diagnostic"}
  <2>1. tasks' \in TaskTable /\ NoNewCreate
    BY <1>1, <1>4, StagedTask, ReplacedOrdinary DEF Stages
  <2> QED
    BY <1>1, <1>4, <2>1, RestsOrdinary
<1> QED
  BY <1>2, <1>3, <1>4 DEF Enter, HandlerEnds, Yield, StopReturns

LEMMA StillOrdinary ==
  ASSUME TransientType, NEW c \in Rooms \cup {"none"}, Suspend(c, "none", tasks), UNCHANGED served
  PROVE  Ordinary
<1>1. tasks \in TaskTable /\ served' \in [Rooms -> SUBSET Int]
  BY DEF TransientType
<1>2. \A w \in TaskSlots : Alike(tasks[w], tasks[w])
  BY DEF Alike
<1> QED
  BY <1>1, <1>2, SuspendOrdinary

LEMMA DeadlineOrdinary ==
  ASSUME TransientType, NEW w \in TaskSlots, Deadline(w)
  PROVE  Ordinary
<1> DEFINE late == [tasks EXCEPT ![w].cancelled = TRUE]
<1>1. late \in TaskTable /\ \A v \in TaskSlots : Alike(late[v], tasks[v])
  BY DEF TransientType, TaskTable, TaskRecord, Alike
<1>2. tasks[w].room \in Rooms \cup {"none"} /\ served' \in [Rooms -> SUBSET Int] /\ UNCHANGED served
  BY DEF TransientType, TaskTable, TaskRecord, Deadline
<1> HIDE DEF late
<1>3. CASE tasks' = Overtaken(late) /\ UNCHANGED <<memory, refusal>>
  <2>1. tasks' \in TaskTable /\ \A v \in TaskSlots : Alike(tasks'[v], late[v])
    BY <1>1, <1>3, OvertakenTask
  <2>2. NoNewCreate
    BY <1>1, <2>1 DEF NoNewCreate, Alike
  <2> QED
    BY <1>2, <1>3, <2>1, <2>2, RestsOrdinary
<1>4. CASE Suspend(tasks[w].room, "none", late)
  BY <1>1, <1>2, <1>4, SuspendOrdinary
<1> QED
  BY <1>3, <1>4 DEF Deadline, late

\* stop() cancels tasks and marks the handlers that wait for it; no task moves.
LEMMA BeginStopTasks ==
  ASSUME tasks \in TaskTable, BeginStop
  PROVE  /\ tasks' \in TaskTable
         /\ \A w \in TaskSlots :
              /\ tasks'[w].kind = tasks[w].kind /\ tasks'[w].room = tasks[w].room
              /\ \/ tasks'[w].stage = tasks[w].stage
                 \/ tasks'[w].stage = "stopping" /\ tasks[w].stage = "handler"
<1>1. PICK callers \in SUBSET {w \in TaskSlots : tasks[w].stage = "handler"} :
        tasks' = Overtaken([w \in TaskSlots |->
           IF tasks[w] = Idle THEN Idle
           ELSE IF w \in callers \/ tasks[w].stage = "stopping"
                THEN [tasks[w] EXCEPT !.stage = "stopping"]
           ELSE [tasks[w] EXCEPT !.cancelled = TRUE]])
  BY DEF BeginStop
<1> DEFINE next(w) == IF tasks[w] = Idle THEN Idle
                      ELSE IF w \in callers \/ tasks[w].stage = "stopping"
                           THEN [tasks[w] EXCEPT !.stage = "stopping"]
                      ELSE [tasks[w] EXCEPT !.cancelled = TRUE]
           told == [w \in TaskSlots |-> next(w)]
<1>2. ASSUME NEW w \in TaskSlots
      PROVE  /\ next(w) \in TaskRecord
             /\ next(w).kind = tasks[w].kind /\ next(w).room = tasks[w].room
             /\ \/ next(w).stage = tasks[w].stage
                \/ next(w).stage = "stopping" /\ tasks[w].stage = "handler"
  <2>1. tasks[w] \in TaskRecord
    BY DEF TaskTable
  <2> QED
    BY <2>1, NewTask DEF TaskRecord, Stages
<1> HIDE DEF next
<1>3. told \in TaskTable /\ \A w \in TaskSlots : told[w] = next(w)
  BY <1>2 DEF TaskTable
<1>4. tasks' = Overtaken(told)
  BY <1>1 DEF next
<1> HIDE DEF told
<1>5. tasks' \in TaskTable /\ \A w \in TaskSlots : Alike(tasks'[w], told[w])
  BY <1>3, <1>4, OvertakenTask
<1> QED
  BY <1>2, <1>3, <1>5 DEF Alike

LEMMA StopOrdinary ==
  ASSUME TransientType, BeginStop \/ Incomplete \/ FinishStop
  PROVE  Ordinary
<1>1. tasks \in TaskTable /\ UNCHANGED served /\ \A w \in TaskSlots : Alike(tasks[w], tasks[w])
  BY DEF TransientType, BeginStop, Incomplete, FinishStop, Alike
<1>2. CASE Incomplete \/ (FinishStop /\ UNCHANGED <<memory, refusal, tasks>>)
  <2>1. NoNewCreate /\ tasks' \in TaskTable
    BY <1>1, <1>2 DEF NoNewCreate, Incomplete
  <2> QED
    BY <1>1, <1>2, <2>1, RestsOrdinary DEF Incomplete
<1>3. CASE \E c \in known \ suspended : Suspend(c, "none", tasks)
  BY <1>1, <1>3, StillOrdinary DEF TransientType
<1>4. CASE BeginStop
  <2>1. tasks' \in TaskTable /\ NoNewCreate
    BY <1>1, <1>4, BeginStopTasks DEF NoNewCreate
  <2> QED
    BY <1>1, <1>4, <2>1, RestsOrdinary DEF BeginStop
<1> QED
  BY <1>2, <1>3, <1>4 DEF FinishStop

LEMMA EntryOrdinary ==
  ASSUME TransientType, NEW c \in Rooms,
         (\E w \in TaskSlots : AdmitSend(w, c)) \/ TakeUpdate(c) \/ Expire(c) \/ Close(c)
  PROVE  Ordinary
<1>1. tasks \in TaskTable /\ UNCHANGED served
  BY DEF TransientType, AdmitSend, TakeUpdate, Expire, Close
<1>2. CASE Suspend(c, "none", tasks)
  BY <1>1, <1>2, StillOrdinary
<1>3. ASSUME NEW w \in TaskSlots, UNCHANGED <<memory, refusal>>,
             NEW kind \in {"send", "message", "acknowledge", "resend", "ending"},
             tasks' = [tasks EXCEPT ![w] = Task(kind, c, "scheduled")]
      PROVE  Ordinary
  <2>1. Task(kind, c, "scheduled") \in TaskRecord /\ Task(kind, c, "scheduled").kind # "create"
    BY NewTask DEF TaskKinds, Stages
  <2>3. /\ tasks' \in TaskTable /\ tasks'[w].kind # "create"
        /\ \A v \in TaskSlots \ {w} : tasks'[v] = tasks[v]
    <3> QED
      BY <1>1, <1>3, <2>1 DEF TaskTable
  <2>2. tasks' \in TaskTable /\ NoNewCreate
    BY <2>3, ReplacedOrdinary
  <2> QED
    BY <1>1, <1>3, <2>2, RestsOrdinary
<1>4. CASE \E w \in TaskSlots : AdmitSend(w, c)
  <2>1. PICK w \in TaskSlots : AdmitSend(w, c)
    BY <1>4
  <2>2. tasks' = [tasks EXCEPT ![w] = Task("send", c, "scheduled")] /\ UNCHANGED <<memory, refusal>>
    BY <2>1 DEF AdmitSend
  <2> QED
    BY <1>3, <2>2
<1>5. CASE TakeUpdate(c)
  <2>1. \/ Suspend(c, "none", tasks)
        \/ \E w \in TaskSlots, kind \in {"message", "acknowledge", "resend", "ending"} :
             /\ tasks' = [tasks EXCEPT ![w] = Task(kind, c, "scheduled")]
             /\ UNCHANGED <<memory, refusal>>
    BY <1>5 DEF TakeUpdate, Spare
  <2> QED
    BY <1>2, <1>3, <2>1
<1> QED
  BY <1>2, <1>4, <1>5 DEF Expire, Close

\* Every step is an ordinary one, or is one of the four that are not.
LEMMA OrdinaryStep ==
  ASSUME TransientType, [TransientNext]_transientVars
  PROVE  \/ Ordinary
         \/ \E w \in TaskSlots : RequestChat(w) \/ ChatCreated(w)
         \/ Start \/ ProcessDies
<1>1. CASE UNCHANGED transientVars
  <2>1. UNCHANGED <<memory, refusal, served, tasks>>
    BY <1>1 DEF transientVars
  <2>2. tasks' \in TaskTable /\ NoNewCreate
    BY <2>1 DEF NoNewCreate, TransientType
  <2> QED
    BY <2>1, <2>2, RestsOrdinary
<1>2. ASSUME NEW w \in TaskSlots,
             \/ \E c \in Rooms : AdmitSend(w, c)
             \/ SendFrame(w) \/ SendAnswered(w) \/ SendFailed(w)
             \/ ApplyFrame(w) \/ Resend(w) \/ Deliver(w)
             \/ Enter(w) \/ HandlerEnds(w) \/ Yield(w) \/ Deadline(w) \/ StopReturns(w)
      PROVE  Ordinary
  BY <1>2, EntryOrdinary, SendOrdinary, FrameOrdinary, CallbackOrdinary, DeadlineOrdinary
<1>3. CASE (\E c \in Rooms : TakeUpdate(c) \/ Expire(c) \/ Close(c)) \/ BeginStop \/ Incomplete \/ FinishStop
  BY <1>3, EntryOrdinary, StopOrdinary
<1> QED
  BY <1>1, <1>2, <1>3 DEF TransientNext

----------------------------------------------------------------------------
(* The other four                                                          *)

LEMMA RequestEffects ==
  ASSUME TransientType, NEW w \in TaskSlots, RequestChat(w)
  PROVE  /\ TransientType' /\ UNCHANGED <<memory, refusal, served>>
         /\ \E c \in Rooms \ DOMAIN envelope :
              /\ \A v \in TaskSlots : ~ (tasks[v].kind = "create" /\ tasks[v].room = c)
              /\ tasks'[w].kind = "create" /\ tasks'[w].room = c /\ tasks'[w].stage = "request"
              /\ tasks[w] = Idle
              /\ \A v \in TaskSlots \ {w} : tasks'[v] = tasks[v]
<1>1. PICK c \in Rooms \ (known \cup DOMAIN envelope) :
        /\ \A v \in TaskSlots : ~ (tasks[v].kind = "create" /\ tasks[v].room = c)
        /\ tasks' = [tasks EXCEPT ![w] = Task("create", c, "request")]
  BY DEF RequestChat
<1>2. /\ Task("create", c, "request") \in TaskRecord
      /\ Task("create", c, "request").kind = "create" /\ Task("create", c, "request").room = c
      /\ Task("create", c, "request").stage = "request"
  BY NewTask DEF TaskKinds, Stages
<1>3. /\ tasks' \in TaskTable /\ tasks'[w] = Task("create", c, "request")
      /\ \A v \in TaskSlots \ {w} : tasks'[v] = tasks[v]
  BY <1>1, <1>2 DEF TransientType, TaskTable
<1>4. UNCHANGED <<memory, refusal, served>> /\ tasks[w] = Idle
  BY DEF RequestChat, Spare, Alive
<1>5. TransientType'
  BY <1>3, <1>4 DEF TransientType, memory, refusal
<1> QED
  BY <1>1, <1>2, <1>3, <1>4, <1>5

LEMMA CreatedEffects ==
  ASSUME TransientType, NEW w \in TaskSlots, ChatCreated(w), tasks[w].room \in Rooms
  PROVE  /\ TransientType'
         /\ UNCHANGED <<counter, retained, mail, suspended, condemned, unwritten, served>>
         /\ tasks[w].kind = "create" /\ tasks'[w] = Idle
         /\ \A v \in TaskSlots \ {w} : tasks'[v] = tasks[v]
         /\ \/ UNCHANGED <<known, envelope>>
            \/ /\ known' = known \cup {tasks[w].room}
               /\ DOMAIN envelope' = DOMAIN envelope \cup {tasks[w].room}
               /\ \A d \in DOMAIN envelope \ {tasks[w].room} : envelope'[d].sent = envelope[d].sent
<1> DEFINE c == tasks[w].room
           new == [d \in DOMAIN envelope \cup {c} |->
                     IF d = c THEN [sent |-> 0, suspended |-> FALSE] ELSE envelope[d]]
<1>1. /\ tasks' \in TaskTable /\ tasks'[w] = Idle /\ tasks[w].kind = "create"
      /\ \A v \in TaskSlots \ {w} : tasks'[v] = tasks[v]
  BY EndedTask DEF ChatCreated, TransientType
<1>2. UNCHANGED <<counter, retained, mail, suspended, condemned, unwritten, served>>
  BY DEF ChatCreated
<1>3. UNCHANGED <<known, envelope>> \/ (known' = known \cup {c} /\ envelope' = new)
  BY DEF ChatCreated
<1>4. /\ DOMAIN new = DOMAIN envelope \cup {c}
      /\ new \in [DOMAIN new -> [sent : Nat, suspended : BOOLEAN]]
      /\ \A d \in DOMAIN envelope \ {c} : new[d].sent = envelope[d].sent
  BY DEF TransientType
<1> HIDE DEF new
<1>5. TransientType'
  BY <1>1, <1>2, <1>3, <1>4 DEF TransientType
<1> QED
  BY <1>1, <1>2, <1>3, <1>4, <1>5

LEMMA StartEffects ==
  ASSUME TransientType, Start
  PROVE  /\ TransientType'
         /\ known' = DOMAIN envelope /\ DOMAIN envelope' = DOMAIN envelope
         /\ suspended' = suspended \cup DOMAIN envelope
         /\ condemned' = condemned \cup DOMAIN envelope
         /\ \A d \in DOMAIN envelope : envelope'[d].sent = envelope[d].sent
         /\ \A d \in Rooms : /\ retained'[d] = <<>> /\ mail'[d] = 0
                             /\ (d \notin DOMAIN envelope => counter'[d] = 0)
         /\ UNCHANGED <<tasks, served>> /\ \A w \in TaskSlots : tasks[w] = Idle
<1> DEFINE new == [c \in DOMAIN envelope |-> [envelope[c] EXCEPT !.suspended = c \in suspended']]
<1>1. /\ new \in [DOMAIN envelope -> [sent : Nat, suspended : BOOLEAN]]
      /\ \A d \in DOMAIN envelope : new[d].sent = envelope[d].sent
  <2>1. ASSUME NEW c \in DOMAIN envelope, NEW flag \in BOOLEAN
        PROVE  /\ [envelope[c] EXCEPT !.suspended = flag] \in [sent : Nat, suspended : BOOLEAN]
               /\ [envelope[c] EXCEPT !.suspended = flag].sent = envelope[c].sent
    <3>1. envelope[c] \in [sent : Nat, suspended : BOOLEAN]
      BY DEF TransientType
    <3> QED
      BY <3>1
  <2>2. \A c \in DOMAIN envelope : (c \in suspended') \in BOOLEAN
    OBVIOUS
  <2> QED
    BY <2>1, <2>2
<1>2. envelope' = envelope \/ envelope' = new
  BY DEF Start
<1> HIDE DEF new
<1>3. /\ envelope' \in [DOMAIN envelope -> [sent : Nat, suspended : BOOLEAN]]
      /\ DOMAIN envelope' = DOMAIN envelope
      /\ \A d \in DOMAIN envelope : envelope'[d].sent = envelope[d].sent
  BY <1>1, <1>2 DEF TransientType
<1>4. /\ known' = DOMAIN envelope /\ UNCHANGED <<tasks, served>>
      /\ suspended' = suspended \cup DOMAIN envelope /\ condemned' = condemned \cup DOMAIN envelope
      /\ retained' = [c \in Rooms |-> <<>>] /\ mail' = [c \in Rooms |-> 0]
      /\ \A w \in TaskSlots : tasks[w] = Idle
  BY DEF Start, Reconstructed, Alive
<1>5. counter' \in [Rooms -> Nat] /\ \A d \in Rooms : d \notin DOMAIN envelope => counter'[d] = 0
  BY DEF Start, TransientType
<1>6. \A c \in Rooms : DOMAIN retained'[c] \subseteq Int
  <2>1. DOMAIN <<>> = {}
    OBVIOUS
  <2> QED
    BY <1>4, <2>1
<1>7. TransientType'
  BY <1>3, <1>4, <1>5, <1>6 DEF TransientType
<1> QED
  BY <1>3, <1>4, <1>5, <1>7

LEMMA DeathEffects ==
  ASSUME TransientType, ProcessDies
  PROVE  /\ TransientType'
         /\ known' = {} /\ suspended' = {} /\ unwritten' = {}
         /\ condemned' = condemned \cup known
         /\ \A d \in Rooms : counter'[d] = 0 /\ retained'[d] = <<>> /\ mail'[d] = 0
         /\ UNCHANGED <<envelope, served>> /\ \A w \in TaskSlots : tasks'[w] = Idle
<1>1. /\ known' = {} /\ suspended' = {} /\ unwritten' = {} /\ condemned' = condemned \cup known
      /\ UNCHANGED <<envelope, served>> /\ tasks' = [w \in TaskSlots |-> Idle]
      /\ counter' = [c \in Rooms |-> 0]
      /\ retained' = [c \in Rooms |-> <<>>] /\ mail' = [c \in Rooms |-> 0]
  BY DEF ProcessDies
<1>2. tasks' \in TaskTable /\ \A w \in TaskSlots : tasks'[w] = Idle
  BY <1>1, NewTask DEF TaskTable
<1>3. \A c \in Rooms : DOMAIN retained'[c] \subseteq Int
  <2>1. DOMAIN <<>> = {}
    OBVIOUS
  <2> QED
    BY <1>1, <2>1
<1>4. TransientType'
  BY <1>1, <1>2, <1>3 DEF TransientType
<1> QED
  BY <1>1, <1>2, <1>4

----------------------------------------------------------------------------
(* A refused chat stays quiet                                              *)

\* Every chat that was refused, or open when the process died, is on disk, and is
\* refused whenever it is known.  A create under way is for a chat not on disk,
\* and no other create is for the same chat.
QuietInv ==
  /\ TransientType
  /\ suspended \subseteq DOMAIN envelope /\ condemned \subseteq DOMAIN envelope
  /\ condemned \cap known \subseteq suspended
  /\ \A w \in TaskSlots : tasks[w].kind = "create" => tasks[w].room \in Rooms \ DOMAIN envelope
  /\ \A v, w \in TaskSlots :
       tasks[v].kind = "create" /\ tasks[w].kind = "create" /\ tasks[v].room = tasks[w].room => v = w

LEMMA InitQuiet == TransientInit => QuietInv
<1> SUFFICES ASSUME TransientInit PROVE QuietInv
  OBVIOUS
<1>1. envelope = <<>> /\ DOMAIN envelope = {} /\ known = {} /\ suspended = {} /\ condemned = {}
  BY DEF TransientInit
<1>2. envelope \in [DOMAIN envelope -> [sent : Nat, suspended : BOOLEAN]]
  BY <1>1
<1>3. tasks \in TaskTable /\ \A w \in TaskSlots : tasks[w].kind # "create"
  BY NewTask DEF TransientInit, TaskTable, Calm
<1>4. retained = [c \in Rooms |-> retained[c]] /\ \A c \in Rooms : DOMAIN retained[c] \subseteq Int
  <2>1. DOMAIN <<>> = {}
    OBVIOUS
  <2> QED
    BY <2>1 DEF TransientInit
<1>5. TransientType
  BY <1>1, <1>2, <1>3, <1>4 DEF TransientType, TransientInit
<1> QED
  BY <1>1, <1>3, <1>5 DEF QuietInv

LEMMA QuietStep ==
  ASSUME QuietInv, [TransientNext]_transientVars
  PROVE  /\ QuietInv'
         /\ \A c \in condemned \cap DOMAIN envelope : envelope'[c].sent = envelope[c].sent
<1>1. CASE Ordinary
  <2>1. TransientType' /\ known' = known /\ DOMAIN envelope' = DOMAIN envelope
    BY <1>1 DEF Ordinary, SameChats
  <2>2. /\ suspended' \subseteq DOMAIN envelope' /\ condemned' \subseteq DOMAIN envelope'
        /\ condemned' \cap known' \subseteq suspended'
    BY <1>1, <2>1 DEF QuietInv, TransientType, Ordinary, Refuses
  <2>3. /\ \A w \in TaskSlots : tasks'[w].kind = "create" => tasks'[w].room \in Rooms \ DOMAIN envelope'
        /\ \A v, w \in TaskSlots :
             tasks'[v].kind = "create" /\ tasks'[w].kind = "create" /\ tasks'[v].room = tasks'[w].room => v = w
    BY <1>1, <2>1 DEF QuietInv, Ordinary, NoNewCreate
  <2>4. \A c \in condemned \cap DOMAIN envelope : envelope'[c].sent = envelope[c].sent
    BY <1>1 DEF QuietInv, Ordinary, SameChats, Permitted
  <2> QED
    BY <2>1, <2>2, <2>3, <2>4 DEF QuietInv
<1>2. ASSUME NEW w \in TaskSlots, RequestChat(w)
      PROVE  QuietInv' /\ envelope' = envelope
  <2>1. /\ TransientType' /\ UNCHANGED <<memory, refusal, served>>
        /\ \E c \in Rooms \ DOMAIN envelope :
             /\ \A v \in TaskSlots : ~ (tasks[v].kind = "create" /\ tasks[v].room = c)
             /\ tasks'[w].kind = "create" /\ tasks'[w].room = c
             /\ \A v \in TaskSlots \ {w} : tasks'[v] = tasks[v]
    BY <1>2, RequestEffects DEF QuietInv
  <2> QED
    BY <2>1 DEF QuietInv, memory, refusal
<1>3. ASSUME NEW w \in TaskSlots, ChatCreated(w)
      PROVE  /\ QuietInv'
             /\ \A c \in condemned \cap DOMAIN envelope : envelope'[c].sent = envelope[c].sent
  <2>1. tasks[w].kind = "create" /\ tasks[w].room \in Rooms \ DOMAIN envelope
    BY <1>3 DEF ChatCreated, QuietInv
  <2>2. /\ TransientType' /\ UNCHANGED <<suspended, condemned>> /\ tasks'[w] = Idle
        /\ \A v \in TaskSlots \ {w} : tasks'[v] = tasks[v]
        /\ \/ UNCHANGED <<known, envelope>>
           \/ /\ known' = known \cup {tasks[w].room}
              /\ DOMAIN envelope' = DOMAIN envelope \cup {tasks[w].room}
              /\ \A d \in DOMAIN envelope \ {tasks[w].room} : envelope'[d].sent = envelope[d].sent
    BY <1>3, <2>1, CreatedEffects DEF QuietInv
  <2>3. /\ suspended' \subseteq DOMAIN envelope' /\ condemned' \subseteq DOMAIN envelope'
        /\ condemned' \cap known' \subseteq suspended'
        /\ \A c \in condemned \cap DOMAIN envelope : envelope'[c].sent = envelope[c].sent
    BY <2>1, <2>2 DEF QuietInv
  <2>4. tasks'[w].kind # "create"
    BY <2>2, NewTask DEF Calm
  <2>5. ASSUME NEW v \in TaskSlots, tasks'[v].kind = "create"
        PROVE  v # w /\ tasks'[v] = tasks[v] /\ tasks'[v].room \in Rooms \ DOMAIN envelope'
    BY <2>1, <2>2, <2>4, <2>5 DEF QuietInv
  <2> QED
    BY <2>2, <2>3, <2>5 DEF QuietInv
<1>4. CASE Start
  <2>1. /\ TransientType' /\ known' = DOMAIN envelope /\ DOMAIN envelope' = DOMAIN envelope
        /\ suspended' = suspended \cup DOMAIN envelope
        /\ condemned' = condemned \cup DOMAIN envelope
        /\ \A d \in DOMAIN envelope : envelope'[d].sent = envelope[d].sent
        /\ tasks' = tasks
    BY <1>4, StartEffects DEF QuietInv
  <2> QED
    BY <2>1 DEF QuietInv
<1>5. CASE ProcessDies
  <2>1. /\ TransientType' /\ known' = {} /\ suspended' = {} /\ condemned' = condemned \cup known
        /\ envelope' = envelope /\ \A w \in TaskSlots : tasks'[w] = Idle
    BY <1>5, DeathEffects DEF QuietInv
  <2>2. \A w \in TaskSlots : tasks'[w].kind # "create"
    BY <2>1, NewTask DEF Calm
  <2> QED
    BY <2>1, <2>2 DEF QuietInv, TransientType
<1> QED
  BY <1>1, <1>2, <1>3, <1>4, <1>5, OrdinaryStep DEF QuietInv

\* A chat that was refused once, or was open when the process died, takes no slot
\* again, whatever cancelled code still does and however often the process starts:
\* _require refuses a suspended chat, and start suspends every chat it loads.
THEOREM QuietAfterwards == TransientSpec => QuietForGood
<1>1. TransientInit => QuietInv
  BY InitQuiet
<1>2. QuietInv /\ [TransientNext]_transientVars => QuietInv'
  BY QuietStep
<1>3. QuietInv /\ [TransientNext]_transientVars =>
        [\A c \in condemned \cap DOMAIN envelope : envelope'[c].sent = envelope[c].sent]_transientVars
  BY QuietStep
<1> QED
  BY <1>1, <1>2, <1>3, PTL DEF TransientSpec, QuietForGood

----------------------------------------------------------------------------
(* Nothing is left behind                                                  *)

\* The frames and the mail of a refused chat are gone, not only uncounted.
EmptyInv ==
  /\ QuietInv
  /\ \A c \in (suspended \cap known) \ unwritten : retained[c] = <<>> /\ mail[c] = 0

LEMMA EmptyStep ==
  ASSUME EmptyInv, [TransientNext]_transientVars
  PROVE  EmptyInv'
<1>1. QuietInv'
  BY QuietStep DEF EmptyInv
<1>2. CASE Ordinary
  <2>1. known' = known /\ known \subseteq Rooms /\ Refuses
    BY <1>2 DEF Ordinary, SameChats, EmptyInv, QuietInv, TransientType
  <2>2. ASSUME NEW c \in (suspended' \cap known') \ unwritten' PROVE retained'[c] = <<>> /\ mail'[c] = 0
    <3>1. CASE /\ UNCHANGED <<suspended, condemned, unwritten>>
               /\ \A d \in Rooms : ~ Permitted(d) => retained'[d] = retained[d] /\ mail'[d] = mail[d]
      BY <2>1, <2>2, <3>1 DEF EmptyInv, Permitted
    <3>2. CASE \E e \in known \ suspended :
                 /\ suspended' = suspended \cup {e} /\ condemned' = condemned \cup {e}
                 /\ \/ unwritten' = unwritten \cup {e} /\ retained'[e] = retained[e] /\ mail'[e] = mail[e]
                    \/ unwritten' = unwritten /\ retained'[e] = <<>> /\ mail'[e] = 0
                 /\ \A d \in Rooms \ {e} : retained'[d] = retained[d] /\ mail'[d] = mail[d]
      BY <2>1, <2>2, <3>2 DEF EmptyInv
    <3> QED
      BY <2>1, <3>1, <3>2 DEF Refuses
  <2> QED
    BY <1>1, <2>2 DEF EmptyInv
<1>3. ASSUME NEW w \in TaskSlots, RequestChat(w) PROVE EmptyInv'
  <2>1. UNCHANGED <<memory, refusal>>
    BY <1>3, RequestEffects DEF EmptyInv, QuietInv
  <2> QED
    BY <1>1, <2>1 DEF EmptyInv, memory, refusal
<1>4. ASSUME NEW w \in TaskSlots, ChatCreated(w) PROVE EmptyInv'
  <2>1. tasks[w].room \in Rooms \ DOMAIN envelope
    BY <1>4 DEF ChatCreated, EmptyInv, QuietInv
  <2>2. /\ UNCHANGED <<retained, mail, suspended, unwritten>>
        /\ known' = known \/ known' = known \cup {tasks[w].room}
    BY <1>4, <2>1, CreatedEffects DEF EmptyInv, QuietInv
  <2>3. suspended \subseteq DOMAIN envelope
    BY DEF EmptyInv, QuietInv
  <2> QED
    BY <1>1, <2>1, <2>2, <2>3 DEF EmptyInv
<1>5. CASE Start
  <2>1. \A d \in Rooms : retained'[d] = <<>> /\ mail'[d] = 0
    BY <1>5, StartEffects DEF EmptyInv, QuietInv
  <2>2. known' \subseteq Rooms
    BY <1>1 DEF QuietInv, TransientType
  <2> QED
    BY <1>1, <2>1, <2>2 DEF EmptyInv
<1>6. CASE ProcessDies
  <2>1. known' = {}
    BY <1>6, DeathEffects DEF EmptyInv, QuietInv
  <2> QED
    BY <1>1, <2>1 DEF EmptyInv
<1> QED
  BY <1>2, <1>3, <1>4, <1>5, <1>6, OrdinaryStep DEF EmptyInv, QuietInv

\* A suspended chat keeps no frame and no message in memory, whatever its other
\* tasks were doing when _suspend purged it, unless the purge could not be written.
THEOREM NothingStays == TransientSpec => []NothingLeftBehind
<1>1. TransientInit => EmptyInv
  BY InitQuiet DEF EmptyInv, TransientInit
<1>2. EmptyInv /\ [TransientNext]_transientVars => EmptyInv'
  BY EmptyStep
<1>3. EmptyInv => NothingLeftBehind
  <2> SUFFICES ASSUME EmptyInv, NEW c \in (suspended \cap known) \ unwritten PROVE Held(c) = 0
    BY DEF NothingLeftBehind
  <2>1. retained[c] = <<>> /\ mail[c] = 0
    BY DEF EmptyInv
  <2>2. DOMAIN <<>> = {}
    OBVIOUS
  <2>3. Cardinality(DOMAIN retained[c]) = 0
    BY <2>1, <2>2, FS_EmptySet
  <2> QED
    BY <2>1, <2>3 DEF Held
<1> QED
  BY <1>1, <1>2, <1>3, PTL DEF TransientSpec

----------------------------------------------------------------------------
(* No slot is lost                                                         *)

Holds(t) == t.stage \in LockStages
InRpc(t, c) == t.stage = "rpc" /\ t.room = c

\* One task in a chat's lock.  What a chat retains is below its counter; while it is
\* permitted the server has every slot below it, but for the newest, whose RPC is
\* then still under way; and an RPC under way is for the newest slot.
SlotInv ==
  /\ QuietInv
  /\ \A v, w \in TaskSlots :
       Holds(tasks[v]) /\ Holds(tasks[w]) /\ tasks[v].room = tasks[w].room => v = w
  /\ \A c \in Rooms :
       /\ c \notin DOMAIN envelope => counter[c] = 0
       /\ DOMAIN retained[c] \subseteq 0 .. counter[c] - 1
       /\ \/ c \notin known \/ c \in suspended
          \/ 0 .. counter[c] - 1 \subseteq served[c]
          \/ \E w \in TaskSlots : InRpc(tasks[w], c)
       /\ \A w \in TaskSlots : InRpc(tasks[w], c) =>
            counter[c] > 0 /\ 0 .. counter[c] - 2 \subseteq served[c]
  /\ NoLostSlot

\* No task enters the lock of a chat but one that finds it free.
LocksKept ==
  \A w \in TaskSlots : Holds(tasks'[w]) =>
    \/ tasks'[w].stage = tasks[w].stage /\ tasks'[w].room = tasks[w].room
    \/ /\ ~ Locked(tasks'[w].room)
       /\ \A v \in TaskSlots \ {w} : Alike(tasks'[v], tasks[v])

\* No RPC is new; one goes on, or the server took its slot, or its chat is refused.
RpcKept ==
  \A w \in TaskSlots :
    /\ tasks'[w].stage = "rpc" => tasks[w].stage = "rpc" /\ tasks'[w].room = tasks[w].room
    /\ tasks[w].stage = "rpc" =>
         \/ tasks'[w].stage = "rpc" /\ tasks'[w].room = tasks[w].room
         \/ tasks[w].room \notin known \/ tasks[w].room \in suspended'
         \/ tasks[w].room \in Rooms /\ counter[tasks[w].room] - 1 \in served'[tasks[w].room]

\* What the server takes more is the newest slot of a chat with an RPC under way.
ServedMore ==
  \A c \in Rooms :
    \/ served'[c] = served[c]
    \/ /\ served'[c] = served[c] \cup {counter[c] - 1}
       /\ \E w \in TaskSlots : InRpc(tasks[w], c)

Gentle ==
  /\ counter' = counter /\ suspended \subseteq suspended'
  /\ \A c \in Rooms : DOMAIN retained'[c] \subseteq DOMAIN retained[c]
  /\ LocksKept /\ RpcKept /\ ServedMore

LEMMA LocksStayApart ==
  ASSUME SlotInv, LocksKept, NEW v \in TaskSlots, NEW w \in TaskSlots,
         Holds(tasks'[v]), Holds(tasks'[w]), tasks'[v].room = tasks'[w].room
  PROVE  v = w
<1>1. \A u, x \in TaskSlots :
        Holds(tasks[u]) /\ Holds(tasks[x]) /\ tasks[u].room = tasks[x].room => u = x
  BY DEF SlotInv
<1>2. ASSUME NEW u \in TaskSlots, NEW x \in TaskSlots, u # x, Holds(tasks'[x]),
             tasks'[u].room = tasks'[x].room,
             ~ Locked(tasks'[u].room), Alike(tasks'[x], tasks[x])
      PROVE  FALSE
  BY <1>2 DEF Alike, Locked, Holds, LockStages
<1> QED
  BY <1>1, <1>2 DEF LocksKept, Holds

\* The slots below a counter, and the newest of them.
LEMMA Slots ==
  ASSUME NEW n \in Nat
  PROVE  /\ 0 .. (n + 1) - 1 = (0 .. n - 1) \cup {n} /\ 0 .. (n + 1) - 2 = 0 .. n - 1
         /\ n > 0 => 0 .. n - 1 = (0 .. n - 2) \cup {n - 1}
         /\ n = 0 => 0 .. n - 1 = {}
         /\ n + 1 > 0
OBVIOUS

LEMMA GentleStep ==
  ASSUME SlotInv, QuietInv', Gentle, known' = known, DOMAIN envelope' = DOMAIN envelope
  PROVE  SlotInv'
<1>1. ASSUME NEW c \in Rooms, NEW w \in TaskSlots, InRpc(tasks'[w], c)
      PROVE  InRpc(tasks[w], c)
  BY <1>1 DEF Gentle, RpcKept, InRpc
<1>2. ASSUME NEW c \in Rooms, c \in known, c \notin suspended', NEW w \in TaskSlots, InRpc(tasks[w], c)
      PROVE  InRpc(tasks'[w], c) \/ counter[c] - 1 \in served'[c]
  BY <1>2 DEF Gentle, RpcKept, InRpc
<1>3. \A v, w \in TaskSlots :
        Holds(tasks'[v]) /\ Holds(tasks'[w]) /\ tasks'[v].room = tasks'[w].room => v = w
  BY LocksStayApart DEF Gentle
<1>5. ASSUME NEW c \in Rooms
      PROVE  /\ c \notin DOMAIN envelope' => counter'[c] = 0
             /\ DOMAIN retained'[c] \subseteq 0 .. counter'[c] - 1
             /\ \/ c \notin known' \/ c \in suspended'
                \/ 0 .. counter'[c] - 1 \subseteq served'[c]
                \/ \E w \in TaskSlots : InRpc(tasks'[w], c)
             /\ \A w \in TaskSlots : InRpc(tasks'[w], c) =>
                  counter'[c] > 0 /\ 0 .. counter'[c] - 2 \subseteq served'[c]
             /\ \A s \in served'[c] : 0 .. s \subseteq served'[c]
  <2>1. /\ counter'[c] = counter[c] /\ suspended \subseteq suspended'
        /\ DOMAIN retained'[c] \subseteq DOMAIN retained[c]
        /\ served[c] \subseteq served'[c]
        /\ \/ served'[c] = served[c]
           \/ /\ served'[c] = served[c] \cup {counter[c] - 1}
              /\ \E w \in TaskSlots : InRpc(tasks[w], c)
    BY DEF Gentle, ServedMore
  <2>2. /\ c \notin DOMAIN envelope => counter[c] = 0
        /\ DOMAIN retained[c] \subseteq 0 .. counter[c] - 1
        /\ counter[c] \in Nat
    BY DEF SlotInv, QuietInv, TransientType
  <2>3. \/ c \notin known \/ c \in suspended
        \/ 0 .. counter[c] - 1 \subseteq served[c]
        \/ \E w \in TaskSlots : InRpc(tasks[w], c)
    BY DEF SlotInv
  <2>4. \A w \in TaskSlots : InRpc(tasks[w], c) =>
            counter[c] > 0 /\ 0 .. counter[c] - 2 \subseteq served[c]
    BY DEF SlotInv
  <2>5. \/ c \notin known' \/ c \in suspended'
        \/ 0 .. counter'[c] - 1 \subseteq served'[c]
        \/ \E w \in TaskSlots : InRpc(tasks'[w], c)
    <3>1. CASE c \notin known \/ c \in suspended \/ 0 .. counter[c] - 1 \subseteq served[c]
      BY <2>1, <3>1
    <3>2. ASSUME NEW w \in TaskSlots, InRpc(tasks[w], c), c \in known, c \notin suspended'
          PROVE  InRpc(tasks'[w], c) \/ 0 .. counter'[c] - 1 \subseteq served'[c]
      <4>1. counter[c] > 0 /\ 0 .. counter[c] - 2 \subseteq served[c]
        BY <2>4, <3>2
      <4>2. 0 .. counter[c] - 1 = (0 .. counter[c] - 2) \cup {counter[c] - 1}
        BY <2>2, <4>1, Slots
      <4>3. InRpc(tasks'[w], c) \/ counter[c] - 1 \in served'[c]
        BY <1>2, <3>2
      <4> QED
        BY <2>1, <4>1, <4>2, <4>3
    <3> QED
      BY <2>3, <3>1, <3>2
  <2>6. \A w \in TaskSlots : InRpc(tasks'[w], c) =>
            counter'[c] > 0 /\ 0 .. counter'[c] - 2 \subseteq served'[c]
    <3>1. ASSUME NEW w \in TaskSlots, InRpc(tasks'[w], c)
          PROVE  counter[c] > 0 /\ 0 .. counter[c] - 2 \subseteq served[c]
      BY <1>1, <2>4, <3>1
    <3> QED
      BY <2>1, <3>1
  <2>7. \A s \in served'[c] : 0 .. s \subseteq served'[c]
    <3>1. \A s \in served[c] : 0 .. s \subseteq served[c]
      BY DEF SlotInv, NoLostSlot
    <3>2. CASE /\ served'[c] = served[c] \cup {counter[c] - 1}
               /\ \E w \in TaskSlots : InRpc(tasks[w], c)
      <4>1. counter[c] > 0 /\ 0 .. counter[c] - 2 \subseteq served[c]
        BY <2>4, <3>2
      <4>2. 0 .. counter[c] - 1 \subseteq served'[c]
        BY <2>2, <3>2, <4>1, Slots
      <4> QED
        BY <3>1, <3>2, <4>2
    <3> QED
      BY <2>1, <3>1, <3>2
  <2> QED
    BY <2>1, <2>2, <2>5, <2>6, <2>7
<1> QED
  BY <1>3, <1>5 DEF SlotInv, NoLostSlot

LEMMA SameServed ==
  ASSUME TransientType, served' = served
  PROVE  ServedMore /\ served' \in [Rooms -> SUBSET Int]
BY DEF ServedMore, TransientType

LEMMA SuspendGentle ==
  ASSUME TransientType, NEW ts \in TaskTable, NEW c \in Rooms \cup {"none"}, NEW own,
         \A w \in TaskSlots : Holds(ts[w]) => ts[w].stage = tasks[w].stage /\ ts[w].room = tasks[w].room,
         \A w \in TaskSlots : tasks[w].stage = "rpc" =>
            (ts[w].stage = "rpc" /\ ts[w].room = tasks[w].room) \/ tasks[w].room = c,
         Suspend(c, own, ts), ServedMore, served' \in [Rooms -> SUBSET Int]
  PROVE  Gentle
<1>1. /\ counter' = counter /\ Follows(tasks', ts) /\ (c \in known => c \in suspended')
      /\ suspended \subseteq suspended'
      /\ \A d \in Rooms : retained'[d] = retained[d] \/ retained'[d] = <<>>
  BY SuspendEffects
<1>2. \A d \in Rooms : DOMAIN retained'[d] \subseteq DOMAIN retained[d]
  <2>1. DOMAIN <<>> = {}
    OBVIOUS
  <2> QED
    BY <1>1, <2>1
<1>3. \A w \in TaskSlots : Alike(tasks'[w], ts[w]) \/ (ts[w] = Idle /\ Calm(tasks'[w]))
  BY <1>1 DEF Follows
<1>4. LocksKept
  BY <1>3 DEF LocksKept, Alike, Calm, Holds
<1>5. RpcKept
  BY <1>1, <1>3 DEF RpcKept, Alike, Idle, Calm, Holds, LockStages
<1> QED
  BY <1>1, <1>2, <1>4, <1>5 DEF Gentle, ServedMore

LEMMA EndGentle ==
  ASSUME TransientType, NEW w \in TaskSlots, NEW own, Suspend(tasks[w].room, own, Ended(w)),
         ServedMore, served' \in [Rooms -> SUBSET Int]
  PROVE  Gentle
<1>1. Ended(w) \in TaskTable /\ tasks[w].room \in Rooms \cup {"none"}
  BY EndedTask DEF TransientType, TaskTable, TaskRecord
<1>2. Ended(w)[w] = Idle /\ ~ Holds(Idle) /\ \A v \in TaskSlots \ {w} : Ended(w)[v] = tasks[v]
  BY EndedTask, NewTask DEF TransientType, Holds, Calm
<1>3. \A v \in TaskSlots : Holds(Ended(w)[v]) =>
        Ended(w)[v].stage = tasks[v].stage /\ Ended(w)[v].room = tasks[v].room
  BY <1>2
<1>4. \A v \in TaskSlots : tasks[v].stage = "rpc" =>
        (Ended(w)[v].stage = "rpc" /\ Ended(w)[v].room = tasks[v].room) \/ tasks[v].room = tasks[w].room
  BY <1>2
<1> QED
  BY <1>1, <1>3, <1>4, SuspendGentle

\* A task outside the RPC ends, or enters a handler; the chats keep what they retain.
LEMMA ReplacedGentle ==
  ASSUME NEW w \in TaskSlots, UNCHANGED <<counter, served, suspended>>,
         \A c \in Rooms : DOMAIN retained'[c] \subseteq DOMAIN retained[c],
         \A v \in TaskSlots \ {w} : tasks'[v] = tasks[v],
         ~ Holds(tasks'[w]), tasks[w].stage # "rpc"
  PROVE  Gentle
BY DEF Gentle, LocksKept, RpcKept, ServedMore, Holds, LockStages

LEMMA EntryGentle ==
  ASSUME TransientType, NEW c \in Rooms,
         (\E w \in TaskSlots : AdmitSend(w, c)) \/ TakeUpdate(c) \/ Expire(c) \/ Close(c)
  PROVE  Gentle
<1>1. tasks \in TaskTable /\ UNCHANGED served
  BY DEF TransientType, AdmitSend, TakeUpdate, Expire, Close
<1>2. CASE Suspend(c, "none", tasks)
  BY <1>1, <1>2, SameServed, SuspendGentle
<1>3. ASSUME NEW w \in TaskSlots, tasks[w] = Idle, UNCHANGED <<memory, refusal>>,
             NEW kind \in {"send", "message", "acknowledge", "resend", "ending"},
             tasks' = [tasks EXCEPT ![w] = Task(kind, c, "scheduled")]
      PROVE  Gentle
  <2>1. Task(kind, c, "scheduled").stage = "scheduled" /\ tasks[w].stage = "none"
    BY <1>3 DEF Task, Idle
  <2>2. tasks'[w] = Task(kind, c, "scheduled") /\ \A v \in TaskSlots \ {w} : tasks'[v] = tasks[v]
    BY <1>1, <1>3 DEF TaskTable
  <2>3. ~ Holds(tasks'[w]) /\ tasks[w].stage # "rpc"
    BY <2>1, <2>2 DEF Holds, LockStages
  <2> QED
    BY <1>1, <1>3, <2>2, <2>3, ReplacedGentle DEF memory, refusal
<1>4. CASE \E w \in TaskSlots : AdmitSend(w, c)
  <2>1. PICK w \in TaskSlots : AdmitSend(w, c)
    BY <1>4
  <2>2. /\ tasks[w] = Idle /\ tasks' = [tasks EXCEPT ![w] = Task("send", c, "scheduled")]
        /\ UNCHANGED <<memory, refusal>>
    BY <2>1 DEF AdmitSend, Spare, Alive
  <2> QED
    BY <1>3, <2>2
<1>5. CASE TakeUpdate(c)
  <2>1. \/ Suspend(c, "none", tasks)
        \/ \E w \in TaskSlots, kind \in {"message", "acknowledge", "resend", "ending"} :
             /\ tasks[w] = Idle /\ tasks' = [tasks EXCEPT ![w] = Task(kind, c, "scheduled")]
             /\ UNCHANGED <<memory, refusal>>
    BY <1>5 DEF TakeUpdate, Spare, Alive
  <2> QED
    BY <1>2, <1>3, <2>1
<1> QED
  BY <1>2, <1>4, <1>5 DEF Expire, Close

LEMMA CallbackGentle ==
  ASSUME TransientType, NEW w \in TaskSlots, Enter(w) \/ HandlerEnds(w) \/ Yield(w) \/ StopReturns(w)
  PROVE  Gentle
<1>1. tasks \in TaskTable /\ UNCHANGED served
  BY DEF TransientType, Enter, HandlerEnds, Yield, StopReturns
<1>2. CASE Suspend(tasks[w].room, w, Ended(w))
  BY <1>1, <1>2, SameServed, EndGentle
<1>3. CASE /\ tasks' = Ended(w) /\ UNCHANGED <<memory, refusal>>
           /\ tasks[w].stage \in {"handler", "stopping"}
  BY <1>1, <1>3, EndedTask, NewTask, ReplacedGentle DEF Holds, Calm, memory, refusal
<1>4. CASE /\ tasks' = Staged(w, "handler") /\ UNCHANGED <<memory, refusal>>
           /\ tasks[w].stage = "scheduled"
  BY <1>1, <1>4, StagedTask, ReplacedGentle DEF Holds, Stages, LockStages, memory, refusal
<1> QED
  BY <1>2, <1>3, <1>4 DEF Enter, HandlerEnds, Yield, StopReturns

LEMMA StopGentle ==
  ASSUME TransientType, BeginStop \/ Incomplete \/ FinishStop
  PROVE  Gentle
<1>1. tasks \in TaskTable /\ UNCHANGED served
  BY DEF TransientType, BeginStop, Incomplete, FinishStop
<1>2. CASE Incomplete \/ (FinishStop /\ UNCHANGED <<memory, refusal, tasks>>)
  <2>1. UNCHANGED <<memory, refusal, tasks>>
    BY <1>2 DEF Incomplete
  <2> QED
    BY <1>1, <2>1 DEF Gentle, LocksKept, RpcKept, ServedMore, memory, refusal
<1>3. CASE \E c \in known \ suspended : Suspend(c, "none", tasks)
  BY <1>1, <1>3, SameServed, SuspendGentle DEF TransientType
<1>4. CASE BeginStop
  <2>1. UNCHANGED <<memory, refusal>>
    BY <1>4 DEF BeginStop
  <2>2. \A w \in TaskSlots :
          /\ tasks'[w].room = tasks[w].room
          /\ \/ tasks'[w].stage = tasks[w].stage
             \/ tasks'[w].stage = "stopping" /\ tasks[w].stage = "handler"
    BY <1>1, <1>4, BeginStopTasks
  <2> QED
    BY <1>1, <2>1, <2>2 DEF Gentle, LocksKept, RpcKept, ServedMore, Holds, LockStages, memory, refusal
<1> QED
  BY <1>2, <1>3, <1>4 DEF FinishStop

LEMMA DeadlineGentle ==
  ASSUME TransientType, NEW w \in TaskSlots, Deadline(w)
  PROVE  Gentle
<1> DEFINE late == [tasks EXCEPT ![w].cancelled = TRUE]
<1>1. late \in TaskTable /\ \A v \in TaskSlots : Alike(late[v], tasks[v])
  BY DEF TransientType, TaskTable, TaskRecord, Alike
<1>2. tasks[w].room \in Rooms \cup {"none"} /\ UNCHANGED served
  BY DEF TransientType, TaskTable, TaskRecord, Deadline
<1> HIDE DEF late
<1>3. CASE tasks' = Overtaken(late) /\ UNCHANGED <<memory, refusal>>
  <2>1. \A v \in TaskSlots : Alike(tasks'[v], late[v])
    BY <1>1, <1>3, OvertakenTask
  <2>2. \A v \in TaskSlots : tasks'[v].stage = tasks[v].stage /\ tasks'[v].room = tasks[v].room
    BY <1>1, <2>1 DEF Alike
  <2> QED
    BY <1>2, <1>3, <2>2 DEF Gentle, LocksKept, RpcKept, ServedMore, memory, refusal
<1>4. CASE Suspend(tasks[w].room, "none", late)
  <2>1. \A v \in TaskSlots : late[v].stage = tasks[v].stage /\ late[v].room = tasks[v].room
    BY <1>1 DEF Alike
  <2> QED
    BY <1>1, <1>2, <1>4, <2>1, SameServed, SuspendGentle
<1> QED
  BY <1>3, <1>4 DEF Deadline, late

LEMMA FrameGentle ==
  ASSUME SlotInv, NEW w \in TaskSlots, ApplyFrame(w) \/ Resend(w) \/ Deliver(w)
  PROVE  Gentle
<1> DEFINE c == tasks[w].room
<1>1. TransientType /\ tasks \in TaskTable /\ c \in Rooms \cup {"none"}
  BY DEF SlotInv, QuietInv, TransientType, TaskTable, TaskRecord
<1>2. CASE Suspend(c, w, Ended(w)) /\ UNCHANGED served
  BY <1>1, <1>2, SameServed, EndGentle
<1>3. CASE ApplyFrame(w) /\ ~ (Suspend(c, w, Ended(w)) /\ UNCHANGED served)
  <2>1. /\ tasks[w].stage = "scheduled" /\ ~ Locked(c) /\ UNCHANGED <<counter, served, refusal>>
        /\ tasks' \in {Ended(w), Staged(w, "drain"), Staged(w, "resend")}
        /\ retained' = retained \/ retained' = [retained EXCEPT ![c] = <<>>]
    BY <1>3 DEF ApplyFrame, memory
  <2>2. \A d \in Rooms : DOMAIN retained'[d] \subseteq DOMAIN retained[d]
    <3>1. DOMAIN <<>> = {}
      OBVIOUS
    <3> QED
      BY <1>1, <2>1, <3>1 DEF TransientType
  <2>3. CASE tasks' = Ended(w)
    <3>1. ~ Holds(tasks'[w]) /\ \A v \in TaskSlots \ {w} : tasks'[v] = tasks[v]
      BY <1>1, <2>3, EndedTask, NewTask DEF Holds, Calm
    <3> QED
      BY <2>1, <2>2, <3>1, ReplacedGentle DEF refusal
  <2>4. ASSUME NEW stage \in {"drain", "resend"}, tasks' = Staged(w, stage) PROVE Gentle
    <3>1. /\ tasks'[w].room = c /\ tasks'[w].stage # "rpc"
          /\ \A v \in TaskSlots \ {w} : tasks'[v] = tasks[v]
      BY <1>1, <2>4, StagedTask DEF Stages, LockStages
    <3>2. LocksKept /\ RpcKept
      BY <2>1, <3>1 DEF LocksKept, RpcKept, Alike
    <3> QED
      BY <2>1, <2>2, <3>2 DEF Gentle, ServedMore, refusal
  <2> QED
    BY <2>1, <2>3, <2>4
<1>4. CASE Resend(w) /\ ~ (Suspend(c, w, Ended(w)) /\ UNCHANGED served)
  <2>1. /\ tasks[w].stage = "resend" /\ Permitted(c) /\ tasks' = Ended(w)
        /\ retained' = [retained EXCEPT ![c] = [s \in DOMAIN @ |-> @[s] + 1]]
        /\ served' = [served EXCEPT ![c] = @ \cup DOMAIN retained[c]]
        /\ UNCHANGED <<known, counter, mail, refusal>>
    BY <1>4 DEF Resend
  <2>2. c \in Rooms /\ c \in known \ suspended
    BY <1>1, <2>1 DEF Permitted, TransientType
  <2>3. \A v \in TaskSlots : ~ InRpc(tasks[v], c)
    BY <2>1 DEF SlotInv, InRpc, Holds, LockStages
  <2>4. DOMAIN retained[c] \subseteq served[c]
    <3>1. DOMAIN retained[c] \subseteq 0 .. counter[c] - 1
      BY <2>2 DEF SlotInv
    <3>2. 0 .. counter[c] - 1 \subseteq served[c]
      BY <2>2, <2>3 DEF SlotInv
    <3> QED
      BY <3>1, <3>2
  <2>5. served' = served
    BY <1>1, <2>1, <2>4 DEF TransientType
  <2>6. \A d \in Rooms : DOMAIN retained'[d] \subseteq DOMAIN retained[d]
    <3> DEFINE new == [s \in DOMAIN retained[c] |-> retained[c][s] + 1]
    <3>1. retained' = [retained EXCEPT ![c] = new] /\ DOMAIN new = DOMAIN retained[c]
      BY <2>1
    <3> HIDE DEF new
    <3> QED
      BY <1>1, <2>2, <3>1 DEF TransientType
  <2>7. ~ Holds(tasks'[w]) /\ \A v \in TaskSlots \ {w} : tasks'[v] = tasks[v]
    BY <1>1, <2>1, EndedTask, NewTask DEF Holds, Calm
  <2> QED
    BY <2>1, <2>5, <2>6, <2>7, ReplacedGentle DEF refusal
<1>5. CASE Deliver(w) /\ ~ (Suspend(c, w, Ended(w)) /\ UNCHANGED served)
  <2>1. /\ tasks[w].stage = "drain" /\ UNCHANGED <<retained, counter, served, refusal>>
        /\ tasks' \in Emitted(Ended(w), Task("callback", c, "scheduled"))
    BY <1>5 DEF Deliver
  <2>2. /\ Task("callback", c, "scheduled") \in TaskRecord
        /\ Calm(Task("callback", c, "scheduled"))
    BY <1>1, NewTask DEF TaskKinds, Stages, Calm, LockStages
  <2>3. PICK u \in TaskSlots :
          /\ Ended(w)[u] = Idle /\ tasks'[u] = Task("callback", c, "scheduled")
          /\ \A v \in TaskSlots \ {u} : tasks'[v] = Ended(w)[v]
    BY <1>1, <2>1, <2>2, EndedTask, EmittedTask
  <2>4. /\ Ended(w)[w] = Idle /\ \A v \in TaskSlots \ {w} : Ended(w)[v] = tasks[v]
        /\ ~ Holds(Idle) /\ Idle.stage = "none"
    BY <1>1, EndedTask, NewTask DEF Holds, Calm, Idle
  <2>5. LocksKept /\ RpcKept
    BY <2>1, <2>2, <2>3, <2>4 DEF LocksKept, RpcKept, Calm, Holds, LockStages
  <2> QED
    BY <2>1, <2>5 DEF Gentle, ServedMore, refusal
<1> QED
  BY <1>2, <1>3, <1>4, <1>5

LEMMA AnswerGentle ==
  ASSUME SlotInv, NEW w \in TaskSlots, SendAnswered(w) \/ SendFailed(w)
  PROVE  Gentle
<1> DEFINE c == tasks[w].room
<1>1. TransientType /\ tasks \in TaskTable /\ c \in Rooms \cup {"none"}
  BY DEF SlotInv, QuietInv, TransientType, TaskTable, TaskRecord
<1>2. c \in Rooms => counter[c] - 1 \in Int
  BY <1>1 DEF TransientType
<1>3. ASSUME tasks[w].stage = "rpc", served' = [served EXCEPT ![c] = @ \cup {counter[c] - 1}]
      PROVE  /\ ServedMore /\ served' \in [Rooms -> SUBSET Int]
             /\ c \in Rooms => counter[c] - 1 \in served'[c]
  <2>1. c \in Rooms => InRpc(tasks[w], c)
    BY <1>3 DEF InRpc
  <2> QED
    BY <1>1, <1>2, <1>3, <2>1 DEF ServedMore, TransientType
<1>4. CASE SendAnswered(w)
  <2>1. /\ tasks[w].stage = "rpc" /\ UNCHANGED <<memory, refusal>>
        /\ served' = [served EXCEPT ![c] = @ \cup {counter[c] - 1}]
        /\ tasks' \in {Ended(w), Staged(w, "handler")}
    BY <1>4 DEF SendAnswered
  <2>2. ~ Holds(tasks'[w]) /\ \A v \in TaskSlots \ {w} : tasks'[v] = tasks[v]
    BY <1>1, <2>1, EndedTask, StagedTask, NewTask DEF Holds, Calm, Stages, LockStages
  <2>3. c \notin known \/ (c \in Rooms /\ counter[c] - 1 \in served'[c])
    BY <1>1, <1>3, <2>1, TransientLimits DEF TransientType
  <2>4. LocksKept
    BY <2>2 DEF LocksKept
  <2>5. RpcKept
    BY <2>2, <2>3 DEF RpcKept, Holds, LockStages
  <2> QED
    BY <1>3, <2>1, <2>4, <2>5 DEF Gentle, memory, refusal
<1>5. CASE SendFailed(w)
  <2>1. Suspend(c, w, Ended(w))
    BY <1>5 DEF SendFailed
  <2>2. \/ served' = served
        \/ tasks[w].stage = "rpc" /\ served' = [served EXCEPT ![c] = @ \cup {counter[c] - 1}]
    <3>1. CASE tasks[w].stage = "rpc"
      BY <1>5, <3>1 DEF SendFailed
    <3>2. CASE tasks[w].stage # "rpc"
      <4>1. served' = served \/ served' = [served EXCEPT ![c] = @ \cup {}]
        BY <1>5, <3>2 DEF SendFailed
      <4> QED
        BY <1>1, <4>1 DEF TransientType
    <3> QED
      BY <3>1, <3>2
  <2>3. ServedMore /\ served' \in [Rooms -> SUBSET Int]
    BY <1>1, <1>3, <2>2, SameServed
  <2> QED
    BY <1>1, <2>1, <2>3, EndGentle
<1> QED
  BY <1>4, <1>5

LEMMA SendSlot ==
  ASSUME SlotInv, QuietInv', NEW w \in TaskSlots, SendFrame(w)
  PROVE  SlotInv'
<1> DEFINE c == tasks[w].room
<1>1. TransientType /\ tasks \in TaskTable /\ UNCHANGED served
  BY DEF SlotInv, QuietInv, TransientType, SendFrame
<1>2. CASE Suspend(c, w, Ended(w))
  <2>1. Gentle
    BY <1>1, <1>2, SameServed, EndGentle
  <2>2. known' = known /\ DOMAIN envelope' = DOMAIN envelope
    BY <1>1, <1>2, SameServed, EndSuspends DEF Ordinary, SameChats
  <2> QED
    BY <2>1, <2>2, GentleStep
<1>3. CASE ~ Suspend(c, w, Ended(w))
  <2> DEFINE new == [s \in DOMAIN retained[c] \cup {counter[c]} |->
                       IF s \in DOMAIN retained[c] THEN retained[c][s] ELSE 1]
  <2>1. /\ Permitted(c) /\ ~ Locked(c)
        /\ retained' = [retained EXCEPT ![c] = new]
        /\ counter' = [counter EXCEPT ![c] = @ + 1]
        /\ envelope' = [envelope EXCEPT ![c].sent = counter[c] + 1]
        /\ tasks' = Staged(w, "rpc")
        /\ UNCHANGED <<known, suspended, served>>
    BY <1>1, <1>3 DEF SendFrame
  <2>2. c \in Rooms /\ c \in known \ suspended /\ counter[c] \in Nat
    BY <1>1, <2>1 DEF Permitted, TransientType
  <2>3. DOMAIN new = DOMAIN retained[c] \cup {counter[c]}
    OBVIOUS
  <2> HIDE DEF new
  <2>4. /\ tasks'[w].stage = "rpc" /\ tasks'[w].room = c
        /\ \A v \in TaskSlots \ {w} : tasks'[v] = tasks[v]
    BY <1>1, <2>1, StagedTask DEF Stages, LockStages
  <2>5. \A v \in TaskSlots : ~ InRpc(tasks[v], c)
    BY <2>1 DEF Locked, InRpc, LockStages
  <2>6. 0 .. counter[c] - 1 \subseteq served[c] /\ DOMAIN retained[c] \subseteq 0 .. counter[c] - 1
    BY <2>2, <2>5 DEF SlotInv
  <2>7. LocksKept
    BY <2>1, <2>4 DEF LocksKept, Alike
  <2>8. /\ retained'[c] = new /\ counter'[c] = counter[c] + 1
        /\ \A d \in Rooms \ {c} : retained'[d] = retained[d] /\ counter'[d] = counter[d]
        /\ DOMAIN envelope' = DOMAIN envelope
    BY <1>1, <2>1, <2>2 DEF TransientType
  <2>9. ASSUME NEW d \in Rooms
        PROVE  /\ d \notin DOMAIN envelope' => counter'[d] = 0
               /\ DOMAIN retained'[d] \subseteq 0 .. counter'[d] - 1
               /\ \/ d \notin known' \/ d \in suspended'
                  \/ 0 .. counter'[d] - 1 \subseteq served'[d]
                  \/ \E v \in TaskSlots : InRpc(tasks'[v], d)
               /\ \A v \in TaskSlots : InRpc(tasks'[v], d) =>
                    counter'[d] > 0 /\ 0 .. counter'[d] - 2 \subseteq served'[d]
    <3>1. CASE d = c
      <4>1. d \in DOMAIN envelope'
        BY <1>1, <2>2, <2>8, <3>1 DEF TransientType
      <4>2. /\ 0 .. counter'[d] - 1 = (0 .. counter[c] - 1) \cup {counter[c]}
            /\ 0 .. counter'[d] - 2 = 0 .. counter[c] - 1
            /\ counter'[d] > 0
        BY <2>2, <2>8, <3>1, Slots
      <4>3. DOMAIN retained'[d] \subseteq 0 .. counter'[d] - 1
        BY <2>3, <2>6, <2>8, <3>1, <4>2
      <4>4. InRpc(tasks'[w], d)
        BY <2>4, <3>1 DEF InRpc
      <4>5. 0 .. counter'[d] - 2 \subseteq served'[d]
        BY <2>1, <2>6, <3>1, <4>2
      <4> QED
        BY <4>1, <4>2, <4>3, <4>4, <4>5
    <3>2. CASE d # c
      <4>1. \A v \in TaskSlots : InRpc(tasks'[v], d) <=> InRpc(tasks[v], d)
        BY <2>4, <3>2 DEF InRpc
      <4>2. /\ retained'[d] = retained[d] /\ counter'[d] = counter[d] /\ served'[d] = served[d]
            /\ known' = known /\ suspended' = suspended /\ DOMAIN envelope' = DOMAIN envelope
        BY <2>1, <2>8, <3>2
      <4>3. /\ d \notin DOMAIN envelope => counter[d] = 0
            /\ DOMAIN retained[d] \subseteq 0 .. counter[d] - 1
        BY DEF SlotInv
      <4>4. \/ d \notin known \/ d \in suspended
            \/ 0 .. counter[d] - 1 \subseteq served[d]
            \/ \E v \in TaskSlots : InRpc(tasks[v], d)
        BY DEF SlotInv
      <4>5. \A v \in TaskSlots : InRpc(tasks[v], d) =>
              counter[d] > 0 /\ 0 .. counter[d] - 2 \subseteq served[d]
        BY DEF SlotInv
      <4>6. \A v \in TaskSlots : InRpc(tasks'[v], d) =>
              counter'[d] > 0 /\ 0 .. counter'[d] - 2 \subseteq served'[d]
        BY <4>1, <4>2, <4>5
      <4>7. \/ d \notin known' \/ d \in suspended'
            \/ 0 .. counter'[d] - 1 \subseteq served'[d]
            \/ \E v \in TaskSlots : InRpc(tasks'[v], d)
        BY <4>1, <4>2, <4>4
      <4> QED
        BY <4>2, <4>3, <4>6, <4>7
    <3> QED
      BY <3>1, <3>2
  <2>10. \A u, v \in TaskSlots :
           Holds(tasks'[u]) /\ Holds(tasks'[v]) /\ tasks'[u].room = tasks'[v].room => u = v
    BY <2>7, LocksStayApart
  <2>11. NoLostSlot'
    BY <2>1 DEF SlotInv, NoLostSlot
  <2> QED
    BY <2>9, <2>10, <2>11 DEF SlotInv
<1> QED
  BY <1>2, <1>3

\* Every step but a sent frame, a new chat, a start and the process's death is gentle.
LEMMA GentleOrNot ==
  ASSUME SlotInv, [TransientNext]_transientVars
  PROVE  \/ Gentle
         \/ \E w \in TaskSlots : SendFrame(w) \/ ChatCreated(w)
         \/ Start \/ ProcessDies
<1>1. TransientType
  BY DEF SlotInv, QuietInv
<1>2. CASE UNCHANGED transientVars
  BY <1>2 DEF transientVars, memory, refusal, Gentle, LocksKept, RpcKept, ServedMore
<1>3. ASSUME NEW w \in TaskSlots, RequestChat(w)
      PROVE  Gentle
  <2>1. /\ UNCHANGED <<memory, refusal, served>>
        /\ tasks'[w].stage = "request" /\ tasks[w] = Idle
        /\ \A v \in TaskSlots \ {w} : tasks'[v] = tasks[v]
    BY <1>1, <1>3, RequestEffects
  <2>2. ~ Holds(tasks'[w]) /\ tasks[w].stage # "rpc"
    BY <2>1 DEF Holds, LockStages, Idle
  <2> QED
    BY <2>1, <2>2, ReplacedGentle DEF memory, refusal
<1>4. ASSUME NEW w \in TaskSlots,
             \/ \E c \in Rooms : AdmitSend(w, c)
             \/ SendAnswered(w) \/ SendFailed(w)
             \/ ApplyFrame(w) \/ Resend(w) \/ Deliver(w)
             \/ Enter(w) \/ HandlerEnds(w) \/ Yield(w) \/ Deadline(w) \/ StopReturns(w)
      PROVE  Gentle
  BY <1>1, <1>4, EntryGentle, AnswerGentle, FrameGentle, CallbackGentle, DeadlineGentle
<1>5. CASE (\E c \in Rooms : TakeUpdate(c) \/ Expire(c) \/ Close(c)) \/ BeginStop \/ Incomplete \/ FinishStop
  BY <1>1, <1>5, EntryGentle, StopGentle
<1> QED
  BY <1>2, <1>3, <1>4, <1>5 DEF TransientNext

LEMMA SlotStep ==
  ASSUME SlotInv, [TransientNext]_transientVars
  PROVE  SlotInv'
<1>1. QuietInv' /\ TransientType
  BY QuietStep DEF SlotInv, QuietInv
<1>2. ASSUME Gentle, ~ \E w \in TaskSlots : ChatCreated(w), ~ Start, ~ ProcessDies
      PROVE  SlotInv'
  <2>1. Ordinary \/ \E w \in TaskSlots : RequestChat(w)
    BY <1>1, <1>2, OrdinaryStep
  <2>2. known' = known /\ DOMAIN envelope' = DOMAIN envelope
    BY <1>1, <2>1, RequestEffects DEF Ordinary, SameChats, memory, refusal
  <2> QED
    BY <1>1, <1>2, <2>2, GentleStep
<1>3. ASSUME NEW w \in TaskSlots, ChatCreated(w)
      PROVE  SlotInv'
  <2> DEFINE c == tasks[w].room
  <2>1. c \in Rooms \ DOMAIN envelope
    BY <1>3 DEF ChatCreated, SlotInv, QuietInv
  <2>2. /\ UNCHANGED <<counter, retained, suspended, served>> /\ tasks'[w] = Idle
        /\ tasks[w].kind = "create"
        /\ \A v \in TaskSlots \ {w} : tasks'[v] = tasks[v]
        /\ \/ UNCHANGED <<known, envelope>>
           \/ known' = known \cup {c} /\ DOMAIN envelope' = DOMAIN envelope \cup {c}
    BY <1>1, <1>3, <2>1, CreatedEffects
  <2>3. counter[c] = 0 /\ 0 .. counter[c] - 1 = {}
    <3>1. counter[c] = 0
      BY <2>1 DEF SlotInv
    <3> QED
      BY <3>1
  <2>4. ASSUME NEW v \in TaskSlots, Holds(tasks'[v])
        PROVE  v # w /\ tasks'[v] = tasks[v]
    BY <2>2, <2>4, NewTask DEF Holds, Calm
  <2>5. ASSUME NEW d \in Rooms, NEW v \in TaskSlots
        PROVE  InRpc(tasks'[v], d) <=> InRpc(tasks[v], d) /\ v # w
    BY <2>2, <2>4 DEF InRpc, Idle
  <2>6. ASSUME NEW d \in Rooms
        PROVE  /\ d \notin DOMAIN envelope' => counter'[d] = 0
               /\ DOMAIN retained'[d] \subseteq 0 .. counter'[d] - 1
               /\ \/ d \notin known' \/ d \in suspended'
                  \/ 0 .. counter'[d] - 1 \subseteq served'[d]
                  \/ \E v \in TaskSlots : InRpc(tasks'[v], d)
               /\ \A v \in TaskSlots : InRpc(tasks'[v], d) =>
                    counter'[d] > 0 /\ 0 .. counter'[d] - 2 \subseteq served'[d]
    <3>1. counter'[d] = counter[d] /\ served'[d] = served[d] /\ retained'[d] = retained[d]
          /\ suspended' = suspended
      BY <2>2
    <3>2. /\ d \notin DOMAIN envelope => counter[d] = 0
          /\ DOMAIN retained[d] \subseteq 0 .. counter[d] - 1
      BY DEF SlotInv
    <3>3. \/ d \notin known \/ d \in suspended
          \/ 0 .. counter[d] - 1 \subseteq served[d]
          \/ \E v \in TaskSlots : InRpc(tasks[v], d)
      BY DEF SlotInv
    <3>4. \A v \in TaskSlots : InRpc(tasks[v], d) =>
            counter[d] > 0 /\ 0 .. counter[d] - 2 \subseteq served[d]
      BY DEF SlotInv
    <3>5. \A v \in TaskSlots : InRpc(tasks'[v], d) =>
            counter'[d] > 0 /\ 0 .. counter'[d] - 2 \subseteq served'[d]
      BY <2>5, <3>1, <3>4
    <3>6. \/ d \notin known' \/ d \in suspended'
          \/ 0 .. counter'[d] - 1 \subseteq served'[d]
          \/ \E v \in TaskSlots : InRpc(tasks'[v], d)
      <4>1. CASE d = c
        BY <2>3, <3>1, <4>1
      <4>2. CASE d # c
        <5>1. d \in known' => d \in known
          BY <2>2, <4>2
        <5>2. ~ InRpc(tasks[w], d)
          BY <4>2 DEF InRpc
        <5> QED
          BY <2>5, <3>1, <3>3, <5>1, <5>2
      <4> QED
        BY <4>1, <4>2
    <3>7. d \notin DOMAIN envelope' => counter'[d] = 0
      BY <2>2, <3>1, <3>2
    <3> QED
      BY <3>1, <3>2, <3>5, <3>6, <3>7
  <2>7. \A u, v \in TaskSlots :
          Holds(tasks'[u]) /\ Holds(tasks'[v]) /\ tasks'[u].room = tasks'[v].room => u = v
    BY <2>4 DEF SlotInv
  <2>8. NoLostSlot'
    BY <2>2 DEF SlotInv, NoLostSlot
  <2> QED
    BY <1>1, <2>6, <2>7, <2>8 DEF SlotInv
<1>4. CASE Start \/ ProcessDies
  <2>1. /\ served' = served /\ \A v \in TaskSlots : tasks'[v] = Idle
        /\ known' \subseteq suspended'
        /\ \A d \in Rooms : /\ retained'[d] = <<>>
                            /\ d \notin DOMAIN envelope' => counter'[d] = 0
    BY <1>1, <1>4, StartEffects, DeathEffects DEF SlotInv, QuietInv
  <2>2. ASSUME NEW v \in TaskSlots, NEW d PROVE ~ Holds(tasks'[v]) /\ ~ InRpc(tasks'[v], d)
    BY <2>1 DEF Holds, LockStages, InRpc, Idle
  <2>3. \A d \in Rooms : DOMAIN retained'[d] \subseteq 0 .. counter'[d] - 1
    <3>1. DOMAIN <<>> = {}
      OBVIOUS
    <3> QED
      BY <2>1, <3>1
  <2>4. NoLostSlot'
    BY <2>1 DEF SlotInv, NoLostSlot
  <2> QED
    BY <1>1, <2>1, <2>2, <2>3, <2>4 DEF SlotInv
<1>5. ASSUME NEW w \in TaskSlots, SendFrame(w)
      PROVE  SlotInv'
  BY <1>1, <1>5, SendSlot
<1> QED
  BY <1>2, <1>3, <1>4, <1>5, GentleOrNot

\* The server never holds a frame whose predecessor the peer can never get: a send
\* takes the chat lock, its counter moves with the frame it retains, and a failed RPC,
\* a cancellation, a stop or a crash suspends the chat before another slot is taken.
THEOREM NoSlotLost == TransientSpec => []NoLostSlot
<1>1. TransientInit => SlotInv
  <2> SUFFICES ASSUME TransientInit PROVE SlotInv
    OBVIOUS
  <2>1. /\ QuietInv /\ known = {} /\ \A w \in TaskSlots : tasks[w] = Idle
        /\ \A c \in Rooms : counter[c] = 0 /\ retained[c] = <<>> /\ served[c] = {}
    BY InitQuiet DEF TransientInit
  <2>2. ASSUME NEW v \in TaskSlots, NEW d PROVE ~ Holds(tasks[v]) /\ ~ InRpc(tasks[v], d)
    BY <2>1 DEF Holds, LockStages, InRpc, Idle
  <2>3. \A d \in Rooms : DOMAIN retained[d] \subseteq 0 .. counter[d] - 1
    <3>1. DOMAIN <<>> = {}
      OBVIOUS
    <3> QED
      BY <2>1, <3>1
  <2> QED
    BY <2>1, <2>2, <2>3 DEF SlotInv, NoLostSlot
<1>2. SlotInv /\ [TransientNext]_transientVars => SlotInv'
  BY SlotStep
<1>3. SlotInv => NoLostSlot
  BY DEF SlotInv
<1> QED
  BY <1>1, <1>2, <1>3, PTL DEF TransientSpec

============================================================================
