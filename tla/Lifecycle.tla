----------------------------- MODULE Lifecycle -----------------------------
(***************************************************************************)
(* start() and stop() of the manager against everything that may be under  *)
(* way: handlers of the application that themselves call stop() or start() *)
(* (manager.py, dispatch.py), updates that hold or wait for a chat lock,   *)
(* an upload that runs without it (locking.py, files.py), a save that      *)
(* fails, and the removal of a chat.                                       *)
(*                                                                         *)
(* A handler is a wrapper task; when the application returned a task of    *)
(* its own, that inner task runs its code and the wrapper awaits it.       *)
(***************************************************************************)
EXTENDS Naturals, Sequences, FiniteSets, SequencesExt

CONSTANTS
  Chats,        \* the stored chats
  Ended,        \* the ones that are closed, and so may be forgotten
  Handlers,     \* the handlers the application may have scheduled
  Mains,        \* the application's own tasks
  MaxStops,     \* how many shutdowns may begin
  MaxFailures,  \* how many saves may fail
  MaxMail       \* how many messages a chat receives

\* A handler is a task of its own, never one the application runs itself.
ASSUME LifecycleAssumption == Handlers \cap Mains = {}

VARIABLES
  running, stopping, subscribed,  \* the manager's flags
  starts,        \* how many times start() has loaded the chats
  stops,         \* how many shutdowns have begun
  coordinator,   \* _stop_task: "none", "begin", "listing", "sweep", "drain",
                 \* "gather", "done" or "failed"
  unswept,       \* the chats _finish_stop has still to save
  rounds,        \* drain rounds done
  gathered,      \* the handlers this round waits for
  task,          \* what each task of the application is doing
  inner,         \* the handlers whose code runs in an inner task
  stop_callers, draining,   \* _stop_callers and _draining_handlers
  lock,          \* the chats whose lock an update holds
  queued,        \* the chats for which an update waits for the lock
  installed,     \* _chats: each chat's number of messages, or Gone
  record,        \* the stored record, or Gone
  detached,      \* the same of the entities an earlier start() installed
  upload,        \* the upload under way: which chat of which start(), or NoUpload
  forgotten,     \* history: the chats whose removal has ended
  failures

flags == <<running, stopping, subscribed, starts, stops>>
stopVars == <<coordinator, unswept, rounds, gathered>>
taskVars == <<task, inner, stop_callers, draining>>
chatData == <<lock, queued, installed, record, detached, upload, forgotten>>
lifeVars == <<flags, stopVars, taskVars, chatData, failures>>

Gone == 99
NoUpload == [chat |-> "none", start |-> 0]
Callers == Handlers \cup Mains

\* The task that runs a handler's code, as asyncio.current_task() sees it.
Current(t) == IF t \in inner THEN <<t, "inner">> ELSE <<t, "wrapper">>
Coordinating == coordinator \in {"begin", "listing", "sweep", "drain", "gather"}
Scheduled == {h \in Handlers : task[h] \notin {"none", "ended"}}

LifeInit ==
  /\ running = FALSE /\ stopping = FALSE /\ subscribed = FALSE
  /\ starts = 0 /\ stops = 0
  /\ coordinator = "none" /\ unswept = <<>> /\ rounds = 0 /\ gathered = {}
  /\ task = [t \in Callers |-> IF t \in Mains THEN "free" ELSE "none"]
  /\ inner = {} /\ stop_callers = {} /\ draining = {}
  /\ lock = {} /\ queued = {}
  /\ installed = [c \in Chats |-> Gone] /\ record = [c \in Chats |-> 0]
  /\ detached = installed
  /\ upload = NoUpload /\ forgotten = {} /\ failures = 0

Goes(t, what) == task' = [task EXCEPT ![t] = what]

----------------------------------------------------------------------------
(* start() *)

\* Load every record, subscribe, and be running again.
Load ==
  /\ installed' = record /\ detached' = installed
  /\ running' = TRUE /\ stopping' = FALSE /\ subscribed' = TRUE
  /\ starts' = starts + 1
  /\ UNCHANGED <<stops, lock, queued, record, upload, forgotten>>

\* A caller that finds a shutdown under way waits for it. A handler that is being
\* cancelled never gets here: start() raises.
StartWaits(t) ==
  /\ task[t] \in {"free", "running"} /\ Coordinating /\ Current(t) \notin draining
  /\ Goes(t, "starting")
  /\ UNCHANGED <<flags, stopVars, inner, stop_callers, draining, chatData, failures>>

StartLoads(t) ==
  /\ \/ task[t] \in {"free", "running"} /\ ~ Coordinating
     \/ task[t] = "starting" /\ coordinator = "done"
  /\ ~ running /\ Load
  /\ Goes(t, IF t \in Mains THEN "free" ELSE "resumed")
  /\ UNCHANGED <<stopVars, inner, stop_callers, draining, failures>>

\* Another start() was quicker, or the shutdown it waited for failed.
StartReturns(t) ==
  /\ task[t] = "starting" /\ ~ Coordinating
  /\ coordinator = "failed" \/ running
  /\ Goes(t, IF t \in Mains THEN "free" ELSE "resumed")
  /\ UNCHANGED <<flags, stopVars, inner, stop_callers, draining, chatData, failures>>

----------------------------------------------------------------------------
(* stop() *)

\* stop(), also as start() calls it to finish a shutdown that failed: the first
\* caller begins the shutdown, the others join it.
CallStop(t) ==
  /\ task[t] \in {"free", "running"} /\ Current(t) \notin draining
  /\ \/ /\ ~ Coordinating /\ running /\ stops < MaxStops
        /\ stopping' = TRUE /\ stops' = stops + 1
        /\ coordinator' = "begin"
     \/ /\ Coordinating
        /\ UNCHANGED <<stopping, stops, coordinator>>
  /\ stop_callers' = stop_callers \cup {Current(t)}
  /\ Goes(t, "stopping")
  /\ UNCHANGED <<running, subscribed, starts, unswept, rounds, gathered, inner,
                 draining, chatData, failures>>

\* The shared shutdown is over, well or badly, for this caller.
StopReturns(t) ==
  /\ task[t] = "stopping" /\ ~ Coordinating
  /\ stop_callers' = stop_callers \ {Current(t)}
  /\ Goes(t, IF t \in Mains THEN "free" ELSE "resumed")
  /\ UNCHANGED <<flags, stopVars, inner, draining, chatData, failures>>

\* Faulty variant: a handler being cancelled waits for the shutdown like any other.
Bad_StopInCleanup(h) ==
  /\ task[h] = "cancelling"
  /\ Goes(h, "stopping")
  /\ stop_callers' = stop_callers \cup {Current(h)}
  /\ UNCHANGED <<flags, stopVars, inner, draining, chatData, failures>>

\* A handler calls stop() while it cleans up: the coordinator already waits for
\* it, so the call returns at once.
StopInCleanup(h) ==
  /\ task[h] = "cancelling" /\ stopping /\ Current(h) \in draining
  /\ Goes(h, "leaving")
  /\ UNCHANGED <<flags, stopVars, inner, stop_callers, draining, chatData, failures>>

\* _finish_stop: unsubscribe, then cancel the downloads, which takes a while.
Unsubscribe ==
  /\ coordinator = "begin"
  /\ subscribed' = FALSE /\ coordinator' = "listing"
  /\ UNCHANGED <<running, stopping, starts, stops, unswept, rounds, gathered, taskVars,
                 chatData, failures>>

\* The chats are listed once; then each is saved under its lock. The loop runs on
\* until it meets a lock that is held, and saves a listed chat that has gone by then.
Listed ==
  IF coordinator = "listing"
    THEN SetToSeqs({c \in Chats : installed[c] # Gone}) ELSE {unswept}
Unlocked(list) ==
  CHOOSE n \in 0 .. Len(list) : /\ \A i \in 1 .. n : list[i] \notin lock
                                /\ n < Len(list) => list[n + 1] \in lock

Sweep ==
  /\ coordinator \in {"listing", "sweep"}
  /\ \E list \in Listed :
       LET n == Unlocked(list)
       IN /\ coordinator = "sweep" => n > 0
          /\ record' = [c \in Chats |-> IF \A i \in 1 .. n : list[i] # c THEN record[c]
                                        ELSE IF installed[c] = Gone THEN detached[c]
                                        ELSE installed[c]]
          /\ unswept' = SubSeq(list, n + 1, Len(list))
          /\ coordinator' = IF n = Len(list) THEN "drain" ELSE "sweep"
  /\ rounds' = 0
  /\ UNCHANGED <<flags, gathered, taskVars, lock, queued, installed, detached, upload,
                 forgotten, failures>>

SaveFails ==
  /\ coordinator \in {"listing", "sweep"} /\ failures < MaxFailures
  /\ \E list \in Listed : list # <<>> /\ Unlocked(list) > 0
  /\ coordinator' = "failed" /\ unswept' = <<>> /\ failures' = failures + 1
  /\ UNCHANGED <<flags, rounds, gathered, taskVars, chatData>>

\* _cancel_handler_tasks leaves out whoever waits for this very shutdown.
Cancellable(h) == Current(h) \notin stop_callers

Interrupted(what) == IF what \in {"running", "resumed", "starting"} THEN "cancelling" ELSE what

DrainRound ==
  LET tasks == {h \in Scheduled : Cancellable(h)}
  IN /\ coordinator = "drain" /\ rounds < 3 /\ Scheduled # {}
     /\ coordinator' = "gather" /\ gathered' = tasks
     /\ draining' = draining \cup {Current(h) : h \in tasks}
                             \cup {<<h, "wrapper">> : h \in tasks}
     /\ task' = [t \in Callers |-> IF t \in tasks THEN Interrupted(task[t]) ELSE task[t]]
     /\ UNCHANGED <<flags, unswept, rounds, inner, stop_callers, chatData, failures>>

RoundEnds ==
  /\ coordinator = "gather" /\ \A h \in gathered : task[h] = "ended"
  /\ draining' = draining \ {<<h, which>> : h \in gathered, which \in {"inner", "wrapper"}}
  /\ coordinator' = "drain" /\ rounds' = rounds + 1 /\ gathered' = {}
  /\ UNCHANGED <<flags, unswept, task, inner, stop_callers, chatData, failures>>

StopEnds ==
  /\ coordinator = "drain" /\ (rounds = 3 \/ Scheduled = {})
  /\ running' = FALSE /\ coordinator' = "done"
  /\ UNCHANGED <<stopping, subscribed, starts, stops, unswept, rounds, gathered,
                 taskVars, chatData, failures>>

----------------------------------------------------------------------------
(* Updates, handlers and sends *)

\* An update's task reaches the chat lock.
Arrive(c) ==
  /\ subscribed /\ c \notin queued /\ c \notin Ended /\ installed[c] < MaxMail
  /\ queued' = queued \cup {c}
  /\ UNCHANGED <<flags, stopVars, taskVars, lock, installed, record, detached, upload,
                 forgotten, failures>>

Acquire(c) ==
  /\ c \in queued /\ c \notin lock
  /\ lock' = lock \cup {c} /\ queued' = queued \ {c}
  /\ UNCHANGED <<flags, stopVars, taskVars, installed, record, detached, upload,
                 forgotten, failures>>

\* Faulty variant: a handler is scheduled whatever the manager is doing.
Bad_Emit(h, own) ==
  /\ task[h] = "none"
  /\ inner' = IF own THEN inner \cup {h} ELSE inner
  /\ Goes(h, "running") /\ UNCHANGED draining

\* _emit: a handler is scheduled; while stopping a coroutine is closed, and a task is
\* kept until it has handled its cancellation.
Emit(h, own) ==
  /\ task[h] = "none"
  /\ inner' = IF own THEN inner \cup {h} ELSE inner
  /\ IF ~ stopping THEN Goes(h, "running") /\ UNCHANGED draining
     ELSE /\ own
          /\ Goes(h, "cancelling") /\ draining' = draining \cup {<<h, "inner">>}

\* The update commits and may emit an event, then the lock is free.
Finish(c) ==
  /\ c \in lock
  /\ lock' = lock \ {c}
  /\ installed' = [installed EXCEPT ![c] = @ + 1]
  /\ record' = [record EXCEPT ![c] = installed[c] + 1]
  /\ \/ UNCHANGED <<task, inner, draining>>
     \/ \E h \in Handlers, own \in BOOLEAN : Emit(h, own)
  /\ UNCHANGED <<flags, stopVars, stop_callers, queued, detached, upload, forgotten,
                 failures>>

\* The handler's code comes to its end. A wrapper and its inner task end together.
HandlerEnds(h) ==
  /\ task[h] \in {"running", "resumed", "cancelling", "leaving"}
  /\ Goes(h, "ended")
  /\ draining' = IF h \in gathered THEN draining
                 ELSE draining \ {<<h, "inner">>, <<h, "wrapper">>}
  /\ UNCHANGED <<flags, stopVars, inner, stop_callers, chatData, failures>>

\* send_file: the outbound lock is checked, the chat captured, the upload begun.
BeginUpload(c) ==
  /\ upload = NoUpload /\ ~ stopping /\ running /\ c \notin Ended /\ installed[c] < MaxMail
  /\ upload' = [chat |-> c, start |-> starts]
  /\ UNCHANGED <<flags, stopVars, taskVars, lock, queued, installed, record, detached,
                 forgotten, failures>>

\* Faulty variant: the entity captured before the upload is sent from.
Bad_SendUploaded(c) == ~ stopping

\* _check_current, and _send's own check.
SendUploaded(c) ==
  upload.start = starts /\ installed[c] # Gone /\ ~ stopping

\* The upload is over; under the chat lock its message is stored, or refused.
EndUpload ==
  LET c == upload.chat
      now == IF upload.start = starts THEN installed[c] ELSE detached[c]
  IN /\ upload # NoUpload /\ c \notin lock
     /\ upload' = NoUpload
     /\ IF SendUploaded(c)
          THEN /\ record' = [record EXCEPT ![c] = now + 1]
               /\ IF upload.start = starts
                    THEN installed' = [installed EXCEPT ![c] = @ + 1] /\ UNCHANGED detached
                    ELSE detached' = [detached EXCEPT ![c] = @ + 1] /\ UNCHANGED installed
          ELSE UNCHANGED <<record, installed, detached>>
     /\ UNCHANGED <<flags, stopVars, taskVars, lock, queued, forgotten, failures>>

\* forget(): a closed chat's record goes, and its entity.
Forget(c) ==
  /\ c \in Ended /\ c \notin lock /\ installed[c] # Gone
  /\ record' = [record EXCEPT ![c] = Gone]
  /\ installed' = [installed EXCEPT ![c] = Gone]
  /\ detached' = [detached EXCEPT ![c] = installed[c]]
  /\ forgotten' = forgotten \cup {c}
  /\ UNCHANGED <<flags, stopVars, taskVars, lock, queued, upload, failures>>

----------------------------------------------------------------------------

Caller(t) ==
  \/ StartWaits(t) \/ StartLoads(t) \/ StartReturns(t)
  \/ CallStop(t) \/ StopReturns(t)

Coordinator ==
  \/ Unsubscribe \/ Sweep \/ SaveFails
  \/ DrainRound \/ RoundEnds \/ StopEnds

LifeNext ==
  \/ \E t \in Callers : Caller(t)
  \/ \E h \in Handlers : StopInCleanup(h) \/ HandlerEnds(h)
  \/ Coordinator
  \/ \E c \in Chats : Arrive(c) \/ Acquire(c) \/ Finish(c) \/ Forget(c)
                      \/ BeginUpload(c)
  \/ EndUpload

LifeSpec == LifeInit /\ [][LifeNext]_lifeVars

\* The event loop runs what is ready, an update that has the lock finishes, and a
\* handler that was cancelled ends. Nobody owes a call, and no handler owes an end.
LifeFairness ==
  /\ WF_lifeVars(Coordinator)
  /\ \A t \in Callers : WF_lifeVars(/\ task[t] \in {"starting", "stopping"}
                                    /\ StartLoads(t) \/ StartReturns(t) \/ StopReturns(t))
  /\ \A h \in Handlers : WF_lifeVars(task[h] \in {"cancelling", "leaving"} /\ HandlerEnds(h))
  /\ \A c \in Chats : WF_lifeVars(Finish(c))

----------------------------------------------------------------------------
(* Properties *)

\* Whoever calls stop() or waits in start() gets an answer: handlers that call them,
\* also while they are cancelled, and the shutdown that waits for handlers never
\* wait for each other.
CallersReturn ==
  \A t \in Callers : task[t] \in {"stopping", "starting"}
                        ~> task[t] \notin {"stopping", "starting"}

\* After the shutdown no handler runs on undisturbed, unless it called stop() itself,
\* also not one whose event came while the shutdown was under way.
NoneLeftRunning ==
  (coordinator = "done" /\ stopping) =>
    \A h \in Handlers : task[h] \notin {"running", "starting"}

\* The stored record is that of the installed chat: an upload begun before a restart
\* never puts back what the record was then.
RecordIsCurrent ==
  \A c \in Chats : installed[c] # Gone => record[c] = installed[c]

\* A chat that was forgotten stays forgotten ("list() no longer shows it").
ForgottenStaysForgotten == \A c \in forgotten : record[c] = Gone
=============================================================================
