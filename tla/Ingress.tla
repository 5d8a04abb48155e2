------------------------------- MODULE Ingress ------------------------------
(***************************************************************************)
(* DurableIngress and StrongSecretChatManager (ingress*.py,                *)
(* strong_manager.py): the updates of the authorization's secret queue are *)
(* captured before the server may forget them, and applied to the chats    *)
(* from what was captured.                                                 *)
(*                                                                         *)
(* An update is its qts. Telethon's MessageBox and the server are external *)
(* and modelled from how these modules use them.                           *)
(***************************************************************************)
EXTENDS Naturals, Sequences, FiniteSets, SequencesExt

CONSTANTS
  Streams,     \* the queues: sequences of updates [chat, kind]
  IngressChats,
  MaxBatches,  \* limits.records, of the ledger
  MaxPauses,   \* how often a chat may be paused
  MaxFaults,   \* how many writes may fail
  MaxReopens   \* how many times the store may be opened again

ASSUME IngressAssumption ==
  /\ Streams \subseteq Seq([chat : IngressChats,
                            kind : {"message", "unreadable", "terminal", "unrelated"}])
  /\ MaxBatches \in Nat

VARIABLES
  stream,    \* the queue; it never changes
  deleted,   \* the server has forgotten the updates up to here
  box,       \* the client's MessageBox: its qts, the updates it has buffered
  checkpoint, batches, applied,   \* the ledger, as stored
  counted,   \* the updates that are part of the protocol state, as stored
  halted,     \* per chat: "none", "paused" or "lost", as stored
  standing,  \* "ready", "failed", "closed" or "stopped"
  answer,    \* the difference under way: the qts it was asked for, how far it goes
  pass,      \* what _drain_ingress has still to visit
  pauses, faults, reopens

store == <<checkpoint, batches, applied, counted, halted>>
bounds == <<pauses, faults, reopens>>
ingressVars == <<stream, deleted, box, store, standing, answer, pass, bounds>>

Updates == 1 .. Len(stream)
UpdateNumbers == UNION {DOMAIN s : s \in Streams}
NoAnswer == [qts |-> 0, upTo |-> Len(stream) + 1]
Members(b) == {n \in Updates : b.before.qts < n /\ n <= b.after.qts}
Captured == UNION {Members(batches[i]) : i \in DOMAIN batches}

IngressInit ==
  /\ stream \in Streams
  /\ deleted = 0
  /\ box = [qts |-> 0, buffer |-> {}] /\ checkpoint = box
  /\ batches = <<>> /\ applied = {} /\ counted = {}
  /\ halted = [c \in IngressChats |-> "none"]
  /\ standing = "ready" /\ answer = NoAnswer /\ pass = <<>>
  /\ pauses = 0 /\ faults = 0 /\ reopens = 0

----------------------------------------------------------------------------
(* The MessageBox *)

\* process_updates: in order, with what the buffer then completes; buffered; or known.
process_updates(b, n) ==
  LET Reach == CHOOSE k \in n .. Len(stream) :
                 (n + 1) .. k \subseteq b.buffer /\ k + 1 \notin b.buffer
  IN IF n = b.qts + 1 THEN [qts |-> Reach, buffer |-> {m \in b.buffer : m > Reach}]
     ELSE IF n > b.qts THEN [b EXCEPT !.buffer = @ \cup {n}]
     ELSE b

apply_difference(b, upTo) == [qts |-> upTo, buffer |-> {m \in b.buffer : m > upTo}]

----------------------------------------------------------------------------
(* Capture *)

\* A write of the encrypted store: done, or uncertain, and then nothing more is
\* accepted until the store is opened again. `Change` is what the write contains.
Written == UNCHANGED <<standing, faults>>
Uncertain == faults < MaxFaults /\ faults' = faults + 1 /\ standing' = "closed"

\* _capture: the envelope and the checkpoint in one commit; the box follows.
capture(after) ==
  /\ batches' = Append(batches, [before |-> box, after |-> after])
  /\ checkpoint' = after /\ box' = after
  /\ UNCHANGED <<applied, counted, halted>>

Capture(after) ==
  \/ /\ Len(batches) < MaxBatches /\ box.qts = checkpoint.qts /\ after.qts >= box.qts
     /\ \/ capture(after) /\ Written
        \/ Uncertain /\ capture(after)
        \/ Uncertain /\ UNCHANGED <<box, store>>
  \/ /\ Len(batches) >= MaxBatches \/ box.qts # checkpoint.qts
     /\ standing' = "failed"
     /\ UNCHANGED <<box, store, faults>>

\* capture_live: an update the server pushes, in any order, perhaps again.
Live(n) ==
  /\ standing = "ready" /\ deleted < n
  /\ process_updates(box, n) # box
  /\ Capture(process_updates(box, n))
  /\ UNCHANGED <<deleted, answer, pass, pauses, reopens>>

----------------------------------------------------------------------------
(* Requests that acknowledge *)

\* Faulty variant: what the client has seen is taken for what is stored.
Bad_guard_requests(qts) == qts \in Updates

\* guard_requests: nothing beyond the stored checkpoint is ever acknowledged.
guard_requests(qts) == qts <= checkpoint.qts

\* A request that acknowledges: getDifference the box's qts, receivedQueue whatever its
\* caller says. The server forgets what it names; when it arrives makes no difference,
\* for the checkpoint only grows.
Acknowledging(qts) ==
  /\ standing = "ready" /\ guard_requests(qts)
  /\ deleted' = IF qts > deleted THEN qts ELSE deleted
  /\ UNCHANGED <<box, store, standing, pass, bounds>>

ReceivedQueue(qts) == qts > deleted /\ Acknowledging(qts) /\ UNCHANGED answer

\* The answer holds all that the queue holds by then, or a slice of it.
GetDifference ==
  /\ answer = NoAnswer /\ Acknowledging(box.qts)
  /\ \E upTo \in box.qts .. Len(stream) : answer' = [qts |-> box.qts, upTo |-> upTo]

\* guard_result and capture_difference. The answer to a request that names another qts
\* than the box now has is turned away.
Answer ==
  /\ answer # NoAnswer /\ answer' = NoAnswer
  /\ IF standing = "ready" /\ answer.qts = box.qts
       THEN Capture(apply_difference(box, answer.upTo))
       ELSE UNCHANGED <<box, store, standing, faults>>
  /\ UNCHANGED <<deleted, pass, pauses, reopens>>

----------------------------------------------------------------------------
(* _drain_ingress *)

\* updates_for: its updates in order, without the ones already applied; 0 is its end.
Visit(b) ==
  LET todo == SelectSeq([n \in Updates |-> n], LAMBDA n : n \in Members(b) \ applied)
  IN [i \in 1 .. Len(todo) + 1 |->
        [update |-> IF i <= Len(todo) THEN todo[i] ELSE 0, batch |-> b]]

\* A pass visits the batches there are: every update not yet applied, then the batch.
BeginPass ==
  /\ standing = "ready" /\ pass = <<>> /\ batches # <<>>
  /\ pass' = FlattenSeq([i \in DOMAIN batches |-> Visit(batches[i])])
  /\ UNCHANGED <<deleted, box, store, standing, answer, bounds>>

Visiting == standing = "ready" /\ pass # <<>> /\ Head(pass).update # 0
At == Head(pass).update
Chat == stream[At].chat
Sort == stream[At].kind
DrainRest == <<deleted, box, checkpoint, batches, answer, reopens>>

\* advance, in the commit that applies the update.
advance(n) ==
  /\ applied' = applied \cup {n}
  /\ counted' = IF Sort = "message" THEN counted \cup {n} ELSE counted

\* The update is applied, or has nothing to apply. One that ends the chat stops it.
ApplyUpdate ==
  /\ Visiting /\ Sort # "unreadable" /\ (Sort # "unrelated" => halted[Chat] = "none")
  /\ \/ advance(At) /\ Written
     \/ Uncertain /\ advance(At)
     \/ Uncertain /\ UNCHANGED <<applied, counted>>
  /\ halted' = IF Sort = "terminal" /\ At \in applied'
                THEN [halted EXCEPT ![Chat] = "lost"] ELSE halted
  /\ pass' = IF standing' = "ready" THEN Tail(pass) ELSE <<>>
  /\ UNCHANGED <<DrainRest, pauses>>

\* Faulty variant: the first paused chat ends the pass.
Bad_PassOver ==
  /\ Visiting /\ Sort # "unrelated" /\ halted[Chat] # "none"
  /\ pass' = <<>>
  /\ UNCHANGED <<DrainRest, applied, counted, halted, standing, pauses, faults>>

\* A chat that is paused is passed over.
PassOver ==
  /\ Visiting /\ Sort # "unrelated" /\ halted[Chat] # "none"
  /\ pass' = Tail(pass)
  /\ UNCHANGED <<DrainRest, applied, counted, halted, standing, pauses, faults>>

\* The chat's custody is full, or the deadline strikes while the update is applied: the
\* chat is paused, and can be resumed, for its update is still in the ledger.
RefuseUpdate ==
  /\ Visiting /\ Sort \in {"message", "unreadable"} /\ halted[Chat] = "none"
  /\ pauses < MaxPauses /\ pauses' = pauses + 1
  /\ halted' = [halted EXCEPT ![Chat] = "paused"]
  /\ pass' = Tail(pass)
  /\ UNCHANGED <<DrainRest, applied, counted, standing, faults>>

\* An update that can be neither applied nor blamed on a pause ends the pass.
Unreadable ==
  /\ Visiting /\ Sort = "unreadable" /\ halted[Chat] = "none"
  /\ pass' = <<>>
  /\ UNCHANGED <<DrainRest, applied, counted, halted, standing, pauses, faults>>

Complete(b) == Members(b) \subseteq applied

\* Faulty variant: every finished batch goes, whatever is before it.
Bad_Finished == SelectSeq(batches, LAMBDA b : ~ Complete(b))

\* What is left when the finished batches at the front are gone.
Finished ==
  LET n == CHOOSE k \in 0 .. Len(batches) :
             /\ \A i \in 1 .. k : Complete(batches[i])
             /\ k < Len(batches) => ~ Complete(batches[k + 1])
  IN SubSeq(batches, n + 1, Len(batches))

\* The batch is finished: it goes with the finished ones at the front of the ledger.
EndBatch ==
  /\ standing = "ready" /\ pass # <<>> /\ Head(pass).update = 0
  /\ LET mine == Head(pass).batch
         done == mine \in ToSet(batches) /\ Complete(mine)
     IN \/ done /\ batches' = Finished /\ Written
        \/ done /\ Uncertain /\ batches' \in {batches, Finished}
        \/ ~ done /\ Written /\ UNCHANGED batches
  /\ pass' = IF standing' = "ready" THEN Tail(pass) ELSE <<>>
  /\ UNCHANGED <<deleted, box, checkpoint, applied, counted, halted, answer,
                 pauses, reopens>>

----------------------------------------------------------------------------
(* The operator, and the process *)

PauseChat(c) ==
  /\ standing = "ready" /\ halted[c] = "none" /\ pauses < MaxPauses
  /\ pauses' = pauses + 1 /\ halted' = [halted EXCEPT ![c] = "paused"]
  /\ UNCHANGED <<deleted, box, checkpoint, batches, applied, counted, standing,
                 answer, pass, faults, reopens>>

ResumeChat(c) ==
  /\ standing = "ready" /\ halted[c] = "paused"
  /\ halted' = [halted EXCEPT ![c] = "none"]
  /\ UNCHANGED <<deleted, box, checkpoint, batches, applied, counted, standing,
                 answer, pass, bounds>>

\* stop() of the manager: requests are fenced, and the pass is cancelled.
StopIngress ==
  /\ standing \in {"ready", "failed"} /\ standing' = "stopped" /\ pass' = <<>>
  /\ UNCHANGED <<deleted, box, store, answer, bounds>>

\* The process ends, however. A new one opens the store and restores the box from the
\* checkpoint; an answer on its way is nobody's.
Reopen ==
  /\ reopens < MaxReopens /\ reopens' = reopens + 1
  /\ standing' = "ready" /\ pass' = <<>>
  /\ box' = checkpoint
  /\ answer' = NoAnswer
  /\ UNCHANGED <<deleted, store, pauses, faults>>

Drain ==
  BeginPass \/ ApplyUpdate \/ PassOver \/ RefuseUpdate \/ Unreadable \/ EndBatch

IngressStep ==
  \/ \E n \in Updates : Live(n)
  \/ \E qts \in Updates : ReceivedQueue(qts)
  \/ GetDifference \/ Answer
  \/ Drain
  \/ \E c \in IngressChats : PauseChat(c) \/ ResumeChat(c)
  \/ StopIngress \/ Reopen

IngressNext == IngressStep /\ UNCHANGED stream

IngressSpec == IngressInit /\ [][IngressNext]_ingressVars

\* A wake-up starts a pass, and a pass that has begun goes on.
IngressFairness == WF_ingressVars(Drain /\ UNCHANGED stream)

----------------------------------------------------------------------------
(* Properties *)

\* The server forgets nothing that the store does not hold: as a captured update, as
\* part of the protocol state, or as one that had nothing to apply.
ForgottenIsHeld ==
  \A n \in 1 .. deleted :
    n \in Captured \/ n \in counted \/ (n \in applied /\ stream[n].kind # "message")

\* validate_ledger accepts what is stored, whenever the process may end: the batches
\* follow each other and end at the checkpoint.
LedgerOpens ==
  /\ \A i \in 1 .. Len(batches) - 1 : batches[i].after.qts = batches[i + 1].before.qts
  /\ batches # <<>> => Last(batches).after.qts = checkpoint.qts
  /\ Len(batches) <= MaxBatches

\* The updates before n that would hold it up.
InTheWay(n) == \E m \in Captured : m < n /\ stream[m].kind = "unreadable"

\* A captured update is applied in the end, whatever other chats do; only a pause of
\* its own chat, an unreadable update before it or the end of the work prevents it.
CapturedIsApplied ==
  \A n \in UpdateNumbers :
    n \in Captured ~>
      n \notin Updates \/ n \in applied \/ halted[stream[n].chat] # "none" \/ standing # "ready"
        \/ stream[n].kind = "unreadable" \/ InTheWay(n)
=============================================================================
