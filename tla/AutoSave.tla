------------------------------ MODULE AutoSave -----------------------------
(***************************************************************************)
(* Auto-save (autosave.py): the lines of one chat's messages.jsonl, the    *)
(* downloads owed in pending.json and the saved files, with failures and   *)
(* crashes between any two steps.                                          *)
(*                                                                         *)
(* `doing` is what the code does without an await: only a crash can come   *)
(* between its steps. A message that is sent is recorded when it is        *)
(* committed and has its file copied, or owed, when its RPC has answered:  *)
(* between the two anything may happen. A received message is delivered    *)
(* again until its mailbox item is popped (receive.py).                    *)
(***************************************************************************)
EXTENDS Naturals, Sequences, FiniteSets

CONSTANTS
  Kind,          \* [message -> {"received", "sent"}]
  MaxSaveErrors, \* how many steps or downloads may fail
  MaxOutages,    \* how many times the process stops or dies
  MaxTorn        \* how many of those cut a line short

VARIABLES
  switch,      \* the stored setting: auto-save is on
  phase,       \* "down", "recovering" (start() before resume()) or "up"
  lines,       \* messages.jsonl
  torn,        \* its last line was cut short
  owed,        \* pending.json
  saved,       \* the files on disk
  fetching,    \* _tasks: downloads under way, by message
  sending,     \* recorded messages whose RPC has not answered
  doing,       \* the steps still to do before the next await
  over,        \* history: messages whose operation has come to its end
  unsaved,     \* history: messages a logged failure, the switch or a crash left out
  kept_pending, \* history: messages whose send_file or forward_file raised
  saveErrors, outages, cuts

saveVars == <<switch, phase, lines, torn, owed, saved, fetching, sending, doing, over, unsaved,
              kept_pending, saveErrors, outages, cuts>>
diskVars == <<switch, lines, torn, owed, saved>>
callVars == <<sending, over, kept_pending>>
boundVars == <<saveErrors, outages, cuts>>

Mail == DOMAIN Kind
Act(do, m) == [do |-> do, m |-> m]

SaveInit ==
  /\ switch = TRUE /\ phase = "up" /\ lines = <<>> /\ torn = FALSE
  /\ owed = {} /\ saved = {} /\ fetching = [m \in Mail |-> 0]
  /\ sending = {} /\ doing = <<>> /\ over = {} /\ unsaved = {} /\ kept_pending = {}
  /\ saveErrors = 0 /\ outages = 0 /\ cuts = 0

Busy == doing # <<>>
Now == Head(doing)

\* received(), or sent() and the RPC that outbox.py then awaits.
Operation(m) ==
  IF Kind[m] = "received"
    THEN <<Act("record", m), Act("owe", m), Act("spawn", m), Act("end", m)>>
    ELSE <<Act("record", m), Act("send", m)>>

\* sent_file() or forwarded(), once the RPC has answered.
SentFile(m) == <<Act("copy", m), Act("list", m), Act("end", m)>>
Forwarded(m) == <<Act("owe", m), Act("spawn", m), Act("end", m)>>

\* Each of them does nothing while auto-save is off.
IfOn(work, m) ==
  IF switch THEN doing' = work /\ UNCHANGED unsaved
  ELSE doing' = <<work[Len(work)]>> /\ unsaved' = unsaved \cup {m}

\* A message comes or goes. An interrupted one comes again only if it was received.
Begin(m) ==
  /\ phase # "down" /\ ~ Busy /\ m \notin over \cup sending
  /\ Kind[m] = "received" \/ m \notin unsaved
  /\ IfOn(Operation(m), m)
  /\ UNCHANGED <<diskVars, phase, fetching, callVars, boundVars>>

\* The RPC answers, also while stop() waits or after it; it was that of send_file or of
\* forward_file.
Answered(m) ==
  /\ m \in sending /\ ~ Busy
  /\ sending' = sending \ {m}
  /\ IfOn(SentFile(m), m) \/ IfOn(Forwarded(m), m)
  /\ UNCHANGED <<diskVars, phase, fetching, over, kept_pending, boundVars>>

\* It fails: the record waits for a later transmission, but the caller's send_file or
\* forward_file raises before its sent_file() or forwarded().
StaysPending(m) ==
  /\ m \in sending /\ ~ Busy
  /\ sending' = sending \ {m} /\ over' = over \cup {m}
  /\ kept_pending' = kept_pending \cup {m}
  /\ UNCHANGED <<diskVars, phase, fetching, doing, unsaved, boundVars>>

\* _append: behind a line cut short the new one is unreadable too.
Append_(kind, m) ==
  IF torn THEN [lines EXCEPT ![Len(lines)] = [kind |-> "cut", m |-> m]]
  ELSE Append(lines, [kind |-> kind, m |-> m])

\* The download is over: save() puts the file in place, then the tail of _fetch.
Bad_Tail(m) == <<Act("copy", m), Act("settle", m), Act("list", m)>>
Tail_(m) == <<Act("copy", m), Act("list", m), Act("settle", m)>>

FetchEnds(m) ==
  /\ fetching[m] > 0 /\ ~ Busy
  /\ fetching' = [fetching EXCEPT ![m] = @ - 1]
  /\ doing' = Tail_(m)
  /\ UNCHANGED <<diskVars, phase, callVars, unsaved, boundVars>>

\* One step of the running code.
Do(a) ==
  /\ lines' = IF a.do \in {"record", "list"}
                THEN Append_(IF a.do = "list" THEN "file" ELSE "message", a.m) ELSE lines
  /\ torn' = (torn /\ a.do \notin {"record", "list"})
  /\ saved' = IF a.do = "copy" THEN saved \cup {a.m} ELSE saved
  /\ owed' = CASE a.do = "owe" -> owed \cup {a.m}
               [] a.do = "settle" -> owed \ {a.m}
               [] OTHER -> owed
  /\ fetching' = IF a.do = "spawn" THEN [fetching EXCEPT ![a.m] = @ + 1] ELSE fetching
  /\ sending' = IF a.do = "send" THEN sending \cup {a.m} ELSE sending
  /\ over' = IF a.do = "end" THEN over \cup {a.m} ELSE over

Proceed ==
  /\ Busy /\ Do(Now) /\ doing' = Tail(doing)
  /\ UNCHANGED <<switch, phase, unsaved, kept_pending, boundVars>>

\* _guarded: the step raises, what depends on it is left out and the message goes on,
\* one that is sent to its RPC; in _fetch the download stays owed.
Raises ==
  /\ Busy /\ Now.do \in {"record", "owe", "copy", "list"} /\ saveErrors < MaxSaveErrors
  /\ saveErrors' = saveErrors + 1
  /\ IF doing[Len(doing)].do \in {"end", "send"}
       THEN doing' = <<doing[Len(doing)]>> /\ unsaved' = unsaved \cup {Now.m}
       ELSE doing' = <<>> /\ UNCHANGED unsaved
  /\ UNCHANGED <<diskVars, phase, fetching, callVars, outages, cuts>>

FetchFails(m) ==
  /\ fetching[m] > 0 /\ ~ Busy /\ saveErrors < MaxSaveErrors
  /\ fetching' = [fetching EXCEPT ![m] = @ - 1] /\ saveErrors' = saveErrors + 1
  /\ UNCHANGED <<diskVars, phase, doing, callVars, unsaved, outages, cuts>>

\* stop() cancels the downloads at their await.
Cancel ==
  /\ phase = "up" /\ ~ Busy /\ outages < MaxOutages
  /\ phase' = "down" /\ fetching' = [m \in Mail |-> 0] /\ outages' = outages + 1
  /\ UNCHANGED <<diskVars, doing, callVars, unsaved, saveErrors, cuts>>

\* The process dies; what was being appended may be on disk in part. What it was
\* sending it forgets to save.
Die ==
  /\ outages < MaxOutages
  /\ phase' = "down" /\ fetching' = [m \in Mail |-> 0] /\ doing' = <<>> /\ sending' = {}
  /\ outages' = outages + 1
  /\ unsaved' = unsaved \cup sending
                  \cup {a.m : a \in {x \in {doing[i] : i \in DOMAIN doing} :
                                x.do \in {"end", "send"} /\ Kind[x.m] # "received"}}
  /\ \/ UNCHANGED <<lines, torn, cuts>>
     \/ /\ Busy /\ Now.do \in {"record", "list"} /\ cuts < MaxTorn
        /\ lines' = IF torn THEN lines ELSE Append(lines, [kind |-> "cut", m |-> Now.m])
        /\ torn' = TRUE /\ cuts' = cuts + 1
  /\ UNCHANGED <<switch, owed, saved, over, kept_pending, saveErrors>>

LoadFolder ==
  /\ phase = "down" /\ phase' = "recovering"
  /\ UNCHANGED <<diskVars, fetching, doing, callVars, unsaved, boundVars>>

\* Faulty variant: only what was received since is fetched.
Bad_Resume ==
  /\ phase = "recovering" /\ ~ Busy /\ phase' = "up"
  /\ UNCHANGED <<diskVars, fetching, doing, callVars, unsaved, boundVars>>

\* resume(): every download that is owed begins again.
Resume ==
  /\ phase = "recovering" /\ ~ Busy /\ phase' = "up"
  /\ fetching' = [m \in Mail |-> IF switch /\ m \in owed THEN fetching[m] + 1 ELSE fetching[m]]
  /\ UNCHANGED <<diskVars, doing, callVars, unsaved, boundVars>>

\* stop_auto_save_secret_chats waits for the downloads, then switches off.
Disable ==
  /\ switch /\ ~ Busy /\ \A m \in Mail : fetching[m] = 0
  /\ switch' = FALSE
  /\ UNCHANGED <<phase, lines, torn, owed, saved, fetching, doing, callVars, unsaved, boundVars>>

Enable ==
  /\ ~ switch /\ ~ Busy
  /\ switch' = TRUE
  /\ UNCHANGED <<phase, lines, torn, owed, saved, fetching, doing, callVars, unsaved, boundVars>>

SaveNext ==
  \/ \E m \in Mail :
       Begin(m) \/ Answered(m) \/ StaysPending(m) \/ FetchEnds(m) \/ FetchFails(m)
  \/ Proceed \/ Raises \/ Cancel \/ Die \/ LoadFolder \/ Resume \/ Disable \/ Enable

SaveSpec == SaveInit /\ [][SaveNext]_saveVars

\* Code that has begun goes on, a stopped manager is started, downloads come to an end.
SaveFairness ==
  /\ WF_saveVars(Proceed) /\ WF_saveVars(LoadFolder) /\ WF_saveVars(Resume)
  /\ \A m \in Mail : SF_saveVars(FetchEnds(m))

----------------------------------------------------------------------------
(* Properties *)

Lines(kind, m) == {i \in DOMAIN lines : lines[i] = [kind |-> kind, m |-> m]}

\* read(): the record of m names its file. A record repeated by a second delivery
\* takes the place of the first, file and all.
Mentioned(m) == \E i \in Lines("file", m) : /\ Lines("message", m) # {}
                                         /\ \A j \in Lines("message", m) : j < i

\* Once a message's operation is over its file is readable through the saved records
\* or its download is still owed, whatever failed, stopped or died on the way; of a
\* send that ended with SendPending only the record is there.
FileNotLost ==
  \A m \in over \ (unsaved \cup kept_pending) : m \in owed \/ (Mentioned(m) /\ m \in saved)

\* A download that is to begin, is under way or was interrupted by a stop or a crash is
\* made in the end, unless one failed or auto-save is switched off. One owed from before
\* auto-save was switched off and on again waits for the next start.
OwedIsFetched ==
  \A m \in Mail :
    (/\ m \in owed /\ saveErrors = 0
     /\ phase # "up" \/ fetching[m] > 0 \/ (Busy /\ Now = Act("spawn", m)))
      ~> (m \notin owed \/ saveErrors > 0 \/ ~ switch)
============================================================================
