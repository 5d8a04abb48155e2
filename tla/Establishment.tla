---------------------------- MODULE Establishment --------------------------
(***************************************************************************)
(* The handshake of one secret chat (establishment.py): create() on the    *)
(* requester's side "A", accept() on the acceptor's side "B", the updates  *)
(* that may overtake the answers of their RPCs, stop() and crashes.        *)
(*                                                                         *)
(* A key is named by the secret of the acceptor that it was made with; the *)
(* g_b and the fingerprint the server passes on name the same one. The     *)
(* server, and a second device of B's account, are external.               *)
(***************************************************************************)
EXTENDS Naturals

CONSTANTS
  MaxFaults,  \* how many RPCs and writes may fail
  MaxHalts    \* how many times a manager may be stopped or may die

ASSUME HandshakeAssumption == MaxFaults \in Nat /\ MaxHalts \in Nat

VARIABLES
  run,      \* each manager: "up", "stopping", "stopped", or "dead"
  chat,     \* each side's stored record of the chat
  create,   \* A's create(): "no", "asking", "handle" (an update), "done"
  stale,    \* a stop() has begun since that create() did
  early,    \* _early_encryption: the update remembered for this chat
  found,    \* the update create() has still to handle
  busy,     \* another create() of A is in flight
  work,     \* B's task that holds the chat lock, and the answer it has
  server,   \* the chat on the server: phase, key, and who accepted
  updates,  \* updates the server may (again) deliver to each side
  told,     \* history: A has taken a discarded update for this chat
  died,     \* history: A has died at least once
  forgot,   \* history: B has removed its record of the chat
  faults, halts

memory == <<create, stale, early, found, busy, work>>
ghosts == <<told, died, forgot>>
vars == <<run, chat, memory, server, updates, ghosts, faults, halts>>

Party == {"A", "B"}
Other(p) == IF p = "A" THEN "B" ELSE "A"

None == 0     \* no secret, no key
Secret_a == 1 \* the requester's secret, which no key is named by
NoChat == [state |-> "none", secret |-> None, key |-> None]
Record == [state : {"none", "requested", "pending", "ready", "closed"},
           secret : Nat, key : Nat]
\* EncryptedChatDiscarded, without and with history_deleted.
Terminal == {"discarded", "deleted"}
Kinds == {"requested", "waiting", "ready"} \cup Terminal
Work == {"no", "config", "accept", "ok", "already", "declined"}

Init ==
  /\ run = [p \in Party |-> "up"]
  /\ chat = [p \in Party |-> NoChat]
  /\ create = "no" /\ stale = FALSE
  /\ early = "none" /\ found = "none" /\ busy = FALSE
  /\ work = "no"
  /\ server = [phase |-> "none", key |-> None, by |-> "nobody"]
  /\ updates = [p \in Party |-> {}]
  /\ told = FALSE /\ died = FALSE /\ forgot = FALSE
  /\ faults = 0 /\ halts = 0

----------------------------------------------------------------------------
(* Chat records *)

\* close() and scrub(), in _close_local.
Closed(k) == [k EXCEPT !.state = "closed", !.secret = None, !.key = None]
\* What a discard leaves of a chat: the peer may have asked for its removal.
Ended(k, u) == IF k = NoChat \/ u = "deleted" THEN NoChat ELSE Closed(k)
\* adopt_key(), and the handshake is dropped with it.
Adopted(k, key) == [k EXCEPT !.state = "ready", !.secret = None, !.key = key]
\* A chat that is closed or keyed takes no further key.
Settled(k) == k.state \in {"ready", "closed"}

Put(p, k) == chat' = [chat EXCEPT ![p] = k]

\* The chat lock of this chat is free.
Unlocked(p) == IF p = "A" THEN create # "handle" ELSE work = "no"
\* The application may call an operation of the chat.
Usable(p) == run[p] = "up" /\ Unlocked(p)

\* _discard_remote, best effort; `left` is what remains of the updates, `failed`
\* what has already gone wrong in the same step.
DiscardRemote(p, kind, left, failed) ==
  /\ \/ faults' = faults + failed + 1 /\ updates' = left /\ UNCHANGED server
     \/ /\ server.phase \in {"waiting", "accepted"}
        /\ server' = [server EXCEPT !.phase = "discarded"]
        /\ updates' = [left EXCEPT ![Other(p)] = @ \cup {kind}]
        /\ faults' = faults + failed
     \/ /\ server.phase \in {"none", "discarded"}
        /\ faults' = faults + failed /\ updates' = left /\ UNCHANGED server
  /\ faults' <= MaxFaults

Fails == faults < MaxFaults /\ faults' = faults + 1

----------------------------------------------------------------------------
(* create(): the requester *)

BeginCreate ==
  /\ run["A"] = "up" /\ create = "no"
  /\ create' = "asking"
  /\ UNCHANGED <<run, chat, stale, early, found, busy, work, server, updates, ghosts, faults, halts>>

\* Another create() begins or ends.
OtherCreate ==
  /\ run["A"] = "up"
  /\ busy' = ~ busy
  /\ UNCHANGED <<run, chat, create, stale, early, found, work, server, updates, ghosts, faults, halts>>

\* self._creating
Creating == create = "asking" \/ busy

\* The server takes RequestEncryption and tells both accounts.
ServerRequests ==
  /\ create = "asking" /\ server.phase = "none"
  /\ server' = [server EXCEPT !.phase = "waiting"]
  /\ updates' = [updates EXCEPT !["A"] = @ \cup {"waiting"},
                                !["B"] = @ \cup {"requested"}]
  /\ UNCHANGED <<run, chat, memory, ghosts, faults, halts>>

\* The RPC fails, whether or not the server has taken the request.
CreateFails ==
  /\ create = "asking" /\ Fails
  /\ create' = "done"
  /\ UNCHANGED <<run, chat, stale, early, found, busy, work, server, updates, ghosts, halts>>

\* Faulty variant: the chat is left on the server.
Bad_CreateStale ==
  /\ create = "asking" /\ server.phase # "none" /\ stale
  /\ create' = "done" /\ early' = "none"
  /\ UNCHANGED <<run, chat, stale, found, busy, work, server, updates,
                 ghosts, faults, halts>>

\* The answer comes after stop() has begun: _check_generation raises.
CreateStale ==
  /\ create = "asking" /\ server.phase # "none" /\ stale
  /\ create' = "done" /\ early' = "none"
  /\ DiscardRemote("A", "discarded", updates, 0)
  /\ UNCHANGED <<run, chat, stale, found, busy, work, ghosts, halts>>

\* The record cannot be stored.
CreateUnsaved ==
  /\ create = "asking" /\ server.phase # "none" /\ ~ stale
  /\ create' = "done"
  /\ DiscardRemote("A", "discarded", updates, 1)
  /\ UNCHANGED <<run, chat, stale, early, found, busy, work, ghosts, halts>>

\* Faulty variant: a remembered acceptance is not looked at.
Bad_Choice(remembered, result) ==
  IF remembered \in Terminal THEN remembered
  ELSE IF result = "ready" THEN result
  ELSE "none"

\* Which update create() handles: a discard wins, then the answer itself.
Choice(remembered, result) ==
  IF remembered \in Terminal THEN remembered
  ELSE IF result = "ready" THEN result
  ELSE remembered

CreateReturns ==
  /\ create = "asking" /\ server.phase # "none" /\ ~ stale
  /\ Put("A", [state |-> "requested", secret |-> Secret_a, key |-> None])
  /\ create' = "handle" /\ early' = "none"
  /\ \E result \in {"waiting"} \cup (IF server.phase = "accepted" THEN {"ready"} ELSE {}) :
       found' = Choice(early, result)
  /\ UNCHANGED <<run, stale, busy, work, server, updates, ghosts, faults, halts>>

\* _on_encryption, called by create() itself.
CreateHandles ==
  /\ create = "handle"
  /\ create' = "done" /\ found' = "none"
  /\ chat' = [chat EXCEPT !["A"] =
                CASE found \in Terminal -> Ended(@, found)
                  [] found = "ready" -> Adopted(@, server.key)
                  [] OTHER -> @]
  /\ UNCHANGED <<run, stale, early, busy, work, server, updates, ghosts,
                 faults, halts>>

----------------------------------------------------------------------------
(* _on_encryption: one update, under the chat lock. It may come again.     *)

\* An update queued on the lock when stop() begins is still handled.
Taken(p, u) ==
  run[p] \in {"up", "stopping"} /\ Unlocked(p) /\ u \in updates[p]
Left(p, u) == {updates, [updates EXCEPT ![p] = @ \ {u}]}

\* EncryptedChatRequested: the parameters are fetched with the lock held.
OnRequested ==
  /\ Taken("B", "requested")
  /\ updates' \in Left("B", "requested")
  /\ work' = IF chat["B"] = NoChat THEN "config" ELSE work
  /\ UNCHANGED <<run, chat, create, stale, early, found, busy, server,
                 ghosts, faults, halts>>

\* The parameters have come, or could not be had. stop() does not wait for
\* this: the chat is not yet among those it sweeps.
StoreRequest ==
  /\ work = "config"
  /\ work' = "no"
  /\ \/ /\ Put("B", [state |-> "pending", secret |-> None, key |-> None])
        /\ UNCHANGED faults
     \/ Fails /\ UNCHANGED chat
  /\ UNCHANGED <<run, create, stale, early, found, busy, server, updates,
                 ghosts, halts>>

\* Faulty variant: the latest update is remembered.
Bad_remember_early(prior, u) == u

remember_early(prior, u) == IF prior \in Terminal THEN prior ELSE u

\* EncryptedChat at the requester.
OnReadyA ==
  /\ Taken("A", "ready")
  /\ \E left \in Left("A", "ready") :
       \/ /\ chat["A"] = NoChat /\ Creating
          /\ early' = remember_early(early, "ready")
          /\ updates' = left /\ UNCHANGED <<chat, server, faults>>
       \/ /\ chat["A"] = NoChat /\ ~ Creating
          /\ DiscardRemote("A", "discarded", left, 0)
          /\ UNCHANGED <<chat, early>>
       \/ /\ chat["A"] # NoChat
          /\ Put("A", IF Settled(chat["A"]) THEN chat["A"]
                      ELSE Adopted(chat["A"], server.key))
          /\ updates' = left /\ UNCHANGED <<early, server, faults>>
  /\ UNCHANGED <<run, create, stale, found, busy, work, ghosts, halts>>

\* EncryptedChat at the acceptor: its own acceptance, or another device's.
OnReadyB ==
  LET k == chat["B"]
  IN /\ Taken("B", "ready")
     /\ \E left \in Left("B", "ready") :
          \/ /\ k = NoChat
             /\ DiscardRemote("B", "discarded", left, 0)
             /\ UNCHANGED chat
          \/ /\ k # NoChat /\ Settled(k)
             /\ updates' = left /\ UNCHANGED <<chat, server, faults>>
          \/ /\ k.state = "pending" /\ k.secret = None
             /\ Put("B", Closed(k))
             /\ updates' = left /\ UNCHANGED <<server, faults>>
          \/ /\ k.state = "pending" /\ k.secret = server.key
             /\ Put("B", Adopted(k, k.secret))
             /\ updates' = left /\ UNCHANGED <<server, faults>>
          \/ /\ k.state = "pending" /\ k.secret \notin {None, server.key}
             /\ Put("B", Closed(k))
             /\ DiscardRemote("B", "discarded", left, 0)
     /\ UNCHANGED <<run, memory, ghosts, halts>>

\* EncryptedChatWaiting.
OnWaiting ==
  /\ Taken("A", "waiting")
  /\ \E left \in Left("A", "waiting") :
       IF chat["A"] = NoChat /\ ~ Creating
         THEN DiscardRemote("A", "discarded", left, 0)
       ELSE updates' = left /\ UNCHANGED <<server, faults>>
  /\ UNCHANGED <<run, chat, memory, ghosts, halts>>

\* EncryptedChatDiscarded.
OnDiscarded(p) ==
  \E u \in Terminal :
    /\ Taken(p, u)
    /\ updates' \in Left(p, u)
    /\ Put(p, Ended(chat[p], u))
    /\ early' = IF p = "A" /\ chat[p] = NoChat /\ Creating
                  THEN remember_early(early, u) ELSE early
    /\ told' = (told \/ p = "A")
    /\ forgot' = (forgot \/ (p = "B" /\ u = "deleted"))
    /\ UNCHANGED <<run, create, stale, found, busy, work, server, died,
                   faults, halts>>

----------------------------------------------------------------------------
(* accept(): the acceptor *)

\* generate_secret: a number nobody has used, as good as any other such.
Fresh == CHOOSE n \in 2 .. 6 :
  n \notin {server.key, chat["A"].key, chat["B"].secret, chat["B"].key}

\* Faulty variant: every call draws a new secret.
Bad_Secret(s) == Fresh

\* The secret is generated once and stored before it is used.
Secret(s) == IF s = None THEN Fresh ELSE s

BeginAccept ==
  /\ Usable("B") /\ chat["B"].state = "pending"
  /\ Put("B", [chat["B"] EXCEPT !.secret = Secret(@)])
  /\ work' = "accept"
  /\ UNCHANGED <<run, create, stale, early, found, busy, server, updates, ghosts,
                 faults, halts>>

\* The server takes AcceptEncryption; its answer is on its way.
ServerAccepts ==
  /\ work = "accept"
  /\ \/ /\ server.phase = "waiting"
        /\ server' = [phase |-> "accepted", key |-> chat["B"].secret, by |-> "this"]
        /\ updates' = [p \in Party |-> updates[p] \cup {"ready"}]
        /\ work' = "ok"
     \/ /\ server.phase # "waiting"
        /\ work' = IF server.phase = "accepted" THEN "already" ELSE "declined"
        /\ UNCHANGED <<server, updates>>
  /\ UNCHANGED <<run, chat, create, stale, early, found, busy, ghosts,
                 faults, halts>>

AcceptReturns ==
  /\ work \in {"ok", "already", "declined"}
  /\ work' = "no"
  /\ Put("B", IF work = "declined" THEN Closed(chat["B"])
              ELSE Adopted(chat["B"], chat["B"].secret))
  /\ UNCHANGED <<run, create, stale, early, found, busy, server, updates,
                 ghosts, faults, halts>>

\* The RPC fails: the chat stays pending and may be accepted again.
AcceptFails ==
  /\ work \in {"accept", "ok", "already", "declined"} /\ Fails
  /\ work' = "no"
  /\ UNCHANGED <<run, chat, create, stale, early, found, busy, server, updates, ghosts, halts>>

\* A second device of B's account accepts the request.
OtherDeviceAccepts ==
  /\ server.phase = "waiting"
  /\ server' = [phase |-> "accepted", key |-> Fresh, by |-> "other"]
  /\ \E u \in {"ready", "discarded"} :
       updates' = [updates EXCEPT !["A"] = @ \cup {"ready"}, !["B"] = @ \cup {u}]
  /\ UNCHANGED <<run, chat, memory, ghosts, faults, halts>>

----------------------------------------------------------------------------
(* close(), deletion, stop(), start(), crashes. The application calls      *)
(* nothing else once it has called stop().                                 *)

IsOpen(k) == k.state \in {"requested", "pending", "ready"}

Close(p) ==
  /\ Usable(p) /\ IsOpen(chat[p])
  /\ Put(p, Closed(chat[p]))
  /\ DiscardRemote(p, "discarded", updates, 0)
  /\ UNCHANGED <<run, memory, ghosts, halts>>

\* delete_secret_chat_both_sides(), or delete_secret_chat() of an open chat.
Delete(p) ==
  /\ Usable(p) /\ chat[p] # NoChat
  /\ Put(p, NoChat)
  /\ \/ DiscardRemote(p, "deleted", updates, 0)
     \/ IsOpen(chat[p]) /\ DiscardRemote(p, "discarded", updates, 0)
  /\ forgot' = (forgot \/ p = "B")
  /\ UNCHANGED <<run, memory, told, died, halts>>

\* forget(), and delete_secret_chat() of a closed chat.
Forget(p) ==
  /\ Usable(p) /\ chat[p].state = "closed"
  /\ Put(p, NoChat)
  /\ forgot' = (forgot \/ p = "B")
  /\ UNCHANGED <<run, memory, server, updates, told, died, faults, halts>>

Stop(p) ==
  /\ run[p] = "up" /\ halts < MaxHalts
  /\ halts' = halts + 1
  /\ run' = [run EXCEPT ![p] = "stopping"]
  /\ stale' = (stale \/ (p = "A" /\ create = "asking"))
  /\ UNCHANGED <<chat, create, early, found, busy, work, server, updates,
                 ghosts, faults>>

\* _finish_stop: the sweep has had the lock of every chat in _chats.
FinishStop(p) ==
  /\ run[p] = "stopping"
  /\ chat[p] # NoChat => Unlocked(p)
  /\ run' = [run EXCEPT ![p] = "stopped"]
  /\ early' = IF p = "A" THEN "none" ELSE early
  /\ UNCHANGED <<chat, create, stale, found, busy, work, server, updates,
                 ghosts, faults, halts>>

Crash(p) ==
  /\ run[p] # "dead" /\ halts < MaxHalts
  /\ halts' = halts + 1
  /\ run' = [run EXCEPT ![p] = "dead"]
  /\ IF p = "A"
       THEN /\ create' = IF create = "no" THEN "no" ELSE "done"
            /\ early' = "none" /\ found' = "none" /\ busy' = FALSE /\ died' = TRUE
            /\ UNCHANGED work
     ELSE work' = "no" /\ UNCHANGED <<create, early, found, busy, died>>
  /\ UNCHANGED <<chat, stale, server, updates, told, forgot, faults>>

Start(p) ==
  /\ run[p] \in {"stopped", "dead"}
  /\ run' = [run EXCEPT ![p] = "up"]
  /\ UNCHANGED <<chat, memory, server, updates, ghosts, faults, halts>>

----------------------------------------------------------------------------

Requester ==
  \/ BeginCreate \/ OtherCreate \/ CreateFails \/ CreateStale \/ CreateUnsaved
  \/ CreateReturns \/ CreateHandles

Acceptor ==
  BeginAccept \/ AcceptReturns \/ AcceptFails \/ StoreRequest

Updates == OnRequested \/ OnReadyA \/ OnReadyB \/ OnWaiting

Server == ServerRequests \/ ServerAccepts \/ OtherDeviceAccepts

Manager(p) ==
  \/ OnDiscarded(p) \/ Close(p) \/ Delete(p) \/ Forget(p)
  \/ Stop(p) \/ FinishStop(p) \/ Crash(p) \/ Start(p)

Next ==
  \/ Requester \/ Acceptor \/ Updates \/ Server
  \/ \E p \in Party : Manager(p)

Spec == Init /\ [][Next]_vars

\* The event loop finishes what it has begun, a manager that halted is started
\* again, and the server's updates are delivered once it is up.
FairSpec ==
  /\ Spec
  /\ WF_vars(CreateHandles) /\ WF_vars(OnReadyA)
  /\ WF_vars(FinishStop("A")) /\ WF_vars(Start("A"))

----------------------------------------------------------------------------
(* Properties *)

\* Every variable keeps its type.
TypeOK ==
  /\ run \in [Party -> {"up", "stopping", "stopped", "dead"}]
  /\ chat \in [Party -> Record]
  /\ create \in {"no", "asking", "handle", "done"}
  /\ stale \in BOOLEAN /\ busy \in BOOLEAN
  /\ {early, found} \subseteq {"none", "ready"} \cup Terminal
  /\ work \in Work
  /\ server \in [phase : {"none", "waiting", "accepted", "discarded"},
                 key : Nat, by : {"nobody", "this", "other"}]
  /\ updates \in [Party -> SUBSET Kinds]
  /\ told \in BOOLEAN /\ died \in BOOLEAN /\ forgot \in BOOLEAN
  /\ faults \in 0 .. MaxFaults /\ halts \in 0 .. MaxHalts

BothReady == \A p \in Party : chat[p].state = "ready"

\* When this device's g_b is the one the server took, two ready sides hold the
\* same key, however often accept() failed, died or was repeated on the way,
\* as long as the acceptor keeps its record.
KeysAgree ==
  BothReady /\ server.by = "this" /\ ~ forgot => chat["A"].key = chat["B"].key

\* Whoever accepted: a ready acceptor holds the key of the requester, as
\* accept() says of ENCRYPTION_ALREADY_ACCEPTED.
ReadyMeansShared == BothReady => chat["A"].key = chat["B"].key

\* Terminal beats a late ready update and the answer of the RPC: once create()
\* is over, a discard the process has seen leaves the chat closed or gone.
DiscardIsFinal ==
  told /\ ~ died /\ create = "done" => chat["A"].state \in {"none", "closed"}

\* Where no call fails, a create() that ended without a chat has left none on
\* the server either, although a stop() overtook the answer.
OrphanIsDiscarded ==
  create = "done" /\ chat["A"] = NoChat /\ faults = 0 /\ ~ died
    => server.phase = "discarded"

\* A stored request that the peer has accepted is keyed, or ends, although the
\* acceptance may overtake the answer to the request itself.
RequestIsKeyed ==
  (chat["A"].state = "requested" /\ server.phase = "accepted" /\ ~ died)
    ~> (chat["A"].state # "requested" \/ died)
============================================================================
