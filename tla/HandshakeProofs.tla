--------------------------- MODULE HandshakeProofs -------------------------
(***************************************************************************)
(* Proofs about the handshake: that the two ends take the same key, and    *)
(* that a discard is final, for every number of failing calls and halts;   *)
(* and about the frames that go under that key.                            *)
(***************************************************************************)
EXTENDS Establishment, MessageFrame, SequenceTheorems, TLAPS

\* B's task is between storing its secret and its answer.
Accepting == work \in {"accept", "ok", "already", "declined"}

\* Nobody can hear of an acceptance before there is one, and there is one.
OneAcceptance ==
  /\ server.phase \in {"none", "waiting"} => server.by = "nobody"
  /\ server.phase = "accepted" => server.by # "nobody"
  /\ server.by = "nobody" =>
       "ready" \notin updates["A"] /\ early # "ready" /\ found # "ready"

\* The requester's key is the one the server passed on.
RequesterKey ==
  chat["A"].state = "ready" => server.by # "nobody" /\ chat["A"].key = server.key

\* The acceptor holds its secret for as long as accept() needs it.
SecretKept ==
  /\ Accepting => chat["B"].state = "pending" /\ chat["B"].secret # None
  /\ work = "config" => chat["B"] = NoChat

\* While the acceptor keeps its record, all it can arrive at is the server's key.
AcceptorKey ==
  server.by = "this" /\ ~ forgot =>
    \/ /\ chat["B"].state = "pending"
       /\ chat["B"].secret = server.key /\ server.key # None
    \/ chat["B"].state = "ready" /\ chat["B"].key = server.key
    \/ chat["B"].state = "closed"

KeyInv == TypeOK /\ OneAcceptance /\ RequesterKey /\ SecretKept /\ AcceptorKey

\* There is no record before create() has its answer, and no chat on the server
\* before create() has asked.
NothingBefore ==
  /\ create \in {"no", "asking"} \/ chat["A"].state = "none" => chat["A"] = NoChat
  /\ create = "no" => server.phase = "none" /\ updates["A"] = {} /\ ~ told
  /\ server.phase = "none" => updates["A"] = {}

\* A discard that was taken is remembered until create() handles it, unless a
\* stop() has made that create() stale.
DiscardKept ==
  told /\ ~ died =>
    /\ create = "asking" => stale \/ early \in Terminal
    /\ create = "handle" => found \in Terminal
    /\ create = "done" => chat["A"].state \in {"none", "closed"}

\* A manager that is being stopped, or was, has made a waiting create() stale.
StoppedIsStale ==
  ~ died =>
    /\ run["A"] # "dead"
    /\ create = "asking" /\ run["A"] # "up" => stale

EndInv == TypeOK /\ NothingBefore /\ DiscardKept /\ StoppedIsStale

----------------------------------------------------------------------------
(* Types *)

\* generate_secret() always has a number to give.
LEMMA FreshIsNat == TypeOK => Fresh \in Nat \ {None}
<1> SUFFICES ASSUME TypeOK PROVE Fresh \in Nat \ {None}
  OBVIOUS
<1> DEFINE used == {server.key, chat["A"].key, chat["B"].secret, chat["B"].key}
<1>1. \E n \in 2 .. 6 : n \notin used
  OBVIOUS
<1>2. Fresh \in 2 .. 6
  BY <1>1 DEF Fresh
<1> QED
  BY <1>2 DEF None

\* What _discard_remote leaves of the server, the updates and the faults.
LEMMA DiscardTypes ==
  ASSUME TypeOK, NEW p \in Party, NEW kind \in Terminal,
         NEW left \in [Party -> SUBSET Kinds], NEW failed \in {0, 1},
         DiscardRemote(p, kind, left, failed)
  PROVE  /\ server' \in [phase : {"none", "waiting", "accepted", "discarded"},
                         key : Nat, by : {"nobody", "this", "other"}]
         /\ server'.key = server.key /\ server'.by = server.by
         /\ server'.phase \in {server.phase, "discarded"}
         /\ server.phase = "none" => server'.phase = "none"
         /\ updates' \in [Party -> SUBSET Kinds]
         /\ updates'["A"] \subseteq left["A"] \cup {kind}
         /\ updates'[p] = left[p]
         /\ server.phase = "none" => updates' = left
         /\ faults' \in 0 .. MaxFaults
<1>1. kind \in Kinds
  BY DEF Kinds
<1>2. Other(p) \in Party /\ Other(p) # p
  BY DEF Other, Party
<1> QED
  BY <1>1, <1>2, HandshakeAssumption DEF DiscardRemote, TypeOK, Terminal, Party

\* What Telegram still holds after an update was taken.
LEMMA LeftTypes ==
  ASSUME TypeOK, NEW p \in Party, NEW u, NEW left \in Left(p, u)
  PROVE  /\ left \in [Party -> SUBSET Kinds]
         /\ \A q \in Party : left[q] \subseteq updates[q]
  BY DEF TypeOK, Left, Party

\* Records stay records.
LEMMA RecordTypes ==
  ASSUME NEW k \in Record
  PROVE  /\ Closed(k) \in Record /\ Closed(k).state = "closed"
         /\ NoChat \in Record
         /\ \A u : Ended(k, u) \in {NoChat, Closed(k)}
         /\ \A n \in Nat : /\ Adopted(k, n) \in Record
                           /\ Adopted(k, n).state = "ready" /\ Adopted(k, n).key = n
  BY DEF Closed, Record, NoChat, Ended, Adopted, None

\* What an acceptance does at the requester: the record is keyed if it waits for a
\* key, or the update is remembered, or the chat is discarded.
LEMMA ReadyAEffect ==
  ASSUME TypeOK, OnReadyA
  PROVE  /\ UNCHANGED <<run, create, stale, found, busy, work, told, died, forgot, halts>>
         /\ create # "handle" /\ "ready" \in updates["A"]
         /\ chat' \in [Party -> Record] /\ chat'["B"] = chat["B"]
         /\ \/ chat'["A"] = chat["A"]
            \/ /\ chat["A"] # NoChat /\ chat["A"].state \notin {"ready", "closed"}
               /\ chat'["A"].state = "ready" /\ chat'["A"].key = server.key
         /\ early' \in {early, "ready"} /\ (early \in Terminal => early' = early)
         /\ early' \in {"none", "ready"} \cup Terminal
         /\ server' \in [phase : {"none", "waiting", "accepted", "discarded"},
                         key : Nat, by : {"nobody", "this", "other"}]
         /\ server'.key = server.key /\ server'.by = server.by
         /\ server'.phase \in {server.phase, "discarded"}
         /\ server.phase = "none" => server'.phase = "none"
         /\ updates' \in [Party -> SUBSET Kinds]
         /\ updates'["A"] \subseteq updates["A"]
         /\ faults' \in 0 .. MaxFaults
<1>1. /\ UNCHANGED <<run, create, stale, found, busy, work, told, died, forgot, halts>>
      /\ create # "handle" /\ "ready" \in updates["A"]
  BY DEF OnReadyA, Taken, Unlocked, ghosts
<1>2. PICK left \in Left("A", "ready") :
        \/ /\ early' = remember_early(early, "ready")
           /\ updates' = left /\ UNCHANGED <<chat, server, faults>>
        \/ /\ DiscardRemote("A", "discarded", left, 0)
           /\ UNCHANGED <<chat, early>>
        \/ /\ chat["A"] # NoChat
           /\ Put("A", IF Settled(chat["A"]) THEN chat["A"]
                       ELSE Adopted(chat["A"], server.key))
           /\ updates' = left /\ UNCHANGED <<early, server, faults>>
  BY DEF OnReadyA
<1>3. "A" \in Party /\ "B" \in Party /\ "discarded" \in Terminal
  BY DEF Party, Terminal
<1>4. left \in [Party -> SUBSET Kinds] /\ left["A"] \subseteq updates["A"]
  BY <1>3, LeftTypes
<1>5. /\ chat["A"] \in Record /\ server.key \in Nat
  BY <1>3 DEF TypeOK
<1>6. /\ Adopted(chat["A"], server.key) \in Record
      /\ Adopted(chat["A"], server.key).state = "ready"
      /\ Adopted(chat["A"], server.key).key = server.key
  BY <1>5, RecordTypes
<1>7. CASE UNCHANGED chat
  <2>1. CASE DiscardRemote("A", "discarded", left, 0) /\ UNCHANGED early
    BY <1>1, <1>3, <1>4, <1>7, <2>1, DiscardTypes DEF TypeOK
  <2>2. CASE updates' = left /\ UNCHANGED <<server, faults>>
    BY <1>1, <1>2, <1>4, <1>7, <2>2 DEF TypeOK, remember_early, Terminal
  <2> QED
    BY <1>2, <1>7, <2>1, <2>2
<1>8. CASE /\ chat["A"] # NoChat
           /\ Put("A", IF Settled(chat["A"]) THEN chat["A"]
                       ELSE Adopted(chat["A"], server.key))
           /\ updates' = left /\ UNCHANGED <<early, server, faults>>
  <2>1. CASE Settled(chat["A"])
    BY <1>1, <1>3, <1>4, <1>5, <1>8, <2>1 DEF Put, TypeOK
  <2>2. CASE ~ Settled(chat["A"])
    <3>1. chat' = [chat EXCEPT !["A"] = Adopted(chat["A"], server.key)]
      BY <1>8, <2>2 DEF Put
    <3>2. chat["A"].state \notin {"ready", "closed"}
      BY <2>2 DEF Settled
    <3> QED
      BY <1>1, <1>3, <1>4, <1>5, <1>8, <1>6, <3>1, <3>2 DEF TypeOK
  <2> QED
    BY <2>1, <2>2
<1> QED
  BY <1>2, <1>7, <1>8

\* Every step keeps the types.
LEMMA TypeStep == TypeOK /\ [Next]_vars => TypeOK'
<1> SUFFICES ASSUME TypeOK, [Next]_vars PROVE TypeOK'
  OBVIOUS
<1> USE DEF TypeOK, memory, ghosts
<1>1. CASE BeginCreate
  BY <1>1 DEF BeginCreate
<1>2. CASE OtherCreate
  BY <1>2 DEF OtherCreate
<1>3. CASE ServerRequests
  BY <1>3 DEF ServerRequests, Kinds, Terminal, Party
<1>4. CASE CreateFails
  BY <1>4, HandshakeAssumption DEF CreateFails, Fails
<1>5. CASE CreateStale
  BY <1>5, DiscardTypes DEF CreateStale, Terminal, Party
<1>6. CASE CreateUnsaved
  BY <1>6, DiscardTypes DEF CreateUnsaved, Terminal, Party
<1>7. CASE CreateReturns
  BY <1>7 DEF CreateReturns, Put, Record, Choice, Secret_a, None, Party, Terminal
<1>8. CASE CreateHandles
  BY <1>8, RecordTypes DEF CreateHandles, Ended, Party
<1>9. CASE OnRequested
  BY <1>9 DEF OnRequested, Left, Work, Party
<1>10. CASE StoreRequest
  BY <1>10, HandshakeAssumption DEF StoreRequest, Put, Fails, Record, None, Work, Party
<1>11. CASE OnReadyA
  BY <1>11, ReadyAEffect
<1>12. CASE OnReadyB
  <2>1. PICK left \in Left("B", "ready") :
          /\ \/ UNCHANGED chat
             \/ \E n \in {chat["B"].secret} : Put("B", Adopted(chat["B"], n))
             \/ Put("B", Closed(chat["B"]))
          /\ \/ DiscardRemote("B", "discarded", left, 0)
             \/ updates' = left /\ UNCHANGED <<server, faults>>
    BY <1>12 DEF OnReadyB
  <2>2. left \in [Party -> SUBSET Kinds]
    BY LeftTypes DEF Party
  <2>3. UNCHANGED <<run, create, stale, early, found, busy, work, told, died, forgot, halts>>
    BY <1>12 DEF OnReadyB
  <2>4. chat' \in [Party -> Record]
    BY <2>1, RecordTypes DEF Put, Party, Record
  <2>5. /\ server' \in [phase : {"none", "waiting", "accepted", "discarded"},
                        key : Nat, by : {"nobody", "this", "other"}]
        /\ updates' \in [Party -> SUBSET Kinds] /\ faults' \in 0 .. MaxFaults
    BY <2>1, <2>2, DiscardTypes DEF Party, Terminal
  <2> QED
    BY <2>3, <2>4, <2>5
<1>13. CASE OnWaiting
  BY <1>13, DiscardTypes, LeftTypes DEF OnWaiting, Terminal, Party
<1>14. CASE BeginAccept
  BY <1>14, FreshIsNat DEF BeginAccept, Put, Secret, Record, Work, Party
<1>15. CASE ServerAccepts
  BY <1>15 DEF ServerAccepts, Work, Record, Kinds, Terminal, Party
<1>16. CASE AcceptReturns
  BY <1>16, RecordTypes DEF AcceptReturns, Put, Record, Work, Party
<1>17. CASE AcceptFails
  BY <1>17, HandshakeAssumption DEF AcceptFails, Fails, Work
<1>18. CASE OtherDeviceAccepts
  BY <1>18, FreshIsNat DEF OtherDeviceAccepts, Kinds, Terminal, Party
<1>19. ASSUME NEW p \in Party, OnDiscarded(p) PROVE TypeOK'
  BY <1>19, RecordTypes DEF OnDiscarded, Put, Ended, Left, remember_early, Terminal, Party
<1>20. ASSUME NEW p \in Party, Close(p) PROVE TypeOK'
  BY <1>20, DiscardTypes, RecordTypes DEF Close, Put, Terminal
<1>21. ASSUME NEW p \in Party, Delete(p) PROVE TypeOK'
  BY <1>21, DiscardTypes, RecordTypes DEF Delete, Put, Terminal
<1>22. ASSUME NEW p \in Party, Forget(p) PROVE TypeOK'
  BY <1>22, RecordTypes DEF Forget, Put
<1>23. ASSUME NEW p \in Party, Stop(p) PROVE TypeOK'
  BY <1>23, HandshakeAssumption DEF Stop
<1>24. ASSUME NEW p \in Party, FinishStop(p) PROVE TypeOK'
  BY <1>24 DEF FinishStop
<1>25. ASSUME NEW p \in Party, Crash(p) PROVE TypeOK'
  <2>1. /\ halts' \in 0 .. MaxHalts
        /\ run' \in [Party -> {"up", "stopping", "stopped", "dead"}]
        /\ UNCHANGED <<chat, stale, server, updates, told, forgot, faults>>
    BY <1>25, HandshakeAssumption DEF Crash
  <2>2. CASE p = "A"
    BY <1>25, <2>1, <2>2 DEF Crash
  <2>3. CASE p # "A"
    BY <1>25, <2>1, <2>3 DEF Crash, Work
  <2> QED
    BY <2>2, <2>3
<1>26. ASSUME NEW p \in Party, Start(p) PROVE TypeOK'
  BY <1>26 DEF Start
<1>27. CASE UNCHANGED vars
  BY <1>27 DEF vars
<1> QED
  BY <1>1, <1>2, <1>3, <1>4, <1>5, <1>6, <1>7, <1>8, <1>9, <1>10, <1>11, <1>12, <1>13, <1>14,
     <1>15, <1>16, <1>17, <1>18, <1>19, <1>20, <1>21, <1>22, <1>23, <1>24, <1>25, <1>26, <1>27
  DEF Next, Requester, Acceptor, Updates, Server, Manager

\* The initial state is typed.
LEMMA InitTyped == Init => TypeOK
<1> SUFFICES ASSUME Init PROVE TypeOK
  OBVIOUS
<1>1. NoChat \in Record
  BY DEF NoChat, Record, None
<1>2. chat \in [Party -> Record] /\ updates \in [Party -> SUBSET Kinds]
  BY <1>1 DEF Init
<1>3. faults \in 0 .. MaxFaults /\ halts \in 0 .. MaxHalts
  BY HandshakeAssumption DEF Init
<1> QED
  BY <1>2, <1>3 DEF Init, TypeOK, None, Work

\* Every variable of the handshake keeps its type, whatever fails or halts.
THEOREM HandshakeTyped == Spec => []TypeOK
  BY InitTyped, TypeStep, PTL DEF Spec

----------------------------------------------------------------------------
(* One key *)

\* Every step keeps what the two ends know of the key.
LEMMA KeyStep == KeyInv /\ [Next]_vars => KeyInv'
<1> SUFFICES ASSUME KeyInv, [Next]_vars PROVE KeyInv'
  OBVIOUS
<1>0. TypeOK /\ TypeOK'
  BY TypeStep DEF KeyInv
<1> USE <1>0 DEF KeyInv, TypeOK, memory, ghosts, OneAcceptance, RequesterKey, SecretKept, AcceptorKey
<1>1. CASE BeginCreate
  BY <1>1
  DEF BeginCreate, Party, Accepting, None, NoChat
<1>2. CASE OtherCreate
  BY <1>2
  DEF OtherCreate, Party, Accepting, None, NoChat
<1>3. CASE ServerRequests
  BY <1>3
  DEF ServerRequests, Party, Accepting, None, NoChat
<1>4. CASE CreateFails
  BY <1>4
  DEF CreateFails, Party, Accepting, None, NoChat
<1>5. CASE CreateStale
  BY <1>5, DiscardTypes
  DEF CreateStale, Party, Terminal, Accepting, None, NoChat
<1>6. CASE CreateUnsaved
  BY <1>6, DiscardTypes
  DEF CreateUnsaved, Party, Terminal, Accepting, None, NoChat
<1>7. CASE CreateReturns
  BY <1>7
  DEF CreateReturns, Put, Party, Terminal, Choice, Accepting, None, NoChat
<1>8. CASE CreateHandles
  BY <1>8, RecordTypes
  DEF CreateHandles, Party, Terminal, Accepting, None, NoChat, Ended
<1>9. CASE OnRequested
  BY <1>9
  DEF OnRequested, Party, Taken, Left, Accepting, None, NoChat
<1>10. CASE StoreRequest
  BY <1>10
  DEF StoreRequest, Put, Party, Accepting, None, NoChat, Record
<1>11. CASE OnReadyA
  BY <1>11, ReadyAEffect
  DEF Accepting, None, Party
<1>12. CASE OnReadyB
  BY <1>12, DiscardTypes, LeftTypes, RecordTypes
  DEF OnReadyB, Put, Party, Terminal, Settled, Taken, Unlocked, Accepting, None, NoChat
<1>13. CASE OnWaiting
  BY <1>13, DiscardTypes, LeftTypes
  DEF OnWaiting, Party, Terminal, Taken, Unlocked, Creating, Accepting, None, NoChat
<1>14. CASE BeginAccept
  BY <1>14, FreshIsNat
  DEF BeginAccept, Put, Party, Usable, Unlocked, Secret, Accepting, None, NoChat, Record
<1>15. CASE ServerAccepts
  BY <1>15
  DEF ServerAccepts, Party, Accepting, None, NoChat
<1>16. CASE AcceptReturns
  <2>1. /\ chat["B"] \in Record /\ chat["B"].secret \in Nat
        /\ chat["B"].state = "pending"
    BY <1>16 DEF AcceptReturns, Accepting, Party, Record
  <2>2. /\ chat'["A"] = chat["A"]
        /\ \/ chat'["B"].state = "closed"
           \/ /\ chat'["B"].state = "ready" /\ chat'["B"].key = chat["B"].secret
    <3>1. /\ Closed(chat["B"]).state = "closed"
          /\ Adopted(chat["B"], chat["B"].secret).state = "ready"
          /\ Adopted(chat["B"], chat["B"].secret).key = chat["B"].secret
      BY ONLY <2>1, RecordTypes
    <3>2. \/ chat' = [chat EXCEPT !["B"] = Closed(chat["B"])]
          \/ chat' = [chat EXCEPT !["B"] = Adopted(chat["B"], chat["B"].secret)]
      BY <1>16 DEF AcceptReturns, Put
    <3> QED
      BY <3>1, <3>2 DEF Party
  <2>3. work' = "no" /\ UNCHANGED <<server, updates, early, found, forgot>>
    BY <1>16 DEF AcceptReturns
  <2> QED
    BY <2>1, <2>2, <2>3 DEF Accepting
<1>17. CASE AcceptFails
  BY <1>17
  DEF AcceptFails, Party, Accepting, None, NoChat
<1>18. CASE OtherDeviceAccepts
  BY <1>18, FreshIsNat
  DEF OtherDeviceAccepts, Party, Accepting, None, NoChat
<1>19. ASSUME NEW p \in Party, OnDiscarded(p) PROVE KeyInv'
  <2>1. PICK u \in Terminal : /\ Taken(p, u) /\ updates' \in Left(p, u)
                             /\ Put(p, Ended(chat[p], u))
                             /\ early' \in {early, remember_early(early, u)}
                             /\ forgot' = (forgot \/ (p = "B" /\ u = "deleted"))
                             /\ UNCHANGED <<server, found, work>>
    BY <1>19 DEF OnDiscarded
  <2>2. updates'["A"] \subseteq updates["A"]
    BY <2>1 DEF Left, Party
  <2>3. early' = "ready" => early = "ready"
    BY <2>1 DEF remember_early, Terminal
  <2>4. OneAcceptance'
    BY <2>1, <2>2, <2>3
  <2>5. chat[p] \in Record /\ Ended(chat[p], u) \in {NoChat, Closed(chat[p])}
    BY RecordTypes
  <2>6. RequesterKey'
    BY <2>1, <2>5, RecordTypes DEF Put, NoChat, Party
  <2>7. CASE p = "A"
    <3>1. chat'["B"] = chat["B"] /\ forgot' = forgot
      BY <2>1, <2>7 DEF Put, Party
    <3> QED
      BY <2>1, <2>4, <2>6, <3>1 DEF Accepting
  <2>8. CASE p = "B"
    <3>1. work = "no" /\ work' = "no"
      BY <2>1, <2>8 DEF Taken, Unlocked
    <3>2. ASSUME server'.by = "this", ~ forgot' PROVE chat'["B"].state = "closed"
      <4>1. ~ forgot /\ u # "deleted"
        BY ONLY <2>1, <2>8, <3>2
      <4>2. chat["B"] # NoChat /\ u # "deleted"
        BY <2>1, <3>2, <4>1 DEF NoChat
      <4>3. chat'["B"] = Closed(chat["B"])
        BY <2>1, <2>8, <4>2 DEF Put, Ended, Party
      <4> QED
        BY <2>5, <2>8, <4>3, RecordTypes
    <3> QED
      BY <2>4, <2>6, <3>1, <3>2 DEF Accepting
  <2> QED
    BY <2>7, <2>8 DEF Party
<1>20. ASSUME NEW p \in Party, Close(p) PROVE KeyInv'
  BY <1>20, DiscardTypes, RecordTypes
  DEF Close, Put, Party, Terminal, Usable, Unlocked, IsOpen, Accepting, None, NoChat
<1>21. ASSUME NEW p \in Party, Delete(p) PROVE KeyInv'
  <2>1. PICK kind \in Terminal : DiscardRemote(p, kind, updates, 0)
    BY <1>21 DEF Delete, Terminal
  <2>2. /\ server'.key = server.key /\ server'.by = server.by
        /\ server'.phase \in {server.phase, "discarded"}
        /\ updates'["A"] \subseteq updates["A"] \cup {kind}
    BY <2>1, DiscardTypes
  <2>3. /\ UNCHANGED <<early, found, work>> /\ chat' = [chat EXCEPT ![p] = NoChat]
        /\ forgot' = (forgot \/ p = "B")
    BY <1>21 DEF Delete, Put
  <2>4. OneAcceptance'
    BY <2>2, <2>3 DEF Terminal
  <2>5. RequesterKey'
    BY <2>2, <2>3 DEF NoChat, Party
  <2>6. CASE p = "A"
    <3>1. chat'["B"] = chat["B"] /\ forgot' = forgot
      BY <2>3, <2>6 DEF Party
    <3> QED
      BY <2>2, <2>3, <2>4, <2>5, <3>1 DEF Accepting
  <2>7. CASE p = "B"
    <3>1. work' = "no" /\ forgot'
      BY <1>21, <2>3, <2>7 DEF Delete, Usable, Unlocked
    <3> QED
      BY <2>4, <2>5, <3>1 DEF Accepting
  <2> QED
    BY <2>6, <2>7 DEF Party
<1>22. ASSUME NEW p \in Party, Forget(p) PROVE KeyInv'
  BY <1>22
  DEF Forget, Put, Party, Usable, Unlocked, Accepting, None, NoChat
<1>23. ASSUME NEW p \in Party, Stop(p) PROVE KeyInv'
  BY <1>23
  DEF Stop, Party, Accepting, None, NoChat
<1>24. ASSUME NEW p \in Party, FinishStop(p) PROVE KeyInv'
  BY <1>24
  DEF FinishStop, Party, Accepting, None, NoChat
<1>25. ASSUME NEW p \in Party, Crash(p) PROVE KeyInv'
  BY <1>25
  DEF Crash, Party, Accepting, None, NoChat
<1>26. ASSUME NEW p \in Party, Start(p) PROVE KeyInv'
  BY <1>26
  DEF Start, Party, Accepting, None, NoChat
<1>27. CASE UNCHANGED vars
  BY <1>27
  DEF vars, Accepting, None, NoChat
<1> QED
  BY <1>1, <1>2, <1>3, <1>4, <1>5, <1>6, <1>7, <1>8, <1>9, <1>10, <1>11, <1>12, <1>13, <1>14,
     <1>15, <1>16, <1>17, <1>18, <1>19, <1>20, <1>21, <1>22, <1>23, <1>24, <1>25, <1>26, <1>27
  DEF Next, Requester, Acceptor, Updates, Server, Manager

\* KeysAgree for every number of failing calls and halts: two ready sides hold one
\* key if the server took this device's g_b and the acceptor kept its record.
THEOREM SameKey == Spec => []KeysAgree
<1>1. Init => KeyInv
  BY InitTyped
  DEF Init, KeyInv, OneAcceptance, RequesterKey, SecretKept, AcceptorKey, Accepting,
      NoChat, None, Party
<1>2. KeyInv => KeysAgree
  BY DEF KeyInv, RequesterKey, AcceptorKey, KeysAgree, BothReady, Party
<1> QED
  BY <1>1, <1>2, KeyStep, PTL DEF Spec

----------------------------------------------------------------------------
(* A discard is final *)

\* Every step keeps a discard that was taken.
LEMMA EndStep == EndInv /\ [Next]_vars => EndInv'
<1> SUFFICES ASSUME EndInv, [Next]_vars PROVE EndInv'
  OBVIOUS
<1>0. TypeOK /\ TypeOK'
  BY TypeStep DEF EndInv
<1> USE <1>0 DEF EndInv, TypeOK, memory, ghosts, NothingBefore, DiscardKept, StoppedIsStale
<1>1. CASE BeginCreate
  BY <1>1
  DEF BeginCreate, Party, NoChat
<1>2. CASE OtherCreate
  BY <1>2
  DEF OtherCreate, Party, NoChat
<1>3. CASE ServerRequests
  BY <1>3
  DEF ServerRequests, Party, NoChat
<1>4. CASE CreateFails
  BY <1>4
  DEF CreateFails, Party, NoChat
<1>5. CASE CreateStale
  BY <1>5, DiscardTypes
  DEF CreateStale, Party, Terminal, NoChat
<1>6. CASE CreateUnsaved
  BY <1>6, DiscardTypes
  DEF CreateUnsaved, Party, Terminal, NoChat
<1>7. CASE CreateReturns
  BY <1>7
  DEF CreateReturns, Put, Party, Terminal, Choice, NoChat
<1>8. CASE CreateHandles
  BY <1>8, RecordTypes
  DEF CreateHandles, Party, Terminal, NoChat, Ended
<1>9. CASE OnRequested
  BY <1>9
  DEF OnRequested, Party, Taken, Left, NoChat
<1>10. CASE StoreRequest
  BY <1>10
  DEF StoreRequest, Put, Party, NoChat
<1>11. CASE OnReadyA
  BY <1>11, ReadyAEffect
  DEF NoChat, Party, Terminal
<1>12. CASE OnReadyB
  BY <1>12, DiscardTypes, LeftTypes, RecordTypes
  DEF OnReadyB, Put, Party, Terminal, Settled, Taken, Unlocked, NoChat
<1>13. CASE OnWaiting
  BY <1>13, DiscardTypes, LeftTypes
  DEF OnWaiting, Party, Terminal, Taken, Unlocked, Creating, NoChat
<1>14. CASE BeginAccept
  BY <1>14, FreshIsNat
  DEF BeginAccept, Put, Party, Usable, Unlocked, Secret, NoChat
<1>15. CASE ServerAccepts
  BY <1>15
  DEF ServerAccepts, Party, NoChat
<1>16. CASE AcceptReturns
  BY <1>16, RecordTypes
  DEF AcceptReturns, Put, Party, NoChat
<1>17. CASE AcceptFails
  BY <1>17
  DEF AcceptFails, Party, NoChat
<1>18. CASE OtherDeviceAccepts
  BY <1>18, FreshIsNat
  DEF OtherDeviceAccepts, Party, NoChat
<1>19. ASSUME NEW p \in Party, OnDiscarded(p) PROVE EndInv'
  BY <1>19, RecordTypes
  DEF OnDiscarded, Put, Party, Terminal, remember_early, Taken, Left, Unlocked, Creating, NoChat, Ended
<1>20. ASSUME NEW p \in Party, Close(p) PROVE EndInv'
  BY <1>20, DiscardTypes, RecordTypes
  DEF Close, Put, Party, Terminal, Usable, Unlocked, IsOpen, NoChat
<1>21. ASSUME NEW p \in Party, Delete(p) PROVE EndInv'
  BY <1>21, DiscardTypes, RecordTypes
  DEF Delete, Put, Party, Terminal, Usable, Unlocked, IsOpen, NoChat
<1>22. ASSUME NEW p \in Party, Forget(p) PROVE EndInv'
  BY <1>22
  DEF Forget, Put, Party, Usable, Unlocked, NoChat
<1>23. ASSUME NEW p \in Party, Stop(p) PROVE EndInv'
  BY <1>23
  DEF Stop, Party, NoChat
<1>24. ASSUME NEW p \in Party, FinishStop(p) PROVE EndInv'
  BY <1>24
  DEF FinishStop, Party, NoChat
<1>25. ASSUME NEW p \in Party, Crash(p) PROVE EndInv'
  BY <1>25
  DEF Crash, Party, NoChat
<1>26. ASSUME NEW p \in Party, Start(p) PROVE EndInv'
  BY <1>26
  DEF Start, Party, NoChat
<1>27. CASE UNCHANGED vars
  BY <1>27
  DEF vars, NoChat
<1> QED
  BY <1>1, <1>2, <1>3, <1>4, <1>5, <1>6, <1>7, <1>8, <1>9, <1>10, <1>11, <1>12, <1>13, <1>14,
     <1>15, <1>16, <1>17, <1>18, <1>19, <1>20, <1>21, <1>22, <1>23, <1>24, <1>25, <1>26, <1>27
  DEF Next, Requester, Acceptor, Updates, Server, Manager

\* DiscardIsFinal for every number of failing calls and halts: a discard that was
\* taken before create() knew the chat is not undone by a late acceptance.
THEOREM DiscardFinal == Spec => []DiscardIsFinal
<1>1. Init => EndInv
  BY InitTyped DEF Init, EndInv, NothingBefore, DiscardKept, StoppedIsStale, Party
<1>2. EndInv => DiscardIsFinal
  BY DEF EndInv, DiscardKept, DiscardIsFinal
<1> QED
  BY <1>1, <1>2, EndStep, PTL DEF Spec

----------------------------------------------------------------------------
(* No orphan on the server *)

\* A chat this side no longer has is gone from the server too, unless a call
\* failed; and only a discarded chat is told to be one.
OrphanInv ==
  /\ \/ updates["A"] \cap Terminal # {} \/ early \in Terminal \/ found \in Terminal
     => server.phase = "discarded"
  /\ create = "handle" => chat["A"].state = "requested"
  /\ create = "handle" \/ chat["A"] # NoChat => server.phase # "none"
  /\ create = "done" /\ chat["A"].state \in {"none", "closed"} /\ faults = 0 /\ ~ died
     => server.phase = "discarded"

\* Where no call fails, _discard_remote leaves no chat that there was.
LEMMA DiscardDone ==
  ASSUME TypeOK, NEW p \in Party, NEW kind \in Terminal,
         NEW left \in [Party -> SUBSET Kinds], NEW failed \in {0, 1},
         DiscardRemote(p, kind, left, failed)
  PROVE  /\ faults' = 0 => faults = 0 /\ failed = 0 /\ server'.phase \in {"none", "discarded"}
         /\ server.phase # "none" => server'.phase # "none"
         /\ server.phase = "discarded" => server'.phase = "discarded"
         /\ updates'["A"] \subseteq left["A"] \/ server'.phase = "discarded"
  BY DEF DiscardRemote, TypeOK, Party

LEMMA FailsCounts == TypeOK /\ Fails => faults' # 0
  BY DEF TypeOK, Fails

\* Every step keeps it.
LEMMA OrphanStep == EndInv /\ OrphanInv /\ [Next]_vars => OrphanInv'
<1> SUFFICES ASSUME EndInv, OrphanInv, [Next]_vars PROVE OrphanInv'
  OBVIOUS
<1>0. TypeOK /\ TypeOK'
  BY TypeStep DEF EndInv
<1> USE <1>0 DEF EndInv, TypeOK, memory, ghosts, NothingBefore, OrphanInv
<1>1. CASE BeginCreate
  BY <1>1
  DEF BeginCreate, Party, NoChat, Terminal
<1>2. CASE OtherCreate
  BY <1>2
  DEF OtherCreate, Party, NoChat, Terminal
<1>3. CASE ServerRequests
  BY <1>3
  DEF ServerRequests, Party, NoChat, Terminal
<1>4. CASE CreateFails
  BY <1>4, FailsCounts
  DEF CreateFails, Party, NoChat, Terminal
<1>5. CASE CreateStale
  BY <1>5, DiscardTypes, DiscardDone
  DEF CreateStale, Party, Terminal, NoChat
<1>6. CASE CreateUnsaved
  BY <1>6, DiscardTypes, DiscardDone
  DEF CreateUnsaved, Party, Terminal, NoChat
<1>7. CASE CreateReturns
  BY <1>7
  DEF CreateReturns, Put, Party, Terminal, Choice, NoChat
<1>8. CASE CreateHandles
  BY <1>8, RecordTypes
  DEF CreateHandles, Party, Terminal, NoChat, Ended
<1>9. CASE OnRequested
  BY <1>9
  DEF OnRequested, Party, Taken, Left, NoChat, Terminal
<1>10. CASE StoreRequest
  BY <1>10, FailsCounts
  DEF StoreRequest, Put, Party, NoChat, Terminal
<1>11. CASE OnReadyA
  <2>1. /\ UNCHANGED <<create, found, died>> /\ create # "handle" /\ server.phase # "none"
        /\ early' \in Terminal => early \in Terminal
        /\ updates'["A"] \subseteq updates["A"]
        /\ server.phase = "discarded" => server'.phase = "discarded"
    BY <1>11, ReadyAEffect DEF Terminal
  <2>2. PICK left \in Left("A", "ready") :
          \/ /\ chat["A"] = NoChat /\ Creating
             /\ UNCHANGED <<chat, server, faults>>
          \/ /\ chat["A"] = NoChat
             /\ DiscardRemote("A", "discarded", left, 0)
             /\ UNCHANGED chat
          \/ /\ chat["A"] # NoChat
             /\ Put("A", IF Settled(chat["A"]) THEN chat["A"]
                         ELSE Adopted(chat["A"], server.key))
             /\ UNCHANGED <<server, faults>>
    BY <1>11 DEF OnReadyA
  <2>3. CASE UNCHANGED <<chat, server, faults>>
    BY <2>1, <2>3
  <2>4. CASE DiscardRemote("A", "discarded", left, 0) /\ UNCHANGED chat
    <3>1. /\ faults' = 0 => faults = 0 /\ server'.phase \in {"none", "discarded"}
          /\ server'.phase # "none"
      BY <2>1, <2>4, DiscardDone, LeftTypes DEF Party, Terminal
    <3> QED
      BY <2>1, <2>4, <3>1
  <2>5. CASE /\ chat["A"] # NoChat
             /\ Put("A", IF Settled(chat["A"]) THEN chat["A"]
                         ELSE Adopted(chat["A"], server.key))
             /\ UNCHANGED <<server, faults>>
    <3>1. /\ chat["A"] \in Record /\ server.key \in Nat
          /\ chat \in [Party -> Record] /\ "A" \in Party
      BY DEF Party
    <3>2. Adopted(chat["A"], server.key).state = "ready"
      BY ONLY <3>1, RecordTypes
    <3>3. chat'["A"] = chat["A"] \/ chat'["A"].state = "ready"
      BY ONLY <2>5, <3>1, <3>2 DEF Put
    <3> QED
      BY <2>1, <2>5, <3>3
  <2> QED
    BY <2>2, <2>3, <2>4, <2>5
<1>12. CASE OnReadyB
  BY <1>12, DiscardTypes, DiscardDone, LeftTypes, RecordTypes
  DEF OnReadyB, Put, Party, Terminal, Settled, Taken, Unlocked, NoChat
<1>13. CASE OnWaiting
  BY <1>13, DiscardTypes, DiscardDone, LeftTypes
  DEF OnWaiting, Party, Terminal, Taken, Unlocked, Creating, NoChat
<1>14. CASE BeginAccept
  BY <1>14, FreshIsNat
  DEF BeginAccept, Put, Party, Usable, Unlocked, Secret, NoChat, Terminal
<1>15. CASE ServerAccepts
  BY <1>15
  DEF ServerAccepts, Party, NoChat, Terminal
<1>16. CASE AcceptReturns
  BY <1>16, RecordTypes
  DEF AcceptReturns, Put, Party, NoChat, Terminal
<1>17. CASE AcceptFails
  BY <1>17, FailsCounts
  DEF AcceptFails, Party, NoChat, Terminal
<1>18. CASE OtherDeviceAccepts
  BY <1>18, FreshIsNat
  DEF OtherDeviceAccepts, Party, NoChat, Terminal
<1>19. ASSUME NEW p \in Party, OnDiscarded(p) PROVE OrphanInv'
  BY <1>19, RecordTypes
  DEF OnDiscarded, Put, Party, Terminal, remember_early, Taken, Left, Unlocked, Creating, NoChat, Ended
<1>20. ASSUME NEW p \in Party, Close(p) PROVE OrphanInv'
  BY <1>20, DiscardTypes, DiscardDone, RecordTypes
  DEF Close, Put, Party, Terminal, Usable, Unlocked, IsOpen, NoChat
<1>21. ASSUME NEW p \in Party, Delete(p) PROVE OrphanInv'
  BY <1>21, DiscardTypes, DiscardDone, RecordTypes
  DEF Delete, Put, Party, Terminal, Usable, Unlocked, IsOpen, NoChat
<1>22. ASSUME NEW p \in Party, Forget(p) PROVE OrphanInv'
  BY <1>22
  DEF Forget, Put, Party, Usable, Unlocked, NoChat, Terminal
<1>23. ASSUME NEW p \in Party, Stop(p) PROVE OrphanInv'
  BY <1>23
  DEF Stop, Party, NoChat, Terminal
<1>24. ASSUME NEW p \in Party, FinishStop(p) PROVE OrphanInv'
  BY <1>24
  DEF FinishStop, Party, NoChat, Terminal
<1>25. ASSUME NEW p \in Party, Crash(p) PROVE OrphanInv'
  BY <1>25
  DEF Crash, Party, NoChat, Terminal
<1>26. ASSUME NEW p \in Party, Start(p) PROVE OrphanInv'
  BY <1>26
  DEF Start, Party, NoChat, Terminal
<1>27. CASE UNCHANGED vars
  BY <1>27
  DEF vars, NoChat, Terminal
<1> QED
  BY <1>1, <1>2, <1>3, <1>4, <1>5, <1>6, <1>7, <1>8, <1>9, <1>10, <1>11, <1>12, <1>13, <1>14,
     <1>15, <1>16, <1>17, <1>18, <1>19, <1>20, <1>21, <1>22, <1>23, <1>24, <1>25, <1>26, <1>27
  DEF Next, Requester, Acceptor, Updates, Server, Manager

\* OrphanIsDiscarded for every number of failing calls and halts: a create() that
\* is over and has no chat has left none on the server, although a stop() came
\* between its request and the answer, or the update overtook both.
THEOREM NoOrphan == Spec => []OrphanIsDiscarded
<1>1. Init => EndInv /\ OrphanInv
  BY InitTyped
  DEF Init, EndInv, NothingBefore, DiscardKept, StoppedIsStale, OrphanInv, Terminal, Party
<1>2. EndInv /\ OrphanInv => OrphanIsDiscarded
  BY DEF OrphanInv, OrphanIsDiscarded, NoChat
<1> QED
  BY <1>1, <1>2, EndStep, OrphanStep, PTL DEF Spec

----------------------------------------------------------------------------
(* The frames                                                              *)

WordKinds == BodyKinds \cup {"padding", "noise"}
Word == WordKinds \X Int

\* A frame on its way: what it says of itself was taken over its payload, its payload
\* begins with the body, and it has lost nothing or its end.
Framed ==
  /\ frame = [fingerprint |-> frame.fingerprint, msg_key |-> frame.msg_key,
              under |-> frame.under, payload |-> frame.payload,
              length |-> frame.length, flipped |-> frame.flipped]
  /\ frame.msg_key = compute_msg_key(frame.fingerprint, frame.payload, out_x(fr_from))
  /\ frame.under = derive_keys(frame.fingerprint, frame.msg_key, out_x(fr_from))
  /\ frame.payload.declared \in Nat /\ frame.payload.words \in Seq(Word)
  /\ Len(frame.payload.words) >= 1 /\ frame.payload.words[1] = <<fr_body.kind, 1>>
  /\ frame.length \in 1 .. Total(frame.payload)
  /\ frame.flipped \in BOOLEAN

FrameInv ==
  /\ fr_from \in {"originator", "other"}
  /\ fr_body \in [kind : BodyKinds, len : Nat \ {0}] /\ fr_body.len \in 1 .. MaxBody
  /\ fr_stage # "composed" => Framed
  /\ fr_stage = "opened" =>
       /\ fr_reader[1] \in {"originator", "other"}
       /\ fr_result = decrypt_frame(fr_reader[2], frame, in_x(fr_reader[1]))

\* The padding fills the last block, and there is enough of it.
LEMMA PaddingFills ==
  ASSUME NEW n \in Nat
  PROVE  /\ Up(n, BLOCK_WORDS) \in Nat /\ Up(n, BLOCK_WORDS) >= n
         /\ Up(n, BLOCK_WORDS) % BLOCK_WORDS = 0
BY DEF Up, BLOCK_WORDS

LEMMA WordsAre ==
  ASSUME NEW kind \in WordKinds, NEW n \in Nat
  PROVE  /\ Words(kind, n) \in Seq(Word) /\ Len(Words(kind, n)) = n
         /\ \A i \in 1 .. n : Words(kind, n)[i] = <<kind, i>>
<1> DEFINE w == Words(kind, n)
<1>1. \A i \in 1 .. n : <<kind, i>> \in Word
  <2> TAKE i \in 1 .. n
  <2>1. i \in Int
    OBVIOUS
  <2> QED
    BY <2>1 DEF Word
<1>2. w = [i \in 1 .. n |-> <<kind, i>>]
  BY DEF Words
<1> HIDE DEF w
<1>3. DOMAIN w = 1 .. n /\ \A i \in 1 .. n : w[i] = <<kind, i>>
  BY <1>2
<1>4. w \in [1 .. n -> Word]
  BY <1>1, <1>2
<1>5. w \in Seq(Word) /\ Len(w) = n
  BY <1>3, <1>4
<1> QED
  BY <1>3, <1>5 DEF w

\* The body behind its length and before its padding.
LEMMA Padded ==
  ASSUME NEW kind \in WordKinds, NEW n \in Nat, NEW k \in Nat
  PROVE  LET body == Words(kind, n)
             words == body \o Words("padding", k)
         IN  /\ words \in Seq(Word) /\ Len(words) = n + k
             /\ SubSeq(words, 1, n) = body
             /\ n >= 1 => words[1] = <<kind, 1>>
<1> DEFINE body == Words(kind, n)
<1> DEFINE pad == Words("padding", k)
<1> DEFINE words == body \o pad
<1>1. /\ body \in Seq(Word) /\ Len(body) = n /\ pad \in Seq(Word) /\ Len(pad) = k
      /\ \A i \in 1 .. n : body[i] = <<kind, i>>
  <2>1. "padding" \in WordKinds
    BY DEF WordKinds
  <2> QED
    BY <2>1, WordsAre
<1> HIDE DEF body, pad
<1>2. /\ words \in Seq(Word) /\ Len(words) = n + k
      /\ \A i \in 1 .. n : words[i] = body[i]
  <2>1. /\ words \in Seq(Word) /\ Len(words) = Len(body) + Len(pad)
        /\ \A i \in 1 .. Len(body) + Len(pad) :
             words[i] = IF i <= Len(body) THEN body[i] ELSE pad[i - Len(body)]
    BY <1>1, ConcatProperties
  <2>2. \A i \in 1 .. n : i \in 1 .. n + k /\ i <= n
    OBVIOUS
  <2> HIDE DEF words
  <2> QED
    BY <1>1, <2>1, <2>2
<1> HIDE DEF words
<1>3. SubSeq(words, 1, n) = body
  <2>1. SubSeq(words, 1, n) \in Seq(Word) /\ Len(SubSeq(words, 1, n)) = n
    BY <1>2
  <2>2. \A i \in 1 .. n : SubSeq(words, 1, n)[i] = body[i]
    BY <1>2
  <2> QED
    BY <1>1, <2>1, <2>2, SeqEqual
<1>4. ASSUME n >= 1 PROVE words[1] = <<kind, 1>>
  <2>1. 1 \in 1 .. n
    BY <1>4
  <2> QED
    BY <1>1, <1>2, <2>1
<1> QED
  BY <1>2, <1>3, <1>4 DEF words, body, pad

LEMMA Bodies ==
  ASSUME FrameInv
  PROVE  /\ fr_body.kind \in WordKinds /\ fr_body.len \in Nat /\ fr_body.len >= 1
         /\ fr_body.kind \in BodyKinds
BY DEF FrameInv, WordKinds

\* What is sealed over a body and some padding is framed.
LEMMA SealedFrames ==
  ASSUME FrameInv, NEW key, NEW d \in Nat, NEW k \in Nat,
         frame' = Sealed(key, [declared |-> d,
                               words |-> Words(fr_body.kind, fr_body.len) \o Words("padding", k)],
                         out_x(fr_from)),
         UNCHANGED <<fr_from, fr_body>>
  PROVE  Framed'
<1> DEFINE words == Words(fr_body.kind, fr_body.len) \o Words("padding", k)
<1> DEFINE P == [declared |-> d, words |-> words]
<1>1. /\ words \in Seq(Word) /\ Len(words) >= 1 /\ words[1] = <<fr_body.kind, 1>>
      /\ Len(words) \in Nat
  <2>1. words \in Seq(Word) /\ Len(words) = fr_body.len + k /\ words[1] = <<fr_body.kind, 1>>
    BY Bodies, Padded
  <2> HIDE DEF words
  <2> QED
    BY <2>1, Bodies
<1> HIDE DEF words
<1>2. P.declared = d /\ P.words = words /\ Total(P) = 1 + Len(words)
  BY DEF Total, PREFIX
<1>3. frame' = Sealed(key, P, out_x(fr_from))
  BY DEF words
<1> HIDE DEF P
<1>4. /\ frame'.fingerprint = key /\ frame'.payload = P /\ frame'.length = Total(P)
      /\ frame'.flipped = FALSE
      /\ frame'.msg_key = compute_msg_key(key, P, out_x(fr_from))
      /\ frame'.under = derive_keys(key, frame'.msg_key, out_x(fr_from))
      /\ frame' = [fingerprint |-> frame'.fingerprint, msg_key |-> frame'.msg_key,
                   under |-> frame'.under, payload |-> frame'.payload,
                   length |-> frame'.length, flipped |-> frame'.flipped]
  BY <1>3 DEF Sealed, key_fingerprint
<1>5. frame'.length \in 1 .. Total(frame'.payload)
  BY <1>1, <1>2, <1>4
<1> QED
  BY <1>1, <1>2, <1>4, <1>5 DEF Framed, Word, WordKinds, Total, compute_msg_key, derive_keys, out_x

LEMMA FrameStep ==
  ASSUME FrameInv, [FrameNext]_frame_vars
  PROVE  FrameInv'
<1>1. CASE UNCHANGED frame_vars
  BY <1>1 DEF frame_vars, FrameInv, Framed, Word, WordKinds, Total, compute_msg_key, derive_keys,
              out_x, in_x, decrypt_frame, decrypt_ige
<1>2. CASE Seal
  <2>1. /\ UNCHANGED <<fr_from, fr_body>> /\ fr_stage' = "sealed"
        /\ \E key \in FrameKeys :
             frame' = encrypt_frame(key, Words(fr_body.kind, fr_body.len), out_x(fr_from))
    BY <1>2 DEF Seal
  <2> DEFINE body == Words(fr_body.kind, fr_body.len)
  <2> DEFINE plain == PREFIX + Len(body)
  <2> DEFINE k == Up(plain + MIN_PADDING, BLOCK_WORDS) - plain
  <2>2. Len(body) \in Nat
    BY Bodies, WordsAre
  <2>3. k \in Nat
    <3> HIDE DEF body
    <3>1. plain \in Nat /\ plain + MIN_PADDING \in Nat
      BY <2>2 DEF PREFIX, MIN_PADDING
    <3> HIDE DEF plain
    <3>2. Up(plain + MIN_PADDING, BLOCK_WORDS) \in Nat
      BY <3>1, PaddingFills
    <3>3. Up(plain + MIN_PADDING, BLOCK_WORDS) >= plain + MIN_PADDING
      BY <3>1, PaddingFills
    <3> QED
      BY <3>1, <3>2, <3>3 DEF MIN_PADDING
  <2>4. Framed'
    <3>1. PICK key : frame' = Sealed(key, [declared |-> Len(body), words |-> body \o Words("padding", k)],
                                     out_x(fr_from))
      BY <2>1 DEF encrypt_frame, pad_payload
    <3> HIDE DEF k
    <3> QED
      BY <2>1, <2>2, <2>3, <3>1, SealedFrames
  <2> QED
    BY <2>1, <2>4 DEF FrameInv
<1>3. CASE SealElsewhere
  <2>1. UNCHANGED <<fr_from, fr_body>> /\ fr_stage' = "sealed"
    BY <1>3 DEF SealElsewhere
  <2>2. PICK key \in FrameKeys, blocks \in 1 .. MaxBlocks :
          LET room == blocks * BLOCK_WORDS - PREFIX IN
          \E declared \in 0 .. (room + PREFIX) :
            /\ fr_body.len <= room
            /\ frame' = Sealed(key,
                 [declared |-> declared,
                  words |-> Words(fr_body.kind, fr_body.len) \o Words("padding", room - fr_body.len)],
                 out_x(fr_from))
    BY <1>3 DEF SealElsewhere
  <2> DEFINE room == blocks * BLOCK_WORDS - PREFIX
  <2>3. PICK declared \in 0 .. (room + PREFIX) :
            /\ fr_body.len <= room
            /\ frame' = Sealed(key,
                 [declared |-> declared,
                  words |-> Words(fr_body.kind, fr_body.len) \o Words("padding", room - fr_body.len)],
                 out_x(fr_from))
    BY <2>2
  <2>4. room \in Int
    <3>1. blocks \in Int
      OBVIOUS
    <3> QED
      BY <3>1 DEF BLOCK_WORDS, PREFIX
  <2> HIDE DEF room
  <2>5. declared \in Nat /\ room - fr_body.len \in Nat
    BY <2>3, <2>4, Bodies
  <2>6. Framed'
    BY <2>1, <2>3, <2>5, SealedFrames
  <2> QED
    BY <2>1, <2>6 DEF FrameInv
<1>4. CASE Carry
  <2>1. Framed /\ UNCHANGED <<fr_from, fr_body>> /\ fr_stage' = "sent"
    BY <1>4 DEF Carry, FrameInv
  <2>2. \/ frame' = frame
        \/ frame' = [frame EXCEPT !.flipped = TRUE]
        \/ \E n \in 1 .. (frame.length - 1) : frame' = [frame EXCEPT !.length = n]
    BY <1>4 DEF Carry
  <2>3. /\ frame'.fingerprint = frame.fingerprint /\ frame'.msg_key = frame.msg_key
        /\ frame'.under = frame.under /\ frame'.payload = frame.payload
        /\ frame'.flipped \in BOOLEAN
        /\ frame'.length = frame.length \/ frame'.length \in 1 .. (frame.length - 1)
        /\ frame' = [fingerprint |-> frame'.fingerprint, msg_key |-> frame'.msg_key,
                     under |-> frame'.under, payload |-> frame'.payload,
                     length |-> frame'.length, flipped |-> frame'.flipped]
    BY <2>1, <2>2 DEF Framed
  <2>4. Total(frame.payload) \in Int /\ frame.length \in 1 .. Total(frame.payload)
    BY <2>1 DEF Framed, Total, PREFIX
  <2>5. frame'.length \in 1 .. Total(frame.payload)
    BY <2>3, <2>4
  <2>6. Framed'
    BY <2>1, <2>3, <2>5 DEF Framed, Word, WordKinds, Total, compute_msg_key, derive_keys, out_x
  <2> QED
    BY <2>1, <2>6 DEF FrameInv
<1>5. CASE Open_frame
  <2>1. /\ Framed /\ UNCHANGED <<fr_from, fr_body, frame>> /\ fr_stage' = "opened"
        /\ \E side \in {"originator", "other"}, key \in FrameKeys :
             fr_reader' = <<side, key>> /\ fr_result' = decrypt_frame(key, frame, in_x(side))
    BY <1>5 DEF Open_frame, FrameInv
  <2>2. Framed'
    BY <2>1 DEF Framed, Word, WordKinds, Total, compute_msg_key, derive_keys, out_x
  <2>3. /\ fr_reader'[1] \in {"originator", "other"}
        /\ fr_result' = decrypt_frame(fr_reader'[2], frame, in_x(fr_reader'[1]))
    BY <2>1
  <2>4. decrypt_frame(fr_reader'[2], frame, in_x(fr_reader'[1]))
          = decrypt_frame(fr_reader[2], frame, in_x(fr_reader[1]))'
    BY <2>1 DEF decrypt_frame, decrypt_ige, in_x, derive_keys, compute_msg_key, key_fingerprint
  <2> QED
    BY <2>1, <2>2, <2>3, <2>4 DEF FrameInv
<1> QED
  BY <1>1, <1>2, <1>3, <1>4, <1>5 DEF FrameNext

\* What another key, another direction or a changed block makes of a frame is not what
\* its digest was taken over.
LEMMA NoiseDiffers ==
  ASSUME FrameInv, Framed, NEW n
  PROVE  frame.payload.words # Words("noise", n)
<1>1. Len(frame.payload.words) >= 1 /\ frame.payload.words \in Seq(Word)
  BY DEF Framed
<1>2. 1 \in DOMAIN frame.payload.words /\ frame.payload.words[1] = <<fr_body.kind, 1>>
  BY <1>1 DEF Framed
<1>3. Words("noise", n) = [i \in 1 .. n |-> <<"noise", i>>]
  BY DEF Words
<1>4. 1 \in DOMAIN Words("noise", n) => Words("noise", n)[1] = <<"noise", 1>>
  BY <1>3
<1>5. fr_body.kind # "noise"
  BY Bodies DEF BodyKinds
<1> QED
  BY <1>2, <1>4, <1>5

\* What opens came whole, for this reader and under this key.
LEMMA OpenedWhole ==
  ASSUME FrameInv, Framed, NEW side \in {"originator", "other"}, NEW key,
         decrypt_frame(key, frame, in_x(side)).ok
  PROVE  /\ ~ frame.flipped /\ frame.length = Total(frame.payload)
         /\ side # fr_from /\ key = frame.fingerprint
         /\ frame.payload.declared <= Len(frame.payload.words) - MIN_PADDING
         /\ decrypt_frame(key, frame, in_x(side)).body
              = SubSeq(frame.payload.words, 1, frame.payload.declared)
<1> DEFINE x == in_x(side)
<1> DEFINE plain == decrypt_ige(frame, derive_keys(key, frame.msg_key, x))
<1> DEFINE P == frame.payload
<1>1. /\ frame.fingerprint = key /\ compute_msg_key(key, plain, x) = frame.msg_key
      /\ ~ (Total(plain) - PREFIX - plain.declared < MIN_PADDING)
      /\ decrypt_frame(key, frame, x).body = SubSeq(plain.words, 1, plain.declared)
  BY DEF decrypt_frame, Refused, key_fingerprint
<1>2. frame.msg_key = compute_msg_key(frame.fingerprint, P, out_x(fr_from))
  BY DEF Framed
<1>3. plain = P /\ x = out_x(fr_from)
  <2> HIDE DEF plain, P, x
  <2> QED
    BY <1>1, <1>2 DEF compute_msg_key
<1>4. side # fr_from
  BY <1>3 DEF in_x, out_x, FrameInv
<1>5. ~ frame.flipped /\ plain.words = SubSeq(P.words, 1, frame.length - PREFIX)
  <2>1. \/ ~ frame.flipped /\ plain.words = SubSeq(P.words, 1, frame.length - PREFIX)
        \/ plain.words = Words("noise", frame.length - PREFIX)
    BY DEF decrypt_ige
  <2>2. P.words # Words("noise", frame.length - PREFIX)
    BY NoiseDiffers
  <2> QED
    BY <1>3, <2>1, <2>2
<1> HIDE DEF plain
<1>6. frame.length = Total(P)
  <2>1. P.words = SubSeq(P.words, 1, frame.length - PREFIX)
    BY <1>3, <1>5
  <2>2. /\ P.words \in Seq(Word) /\ Len(P.words) \in Nat
        /\ frame.length \in 1 .. (1 + Len(P.words))
    BY DEF Framed, Total, PREFIX
  <2> HIDE DEF P
  <2>3. Len(SubSeq(P.words, 1, frame.length - 1)) = frame.length - 1
    BY <2>2
  <2> QED
    BY <2>1, <2>2, <2>3 DEF Total, PREFIX
<1>7. P.declared \in Nat /\ Len(P.words) \in Nat /\ Total(P) - PREFIX = Len(P.words)
  BY DEF Framed, Total, PREFIX
<1> HIDE DEF P
<1>8. P.declared <= Len(P.words) - MIN_PADDING
  BY <1>1, <1>3, <1>7 DEF MIN_PADDING
<1> QED
  BY <1>1, <1>3, <1>4, <1>5, <1>6, <1>8 DEF P

\* What this package sealed opens as the body for whom it is meant.
LEMMA OwnOpens ==
  ASSUME FrameInv, Framed, NEW side \in {"originator", "other"},
         frame.payload = pad_payload(Words(fr_body.kind, fr_body.len)),
         ~ frame.flipped, frame.length = Total(frame.payload), side # fr_from
  PROVE  decrypt_frame(frame.fingerprint, frame, in_x(side))
           = [ok |-> TRUE, body |-> Words(fr_body.kind, fr_body.len)]
<1> DEFINE body == Words(fr_body.kind, fr_body.len)
<1> DEFINE P == frame.payload
<1> DEFINE n == PREFIX + Len(body)
<1> DEFINE k == Up(n + MIN_PADDING, BLOCK_WORDS) - n
<1> DEFINE x == in_x(side)
<1> DEFINE plain == decrypt_ige(frame, derive_keys(frame.fingerprint, frame.msg_key, x))
<1>1. Len(body) = fr_body.len /\ fr_body.len \in Nat /\ fr_body.kind \in WordKinds
  BY Bodies, WordsAre
<1>2. P.declared = Len(body) /\ P.words = body \o Words("padding", k)
  BY DEF pad_payload
<1> HIDE DEF body
<1>3. n \in Nat /\ n = 1 + Len(body) /\ n >= 1
  BY <1>1 DEF PREFIX
<1>4. k \in Nat /\ k >= MIN_PADDING /\ (n + k) % BLOCK_WORDS = 0 /\ n + k >= BLOCK_WORDS
  <2> DEFINE up == Up(n + MIN_PADDING, BLOCK_WORDS)
  <2>1. n + MIN_PADDING \in Nat
    BY <1>3 DEF MIN_PADDING
  <2> HIDE DEF n
  <2>2. up \in Nat /\ up >= n + MIN_PADDING /\ up % BLOCK_WORDS = 0
    BY <2>1, PaddingFills
  <2> HIDE DEF up
  <2>3. k = up - n
    BY DEF up
  <2> HIDE DEF k
  <2>4. k \in Nat /\ k >= MIN_PADDING /\ n + k = up /\ up >= BLOCK_WORDS
    <3>1. n \in Nat /\ n >= 1
      BY <1>3
    <3>2. up \in Nat /\ up >= n + 3
      BY <2>2 DEF MIN_PADDING
    <3> QED
      BY <2>3, <3>1, <3>2 DEF MIN_PADDING, BLOCK_WORDS
  <2> QED
    BY <2>2, <2>4
<1>5. /\ P.words \in Seq(Word) /\ Len(P.words) = Len(body) + k
      /\ SubSeq(P.words, 1, Len(body)) = body
  <2> HIDE DEF k, P
  <2>1. LET words == body \o Words("padding", k)
        IN  /\ words \in Seq(Word) /\ Len(words) = fr_body.len + k
            /\ SubSeq(words, 1, fr_body.len) = body
    BY <1>1, <1>4, Padded DEF body
  <2> QED
    BY <1>1, <1>2, <2>1
<1>6. x = out_x(fr_from)
  BY DEF in_x, out_x, FrameInv
<1>7. SubSeq(P.words, 1, frame.length - PREFIX) = P.words
  <2>1. frame.length - PREFIX = Len(P.words) /\ Len(P.words) \in Nat
    BY <1>1, <1>4, <1>5 DEF Total, PREFIX
  <2> HIDE DEF P
  <2> QED
    BY <1>5, <2>1
<1>8. plain = P
  <2>1. plain = [declared |-> P.declared, words |-> P.words]
    BY <1>6, <1>7 DEF decrypt_ige, Framed
  <2>2. P = [declared |-> P.declared, words |-> P.words]
    BY DEF pad_payload
  <2> QED
    BY <2>1, <2>2
<1> HIDE DEF plain
<1>9. frame.length = n + k /\ Total(P) - PREFIX = Len(P.words)
  <2> HIDE DEF k
  <2> QED
    BY <1>1, <1>4, <1>5 DEF Total, PREFIX
<1>10. compute_msg_key(frame.fingerprint, plain, x) = frame.msg_key
  BY <1>6, <1>8 DEF Framed
<1>11. /\ ~ (frame.length < BLOCK_WORDS) /\ frame.length % BLOCK_WORDS = 0
       /\ ~ (plain.declared > Total(plain) - PREFIX)
       /\ ~ (Total(plain) - PREFIX - plain.declared < MIN_PADDING)
  <2> HIDE DEF n, k
  <2>1. ~ (frame.length < BLOCK_WORDS) /\ frame.length % BLOCK_WORDS = 0
    <3>1. n + k \in Nat
      BY <1>3, <1>4
    <3> QED
      BY <1>4, <1>9, <3>1 DEF BLOCK_WORDS
  <2>2. Total(plain) - PREFIX = Len(body) + k /\ plain.declared = Len(body)
    <3> HIDE DEF P
    <3> QED
      BY <1>2, <1>5, <1>8, <1>9
  <2>3. Len(body) \in Nat /\ k \in Nat /\ k >= 3
    BY <1>1, <1>4 DEF MIN_PADDING
  <2>4. ~ (Len(body) > Len(body) + k)
    BY <2>3
  <2>5. ~ (plain.declared > Total(plain) - PREFIX)
    <3> HIDE DEF P
    <3> QED
      BY <2>2, <2>4
  <2>6. ~ (Total(plain) - PREFIX - plain.declared < MIN_PADDING)
    <3> HIDE DEF P
    <3> QED
      BY <2>2, <2>3 DEF MIN_PADDING
  <2> QED
    BY <2>1, <2>5, <2>6
<1>12. SubSeq(plain.words, 1, plain.declared) = body
  BY <1>2, <1>5, <1>8
<1> QED
  BY <1>10, <1>11, <1>12 DEF decrypt_frame, key_fingerprint, plain, body

\* A body that begins as a message is one for the parser.
LEMMA MessageTaken ==
  ASSUME FrameInv, fr_body.kind = "message",
         NEW body, body = Words(fr_body.kind, fr_body.len), fr_body.len \in 1 .. MaxBody
  PROVE  unwrap(body) = "taken"
<1>1. "message" \in BodyKinds
  BY DEF BodyKinds
<1>2. body[1][1] = "message"
  <2>1. 1 \in 1 .. fr_body.len /\ "message" \in WordKinds /\ fr_body.len \in Nat
    BY Bodies DEF WordKinds, BodyKinds
  <2>2. body[1] = <<"message", 1>>
    BY <2>1, WordsAre
  <2> QED
    BY <2>2
<1>3. KindOf(body) = "message"
  BY <1>1, <1>2 DEF KindOf
<1> QED
  BY <1>3 DEF unwrap

\* A frame of this package that arrives whole opens for the other side with the body that
\* was sealed; what opens at all came whole, from the other side, under the reader's key,
\* with a length inside it and the least padding (encrypt_frame and decrypt_frame). For
\* every body and every padding another implementation may choose.
THEOREM FramesOpen == FrameSpec => []OpensAsSealed
<1>1. FrameInit => FrameInv
  <2> SUFFICES ASSUME FrameInit PROVE FrameInv
    OBVIOUS
  <2>1. fr_body.kind \in BodyKinds /\ fr_body.len \in 1 .. MaxBody
    BY DEF FrameInit
  <2>2. fr_body.len \in Nat \ {0}
    BY <2>1
  <2> QED
    BY <2>1, <2>2 DEF FrameInit, FrameInv
<1>2. FrameInv => OpensAsSealed
  <2> SUFFICES ASSUME FrameInv, fr_stage = "opened" PROVE OpensAsSealed
    BY DEF OpensAsSealed
  <2> DEFINE side == fr_reader[1]
  <2> DEFINE key == fr_reader[2]
  <2> DEFINE body == Words(fr_body.kind, fr_body.len)
  <2> DEFINE whole == ~ frame.flipped /\ frame.length = Total(frame.payload)
  <2> DEFINE meant == side # fr_from /\ key = frame.fingerprint
  <2>1. /\ Framed /\ side \in {"originator", "other"}
        /\ fr_result = decrypt_frame(key, frame, in_x(side))
    BY DEF FrameInv
  <2>2. ASSUME frame.payload = pad_payload(body), whole, meant
        PROVE  fr_result = [ok |-> TRUE, body |-> body]
    BY <2>1, <2>2, OwnOpens
  <2>3. ASSUME fr_result.ok
        PROVE  /\ whole /\ meant
               /\ Len(fr_result.body) = frame.payload.declared
               /\ Len(frame.payload.words) - Len(fr_result.body) >= MIN_PADDING
    <3> HIDE DEF side, key
    <3>1. /\ whole /\ meant
          /\ frame.payload.declared <= Len(frame.payload.words) - MIN_PADDING
          /\ fr_result.body = SubSeq(frame.payload.words, 1, frame.payload.declared)
      BY <2>1, <2>3, OpenedWhole
    <3>2. frame.payload.words \in Seq(Word) /\ frame.payload.declared \in Nat
      BY <2>1 DEF Framed
    <3>3. /\ Len(frame.payload.words) \in Nat
          /\ frame.payload.declared <= Len(frame.payload.words)
      BY <3>1, <3>2 DEF MIN_PADDING
    <3>4. Len(fr_result.body) = frame.payload.declared
      BY <3>1, <3>2, <3>3
    <3> QED
      BY <3>1, <3>2, <3>3, <3>4 DEF MIN_PADDING
  <2>4. ASSUME fr_result.body = body, fr_body.kind = "message"
        PROVE  unwrap(fr_result.body) = "taken"
    BY <2>4, MessageTaken DEF FrameInv
  <2> QED
    BY <2>2, <2>3, <2>4 DEF OpensAsSealed
<1> QED
  BY <1>1, <1>2, FrameStep, PTL DEF FrameSpec

============================================================================
