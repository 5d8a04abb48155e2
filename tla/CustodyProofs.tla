--------------------------- MODULE CustodyProofs ---------------------------
(***************************************************************************)
(* Proofs about Custody, for every limit, number of senders, tick, failing *)
(* write and restart: a refused update closes the chat for good, every     *)
(* message in custody is in one place, and no limit is passed.             *)
(***************************************************************************)
EXTENDS Custody, FiniteSetTheorems, WellFoundedInduction, SequenceTheorems, TLAPS

----------------------------------------------------------------------------
(* The pause that outlives its cause                                       *)

Control == [paused : BOOLEAN, lost : BOOLEAN]

\* RefusedIsLost is not inductive: a restart takes the control from the store, which
\* therefore has to be lost too, unless a pause could not be stored.
LostInv ==
  /\ control \in Control /\ stored \in Control /\ failed \in BOOLEAN /\ unsaved \in BOOLEAN
  /\ (refused # {} /\ ~ unsaved) => (control.lost /\ (stored.lost \/ failed))

LEMMA PausedByType ==
  ASSUME control \in Control, NEW lost \in BOOLEAN
  PROVE  /\ PausedBy(lost) \in Control
         /\ PausedBy(lost).lost = (control.lost \/ lost)
BY DEF PausedBy, Control

\* A pause keeps what is lost, and one for a refused update loses the chat.
LEMMA PauseLoses ==
  ASSUME LostInv, NEW lost \in BOOLEAN, Pause(lost)
  PROVE  /\ control' \in Control /\ stored' \in Control /\ failed' \in BOOLEAN
         /\ (control.lost /\ (stored.lost \/ failed)) \/ lost
              => control'.lost /\ (stored'.lost \/ failed')
<1>1. CASE control' = PausedBy(lost) /\ stored' = control' /\ UNCHANGED failed
  BY <1>1, PausedByType DEF LostInv
<1>2. CASE control' = [paused |-> TRUE, lost |-> TRUE] /\ failed' = TRUE /\ UNCHANGED stored
  BY <1>2 DEF LostInv, Control
<1> QED
  BY <1>1, <1>2 DEF Pause

LEMMA PauseKeeps ==
  ASSUME LostInv, NEW lost \in BOOLEAN, Pause(lost), UNCHANGED <<refused, unsaved>>
  PROVE  LostInv'
BY PauseLoses DEF LostInv

LEMMA RefuseKeeps ==
  ASSUME LostInv, NEW n, Refuse(n)
  PROVE  LostInv'
BY PauseLoses DEF LostInv, Refuse

\* Whatever a step writes of an unchanged control, or of one it pauses.
LEMMA StoredKeeps ==
  ASSUME LostInv, UNCHANGED <<failed, refused, unsaved>>, stored' = control',
         control' = control \/ \E lost \in BOOLEAN : control' = PausedBy(lost)
  PROVE  LostInv'
BY PausedByType DEF LostInv

LEMMA AsideKeeps ==
  ASSUME LostInv, UNCHANGED <<control, stored, failed, refused, unsaved>>
  PROVE  LostInv'
BY DEF LostInv

LEMMA RestartKeeps ==
  ASSUME LostInv, Restart
  PROVE  LostInv'
<1>1. /\ failed' = FALSE /\ refused' = refused /\ unsaved' = (unsaved \/ failed)
      /\ stored' = control'
      /\ control' = stored \/ control' = [stored EXCEPT !.paused = TRUE]
  BY DEF Restart
<1>2. control' \in Control /\ control'.lost = stored.lost
  BY <1>1 DEF LostInv, Control
<1> QED
  BY <1>1, <1>2 DEF LostInv

LEMMA HolderKeeps ==
  ASSUME LostInv,
         \/ DrainOne \/ DrainEnds \/ StepPaused \/ RetryOne \/ RetryEnds \/ Due \/ Prepare
         \/ HolderEnds \/ Confirmed \/ Unconfirmed
  PROVE  LostInv'
<1>1. CASE DrainEnds \/ RetryOne \/ RetryEnds \/ Due \/ HolderEnds \/ Unconfirmed
  BY <1>1, AsideKeeps DEF DrainEnds, RetryOne, RetryEnds, Due, HolderEnds, Unconfirmed,
                          controls, history
<1>2. ASSUME NEW pausing \in BOOLEAN, EndPaused(pausing), UNCHANGED <<refused, unsaved>>
      PROVE  LostInv'
  BY <1>2, StoredKeeps DEF EndPaused
<1>3. CASE DrainOne
  <2>1. /\ UNCHANGED <<failed, refused, unsaved>> /\ stored' = control'
        /\ control' = control \/ control' = PausedBy(TRUE)
    BY <1>3 DEF DrainOne, history, Commit
  <2> QED
    BY <2>1, StoredKeeps
<1>4. CASE StepPaused
  BY <1>2, <1>4 DEF StepPaused, history
<1>5. CASE Prepare
  <2>1. UNCHANGED <<refused, unsaved>>
    BY <1>5 DEF Prepare
  <2>2. \/ EndPaused(TRUE) \/ EndPaused(FALSE)
        \/ stored' = control /\ UNCHANGED <<control, failed>>
    BY <1>5 DEF Prepare
  <2> QED
    BY <1>2, <2>1, <2>2, StoredKeeps
<1>6. CASE Confirmed
  <2>1. UNCHANGED <<refused, unsaved>>
    BY <1>6 DEF Confirmed, history
  <2>2. EndPaused(FALSE) \/ (stored' = control' /\ UNCHANGED <<control, failed>>)
    BY <1>6 DEF Confirmed, Commit
  <2> QED
    BY <1>2, <2>1, <2>2, StoredKeeps
<1> QED
  BY <1>1, <1>3, <1>4, <1>5, <1>6

LEMMA LostInit == CustodyInit => LostInv
<1> SUFFICES ASSUME CustodyInit PROVE LostInv
  OBVIOUS
<1>1. /\ control = Fresh /\ stored = Fresh /\ failed = FALSE
      /\ refused = {} /\ unsaved = FALSE
  BY DEF CustodyInit
<1>2. Fresh \in Control
  BY DEF Fresh, Control
<1> QED
  BY <1>1, <1>2 DEF LostInv

LEMMA LostNext == LostInv /\ [CustodyNext]_custodyVars => LostInv'
<1> SUFFICES ASSUME LostInv, [CustodyNext]_custodyVars PROVE LostInv'
  OBVIOUS
<1>1. CASE UNCHANGED custodyVars
  BY <1>1, AsideKeeps DEF custodyVars, controls, history
<1>2. ASSUME NEW n \in Incoming, Arrive(n) \/ Receive(n) \/ Acknowledge(n) PROVE LostInv'
  <2>1. CASE Arrive(n)
    BY <2>1, RefuseKeeps, AsideKeeps DEF Arrive, controls, history
  <2>2. CASE Receive(n)
    <3>1. CASE Refuse(n)
      BY <3>1, RefuseKeeps
    <3>2. CASE /\ UNCHANGED <<control, failed, history>>
               /\ \E ack \in {0} \cup Issued : Accept(n, ack)
      <4>1. stored' = control' /\ UNCHANGED <<control, failed, refused, unsaved>>
        BY <3>2 DEF Accept, Commit, history
      <4> QED
        BY <4>1, StoredKeeps
    <3> QED
      BY <2>2, <3>1, <3>2 DEF Receive
  <2>3. CASE Acknowledge(n)
    <3>1. stored' = control /\ UNCHANGED <<control, failed, refused, unsaved>>
      BY <2>3 DEF Acknowledge, history
    <3> QED
      BY <3>1, StoredKeeps
  <2> QED
    BY <1>2, <2>1, <2>2, <2>3
<1>3. ASSUME NEW s \in Senders, BeginSend(s) \/ LockSend(s) \/ SendExpires(s) PROVE LostInv'
  <2>1. UNCHANGED <<refused, unsaved>>
    BY <1>3 DEF BeginSend, LockSend, SendExpires, history
  <2>2. Pause(FALSE) \/ UNCHANGED <<control, stored, failed>>
    BY <1>3 DEF BeginSend, LockSend, SendExpires, controls
  <2> QED
    BY <2>1, <2>2, PauseKeeps, AsideKeeps
<1>4. CASE Resume
  BY <1>4 DEF Resume, LostInv, Control, Fresh, history
<1>5. CASE \/ DrainOne \/ DrainEnds \/ StepPaused \/ RetryOne \/ RetryEnds \/ Due \/ Prepare
           \/ HolderEnds \/ Confirmed \/ Unconfirmed
  BY <1>5, HolderKeeps
<1>6. CASE Rejected \/ AgePause \/ \E lost \in BOOLEAN : OperatorPause(lost)
  BY <1>6, PauseKeeps DEF Rejected, AgePause, OperatorPause, history
<1>7. CASE Tick \/ BeginMedia \/ EndMedia \/ Slots
  BY <1>7, AsideKeeps DEF Tick, BeginMedia, EndMedia, Slots, controls, history
<1>8. CASE Restart
  BY <1>8, RestartKeeps
<1> QED
  BY <1>1, <1>2, <1>3, <1>4, <1>5, <1>6, <1>7, <1>8 DEF CustodyNext, CustodyStep

(* A chat that turned an update away can not be resumed, also not after a restart,     *)
(* unless the pause itself could not be stored: _on_update, _pause, resume_chat and    *)
(* the recovery of a started BoundedSecretChatManager.                                 *)
THEOREM RefusedForGood == CustodySpec => []RefusedIsLost
<1>1. LostInv => RefusedIsLost
  BY DEF LostInv, RefusedIsLost
<1> QED
  BY <1>1, LostInit, LostNext, PTL DEF CustodySpec

----------------------------------------------------------------------------
(* Every message in one place                                              *)

\* What HeldOnce says, but with the held and the settled messages being exactly those
\* counted: HeldOnce alone would let a message of the gap be in the relay as well, and
\* counting it later would double it.
InboxInv ==
  /\ Len(kind) \in Nat /\ counted \in Nat /\ counted <= Len(kind)
  /\ gap \subseteq Incoming /\ mailbox \in Seq(Nat)
  /\ ToSet(mailbox) \cup relay \cup settled = 1 .. counted
  /\ gap \cap 1 .. counted = {}
  /\ IsInjective(mailbox)
  /\ ToSet(mailbox) \cap relay = {} /\ settled \cap (relay \cup ToSet(mailbox)) = {}

LEMMA LeastNumber ==
  ASSUME NEW T, T \subseteq Nat, T # {}
  PROVE  \E x \in T : \A y \in T : x <= y
<1> DEFINE R == {s \in Nat \X Nat : s[1] < s[2]}
<1>1. IsWellFoundedOn(R, Nat)
  BY NatLessThanWellFounded DEF OpToRel
<1>2. PICK x \in T : \A y \in T : ~ (<<y, x>> \in R)
  <2> HIDE DEF R
  <2> QED BY <1>1, WFMin
<1>3. ASSUME NEW y \in T PROVE x <= y
  <2>1. ~ (y < x)
    BY <1>2 DEF R
  <2> QED
    BY <2>1
<1> QED
  BY <1>3

\* The run of messages that n completes ends at the first number that is missing.
LEMMA RunEnds ==
  ASSUME Len(kind) \in Nat, gap \subseteq Incoming, NEW n \in Incoming
  PROVE  Run(n) \in n .. Len(kind) /\ (n + 1) .. Run(n) \subseteq gap
<1> DEFINE T == {k \in n .. Len(kind) : k + 1 \notin gap}
<1>1. T \subseteq Nat /\ Len(kind) \in T /\ n \in Nat
  BY DEF Incoming
<1>2. PICK k \in T : \A j \in T : k <= j
  BY <1>1, LeastNumber
<1>3. ASSUME NEW j \in (n + 1) .. k PROVE j \in gap
  <2>1. j - 1 \in n .. Len(kind) /\ ~ (k <= j - 1) /\ (j - 1) + 1 = j
    BY <1>1
  <2>2. j - 1 \notin T
    <3> HIDE DEF T
    <3> QED BY <1>2, <2>1
  <2> QED
    BY <2>1, <2>2
<1>4. \E i \in n .. Len(kind) : (n + 1) .. i \subseteq gap /\ i + 1 \notin gap
  BY <1>2, <1>3
<1> QED
  BY <1>4 DEF Run

\* The numbers from a to b in order, and a mailbox that grows by them.
Stretch(a, b) == [i \in 1 .. b - a + 1 |-> a + i - 1]

LEMMA Joined ==
  ASSUME NEW box \in Seq(Nat), NEW a \in Nat, NEW b \in Nat, a <= b,
         \A i \in DOMAIN box : box[i] < a, IsInjective(box)
  PROVE  LET longer == box \o Stretch(a, b)
         IN /\ longer \in Seq(Nat) /\ Len(longer) = Len(box) + (b - a + 1)
            /\ ToSet(longer) = ToSet(box) \cup a .. b
            /\ IsInjective(longer)
<1> DEFINE run == Stretch(a, b)
           longer == box \o run
           m == Len(box)
           l == Len(run)
<1>1. run \in Seq(Nat) /\ l = b - a + 1 /\ \A i \in 1 .. l : run[i] = a + i - 1
  <2>1. \A i \in 1 .. b - a + 1 : a + i - 1 \in Nat
    OBVIOUS
  <2>2. b - a + 1 \in Nat
    OBVIOUS
  <2> QED
    BY <2>1, <2>2, IsASeq DEF Stretch
<1> HIDE DEF run
<1>2. /\ longer \in Seq(Nat) /\ Len(longer) = m + l /\ m \in Nat /\ l \in Nat
      /\ \A i \in 1 .. m + l : longer[i] = IF i <= m THEN box[i] ELSE run[i - m]
  BY <1>1, ConcatProperties, LenProperties
<1>3. DOMAIN longer = 1 .. m + l /\ DOMAIN box = 1 .. m
  BY <1>2
<1> HIDE DEF longer, m, l
<1>4. \A i \in 1 .. m : longer[i] = box[i] /\ box[i] \in ToSet(box) /\ box[i] < a /\ box[i] \in Nat
  BY <1>2, <1>3, ElementOfSeq DEF ToSet, m
<1>5. \A i \in m + 1 .. m + l : longer[i] = a + (i - m) - 1 /\ longer[i] \in a .. b
  <2> SUFFICES ASSUME NEW i \in m + 1 .. m + l
               PROVE  longer[i] = a + (i - m) - 1 /\ longer[i] \in a .. b
    OBVIOUS
  <2>1. i \in 1 .. m + l /\ ~ (i <= m) /\ i - m \in 1 .. l /\ i - m <= b - a + 1
    BY <1>1, <1>2
  <2>2. longer[i] = a + (i - m) - 1
    BY <1>1, <1>2, <2>1
  <2> QED
    BY <2>1, <2>2
<1>6. \A i \in DOMAIN longer : i \in 1 .. m \/ i \in m + 1 .. m + l
  BY <1>2, <1>3
<1>7. ToSet(longer) = ToSet(box) \cup a .. b
  <2>1. \A i \in DOMAIN longer : longer[i] \in ToSet(box) \cup a .. b
    BY <1>4, <1>5, <1>6
  <2>2. ASSUME NEW i \in DOMAIN box PROVE box[i] \in ToSet(longer)
    <3>1. i \in DOMAIN longer /\ longer[i] = box[i]
      BY <1>2, <1>3, <1>4
    <3> QED
      BY <3>1 DEF ToSet
  <2>3. ASSUME NEW x \in a .. b PROVE x \in ToSet(longer)
    <3>1. m + (x - a + 1) \in m + 1 .. m + l /\ m + (x - a + 1) \in DOMAIN longer
      BY <1>1, <1>2, <1>3
    <3>2. longer[m + (x - a + 1)] = x
      BY <1>2, <1>5, <3>1
    <3> QED
      BY <3>1, <3>2 DEF ToSet
  <2> QED
    BY <2>1, <2>2, <2>3 DEF ToSet
<1>8. IsInjective(longer)
  <2> SUFFICES ASSUME NEW i \in DOMAIN longer, NEW j \in DOMAIN longer, longer[i] = longer[j]
               PROVE  i = j
    BY DEF IsInjective
  <2>1. CASE i \in 1 .. m /\ j \in 1 .. m
    BY <1>3, <1>4, <2>1 DEF IsInjective
  <2>2. CASE i \in m + 1 .. m + l /\ j \in m + 1 .. m + l
    BY <1>2, <1>5, <2>2
  <2>3. \A x \in 1 .. m, y \in m + 1 .. m + l : longer[x] # longer[y]
    BY <1>4, <1>5
  <2> QED
    BY <1>6, <2>1, <2>2, <2>3
<1> QED
  BY <1>1, <1>2, <1>7, <1>8 DEF longer, run, m, l

LEMMA Popped ==
  ASSUME NEW box \in Seq(Nat), box # <<>>, IsInjective(box)
  PROVE  /\ Tail(box) \in Seq(Nat) /\ Len(Tail(box)) = Len(box) - 1
         /\ Head(box) \in ToSet(box)
         /\ ToSet(Tail(box)) = ToSet(box) \ {Head(box)}
         /\ IsInjective(Tail(box))
<1> DEFINE rest == Tail(box)
           m == Len(box)
<1>1. /\ rest \in Seq(Nat) /\ Len(rest) = m - 1 /\ m \in Nat /\ m > 0
      /\ \A i \in 1 .. m - 1 : rest[i] = box[i + 1]
      /\ DOMAIN box = 1 .. m /\ DOMAIN rest = 1 .. m - 1
      /\ Head(box) = box[1]
  BY HeadTailProperties, LenProperties, EmptySeq
<1> HIDE DEF rest, m
<1>2. 1 \in DOMAIN box
  BY <1>1
<1>3. \A i \in DOMAIN rest : i + 1 \in DOMAIN box /\ i + 1 # 1 /\ rest[i] = box[i + 1]
  BY <1>1
<1>4. \A i \in DOMAIN box \ {1} : i - 1 \in DOMAIN rest /\ rest[i - 1] = box[i]
  <2> SUFFICES ASSUME NEW i \in DOMAIN box \ {1} PROVE i - 1 \in DOMAIN rest /\ rest[i - 1] = box[i]
    OBVIOUS
  <2>1. i - 1 \in 1 .. m - 1 /\ (i - 1) + 1 = i
    BY <1>1
  <2> QED
    BY <1>1, <2>1
<1>5. ToSet(rest) = ToSet(box) \ {box[1]}
  <2>1. \A i \in DOMAIN rest : rest[i] \in ToSet(box) \ {box[1]}
    BY <1>2, <1>3 DEF ToSet, IsInjective
  <2>2. \A i \in DOMAIN box : box[i] # box[1] => box[i] \in ToSet(rest)
    BY <1>4 DEF ToSet
  <2> QED
    BY <2>1, <2>2 DEF ToSet
<1>6. IsInjective(rest)
  <2> SUFFICES ASSUME NEW i \in DOMAIN rest, NEW j \in DOMAIN rest, rest[i] = rest[j]
               PROVE  i = j
    BY DEF IsInjective
  <2>1. i + 1 = j + 1
    BY <1>3 DEF IsInjective
  <2> QED
    BY <1>1, <2>1
<1> QED
  BY <1>1, <1>2, <1>5, <1>6 DEF rest, m, ToSet

LEMMA InboxRests ==
  ASSUME InboxInv, UNCHANGED <<kind, inbox>>
  PROVE  InboxInv'
BY DEF InboxInv, inbox, Incoming

\* The commit of a receive: the number joins the mailbox with its run, or the gap.
LEMMA AcceptKeepsInbox ==
  ASSUME InboxInv, NEW n \in Incoming, NEW ack, Accept(n, ack), UNCHANGED kind
  PROVE  InboxInv'
<1>1. UNCHANGED <<relay, settled>> /\ Incoming' = Incoming /\ n \in Nat /\ n <= Len(kind)
  BY DEF Accept, Incoming, InboxInv
<1>2. CASE UNCHANGED <<counted, gap, mailbox>>
  BY <1>1, <1>2, InboxRests DEF inbox
<1>3. CASE n > counted + 1 /\ n \notin gap /\ gap' = gap \cup {n} /\ UNCHANGED <<counted, mailbox>>
  <2>1. gap' \subseteq Incoming' /\ gap' \cap 1 .. counted' = {}
    BY <1>1, <1>3 DEF InboxInv
  <2> QED
    BY <1>1, <1>3, <2>1 DEF InboxInv
<1>4. CASE /\ n = counted + 1
           /\ counted' = Run(n) /\ gap' = gap \ (n .. Run(n))
           /\ mailbox' = mailbox \o [i \in 1 .. Run(n) - n + 1 |-> n + i - 1]
  <2> DEFINE b == Run(n)
  <2>1. b \in n .. Len(kind) /\ (n + 1) .. b \subseteq gap
    BY RunEnds DEF InboxInv
  <2> HIDE DEF b
  <2>2. b \in Nat /\ n <= b /\ b <= Len(kind) /\ counted \in Nat /\ n = counted + 1
    BY <1>1, <1>4, <2>1 DEF InboxInv
  <2>3. \A i \in DOMAIN mailbox : mailbox[i] < n
    <3>1. \A i \in DOMAIN mailbox : mailbox[i] \in 1 .. counted
      BY DEF InboxInv, ToSet
    <3> QED
      BY <2>2, <3>1
  <2>4. /\ mailbox' \in Seq(Nat) /\ ToSet(mailbox') = ToSet(mailbox) \cup n .. b
        /\ IsInjective(mailbox')
    <3>1. mailbox' = mailbox \o Stretch(n, b)
      BY <1>4 DEF Stretch, b
    <3>2. mailbox \in Seq(Nat) /\ IsInjective(mailbox)
      BY DEF InboxInv
    <3> QED
      BY ONLY <1>1, <2>2, <2>3, <3>1, <3>2, Joined
  <2>5. 1 .. b = (1 .. counted) \cup (n .. b) /\ (1 .. counted) \cap (n .. b) = {}
    BY <2>2
  <2>6. counted' = b /\ gap' = gap \ (n .. b)
    BY <1>4 DEF b
  <2>7. gap' \cap 1 .. b = {} /\ gap' \subseteq Incoming'
    BY <1>1, <2>5, <2>6 DEF InboxInv
  <2>8. ToSet(mailbox') \cup relay' \cup settled' = 1 .. counted'
    BY <1>1, <2>4, <2>5, <2>6 DEF InboxInv
  <2>9. relay \subseteq 1 .. counted /\ settled \subseteq 1 .. counted
    BY DEF InboxInv
  <2>10. ToSet(mailbox') \cap relay' = {} /\ settled' \cap (relay' \cup ToSet(mailbox')) = {}
    BY <1>1, <2>4, <2>5, <2>9 DEF InboxInv
  <2> QED
    BY <2>2, <2>4, <2>6, <2>7, <2>8, <2>10 DEF InboxInv
<1> QED
  BY <1>2, <1>3, <1>4 DEF Accept

LEMMA DrainKeepsInbox ==
  ASSUME InboxInv, DrainOne, UNCHANGED kind
  PROVE  InboxInv'
<1> DEFINE n == Head(mailbox)
<1>1. UNCHANGED <<counted, gap, Incoming>> /\ mailbox # <<>>
  BY DEF DrainOne, Incoming
<1>2. CASE UNCHANGED <<mailbox, relay, settled>>
  BY <1>1, <1>2, InboxRests DEF inbox
<1>3. CASE /\ mailbox' = Tail(mailbox)
           /\ \/ relay' = relay \cup {n} /\ UNCHANGED settled
              \/ settled' = settled \cup {n} /\ UNCHANGED relay
  <2>1. /\ mailbox' \in Seq(Nat) /\ IsInjective(mailbox') /\ n \in ToSet(mailbox)
        /\ ToSet(mailbox') = ToSet(mailbox) \ {n}
    BY <1>1, <1>3, Popped DEF InboxInv
  <2> HIDE DEF n
  <2>2. n \notin relay /\ n \notin settled
    BY <2>1 DEF InboxInv
  <2>3. ToSet(mailbox') \cup relay' \cup settled' = ToSet(mailbox) \cup relay \cup settled
    BY <1>3, <2>1
  <2>4. ToSet(mailbox') \cap relay' = {} /\ settled' \cap (relay' \cup ToSet(mailbox')) = {}
    BY <1>3, <2>1, <2>2 DEF InboxInv
  <2> QED
    BY <1>1, <2>1, <2>3, <2>4 DEF InboxInv
<1> QED
  BY <1>2, <1>3 DEF DrainOne, Project

LEMMA InboxInit == CustodyInit => InboxInv
<1> SUFFICES ASSUME CustodyInit PROVE InboxInv
  OBVIOUS
<1>1. /\ kind \in Kinds /\ counted = 0 /\ gap = {} /\ mailbox = <<>>
      /\ relay = {} /\ settled = {}
  BY DEF CustodyInit
<1>2. Len(kind) \in Nat
  BY <1>1, CustodyAssumption, LenProperties
<1>3. mailbox \in Seq(Nat) /\ ToSet(mailbox) = {} /\ IsInjective(mailbox)
  BY <1>1 DEF ToSet, IsInjective
<1> QED
  BY <1>1, <1>2, <1>3 DEF InboxInv

LEMMA InboxNext == InboxInv /\ [CustodyNext]_custodyVars => InboxInv'
<1> SUFFICES ASSUME InboxInv, [CustodyNext]_custodyVars PROVE InboxInv'
  OBVIOUS
<1>1. UNCHANGED kind
  BY DEF CustodyNext, custodyVars
<1>2. CASE UNCHANGED custodyVars
  BY <1>2, InboxRests DEF custodyVars
<1>3. ASSUME NEW n \in Incoming, Arrive(n) \/ Receive(n) \/ Acknowledge(n) PROVE InboxInv'
  <2>1. CASE Arrive(n) \/ (Receive(n) /\ UNCHANGED inbox)
    BY <1>1, <2>1, InboxRests DEF Arrive
  <2>2. CASE \E ack \in {0} \cup Issued : Accept(n, ack)
    BY <1>1, <2>2, AcceptKeepsInbox
  <2>3. CASE Acknowledge(n)
    <3>1. /\ n \in relay /\ relay' = relay \ {n} /\ settled' = settled \cup {n}
          /\ UNCHANGED <<counted, gap, mailbox>>
      BY <2>3 DEF Acknowledge
    <3>2. n \notin ToSet(mailbox)
      BY <3>1 DEF InboxInv
    <3>3. ToSet(mailbox) \cup relay' \cup settled' = ToSet(mailbox) \cup relay \cup settled
      BY <3>1
    <3> QED
      BY <1>1, <3>1, <3>2, <3>3 DEF InboxInv, Incoming
  <2> QED
    BY <1>3, <2>1, <2>2, <2>3 DEF Receive
<1>4. CASE DrainOne
  BY <1>1, <1>4, DrainKeepsInbox
<1>5. CASE \/ DrainEnds \/ StepPaused \/ RetryOne \/ RetryEnds \/ Due \/ HolderEnds
           \/ Unconfirmed \/ Rejected \/ Resume \/ AgePause \/ Tick \/ BeginMedia \/ EndMedia
           \/ Slots \/ Restart
  <2>1. UNCHANGED inbox
    BY <1>5 DEF DrainEnds, StepPaused, RetryOne, RetryEnds, Due, HolderEnds, Unconfirmed,
      Rejected, Resume, AgePause, Tick, BeginMedia, EndMedia, Slots, Restart
  <2> QED
    BY <1>1, <2>1, InboxRests
<1>6. CASE \E lost \in BOOLEAN : OperatorPause(lost)
  BY <1>1, <1>6, InboxRests DEF OperatorPause
<1>7. ASSUME NEW s \in Senders, BeginSend(s) \/ LockSend(s) \/ SendExpires(s) PROVE InboxInv'
  BY <1>1, <1>7, InboxRests DEF BeginSend, LockSend, SendExpires
<1>8. CASE Prepare \/ Confirmed
  <2>1. UNCHANGED inbox
    BY <1>8 DEF Prepare, Confirmed
  <2> QED
    BY <1>1, <2>1, InboxRests
<1> QED
  BY <1>2, <1>3, <1>4, <1>5, <1>6, <1>7, <1>8 DEF CustodyNext, CustodyStep

(* Every message counted as received, or held for a hole, is in exactly one of gap,    *)
(* mailbox, relay and what is settled, through runs, drains, relays, acknowledgements, *)
(* refusals and restarts: nothing is evicted, lost or doubled on its way.              *)
THEOREM EachHeldOnce == CustodySpec => []HeldOnce
<1>1. InboxInv => HeldOnce
  BY DEF InboxInv, HeldOnce
<1> QED
  BY <1>1, InboxInit, InboxNext, PTL DEF CustodySpec

----------------------------------------------------------------------------
(* The limits                                                              *)

Names == Senders \cup {"nobody", "receive", "resume", "start"}

Parts == {"drain", "retry", "due", "own", "request"}

Shape(h) ==
  /\ {"who", "plan"} \subseteq DOMAIN h
  /\ h.who \in Names /\ h.plan \in Seq(Parts)

\* The plan ends in a record of its own.
Bound(plan) == \E i \in DOMAIN plan : plan[i] \in {"own", "request"}

\* WithinLimits is not inductive: a chat paused between a send's admission and its
\* commit keeps its record without another check. The slot admitted for it is still
\* there, as only the holder of the lock adds records.
LimitInv ==
  /\ Shape(holder) /\ waiting \subseteq Senders /\ IsFiniteSet(out)
  /\ media \in Nat /\ creating \in Nat /\ chats \in Nat
  /\ Usage <= Records
  /\ Bound(holder.plan) => Usage + 1 <= Records
  /\ Active <= Tasks
  /\ chats + creating <= ChatSlots

LEMMA Plans ==
  /\ <<>> \in Seq(Parts) /\ ~ Bound(<<>>)
  /\ <<"drain", "retry", "due">> \in Seq(Parts) /\ ~ Bound(<<"drain", "retry", "due">>)
  /\ <<"drain", "due">> \in Seq(Parts) /\ ~ Bound(<<"drain", "due">>)
  /\ <<"retry", "own">> \in Seq(Parts) /\ <<"retry", "request">> \in Seq(Parts)
<1>1. <<>> \in Seq(Parts) /\ ~ Bound(<<>>)
  BY DEF Bound
<1>2. <<"drain", "retry", "due">> \in Seq(Parts) /\ <<"drain", "due">> \in Seq(Parts)
  BY DEF Parts
<1>3. <<"retry", "own">> \in Seq(Parts) /\ <<"retry", "request">> \in Seq(Parts)
  BY DEF Parts
<1>4. ~ Bound(<<"drain", "due">>)
  <2>1. \A i \in 1 .. 2 : <<"drain", "due">>[i] \notin {"own", "request"}
    OBVIOUS
  <2> QED
    BY <2>1 DEF Bound
<1>5. ~ Bound(<<"drain", "retry", "due">>)
  <2>1. \A i \in 1 .. 3 : <<"drain", "retry", "due">>[i] \notin {"own", "request"}
    OBVIOUS
  <2> QED
    BY <2>1 DEF Bound
<1> QED
  BY <1>1, <1>2, <1>3, <1>4, <1>5

LEMMA PlanTail ==
  ASSUME NEW plan \in Seq(Parts), plan # <<>>
  PROVE  /\ Tail(plan) \in Seq(Parts)
         /\ Bound(Tail(plan)) => Bound(plan)
         /\ Head(plan) \in {"own", "request"} => Bound(plan)
<1>1. /\ Tail(plan) \in Seq(Parts) /\ Len(plan) \in Nat /\ Len(plan) > 0
      /\ DOMAIN plan = 1 .. Len(plan) /\ DOMAIN Tail(plan) = 1 .. Len(plan) - 1
      /\ \A i \in 1 .. Len(plan) - 1 : Tail(plan)[i] = plan[i + 1]
      /\ Head(plan) = plan[1]
  BY HeadTailProperties, LenProperties, EmptySeq
<1>2. ASSUME NEW i \in DOMAIN Tail(plan) PROVE i + 1 \in DOMAIN plan /\ Tail(plan)[i] = plan[i + 1]
  BY <1>1
<1>3. 1 \in DOMAIN plan
  BY <1>1
<1> QED
  BY <1>1, <1>2, <1>3 DEF Bound

LEMMA FreeShape == Shape(Free) /\ ~ Bound(Free.plan) /\ Free.who = "nobody"
BY Plans DEF Free, Shape, Names

\* What the steps of the holder do to it.
Moved(h, who, plan) == Shape(h) /\ h.who = who /\ h.plan = plan

LEMMA HolderMoves ==
  ASSUME NEW h, Shape(h), NEW plan \in Seq(Parts), NEW left, NEW rpc, NEW bad
  PROVE  /\ Moved([h EXCEPT !.rpc = rpc], h.who, h.plan)
         /\ Moved([h EXCEPT !.rpc = rpc, !.left = left], h.who, h.plan)
         /\ Moved([h EXCEPT !.rpc = rpc, !.bad = bad], h.who, h.plan)
         /\ Moved([h EXCEPT !.plan = plan], h.who, plan)
         /\ Moved([h EXCEPT !.plan = plan, !.left = left], h.who, plan)
         /\ Moved([h EXCEPT !.rpc = rpc, !.plan = plan], h.who, plan)
BY DEF Moved, Shape

LEMMA FreshHolder ==
  ASSUME NEW who \in Names, NEW plan \in Seq(Parts), NEW left
  PROVE  /\ Moved([Free EXCEPT !.who = who, !.plan = plan], who, plan)
         /\ Moved([Free EXCEPT !.who = who, !.plan = plan, !.left = left], who, plan)
BY DEF Moved, Shape, Free

----------------------------------------------------------------------------
(* Counting records *)

Size(o, g, m, r) == Cardinality(o) + Cardinality(g) + Len(m) + Cardinality(r)

LEMMA InboxFinite ==
  ASSUME InboxInv
  PROVE  IsFiniteSet(gap) /\ IsFiniteSet(relay) /\ mailbox \in Seq(Nat)
<1>1. IsFiniteSet(1 .. Len(kind)) /\ IsFiniteSet(1 .. counted)
  BY FS_Interval DEF InboxInv
<1>2. gap \subseteq 1 .. Len(kind) /\ relay \subseteq 1 .. counted
  BY DEF InboxInv, Incoming
<1> QED
  BY <1>1, <1>2, FS_Subset DEF InboxInv

LEMMA SizeType ==
  ASSUME NEW o, NEW g, NEW m \in Seq(Nat), NEW r,
         IsFiniteSet(o), IsFiniteSet(g), IsFiniteSet(r)
  PROVE  Size(o, g, m, r) \in Nat /\ Cardinality(o) \in Nat /\ Cardinality(g) \in Nat
         /\ Len(m) \in Nat /\ Cardinality(r) \in Nat
BY FS_CardinalityType, LenProperties DEF Size

LEMMA UsageType ==
  ASSUME InboxInv, LimitInv
  PROVE  Usage = Size(out, gap, mailbox, relay) /\ Usage \in Nat
BY InboxFinite, SizeType DEF Usage, Size, LimitInv

\* What an admission leaves room for.
LEMMA AdmittedRoom ==
  ASSUME InboxInv, LimitInv, NEW me, NEW n \in Nat, Admitted(me, n)
  PROVE  Usage + n <= Records
<1>1. Cardinality(Senders \cap (Workers \ {me})) \in Nat
  BY CustodyAssumption, FS_Intersection, FS_CardinalityType
<1>2. Reserved(me) \in Nat
  BY <1>1 DEF Reserved
<1>3. Usage + (n + Reserved(me)) <= Records
  BY DEF Admitted, check, Fits
<1> QED
  BY <1>2, <1>3, UsageType, CustodyAssumption

LEMMA NextUsage ==
  ASSUME InboxInv', IsFiniteSet(out')
  PROVE  /\ Usage' = Size(out', gap', mailbox', relay') /\ Usage' \in Nat
         /\ IsFiniteSet(gap') /\ IsFiniteSet(relay')
<1>1. IsFiniteSet(1 .. Len(kind')) /\ IsFiniteSet(1 .. counted')
  BY FS_Interval DEF InboxInv
<1>2. gap' \subseteq 1 .. Len(kind') /\ relay' \subseteq 1 .. counted' /\ mailbox' \in Seq(Nat)
  BY DEF InboxInv, Incoming
<1>3. IsFiniteSet(gap') /\ IsFiniteSet(relay')
  BY <1>1, <1>2, FS_Subset
<1> QED
  BY <1>2, <1>3, SizeType DEF Usage, Size

\* The commit of a receive adds at most the received message, whatever run it completes.
LEMMA AcceptAddsOne ==
  ASSUME InboxInv, LimitInv, InboxInv', NEW n \in Incoming, NEW ack, Accept(n, ack)
  PROVE  IsFiniteSet(out') /\ Usage' <= Usage + 1
<1>1. /\ IsFiniteSet(gap) /\ IsFiniteSet(relay) /\ IsFiniteSet(out) /\ mailbox \in Seq(Nat)
      /\ relay' = relay /\ out' \subseteq out
  BY InboxFinite DEF LimitInv, Accept
<1>2. IsFiniteSet(out') /\ Cardinality(out') <= Cardinality(out)
  BY <1>1, FS_Subset
<1>3. /\ Usage' = Size(out', gap', mailbox', relay) /\ Usage' \in Nat
      /\ Usage = Size(out, gap, mailbox, relay) /\ Usage \in Nat
  BY <1>1, <1>2, NextUsage, UsageType
<1>4. /\ Cardinality(out) \in Nat /\ Cardinality(gap) \in Nat /\ Len(mailbox) \in Nat
      /\ Cardinality(relay) \in Nat /\ Cardinality(out') \in Nat
  BY <1>1, <1>2, SizeType, FS_CardinalityType
<1>5. CASE UNCHANGED <<gap, mailbox>>
  BY <1>2, <1>3, <1>4, <1>5 DEF Size
<1>6. CASE gap' = gap \cup {n} /\ UNCHANGED mailbox
  <2>1. Cardinality(gap') <= Cardinality(gap) + 1 /\ Cardinality(gap') \in Nat
    <3>1. Cardinality(gap \cup {n}) = IF n \in gap THEN Cardinality(gap) ELSE Cardinality(gap) + 1
      BY <1>1, FS_AddElement
    <3> QED
      BY <1>4, <1>6, <3>1
  <2> QED
    BY <1>2, <1>3, <1>4, <1>6, <2>1 DEF Size
<1>7. CASE /\ gap' = gap \ (n .. Run(n)) /\ n = counted + 1
           /\ mailbox' = mailbox \o [i \in 1 .. Run(n) - n + 1 |-> n + i - 1]
  <2> DEFINE b == Run(n)
             run == (n + 1) .. b
  <2>1. b \in n .. Len(kind) /\ run \subseteq gap /\ n \in Nat /\ b \in Nat /\ n <= b
    BY RunEnds DEF InboxInv, Incoming
  <2>2. Len(mailbox') = Len(mailbox) + (b - n + 1)
    <3>1. mailbox' = mailbox \o Stretch(n, b)
      BY <1>7 DEF Stretch, b
    <3>2. \A i \in DOMAIN mailbox : mailbox[i] < n
      <4>1. \A i \in DOMAIN mailbox : mailbox[i] \in 1 .. counted
        BY DEF InboxInv, ToSet
      <4> QED
        BY <1>7, <4>1 DEF InboxInv
    <3>3. mailbox \in Seq(Nat) /\ IsInjective(mailbox)
      BY DEF InboxInv
    <3> HIDE DEF b
    <3> QED
      BY ONLY <2>1, <3>1, <3>2, <3>3, Joined
  <2>3. Cardinality(run) = b - n /\ IsFiniteSet(run)
    <3>1. n + 1 \in Int /\ b \in Int
      BY <2>1
    <3>2. Cardinality(run) = IF n + 1 > b THEN 0 ELSE b - (n + 1) + 1
      BY <3>1, FS_Interval
    <3>3. IsFiniteSet(run)
      BY <3>1, FS_Interval
    <3> HIDE DEF b
    <3> QED
      BY <2>1, <3>2, <3>3
  <2> HIDE DEF b, run
  <2>4. Cardinality(gap) = Cardinality(gap \ run) + Cardinality(run)
        /\ IsFiniteSet(gap \ run) /\ Cardinality(gap \ run) \in Nat
    <3>1. IsFiniteSet(gap \ run)
      BY <1>1, FS_Subset
    <3>2. gap = (gap \ run) \cup run /\ (gap \ run) \cap run = {}
      BY <2>1
    <3>3. Cardinality(gap) = Cardinality(gap \ run) + Cardinality(run)
                               - Cardinality((gap \ run) \cap run)
      BY <2>3, <3>1, <3>2, FS_Union
    <3>4. Cardinality((gap \ run) \cap run) = 0
      BY <3>2, FS_EmptySet
    <3>5. Cardinality(gap \ run) \in Nat /\ Cardinality(run) \in Nat
      BY <2>3, <3>1, FS_CardinalityType
    <3> QED
      BY <3>1, <3>3, <3>4, <3>5
  <2>5. Cardinality(gap') <= Cardinality(gap \ run) /\ Cardinality(gap') \in Nat
    <3>1. gap' \subseteq gap \ run
      BY <1>7, <2>1 DEF run, b
    <3> QED
      BY <2>4, <3>1, FS_Subset, FS_CardinalityType
  <2>6. Cardinality(out') + Cardinality(gap') + Len(mailbox') + Cardinality(relay)
          <= Cardinality(out) + Cardinality(gap) + Len(mailbox) + Cardinality(relay) + 1
    <3>1. n \in Nat /\ b \in Nat
      BY <2>1
    <3>2. ASSUME NEW o \in Nat, NEW o1 \in Nat, NEW g \in Nat, NEW g1 \in Nat, NEW rest \in Nat,
                 NEW m \in Nat, NEW r \in Nat, o1 <= o, g1 <= rest, g = rest + (b - n)
          PROVE  o1 + g1 + (m + (b - n + 1)) + r <= o + g + m + r + 1
      BY <3>1, <3>2
    <3>3. Cardinality(gap) = Cardinality(gap \ run) + (b - n)
      BY <2>3, <2>4
    <3> QED
      BY <1>2, <1>4, <2>2, <2>4, <2>5, <3>2, <3>3
  <2> QED
    BY <1>2, <1>3, <2>6 DEF Size
<1> QED
  BY <1>2, <1>5, <1>6, <1>7 DEF Accept

----------------------------------------------------------------------------
(* Counting tasks *)

LEMMA Busy ==
  ASSUME NEW ws, ws \subseteq Senders, NEW who \in Names
  PROVE  LET busy == (ws \cup {who}) \ {"nobody"}
         IN /\ Cardinality(ws) \in Nat /\ Cardinality(busy) \in Nat
            /\ Cardinality(ws) <= Cardinality(busy) /\ Cardinality(busy) <= Cardinality(ws) + 1
            /\ who = "nobody" => Cardinality(busy) = Cardinality(ws)
            /\ who \in {"receive", "resume", "start"} => Cardinality(busy) = Cardinality(ws) + 1
            /\ who \in ws => Cardinality(busy) = Cardinality(ws)
<1> DEFINE busy == (ws \cup {who}) \ {"nobody"}
<1>1. IsFiniteSet(ws) /\ Cardinality(ws) \in Nat
  BY CustodyAssumption, FS_Subset, FS_CardinalityType
<1>2. "nobody" \notin ws /\ "receive" \notin ws /\ "resume" \notin ws /\ "start" \notin ws
  BY CustodyAssumption
<1>3. CASE who = "nobody"
  <2>1. busy = ws
    BY <1>2, <1>3
  <2> QED
    BY <1>1, <1>2, <1>3, <2>1
<1>4. CASE who # "nobody"
  <2>1. busy = ws \cup {who}
    BY <1>2, <1>4
  <2>2. Cardinality(busy) = IF who \in ws THEN Cardinality(ws) ELSE Cardinality(ws) + 1
    BY <1>1, <2>1, FS_AddElement
  <2> QED
    BY <1>1, <1>2, <1>4, <2>2
<1> QED
  BY <1>3, <1>4

\* The holder goes on, or ends: no more tasks than before.
LEMMA HolderLimits ==
  ASSUME LimitInv, UNCHANGED <<waiting, media, creating, chats>>, IsFiniteSet(out'),
         Usage' <= Records, Shape(holder'), Bound(holder'.plan) => Usage' + 1 <= Records,
         \/ holder'.who = "nobody"
         \/ holder'.who = holder.who /\ (Recovering => Recovering')
  PROVE  LimitInv'
<1> DEFINE busy == Cardinality((waiting \cup {holder.who}) \ {"nobody"})
           then == Cardinality((waiting' \cup {holder'.who}) \ {"nobody"})
<1>1. /\ busy \in Nat /\ Cardinality(waiting) \in Nat /\ Cardinality(waiting) <= busy
      /\ holder.who \in {"resume", "start"} => busy = Cardinality(waiting) + 1
      /\ holder'.who = "nobody" => then = Cardinality(waiting)
  BY Busy DEF LimitInv, Shape
<1>2. /\ Active = busy - (IF Recovering THEN 1 ELSE 0) + media + creating
      /\ Active' = then - (IF Recovering' THEN 1 ELSE 0) + media + creating
  BY DEF Active, Workers
<1>3. media \in Nat /\ creating \in Nat /\ Tasks \in Nat
  BY CustodyAssumption DEF LimitInv
<1>4. Active' <= Tasks
  <2>1. CASE holder'.who = "nobody"
    <3>1. ~ Recovering' /\ (Recovering => holder.who \in {"resume", "start"})
      BY <2>1 DEF Recovering
    <3> HIDE DEF busy, then
    <3> QED
      BY <1>1, <1>2, <1>3, <2>1, <3>1 DEF LimitInv
  <2>2. CASE holder'.who = holder.who /\ (Recovering => Recovering')
    <3>1. then = busy
      BY <2>2
    <3> HIDE DEF busy, then
    <3> QED
      BY <1>1, <1>2, <1>3, <2>2, <3>1 DEF LimitInv
  <2> QED
    BY <2>1, <2>2
<1> QED
  BY <1>4 DEF LimitInv

----------------------------------------------------------------------------
(* The steps                                                               *)

TaskCount == <<waiting, media, creating, chats>>

\* A step that holds no other record, and does nothing to the holder's plan.
LEMMA RoomRests ==
  ASSUME LimitInv, InboxInv, UNCHANGED <<out, gap, mailbox, relay>>
  PROVE  /\ IsFiniteSet(out') /\ Usage' <= Records /\ Usage' = Usage
         /\ (Bound(holder.plan) => Usage' + 1 <= Records)
BY DEF LimitInv, Usage

LEMMA HolderStays ==
  ASSUME LimitInv, InboxInv, UNCHANGED <<out, gap, mailbox, relay, holder, TaskCount>>
  PROVE  LimitInv'
BY RoomRests, HolderLimits DEF LimitInv, Recovering, TaskCount

LEMMA HolderFree ==
  ASSUME LimitInv, InboxInv, UNCHANGED <<out, gap, mailbox, relay, TaskCount>>, holder' = Free
  PROVE  LimitInv'
BY RoomRests, HolderLimits, FreeShape DEF TaskCount

\* The next step of the same plan, or a part of it.
LEMMA HolderGoesOn ==
  ASSUME LimitInv, InboxInv, UNCHANGED <<out, gap, mailbox, relay, TaskCount>>,
         NEW plan, plan = holder.plan \/ (holder.plan # <<>> /\ plan = Tail(holder.plan)),
         Moved(holder', holder.who, plan), Recovering => Recovering'
  PROVE  LimitInv'
<1>1. Bound(plan) => Bound(holder.plan)
  BY PlanTail DEF LimitInv, Shape
<1> QED
  BY <1>1, RoomRests, HolderLimits DEF Moved, TaskCount

LEMMA NotRecovering ==
  ASSUME NEW step, step # "drain", Doing(step)
  PROVE  ~ Recovering
BY DEF Doing, Recovering

LEMMA SamePlan ==
  ASSUME Moved(holder', holder.who, holder.plan)
  PROVE  Recovering' = Recovering
BY DEF Moved, Recovering

LEMMA ReceiveLimits ==
  ASSUME LimitInv, InboxInv, InboxInv', NEW n \in Incoming, NEW ack, Accept(n, ack),
         Admitted("receive", 2), Active < Tasks, holder.who = "nobody",
         NEW plan \in {<<"drain", "retry", "due">>, <<"drain", "due">>},
         holder' = [Free EXCEPT !.who = "receive", !.plan = plan], UNCHANGED TaskCount
  PROVE  LimitInv'
<1>1. Moved(holder', "receive", plan) /\ ~ Bound(plan)
  BY Plans, FreshHolder DEF Names
<1>2. Usage + 2 <= Records /\ Usage \in Nat /\ Usage' <= Usage + 1 /\ IsFiniteSet(out')
  BY AdmittedRoom, AcceptAddsOne, UsageType
<1>3. Usage' \in Nat /\ Usage' <= Records
  BY <1>2, NextUsage, CustodyAssumption
<1>4. Active' <= Tasks
  <2> DEFINE busy == Cardinality((waiting \cup {"nobody"}) \ {"nobody"})
             then == Cardinality((waiting \cup {"receive"}) \ {"nobody"})
  <2>1. busy \in Nat /\ then \in Nat /\ then <= busy + 1
    BY Busy DEF LimitInv, Names
  <2>2. Active = busy - (IF Recovering THEN 1 ELSE 0) + media + creating /\ ~ Recovering
    BY DEF Active, Workers, Recovering
  <2>3. Active' = then - (IF Recovering' THEN 1 ELSE 0) + media + creating /\ ~ Recovering'
    BY <1>1 DEF Active, Workers, Recovering, TaskCount, Moved
  <2> HIDE DEF busy, then
  <2> QED
    BY <2>1, <2>2, <2>3, CustodyAssumption DEF LimitInv
<1> QED
  BY <1>1, <1>2, <1>3, <1>4 DEF LimitInv, Moved, TaskCount

LEMMA PrepareLimits ==
  ASSUME LimitInv, InboxInv, InboxInv', Prepare
  PROVE  LimitInv'
<1>1. UNCHANGED <<inbox, TaskCount>>
  BY DEF Prepare, work, Others, TaskCount
<1>2. Usage + 1 <= Records /\ ~ Recovering
  <2>1. holder.plan # <<>> /\ Head(holder.plan) \in {"own", "request"}
    BY DEF Prepare, Doing
  <2> QED
    BY <2>1, PlanTail, NotRecovering DEF LimitInv, Shape, Recovering
<1>3. CASE out' = out /\ holder' = Free
  BY <1>1, <1>3, HolderFree DEF inbox
<1>4. CASE out' = out \cup {prepared + 1} /\ (holder' = Free \/ Moved(holder', holder.who, <<>>))
  <2>1. IsFiniteSet(out') /\ Cardinality(out') <= Cardinality(out) + 1
        /\ Cardinality(out') \in Nat /\ Cardinality(out) \in Nat
    <3>1. Cardinality(out \cup {prepared + 1})
            = IF prepared + 1 \in out THEN Cardinality(out) ELSE Cardinality(out) + 1
      BY FS_AddElement DEF LimitInv
    <3>2. Cardinality(out) \in Nat /\ IsFiniteSet(out \cup {prepared + 1})
      BY FS_AddElement, FS_CardinalityType DEF LimitInv
    <3> QED
      BY <1>4, <3>1, <3>2
  <2>2. /\ Usage = Cardinality(out) + Cardinality(gap) + Len(mailbox) + Cardinality(relay)
        /\ Usage' = Cardinality(out') + Cardinality(gap) + Len(mailbox) + Cardinality(relay)
    BY <1>1 DEF Usage, inbox
  <2>3. Cardinality(gap) \in Nat /\ Len(mailbox) \in Nat /\ Cardinality(relay) \in Nat
    BY InboxFinite, FS_CardinalityType, LenProperties
  <2>4. Usage' <= Usage + 1 /\ Usage \in Nat /\ Usage' \in Nat
    BY <2>1, <2>2, <2>3
  <2>5. Usage' <= Records
    BY <1>2, <2>4, CustodyAssumption
  <2>6. Shape(holder') /\ ~ Bound(holder'.plan)
        /\ (holder'.who = "nobody" \/ holder'.who = holder.who)
    BY <1>4, FreeShape, Plans DEF Moved
  <2> QED
    BY <1>1, <1>2, <2>1, <2>5, <2>6, HolderLimits DEF TaskCount
<1>5. \A n : Moved([holder EXCEPT !.rpc = n, !.plan = <<>>], holder.who, <<>>)
  BY HolderMoves, Plans DEF LimitInv
<1> QED
  BY <1>3, <1>4, <1>5 DEF Prepare, EndPaused, outbox

LEMMA HolderStepLimits ==
  ASSUME LimitInv, InboxInv, InboxInv',
         \/ DrainOne \/ DrainEnds \/ StepPaused \/ RetryOne \/ RetryEnds \/ Due \/ Prepare
         \/ HolderEnds \/ Confirmed \/ Unconfirmed \/ Rejected
  PROVE  LimitInv'
<1>1. CASE DrainOne
  <2>1. UNCHANGED <<out, TaskCount, gap>> /\ (holder' = Free \/ UNCHANGED holder) /\ mailbox # <<>>
    BY <1>1 DEF DrainOne, Others, work, outbox, TaskCount
  <2>2. CASE UNCHANGED <<mailbox, relay>>
    BY <2>1, <2>2, HolderFree, HolderStays
  <2>3. CASE /\ mailbox' = Tail(mailbox)
             /\ relay' = relay \/ relay' = relay \cup {Head(mailbox)}
    <3>1. Len(mailbox') = Len(mailbox) - 1 /\ Len(mailbox) \in Nat /\ Len(mailbox') \in Nat
      <4>1. mailbox \in Seq(Nat) /\ IsInjective(mailbox)
        BY DEF InboxInv
      <4> QED
        BY <2>1, <2>3, <4>1, Popped, LenProperties
    <3>2. Cardinality(relay') <= Cardinality(relay) + 1
          /\ Cardinality(relay) \in Nat /\ Cardinality(relay') \in Nat
      <4>1. IsFiniteSet(relay) /\ Cardinality(relay) \in Nat
        BY InboxFinite, FS_CardinalityType
      <4>2. Cardinality(relay \cup {Head(mailbox)})
              = IF Head(mailbox) \in relay THEN Cardinality(relay) ELSE Cardinality(relay) + 1
        BY <4>1, FS_AddElement
      <4>3. relay' = relay \/ Cardinality(relay') = Cardinality(relay \cup {Head(mailbox)})
        BY <2>3
      <4> QED
        BY <4>1, <4>2, <4>3
    <3>3. Cardinality(out) \in Nat /\ Cardinality(gap) \in Nat
      BY InboxFinite, FS_CardinalityType DEF LimitInv
    <3>4. /\ Usage = Cardinality(out) + Cardinality(gap) + Len(mailbox) + Cardinality(relay)
          /\ Usage' = Cardinality(out) + Cardinality(gap) + Len(mailbox') + Cardinality(relay')
      BY <2>1 DEF Usage
    <3>5. Usage' <= Usage /\ Usage \in Nat /\ Usage' \in Nat
      BY <3>1, <3>2, <3>3, <3>4
    <3>6. Usage' <= Records /\ (Bound(holder.plan) => Usage' + 1 <= Records)
      <4>1. ASSUME NEW a \in Nat, NEW b \in Nat, NEW c \in Nat, a <= b
            PROVE  (b <= c => a <= c) /\ (b + 1 <= c => a + 1 <= c)
        BY <4>1
      <4>2. Records \in Nat
        BY CustodyAssumption
      <4> QED
        BY <3>5, <4>1, <4>2 DEF LimitInv
    <3>7. IsFiniteSet(out') /\ Shape(holder') /\ (Bound(holder'.plan) => Bound(holder.plan))
          /\ (holder'.who = "nobody" \/ (holder'.who = holder.who /\ (Recovering => Recovering')))
      BY <2>1, FreeShape DEF LimitInv, Recovering
    <3> QED
      BY <2>1, <3>6, <3>7, HolderLimits DEF TaskCount
  <2> QED
    BY <1>1, <2>2, <2>3 DEF DrainOne, Project
<1>3. CASE StepPaused \/ HolderEnds
  BY <1>3, HolderFree DEF StepPaused, HolderEnds, EndPaused, inbox, outbox, Others, work, TaskCount
<1>4. CASE RetryOne
  <2>1. UNCHANGED <<inbox, out, TaskCount>>
    BY <1>4 DEF RetryOne, outbox, Others, work, TaskCount
  <2>2. Moved(holder', holder.who, holder.plan)
    <3>1. PICK n, left : holder' = [holder EXCEPT !.rpc = n, !.left = left]
      BY <1>4 DEF RetryOne
    <3> QED
      BY <3>1, HolderMoves, Plans DEF LimitInv
  <2> QED
    BY <2>1, <2>2, HolderGoesOn, SamePlan DEF inbox
<1>5. CASE RetryEnds
  <2>1. UNCHANGED <<inbox, out, TaskCount>> /\ ~ Recovering /\ holder.plan # <<>>
    BY <1>5, NotRecovering DEF RetryEnds, outbox, Others, work, TaskCount, Doing
  <2>2. holder' = Free \/ Moved(holder', holder.who, Tail(holder.plan))
    BY <1>5, <2>1, HolderMoves, PlanTail DEF RetryEnds, LimitInv, Shape
  <2> QED
    BY <2>1, <2>2, HolderGoesOn, HolderFree DEF inbox
<1>6. CASE Due
  <2>1. UNCHANGED <<inbox, out, TaskCount>> /\ ~ Recovering
    BY <1>6, NotRecovering DEF Due, outbox, Others, work, TaskCount
  <2>2. CASE holder' = Free
    BY <2>1, <2>2, HolderFree DEF inbox
  <2>3. CASE due /\ holder' = [holder EXCEPT !.plan = <<"retry", "request">>, !.left = pending]
    <3>1. Moved(holder', holder.who, <<"retry", "request">>)
      BY <2>3, HolderMoves, Plans DEF LimitInv
    <3>2. Usage + 2 <= Records
      BY <1>6, <2>3, AdmittedRoom DEF Due
    <3>3. Usage' = Usage /\ Usage \in Nat /\ IsFiniteSet(out') /\ Usage' <= Records
      BY <2>1, UsageType, RoomRests DEF inbox
    <3>4. Usage' + 1 <= Records
      BY <3>2, <3>3, CustodyAssumption
    <3> QED
      BY <2>1, <3>1, <3>3, <3>4, HolderLimits DEF Moved, TaskCount
  <2> QED
    BY <1>6, <2>2, <2>3 DEF Due
<1>7. CASE Confirmed
  <2>1. UNCHANGED <<inbox, out, TaskCount>>
    BY <1>7 DEF Confirmed, outbox, Others, work, TaskCount
  <2>2. holder' = Free \/ Moved(holder', holder.who, holder.plan)
    BY <1>7, HolderMoves, Plans DEF Confirmed, EndPaused, Answered, LimitInv
  <2> QED
    BY <2>1, <2>2, HolderGoesOn, HolderFree, SamePlan DEF inbox
<1>8. CASE Unconfirmed \/ Rejected
  <2>1. UNCHANGED <<inbox, out, TaskCount>>
    BY <1>8 DEF Unconfirmed, Rejected, outbox, Others, work, TaskCount
  <2>2. holder' = Free \/ Moved(holder', holder.who, holder.plan)
    <3>1. Moved([holder EXCEPT !.rpc = 0, !.bad = TRUE], holder.who, holder.plan)
      BY DEF LimitInv, Moved, Shape
    <3> QED
      BY <1>8, <3>1 DEF Unconfirmed, Rejected
  <2> QED
    BY <2>1, <2>2, HolderGoesOn, HolderFree, SamePlan DEF inbox
<1>9. CASE DrainEnds
  <2>1. /\ UNCHANGED <<inbox, out, TaskCount>>
        /\ Doing("drain") /\ holder.plan # <<>> /\ (Recovering => Active < Tasks)
    BY <1>9 DEF DrainEnds, outbox, Others, work, TaskCount, Doing
  <2>2. Moved(holder', holder.who, Tail(holder.plan))
    BY <1>9, <2>1, HolderMoves, PlanTail DEF DrainEnds, Proceed, LimitInv, Shape
  <2>3. /\ IsFiniteSet(out') /\ Usage' <= Records /\ Shape(holder')
        /\ Bound(holder'.plan) => Usage' + 1 <= Records
    BY <2>1, <2>2, RoomRests, PlanTail DEF Moved, LimitInv, Shape, inbox
  <2>4. Active' <= Tasks
    <3> DEFINE busy == Cardinality((waiting \cup {holder.who}) \ {"nobody"})
    <3>1. busy \in Nat /\ media \in Nat /\ creating \in Nat /\ Tasks \in Nat
      BY Busy, CustodyAssumption DEF LimitInv, Shape
    <3>2. /\ Active = busy - (IF Recovering THEN 1 ELSE 0) + media + creating
          /\ Active' = busy - (IF Recovering' THEN 1 ELSE 0) + media + creating
      BY <2>1, <2>2 DEF Active, Workers, Moved, TaskCount
    <3> HIDE DEF busy
    <3> QED
      BY <2>1, <3>1, <3>2 DEF LimitInv
  <2> QED
    BY <2>1, <2>3, <2>4 DEF LimitInv, TaskCount
<1>10. CASE Prepare
  BY <1>10, PrepareLimits
<1> QED
  BY <1>1, <1>3, <1>4, <1>5, <1>6, <1>7, <1>8, <1>9, <1>10

\* What the limits say of a step that leaves the records alone.
LEMMA LimitsBy ==
  ASSUME LimitInv, InboxInv, UNCHANGED <<out, gap, mailbox, relay>>,
         Shape(holder'), Bound(holder'.plan) => Usage + 1 <= Records,
         waiting' \subseteq Senders, media' \in Nat, creating' \in Nat, chats' \in Nat,
         Active' <= Tasks, chats' + creating' <= ChatSlots
  PROVE  LimitInv'
<1>1. IsFiniteSet(out') /\ Usage' <= Records /\ Usage' = Usage
  BY RoomRests
<1> QED
  BY <1>1 DEF LimitInv

LEMMA SendLimits ==
  ASSUME LimitInv, InboxInv, NEW s \in Senders, BeginSend(s) \/ LockSend(s) \/ SendExpires(s)
  PROVE  LimitInv'
<1> DEFINE busy == Cardinality((waiting \cup {holder.who}) \ {"nobody"})
           then == Cardinality((waiting' \cup {holder'.who}) \ {"nobody"})
<1>1. UNCHANGED <<out, gap, mailbox, relay, media, creating, chats>>
  BY DEF BeginSend, LockSend, SendExpires, inbox, outbox
<1>2. /\ Active = busy - (IF Recovering THEN 1 ELSE 0) + media + creating
      /\ Active' = then - (IF Recovering' THEN 1 ELSE 0) + media + creating
  BY <1>1 DEF Active, Workers
<1>3. /\ media \in Nat /\ creating \in Nat /\ Tasks \in Nat /\ busy \in Nat /\ Active <= Tasks
      /\ waiting \subseteq Senders /\ holder.who \in Names
      /\ Cardinality(waiting) \in Nat /\ Cardinality(waiting) <= busy
      /\ busy <= Cardinality(waiting) + 1
      /\ holder.who \in {"receive", "resume", "start"} => busy = Cardinality(waiting) + 1
  BY Busy, CustodyAssumption DEF LimitInv, Shape
<1>4. CASE UNCHANGED <<waiting, holder>>
  BY <1>1, <1>4, HolderStays DEF TaskCount
<1>5. CASE BeginSend(s) /\ waiting' = waiting \cup {s} /\ Active < Tasks
  <2>1. UNCHANGED holder /\ Recovering' = Recovering
    BY <1>5 DEF BeginSend, Recovering
  <2>2. then \in Nat /\ then <= busy + 1
    <3>1. IsFiniteSet(waiting) /\ waiting' \subseteq Senders
      BY <1>3, <1>5, CustodyAssumption, FS_Subset
    <3>2. IsFiniteSet((waiting \cup {holder.who}) \ {"nobody"})
      BY <3>1, FS_AddElement, FS_RemoveElement
    <3>3. (waiting' \cup {holder'.who}) \ {"nobody"}
            = ((waiting \cup {holder.who}) \ {"nobody"}) \cup {s}
      BY <1>5, <2>1, CustodyAssumption
    <3>4. then = IF s \in (waiting \cup {holder.who}) \ {"nobody"} THEN busy ELSE busy + 1
      <4>1. \A S : IsFiniteSet(S) => Cardinality(S \cup {s})
                     = IF s \in S THEN Cardinality(S) ELSE Cardinality(S) + 1
        BY FS_AddElement
      <4> QED
        BY <3>2, <3>3, <4>1
    <3> HIDE DEF busy, then
    <3> QED
      BY <1>3, <3>4
  <2>3. Active' <= Tasks
    <3>1. Active < Tasks
      BY <1>5
    <3> HIDE DEF busy, then
    <3> QED
      BY <1>2, <1>3, <2>1, <2>2, <3>1
  <2> QED
    BY <1>1, <1>3, <1>5, <2>1, <2>3, LimitsBy DEF LimitInv
<1>6. CASE waiting' = waiting \ {s} /\ UNCHANGED holder
  <2>1. Recovering' = Recovering /\ waiting' \subseteq Senders
    BY <1>3, <1>6 DEF Recovering
  <2>2. then <= busy /\ then \in Nat
    <3>1. IsFiniteSet((waiting \cup {holder.who}) \ {"nobody"})
      BY <1>3, CustodyAssumption, FS_Subset, FS_AddElement, FS_RemoveElement
    <3>2. (waiting' \cup {holder'.who}) \ {"nobody"} \subseteq (waiting \cup {holder.who}) \ {"nobody"}
      BY <1>6
    <3> QED
      BY <3>1, <3>2, FS_Subset, FS_CardinalityType
  <2>3. Active' <= Tasks
    <3> HIDE DEF busy, then
    <3> QED
      BY <1>2, <1>3, <2>1, <2>2
  <2> QED
    BY <1>1, <1>3, <1>6, <2>1, <2>3, LimitsBy DEF LimitInv
<1>7. CASE /\ LockSend(s) /\ Admitted(s, 2)
           /\ holder' = [Free EXCEPT !.who = s, !.plan = <<"retry", "own">>, !.left = pending]
  <2>1. Moved(holder', s, <<"retry", "own">>)
    BY <1>7, FreshHolder, Plans DEF Names
  <2>2. holder.who = "nobody" /\ s \in waiting /\ waiting' = waiting \ {s}
    BY <1>7 DEF LockSend
  <2>3. ~ Recovering /\ ~ Recovering'
    BY <2>1, <2>2, CustodyAssumption DEF Recovering, Moved
  <2>4. then = busy
    <3>1. (waiting' \cup {holder'.who}) \ {"nobody"} = (waiting \cup {holder.who}) \ {"nobody"}
      BY <2>1, <2>2, CustodyAssumption DEF Moved
    <3> QED
      BY <3>1
  <2>5. Active' <= Tasks
    <3> HIDE DEF busy, then
    <3> QED
      BY <1>2, <1>3, <2>3, <2>4
  <2>6. Usage + 1 <= Records
    <3>1. Usage + 2 <= Records /\ Usage \in Nat /\ Records \in Nat
      BY <1>7, AdmittedRoom, UsageType, CustodyAssumption
    <3> QED
      BY <3>1
  <2> QED
    BY <1>1, <1>3, <2>1, <2>2, <2>5, <2>6, LimitsBy DEF LimitInv, Moved
<1> QED
  BY <1>4, <1>5, <1>6, <1>7 DEF BeginSend, LockSend, SendExpires

LEMMA SlotLimits ==
  ASSUME LimitInv, InboxInv, BeginMedia \/ EndMedia \/ Slots
  PROVE  LimitInv'
<1> DEFINE busy == Cardinality((waiting \cup {holder.who}) \ {"nobody"}) - (IF Recovering THEN 1 ELSE 0)
<1>1. UNCHANGED <<out, gap, mailbox, relay, waiting, holder>>
  BY DEF BeginMedia, EndMedia, Slots, inbox, outbox
<1>2. Active = busy + media + creating /\ Active' = busy + media' + creating'
  BY <1>1 DEF Active, Workers, Recovering
<1>3. /\ busy \in Int /\ Tasks \in Nat /\ media \in Nat /\ creating \in Nat /\ chats \in Nat
      /\ ChatSlots \in Nat
  <2>1. Cardinality((waiting \cup {holder.who}) \ {"nobody"}) \in Nat
    BY Busy DEF LimitInv, Shape
  <2> QED
    BY <2>1, CustodyAssumption DEF LimitInv
<1> HIDE DEF busy
<1>4. /\ Active <= Tasks /\ chats + creating <= ChatSlots
      /\ waiting' \subseteq Senders /\ Shape(holder')
      /\ (Bound(holder'.plan) => Usage + 1 <= Records)
  BY <1>1 DEF LimitInv
<1>5. /\ media' \in Nat /\ creating' \in Nat /\ chats' \in Nat
      /\ Active' <= Tasks /\ chats' + creating' <= ChatSlots
  <2>1. CASE BeginMedia
    BY <1>2, <1>3, <1>4, <2>1 DEF BeginMedia
  <2>2. CASE EndMedia
    BY <1>2, <1>3, <1>4, <2>2 DEF EndMedia
  <2>3. CASE Slots /\ BeginCreate /\ UNCHANGED chats
    BY <1>2, <1>3, <1>4, <2>3 DEF Slots, BeginCreate
  <2>4. CASE Slots /\ EndCreate
    BY <1>2, <1>3, <1>4, <2>4 DEF Slots, EndCreate
  <2>5. CASE Slots /\ Requested /\ UNCHANGED creating
    BY <1>2, <1>3, <1>4, <2>5 DEF Slots, Requested
  <2> QED
    BY <2>1, <2>2, <2>3, <2>4, <2>5 DEF Slots
<1> QED
  BY <1>1, <1>4, <1>5, LimitsBy

LEMMA RestartLimits ==
  ASSUME LimitInv, InboxInv, Restart
  PROVE  LimitInv'
<1>1. /\ UNCHANGED <<out, gap, mailbox, relay, chats>>
      /\ waiting' = {} /\ media' = 0 /\ creating' = 0
  BY DEF Restart, inbox, outbox
<1>2. \/ holder' = Free
      \/ Moved(holder', "start", <<"drain", "retry", "due">>)
  BY FreshHolder, Plans DEF Restart, Names
<1>3. Shape(holder') /\ ~ Bound(holder'.plan)
  BY <1>2, FreeShape, Plans DEF Moved
<1>4. Active' <= Tasks
  <2> DEFINE then == Cardinality((waiting' \cup {holder'.who}) \ {"nobody"})
  <2>1. Active' = then - (IF Recovering' THEN 1 ELSE 0) + 0 + 0
    BY <1>1 DEF Active, Workers
  <2>2. then = 0 \/ (then = 1 /\ Recovering')
    <3>1. CASE holder' = Free
      <4>1. (waiting' \cup {holder'.who}) \ {"nobody"} = {}
        BY <1>1, <3>1, FreeShape
      <4> QED
        BY <4>1, FS_EmptySet
    <3>2. CASE Moved(holder', "start", <<"drain", "retry", "due">>)
      <4>1. (waiting' \cup {holder'.who}) \ {"nobody"} = {"start"}
        BY <1>1, <3>2 DEF Moved
      <4>2. Recovering'
        BY <3>2 DEF Moved, Recovering
      <4> QED
        BY <4>1, <4>2, FS_Singleton
    <3> QED
      BY <1>2, <3>1, <3>2
  <2> HIDE DEF then
  <2> QED
    BY <2>1, <2>2, CustodyAssumption
<1>5. chats' + creating' <= ChatSlots /\ chats' \in Nat
  BY <1>1, CustodyAssumption DEF LimitInv
<1> QED
  BY <1>1, <1>3, <1>4, <1>5, LimitsBy

LEMMA LimitsInit == CustodyInit => LimitInv
<1> SUFFICES ASSUME CustodyInit PROVE LimitInv
  OBVIOUS
<1>1. /\ gap = {} /\ mailbox = <<>> /\ relay = {} /\ out = {}
      /\ waiting = {} /\ holder = Free /\ media = 0 /\ creating = 0 /\ chats = 1
  BY DEF CustodyInit
<1>2. Usage = 0
  <2>1. Len(mailbox) = 0
    BY <1>1
  <2> QED
    BY <1>1, <2>1, FS_EmptySet DEF Usage
<1>3. Active = 0
  <2>1. Workers \ {"nobody"} = {} /\ ~ Recovering
    BY <1>1, FreeShape DEF Workers, Recovering
  <2> QED
    BY <1>1, <2>1, FS_EmptySet DEF Active
<1>4. IsFiniteSet(out)
  BY <1>1, FS_EmptySet
<1> QED
  BY <1>1, <1>2, <1>3, <1>4, FreeShape, CustodyAssumption DEF LimitInv

LEMMA LimitsNext == LimitInv /\ InboxInv /\ InboxInv' /\ [CustodyNext]_custodyVars => LimitInv'
<1> SUFFICES ASSUME LimitInv, InboxInv, InboxInv', [CustodyNext]_custodyVars PROVE LimitInv'
  OBVIOUS
<1>1. CASE UNCHANGED custodyVars
  BY <1>1, HolderStays DEF custodyVars, inbox, outbox, work, TaskCount
<1>2. ASSUME NEW n \in Incoming, Arrive(n) \/ Receive(n) \/ Acknowledge(n) PROVE LimitInv'
  <2>1. CASE Arrive(n) \/ (Receive(n) /\ UNCHANGED <<inbox, outbox, holder>>)
    BY <2>1, HolderStays DEF Arrive, Receive, inbox, outbox, TaskCount
  <2>2. CASE /\ Receive(n) /\ Admitted("receive", 2) /\ Active < Tasks
             /\ \E ack \in {0} \cup Issued : Accept(n, ack)
             /\ holder' = [Free EXCEPT !.who = "receive",
                             !.plan = IF kind[n] = "request" THEN <<"drain", "retry", "due">>
                                      ELSE <<"drain", "due">>]
    <3>1. holder.who = "nobody" /\ UNCHANGED TaskCount
      BY <2>2 DEF Receive, TaskCount
    <3>2. PICK plan \in {<<"drain", "retry", "due">>, <<"drain", "due">>} :
            holder' = [Free EXCEPT !.who = "receive", !.plan = plan]
      BY <2>2
    <3> QED
      BY <2>2, <3>1, <3>2, ReceiveLimits
  <2>3. CASE Acknowledge(n)
    <3>1. relay' = relay \ {n} /\ UNCHANGED <<out, gap, mailbox, holder, TaskCount>>
      BY <2>3 DEF Acknowledge, outbox, Others, work, TaskCount
    <3>2. /\ IsFiniteSet(relay) /\ Cardinality(relay') <= Cardinality(relay)
          /\ Cardinality(relay) \in Nat /\ Cardinality(relay') \in Nat
      BY <3>1, InboxFinite, FS_Subset, FS_CardinalityType
    <3>3. Cardinality(out) \in Nat /\ Cardinality(gap) \in Nat /\ Len(mailbox) \in Nat
      BY InboxFinite, FS_CardinalityType, LenProperties DEF LimitInv
    <3>4. /\ Usage = Cardinality(out) + Cardinality(gap) + Len(mailbox) + Cardinality(relay)
          /\ Usage' = Cardinality(out) + Cardinality(gap) + Len(mailbox) + Cardinality(relay')
      BY <3>1 DEF Usage
    <3>5. Usage' <= Usage /\ Usage \in Nat /\ Usage' \in Nat
      BY <3>2, <3>3, <3>4
    <3>6. Usage' <= Records /\ (Bound(holder.plan) => Usage' + 1 <= Records)
      <4>1. ASSUME NEW a \in Nat, NEW b \in Nat, NEW c \in Nat, a <= b
            PROVE  (b <= c => a <= c) /\ (b + 1 <= c => a + 1 <= c)
        BY <4>1
      <4>2. Records \in Nat
        BY CustodyAssumption
      <4> QED
        BY <3>5, <4>1, <4>2 DEF LimitInv
    <3>7. IsFiniteSet(out') /\ Shape(holder') /\ Recovering' = Recovering
      BY <3>1 DEF LimitInv, Recovering
    <3> QED
      BY <3>1, <3>6, <3>7, HolderLimits DEF TaskCount
  <2> QED
    BY <1>2, <2>1, <2>2, <2>3 DEF Receive
<1>3. ASSUME NEW s \in Senders, BeginSend(s) \/ LockSend(s) \/ SendExpires(s) PROVE LimitInv'
  BY <1>3, SendLimits
<1>4. CASE Resume
  <2>1. Moved(holder', "resume", <<"drain", "retry", "due">>) /\ holder.who = "nobody"
    BY <1>4, FreshHolder, Plans DEF Resume, Names
  <2>2. UNCHANGED <<out, gap, mailbox, relay, TaskCount>>
    BY <1>4 DEF Resume, inbox, outbox, work, TaskCount
  <2>3. Active' <= Tasks
    <3> DEFINE busy == Cardinality((waiting \cup {"nobody"}) \ {"nobody"})
               then == Cardinality((waiting \cup {"resume"}) \ {"nobody"})
    <3>1. busy \in Nat /\ then = busy + 1
      BY Busy DEF LimitInv, Names
    <3>2. Active = busy - (IF Recovering THEN 1 ELSE 0) + media + creating /\ ~ Recovering
      BY <2>1 DEF Active, Workers, Recovering
    <3>3. Active' = then - (IF Recovering' THEN 1 ELSE 0) + media + creating /\ Recovering'
      BY <2>1, <2>2 DEF Active, Workers, Recovering, TaskCount, Moved
    <3> HIDE DEF busy, then
    <3> QED
      BY <3>1, <3>2, <3>3, CustodyAssumption DEF LimitInv
  <2> QED
    BY <2>1, <2>2, <2>3, Plans, LimitsBy DEF LimitInv, Moved, TaskCount
<1>5. CASE \/ DrainOne \/ DrainEnds \/ StepPaused \/ RetryOne \/ RetryEnds \/ Due \/ Prepare
           \/ HolderEnds \/ Confirmed \/ Unconfirmed \/ Rejected
  BY <1>5, HolderStepLimits
<1>6. CASE AgePause \/ Tick \/ \E lost \in BOOLEAN : OperatorPause(lost)
  BY <1>6, HolderStays DEF AgePause, Tick, OperatorPause, inbox, outbox, work, TaskCount
<1>7. CASE BeginMedia \/ EndMedia \/ Slots
  BY <1>7, SlotLimits
<1>8. CASE Restart
  BY <1>8, RestartLimits
<1> QED
  BY <1>1, <1>2, <1>3, <1>4, <1>5, <1>6, <1>7, <1>8 DEF CustodyNext, CustodyStep

(* The records held, the tasks at work and the chats, reserved ones included, stay     *)
(* within limits.records, limits.tasks and limits.chats, although an admission and the *)
(* commit it is for are apart and a pause between them lifts the commit's own check.   *)
THEOREM LimitsHold == CustodySpec => []WithinLimits
<1>1. InboxInv /\ LimitInv /\ [CustodyNext]_custodyVars => InboxInv' /\ LimitInv'
  BY InboxNext, LimitsNext
<1>2. LimitInv => WithinLimits
  BY DEF LimitInv, WithinLimits
<1> QED
  BY <1>1, <1>2, InboxInit, LimitsInit, PTL DEF CustodySpec

============================================================================
