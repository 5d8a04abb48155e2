--------------------------- MODULE RuntimeProofs ---------------------------
(***************************************************************************)
(* Proofs about the runtime: ingress, start and stop, auto-save.           *)
(*                                                                         *)
(* Ingress: the ledger stays one that opens again, and the server never    *)
(* forgets what the store does not hold. Both rest on one inductive        *)
(* invariant: the batches are a chain from some earlier checkpoint to the  *)
(* present one, what is before the chain is applied, and the server has    *)
(* forgotten nothing behind the checkpoint.                                *)
(*                                                                         *)
(* Lifecycle: the stored record is always that of the chat that is         *)
(* installed, and a finished shutdown leaves no handler running on         *)
(* undisturbed.                                                            *)
(*                                                                         *)
(* AutoSave: as long as no line of a chat's record is cut short, a file is *)
(* readable through the record or its download is owed.                    *)
(***************************************************************************)
EXTENDS Lifecycle, Ingress, AutoSave, WellFoundedInduction, SequenceTheorems, TLAPS

----------------------------------------------------------------------------
(* The durable ledger                                                      *)

Numbers == 0 .. Len(stream)
Box == [qts : Numbers, buffer : SUBSET Updates]
Batch == [before : Box, after : Box]

\* What the MessageBox and the ledger are made of.
LedgerTypes ==
  /\ stream \in Streams /\ Len(stream) \in Nat
  /\ deleted \in Nat
  /\ box \in Box /\ checkpoint = box
  /\ batches \in Seq(Batch)
  /\ answer = NoAnswer \/ (answer.upTo \in Numbers /\ answer.qts <= answer.upTo)

\* The batches follow each other up to the checkpoint, within the limit.
Chained ==
  /\ \A i \in 1 .. Len(batches) - 1 : batches[i].after.qts = batches[i + 1].before.qts
  /\ batches # <<>> => batches[Len(batches)].after.qts = checkpoint.qts
  /\ Len(batches) <= MaxBatches

\* Everything up to the checkpoint is in the ledger or done with.
Held ==
  /\ deleted <= checkpoint.qts
  /\ \A n \in 1 .. checkpoint.qts : n \in Captured \/ n \in applied
  /\ \A n \in applied : stream[n].kind = "message" => n \in counted

LedgerInv == LedgerTypes /\ Chained /\ Held

----------------------------------------------------------------------------
(* The least number of a set, and the two choices the model makes with it  *)

LEMMA LeastNumber ==
  ASSUME NEW T, T \subseteq Nat, T # {}
  PROVE  \E x \in T : \A y \in T : x <= y
<1> DEFINE R == {s \in Nat \X Nat : s[1] < s[2]}
<1>1. IsWellFoundedOn(R, Nat)
  BY NatLessThanWellFounded DEF OpToRel
<1>2. PICK x \in T : \A y \in T : ~ (<<y, x>> \in R)
  <2> HIDE DEF R
  <2> QED BY <1>1, WFMin
<1>3. ASSUME NEW y \in T PROVE x <= y
  <2>1. ~ (y < x)
    BY <1>2 DEF R
  <2> QED
    BY <2>1
<1> QED
  BY <1>3

\* Where the box stands after an update: further on, within the queue.
LEMMA ProcessType ==
  ASSUME Len(stream) \in Nat, NEW b \in Box, NEW n \in Updates
  PROVE  /\ process_updates(b, n) \in Box
         /\ b.qts <= process_updates(b, n).qts
<1> DEFINE K == n .. Len(stream)
<1> DEFINE P(k) == (n + 1) .. k \subseteq b.buffer /\ k + 1 \notin b.buffer
<1> DEFINE T == {k \in K : k + 1 \notin b.buffer}
<1>1. b.qts \in Numbers /\ b.buffer \subseteq Updates /\ n \in Nat /\ n <= Len(stream)
  BY DEF Box, Updates
<1>2. Len(stream) \in T
  BY <1>1 DEF Updates
<1>3. PICK x \in T : \A y \in T : x <= y
  <2>1. T \subseteq Nat /\ T # {}
    BY <1>1, <1>2
  <2> QED
    BY <2>1, LeastNumber
<1>4. x \in K /\ P(x)
  <2>1. ASSUME NEW m \in (n + 1) .. x PROVE m \in b.buffer
    <3>1. m - 1 \in K /\ ~ (x <= m - 1)
      BY <1>1, <1>3
    <3>2. m - 1 \notin T
      BY <1>3, <3>1
    <3> QED
      BY <1>1, <3>1, <3>2
  <2> QED
    BY <1>3, <2>1
<1> DEFINE r == CHOOSE k \in K : P(k)
<1>5. r \in K
  <2> HIDE DEF P, K
  <2> QED BY <1>4
<1>6. process_updates(b, n) =
        IF n = b.qts + 1 THEN [qts |-> r, buffer |-> {m \in b.buffer : m > r}]
        ELSE IF n > b.qts THEN [b EXCEPT !.buffer = @ \cup {n}]
        ELSE b
  BY DEF process_updates
<1> HIDE DEF r, P, T
<1>7. CASE n = b.qts + 1
  BY <1>1, <1>5, <1>6, <1>7 DEF Box, Numbers
<1>8. CASE n # b.qts + 1
  BY <1>1, <1>6, <1>8 DEF Box, Numbers
<1> QED
  BY <1>7, <1>8

\* How many finished batches are at the front of the ledger.
LEMMA FinishedFront ==
  ASSUME batches \in Seq(Batch)
  PROVE  \E k \in 0 .. Len(batches) :
           /\ \A i \in 1 .. k : Complete(batches[i])
           /\ Finished = SubSeq(batches, k + 1, Len(batches))
<1> DEFINE L == Len(batches)
<1> DEFINE C(i) == Complete(batches[i])
<1> DEFINE P(k) == /\ \A i \in 1 .. k : C(i)
                   /\ k < L => ~ C(k + 1)
<1> DEFINE T == {k \in 0 .. L : k < L => ~ C(k + 1)}
<1>1. L \in Nat
  OBVIOUS
<1> HIDE DEF L, C
<1>2. PICK x \in T : \A y \in T : x <= y
  <2>1. T \subseteq Nat /\ L \in T
    BY <1>1
  <2> QED
    BY <2>1, LeastNumber
<1>3. x \in 0 .. L /\ P(x)
  <2>1. ASSUME NEW i \in 1 .. x PROVE C(i)
    <3>1. i - 1 \in 0 .. L /\ i - 1 < L /\ ~ (x <= i - 1) /\ (i - 1) + 1 = i
      BY <1>1, <1>2
    <3>2. i - 1 \notin T
      BY <1>2, <3>1
    <3> QED
      BY <3>1, <3>2
  <2> QED
    BY <1>2, <2>1
<1> DEFINE k == CHOOSE y \in 0 .. L : P(y)
<1>4. k \in 0 .. L /\ P(k)
  <2> HIDE DEF P
  <2> QED BY <1>3
<1>5. Finished = SubSeq(batches, k + 1, L)
  BY DEF Finished, L, C
<1> QED
  BY <1>4, <1>5 DEF L, C

\* An update is captured if some batch reaches over it.
Over(b, n) == b.before.qts < n /\ n <= b.after.qts

LEMMA CapturedBy ==
  /\ \A n : n \in Captured <=> n \in Updates /\ \E i \in DOMAIN batches : Over(batches[i], n)
  /\ \A n : n \in Captured' <=>
               n \in Updates' /\ \E i \in DOMAIN batches' : Over(batches'[i], n)
BY DEF Captured, Members, Over

----------------------------------------------------------------------------
(* The steps *)

\* A step that touches neither the ledger nor what the server holds.
LEMMA AsideKeeps ==
  ASSUME LedgerInv, UNCHANGED <<stream, deleted, box, store>>,
         answer' = answer \/ answer' = NoAnswer
  PROVE  LedgerInv'
<1>1. UNCHANGED <<Updates, Captured, NoAnswer, Numbers>>
  BY DEF store, Updates, Captured, Members, NoAnswer, Numbers
<1>2. LedgerTypes'
  <2>1. Box' = Box /\ Batch' = Batch
    BY <1>1 DEF Box, Batch
  <2> QED
    BY <1>1, <2>1 DEF LedgerInv, LedgerTypes, store
<1>3. Chained' /\ Held'
  BY <1>1 DEF LedgerInv, Chained, Held, store
<1> QED
  BY <1>2, <1>3 DEF LedgerInv

\* A step of the pass, or of the operator, that pauses or resumes a chat at most.
LEMMA HaltedKeeps ==
  ASSUME LedgerInv, UNCHANGED <<stream, deleted, box, checkpoint, batches, applied, counted, answer>>
  PROVE  LedgerInv'
<1>1. UNCHANGED <<Updates, Captured, NoAnswer, Numbers>>
  BY DEF Updates, Captured, Members, NoAnswer, Numbers
<1>2. Box' = Box /\ Batch' = Batch
  BY <1>1 DEF Box, Batch
<1> QED
  BY <1>1, <1>2 DEF LedgerInv, LedgerTypes, Chained, Held

\* One commit stores a batch and moves the checkpoint to its end.
LEMMA CaptureKeeps ==
  ASSUME LedgerInv, UNCHANGED <<stream, deleted>>, NEW after \in Box, box.qts <= after.qts,
         Capture(after), answer' = answer \/ answer' = NoAnswer
  PROVE  LedgerInv'
<1> DEFINE new == [before |-> box, after |-> after]
<1>1. \/ UNCHANGED <<box, store>>
      \/ capture(after) /\ Len(batches) < MaxBatches
  BY DEF Capture, Uncertain
<1>2. CASE UNCHANGED <<box, store>>
  BY <1>2, AsideKeeps
<1>3. CASE capture(after) /\ Len(batches) < MaxBatches
  <2>1. /\ batches' = Append(batches, new) /\ checkpoint' = after /\ box' = after
        /\ UNCHANGED <<applied, counted>>
    BY <1>3 DEF capture
  <2>2. /\ new \in Batch /\ new.after = after /\ new.before = box
        /\ batches \in Seq(Batch) /\ checkpoint = box
    BY DEF Batch, LedgerInv, LedgerTypes
  <2>3. UNCHANGED <<Updates, NoAnswer, Numbers>>
    BY DEF Updates, NoAnswer, Numbers
  <2>4. Box' = Box /\ Batch' = Batch
    BY <2>3 DEF Box, Batch
  <2> HIDE DEF new
  <2>5. /\ Len(batches') = Len(batches) + 1 /\ Len(batches) \in Nat
        /\ \A i \in 1 .. Len(batches) : batches'[i] = batches[i]
        /\ batches'[Len(batches) + 1] = new /\ batches' \in Seq(Batch)
        /\ DOMAIN batches' = 1 .. (Len(batches) + 1) /\ DOMAIN batches = 1 .. Len(batches)
        /\ batches' # <<>> /\ (batches = <<>> <=> Len(batches) = 0)
    <3>1. /\ Len(batches') = Len(batches) + 1 /\ Len(batches) \in Nat
          /\ \A i \in 1 .. Len(batches) : batches'[i] = batches[i]
          /\ batches'[Len(batches) + 1] = new /\ batches' \in Seq(Batch)
      BY <2>1, <2>2
    <3>2. DOMAIN batches' = 1 .. (Len(batches) + 1) /\ DOMAIN batches = 1 .. Len(batches)
      BY <2>2, <3>1
    <3>3. batches' # <<>> /\ (batches = <<>> <=> Len(batches) = 0)
      BY <2>2, <3>1
    <3> QED
      BY <3>1, <3>2, <3>3
  <2>6. /\ box.qts \in Nat /\ after.qts \in Nat /\ Len(stream) \in Nat /\ after.qts <= Len(stream)
        /\ deleted \in Nat
    BY DEF LedgerInv, LedgerTypes, Box, Numbers
  <2>7. LedgerTypes'
    BY <2>1, <2>3, <2>4, <2>5 DEF LedgerInv, LedgerTypes
  <2>8. Chained'
    <3>1. Len(batches') <= MaxBatches
      BY <1>3, <2>5, IngressAssumption
    <3>2. batches'[Len(batches')].after.qts = checkpoint'.qts
      BY <2>1, <2>2, <2>5
    <3>3. ASSUME NEW i \in 1 .. Len(batches') - 1
          PROVE  batches'[i].after.qts = batches'[i + 1].before.qts
      <4>1. CASE i = Len(batches)
        BY <2>2, <2>5, <4>1 DEF LedgerInv, Chained
      <4>2. CASE i # Len(batches)
        <5>1. Len(batches') - 1 = Len(batches) /\ Len(batches) \in Nat
          BY <2>5
        <5>2. i \in 1 .. Len(batches) /\ i # Len(batches)
          BY <4>2, <5>1
        <5>3. i \in 1 .. Len(batches) - 1 /\ i + 1 \in 1 .. Len(batches)
          BY <5>1, <5>2
        <5> QED
          BY <2>5, <5>2, <5>3 DEF LedgerInv, Chained
      <4> QED
        BY <4>1, <4>2
    <3> QED
      BY <3>1, <3>2, <3>3 DEF Chained
  <2>9. Held'
    <3>1. Captured \subseteq Captured'
      BY <2>3, <2>5, CapturedBy
    <3>2. \A n \in Updates : box.qts < n /\ n <= after.qts => n \in Captured'
      <4>1. Len(batches) + 1 \in DOMAIN batches'
        BY <2>5
      <4>2. \A n : Over(new, n) <=> box.qts < n /\ n <= after.qts
        BY <2>2 DEF Over
      <4> QED
        BY <2>3, <2>5, <4>1, <4>2, CapturedBy
    <3>3. ASSUME NEW n \in 1 .. checkpoint'.qts PROVE n \in Captured' \/ n \in applied'
      <4>1. CASE n \in 1 .. checkpoint.qts
        BY <2>1, <3>1, <4>1 DEF LedgerInv, Held
      <4>2. CASE n \notin 1 .. checkpoint.qts
        <5>1. n \in Updates /\ box.qts < n /\ n <= after.qts
          BY <2>1, <2>2, <2>6, <4>2 DEF Updates
        <5> QED
          BY <3>2, <5>1
      <4> QED
        BY <4>1, <4>2
    <3>4. deleted' <= checkpoint'.qts
      BY <2>1, <2>2, <2>6 DEF LedgerInv, Held
    <3> QED
      BY <2>1, <3>3, <3>4 DEF LedgerInv, Held
  <2> QED
    BY <2>7, <2>8, <2>9 DEF LedgerInv
<1> QED
  BY <1>1, <1>2, <1>3

\* What a request acknowledges is behind the checkpoint.
LEMMA AcknowledgingKeeps ==
  ASSUME LedgerInv, NEW qts \in Numbers, Acknowledging(qts), UNCHANGED stream,
         \/ answer' = answer
         \/ answer'.upTo \in Numbers /\ answer'.qts <= answer'.upTo
  PROVE  LedgerInv'
<1>1. /\ UNCHANGED <<box, store>> /\ qts <= checkpoint.qts /\ qts \in Nat
      /\ deleted' \in {qts, deleted}
  BY DEF Acknowledging, guard_requests, Numbers
<1>2. UNCHANGED <<Updates, Captured, NoAnswer, Numbers>>
  BY <1>1 DEF store, Updates, Captured, Members, NoAnswer, Numbers
<1>3. LedgerTypes'
  <2>1. Box' = Box /\ Batch' = Batch
    BY <1>2 DEF Box, Batch
  <2> QED
    BY <1>1, <1>2, <2>1 DEF LedgerInv, LedgerTypes, store
<1>4. Chained' /\ Held'
  BY <1>1, <1>2 DEF LedgerInv, Chained, Held, store
<1> QED
  BY <1>3, <1>4 DEF LedgerInv

\* An update is applied, with what that adds to the protocol state.
LEMMA ApplyKeeps ==
  ASSUME LedgerInv, UNCHANGED stream, ApplyUpdate
  PROVE  LedgerInv'
<1>1. UNCHANGED <<deleted, box, checkpoint, batches, answer>>
  BY DEF ApplyUpdate, DrainRest
<1>2. \/ UNCHANGED <<applied, counted>>
      \/ advance(At)
  BY DEF ApplyUpdate
<1>3. UNCHANGED <<Updates, Captured, NoAnswer, Numbers>>
  BY <1>1 DEF Updates, Captured, Members, NoAnswer, Numbers
<1>4. LedgerTypes'
  <2>1. Box' = Box /\ Batch' = Batch
    BY <1>3 DEF Box, Batch
  <2> QED
    BY <1>1, <1>3, <2>1 DEF LedgerInv, LedgerTypes
<1>5. Chained'
  BY <1>1 DEF LedgerInv, Chained
<1>6. applied \subseteq applied'
  BY <1>2 DEF advance
<1>7. \A n \in applied' : stream'[n].kind = "message" => n \in counted'
  BY <1>2 DEF advance, Sort, LedgerInv, Held
<1>8. Held'
  BY <1>1, <1>3, <1>6, <1>7 DEF LedgerInv, Held
<1> QED
  BY <1>4, <1>5, <1>8 DEF LedgerInv

\* The finished batches at the front go; what they held is applied.
LEMMA EndBatchKeeps ==
  ASSUME LedgerInv, UNCHANGED stream, EndBatch
  PROVE  LedgerInv'
<1>1. UNCHANGED <<deleted, box, checkpoint, applied, counted, halted, answer>>
  BY DEF EndBatch
<1>2. batches' \in {batches, Finished}
  BY DEF EndBatch
<1>3. CASE batches' = batches
  BY <1>1, <1>3, AsideKeeps DEF store
<1>4. CASE batches' = Finished
  <2> DEFINE L == Len(batches)
  <2>1. batches \in Seq(Batch) /\ L \in Nat
    BY DEF LedgerInv, LedgerTypes
  <2>2. PICK k \in 0 .. L : /\ \A i \in 1 .. k : Complete(batches[i])
                            /\ batches' = SubSeq(batches, k + 1, L)
    BY <1>4, <2>1, FinishedFront
  <2>3. /\ batches' \in Seq(Batch) /\ Len(batches') = L - k
        /\ \A i \in 1 .. L - k : batches'[i] = batches[k + i]
        /\ DOMAIN batches' = 1 .. L - k /\ DOMAIN batches = 1 .. L
        /\ (batches' = <<>> <=> L - k = 0) /\ (batches = <<>> <=> L = 0)
    <3>1. /\ batches' \in Seq(Batch) /\ Len(batches') = L - k
          /\ \A i \in 1 .. L - k : batches'[i] = batches[k + i]
      BY <2>1, <2>2
    <3>2. DOMAIN batches' = 1 .. L - k /\ DOMAIN batches = 1 .. L
      BY <2>1, <3>1
    <3>3. (batches' = <<>> <=> L - k = 0) /\ (batches = <<>> <=> L = 0)
      BY <2>1, <3>1
    <3> QED
      BY <3>1, <3>2, <3>3
  <2> HIDE DEF L
  <2>4. UNCHANGED <<Updates, NoAnswer, Numbers>>
    BY DEF Updates, NoAnswer, Numbers
  <2>5. LedgerTypes'
    <3>1. Box' = Box /\ Batch' = Batch
      BY <2>4 DEF Box, Batch
    <3> QED
      BY <1>1, <2>3, <2>4, <3>1 DEF LedgerInv, LedgerTypes
  <2>6. Chained'
    <3>1. Len(batches') <= MaxBatches
      BY <2>1, <2>3, IngressAssumption DEF LedgerInv, Chained, L
    <3>2. batches' # <<>> => batches'[Len(batches')].after.qts = checkpoint'.qts
      <4> SUFFICES ASSUME batches' # <<>>
                   PROVE  batches'[Len(batches')].after.qts = checkpoint'.qts
        OBVIOUS
      <4>1. L - k \in 1 .. L - k /\ k + (L - k) = L /\ batches # <<>>
        BY <2>1, <2>3
      <4>2. batches[L].after.qts = checkpoint.qts
        BY <4>1 DEF LedgerInv, Chained, L
      <4> QED
        BY <1>1, <2>3, <4>1, <4>2
    <3>3. ASSUME NEW i \in 1 .. Len(batches') - 1
          PROVE  batches'[i].after.qts = batches'[i + 1].before.qts
      <4>1. /\ i \in 1 .. L - k /\ i + 1 \in 1 .. L - k
            /\ k + i \in 1 .. L - 1 /\ k + (i + 1) = (k + i) + 1
        BY <2>1, <2>3
      <4>2. batches[k + i].after.qts = batches[(k + i) + 1].before.qts
        BY <4>1 DEF LedgerInv, Chained, L
      <4>3. batches'[i] = batches[k + i] /\ batches'[i + 1] = batches[(k + i) + 1]
        BY <2>3, <4>1
      <4> QED
        BY <4>2, <4>3
    <3> QED
      BY <3>1, <3>2, <3>3 DEF Chained
  <2>7. \A n \in Captured : n \in Captured' \/ n \in applied
    <3> SUFFICES ASSUME NEW i \in 1 .. L, NEW n \in Updates, Over(batches[i], n)
                 PROVE  n \in Captured' \/ n \in applied
      BY <2>3, CapturedBy
    <3>1. CASE i \in 1 .. k
      BY <2>2, <3>1 DEF Complete, Members, Over
    <3>2. CASE i \notin 1 .. k
      <4>1. i - k \in 1 .. L - k /\ k + (i - k) = i
        BY <2>1, <3>2
      <4>2. batches'[i - k] = batches[i]
        BY <2>3, <4>1
      <4> QED
        BY <2>3, <2>4, <4>1, <4>2, CapturedBy
    <3> QED
      BY <3>1, <3>2
  <2>8. Held'
    BY <1>1, <2>7 DEF LedgerInv, Held
  <2> QED
    BY <2>5, <2>6, <2>8 DEF LedgerInv
<1> QED
  BY <1>2, <1>3, <1>4

----------------------------------------------------------------------------
(* The theorems *)

LEMMA LedgerInit == IngressInit => LedgerInv
<1> SUFFICES ASSUME IngressInit PROVE LedgerInv
  OBVIOUS
<1>1. stream \in Streams /\ Len(stream) \in Nat
  BY IngressAssumption DEF IngressInit
<1>2. box \in Box /\ batches \in Seq(Batch) /\ Len(<<>>) = 0
  BY <1>1 DEF IngressInit, Box, Numbers
<1> QED
  BY <1>1, <1>2, IngressAssumption DEF IngressInit, LedgerInv, LedgerTypes, Chained, Held

LEMMA LedgerNext == LedgerInv /\ [IngressNext]_ingressVars => LedgerInv'
<1> SUFFICES ASSUME LedgerInv, [IngressNext]_ingressVars PROVE LedgerInv'
  OBVIOUS
<1>1. /\ box \in Box /\ checkpoint = box /\ Len(stream) \in Nat
      /\ answer = NoAnswer \/ (answer.upTo \in Numbers /\ answer.qts <= answer.upTo)
  BY DEF LedgerInv, LedgerTypes
<1>2. CASE UNCHANGED ingressVars
  BY <1>2, AsideKeeps DEF ingressVars
<1>3. ASSUME UNCHANGED stream, NEW n \in Updates, Live(n) PROVE LedgerInv'
  <2>1. /\ Capture(process_updates(box, n)) /\ UNCHANGED <<deleted, answer>>
    BY <1>3 DEF Live
  <2> QED
    BY <1>1, <1>3, <2>1, ProcessType, CaptureKeeps
<1>4. ASSUME UNCHANGED stream, NEW qts \in Updates, ReceivedQueue(qts) PROVE LedgerInv'
  <2>1. qts \in Numbers
    BY <1>1 DEF Updates, Numbers
  <2> QED
    BY <1>4, <2>1, AcknowledgingKeeps DEF ReceivedQueue
<1>5. ASSUME UNCHANGED stream, GetDifference PROVE LedgerInv'
  <2>1. PICK upTo \in box.qts .. Len(stream) : answer' = [qts |-> box.qts, upTo |-> upTo]
    BY <1>5 DEF GetDifference
  <2>2. box.qts \in Numbers /\ upTo \in Numbers /\ box.qts <= upTo
    BY <1>1 DEF Box, Numbers
  <2> QED
    BY <1>5, <2>1, <2>2, AcknowledgingKeeps DEF GetDifference
<1>6. ASSUME UNCHANGED stream, Answer PROVE LedgerInv'
  <2> DEFINE after == apply_difference(box, answer.upTo)
  <2>1. answer # NoAnswer /\ answer' = NoAnswer /\ UNCHANGED deleted
    BY <1>6 DEF Answer
  <2>2. \/ UNCHANGED <<box, store>>
        \/ answer.qts = box.qts /\ Capture(after)
    BY <1>6 DEF Answer
  <2>3. after \in Box /\ after.qts = answer.upTo
    BY <1>1, <2>1 DEF apply_difference, Box
  <2> HIDE DEF after
  <2> QED
    BY <1>1, <1>6, <2>1, <2>2, <2>3, AsideKeeps, CaptureKeeps
<1>7. ASSUME UNCHANGED stream, Drain PROVE LedgerInv'
  <2>1. CASE BeginPass
    BY <1>7, <2>1, AsideKeeps DEF BeginPass
  <2>2. CASE PassOver \/ RefuseUpdate \/ Unreadable
    <3>1. /\ UNCHANGED <<deleted, box, checkpoint, batches, answer, applied, counted>>
      BY <2>2 DEF PassOver, RefuseUpdate, Unreadable, DrainRest
    <3> QED
      BY <1>7, <3>1, HaltedKeeps
  <2> QED
    BY <1>7, <2>1, <2>2, ApplyKeeps, EndBatchKeeps DEF Drain
<1>8. ASSUME UNCHANGED stream, NEW c \in IngressChats, PauseChat(c) \/ ResumeChat(c)
      PROVE  LedgerInv'
  BY <1>8, HaltedKeeps DEF PauseChat, ResumeChat
<1>9. ASSUME UNCHANGED stream, StopIngress PROVE LedgerInv'
  BY <1>9, AsideKeeps DEF StopIngress
<1>10. ASSUME UNCHANGED stream, Reopen PROVE LedgerInv'
  <2>1. UNCHANGED <<deleted, box, store>> /\ answer' = NoAnswer
    BY <1>1, <1>10 DEF Reopen
  <2> QED
    BY <1>10, <2>1, AsideKeeps
<1> QED
  BY <1>2, <1>3, <1>4, <1>5, <1>6, <1>7, <1>8, <1>9, <1>10 DEF IngressNext, IngressStep

\* Whenever the process ends, what it has stored is a ledger validate_ledger
\* accepts: batches that follow each other, end at the checkpoint and keep to
\* limits.records, also after a capture or a completion whose write was
\* uncertain.
THEOREM LedgerStaysWhole == IngressSpec => []LedgerOpens
<1>1. LedgerInv => LedgerOpens
  BY DEF LedgerInv, LedgerTypes, Chained, LedgerOpens, Last
<1> QED
  BY <1>1, LedgerInit, LedgerNext, PTL DEF IngressSpec

\* No request acknowledges an update before the store holds it: guard_requests
\* compares with the stored checkpoint, and everything up to it is captured,
\* counted, or had nothing to apply, whatever failed or was reopened since.
THEOREM NothingForgottenUnheld == IngressSpec => []ForgottenIsHeld
<1>1. LedgerInv => ForgottenIsHeld
  <2> SUFFICES ASSUME LedgerInv, NEW n \in 1 .. deleted
               PROVE  \/ n \in Captured \/ n \in counted
                      \/ n \in applied /\ stream[n].kind # "message"
    BY DEF ForgottenIsHeld
  <2>1. deleted \in Nat /\ checkpoint.qts \in Nat /\ deleted <= checkpoint.qts
    BY DEF LedgerInv, LedgerTypes, Held, Box, Numbers
  <2>2. n \in 1 .. checkpoint.qts
    BY <2>1
  <2> QED
    BY <2>2 DEF LedgerInv, Held
<1> QED
  BY <1>1, LedgerInit, LedgerNext, PTL DEF IngressSpec

----------------------------------------------------------------------------
(* The stored record *)

RecordInv ==
  /\ installed = [c \in Chats |-> installed[c]]
  /\ record = [c \in Chats |-> record[c]]
  /\ RecordIsCurrent

\* What a step does to a chat's record it does to the chat.
LEMMA RecordNext == RecordInv /\ [LifeNext]_lifeVars => RecordInv'
<1> SUFFICES ASSUME RecordInv, [LifeNext]_lifeVars PROVE RecordInv'
  OBVIOUS
<1>1. ASSUME UNCHANGED <<installed, record>> PROVE RecordInv'
  BY <1>1 DEF RecordInv, RecordIsCurrent
<1>2. CASE UNCHANGED lifeVars
  BY <1>1, <1>2 DEF lifeVars, chatData
<1>3. ASSUME NEW t \in Callers, Caller(t) PROVE RecordInv'
  <2>1. CASE StartLoads(t)
    <3>1. installed' = record /\ record' = record
      BY <2>1 DEF StartLoads, Load
    <3> QED
      BY <3>1 DEF RecordInv, RecordIsCurrent
  <2>2. CASE StartWaits(t) \/ StartReturns(t) \/ CallStop(t) \/ StopReturns(t)
    BY <1>1, <2>2 DEF StartWaits, StartReturns, CallStop, StopReturns, chatData
  <2> QED
    BY <1>3, <2>1, <2>2 DEF Caller
<1>4. ASSUME NEW h \in Handlers, StopInCleanup(h) \/ HandlerEnds(h) PROVE RecordInv'
  BY <1>1, <1>4 DEF StopInCleanup, HandlerEnds, chatData
<1>5. CASE Coordinator
  <2>1. CASE Sweep
    <3>1. /\ UNCHANGED installed
          /\ \E kept : record' = [c \in Chats |-> IF c \notin kept THEN record[c]
                                    ELSE IF installed[c] = Gone THEN detached[c]
                                    ELSE installed[c]]
      <4>1. PICK list \in Listed :
              record' = [c \in Chats |->
                IF \A i \in 1 .. Unlocked(list) : list[i] # c THEN record[c]
                ELSE IF installed[c] = Gone THEN detached[c] ELSE installed[c]]
        BY <2>1 DEF Sweep
      <4> DEFINE kept == {c \in Chats : ~ \A i \in 1 .. Unlocked(list) : list[i] # c}
      <4>2. record' = [c \in Chats |-> IF c \notin kept THEN record[c]
                                       ELSE IF installed[c] = Gone THEN detached[c]
                                       ELSE installed[c]]
        BY <4>1
      <4> QED
        BY <2>1, <4>2 DEF Sweep
    <3> QED
      BY <3>1 DEF RecordInv, RecordIsCurrent
  <2>2. CASE Unsubscribe \/ SaveFails \/ DrainRound \/ RoundEnds \/ StopEnds
    BY <1>1, <2>2 DEF Unsubscribe, SaveFails, DrainRound, RoundEnds, StopEnds, chatData
  <2> QED
    BY <1>5, <2>1, <2>2 DEF Coordinator
<1>6. ASSUME NEW c \in Chats, Arrive(c) \/ Acquire(c) \/ BeginUpload(c) PROVE RecordInv'
  BY <1>1, <1>6 DEF Arrive, Acquire, BeginUpload
<1>7. ASSUME NEW c \in Chats, Finish(c) PROVE RecordInv'
  <2>1. /\ installed' = [installed EXCEPT ![c] = @ + 1]
        /\ record' = [record EXCEPT ![c] = installed[c] + 1]
    BY <1>7 DEF Finish
  <2> QED
    BY <2>1 DEF RecordInv, RecordIsCurrent
<1>8. ASSUME NEW c \in Chats, Forget(c) PROVE RecordInv'
  <2>1. /\ installed' = [installed EXCEPT ![c] = Gone]
        /\ record' = [record EXCEPT ![c] = Gone]
    BY <1>8 DEF Forget
  <2> QED
    BY <2>1 DEF RecordInv, RecordIsCurrent
<1>9. CASE EndUpload
  <2> DEFINE c == upload.chat
  <2>1. \/ UNCHANGED <<installed, record>>
        \/ /\ upload.start = starts
           /\ installed' = [installed EXCEPT ![c] = @ + 1]
           /\ record' = [record EXCEPT ![c] = installed[c] + 1]
    BY <1>9 DEF EndUpload, SendUploaded
  <2> HIDE DEF c
  <2>2. CASE /\ installed' = [installed EXCEPT ![c] = @ + 1]
             /\ record' = [record EXCEPT ![c] = installed[c] + 1]
    BY <2>2 DEF RecordInv, RecordIsCurrent
  <2> QED
    BY <1>1, <2>1, <2>2
<1> QED
  BY <1>2, <1>3, <1>4, <1>5, <1>6, <1>7, <1>8, <1>9 DEF LifeNext

\* What is stored for an installed chat is what the chat is: a save of the
\* shutdown, an update, a removal or an upload that began before a restart
\* never leaves an older record (_check_current of files.py, _finish_stop).
THEOREM StoredIsCurrent == LifeSpec => []RecordIsCurrent
<1>1. LifeInit => RecordInv
  BY DEF LifeInit, RecordInv, RecordIsCurrent
<1>2. RecordInv => RecordIsCurrent
  BY DEF RecordInv
<1> QED
  BY <1>1, <1>2, RecordNext, PTL DEF LifeSpec

----------------------------------------------------------------------------
(* The shutdown *)

HandlerTasks == {"none", "running", "starting", "stopping", "resumed", "cancelling",
                 "leaving", "ended"}

\* Only who waits in stop() is one of its callers, under the name its code has.
CallersWait ==
  \A h \in Handlers, which \in {"wrapper", "inner"} :
    <<h, which>> \in stop_callers => task[h] = "stopping" /\ <<h, which>> = Current(h)

\* From the first cancellation of a shutdown on, no handler runs undisturbed.
Quiet ==
  \/ coordinator \in {"gather", "done"}
  \/ coordinator = "drain" /\ rounds # 0

ShutdownInv ==
  /\ rounds \in Nat
  /\ task = [t \in Callers |-> task[t]]
  /\ \A h \in Handlers : task[h] \in HandlerTasks
  /\ CallersWait
  /\ (Quiet /\ stopping) => \A h \in Handlers : task[h] \notin {"running", "starting"}

LEMMA CurrentName ==
  \A t : Current(t) \in {<<t, "inner">>, <<t, "wrapper">>}
BY DEF Current

\* A step of one task that is no call of stop() and starts nothing.
LEMMA TaskGoes ==
  ASSUME ShutdownInv, NEW t \in Callers, NEW what, Goes(t, what), UNCHANGED <<inner, rounds>>,
         stop_callers' \subseteq stop_callers, t \in Handlers => what \in HandlerTasks,
         t \in Handlers => \A which \in {"wrapper", "inner"} : <<t, which>> \notin stop_callers',
         (Quiet /\ stopping)' => /\ Quiet /\ stopping
                                 /\ t \in Handlers => what \notin {"running", "starting"}
  PROVE  ShutdownInv'
<1>1. task' = [task EXCEPT ![t] = what]
  BY DEF Goes
<1>2. /\ task' = [u \in Callers |-> task'[u]]
      /\ \A h \in Handlers : task'[h] = IF h = t THEN what ELSE task[h]
  BY <1>1 DEF ShutdownInv, Callers
<1>3. CallersWait'
  BY <1>2 DEF ShutdownInv, CallersWait, Current
<1> QED
  BY <1>2, <1>3 DEF ShutdownInv

LEMMA TasksRest ==
  ASSUME ShutdownInv, UNCHANGED <<task, inner, stop_callers, rounds>>,
         (Quiet /\ stopping)' => Quiet /\ stopping
  PROVE  ShutdownInv'
BY DEF ShutdownInv, CallersWait, Current

LEMMA CallerKeeps ==
  ASSUME ShutdownInv, NEW t \in Callers, Caller(t)
  PROVE  ShutdownInv'
<1>1. t \in Handlers => t \notin Mains /\ task[t] \in HandlerTasks
  BY LifecycleAssumption DEF ShutdownInv
<1>2. task[t] # "stopping" /\ t \in Handlers =>
        \A which \in {"wrapper", "inner"} : <<t, which>> \notin stop_callers
  BY DEF ShutdownInv, CallersWait
<1>3. CASE StartWaits(t)
  <2>1. /\ Goes(t, "starting") /\ UNCHANGED <<inner, rounds, stop_callers, coordinator, stopping>>
        /\ task[t] \in {"free", "running"}
    BY <1>3 DEF StartWaits, stopVars, flags
  <2>2. t \in Handlers => task[t] = "running"
    BY <1>1, <2>1 DEF HandlerTasks
  <2>3. (Quiet /\ stopping)' => Quiet /\ stopping /\ t \notin Handlers
    BY <2>1, <2>2 DEF Quiet, ShutdownInv
  <2> QED
    BY <1>2, <2>1, <2>2, <2>3, TaskGoes DEF HandlerTasks
<1>4. CASE StartLoads(t)
  <2>1. /\ Goes(t, IF t \in Mains THEN "free" ELSE "resumed")
        /\ UNCHANGED <<inner, rounds, stop_callers>> /\ stopping' = FALSE
        /\ task[t] \in {"free", "running", "starting"}
    BY <1>4 DEF StartLoads, Load, stopVars
  <2> QED
    BY <1>1, <1>2, <2>1, TaskGoes DEF HandlerTasks
<1>5. CASE StartReturns(t)
  <2>1. /\ Goes(t, IF t \in Mains THEN "free" ELSE "resumed")
        /\ UNCHANGED <<inner, rounds, stop_callers, coordinator, stopping>>
        /\ task[t] = "starting"
    BY <1>5 DEF StartReturns, stopVars, flags
  <2>2. (Quiet /\ stopping)' => Quiet /\ stopping
    BY <2>1 DEF Quiet
  <2> QED
    BY <1>1, <1>2, <2>1, <2>2, TaskGoes DEF HandlerTasks
<1>6. CASE CallStop(t)
  <2>1. /\ task' = [task EXCEPT ![t] = "stopping"] /\ UNCHANGED <<inner, rounds>>
        /\ stop_callers' = stop_callers \cup {Current(t)}
        /\ coordinator' = "begin" \/ UNCHANGED <<coordinator, stopping>>
    BY <1>6 DEF CallStop, Goes
  <2>2. /\ task' = [u \in Callers |-> task'[u]]
        /\ \A h \in Handlers : task'[h] = IF h = t THEN "stopping" ELSE task[h]
    BY <2>1 DEF ShutdownInv, Callers
  <2>3. CallersWait'
    <3> SUFFICES ASSUME NEW h \in Handlers, NEW which \in {"wrapper", "inner"},
                        <<h, which>> \in stop_callers'
                 PROVE  task'[h] = "stopping" /\ <<h, which>> = Current(h)'
      BY DEF CallersWait
    <3>1. Current(h)' = Current(h)
      BY <2>1 DEF Current
    <3>2. CASE <<h, which>> \in stop_callers
      BY <2>2, <3>1, <3>2 DEF ShutdownInv, CallersWait
    <3>3. CASE <<h, which>> = Current(t)
      <4>1. h = t
        BY <3>3, CurrentName
      <4> QED
        BY <2>2, <3>1, <3>3, <4>1
    <3> QED
      BY <2>1, <3>2, <3>3
  <2>4. (Quiet /\ stopping)' => Quiet /\ stopping
    BY <2>1 DEF Quiet
  <2> QED
    BY <2>1, <2>2, <2>3, <2>4 DEF ShutdownInv, HandlerTasks
<1>7. CASE StopReturns(t)
  <2>1. /\ Goes(t, IF t \in Mains THEN "free" ELSE "resumed")
        /\ UNCHANGED <<inner, rounds, coordinator, stopping>>
        /\ stop_callers' = stop_callers \ {Current(t)}
    BY <1>7 DEF StopReturns, stopVars, flags
  <2>2. t \in Handlers => \A which \in {"wrapper", "inner"} : <<t, which>> \notin stop_callers'
    BY <2>1 DEF ShutdownInv, CallersWait
  <2>3. (Quiet /\ stopping)' => Quiet /\ stopping
    BY <2>1 DEF Quiet
  <2> QED
    BY <1>1, <2>1, <2>2, <2>3, TaskGoes DEF HandlerTasks
<1> QED
  BY <1>3, <1>4, <1>5, <1>6, <1>7 DEF Caller

LEMMA CoordinatorKeeps ==
  ASSUME ShutdownInv, Coordinator
  PROVE  ShutdownInv'
<1>1. CASE Unsubscribe \/ SaveFails
  <2>1. /\ UNCHANGED <<task, inner, stop_callers, rounds>>
        /\ coordinator' \in {"listing", "failed"}
    BY <1>1 DEF Unsubscribe, SaveFails, taskVars
  <2> QED
    BY <2>1, TasksRest DEF Quiet
<1>2. CASE Sweep
  <2>1. /\ UNCHANGED <<task, inner, stop_callers>> /\ rounds' = 0
        /\ coordinator' \in {"drain", "sweep"}
    BY <1>2 DEF Sweep, taskVars
  <2> QED
    BY <2>1 DEF ShutdownInv, CallersWait, Current, Quiet
<1>3. CASE DrainRound
  <2> DEFINE tasks == {h \in Scheduled : Cancellable(h)}
  <2>1. /\ UNCHANGED <<inner, rounds, stop_callers>>
        /\ task' = [t \in Callers |-> IF t \in tasks THEN Interrupted(task[t]) ELSE task[t]]
    BY <1>3 DEF DrainRound
  <2>2. ASSUME NEW h \in Handlers
        PROVE  /\ task'[h] = IF h \in tasks THEN Interrupted(task[h]) ELSE task[h]
               /\ task[h] = "stopping" => task'[h] = "stopping"
               /\ task'[h] \in HandlerTasks /\ task'[h] \notin {"running", "starting"}
    <3>1. h \in Callers /\ task[h] \in HandlerTasks
      BY DEF Callers, ShutdownInv
    <3>2. task'[h] = IF h \in tasks THEN Interrupted(task[h]) ELSE task[h]
      BY <2>1, <3>1
    <3>3. task[h] \in {"running", "starting"} => h \in tasks
      <4> SUFFICES ASSUME task[h] \in {"running", "starting"} PROVE h \in tasks
        OBVIOUS
      <4>1. h \in Scheduled
        BY DEF Scheduled
      <4>2. Current(h) \notin stop_callers
        BY CurrentName DEF ShutdownInv, CallersWait
      <4> QED
        BY <4>1, <4>2 DEF Cancellable
    <3> HIDE DEF tasks
    <3> QED
      BY <3>1, <3>2, <3>3 DEF Interrupted, HandlerTasks
  <2> HIDE DEF tasks
  <2>3. task' = [t \in Callers |-> task'[t]]
    BY <2>1
  <2>4. CallersWait'
    BY <2>1, <2>2 DEF ShutdownInv, CallersWait, Current
  <2> QED
    BY <2>1, <2>2, <2>3, <2>4 DEF ShutdownInv
<1>4. CASE RoundEnds
  <2>1. /\ UNCHANGED <<task, inner, stop_callers, stopping>> /\ rounds' = rounds + 1
        /\ coordinator = "gather" /\ coordinator' = "drain"
    BY <1>4 DEF RoundEnds, flags
  <2> QED
    BY <2>1 DEF ShutdownInv, CallersWait, Current, Quiet
<1>5. CASE StopEnds
  <2>1. /\ UNCHANGED <<task, inner, stop_callers, stopping, rounds>>
        /\ coordinator = "drain" /\ (rounds = 3 \/ Scheduled = {})
    BY <1>5 DEF StopEnds, taskVars
  <2>2. CASE rounds = 3
    BY <2>1, <2>2, TasksRest DEF Quiet
  <2>3. CASE Scheduled = {}
    <3>1. \A h \in Handlers : task[h] \notin {"running", "starting"}
      BY <2>3 DEF Scheduled
    <3> QED
      BY <2>1, <3>1 DEF ShutdownInv, CallersWait, Current
  <2> QED
    BY <2>1, <2>2, <2>3
<1> QED
  BY <1>1, <1>2, <1>3, <1>4, <1>5 DEF Coordinator

\* A handler's task begins.
LEMMA EmitKeeps ==
  ASSUME ShutdownInv, NEW h \in Handlers, NEW own \in BOOLEAN, Emit(h, own),
         UNCHANGED <<stop_callers, rounds, coordinator, stopping>>
  PROVE  ShutdownInv'
<1>1. /\ task[h] = "none" /\ inner' \in {inner, inner \cup {h}}
      /\ \/ ~ stopping /\ Goes(h, "running")
         \/ Goes(h, "cancelling")
  BY DEF Emit
<1>2. PICK what \in {"running", "cancelling"} :
        task' = [task EXCEPT ![h] = what] /\ (what = "running" => ~ stopping)
  BY <1>1 DEF Goes
<1>3. /\ task' = [u \in Callers |-> task'[u]]
      /\ \A g \in Handlers : task'[g] = IF g = h THEN what ELSE task[g]
  BY <1>2 DEF ShutdownInv, Callers
<1>4. \A which \in {"wrapper", "inner"} : <<h, which>> \notin stop_callers
  BY <1>1 DEF ShutdownInv, CallersWait
<1>5. \A g \in Handlers : g # h => Current(g)' = Current(g)
  BY <1>1 DEF Current
<1>6. CallersWait'
  BY <1>3, <1>4, <1>5 DEF ShutdownInv, CallersWait
<1>7. (Quiet /\ stopping)' => Quiet /\ stopping
  BY DEF Quiet
<1> QED
  BY <1>2, <1>3, <1>6, <1>7 DEF ShutdownInv, HandlerTasks

LEMMA ShutdownNext == ShutdownInv /\ [LifeNext]_lifeVars => ShutdownInv'
<1> SUFFICES ASSUME ShutdownInv, [LifeNext]_lifeVars PROVE ShutdownInv'
  OBVIOUS
<1>1. ASSUME UNCHANGED <<task, inner, stop_callers, rounds, coordinator, stopping>>
      PROVE  ShutdownInv'
  BY <1>1, TasksRest DEF Quiet
<1>2. CASE UNCHANGED lifeVars
  BY <1>1, <1>2 DEF lifeVars, flags, stopVars, taskVars
<1>3. ASSUME NEW h \in Handlers, StopInCleanup(h) \/ HandlerEnds(h) PROVE ShutdownInv'
  <2>1. /\ \E what \in {"leaving", "ended"} : Goes(h, what)
        /\ UNCHANGED <<inner, rounds, stop_callers, coordinator, stopping>>
        /\ task[h] # "stopping"
    BY <1>3 DEF StopInCleanup, HandlerEnds, flags, stopVars
  <2>2. \A which \in {"wrapper", "inner"} : <<h, which>> \notin stop_callers'
    BY <2>1 DEF ShutdownInv, CallersWait
  <2>3. (Quiet /\ stopping)' => Quiet /\ stopping
    BY <2>1 DEF Quiet
  <2> QED
    BY <2>1, <2>2, <2>3, TaskGoes DEF HandlerTasks, Callers
<1>4. ASSUME NEW c \in Chats, \/ Arrive(c) \/ Acquire(c) \/ Forget(c) \/ BeginUpload(c)
      PROVE  ShutdownInv'
  BY <1>1, <1>4 DEF Arrive, Acquire, Forget, BeginUpload, flags, stopVars, taskVars
<1>5. ASSUME NEW c \in Chats, Finish(c) PROVE ShutdownInv'
  <2>1. /\ UNCHANGED <<stop_callers, rounds, coordinator, stopping>>
        /\ \/ UNCHANGED <<task, inner>>
           \/ \E h \in Handlers, own \in BOOLEAN : Emit(h, own)
    BY <1>5 DEF Finish, flags, stopVars
  <2> QED
    BY <1>1, <2>1, EmitKeeps
<1>6. CASE EndUpload
  BY <1>1, <1>6 DEF EndUpload, flags, stopVars, taskVars
<1> QED
  BY <1>2, <1>3, <1>4, <1>5, <1>6, CallerKeeps, CoordinatorKeeps DEF LifeNext

\* When stop() has done its work, every handler has been cancelled and has
\* ended, or waits for stop() itself, or was resumed by it; none runs on as if
\* nothing had happened, also not one whose event came during the shutdown
\* (_finish_stop, _cancel_handler_tasks and _emit).
THEOREM ShutdownReachesAll == LifeSpec => []NoneLeftRunning
<1>1. LifeInit => ShutdownInv
  <2> SUFFICES ASSUME LifeInit PROVE ShutdownInv
    OBVIOUS
  <2>1. /\ task = [t \in Callers |-> IF t \in Mains THEN "free" ELSE "none"]
        /\ rounds = 0 /\ stop_callers = {} /\ stopping = FALSE
    BY DEF LifeInit
  <2>2. \A h \in Handlers : task[h] = "none"
    BY <2>1, LifecycleAssumption DEF Callers
  <2> QED
    BY <2>1, <2>2 DEF ShutdownInv, HandlerTasks, CallersWait
<1>2. ShutdownInv => NoneLeftRunning
  BY DEF ShutdownInv, NoneLeftRunning, Quiet
<1> QED
  BY <1>1, <1>2, ShutdownNext, PTL DEF LifeSpec

----------------------------------------------------------------------------
(* The saved chat                                                          *)

Line == [kind : {"message", "file"}, m : Mail]
Noted(m) == Lines("message", m) # {}
Known(m) == Noted(m) \/ m \in unsaved
Kept(m) == Mentioned(m) /\ m \in saved

\* What is left of a message's operation, and what is true by then.
Operating(m) ==
  \/ doing = Operation(m) /\ m \notin over
  \/ doing = <<Act("send", m)>> /\ Known(m)
  \/ doing = <<Act("copy", m), Act("list", m), Act("end", m)>> /\ Known(m)
  \/ doing = <<Act("list", m), Act("end", m)>> /\ Known(m) /\ m \in saved
  \/ doing = <<Act("owe", m), Act("spawn", m), Act("end", m)>> /\ Known(m)
  \/ doing = <<Act("spawn", m), Act("end", m)>> /\ Known(m) /\ m \in owed
  \/ doing = <<Act("end", m)>> /\ (m \in unsaved \/ m \in owed \/ Kept(m))

\* What is left of a download's tail.
Fetched(m) ==
  \/ doing = Tail_(m) /\ Known(m)
  \/ doing = <<Act("list", m), Act("settle", m)>> /\ Known(m) /\ m \in saved
  \/ doing = <<Act("settle", m)>> /\ (m \in unsaved \/ Kept(m))

\* No line has been cut; what is owed, being fetched or being sent has its record, or was
\* left out; and the running code is where an operation or a download can be.
SavedInv ==
  /\ lines \in Seq(Line) /\ torn = FALSE
  /\ fetching \in [Mail -> Nat] /\ over \subseteq Mail /\ owed \subseteq Mail
  /\ sending \subseteq Mail
  /\ \A m \in Mail : m \in owed \/ fetching[m] > 0 \/ m \in sending => Known(m)
  /\ doing = <<>> \/ \E m \in Mail : Operating(m) \/ Fetched(m)
  /\ FileNotLost

\* A line more leaves the earlier ones where they are.
LEMMA LineAppended ==
  ASSUME lines \in Seq(Line), NEW k \in {"message", "file"}, NEW n \in Mail,
         lines' = Append(lines, [kind |-> k, m |-> n])
  PROVE  /\ lines' \in Seq(Line)
         /\ \A m : Noted(m) => Noted(m)'
         /\ \A m : m # n \/ k = "file" => (Mentioned(m) => Mentioned(m)')
         /\ k = "message" => Noted(n)'
         /\ k = "file" /\ Noted(n) => Mentioned(n)'
<1> DEFINE L == Len(lines)
<1> DEFINE new == [kind |-> k, m |-> n]
<1>1. /\ new \in Line /\ new.kind = k /\ new.m = n
  BY DEF Line
<1> HIDE DEF new
<1>2. /\ L \in Nat /\ DOMAIN lines = 1 .. L
      /\ lines' \in Seq(Line) /\ DOMAIN lines' = 1 .. (L + 1)
      /\ \A i \in 1 .. L : lines'[i] = lines[i]
      /\ lines'[L + 1] = new
  <2>1. lines' = Append(lines, new)
    BY DEF new
  <2>2. L \in Nat /\ DOMAIN lines = 1 .. L
    OBVIOUS
  <2>3. lines' \in Seq(Line) /\ Len(lines') = L + 1
    BY <1>1, <2>1
  <2> QED
    BY <1>1, <2>1, <2>2, <2>3
<1> HIDE DEF L
<1>3. ASSUME NEW kind, NEW m
      PROVE  /\ \A i \in Lines(kind, m) : i \in 1 .. L /\ i \in Lines(kind, m)'
             /\ \A i \in Lines(kind, m)' : i = L + 1 \/ i \in Lines(kind, m)
             /\ new = [kind |-> kind, m |-> m] => L + 1 \in Lines(kind, m)'
             /\ new # [kind |-> kind, m |-> m] => L + 1 \notin Lines(kind, m)'
  BY <1>2 DEF Lines
<1>4. \A kind, m : new = [kind |-> kind, m |-> m] <=> (kind = k /\ m = n)
  BY <1>1 DEF new
<1>5. \A m : Noted(m) => Noted(m)'
  BY <1>3 DEF Noted
<1>6. ASSUME NEW m, m # n \/ k = "file", Mentioned(m) PROVE Mentioned(m)'
  <2>1. PICK i \in Lines("file", m) : /\ Lines("message", m) # {}
                                      /\ \A j \in Lines("message", m) : j < i
    BY <1>6 DEF Mentioned
  <2>2. L + 1 \notin Lines("message", m)'
    <3>1. new # [kind |-> "message", m |-> m]
      BY <1>4, <1>6
    <3> QED
      BY <1>3, <3>1
  <2>3. i \in Lines("file", m)' /\ Lines("message", m)' # {}
    BY <1>3, <2>1
  <2>4. \A j \in Lines("message", m)' : j < i
    BY <1>3, <2>1, <2>2
  <2> QED
    BY <2>3, <2>4 DEF Mentioned
<1>7. k = "message" => Noted(n)'
  BY <1>3, <1>4 DEF Noted
<1>8. ASSUME k = "file", Noted(n) PROVE Mentioned(n)'
  <2>1. L + 1 \in Lines("file", n)' /\ L + 1 \notin Lines("message", n)'
    BY <1>3, <1>4, <1>8
  <2>2. Lines("message", n)' # {}
    BY <1>5, <1>8 DEF Noted
  <2>3. \A j \in Lines("message", n)' : j < L + 1
    BY <1>2, <1>3, <2>1
  <2> QED
    BY <2>1, <2>2, <2>3 DEF Mentioned
<1> QED
  BY <1>2, <1>5, <1>6, <1>7, <1>8

\* What does not touch the folder keeps what the folder says.
LEMMA FolderKept ==
  ASSUME SavedInv, UNCHANGED <<lines, torn, owed, saved>>,
         unsaved \subseteq unsaved', kept_pending \subseteq kept_pending',
         over' \subseteq Mail, \A m \in over' : m \in over \/ m \in kept_pending',
         fetching' \in [Mail -> Nat], sending' \subseteq Mail,
         \A m \in Mail : fetching'[m] > 0 \/ m \in sending' => Known(m)',
         doing' = <<>> \/ \E m \in Mail : (Operating(m) \/ Fetched(m))'
  PROVE  SavedInv'
<1>1. \A m : Noted(m)' = Noted(m) /\ Mentioned(m)' = Mentioned(m)
  BY DEF Noted, Mentioned, Lines
<1>2. lines' \in Seq(Line) /\ torn' = FALSE /\ owed' \subseteq Mail
  BY DEF SavedInv, Line
<1>3. \A m \in Mail : m \in owed' \/ fetching'[m] > 0 \/ m \in sending' => Known(m)'
  <2>1. \A m \in Mail : m \in owed => Known(m)
    BY DEF SavedInv
  <2> QED
    BY <1>1, <2>1 DEF Known
<1>4. FileNotLost'
  BY <1>1 DEF SavedInv, FileNotLost
<1> QED
  BY <1>2, <1>3, <1>4 DEF SavedInv, Line

\* A message stays known while lines are only added.
LEMMA KnownStays ==
  ASSUME unsaved \subseteq unsaved', lines' = lines
  PROVE  \A m : Known(m) => Known(m)'
BY DEF Known, Noted, Lines

\* What a part of an operation or of a tail looks like from its head.
LEMMA Lists ==
  ASSUME NEW a, NEW b, NEW c, NEW d
  PROVE  /\ <<>> # <<a>> /\ <<>> # <<a, b>> /\ <<>> # <<a, b, c>> /\ <<>> # <<a, b, c, d>>
         /\ Head(<<a>>) = a /\ Head(<<a, b>>) = a
         /\ Head(<<a, b, c>>) = a /\ Head(<<a, b, c, d>>) = a
         /\ Tail(<<a>>) = <<>> /\ Tail(<<a, b>>) = <<b>>
         /\ Tail(<<a, b, c>>) = <<b, c>> /\ Tail(<<a, b, c, d>>) = <<b, c, d>>
         /\ <<a>>[Len(<<a>>)] = a /\ <<a, b>>[Len(<<a, b>>)] = b
         /\ <<a, b, c>>[Len(<<a, b, c>>)] = c /\ <<a, b, c, d>>[Len(<<a, b, c, d>>)] = d
OBVIOUS

LEMMA BeginKeeps ==
  ASSUME SavedInv, NEW m \in Mail, Begin(m)
  PROVE  SavedInv'
<1>1. /\ UNCHANGED <<lines, torn, owed, saved, over, kept_pending, fetching, sending>>
      /\ unsaved \subseteq unsaved' /\ m \notin over
  BY DEF Begin, diskVars, callVars, IfOn
<1>2. Operating(m)'
  <2> DEFINE work == Operation(m)
  <2>1. \/ doing' = Operation(m)
        \/ doing' = <<work[Len(work)]>> /\ m \in unsaved'
    BY DEF Begin, IfOn
  <2>2. work[Len(work)] = Act("end", m) \/ work[Len(work)] = Act("send", m)
    BY Lists DEF Operation
  <2> QED
    BY <1>1, <2>1, <2>2 DEF Operating, Operation, Known
<1>3. \A n \in Mail : fetching[n] > 0 \/ n \in sending => Known(n)'
  BY <1>1, KnownStays DEF SavedInv
<1> QED
  BY <1>1, <1>2, <1>3, FolderKept DEF SavedInv

LEMMA AnsweredKeeps ==
  ASSUME SavedInv, NEW m \in Mail, Answered(m)
  PROVE  SavedInv'
<1>1. /\ UNCHANGED <<lines, torn, owed, saved, over, kept_pending, fetching>>
      /\ sending' = sending \ {m} /\ m \in sending /\ unsaved \subseteq unsaved'
  BY DEF Answered, diskVars, IfOn
<1>2. Known(m)'
  BY <1>1, KnownStays DEF SavedInv
<1>3. Operating(m)'
  <2>1. PICK work \in {SentFile(m), Forwarded(m)} :
          \/ doing' = work
          \/ doing' = <<work[Len(work)]>> /\ m \in unsaved'
    BY DEF Answered, IfOn
  <2>2. work[Len(work)] = Act("end", m)
    BY Lists DEF SentFile, Forwarded
  <2> QED
    BY <1>2, <2>1, <2>2 DEF Operating, SentFile, Forwarded
<1>4. \A n \in Mail : fetching[n] > 0 \/ n \in sending' => Known(n)'
  BY <1>1, KnownStays DEF SavedInv
<1> QED
  BY <1>1, <1>3, <1>4, FolderKept DEF SavedInv

LEMMA StaysPendingKeeps ==
  ASSUME SavedInv, NEW m \in Mail, StaysPending(m)
  PROVE  SavedInv'
<1>1. /\ UNCHANGED <<lines, torn, owed, saved, fetching, doing, unsaved>> /\ doing = <<>>
      /\ sending' = sending \ {m} /\ over' = over \cup {m}
      /\ kept_pending' = kept_pending \cup {m}
  BY DEF StaysPending, diskVars, Busy
<1>2. \A n \in Mail : fetching[n] > 0 \/ n \in sending' => Known(n)'
  BY <1>1, KnownStays DEF SavedInv
<1> QED
  BY <1>1, <1>2, FolderKept DEF SavedInv

LEMMA FetchEndsKeeps ==
  ASSUME SavedInv, NEW m \in Mail, FetchEnds(m)
  PROVE  SavedInv'
<1>1. /\ UNCHANGED <<lines, torn, owed, saved, over, unsaved, kept_pending, sending>>
      /\ fetching[m] > 0 /\ fetching' = [fetching EXCEPT ![m] = @ - 1]
      /\ doing' = Tail_(m)
  BY DEF FetchEnds, diskVars, callVars
<1>2. Known(m) /\ fetching \in [Mail -> Nat]
  BY <1>1 DEF SavedInv
<1>3. /\ fetching' \in [Mail -> Nat]
      /\ \A n \in Mail : fetching'[n] > 0 => n = m \/ fetching[n] > 0
  BY <1>1, <1>2
<1>4. \A n \in Mail : fetching'[n] > 0 \/ n \in sending' => Known(n)'
  BY <1>1, <1>2, <1>3, KnownStays DEF SavedInv
<1>5. Fetched(m)'
  BY <1>1, <1>2, KnownStays DEF Fetched, Tail_
<1> QED
  BY <1>1, <1>3, <1>4, <1>5, FolderKept DEF SavedInv

LEMMA FetchFailsKeeps ==
  ASSUME SavedInv, NEW m \in Mail, FetchFails(m)
  PROVE  SavedInv'
<1>1. /\ UNCHANGED <<lines, torn, owed, saved, over, unsaved, kept_pending, sending, doing>>
      /\ fetching[m] > 0 /\ fetching' = [fetching EXCEPT ![m] = @ - 1] /\ doing = <<>>
  BY DEF FetchFails, diskVars, callVars, Busy
<1>2. fetching \in [Mail -> Nat]
  BY DEF SavedInv
<1>3. /\ fetching' \in [Mail -> Nat]
      /\ \A n \in Mail : fetching'[n] > 0 => fetching[n] > 0
  BY <1>1, <1>2
<1>4. \A n \in Mail : fetching'[n] > 0 \/ n \in sending' => Known(n)'
  BY <1>1, <1>3, KnownStays DEF SavedInv
<1> QED
  BY <1>1, <1>3, <1>4, FolderKept DEF SavedInv

LEMMA RaisesKeeps ==
  ASSUME SavedInv, Raises
  PROVE  SavedInv'
<1>1. /\ UNCHANGED <<lines, torn, owed, saved, over, kept_pending, fetching, sending>>
      /\ unsaved \subseteq unsaved'
  BY DEF Raises, diskVars, callVars
<1>2. PICK m \in Mail : Operating(m) \/ Fetched(m)
  BY DEF Raises, Busy, SavedInv
<1>3. \/ doing' = <<>>
      \/ (doing' = <<Act("end", m)>> \/ doing' = <<Act("send", m)>>) /\ m \in unsaved'
  <2>1. \/ doing' = <<>>
        \/ /\ doing[Len(doing)].do \in {"end", "send"} /\ doing' = <<doing[Len(doing)]>>
           /\ Now.m \in unsaved'
    BY DEF Raises
  <2>2. /\ Now = Head(doing)
        /\ \A do : Act(do, m).do = do /\ Act(do, m).m = m
    BY DEF Now, Act
  <2>3. CASE Operating(m)
    <3>1. \/ \E a, b, c \in {Act("record", m), Act("copy", m), Act("list", m), Act("owe", m),
                                 Act("spawn", m)} :
                doing \in {<<a, b, c, Act("end", m)>>, <<a, b, Act("end", m)>>,
                          <<a, Act("end", m)>>, <<a, Act("send", m)>>}
          \/ doing \in {<<Act("end", m)>>, <<Act("send", m)>>}
      BY <2>3 DEF Operating, Operation
    <3>2. doing[Len(doing)] = Act("end", m) \/ doing[Len(doing)] = Act("send", m)
      <4>1. ASSUME NEW a, NEW b, NEW c, doing = <<a, b, c, Act("end", m)>>
            PROVE  doing[Len(doing)] = Act("end", m)
        BY <4>1
      <4>2. ASSUME NEW a, NEW b, doing = <<a, b, Act("end", m)>>
            PROVE  doing[Len(doing)] = Act("end", m)
        BY <4>2
      <4>3. ASSUME NEW a, NEW d, doing = <<a, d>>
            PROVE  doing[Len(doing)] = d
        BY <4>3
      <4>4. ASSUME NEW d, doing = <<d>> PROVE doing[Len(doing)] = d
        BY <4>4
      <4> QED
        BY <3>1, <4>1, <4>2, <4>3, <4>4
    <3>3. Head(doing).m = m
      BY <2>2, <3>1, Lists
    <3> QED
      BY <2>1, <2>2, <3>2, <3>3
  <2>4. CASE Fetched(m)
    <3>1. \/ doing = <<Act("copy", m), Act("list", m), Act("settle", m)>>
          \/ doing = <<Act("list", m), Act("settle", m)>>
          \/ doing = <<Act("settle", m)>>
      BY <2>4 DEF Fetched, Tail_
    <3>2. doing[Len(doing)] = Act("settle", m)
      BY <3>1
    <3> QED
      BY <2>1, <2>2, <3>2
  <2> QED
    BY <1>2, <2>3, <2>4
<1>4. doing' = <<>> \/ \E n \in Mail : (Operating(n) \/ Fetched(n))'
  BY <1>3 DEF Operating, Known
<1>5. \A n \in Mail : fetching'[n] > 0 \/ n \in sending' => Known(n)'
  BY <1>1, KnownStays DEF SavedInv
<1> QED
  BY <1>1, <1>4, <1>5, FolderKept DEF SavedInv

\* A line more of a message that is being recorded, or of a file.
LEMMA LineKeeps ==
  ASSUME SavedInv, NEW k \in {"message", "file"}, NEW n \in Mail,
         lines' = Append(lines, [kind |-> k, m |-> n]), k = "file" \/ n \notin over,
         torn' = FALSE,
         UNCHANGED <<owed, saved, over, fetching, sending, unsaved, kept_pending>>,
         \E m \in Mail : (Operating(m) \/ Fetched(m))'
  PROVE  SavedInv'
<1>1. /\ lines' \in Seq(Line) /\ \A m : Noted(m) => Noted(m)'
      /\ \A m : m # n \/ k = "file" => (Mentioned(m) => Mentioned(m)')
  BY LineAppended DEF SavedInv
<1>2. FileNotLost'
  <2> SUFFICES ASSUME NEW m \in over \ (unsaved \cup kept_pending)
               PROVE  m \in owed \/ (Mentioned(m)' /\ m \in saved)
    BY DEF FileNotLost
  <2>1. m \in owed \/ (Mentioned(m) /\ m \in saved)
    BY DEF SavedInv, FileNotLost
  <2> QED
    BY <1>1, <2>1
<1>3. \A m \in Mail : m \in owed' \/ fetching'[m] > 0 \/ m \in sending' => Known(m)'
  BY <1>1 DEF SavedInv, Known
<1>4. lines' \in Seq(Line)'
  BY <1>1 DEF Line
<1> QED
  BY <1>2, <1>3, <1>4 DEF SavedInv

\* A file more on disk.
LEMMA CopyKeeps ==
  ASSUME SavedInv, NEW m \in Mail, saved' = saved \cup {m},
         UNCHANGED <<lines, torn, owed, over, fetching, sending, unsaved, kept_pending>>,
         (Operating(m) \/ Fetched(m))'
  PROVE  SavedInv'
<1>1. \A n : Noted(n)' = Noted(n) /\ Mentioned(n)' = Mentioned(n)
  BY DEF Noted, Mentioned, Lines
<1>2. FileNotLost'
  BY <1>1 DEF SavedInv, FileNotLost
<1>3. lines' \in Seq(Line)' /\ torn' = FALSE
  BY DEF SavedInv, Line
<1>4. \A n : Known(n)' = Known(n)
  BY <1>1 DEF Known
<1> QED
  BY <1>2, <1>3, <1>4 DEF SavedInv

\* One step of the running code, by its name.
LEMMA DoEffects ==
  ASSUME NEW d, NEW m, Do(Act(d, m)), torn = FALSE
  PROVE  /\ lines' = IF d = "record" THEN Append(lines, [kind |-> "message", m |-> m])
                     ELSE IF d = "list" THEN Append(lines, [kind |-> "file", m |-> m])
                     ELSE lines
         /\ torn' = FALSE
         /\ saved' = IF d = "copy" THEN saved \cup {m} ELSE saved
         /\ owed' = IF d = "owe" THEN owed \cup {m}
                    ELSE IF d = "settle" THEN owed \ {m} ELSE owed
         /\ fetching' = IF d = "spawn" THEN [fetching EXCEPT ![m] = @ + 1] ELSE fetching
         /\ sending' = IF d = "send" THEN sending \cup {m} ELSE sending
         /\ over' = IF d = "end" THEN over \cup {m} ELSE over
<1> DEFINE a == Act(d, m)
<1>1. a.do = d /\ a.m = m
  BY DEF Act
<1> HIDE DEF a
<1>2. Do(a)
  BY DEF a
<1>3. torn' = FALSE
  BY <1>2 DEF Do
<1>4. saved' = IF d = "copy" THEN saved \cup {m} ELSE saved
  BY <1>1, <1>2 DEF Do
<1>5. owed' = IF d = "owe" THEN owed \cup {m}
              ELSE IF d = "settle" THEN owed \ {m} ELSE owed
  BY <1>1, <1>2 DEF Do
<1>6. fetching' = IF d = "spawn" THEN [fetching EXCEPT ![m] = @ + 1] ELSE fetching
  BY <1>1, <1>2 DEF Do
<1>7. over' = IF d = "end" THEN over \cup {m} ELSE over
  BY <1>1, <1>2 DEF Do
<1>8. lines' = IF d = "record" THEN Append(lines, [kind |-> "message", m |-> m])
               ELSE IF d = "list" THEN Append(lines, [kind |-> "file", m |-> m])
               ELSE lines
  BY <1>1, <1>2 DEF Do, Append_
<1>9. sending' = IF d = "send" THEN sending \cup {m} ELSE sending
  BY <1>1, <1>2 DEF Do
<1> QED
  BY <1>3, <1>4, <1>5, <1>6, <1>7, <1>8, <1>9

LEMMA OperationKeeps ==
  ASSUME SavedInv, Proceed, NEW m \in Mail, Operating(m)
  PROVE  SavedInv'
<1>1. /\ Do(Now) /\ doing' = Tail(doing) /\ UNCHANGED <<unsaved, kept_pending>> /\ Now = Head(doing)
      /\ torn = FALSE
  BY DEF Proceed, Now, SavedInv
<1>2. CASE doing = Operation(m) /\ m \notin over
  <2>1. Now = Act("record", m)
    BY <1>1, <1>2, Lists DEF Operation
  <2>2. \/ doing' = <<Act("send", m)>>
        \/ doing' = <<Act("owe", m), Act("spawn", m), Act("end", m)>>
    BY <1>1, <1>2, Lists DEF Operation
  <2>3. /\ lines' = Append(lines, [kind |-> "message", m |-> m]) /\ torn' = FALSE
        /\ UNCHANGED <<owed, saved, over, fetching, sending>>
    <3>1. Do(Act("record", m))
      BY <1>1, <2>1
    <3> QED
      BY <1>1, <3>1, DoEffects
  <2>4. Noted(m)'
    BY <2>3, LineAppended DEF SavedInv
  <2>5. Operating(m)'
    BY <2>2, <2>4 DEF Operating, Known
  <2> QED
    BY <1>1, <1>2, <2>3, <2>5, LineKeeps
<1>3. CASE doing = <<Act("copy", m), Act("list", m), Act("end", m)>> /\ Known(m)
  <2>1. Now = Act("copy", m) /\ doing' = <<Act("list", m), Act("end", m)>>
    BY <1>1, <1>3, Lists
  <2>2. saved' = saved \cup {m} /\ UNCHANGED <<lines, torn, owed, over, fetching, sending>>
    <3>1. Do(Act("copy", m))
      BY <1>1, <2>1
    <3> QED
      BY <1>1, <3>1, DoEffects
  <2>3. Operating(m)'
    BY <1>1, <1>3, <2>1, <2>2, KnownStays DEF Operating
  <2> QED
    BY <1>1, <2>2, <2>3, CopyKeeps
<1>4. CASE doing = <<Act("list", m), Act("end", m)>> /\ Known(m) /\ m \in saved
  <2>1. Now = Act("list", m) /\ doing' = <<Act("end", m)>>
    BY <1>1, <1>4, Lists
  <2>2. /\ lines' = Append(lines, [kind |-> "file", m |-> m]) /\ torn' = FALSE
        /\ UNCHANGED <<owed, saved, over, fetching, sending>>
    <3>1. Do(Act("list", m))
      BY <1>1, <2>1
    <3> QED
      BY <1>1, <3>1, DoEffects
  <2>3. m \in unsaved \/ Mentioned(m)'
    BY <1>4, <2>2, LineAppended DEF SavedInv, Known
  <2>4. Operating(m)'
    BY <1>1, <1>4, <2>1, <2>2, <2>3 DEF Operating, Kept
  <2> QED
    BY <1>1, <2>2, <2>4, LineKeeps
<1>5. CASE doing = <<Act("owe", m), Act("spawn", m), Act("end", m)>> /\ Known(m)
  <2>1. Now = Act("owe", m) /\ doing' = <<Act("spawn", m), Act("end", m)>>
    BY <1>1, <1>5, Lists
  <2>2. owed' = owed \cup {m} /\ UNCHANGED <<lines, torn, saved, over, fetching, sending>>
    <3>1. Do(Act("owe", m))
      BY <1>1, <2>1
    <3> QED
      BY <1>1, <3>1, DoEffects
  <2>3. \A n : Noted(n)' = Noted(n) /\ Mentioned(n)' = Mentioned(n)
    BY <2>2 DEF Noted, Mentioned, Lines
  <2>4. \A n : Known(n)' = Known(n)
    BY <1>1, <2>3 DEF Known
  <2>5. FileNotLost'
    BY <1>1, <2>2, <2>3 DEF SavedInv, FileNotLost
  <2>6. lines' \in Seq(Line)' /\ torn' = FALSE
    BY <1>1, <2>2 DEF SavedInv, Line
  <2>7. Operating(m)'
    BY <1>5, <2>1, <2>2, <2>4 DEF Operating
  <2> QED
    BY <1>5, <2>2, <2>4, <2>5, <2>6, <2>7 DEF SavedInv
<1>6. CASE doing = <<Act("spawn", m), Act("end", m)>> /\ Known(m) /\ m \in owed
  <2>1. Now = Act("spawn", m) /\ doing' = <<Act("end", m)>>
    BY <1>1, <1>6, Lists
  <2>2. /\ fetching' = [fetching EXCEPT ![m] = @ + 1]
        /\ UNCHANGED <<lines, torn, owed, saved, over, sending>>
    <3>1. Do(Act("spawn", m))
      BY <1>1, <2>1
    <3> QED
      BY <1>1, <3>1, DoEffects
  <2>3. fetching \in [Mail -> Nat]
    BY DEF SavedInv
  <2>4. /\ fetching' \in [Mail -> Nat]
        /\ \A n \in Mail : fetching'[n] > 0 => n = m \/ fetching[n] > 0
    BY <2>2, <2>3
  <2>5. \A n \in Mail : fetching'[n] > 0 \/ n \in sending' => Known(n)'
    BY <1>1, <1>6, <2>2, <2>4, KnownStays DEF SavedInv
  <2>6. Operating(m)'
    BY <1>6, <2>1, <2>2 DEF Operating
  <2> QED
    BY <1>1, <2>2, <2>4, <2>5, <2>6, FolderKept DEF SavedInv
<1>7. CASE doing = <<Act("end", m)>> /\ (m \in unsaved \/ m \in owed \/ Kept(m))
  <2>1. Now = Act("end", m) /\ doing' = <<>>
    BY <1>1, <1>7, Lists
  <2>2. over' = over \cup {m} /\ UNCHANGED <<lines, torn, owed, saved, fetching, sending>>
    <3>1. Do(Act("end", m))
      BY <1>1, <2>1
    <3> QED
      BY <1>1, <3>1, DoEffects
  <2>3. \A n : Noted(n)' = Noted(n) /\ Mentioned(n)' = Mentioned(n)
    BY <2>2 DEF Noted, Mentioned, Lines
  <2>4. FileNotLost'
    BY <1>1, <1>7, <2>2, <2>3 DEF SavedInv, FileNotLost, Kept
  <2>5. lines' \in Seq(Line)' /\ torn' = FALSE
    BY <1>1, <2>2 DEF SavedInv, Line
  <2>6. \A n : Known(n)' = Known(n)
    BY <1>1, <2>3 DEF Known
  <2> QED
    BY <2>1, <2>2, <2>4, <2>5, <2>6 DEF SavedInv
<1>8. CASE doing = <<Act("send", m)>> /\ Known(m)
  <2>1. Now = Act("send", m) /\ doing' = <<>>
    BY <1>1, <1>8, Lists
  <2>2. sending' = sending \cup {m} /\ UNCHANGED <<lines, torn, owed, saved, fetching, over>>
    <3>1. Do(Act("send", m))
      BY <1>1, <2>1
    <3> QED
      BY <1>1, <3>1, DoEffects
  <2>3. \A n \in Mail : fetching'[n] > 0 \/ n \in sending' => Known(n)'
    BY <1>1, <1>8, <2>2, KnownStays DEF SavedInv
  <2> QED
    BY <1>1, <2>1, <2>2, <2>3, FolderKept DEF SavedInv
<1> QED
  BY <1>2, <1>3, <1>4, <1>5, <1>6, <1>7, <1>8 DEF Operating

LEMMA TailKeeps ==
  ASSUME SavedInv, Proceed, NEW m \in Mail, Fetched(m)
  PROVE  SavedInv'
<1>1. /\ Do(Now) /\ doing' = Tail(doing) /\ UNCHANGED <<unsaved, kept_pending>> /\ Now = Head(doing)
      /\ torn = FALSE
  BY DEF Proceed, Now, SavedInv
<1>2. CASE doing = Tail_(m) /\ Known(m)
  <2>1. Now = Act("copy", m) /\ doing' = <<Act("list", m), Act("settle", m)>>
    BY <1>1, <1>2, Lists DEF Tail_
  <2>2. saved' = saved \cup {m} /\ UNCHANGED <<lines, torn, owed, over, fetching, sending>>
    <3>1. Do(Act("copy", m))
      BY <1>1, <2>1
    <3> QED
      BY <1>1, <3>1, DoEffects
  <2>3. Fetched(m)'
    BY <1>1, <1>2, <2>1, <2>2, KnownStays DEF Fetched
  <2> QED
    BY <1>1, <2>2, <2>3, CopyKeeps
<1>3. CASE doing = <<Act("list", m), Act("settle", m)>> /\ Known(m) /\ m \in saved
  <2>1. Now = Act("list", m) /\ doing' = <<Act("settle", m)>>
    BY <1>1, <1>3, Lists
  <2>2. /\ lines' = Append(lines, [kind |-> "file", m |-> m]) /\ torn' = FALSE
        /\ UNCHANGED <<owed, saved, over, fetching, sending>>
    <3>1. Do(Act("list", m))
      BY <1>1, <2>1
    <3> QED
      BY <1>1, <3>1, DoEffects
  <2>3. m \in unsaved \/ Mentioned(m)'
    BY <1>3, <2>2, LineAppended DEF SavedInv, Known
  <2>4. Fetched(m)'
    BY <1>1, <1>3, <2>1, <2>2, <2>3 DEF Fetched, Kept
  <2> QED
    BY <1>1, <2>2, <2>4, LineKeeps
<1>4. CASE doing = <<Act("settle", m)>> /\ (m \in unsaved \/ Kept(m))
  <2>1. Now = Act("settle", m) /\ doing' = <<>>
    BY <1>1, <1>4, Lists
  <2>2. owed' = owed \ {m} /\ UNCHANGED <<lines, torn, saved, over, fetching, sending>>
    <3>1. Do(Act("settle", m))
      BY <1>1, <2>1
    <3> QED
      BY <1>1, <3>1, DoEffects
  <2>3. \A n : Noted(n)' = Noted(n) /\ Mentioned(n)' = Mentioned(n)
    BY <2>2 DEF Noted, Mentioned, Lines
  <2>4. FileNotLost'
    BY <1>1, <1>4, <2>2, <2>3 DEF SavedInv, FileNotLost, Kept
  <2>5. lines' \in Seq(Line)' /\ torn' = FALSE
    BY <1>1, <2>2 DEF SavedInv, Line
  <2>6. \A n : Known(n)' = Known(n)
    BY <1>1, <2>3 DEF Known
  <2> QED
    BY <2>1, <2>2, <2>4, <2>5, <2>6 DEF SavedInv
<1> QED
  BY <1>2, <1>3, <1>4 DEF Fetched

\* What changes neither the folder, nor a download or a send, nor the running code.
LEMMA SavedStutters ==
  ASSUME SavedInv, UNCHANGED <<lines, torn, owed, saved, fetching, doing, unsaved, callVars>>
  PROVE  SavedInv'
<1>1. \A m : (Operating(m) <=> Operating(m)') /\ (Fetched(m) <=> Fetched(m)')
  BY DEF callVars, Operating, Fetched, Known, Noted, Kept, Mentioned, Lines
<1>2. \A n \in Mail : fetching'[n] > 0 \/ n \in sending' => Known(n)'
  BY KnownStays DEF SavedInv, callVars
<1> QED
  BY <1>1, <1>2, FolderKept DEF SavedInv, callVars

LEMMA SaveStep ==
  ASSUME SavedInv, cuts = 0, cuts' = 0, [SaveNext]_saveVars
  PROVE  SavedInv'
<1>1. CASE UNCHANGED saveVars
  BY <1>1, SavedStutters DEF saveVars, callVars
<1>2. ASSUME NEW m \in Mail,
             Begin(m) \/ Answered(m) \/ StaysPending(m) \/ FetchEnds(m) \/ FetchFails(m)
      PROVE  SavedInv'
  BY <1>2, BeginKeeps, AnsweredKeeps, StaysPendingKeeps, FetchEndsKeeps, FetchFailsKeeps
<1>3. CASE Proceed
  BY <1>3, OperationKeeps, TailKeeps DEF Proceed, Busy, SavedInv
<1>4. CASE Raises
  BY <1>4, RaisesKeeps
<1>5. CASE Cancel \/ Die
  <2>1. /\ UNCHANGED <<lines, torn, owed, saved, over, kept_pending>>
        /\ unsaved \subseteq unsaved' /\ sending' \subseteq sending
        /\ fetching' = [m \in Mail |-> 0]
        /\ doing' = <<>>
    <3>1. CASE Cancel
      BY <3>1 DEF Cancel, Busy, diskVars, callVars
    <3>2. CASE Die
      <4>1. UNCHANGED <<lines, torn>>
        BY <3>2 DEF Die
      <4> QED
        BY <3>2, <4>1 DEF Die
    <3> QED
      BY <1>5, <3>1, <3>2
  <2>2. /\ fetching' \in [Mail -> Nat]
        /\ \A n \in Mail : fetching'[n] > 0 \/ n \in sending' => Known(n)'
    BY <2>1, KnownStays DEF SavedInv
  <2> QED
    BY <2>1, <2>2, FolderKept DEF SavedInv
<1>6. CASE LoadFolder \/ Disable \/ Enable
  BY <1>6, SavedStutters DEF LoadFolder, Disable, Enable, diskVars
<1>7. CASE Resume
  <2>1. /\ UNCHANGED <<lines, torn, owed, saved, unsaved, doing>> /\ doing = <<>>
        /\ UNCHANGED <<over, kept_pending, sending>>
        /\ fetching' = [m \in Mail |-> IF switch /\ m \in owed THEN fetching[m] + 1 ELSE fetching[m]]
    BY <1>7 DEF Resume, diskVars, callVars, Busy
  <2>2. fetching \in [Mail -> Nat]
    BY DEF SavedInv
  <2>3. /\ fetching' \in [Mail -> Nat]
        /\ \A m \in Mail : fetching'[m] > 0 => m \in owed \/ fetching[m] > 0
    BY <2>1, <2>2
  <2>4. \A n \in Mail : fetching'[n] > 0 \/ n \in sending' => Known(n)'
    BY <2>1, <2>3, KnownStays DEF SavedInv
  <2> QED
    BY <2>1, <2>3, <2>4, FolderKept DEF SavedInv
<1> QED
  BY <1>1, <1>2, <1>3, <1>4, <1>5, <1>6, <1>7 DEF SaveNext

\* As long as no crash has cut a line short, a message whose operation is over has its
\* file readable through the saved records, or its download is owed: whatever failed,
\* stopped or died between two steps of received(), sent(), sent_file() and _fetch. Left
\* out are those that a failure, the switch or SendPending kept from being saved.
THEOREM FilesStay == SaveSpec /\ [](cuts = 0) => []FileNotLost
<1>1. SaveInit => SavedInv
  BY DEF SaveInit, SavedInv, FileNotLost, Line
<1>2. SavedInv /\ cuts = 0 /\ (cuts = 0)' /\ [SaveNext]_saveVars => SavedInv'
  BY SaveStep
<1>3. SavedInv => FileNotLost
  BY DEF SavedInv
<1> QED
  BY <1>1, <1>2, <1>3, PTL DEF SaveSpec

=============================================================================
