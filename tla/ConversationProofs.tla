------------------------- MODULE ConversationProofs ------------------------
(***************************************************************************)
(* Theorems about Conversation, for every value of its constants.          *)
(***************************************************************************)
EXTENDS Conversation, FiniteSetTheorems, TLAPS

(***************************************************************************)
(* The strengthening that makes the type invariant inductive: an open chat *)
(* has a key to encrypt with, and the mailbox holds no more messages than  *)
(* were received.                                                          *)
(***************************************************************************)
KeyHeld == \A p \in Side : Open(p) => keys[p].key # NoKey
MailCounted ==
  \A p \in Side : Len(pending_deliveries[p]) <= seq[p].in_seq_no

TypeInv == TypeOK /\ KeyHeld /\ MailCounted

----------------------------------------------------------------------------
(* The values the operators build *)

LEMMA PeerType == \A p \in Side : Peer(p) \in Side
BY DEF Side, Peer

LEMMA RawType == \A n \in Nat : raw_seq_no(n) \in Nat
BY DEF raw_seq_no

LEMMA RawOutType == \A w \in Wrapper : RawOut(w) \in Nat /\ RawIn(w) \in Nat
BY RawType DEF RawOut, RawIn, Wrapper

LEMMA TransformType ==
  ASSUME NEW p \in Side, NEW raw \in Nat
  PROVE  /\ transform_in_seq_no(raw, p) \in Nat
         /\ transform_out_seq_no(raw, p) \in Nat
BY DEF transform_in_seq_no, transform_out_seq_no, OutX, InX

LEMMA OutgoingLayerType == \A n \in Nat : outgoing_layer(n) \in Nat
BY DEF outgoing_layer, MIN_LAYER, MAX_LAYER

LEMMA NewWrapperType ==
  ASSUME TypeOK, NEW p \in Side, NEW act \in Acts, NEW a \in Nat, NEW b \in Nat
  PROVE  NewWrapper(p, act, a, b) \in Wrapper
<1>1. seq[p] \in SeqState
  BY DEF TypeOK
<1>2. /\ seq[p].in_seq_no \in Nat /\ seq[p].out_seq_no \in Nat
      /\ seq[p].layer \in Nat
  BY <1>1 DEF SeqState
<1> QED
  BY <1>2, TransformType, OutgoingLayerType DEF NewWrapper, Wrapper

LEMMA WithdrawnType ==
  ASSUME NEW r \in Item, NEW key \in Nat
  PROVE  Withdrawn(r, key) \in Item
BY RawOutType DEF Item, Wrapper, Withdrawn, Acts

LEMMA TransmittedType ==
  ASSUME NEW r \in Item, NEW o, NEW key \in Nat
  PROVE  Transmitted(r, o, key) \in Item
<1>1. [r EXCEPT !.pending = FALSE] \in Item
  BY DEF Item
<1>2. [r EXCEPT !.failures = @ + 1] \in Item
  BY DEF Item
<1> QED
  BY <1>1, <1>2, WithdrawnType DEF Transmitted

LEMMA ImageFinite ==
  ASSUME NEW R, IsFiniteSet(R), NEW F, DOMAIN F = R
  PROVE  IsFiniteSet({F[r] : r \in R})
<1> DEFINE T == {F[r] : r \in R}
<1> DEFINE G == [r \in R |-> F[r]]
<1>1. G \in Surjection(R, T)
  BY DEF Surjection
<1> QED
  BY <1>1, FS_Surjection DEF ExistsSurjection

LEMMA RewriteType ==
  ASSUME NEW R \in SUBSET Item, IsFiniteSet(R), NEW raws, NEW key \in Nat
  PROVE  /\ rewrite_retained_as_deletes(R, raws, key) \in SUBSET Item
         /\ IsFiniteSet(rewrite_retained_as_deletes(R, raws, key))
<1> DEFINE g(r) == IF RawOut(r.w) \in raws THEN Withdrawn(r, key) ELSE r
<1>1. \A r \in R : g(r) \in Item
  BY WithdrawnType
<1>2. IsFiniteSet({g(r) : r \in R})
  <2> DEFINE F == [r \in R |-> g(r)]
  <2>1. DOMAIN F = R /\ {g(r) : r \in R} = {F[r] : r \in R}
    OBVIOUS
  <2> HIDE DEF F, g
  <2> QED BY <2>1, ImageFinite
<1> QED
  BY <1>1, <1>2 DEF rewrite_retained_as_deletes
----------------------------------------------------------------------------
(* Key fields *)

LEMMA NoneType ==
  NoKey \in Key /\ Nat \subseteq Key /\ NoExchange \in Int /\ Nat \subseteq Int
BY DEF Key, NoKey, NoExchange

LEMMA ClearType ==
  ASSUME NEW k \in KeyState
  PROVE  /\ clear(k) \in KeyState /\ clear(k).key = k.key
         /\ Scrubbed(k) \in KeyState
<1>1. clear(k) \in KeyState /\ clear(k).key = k.key
  BY NoneType DEF clear, KeyState, Role
<1> QED
  BY <1>1, NoneType DEF Scrubbed, KeyState

LEMMA RequestedType ==
  ASSUME NEW k \in KeyState, NEW e \in Nat
  PROVE  Requested(k, e) \in KeyState /\ Requested(k, e).key = k.key
BY NoneType DEF Requested, KeyState, Role

LEMMA AdoptType ==
  ASSUME NEW k \in KeyState, NEW new \in Nat
  PROVE  adopt_new_key(k, new) \in KeyState /\ adopt_new_key(k, new).key = new
BY NoneType, ClearType DEF adopt_new_key, KeyState

LEMMA AcceptedType ==
  ASSUME NEW k \in KeyState, NEW new \in Nat, NEW e \in Nat
  PROVE  Accepted(k, e, new) \in KeyState /\ Accepted(k, e, new).key = k.key
BY NoneType DEF Accepted, KeyState, Role

LEMMA CommittedType ==
  ASSUME NEW k \in KeyState, k.pending_key # NoKey
  PROVE  Committed(k) \in KeyState /\ Committed(k).key = k.pending_key
<1>1. k.pending_key \in Nat
  BY DEF KeyState, Key
<1>2. /\ adopt_new_key(k, k.pending_key) \in KeyState
      /\ adopt_new_key(k, k.pending_key).key = k.pending_key
  BY <1>1, AdoptType
<1> QED
  BY <1>2 DEF Committed, KeyState

LEMMA WitnessedType ==
  ASSUME NEW k \in KeyState, NEW named \in Nat, NEW gap \in BOOLEAN, k.key # NoKey
  PROVE  LET new == retire_previous_key_if_settled(Witnessed(k, named), gap)
         IN new \in KeyState /\ new.key # NoKey
<1>1. /\ adopt_new_key(k, named) \in KeyState
      /\ adopt_new_key(k, named).key = named
  BY AdoptType DEF NoKey
<1>2. Witnessed(k, named) \in KeyState /\ Witnessed(k, named).key # NoKey
  BY <1>1 DEF Witnessed, KeyState, NoKey
<1> QED
  BY <1>2 DEF retire_previous_key_if_settled, KeyState, Key, NoKey

----------------------------------------------------------------------------
(* The parts the actions share *)

LEMMA CommitStep ==
  ASSUME TypeInv, NEW p \in Side, NEW act \in Acts, NEW a \in Nat, NEW b \in Nat,
         NEW key \in Nat, NEW new \in KeyState, new.key \in Nat,
         NEW st \in {"ready", "rekeying"}, NEW o \in AnyOutcome,
         Commit(p, act, a, b, key, new, st, o),
         seq' \in [Side -> SeqState],
         \A q \in Side : seq'[q].in_seq_no = seq[q].in_seq_no,
         todo' \in [Side -> Seq(Step)], minted' \in Nat, handed' \in [Side -> Nat]
  PROVE  TypeInv'
<1> DEFINE r == [w |-> NewWrapper(p, act, a, b), key |-> key,
                 pending |-> TRUE, failures |-> 0]
<1> DEFINE t == Transmitted(r, o, new.key)
<1>1. r \in Item
  BY NewWrapperType DEF Item, TypeInv
<1>2. t \in Item
  BY <1>1, TransmittedType
<1>3. FrameOf(p, r) \in Frame
  BY <1>1, PeerType DEF FrameOf, Frame, Item
<1> HIDE DEF r, t
<1>4. /\ keys' = [keys EXCEPT ![p] = new]
      /\ state' = [state EXCEPT ![p] = st]
      /\ retained_out' = [retained_out EXCEPT ![p] = @ \cup {t}]
      /\ net' = net \cup (IF Arrives(o) THEN {FrameOf(p, r)} ELSE {})
      /\ sent' = [sent EXCEPT ![p] = Append(@, [act |-> act, a |-> a, b |-> b])]
      /\ faults' = IF o = "ok" THEN faults ELSE faults + 1
      /\ faults' <= MaxFaults
      /\ UNCHANGED <<closed_reason, queue_in, pending_deliveries, boot, crashes>>
  BY DEF Commit, r, t
<1>5. /\ retained_out' \in [Side -> SUBSET Item]
      /\ \A q \in Side : IsFiniteSet(retained_out'[q])
  <2>1. \A q \in Side : retained_out[q] \in SUBSET Item /\ IsFiniteSet(retained_out[q])
    BY DEF TypeInv, TypeOK
  <2>2. IsFiniteSet(retained_out[p] \cup {t})
    BY <2>1, FS_AddElement
  <2> QED
    BY <1>2, <1>4, <2>1, <2>2 DEF TypeInv, TypeOK
<1>6. net' \subseteq Frame
  BY <1>3, <1>4 DEF TypeInv, TypeOK
<1>7. sent' \in [Side -> Seq([act : Acts, a : Nat, b : Nat])]
  <2> DEFINE M == [act : Acts, a : Nat, b : Nat]
  <2>1. [act |-> act, a |-> a, b |-> b] \in M
    OBVIOUS
  <2>2. sent[p] \in Seq(M)
    BY DEF TypeInv, TypeOK
  <2>3. Append(sent[p], [act |-> act, a |-> a, b |-> b]) \in Seq(M)
    BY <2>1, <2>2
  <2> QED
    BY <1>4, <2>3 DEF TypeInv, TypeOK
<1>8. faults' \in 0 .. MaxFaults
  BY <1>4, BoundsAssumption DEF TypeInv, TypeOK
<1>9. KeyHeld'
  <2>1. /\ keys \in [Side -> KeyState] /\ state \in [Side -> {"ready", "rekeying", "closed"}]
        /\ \A q \in Side : state[q] # "closed" => keys[q].key # NoKey
    BY DEF TypeInv, TypeOK, KeyHeld, Open
  <2>2. new.key # NoKey
    BY DEF NoKey
  <2>3. \A q \in Side : /\ keys'[q] = IF q = p THEN new ELSE keys[q]
                        /\ state'[q] = IF q = p THEN st ELSE state[q]
    BY <1>4, <2>1
  <2> QED
    BY <2>1, <2>2, <2>3 DEF KeyHeld, Open
<1>10. MailCounted'
  BY <1>4 DEF TypeInv, MailCounted
<1> QED
  BY <1>4, <1>5, <1>6, <1>7, <1>8, <1>9, <1>10 DEF TypeInv, TypeOK

LEMMA CounterType ==
  ASSUME TypeOK, NEW p \in Side
  PROVE  seq[p] \in SeqState /\ seq[p].in_seq_no \in Nat
<1>1. seq[p] \in SeqState
  BY DEF TypeOK
<1> QED
  BY <1>1 DEF SeqState

LEMMA CountOne ==
  ASSUME NEW c \in SeqState
  PROVE  /\ [c EXCEPT !.out_seq_no = @ + 1] \in SeqState
         /\ [c EXCEPT !.out_seq_no = @ + 1].in_seq_no = c.in_seq_no
BY DEF SeqState

LEMMA CountedType ==
  ASSUME TypeOK, NEW p \in Side, seq' = Counted(p)
  PROVE  /\ seq' \in [Side -> SeqState]
         /\ \A q \in Side : seq'[q].in_seq_no = seq[q].in_seq_no
<1>1. seq \in [Side -> SeqState]
  BY DEF TypeOK
<1> DEFINE c == [seq[p] EXCEPT !.out_seq_no = @ + 1]
<1>2. c \in SeqState /\ c.in_seq_no = seq[p].in_seq_no
  BY <1>1 DEF SeqState
<1>3. seq' = [seq EXCEPT ![p] = c]
  BY <1>1 DEF Counted
<1> HIDE DEF c
<1> QED
  BY <1>1, <1>2, <1>3

LEMMA CloseType ==
  ASSUME TypeInv, NEW p \in Side, NEW reason \in Reasons, CloseChat(p, reason),
         net' \subseteq Frame, UNCHANGED history, faults' \in 0 .. MaxFaults,
         UNCHANGED crashes
  PROVE  TypeInv'
<1> USE DEF CloseChat, TypeInv
<1>1. keys' \in [Side -> KeyState]
  BY ClearType DEF TypeOK
<1>2. /\ retained_out' \in [Side -> SUBSET Item]
      /\ \A q \in Side : IsFiniteSet(retained_out'[q])
  BY FS_EmptySet DEF TypeOK
<1>3. /\ pending_deliveries' \in [Side -> Seq(Wrapper)]
      /\ todo' \in [Side -> Seq(Step)]
  BY DEF TypeOK
<1>4. TypeOK'
  BY <1>1, <1>2, <1>3 DEF TypeOK, history
<1>5. KeyHeld'
  BY DEF KeyHeld, Open, TypeOK
<1>6. MailCounted'
  <2>1. \A q \in Side : seq[q].in_seq_no \in Nat
    BY DEF TypeOK, SeqState
  <2>2. \A q \in Side : pending_deliveries'[q] = IF q = p THEN <<>> ELSE pending_deliveries[q]
    BY DEF TypeOK
  <2> QED
    BY <2>1, <2>2 DEF MailCounted
<1> QED
  BY <1>4, <1>5, <1>6

LEMMA OpenFacts ==
  ASSUME TypeInv, NEW p \in Side, Open(p)
  PROVE  keys[p] \in KeyState /\ keys[p].key \in Nat /\ state[p] \in {"ready", "rekeying"}
BY DEF TypeInv, TypeOK, KeyHeld, Open, KeyState, Key

LEMMA GoOnType ==
  ASSUME TypeOK, NEW p \in Side, NEW o, NEW rest \in Seq(Step), GoOn(p, o, rest)
  PROVE  todo' \in [Side -> Seq(Step)]
BY DEF GoOn, TypeOK

LEMMA AtFacts ==
  ASSUME TypeOK, NEW p \in Side, NEW step, At(p, step)
  PROVE  /\ todo[p] # <<>> /\ todo[p] \in Seq(Step) /\ Tail(todo[p]) \in Seq(Step)
         /\ Head(todo[p]) \in Step /\ Head(todo[p]).do = step
         /\ Open(p)
BY DEF TypeOK, At

LEMMA PlanType ==
  ASSUME NEW mail, NEW answer, NEW due, NEW switched
  PROVE  Plan(mail, answer, due, switched) \in Seq(Step)
<1>1. \A s \in Steps : Do(s) \in Step
  BY DEF Do, Step
<1>2. /\ <<Do("drain")>> \in Seq(Step) /\ <<Do("retry")>> \in Seq(Step)
      /\ <<Do("ask")>> \in Seq(Step) /\ <<Do("noop")>> \in Seq(Step)
      /\ <<>> \in Seq(Step)
  BY <1>1 DEF Steps
<1>3. \A s, t \in Seq(Step) : s \o t \in Seq(Step)
  OBVIOUS
<1> QED
  BY <1>2, <1>3 DEF Plan

LEMMA MailFacts ==
  ASSUME TypeInv, NEW p \in Side, Draining(p)
  PROVE  /\ Open(p) /\ pending_deliveries[p] # <<>> /\ Mail(p) \in Wrapper
         /\ MailNumber(p) \in Nat
<1>1. Open(p) /\ pending_deliveries[p] # <<>> /\ pending_deliveries[p] \in Seq(Wrapper)
  BY DEF TypeInv, TypeOK, Draining, At
<1>2. Mail(p) \in Wrapper
  BY <1>1 DEF Mail
<1>3. seq[p].in_seq_no \in Nat /\ Len(pending_deliveries[p]) \in Nat
  BY <1>1 DEF TypeInv, TypeOK, SeqState
<1>4. Len(pending_deliveries[p]) <= seq[p].in_seq_no
  BY DEF TypeInv, MailCounted
<1> QED
  BY <1>1, <1>2, <1>3, <1>4 DEF MailNumber

LEMMA HandOverType ==
  ASSUME TypeInv, NEW p \in Side, Draining(p), HandOver(p)
  PROVE  todo' \in [Side -> Seq(Step)] /\ handed' \in [Side -> Nat]
<1>1. Tail(todo[p]) \in Seq(Step)
  BY AtFacts DEF Draining, TypeInv
<1>2. <<Do("pop")>> \in Seq(Step)
  BY DEF Do, Step, Steps
<1>3. <<Do("pop")>> \o Tail(todo[p]) \in Seq(Step)
  BY <1>1, <1>2
<1>4. MailNumber(p) + 1 \in Nat
  BY MailFacts
<1> QED
  BY <1>3, <1>4 DEF HandOver, TypeInv, TypeOK

LEMMA ReplyType ==
  ASSUME TypeInv, NEW p \in Side, Draining(p),
         NEW act \in Acts, NEW a \in Nat, NEW b \in Nat,
         NEW key \in Nat, NEW new \in KeyState, new.key \in Nat,
         NEW st \in {"ready", "rekeying"},
         Reply(p, act, a, b, key, new, st), minted' \in Nat
  PROVE  TypeInv'
<1>1. PICK o \in AnyOutcome :
        /\ Commit(p, act, a, b, key, new, st, o)
        /\ IF Confirmed(o) THEN HandOver(p)
           ELSE /\ todo' = [todo EXCEPT ![p] = <<>>]
                /\ UNCHANGED handed
  BY DEF Reply
<1>2. todo' \in [Side -> Seq(Step)] /\ handed' \in [Side -> Nat]
  <2>1. CASE Confirmed(o)
    BY <1>1, <2>1, HandOverType
  <2>2. CASE ~ Confirmed(o)
    <3>1. todo' = [todo EXCEPT ![p] = <<>>] /\ handed' = handed
      BY <1>1, <2>2
    <3>2. todo \in [Side -> Seq(Step)] /\ handed \in [Side -> Nat]
      BY DEF TypeInv, TypeOK
    <3> QED
      BY <3>1, <3>2
  <2> QED
    BY <2>1, <2>2
<1>3. /\ seq' \in [Side -> SeqState]
      /\ \A q \in Side : seq'[q].in_seq_no = seq[q].in_seq_no
  <2>1. TypeOK /\ seq' = Counted(p)
    BY DEF Reply, TypeInv
  <2> QED
    BY <2>1, CountedType
<1>4. Commit(p, act, a, b, key, new, st, o)
  BY <1>1
<1> QED
  BY <1>2, <1>3, <1>4, CommitStep

LEMMA UnansweredType ==
  ASSUME TypeInv, NEW p \in Side, Draining(p), Unanswered(p)
  PROVE  TypeInv'
<1>1. todo' \in [Side -> Seq(Step)] /\ handed' \in [Side -> Nat]
  BY HandOverType DEF Unanswered
<1>2. TypeOK'
  BY <1>1 DEF Unanswered, TypeInv, TypeOK, chatVars, storeVars, budget
<1>3. KeyHeld' /\ MailCounted'
  BY DEF Unanswered, TypeInv, KeyHeld, MailCounted, Open, chatVars, storeVars
<1> QED
  BY <1>2, <1>3 DEF TypeInv

----------------------------------------------------------------------------
(* Receiving *)

LEMMA StoredType ==
  ASSUME NEW w \in Wrapper
  PROVE  Stored(w) \in Wrapper /\ RawOut(Stored(w)) = RawOut(w)
BY DEF Stored, Wrapper, Acts, RawOut

LEMMA NextMissingFacts ==
  ASSUME NEW Q \in SUBSET Wrapper, NEW n \in Nat, NEW m \in NextMissing(Q, n)
  PROVE  /\ m \in Nat /\ m > n
         /\ \A j \in (n + 1) .. (m - 1) : \E x \in Q : RawOut(x) = j
BY RawOutType DEF NextMissing

LEMMA TakenType ==
  ASSUME NEW Q \in SUBSET Wrapper, NEW w \in Wrapper,
         NEW m \in NextMissing(Q, RawOut(w)), NEW j \in RawOut(w) .. (m - 1)
  PROVE  Taken(Q, w, j) \in Wrapper /\ RawOut(Taken(Q, w, j)) = j
<1>1. CASE j = RawOut(w)
  BY <1>1 DEF Taken
<1>2. CASE j # RawOut(w)
  <2>1. RawOut(w) \in Nat
    BY RawOutType
  <2>2. m \in Nat /\ j \in (RawOut(w) + 1) .. (m - 1)
    BY <1>2, <2>1, NextMissingFacts
  <2>3. \E x \in Q : RawOut(x) = j
    BY <2>1, <2>2, NextMissingFacts
  <2> QED
    BY <1>2, <2>3 DEF Taken
<1> QED
  BY <1>1, <1>2

LEMMA ReadyType ==
  ASSUME NEW Q \in SUBSET Wrapper, NEW w \in Wrapper,
         NEW m \in NextMissing(Q, RawOut(w))
  PROVE  /\ Ready(Q, w, m) \in Seq(Wrapper)
         /\ Len(Ready(Q, w, m)) = m - RawOut(w)
         /\ \A i \in 1 .. (m - RawOut(w)) :
              RawOut(Ready(Q, w, m)[i]) = RawOut(w) + i - 1
<1>1. RawOut(w) \in Nat /\ m \in Nat /\ m > RawOut(w)
  BY RawOutType, NextMissingFacts
<1>2. \A i \in 1 .. (m - RawOut(w)) : RawOut(w) + i - 1 \in RawOut(w) .. (m - 1)
  BY <1>1
<1>3. \A i \in 1 .. (m - RawOut(w)) :
        /\ Taken(Q, w, RawOut(w) + i - 1) \in Wrapper
        /\ RawOut(Taken(Q, w, RawOut(w) + i - 1)) = RawOut(w) + i - 1
  BY <1>2, TakenType
<1>4. m - RawOut(w) \in Nat
  BY <1>1
<1>5. Ready(Q, w, m) \in [1 .. (m - RawOut(w)) -> Wrapper]
  BY <1>3 DEF Ready
<1>6. /\ Ready(Q, w, m) \in Seq(Wrapper)
      /\ Len(Ready(Q, w, m)) = m - RawOut(w)
  BY <1>4, <1>5
<1> QED
  BY <1>3, <1>6 DEF Ready

LEMMA RaiseType == \A m, n \in Nat : raise_remote_layer(m, n) \in Nat
BY DEF raise_remote_layer

LEMMA AcceptEarlyType ==
  ASSUME NEW c \in SeqState, NEW w \in Wrapper
  PROVE  accept_early(c, w) \in SeqState /\ accept_early(c, w).in_seq_no = c.in_seq_no
<1> DEFINE heard == [c EXCEPT !.layer = raise_remote_layer(@, w.layer)]
<1> DEFINE due == [start |-> 2 * c.in_seq_no + (w.out_seq_no % 2),
                   end |-> w.out_seq_no - 2]
<1>1. heard \in SeqState /\ heard.in_seq_no = c.in_seq_no
  BY RaiseType DEF SeqState, Wrapper
<1>2. due \in Span
  BY DEF SeqState, Wrapper, Span
<1>3. RawOut(w) \in Int
  BY RawOutType
<1>4. accept_early(c, w) =
        IF c.gap_requested THEN heard
        ELSE [heard EXCEPT !.gap_requested = TRUE, !.gap_end = RawOut(w),
                           !.resend_due = due]
  BY DEF accept_early
<1> HIDE DEF heard, due
<1> QED
  BY <1>1, <1>2, <1>3, <1>4 DEF SeqState

LEMMA AcceptNextType ==
  ASSUME NEW c \in SeqState, NEW Q \in SUBSET Wrapper, NEW w \in Wrapper,
         NEW m \in NextMissing(Q, RawOut(w)), NEW first \in FirstWaiting(Q, m)
  PROVE  /\ accept_next(c, Q, w, m, first) \in SeqState
         /\ accept_next(c, Q, w, m, first).in_seq_no = m
<1> DEFINE last == Taken(Q, w, m - 1)
<1> DEFINE x == w.out_seq_no % 2
<1> DEFINE moved == [c EXCEPT !.layer = raise_remote_layer(@, w.layer),
                              !.peer_in_seq_no = RawIn(last),
                              !.wrapper_layer = last.layer,
                              !.in_seq_no = m]
<1> DEFINE due == [start |-> 2 * m + x, end |-> 2 * (first - 1) + x]
<1>1. m \in Nat /\ m > RawOut(w) /\ RawOut(w) \in Nat
  BY RawOutType, NextMissingFacts
<1>2. last \in Wrapper
  BY <1>1, TakenType
<1>3. RawIn(last) \in Nat /\ last.layer \in Nat
  BY <1>2, RawOutType DEF Wrapper
<1>4. moved \in SeqState /\ moved.in_seq_no = m
  <2> HIDE DEF last
  <2> QED BY <1>1, <1>3, RaiseType DEF SeqState, Wrapper
<1>5. first \in Int
  BY RawOutType DEF FirstWaiting, Waiting, NoGap
<1>6. due \in Span /\ NoSpan \in Span /\ NoGap \in Int
  BY <1>1, <1>5 DEF Span, NoSpan, NoGap, Wrapper
<1>7. accept_next(c, Q, w, m, first) =
        IF first = NoGap
          THEN [moved EXCEPT !.gap_requested = FALSE, !.gap_end = NoGap,
                             !.resend_due = NoSpan]
        ELSE IF c.gap_end = NoGap \/ m >= c.gap_end
          THEN [moved EXCEPT !.gap_requested = TRUE, !.gap_end = first,
                             !.resend_due = due]
        ELSE moved
  BY DEF accept_next
<1> HIDE DEF moved, due
<1> QED
  BY <1>4, <1>5, <1>6, <1>7 DEF SeqState

LEMMA ReceiptType ==
  ASSUME TypeInv, NEW p \in Side, Open(p), NEW f \in Frame,
         NEW c \in SeqState, NEW ready \in Seq(Wrapper),
         c.in_seq_no = seq[p].in_seq_no + Len(ready),
         queue_in' \in [Side -> SUBSET Wrapper],
         Receipt(p, f, c, ready)
  PROVE  TypeInv'
<1> DEFINE R == retained_out[p]
<1> DEFINE answer == IF f.w.act = "resend" THEN answer_resend(R, f.w.a, f.w.b) ELSE {}
<1> DEFINE kept == forget_acknowledged(p, R, c.peer_in_seq_no)
<1> DEFINE switched == keys[p].pending_key # NoKey /\ f.key = keys[p].pending_key
<1> DEFINE mail == pending_deliveries[p] \o ready
<1> DEFINE again == {[r EXCEPT !.pending = TRUE] : r \in answer}
<1> DEFINE out == (kept \ answer) \cup again
<1> DEFINE new == retire_previous_key_if_settled(Witnessed(keys[p], f.key), c.gap_requested)
<1>1. /\ seq' = [seq EXCEPT ![p] = c]
      /\ keys' = [keys EXCEPT ![p] = new]
      /\ state' = IF switched THEN [state EXCEPT ![p] = "ready"] ELSE state
      /\ retained_out' = [retained_out EXCEPT ![p] = out]
      /\ pending_deliveries' = [pending_deliveries EXCEPT ![p] = mail]
      /\ todo' = [todo EXCEPT ![p] = Plan(mail, answer, c.resend_due, switched)]
      /\ UNCHANGED <<closed_reason, boot, net, minted, sent, handed, faults, crashes>>
  BY DEF Receipt, Mailed, history, budget, TypeInv, TypeOK
<1>2. out \in SUBSET Item /\ IsFiniteSet(out)
  <2>1. R \in SUBSET Item /\ IsFiniteSet(R)
    BY DEF TypeInv, TypeOK
  <2>2. kept \in SUBSET R /\ answer \in SUBSET R
    BY DEF forget_acknowledged, answer_resend
  <2>3. again \in SUBSET Item
    BY <2>1, <2>2 DEF Item
  <2>4. IsFiniteSet(answer) /\ IsFiniteSet(kept)
    <3> HIDE DEF answer, kept, R
    <3> QED BY <2>1, <2>2, FS_Subset
  <2>5. IsFiniteSet(again)
    <3> DEFINE F == [r \in answer |-> [r EXCEPT !.pending = TRUE]]
    <3> HIDE DEF answer
    <3>1. DOMAIN F = answer /\ again = {F[r] : r \in answer}
      OBVIOUS
    <3> HIDE DEF F, again
    <3> QED BY <2>4, <3>1, ImageFinite
  <2>6. IsFiniteSet(kept \ answer)
    <3> HIDE DEF answer, kept
    <3>1. kept \ answer \in SUBSET kept
      OBVIOUS
    <3> QED BY <2>4, <3>1, FS_Subset
  <2> HIDE DEF answer, kept, again, R
  <2> QED
    BY <2>1, <2>2, <2>3, <2>5, <2>6, FS_Union
<1>3. new \in KeyState /\ new.key # NoKey
  <2>1. keys[p] \in KeyState /\ keys[p].key # NoKey
    BY DEF TypeInv, TypeOK, KeyHeld
  <2>2. f.key \in Nat /\ c.gap_requested \in BOOLEAN
    BY DEF Frame, SeqState
  <2> QED
    BY <2>1, <2>2, WitnessedType
<1>4. mail \in Seq(Wrapper) /\ Len(mail) = Len(pending_deliveries[p]) + Len(ready)
  <2>1. pending_deliveries[p] \in Seq(Wrapper)
    BY DEF TypeInv, TypeOK
  <2> QED
    BY <2>1
<1>5. Plan(mail, answer, c.resend_due, switched) \in Seq(Step)
  BY PlanType
<1> HIDE DEF out, new, mail, answer, switched
<1>6. TypeOK'
  BY <1>1, <1>2, <1>3, <1>4, <1>5 DEF TypeInv, TypeOK
<1>7. KeyHeld'
  <2>1. \A q \in Side : /\ keys'[q] = IF q = p THEN new ELSE keys[q]
                        /\ q # p => state'[q] = state[q]
    BY <1>1 DEF TypeInv, TypeOK
  <2> QED
    BY <1>3, <2>1 DEF TypeInv, KeyHeld, Open
<1>8. MailCounted'
  <2>1. \A q \in Side :
          /\ pending_deliveries'[q] = IF q = p THEN mail ELSE pending_deliveries[q]
          /\ seq'[q] = IF q = p THEN c ELSE seq[q]
          /\ Len(pending_deliveries[q]) <= seq[q].in_seq_no
    BY <1>1 DEF TypeInv, TypeOK, MailCounted
  <2>2. seq[p].in_seq_no \in Nat /\ Len(pending_deliveries[p]) \in Nat /\ Len(ready) \in Nat
    <3>1. seq[p] \in SeqState /\ pending_deliveries[p] \in Seq(Wrapper)
      BY DEF TypeInv, TypeOK
    <3>2. seq[p].in_seq_no \in Nat
      BY <3>1 DEF SeqState
    <3>3. \A s \in Seq(Wrapper) : Len(s) \in Nat
      OBVIOUS
    <3> QED
      BY <3>1, <3>2, <3>3
  <2>3. Len(mail) <= c.in_seq_no
    BY <1>4, <2>1, <2>2
  <2>4. \A q \in Side : Len(pending_deliveries'[q]) <= seq'[q].in_seq_no
    BY <2>1, <2>3
  <2> QED
    BY <2>4 DEF MailCounted
<1> QED
  BY <1>6, <1>7, <1>8 DEF TypeInv

----------------------------------------------------------------------------
(* The actions, one by one *)

LEMMA SendStep ==
  ASSUME TypeInv, NEW p \in Side, Open(p), NEW act \in Acts, NEW a \in Nat,
         NEW b \in Nat, NEW o \in AnyOutcome,
         Commit(p, act, a, b, keys[p].key, keys[p], state[p], o),
         seq' \in [Side -> SeqState],
         \A q \in Side : seq'[q].in_seq_no = seq[q].in_seq_no,
         todo' \in [Side -> Seq(Step)], UNCHANGED <<minted, handed>>
  PROVE  TypeInv'
<1>1. keys[p] \in KeyState /\ keys[p].key \in Nat /\ state[p] \in {"ready", "rekeying"}
  BY OpenFacts
<1>2. minted' \in Nat /\ handed' \in [Side -> Nat]
  BY DEF TypeInv, TypeOK
<1> QED
  BY <1>1, <1>2, CommitStep

LEMMA SendType ==
  ASSUME TypeInv, NEW p \in Side
  PROVE  /\ SendMessage(p) => TypeInv'
         /\ NotifyLayer(p) => TypeInv'
         /\ ConfirmSwitch(p) => TypeInv'
         /\ SendDelete(p) => TypeInv'
<1>0. TypeOK
  BY DEF TypeInv
<1>1. ASSUME SendMessage(p) PROVE TypeInv'
  <2>1. PICK o \in AnyOutcome :
          Commit(p, "msg", 0, 0, keys[p].key, keys[p], state[p], o)
    BY <1>1 DEF SendMessage
  <2>2. Open(p) /\ seq' = Counted(p) /\ UNCHANGED <<todo, minted, handed>>
    BY <1>1 DEF SendMessage, Idle
  <2>3. todo' \in [Side -> Seq(Step)] /\ "msg" \in Acts
    BY <1>0, <2>2 DEF TypeOK, Acts
  <2>9. /\ seq' \in [Side -> SeqState]
        /\ \A q \in Side : seq'[q].in_seq_no = seq[q].in_seq_no
    BY <1>0, <2>2, CountedType
  <2> QED
    BY <2>1, <2>2, <2>3, <2>9, SendStep
<1>2. ASSUME NotifyLayer(p) PROVE TypeInv'
  <2>1. PICK o \in AnyOutcome :
          Commit(p, "notify", MAX_LAYER, 0, keys[p].key, keys[p], state[p], o)
    BY <1>2 DEF NotifyLayer
  <2>2. Open(p) /\ seq' = Counted(p) /\ UNCHANGED <<todo, minted, handed>>
    BY <1>2 DEF NotifyLayer, Idle
  <2>3. todo' \in [Side -> Seq(Step)] /\ "notify" \in Acts
    BY <1>0, <2>2 DEF TypeOK, Acts
  <2>9. /\ seq' \in [Side -> SeqState]
        /\ \A q \in Side : seq'[q].in_seq_no = seq[q].in_seq_no
    BY <1>0, <2>2, CountedType
  <2>4. MAX_LAYER \in Nat
    BY DEF MAX_LAYER
  <2> QED
    BY <2>1, <2>2, <2>3, <2>4, <2>9, SendStep
<1>3. ASSUME ConfirmSwitch(p) PROVE TypeInv'
  <2>1. PICK o \in AnyOutcome :
          /\ Commit(p, "noop", 0, 0, keys[p].key, keys[p], state[p], o)
          /\ GoOn(p, o, Tail(todo[p]))
    BY <1>3 DEF ConfirmSwitch
  <2>2. At(p, "noop") /\ seq' = Counted(p) /\ UNCHANGED <<minted, handed>>
    BY <1>3 DEF ConfirmSwitch
  <2>3. Open(p) /\ Tail(todo[p]) \in Seq(Step)
    BY <1>0, <2>2, AtFacts
  <2>4. todo' \in [Side -> Seq(Step)]
    BY <1>0, <2>1, <2>3, GoOnType
  <2>5. /\ seq' \in [Side -> SeqState]
        /\ \A q \in Side : seq'[q].in_seq_no = seq[q].in_seq_no
    BY <1>0, <2>2, CountedType
  <2>6. "noop" \in Acts
    BY DEF Acts
  <2> QED
    BY <2>1, <2>2, <2>3, <2>4, <2>5, <2>6, SendStep
<1>4. ASSUME SendDelete(p) PROVE TypeInv'
  <2> DEFINE step == Head(todo[p])
  <2>1. PICK o \in AnyOutcome :
          /\ Commit(p, step.do, step.arg, 0, keys[p].key, keys[p], state[p], o)
          /\ GoOn(p, o, Tail(todo[p]))
    BY <1>4 DEF SendDelete
  <2>2. /\ At(p, "delete") \/ At(p, "flush")
        /\ seq' = Counted(p) /\ UNCHANGED <<minted, handed>>
    BY <1>4 DEF SendDelete
  <2>3. /\ Open(p) /\ Tail(todo[p]) \in Seq(Step) /\ step \in Step
        /\ step.do \in {"delete", "flush"}
    BY <1>0, <2>2, AtFacts
  <2>4. todo' \in [Side -> Seq(Step)]
    BY <1>0, <2>1, <2>3, GoOnType
  <2>5. /\ seq' \in [Side -> SeqState]
        /\ \A q \in Side : seq'[q].in_seq_no = seq[q].in_seq_no
    BY <1>0, <2>2, CountedType
  <2>6. step.arg \in Nat /\ step.do \in Acts
    BY <2>3 DEF Step, Acts
  <2> HIDE DEF step
  <2> QED
    BY <2>1, <2>2, <2>3, <2>4, <2>5, <2>6, SendStep
<1> QED
  BY <1>1, <1>2, <1>3, <1>4

LEMMA StartRekeyType ==
  ASSUME TypeInv, NEW p \in Side, StartRekey(p)
  PROVE  TypeInv'
<1>0. TypeOK
  BY DEF TypeInv
<1>1. PICK e \in ExchangeIds[p], o \in AnyOutcome :
        /\ Commit(p, "request", e, 0, keys[p].key, Requested(keys[p], e), "rekeying", o)
        /\ GoOn(p, o, todo[p])
  BY DEF StartRekey
<1>2. Open(p) /\ seq' = Counted(p) /\ UNCHANGED <<minted, handed>>
  BY DEF StartRekey, Idle, At
<1>3. e \in Nat
  BY BoundsAssumption
<1>4. todo[p] \in Seq(Step)
  BY <1>0 DEF TypeOK
<1>5. todo' \in [Side -> Seq(Step)]
  BY <1>0, <1>1, <1>4, GoOnType
<1>6. minted' \in Nat /\ handed' \in [Side -> Nat]
  BY <1>0, <1>2 DEF TypeOK
<1>7. Requested(keys[p], e) \in KeyState /\ Requested(keys[p], e).key \in Nat
  BY <1>2, <1>3, OpenFacts, RequestedType
<1>8. /\ seq' \in [Side -> SeqState]
      /\ \A q \in Side : seq'[q].in_seq_no = seq[q].in_seq_no
  BY <1>0, <1>2, CountedType
<1>9. keys[p].key \in Nat /\ "request" \in Acts
  BY <1>2, OpenFacts DEF Acts
<1> QED
  BY <1>1, <1>3, <1>5, <1>6, <1>7, <1>8, <1>9, CommitStep

LEMMA AskType ==
  ASSUME TypeInv, NEW p \in Side, Ask(p)
  PROVE  TypeInv'
<1>0. TypeOK /\ KeyHeld /\ MailCounted
  BY DEF TypeInv
<1> DEFINE due == seq[p].resend_due
<1>1. /\ At(p, "ask") /\ Open(p) /\ Tail(todo[p]) \in Seq(Step)
      /\ seq[p] \in SeqState /\ seq \in [Side -> SeqState]
  BY <1>0, AtFacts DEF Ask, TypeOK
<1>2. due \in Span /\ NoSpan \in Span /\ seq[p].in_seq_no \in Nat
  BY <1>1 DEF SeqState, Span, NoSpan
<1>3. CASE due = NoSpan \/ MissingFrom(seq[p]) > due.end
  <2>1. /\ seq' = [seq EXCEPT ![p].resend_due = NoSpan]
        /\ todo' = [todo EXCEPT ![p] = Tail(@)]
        /\ UNCHANGED <<state, closed_reason, keys, queue_in, retained_out,
                       pending_deliveries, boot, net, minted, sent, handed,
                       faults, crashes>>
    BY <1>3 DEF Ask, storeVars, history, budget
  <2>2. /\ seq' \in [Side -> SeqState]
        /\ \A q \in Side : seq'[q].in_seq_no = seq[q].in_seq_no
    BY <1>1, <1>2, <2>1 DEF SeqState
  <2>3. TypeOK'
    BY <1>0, <1>1, <2>1, <2>2 DEF TypeOK
  <2>4. KeyHeld' /\ MailCounted'
    BY <1>0, <2>1, <2>2 DEF KeyHeld, MailCounted, Open
  <2> QED
    BY <2>3, <2>4 DEF TypeInv
<1>4. CASE ~ (due = NoSpan \/ MissingFrom(seq[p]) > due.end)
  <2>1. PICK o \in AnyOutcome :
          /\ Commit(p, "resend", MissingFrom(seq[p]), due.end, keys[p].key,
                    keys[p], state[p], o)
          /\ GoOn(p, o, Tail(todo[p]))
    BY <1>4 DEF Ask
  <2>2. /\ seq' = [Counted(p) EXCEPT ![p].resend_due = NoSpan]
        /\ UNCHANGED <<minted, handed>>
    BY <1>4 DEF Ask
  <2>3. MissingFrom(seq[p]) \in Nat /\ due.end \in Nat
    <3>1. due.start \in Int /\ due.end \in Int
      BY <1>2 DEF Span
    <3>2. MissingFrom(seq[p]) \in Nat
      BY <1>2, <3>1 DEF MissingFrom
    <3> QED
      BY <1>4, <3>1, <3>2
  <2>4. todo' \in [Side -> Seq(Step)]
    BY <1>0, <1>1, <2>1, GoOnType
  <2>5. /\ seq' \in [Side -> SeqState]
        /\ \A q \in Side : seq'[q].in_seq_no = seq[q].in_seq_no
    <3> DEFINE c == [seq[p] EXCEPT !.out_seq_no = @ + 1, !.resend_due = NoSpan]
    <3>1. c \in SeqState /\ c.in_seq_no = seq[p].in_seq_no
      <4> DEFINE d == [seq[p] EXCEPT !.out_seq_no = @ + 1]
      <4>1. d \in SeqState /\ d.in_seq_no = seq[p].in_seq_no
        BY <1>1, CountOne
      <4>2. c = [d EXCEPT !.resend_due = NoSpan]
        BY <1>1 DEF SeqState
      <4> HIDE DEF c, d
      <4> QED
        BY <1>2, <4>1, <4>2 DEF SeqState
    <3>2. seq' = [seq EXCEPT ![p] = c]
      BY <1>1, <2>2 DEF Counted
    <3> HIDE DEF c
    <3> QED
      BY <1>1, <3>1, <3>2
  <2>6. "resend" \in Acts
    BY DEF Acts
  <2> HIDE DEF due
  <2> QED
    BY <1>1, <2>1, <2>2, <2>3, <2>4, <2>5, <2>6, SendStep
<1> QED
  BY <1>3, <1>4

LEMMA ForgetType ==
  ASSUME TypeInv, NEW p \in Side, Open(p), NEW raws, Forget(p, raws)
  PROVE  /\ retained_out' \in [Side -> SUBSET Item]
         /\ \A q \in Side : IsFiniteSet(retained_out'[q])
<1> DEFINE out == rewrite_retained_as_deletes(retained_out[p], raws, keys[p].key)
<1>1. /\ retained_out \in [Side -> SUBSET Item]
      /\ \A q \in Side : IsFiniteSet(retained_out[q])
  BY DEF TypeInv, TypeOK
<1>2. out \in SUBSET Item /\ IsFiniteSet(out)
  BY <1>1, RewriteType, OpenFacts
<1>3. retained_out' = [retained_out EXCEPT ![p] = out]
  BY <1>1 DEF Forget
<1> HIDE DEF out
<1> QED
  BY <1>1, <1>2, <1>3

LEMMA WithdrawType ==
  ASSUME TypeInv, NEW p \in Side
  PROVE  /\ BeginDelete(p) => TypeInv'
         /\ BeginFlush(p) => TypeInv'
         /\ DeliverFlush(p) => TypeInv'
<1>0. TypeOK /\ KeyHeld /\ MailCounted
  BY DEF TypeInv
<1>1. ASSUME BeginDelete(p) PROVE TypeInv'
  <2>1. PICK i \in SentActs(p, {"msg"}) :
          /\ Forget(p, {i - 1})
          /\ todo' = [todo EXCEPT ![p] = <<[do |-> "delete", arg |-> i - 1]>>]
    BY <1>1 DEF BeginDelete
  <2>2. /\ Open(p)
        /\ UNCHANGED <<chatVars, queue_in, pending_deliveries, boot, net, history, budget>>
    BY <1>1 DEF BeginDelete, Idle
  <2>3. i - 1 \in Nat
    <3>1. sent[p] \in Seq([act : Acts, a : Nat, b : Nat])
      BY <1>0 DEF TypeOK
    <3>2. i \in 1 .. Len(sent[p]) /\ Len(sent[p]) \in Nat
      BY <3>1 DEF SentActs
    <3> QED
      BY <3>2
  <2>4. <<[do |-> "delete", arg |-> i - 1]>> \in Seq(Step)
    BY <2>3 DEF Step, Steps
  <2>5. /\ retained_out' \in [Side -> SUBSET Item]
        /\ \A q \in Side : IsFiniteSet(retained_out'[q])
    BY <2>1, <2>2, ForgetType
  <2>6. TypeOK'
    BY <1>0, <2>1, <2>2, <2>4, <2>5 DEF TypeOK, chatVars, history, budget
  <2>7. KeyHeld' /\ MailCounted'
    BY <1>0, <2>2 DEF KeyHeld, MailCounted, Open, chatVars
  <2> QED
    BY <2>6, <2>7 DEF TypeInv
<1>2. ASSUME BeginFlush(p) PROVE TypeInv'
  <2>1. /\ Open(p) /\ Forget(p, AllRaws(p))
        /\ todo' = [todo EXCEPT ![p] = <<Do("flush")>>]
        /\ UNCHANGED <<chatVars, queue_in, pending_deliveries, boot, net, history, budget>>
    BY <1>2 DEF BeginFlush, Idle
  <2>2. <<Do("flush")>> \in Seq(Step)
    BY DEF Do, Step, Steps
  <2>3. /\ retained_out' \in [Side -> SUBSET Item]
        /\ \A q \in Side : IsFiniteSet(retained_out'[q])
    BY <2>1, ForgetType
  <2>4. TypeOK'
    BY <1>0, <2>1, <2>2, <2>3 DEF TypeOK, chatVars, history, budget
  <2>5. KeyHeld' /\ MailCounted'
    BY <1>0, <2>1 DEF KeyHeld, MailCounted, Open, chatVars
  <2> QED
    BY <2>4, <2>5 DEF TypeInv
<1>3. ASSUME DeliverFlush(p) PROVE TypeInv'
  <2>1. /\ Draining(p) /\ Forget(p, AllRaws(p)) /\ HandOver(p)
        /\ UNCHANGED <<chatVars, queue_in, pending_deliveries, boot, net, minted, sent, budget>>
    BY <1>3 DEF DeliverFlush
  <2>2. Open(p)
    BY <2>1, MailFacts
  <2>3. /\ retained_out' \in [Side -> SUBSET Item]
        /\ \A q \in Side : IsFiniteSet(retained_out'[q])
    BY <2>1, <2>2, ForgetType
  <2>4. todo' \in [Side -> Seq(Step)] /\ handed' \in [Side -> Nat]
    BY <2>1, HandOverType
  <2>5. TypeOK'
    BY <1>0, <2>1, <2>3, <2>4 DEF TypeOK, chatVars, budget
  <2>6. KeyHeld' /\ MailCounted'
    BY <1>0, <2>1 DEF KeyHeld, MailCounted, Open, chatVars
  <2> QED
    BY <2>5, <2>6 DEF TypeInv
<1> QED
  BY <1>1, <1>2, <1>3

LEMMA DeliverPlainType ==
  ASSUME TypeInv, NEW p \in Side
  PROVE  /\ DeliverPlain(p) => TypeInv'
         /\ DeliverNotifyLayer(p) => TypeInv'
         /\ Pop(p) => TypeInv'
<1>0. TypeOK /\ KeyHeld /\ MailCounted
  BY DEF TypeInv
<1>1. ASSUME DeliverPlain(p) PROVE TypeInv'
  <2>1. /\ Draining(p) /\ HandOver(p)
        /\ UNCHANGED <<chatVars, storeVars, boot, net, minted, sent, budget>>
    BY <1>1 DEF DeliverPlain
  <2>2. todo' \in [Side -> Seq(Step)] /\ handed' \in [Side -> Nat]
    BY <2>1, HandOverType
  <2>3. TypeOK'
    BY <1>0, <2>1, <2>2 DEF TypeOK, chatVars, storeVars, budget
  <2>4. KeyHeld' /\ MailCounted'
    BY <1>0, <2>1 DEF KeyHeld, MailCounted, Open, chatVars, storeVars
  <2> QED
    BY <2>3, <2>4 DEF TypeInv
<1>2. ASSUME DeliverNotifyLayer(p) PROVE TypeInv'
  <2>1. /\ Draining(p) /\ HandOver(p)
        /\ seq' = [seq EXCEPT ![p].layer = raise_remote_layer(@, Mail(p).a)]
        /\ UNCHANGED <<state, closed_reason, keys, storeVars, boot, net, minted, sent, budget>>
    BY <1>2 DEF DeliverNotifyLayer
  <2>2. todo' \in [Side -> Seq(Step)] /\ handed' \in [Side -> Nat]
    BY <2>1, HandOverType
  <2>3. Mail(p).a \in Nat
    BY <2>1, MailFacts DEF Wrapper
  <2>4. /\ seq' \in [Side -> SeqState]
        /\ \A q \in Side : seq'[q].in_seq_no = seq[q].in_seq_no
    <3> DEFINE n == raise_remote_layer(seq[p].layer, Mail(p).a)
    <3>1. seq \in [Side -> SeqState]
      BY <1>0 DEF TypeOK
    <3>2. n \in Nat
      BY <2>3, <3>1, RaiseType DEF SeqState
    <3>3. seq' = [seq EXCEPT ![p].layer = n]
      BY <2>1, <3>1
    <3> HIDE DEF n
    <3> QED
      BY <3>1, <3>2, <3>3 DEF SeqState
  <2>5. TypeOK'
    BY <1>0, <2>1, <2>2, <2>4 DEF TypeOK, storeVars, budget
  <2>6. KeyHeld' /\ MailCounted'
    BY <1>0, <2>1, <2>4 DEF KeyHeld, MailCounted, Open, storeVars
  <2> QED
    BY <2>5, <2>6 DEF TypeInv
<1>3. ASSUME Pop(p) PROVE TypeInv'
  <2>1. /\ At(p, "pop") /\ pending_deliveries[p] # <<>>
        /\ pending_deliveries' = [pending_deliveries EXCEPT ![p] = Tail(@)]
        /\ keys' = keys \/ keys' = [keys EXCEPT ![p] = clear(@)]
        /\ state' = state \/ state' = [state EXCEPT ![p] = "ready"]
        /\ todo' = [todo EXCEPT ![p] =
                      IF Len(pending_deliveries[p]) = 1 THEN Tail(@)
                      ELSE <<Do("drain")>> \o Tail(@)]
        /\ UNCHANGED <<closed_reason, seq, queue_in, retained_out, boot, net,
                       history, budget>>
    BY <1>3 DEF Pop
  <2>2. Tail(todo[p]) \in Seq(Step) /\ <<Do("drain")>> \in Seq(Step)
    BY <1>0, <2>1, AtFacts DEF Do, Step, Steps
  <2>3. <<Do("drain")>> \o Tail(todo[p]) \in Seq(Step)
    BY <2>2
  <2>4. /\ pending_deliveries \in [Side -> Seq(Wrapper)]
        /\ Tail(pending_deliveries[p]) \in Seq(Wrapper)
        /\ Len(Tail(pending_deliveries[p])) = Len(pending_deliveries[p]) - 1
        /\ Len(pending_deliveries[p]) \in Nat
    BY <1>0, <2>1 DEF TypeOK
  <2>5. todo' \in [Side -> Seq(Step)]
    BY <1>0, <2>1, <2>2, <2>3 DEF TypeOK
  <2>9. /\ keys' \in [Side -> KeyState] /\ state' \in [Side -> {"ready", "rekeying", "closed"}]
        /\ \A q \in Side : state'[q] # "closed" => keys'[q].key # NoKey
    <3>1. /\ keys \in [Side -> KeyState] /\ state \in [Side -> {"ready", "rekeying", "closed"}]
          /\ \A q \in Side : state[q] # "closed" => keys[q].key # NoKey
          /\ state[p] # "closed" /\ keys[p] \in KeyState /\ keys[p].key # NoKey
      BY <1>0, <2>1 DEF TypeOK, KeyHeld, Open, At
    <3>2. clear(keys[p]) \in KeyState /\ clear(keys[p]).key # NoKey
      BY <3>1, ClearType
    <3>3. keys' \in [Side -> KeyState] /\ \A q \in Side : q # p => keys'[q] = keys[q]
      BY <2>1, <3>1, <3>2
    <3>4. keys'[p].key # NoKey
      BY <2>1, <3>1, <3>2
    <3>5. /\ state' \in [Side -> {"ready", "rekeying", "closed"}]
          /\ \A q \in Side : q # p => state'[q] = state[q]
      BY <2>1, <3>1
    <3> QED
      BY <3>1, <3>3, <3>4, <3>5
  <2>6. TypeOK'
    BY <1>0, <2>1, <2>4, <2>5, <2>9 DEF TypeOK, history, budget
  <2>7. MailCounted'
    <3>1. seq[p].in_seq_no \in Nat
      BY <1>0, CounterType
    <3>2. \A q \in Side : pending_deliveries'[q] =
            IF q = p THEN Tail(pending_deliveries[p]) ELSE pending_deliveries[q]
      BY <2>1, <2>4
    <3>3. \A q \in Side : Len(pending_deliveries[q]) <= seq[q].in_seq_no
      BY <1>0 DEF MailCounted
    <3>4. Len(Tail(pending_deliveries[p])) <= seq[p].in_seq_no
      BY <2>4, <3>1, <3>3
    <3>5. \A q \in Side : Len(pending_deliveries'[q]) <= seq[q].in_seq_no
      BY <3>2, <3>3, <3>4
    <3> QED
      BY <2>1, <3>5 DEF MailCounted
  <2>8. KeyHeld'
    BY <2>9 DEF KeyHeld, Open
  <2> QED
    BY <2>6, <2>7, <2>8 DEF TypeInv
<1> QED
  BY <1>1, <1>2, <1>3

LEMMA ExchangeType ==
  ASSUME TypeInv, NEW p \in Side
  PROVE  /\ DeliverRequestKey(p) => TypeInv'
         /\ DeliverAcceptKey(p) => TypeInv'
         /\ DeliverCommitKey(p) => TypeInv'
         /\ DeliverAbortKey(p) => TypeInv'
<1> DEFINE k == keys[p]
<1>0. TypeOK /\ minted \in Nat
  BY DEF TypeInv, TypeOK
<1>1. ASSUME Draining(p)
      PROVE  /\ k \in KeyState /\ k.key \in Nat /\ k.key # NoKey
             /\ state[p] \in {"ready", "rekeying"}
             /\ Mail(p) \in Wrapper /\ Mail(p).a \in Nat /\ Mail(p).b \in Nat
  <2>1. Open(p) /\ Mail(p) \in Wrapper
    BY <1>1, MailFacts
  <2>2. k \in KeyState /\ k.key \in Nat /\ state[p] \in {"ready", "rekeying"}
    BY <2>1, OpenFacts
  <2> QED
    BY <2>1, <2>2 DEF Wrapper, NoKey
<1>2. /\ "abort" \in Acts /\ "accept" \in Acts /\ "commit" \in Acts
      /\ "noop" \in Acts /\ 0 \in Nat
      /\ "ready" \in {"ready", "rekeying"} /\ "rekeying" \in {"ready", "rekeying"}
  BY DEF Acts
<1>3. ASSUME DeliverRequestKey(p) PROVE TypeInv'
  <2> DEFINE e == Mail(p).a
  <2>1. Draining(p)
    BY <1>3 DEF DeliverRequestKey
  <2>2. CASE Reply(p, "abort", e, 0, k.key, k, state[p]) /\ UNCHANGED minted
    BY <1>0, <1>1, <1>2, <2>1, <2>2, ReplyType
  <2>3. CASE Unanswered(p)
    BY <2>1, <2>3, UnansweredType
  <2>5. CASE /\ minted' = minted + 1
             /\ Reply(p, "accept", e, minted', k.key, Accepted(k, e, minted'), "rekeying")
    <3>1. minted + 1 \in Nat /\ minted' \in Nat
      BY <1>0, <2>5
    <3>2. /\ Accepted(k, e, minted + 1) \in KeyState
          /\ Accepted(k, e, minted + 1).key \in Nat
      BY <1>1, <2>1, <3>1, AcceptedType
    <3>3. Reply(p, "accept", e, minted + 1, k.key, Accepted(k, e, minted + 1), "rekeying")
      BY <2>5
    <3> HIDE DEF k, e
    <3> QED
      BY <1>1, <1>2, <2>1, <3>1, <3>2, <3>3, ReplyType DEF e, k
  <2> QED
    BY <1>3, <2>2, <2>3, <2>5 DEF DeliverRequestKey
<1>4. ASSUME DeliverAcceptKey(p) PROVE TypeInv'
  <2>1. Draining(p)
    BY <1>4 DEF DeliverAcceptKey
  <2>2. CASE Unanswered(p)
    BY <2>1, <2>2, UnansweredType
  <2>3. CASE /\ Reply(p, "commit", Mail(p).a, Mail(p).b, k.key,
                      adopt_new_key(k, Mail(p).b), "ready")
             /\ UNCHANGED minted
    <3>1. /\ adopt_new_key(k, Mail(p).b) \in KeyState
          /\ adopt_new_key(k, Mail(p).b).key \in Nat
      BY <1>1, <2>1, AdoptType
    <3>2. minted' \in Nat
      BY <1>0, <2>3
    <3> QED
      BY <1>1, <1>2, <2>1, <2>3, <3>1, <3>2, ReplyType
  <2> QED
    BY <1>4, <2>2, <2>3 DEF DeliverAcceptKey
<1>5. ASSUME DeliverCommitKey(p) PROVE TypeInv'
  <2>1. Draining(p)
    BY <1>5 DEF DeliverCommitKey
  <2>2. CASE Unanswered(p)
    BY <2>1, <2>2, UnansweredType
  <2>3. CASE /\ CommitMatches(k, Mail(p))
             /\ Reply(p, "noop", 0, 0, k.pending_key, Committed(k), "ready")
             /\ UNCHANGED minted
    <3>1. k.pending_key \in Nat /\ k.pending_key # NoKey
      BY <1>1, <2>1, <2>3 DEF CommitMatches, KeyState, Key
    <3>2. Committed(k) \in KeyState /\ Committed(k).key \in Nat
      BY <1>1, <2>1, <3>1, CommittedType
    <3>3. minted' \in Nat
      BY <1>0, <2>3
    <3> QED
      BY <1>2, <2>1, <2>3, <3>1, <3>2, <3>3, ReplyType
  <2>4. CASE CloseChat(p, "commit") /\ UNCHANGED <<net, history, budget>>
    <3>1. /\ net' \subseteq Frame /\ UNCHANGED history
          /\ faults' \in 0 .. MaxFaults /\ UNCHANGED crashes
      BY <1>0, <2>4 DEF TypeOK, budget
    <3> QED
      BY <2>4, <3>1, CloseType DEF Reasons
  <2> QED
    BY <1>5, <2>2, <2>3, <2>4 DEF DeliverCommitKey
<1>6. ASSUME DeliverAbortKey(p) PROVE TypeInv'
  BY <1>6, UnansweredType DEF DeliverAbortKey
<1> QED
  BY <1>3, <1>4, <1>5, <1>6

LEMMA RetryType ==
  ASSUME TypeInv, NEW p \in Side
  PROVE  /\ RetryPending(p) => TypeInv'
         /\ RetryNothing(p) => TypeInv'
<1>0. TypeOK /\ KeyHeld /\ MailCounted
  BY DEF TypeInv
<1>1. ASSUME RetryPending(p) PROVE TypeInv'
  <2> DEFINE P == Pending(p)
  <2>1. PICK o \in [P -> AnyOutcome] :
          LET fatal == {r \in P : EndsChat(r, o[r])}
              tried == {r \in P : \A x \in fatal : r.w.out_seq_no <= x.w.out_seq_no}
              failed == {r \in tried : ~ Confirmed(o[r])}
          IN /\ faults' = faults + Cardinality({r \in P : o[r] # "ok"})
             /\ faults' <= MaxFaults
             /\ net' = net \cup {FrameOf(p, r) : r \in {x \in tried : Arrives(o[x])}}
             /\ \/ /\ fatal = {}
                   /\ retained_out' = [retained_out EXCEPT ![p] =
                        (@ \ P) \cup {Transmitted(r, o[r], keys[p].key) : r \in P}]
                   /\ todo' = [todo EXCEPT ![p] =
                                 IF failed = {} THEN Retried(p) ELSE <<>>]
                   /\ UNCHANGED <<chatVars, queue_in, pending_deliveries, boot>>
                \/ /\ fatal # {}
                   /\ CloseChat(p, "rejected")
    BY <1>1 DEF RetryPending
  <2>2. Retrying(p) /\ UNCHANGED <<history, crashes>>
    BY <1>1 DEF RetryPending
  <2>3. Open(p) /\ keys[p].key \in Nat
    <3>1. Open(p)
      BY <2>2 DEF Retrying, Idle, At, Draining
    <3> QED
      BY <3>1, OpenFacts
  <2>4. /\ P \in SUBSET retained_out[p] /\ P \in SUBSET Item /\ IsFiniteSet(P)
        /\ IsFiniteSet(retained_out[p]) /\ retained_out[p] \in SUBSET Item
    <3>1. /\ IsFiniteSet(retained_out[p]) /\ retained_out[p] \in SUBSET Item
          /\ P \in SUBSET retained_out[p]
      BY <1>0 DEF TypeOK, Pending
    <3> QED
      BY <3>1, FS_Subset
  <2>5. faults' \in 0 .. MaxFaults
    <3> DEFINE B == {r \in P : o[r] # "ok"}
    <3>1. B \in SUBSET P
      OBVIOUS
    <3> HIDE DEF B, P
    <3>2. Cardinality(B) \in Nat
      BY <2>4, <3>1, FS_Subset, FS_CardinalityType
    <3>3. faults' = faults + Cardinality(B) /\ faults' <= MaxFaults
      BY <2>1 DEF B
    <3>4. faults \in Nat /\ MaxFaults \in Nat
      BY <1>0, BoundsAssumption DEF TypeOK
    <3> QED
      BY <3>2, <3>3, <3>4
  <2>6. net' \subseteq Frame
    <3>1. \A r \in P : FrameOf(p, r) \in Frame
      BY <2>4, PeerType DEF FrameOf, Frame, Item
    <3> HIDE DEF P
    <3>2. net' \subseteq net \cup {FrameOf(p, r) : r \in P}
      BY <2>1
    <3> QED
      BY <1>0, <3>1, <3>2 DEF TypeOK
  <2>7. CASE CloseChat(p, "rejected")
    BY <2>2, <2>5, <2>6, <2>7, CloseType DEF Reasons
  <2>8. CASE /\ retained_out' = [retained_out EXCEPT ![p] =
                  (@ \ P) \cup {Transmitted(r, o[r], keys[p].key) : r \in P}]
             /\ \/ todo' = [todo EXCEPT ![p] = Retried(p)]
                \/ todo' = [todo EXCEPT ![p] = <<>>]
             /\ UNCHANGED <<chatVars, queue_in, pending_deliveries, boot>>
    <3> DEFINE T == {Transmitted(r, o[r], keys[p].key) : r \in P}
    <3> DEFINE out == (retained_out[p] \ P) \cup T
    <3>1. T \in SUBSET Item
      BY <2>3, <2>4, TransmittedType
    <3>2. IsFiniteSet(T)
      <4> DEFINE F == [r \in P |-> Transmitted(r, o[r], keys[p].key)]
      <4> HIDE DEF P
      <4>1. DOMAIN F = P /\ T = {F[r] : r \in P}
        OBVIOUS
      <4> HIDE DEF F, T
      <4> QED
        BY <2>4, <4>1, ImageFinite
    <3>3. IsFiniteSet(retained_out[p] \ P)
      <4>1. (retained_out[p] \ P) \in SUBSET retained_out[p]
        OBVIOUS
      <4> HIDE DEF P
      <4> QED
        BY <2>4, <4>1, FS_Subset
    <3>4. out \in SUBSET Item /\ IsFiniteSet(out)
      <4> HIDE DEF T, P
      <4> QED
        BY <2>4, <3>1, <3>2, <3>3, FS_Union
    <3>5. retained_out' = [retained_out EXCEPT ![p] = out]
      BY <2>8
    <3>6. todo' \in [Side -> Seq(Step)]
      <4>1. Retried(p) \in Seq(Step)
        <5>1. todo[p] \in Seq(Step)
          BY <1>0 DEF TypeOK
        <5> QED
          BY <1>0, <5>1, AtFacts DEF Retried
      <4>2. todo \in [Side -> Seq(Step)] /\ <<>> \in Seq(Step)
        BY <1>0 DEF TypeOK
      <4>3. CASE todo' = [todo EXCEPT ![p] = Retried(p)]
        BY <4>1, <4>2, <4>3
      <4>4. CASE todo' = [todo EXCEPT ![p] = <<>>]
        BY <4>2, <4>4
      <4> QED
        BY <2>8, <4>3, <4>4
    <3> HIDE DEF out
    <3>7. TypeOK'
      BY <1>0, <2>2, <2>5, <2>6, <2>8, <3>4, <3>5, <3>6 DEF TypeOK, chatVars, history
    <3>8. KeyHeld' /\ MailCounted'
      BY <1>0, <2>8 DEF KeyHeld, MailCounted, Open, chatVars
    <3> QED
      BY <3>7, <3>8 DEF TypeInv
  <2> HIDE DEF P
  <2> QED
    BY <2>1, <2>7, <2>8
<1>2. ASSUME RetryNothing(p) PROVE TypeInv'
  <2>1. /\ At(p, "retry") /\ todo' = [todo EXCEPT ![p] = Tail(@)]
        /\ UNCHANGED <<chatVars, storeVars, boot, net, history, budget>>
    BY <1>2 DEF RetryNothing
  <2>2. Tail(todo[p]) \in Seq(Step)
    BY <1>0, <2>1, AtFacts
  <2>3. TypeOK'
    BY <1>0, <2>1, <2>2 DEF TypeOK, chatVars, storeVars, history, budget
  <2>4. KeyHeld' /\ MailCounted'
    BY <1>0, <2>1 DEF KeyHeld, MailCounted, Open, chatVars, storeVars
  <2> QED
    BY <2>3, <2>4 DEF TypeInv
<1> QED
  BY <1>1, <1>2

LEMMA ReceiveType ==
  ASSUME TypeInv, NEW p \in Side, NEW f \in net
  PROVE  /\ ReceiveNext(p, f) => TypeInv'
         /\ ReceiveEarly(p, f) => TypeInv'
         /\ ReceiveRefused(p, f) => TypeInv'
         /\ ReceiveIgnored(p, f) => TypeInv'
<1>0. TypeOK /\ KeyHeld /\ MailCounted
  BY DEF TypeInv
<1>1. f \in Frame /\ f.w \in Wrapper /\ RawOut(f.w) \in Nat
  BY <1>0, RawOutType DEF TypeOK, Frame
<1>2. /\ queue_in \in [Side -> SUBSET Wrapper] /\ queue_in[p] \in SUBSET Wrapper
      /\ seq[p] \in SeqState /\ seq[p].in_seq_no \in Nat
  BY <1>0, CounterType DEF TypeOK
<1>3. Stored(f.w) \in Wrapper /\ RawOut(Stored(f.w)) = RawOut(f.w)
  BY <1>1, StoredType
<1>4. ASSUME ReceiveNext(p, f) PROVE TypeInv'
  <2> DEFINE Q == queue_in[p]
  <2>1. PICK m \in NextMissing(Q, RawOut(f.w)) :
          /\ queue_in' = [queue_in EXCEPT ![p] = Waiting(@, m)]
          /\ \E first \in FirstWaiting(Q, m) :
               Receipt(p, f, accept_next(seq[p], Q, f.w, m, first),
                       Ready(Q, Stored(f.w), m))
    BY <1>4 DEF ReceiveNext
  <2>2. PICK first \in FirstWaiting(Q, m) :
          Receipt(p, f, accept_next(seq[p], Q, f.w, m, first), Ready(Q, Stored(f.w), m))
    BY <2>1
  <2>3. Open(p) /\ RawOut(f.w) = seq[p].in_seq_no
    BY <1>4 DEF ReceiveNext, Idle
  <2>4. queue_in' \in [Side -> SUBSET Wrapper]
    <3>1. Waiting(Q, m) \in SUBSET Wrapper
      BY <1>2 DEF Waiting
    <3> QED
      BY <1>2, <2>1, <3>1
  <2> DEFINE c == accept_next(seq[p], Q, f.w, m, first)
  <2> DEFINE ready == Ready(Q, Stored(f.w), m)
  <2>5. c \in SeqState /\ c.in_seq_no = m
    <3> HIDE DEF Q
    <3> QED BY <1>1, <1>2, AcceptNextType DEF Q
  <2>6. ready \in Seq(Wrapper) /\ Len(ready) = m - RawOut(f.w)
    <3>1. m \in NextMissing(Q, RawOut(Stored(f.w)))
      BY <1>3
    <3> QED
      BY <1>2, <1>3, <3>1, ReadyType
  <2>7. m \in Nat
    BY <1>1, <1>2, NextMissingFacts
  <2>8. c.in_seq_no = seq[p].in_seq_no + Len(ready)
    BY <1>2, <2>3, <2>5, <2>6, <2>7
  <2>9. Receipt(p, f, c, ready)
    BY <2>2
  <2> HIDE DEF c, ready
  <2> QED
    BY <1>1, <2>3, <2>4, <2>5, <2>6, <2>8, <2>9, ReceiptType
<1>5. ASSUME ReceiveEarly(p, f) PROVE TypeInv'
  <2> DEFINE c == accept_early(seq[p], f.w)
  <2>1. /\ Open(p)
        /\ queue_in' = [queue_in EXCEPT ![p] = @ \cup {Stored(f.w)}]
        /\ Receipt(p, f, c, <<>>)
    BY <1>5 DEF ReceiveEarly, Idle
  <2>2. c \in SeqState /\ c.in_seq_no = seq[p].in_seq_no
    BY <1>1, <1>2, AcceptEarlyType
  <2>3. /\ <<>> \in Seq(Wrapper) /\ Len(<<>>) = 0
        /\ seq[p].in_seq_no + Len(<<>>) = seq[p].in_seq_no
    BY <1>2
  <2>4. queue_in' \in [Side -> SUBSET Wrapper]
    BY <1>2, <1>3, <2>1
  <2> HIDE DEF c
  <2> QED
    BY <1>1, <2>1, <2>2, <2>3, <2>4, ReceiptType
<1>6. ASSUME ReceiveRefused(p, f) PROVE TypeInv'
  <2>1. /\ CloseChat(p, Refusal(p, f))
        /\ UNCHANGED <<net, history, budget>>
    BY <1>6 DEF ReceiveRefused
  <2>2. Refusal(p, f) \in Reasons
    BY DEF Refusal, Reasons
  <2>3. /\ net' \subseteq Frame /\ UNCHANGED history
        /\ faults' \in 0 .. MaxFaults /\ UNCHANGED crashes
    BY <1>0, <2>1 DEF TypeOK, budget
  <2> QED
    BY <2>1, <2>2, <2>3, CloseType
<1>7. ASSUME ReceiveIgnored(p, f) PROVE TypeInv'
  BY <1>0, <1>7 DEF ReceiveIgnored, TypeInv, TypeOK, KeyHeld, MailCounted, Open, vars,
     chatVars, storeVars, runVars, history, budget
<1> QED
  BY <1>4, <1>5, <1>6, <1>7

LEMMA CloseStep ==
  ASSUME TypeInv, NEW p \in Side
  PROVE  /\ Close(p) => TypeInv'
         /\ Discarded(p) => TypeInv'
<1>1. ASSUME NEW reason \in Reasons, CloseChat(p, reason), UNCHANGED <<net, history, budget>>
      PROVE  TypeInv'
  <2>1. /\ net' \subseteq Frame /\ UNCHANGED history
        /\ faults' \in 0 .. MaxFaults /\ UNCHANGED crashes
    BY <1>1 DEF TypeInv, TypeOK, budget
  <2> QED
    BY <1>1, <2>1, CloseType
<1>2. "application" \in Reasons /\ "peer" \in Reasons
  BY DEF Reasons
<1> QED
  BY <1>1, <1>2 DEF Close, Discarded

LEMMA LifecycleType ==
  ASSUME TypeInv, NEW p \in Side, Lifecycle(p)
  PROVE  TypeInv'
<1>0. TypeOK /\ KeyHeld /\ MailCounted
  BY DEF TypeInv
<1>1. CASE Crash(p)
  <2>1. TypeOK'
    <3>1. /\ crashes \in Nat /\ crashes < MaxCrashes /\ MaxCrashes \in Nat
          /\ crashes' = crashes + 1
      BY <1>0, <1>1, BoundsAssumption DEF Crash, TypeOK
    <3>2. crashes' \in 0 .. MaxCrashes
      BY <3>1
    <3>3. UNCHANGED <<chatVars, storeVars, net, history, faults>>
      BY <1>1 DEF Crash
    <3>4. todo' \in [Side -> Seq(Step)]
      BY <1>0, <1>1 DEF Crash, TypeOK
    <3>5. boot' \in [Side -> {"down", "drain", "work", "done"}]
      BY <1>0, <1>1 DEF Crash, TypeOK
    <3> QED
      BY <1>0, <3>2, <3>3, <3>4, <3>5 DEF TypeOK, chatVars, storeVars, history
  <2>2. KeyHeld' /\ MailCounted'
    BY <1>0, <1>1 DEF Crash, KeyHeld, MailCounted, Open, chatVars, storeVars
  <2> QED
    BY <2>1, <2>2 DEF TypeInv
<1>2. CASE Start(p)
  <2>1. TypeOK'
    BY <1>0, <1>2 DEF Start, TypeOK, chatVars, storeVars, history, budget
  <2>2. KeyHeld' /\ MailCounted'
    BY <1>0, <1>2 DEF Start, KeyHeld, MailCounted, Open, chatVars, storeVars
  <2> QED
    BY <2>1, <2>2 DEF TypeInv
<1>3. CASE ResumeDelivery(p)
  <2>1. Plan(pending_deliveries[p], {}, NoSpan, FALSE) \in Seq(Step)
    BY PlanType
  <2>2. TypeOK'
    BY <1>0, <1>3, <2>1 DEF ResumeDelivery, TypeOK, chatVars, storeVars, history, budget
  <2>3. KeyHeld' /\ MailCounted'
    BY <1>0, <1>3 DEF ResumeDelivery, KeyHeld, MailCounted, Open, chatVars, storeVars
  <2> QED
    BY <2>2, <2>3 DEF TypeInv
<1>4. CASE ResumeWork(p)
  <2>1. Plan(<<>>, Pending(p), seq[p].resend_due, FALSE) \in Seq(Step)
    BY PlanType
  <2>2. TypeOK'
    BY <1>0, <1>4, <2>1 DEF ResumeWork, TypeOK, chatVars, storeVars, history, budget
  <2>3. KeyHeld' /\ MailCounted'
    BY <1>0, <1>4 DEF ResumeWork, KeyHeld, MailCounted, Open, chatVars, storeVars
  <2> QED
    BY <2>2, <2>3 DEF TypeInv
<1> QED
  BY <1>1, <1>2, <1>3, <1>4 DEF Lifecycle

----------------------------------------------------------------------------
(* Type correctness *)

LEMMA TypeInit == Init => TypeInv
<1> SUFFICES ASSUME Init PROVE TypeInv
  OBVIOUS
<1>1. InitialSeq \in SeqState /\ InitialSeq.in_seq_no = 0
  BY DEF InitialSeq, SeqState, Span, NoSpan, NoGap, INITIAL_REMOTE_LAYER
<1>2. InitialKeys \in KeyState /\ InitialKeys.key # NoKey
  BY NoneType DEF InitialKeys, KeyState, Key, Role, NoKey
<1>3. TypeOK
  BY <1>1, <1>2, FS_EmptySet, BoundsAssumption DEF Init, TypeOK, Reasons
<1>4. KeyHeld /\ MailCounted
  BY <1>1, <1>2 DEF Init, KeyHeld, MailCounted
<1> QED
  BY <1>3, <1>4 DEF TypeInv

LEMMA TypeNext == TypeInv /\ [Next]_vars => TypeInv'
<1> SUFFICES ASSUME TypeInv, [Next]_vars PROVE TypeInv'
  OBVIOUS
<1>1. CASE Next
  <2>1. PICK p \in Side :
          Application(p) \/ Receive(p) \/ Drain(p) \/ Work(p) \/ Lifecycle(p)
    BY <1>1 DEF Next
  <2>2. CASE Application(p)
    BY <2>2, SendType, StartRekeyType, WithdrawType, CloseStep DEF Application
  <2>3. CASE Receive(p)
    BY <2>3, ReceiveType, CloseStep DEF Receive
  <2>4. CASE Drain(p)
    BY <2>4, DeliverPlainType, WithdrawType, ExchangeType DEF Drain
  <2>5. CASE Work(p)
    BY <2>5, RetryType, AskType, SendType DEF Work
  <2>6. CASE Lifecycle(p)
    BY <2>6, LifecycleType
  <2> QED
    BY <2>1, <2>2, <2>3, <2>4, <2>5, <2>6
<1>2. CASE UNCHANGED vars
  BY <1>2 DEF TypeInv, TypeOK, KeyHeld, MailCounted, Open, vars, chatVars, storeVars,
     runVars, history, budget
<1> QED
  BY <1>1, <1>2

\* Every variable of a conversation keeps its type, whatever is sent, lost,
\* repeated, rejected or interrupted: no handler leaves a malformed record.
THEOREM TypeCorrect == Spec => []TypeOK
<1>1. TypeInv => TypeOK
  BY DEF TypeInv
<1> QED
  BY TypeInit, TypeNext, <1>1, PTL DEF Spec
============================================================================
