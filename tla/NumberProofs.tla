---------------------------- MODULE NumberProofs ---------------------------
(***************************************************************************)
(* The numbering of the messages, for every value of the constants: no     *)
(* side refuses an honest peer, nothing the peer still misses is dropped,  *)
(* and the mailbox holds what the peer committed, number by number.        *)
(*                                                                         *)
(* None of these is inductive. A receiver judges a wrapper by the counters *)
(* of the wrappers before it, so the invariant speaks of every wrapper     *)
(* side p has written that still exists, Written(p): in its outbox, on the *)
(* server or in the peer's gap queue. Numbered(p) relates them to one      *)
(* another, to the counters of both sides and to p's outbox.               *)
(***************************************************************************)
EXTENDS ConversationProofs

Written(p) ==
  {r.w : r \in retained_out[p]}
    \cup {f.w : f \in {g \in net : g.to = Peer(p)}}
    \cup queue_in[Peer(p)]

\* A Resend for the wire numbers s..e, of which the first is at least n, asks
\* the peer, whose counters are d, for numbers it has given out.
Askable(p, d, n, s, e) ==
  /\ s = transform_in_seq_no(raw_seq_no(s), p)
  /\ e = transform_in_seq_no(raw_seq_no(e), p)
  /\ n <= raw_seq_no(s) /\ raw_seq_no(s) <= raw_seq_no(e)
  /\ raw_seq_no(e) - raw_seq_no(s) < MAX_RESEND_COUNT
  /\ raw_seq_no(e) < d.out_seq_no

\* What a side with counters c may have written to one with counters d.
Fits(p, c, d, said, w) ==
  /\ w.out_seq_no = transform_out_seq_no(RawOut(w), p)
  /\ w.in_seq_no = transform_in_seq_no(RawIn(w), p)
  /\ RawOut(w) < c.out_seq_no
  /\ RawIn(w) <= c.in_seq_no
  /\ w.layer <= outgoing_layer(c.layer)
  /\ RawOut(w) >= d.in_seq_no =>
       RawIn(w) >= d.peer_in_seq_no /\ w.layer >= d.wrapper_layer
  /\ w.act = "resend" => Askable(p, d, RawIn(w), w.a, w.b)
  /\ Faithful(w, said[RawOut(w) + 1])

\* A later wrapper has heard at least as much as an earlier one.
InStep(W) ==
  \A x, y \in W : RawOut(x) <= RawOut(y) => RawIn(x) <= RawIn(y) /\ x.layer <= y.layer

\* What d has heard from c is not more than c has.
Heard(c, d) ==
  /\ d.in_seq_no <= c.out_seq_no
  /\ d.peer_in_seq_no <= c.in_seq_no
  /\ d.wrapper_layer <= outgoing_layer(c.layer)

DueWell(p, c, d) ==
  c.resend_due # NoSpan => Askable(p, d, 0, c.resend_due.start, c.resend_due.end)

Retains(p) ==
  Open(p) => \A n \in seq[p].peer_in_seq_no .. (seq[p].out_seq_no - 1) :
               \E r \in retained_out[p] : RawOut(r.w) = n

Numbered(p) ==
  /\ \A w \in Written(p) : Fits(p, seq[p], seq[Peer(p)], sent[p], w)
  /\ InStep(Written(p))
  /\ Heard(seq[p], seq[Peer(p)])
  /\ DueWell(p, seq[p], seq[Peer(p)])
  /\ Len(sent[p]) = seq[p].out_seq_no
  /\ \A w \in queue_in[Peer(p)] :
       RawOut(w) <= seq[Peer(p)].in_seq_no + MAX_RESEND_COUNT
  /\ Retains(p)

NumberInv == \A p \in Side : Numbered(p)

----------------------------------------------------------------------------
(* The wire numbers *)

LEMMA TwoSides ==
  ASSUME NEW p \in Side
  PROVE  /\ Peer(p) \in Side /\ Peer(p) # p /\ Peer(Peer(p)) = p
         /\ \A q \in Side : q = p \/ q = Peer(p)
         /\ OutX(p) \in {0, 1} /\ InX(p) = 1 - OutX(p)
         /\ OutX(Peer(p)) = InX(p) /\ InX(Peer(p)) = OutX(p)
BY DEF Side, Peer, OutX, InX, is_outbound

LEMMA WireNumber ==
  ASSUME NEW p \in Side, NEW n \in Nat
  PROVE  /\ raw_seq_no(transform_out_seq_no(n, p)) = n
         /\ raw_seq_no(transform_in_seq_no(n, p)) = n
         /\ transform_out_seq_no(n, p) % 2 = OutX(p)
         /\ transform_in_seq_no(n, p) % 2 = InX(p)
<1>1. \A x \in {0, 1} : (2 * n + x) \div 2 = n /\ (2 * n + x) % 2 = x
  OBVIOUS
<1>2. OutX(p) \in {0, 1} /\ InX(p) \in {0, 1}
  BY TwoSides
<1> QED
  BY <1>1, <1>2 DEF raw_seq_no, transform_out_seq_no, transform_in_seq_no

LEMMA LayerRises ==
  ASSUME NEW m \in Nat, NEW n \in Nat, m <= n
  PROVE  outgoing_layer(m) <= outgoing_layer(n)
BY DEF outgoing_layer, MIN_LAYER, MAX_LAYER

LEMMA RaiseRises ==
  ASSUME NEW m \in Nat, NEW n \in Nat
  PROVE  m <= raise_remote_layer(m, n)
BY DEF raise_remote_layer

LEMMA WrittenType ==
  ASSUME TypeOK, NEW p \in Side
  PROVE  Written(p) \subseteq Wrapper
<1>1. Peer(p) \in Side
  BY PeerType
<1>2. \A r \in retained_out[p] : r.w \in Wrapper
  BY DEF TypeOK, Item
<1>3. \A f \in net : f.w \in Wrapper
  BY DEF TypeOK, Frame
<1>4. queue_in[Peer(p)] \subseteq Wrapper
  BY <1>1 DEF TypeOK
<1> QED
  BY <1>2, <1>3, <1>4 DEF Written

LEMMA SeqFacts ==
  ASSUME NEW c \in SeqState
  PROVE  /\ c.in_seq_no \in Nat /\ c.out_seq_no \in Nat /\ c.peer_in_seq_no \in Nat
         /\ c.layer \in Nat /\ c.wrapper_layer \in Nat
         /\ outgoing_layer(c.layer) \in Nat
BY OutgoingLayerType DEF SeqState

\* The numbers of what p has written are numbers.
LEMMA WrittenNumbers ==
  ASSUME TypeOK, NEW p \in Side, NEW w \in Written(p)
  PROVE  w \in Wrapper /\ RawOut(w) \in Nat /\ RawIn(w) \in Nat /\ w.layer \in Nat
<1>1. w \in Wrapper
  BY WrittenType
<1> QED
  BY <1>1, RawOutType DEF Wrapper

----------------------------------------------------------------------------
(* Copies of a wrapper: the same slot, with content withdrawn or a Resend  *)
(* stored as a Noop.                                                       *)

Echo(w, x) ==
  /\ w.in_seq_no = x.in_seq_no /\ w.out_seq_no = x.out_seq_no /\ w.layer = x.layer
  /\ \/ w.act = x.act /\ w.a = x.a /\ w.b = x.b
     \/ x.act = "msg" /\ w.act = "delete" /\ w.a = RawOut(w)
     \/ x.act = "resend" /\ w.act = "noop"

Echoes(V, W) == \A w \in V : \E x \in W : Echo(w, x)

LEMMA EchoNumbers ==
  ASSUME NEW w, NEW x, Echo(w, x)
  PROVE  RawOut(w) = RawOut(x) /\ RawIn(w) = RawIn(x) /\ w.layer = x.layer
BY DEF Echo, RawOut, RawIn

LEMMA EchoSelf == \A w : Echo(w, w)
BY DEF Echo

LEMMA EchoFits ==
  ASSUME NEW p, NEW c, NEW d, NEW said, NEW w, NEW x, Echo(w, x),
         Fits(p, c, d, said, x)
  PROVE  Fits(p, c, d, said, w)
<1>1. RawOut(w) = RawOut(x) /\ RawIn(w) = RawIn(x) /\ w.layer = x.layer
  BY EchoNumbers
<1>2. Faithful(w, said[RawOut(w) + 1])
  BY <1>1 DEF Fits, Faithful, Echo
<1>3. w.act = "resend" => Askable(p, d, RawIn(w), w.a, w.b)
  BY <1>1 DEF Fits, Echo
<1> QED
  BY <1>1, <1>2, <1>3 DEF Fits, Echo

LEMMA EchoInStep ==
  ASSUME NEW V, NEW W, Echoes(V, W), InStep(W)
  PROVE  InStep(V)
<1> SUFFICES ASSUME NEW x \in V, NEW y \in V, RawOut(x) <= RawOut(y)
             PROVE  RawIn(x) <= RawIn(y) /\ x.layer <= y.layer
  BY DEF InStep
<1>1. PICK u \in W : Echo(x, u)
  BY DEF Echoes
<1>2. PICK v \in W : Echo(y, v)
  BY DEF Echoes
<1> QED
  BY <1>1, <1>2, EchoNumbers DEF InStep

LEMMA WithdrawnEcho ==
  ASSUME NEW r \in Item, NEW key
  PROVE  Echo(Withdrawn(r, key).w, r.w)
BY DEF Withdrawn, Echo, Item, Wrapper, RawOut

LEMMA TransmittedEcho ==
  ASSUME NEW r \in Item, NEW o, NEW key
  PROVE  Echo(Transmitted(r, o, key).w, r.w)
<1>1. /\ [r EXCEPT !.pending = FALSE].w = r.w
      /\ [r EXCEPT !.failures = @ + 1].w = r.w
  BY DEF Item
<1> QED
  BY <1>1, WithdrawnEcho, EchoSelf DEF Transmitted

LEMMA StoredEcho ==
  ASSUME NEW w \in Wrapper
  PROVE  Echo(Stored(w), w)
BY DEF Stored, Echo, Wrapper

\* The written wrappers of p after a step, from what the step does to each of
\* the three places they can be in.
LEMMA WrittenEchoes ==
  ASSUME NEW p \in Side, NEW W, Written(p) \subseteq W,
         \A r \in retained_out'[p] : \E x \in W : Echo(r.w, x),
         \A f \in net' : f \in net \/ f.to # Peer(p) \/ \E x \in W : Echo(f.w, x),
         \A w \in queue_in'[Peer(p)] : \E x \in W : Echo(w, x)
  PROVE  Echoes(Written(p)', W)
<1> SUFFICES ASSUME NEW w \in Written(p)' PROVE \E x \in W : Echo(w, x)
  BY DEF Echoes
<1>1. CASE \E r \in retained_out'[p] : w = r.w
  BY <1>1
<1>2. CASE \E f \in net' : f.to = Peer(p) /\ w = f.w
  <2>1. PICK f \in net' : f.to = Peer(p) /\ w = f.w
    BY <1>2
  <2>2. CASE f \in net
    <3>1. w \in W
      BY <2>1, <2>2 DEF Written
    <3> QED
      BY <3>1, EchoSelf
  <2> QED
    BY <2>1, <2>2
<1>3. CASE w \in queue_in'[Peer(p)]
  BY <1>3
<1> QED
  BY <1>1, <1>2, <1>3 DEF Written

----------------------------------------------------------------------------
(* What the steps share *)

\* c becomes c2: nothing given out, but more may have been heard.
Grows(c, c2) ==
  /\ c2.out_seq_no = c.out_seq_no /\ c2.in_seq_no >= c.in_seq_no
  /\ c2.layer >= c.layer

\* d becomes d2: nothing heard, but more may have been given out.
Stays(d, d2) ==
  /\ d2.in_seq_no = d.in_seq_no /\ d2.peer_in_seq_no = d.peer_in_seq_no
  /\ d2.wrapper_layer = d.wrapper_layer /\ d2.out_seq_no >= d.out_seq_no

LEMMA AskableKept ==
  ASSUME NEW p \in Side, NEW d \in SeqState, NEW d2 \in SeqState, NEW n, NEW s, NEW e,
         s \in Int, e \in Int,
         d2.out_seq_no >= d.out_seq_no, Askable(p, d, n, s, e)
  PROVE  Askable(p, d2, n, s, e)
<1>1. raw_seq_no(e) \in Int
  BY DEF raw_seq_no
<1> QED
  BY <1>1, SeqFacts DEF Askable

LEMMA FitsKept ==
  ASSUME NEW p \in Side, NEW c \in SeqState, NEW c2 \in SeqState, Grows(c, c2),
         NEW d \in SeqState, NEW d2 \in SeqState, Stays(d, d2),
         NEW said, NEW w \in Wrapper, Fits(p, c, d, said, w)
  PROVE  Fits(p, c2, d2, said, w)
<1>1. RawOut(w) \in Nat /\ RawIn(w) \in Nat /\ w.layer \in Nat /\ w.a \in Int /\ w.b \in Int
  BY RawOutType DEF Wrapper
<1>2. w.act = "resend" => Askable(p, d2, RawIn(w), w.a, w.b)
  BY <1>1, AskableKept DEF Fits, Stays
<1>3. w.layer <= outgoing_layer(c2.layer)
  <2>1. outgoing_layer(c.layer) <= outgoing_layer(c2.layer)
    BY LayerRises, SeqFacts DEF Grows
  <2> QED
    BY <1>1, <2>1, SeqFacts DEF Fits
<1>4. RawOut(w) < c2.out_seq_no /\ RawIn(w) <= c2.in_seq_no
  BY <1>1, SeqFacts DEF Fits, Grows
<1> QED
  BY <1>2, <1>3, <1>4 DEF Fits, Stays

LEMMA HeardKept ==
  ASSUME NEW c \in SeqState, NEW c2 \in SeqState, Grows(c, c2),
         NEW d \in SeqState, NEW d2 \in SeqState, Stays(d, d2), Heard(c, d)
  PROVE  Heard(c2, d2)
<1>1. outgoing_layer(c.layer) <= outgoing_layer(c2.layer)
  BY LayerRises, SeqFacts DEF Grows
<1> QED
  BY <1>1, SeqFacts DEF Heard, Grows, Stays

\* A step in which p writes nothing new and its peer takes nothing.
LEMMA WriterKeeps ==
  ASSUME TypeInv, TypeInv', NumberInv, NEW p \in Side,
         Echoes(Written(p)', Written(p)), sent'[p] = sent[p],
         queue_in'[Peer(p)] \subseteq queue_in[Peer(p)],
         Grows(seq[p], seq'[p]), Stays(seq[Peer(p)], seq'[Peer(p)]),
         DueWell(p, seq'[p], seq'[Peer(p)]), Retains(p)'
  PROVE  Numbered(p)'
<1> DEFINE c == seq[p]
<1> DEFINE d == seq[Peer(p)]
<1>1. /\ c \in SeqState /\ d \in SeqState /\ c' \in SeqState /\ d' \in SeqState
      /\ Numbered(p)
  BY PeerType DEF TypeInv, TypeOK, NumberInv
<1>2. ASSUME NEW w \in Written(p)' PROVE Fits(p, c', d', sent'[p], w)
  <2>1. PICK x \in Written(p) : Echo(w, x)
    BY DEF Echoes
  <2>2. x \in Wrapper /\ Fits(p, c, d, sent[p], x)
    BY <1>1, WrittenType DEF Numbered, TypeInv
  <2>3. Fits(p, c', d', sent[p], x)
    BY <1>1, <2>2, FitsKept
  <2> QED
    BY <2>1, <2>3, EchoFits
<1>3. InStep(Written(p)')
  BY <1>1, EchoInStep DEF Numbered
<1>4. Heard(c', d')
  BY <1>1, HeardKept DEF Numbered
<1>5. Len(sent'[p]) = seq'[p].out_seq_no
  BY <1>1 DEF Numbered, Grows
<1>6. \A w \in queue_in'[Peer(p)] :
         RawOut(w) <= seq'[Peer(p)].in_seq_no + MAX_RESEND_COUNT
  BY <1>1 DEF Numbered, Stays
<1> QED
  BY <1>2, <1>3, <1>4, <1>5, <1>6 DEF Numbered

\* What a step keeps of p's counters and outbox when p neither sends nor takes.
Counters(c, c2) ==
  /\ Grows(c, c2) /\ Stays(c, c2)
  /\ c2.resend_due \in {c.resend_due, NoSpan}

Kept(p) ==
  Open(p)' => /\ Open(p)
              /\ \A r \in retained_out[p] :
                   \E x \in retained_out'[p] : RawOut(x.w) = RawOut(r.w)

LEMMA DueKept ==
  ASSUME NEW p \in Side, NEW c \in SeqState, NEW c2, c2.resend_due \in {c.resend_due, NoSpan},
         NEW d \in SeqState, NEW d2 \in SeqState, Stays(d, d2), DueWell(p, c, d)
  PROVE  DueWell(p, c2, d2)
<1>1. c.resend_due.start \in Int /\ c.resend_due.end \in Int
  BY DEF SeqState, Span
<1> QED
  BY <1>1, AskableKept DEF DueWell, Stays

LEMMA RetainsKept ==
  ASSUME NEW p \in Side, Numbered(p), Kept(p),
         seq'[p].peer_in_seq_no = seq[p].peer_in_seq_no,
         seq'[p].out_seq_no = seq[p].out_seq_no
  PROVE  Retains(p)'
<1> SUFFICES ASSUME Open(p)',
                    NEW n \in seq[p].peer_in_seq_no .. (seq[p].out_seq_no - 1)
             PROVE  \E x \in retained_out'[p] : RawOut(x.w) = n
  BY DEF Retains
<1>1. PICK r \in retained_out[p] : RawOut(r.w) = n
  BY DEF Numbered, Retains, Kept
<1> QED
  BY <1>1 DEF Kept

LEMMA QuietNumbers ==
  ASSUME TypeInv, TypeInv', NumberInv, UNCHANGED sent,
         \A q \in Side : /\ Echoes(Written(q)', Written(q))
                         /\ queue_in'[q] \subseteq queue_in[q]
                         /\ Counters(seq[q], seq'[q]) /\ Kept(q)
  PROVE  NumberInv'
<1> SUFFICES ASSUME NEW p \in Side PROVE Numbered(p)'
  BY DEF NumberInv
<1>1. /\ seq[p] \in SeqState /\ seq[Peer(p)] \in SeqState
      /\ seq'[p] \in SeqState /\ seq'[Peer(p)] \in SeqState
      /\ Numbered(p) /\ Peer(p) \in Side
  BY PeerType DEF TypeInv, TypeOK, NumberInv
<1>2. /\ Grows(seq[p], seq'[p]) /\ Stays(seq[Peer(p)], seq'[Peer(p)])
      /\ seq'[p].resend_due \in {seq[p].resend_due, NoSpan}
      /\ seq'[p].peer_in_seq_no = seq[p].peer_in_seq_no
      /\ seq'[p].out_seq_no = seq[p].out_seq_no
  BY <1>1 DEF Counters, Grows, Stays
<1>3. DueWell(p, seq'[p], seq'[Peer(p)])
  BY <1>1, <1>2, DueKept DEF Numbered
<1>4. Retains(p)'
  BY <1>1, <1>2, RetainsKept
<1> QED
  BY <1>1, <1>2, <1>3, <1>4, WriterKeeps

----------------------------------------------------------------------------
(* A new message: Commit *)

LEMMA NewFits ==
  ASSUME TypeInv, NumberInv, NEW p \in Side, NEW act \in Acts, NEW a \in Nat, NEW b \in Nat,
         NEW c2 \in SeqState, c2.out_seq_no = seq[p].out_seq_no + 1,
         c2.in_seq_no = seq[p].in_seq_no, c2.layer = seq[p].layer,
         NEW d \in SeqState, Heard(seq[p], d),
         act = "resend" => Askable(p, d, seq[p].in_seq_no, a, b),
         NEW said, said[seq[p].out_seq_no + 1] = [act |-> act, a |-> a, b |-> b]
  PROVE  LET v == NewWrapper(p, act, a, b)
         IN /\ Fits(p, c2, d, said, v) /\ v.layer = outgoing_layer(seq[p].layer)
            /\ RawOut(v) = seq[p].out_seq_no /\ RawIn(v) = seq[p].in_seq_no
<1> DEFINE v == NewWrapper(p, act, a, b)
<1> DEFINE c == seq[p]
<1>1. c \in SeqState
  BY DEF TypeInv, TypeOK
<1>2. /\ c.in_seq_no \in Nat /\ c.out_seq_no \in Nat /\ outgoing_layer(c.layer) \in Nat
  BY <1>1, SeqFacts
<1>3. /\ v.out_seq_no = transform_out_seq_no(c.out_seq_no, p)
      /\ v.in_seq_no = transform_in_seq_no(c.in_seq_no, p)
      /\ v.layer = outgoing_layer(c.layer) /\ v.act = act /\ v.a = a /\ v.b = b
  BY DEF NewWrapper
<1> HIDE DEF v
<1>4. RawOut(v) = c.out_seq_no /\ RawIn(v) = c.in_seq_no
  BY <1>2, <1>3, WireNumber DEF RawOut, RawIn
<1>5. RawIn(v) >= d.peer_in_seq_no /\ v.layer >= d.wrapper_layer
  BY <1>2, <1>3, <1>4, SeqFacts DEF Heard
<1>6. Faithful(v, said[RawOut(v) + 1])
  BY <1>3, <1>4 DEF Faithful
<1>7. RawOut(v) < c2.out_seq_no /\ RawIn(v) <= c2.in_seq_no /\ v.layer <= outgoing_layer(c2.layer)
  BY <1>2, <1>3, <1>4
<1>8. Fits(p, c2, d, said, v)
  BY <1>3, <1>4, <1>5, <1>6, <1>7 DEF Fits
<1> QED
  BY <1>3, <1>4, <1>8 DEF v

\* The new wrapper is in step with those before it.
LEMMA NewInStep ==
  ASSUME TypeInv, NumberInv, NEW p \in Side, NEW v,
         RawOut(v) = seq[p].out_seq_no, RawIn(v) = seq[p].in_seq_no,
         v.layer = outgoing_layer(seq[p].layer)
  PROVE  InStep(Written(p) \cup {v})
<1>1. seq[p] \in SeqState
  BY DEF TypeInv, TypeOK
<1>2. /\ RawOut(v) \in Nat /\ RawIn(v) \in Nat /\ v.layer \in Nat
  BY <1>1, SeqFacts
<1>3. \A x \in Written(p) :
        /\ RawOut(x) \in Nat /\ RawIn(x) \in Nat /\ x.layer \in Nat
        /\ RawOut(x) < RawOut(v) /\ RawIn(x) <= RawIn(v) /\ x.layer <= v.layer
  BY WrittenNumbers DEF NumberInv, Numbered, Fits, TypeInv
<1>4. InStep(Written(p))
  BY DEF NumberInv, Numbered
<1> SUFFICES ASSUME NEW x \in Written(p) \cup {v}, NEW y \in Written(p) \cup {v},
                    RawOut(x) <= RawOut(y)
             PROVE  RawIn(x) <= RawIn(y) /\ x.layer <= y.layer
  BY DEF InStep
<1>5. CASE x \in Written(p) /\ y \in Written(p)
  BY <1>4, <1>5 DEF InStep
<1>6. CASE x \in Written(p) /\ y = v
  BY <1>3, <1>6
<1>7. CASE x = v /\ y \in Written(p)
  BY <1>2, <1>3, <1>7
<1>8. CASE x = v /\ y = v
  BY <1>2, <1>8
<1> QED
  BY <1>5, <1>6, <1>7, <1>8

\* What a commit by p leaves in its outbox and on the server.
LEMMA CommitEchoes ==
  ASSUME TypeInv, NEW p \in Side, NEW act \in Acts, NEW a \in Nat, NEW b \in Nat,
         NEW key, NEW new, NEW st, NEW o, Commit(p, act, a, b, key, new, st, o), key \in Nat
  PROVE  LET v == NewWrapper(p, act, a, b)
         IN /\ Echoes(Written(p)', Written(p) \cup {v})
            /\ Written(Peer(p))' = Written(Peer(p))
            /\ \A r \in retained_out[p] : r \in retained_out'[p]
            /\ \E r \in retained_out'[p] : RawOut(r.w) = RawOut(v)
            /\ sent'[p] = Append(sent[p], [act |-> act, a |-> a, b |-> b])
            /\ \A q \in Side : q # p => /\ sent'[q] = sent[q] /\ state'[q] = state[q]
                                       /\ retained_out'[q] = retained_out[q]
            /\ UNCHANGED <<queue_in, closed_reason>>
<1> DEFINE v == NewWrapper(p, act, a, b)
<1> DEFINE r == [w |-> v, key |-> key, pending |-> TRUE, failures |-> 0]
<1> DEFINE t == Transmitted(r, o, new.key)
<1>1. v \in Wrapper
  BY NewWrapperType DEF TypeInv
<1>2. r \in Item
  BY <1>1 DEF Item
<1>3. Echo(t.w, v)
  <2>1. r.w = v
    OBVIOUS
  <2> HIDE DEF v, r
  <2> QED BY <1>2, <2>1, TransmittedEcho DEF t
<1>4. /\ retained_out' = [retained_out EXCEPT ![p] = @ \cup {t}]
      /\ sent' = [sent EXCEPT ![p] = Append(@, [act |-> act, a |-> a, b |-> b])]
      /\ state' = [state EXCEPT ![p] = st]
      /\ UNCHANGED <<queue_in, closed_reason>>
      /\ \A f \in net' : f \in net \/ f = [to |-> Peer(p), w |-> v, key |-> key]
      /\ \A f \in net : f \in net'
  BY DEF Commit, FrameOf, Arrives
<1> HIDE DEF v, r, t
<1>5. /\ retained_out'[p] = retained_out[p] \cup {t}
      /\ sent'[p] = Append(sent[p], [act |-> act, a |-> a, b |-> b])
      /\ \A q \in Side : q # p => /\ sent'[q] = sent[q] /\ state'[q] = state[q]
                                 /\ retained_out'[q] = retained_out[q]
  BY <1>4 DEF TypeInv, TypeOK
<1>6. Echoes(Written(p)', Written(p) \cup {v})
  <2> DEFINE W == Written(p) \cup {v}
  <2>1. \A x \in retained_out'[p] : \E y \in W : Echo(x.w, y)
    <3>1. \A x \in retained_out[p] : x.w \in W
      BY DEF Written
    <3> QED
      BY <1>3, <1>5, <3>1, EchoSelf
  <2>2. \A f \in net' : f \in net \/ f.to # Peer(p) \/ \E x \in W : Echo(f.w, x)
    <3>1. \A f \in net' : f \in net \/ f.w = v
      BY <1>4
    <3>2. v \in W
      OBVIOUS
    <3> QED
      BY <3>1, <3>2, EchoSelf
  <2>3. \A w \in queue_in'[Peer(p)] : \E x \in W : Echo(w, x)
    <3>1. \A w \in queue_in[Peer(p)] : w \in W
      BY DEF Written
    <3> QED
      BY <1>4, <3>1, EchoSelf
  <2> HIDE DEF W
  <2>4. Written(p) \subseteq W
    BY DEF W
  <2> QED
    BY <2>1, <2>2, <2>3, <2>4, WrittenEchoes DEF W
<1>7. Written(Peer(p))' = Written(Peer(p))
  <2>1. {g \in net' : g.to = p} = {g \in net : g.to = p}
    BY <1>4, TwoSides
  <2>2. Peer(Peer(p)) = p /\ retained_out'[Peer(p)] = retained_out[Peer(p)]
        /\ queue_in' = queue_in
    BY <1>4, <1>5, TwoSides
  <2> QED
    BY <2>1, <2>2 DEF Written
<1>8. RawOut(t.w) = RawOut(v)
  BY <1>3, EchoNumbers
<1> QED
  BY <1>4, <1>5, <1>6, <1>7, <1>8 DEF v

\* What a commit does to the counters: the next number is given out.
Counts(p) ==
  /\ seq'[p].out_seq_no = seq[p].out_seq_no + 1
  /\ seq'[p].in_seq_no = seq[p].in_seq_no
  /\ seq'[p].peer_in_seq_no = seq[p].peer_in_seq_no
  /\ seq'[p].layer = seq[p].layer /\ seq'[p].wrapper_layer = seq[p].wrapper_layer
  /\ seq'[p].resend_due \in {seq[p].resend_due, NoSpan}
  /\ \A q \in Side : q # p => seq'[q] = seq[q]

LEMMA CommitNumbers ==
  ASSUME TypeInv, TypeInv', NumberInv, NEW p \in Side, Open(p),
         NEW act \in Acts, NEW a \in Nat, NEW b \in Nat,
         NEW key \in Nat, NEW new, NEW st, NEW o,
         Commit(p, act, a, b, key, new, st, o), Counts(p),
         act = "resend" => Askable(p, seq[Peer(p)], seq[p].in_seq_no, a, b)
  PROVE  NumberInv'
<1> DEFINE v == NewWrapper(p, act, a, b)
<1> DEFINE W == Written(p) \cup {v}
<1> DEFINE q == Peer(p)
<1> DEFINE m == [act |-> act, a |-> a, b |-> b]
<1>1. /\ Echoes(Written(p)', W) /\ Written(q)' = Written(q)
      /\ \A r \in retained_out[p] : r \in retained_out'[p]
      /\ \E r \in retained_out'[p] : RawOut(r.w) = RawOut(v)
      /\ sent'[p] = Append(sent[p], m)
      /\ q # p /\ sent'[q] = sent[q] /\ state'[q] = state[q]
      /\ retained_out'[q] = retained_out[q] /\ queue_in' = queue_in
  <2>1. q \in Side /\ q # p
    BY TwoSides
  <2>2. /\ Echoes(Written(p)', W) /\ Written(q)' = Written(q)
        /\ \A r \in retained_out[p] : r \in retained_out'[p]
        /\ \E r \in retained_out'[p] : RawOut(r.w) = RawOut(v)
        /\ sent'[p] = Append(sent[p], m)
        /\ \A x \in Side : x # p => /\ sent'[x] = sent[x] /\ state'[x] = state[x]
                                   /\ retained_out'[x] = retained_out[x]
        /\ queue_in' = queue_in
    BY CommitEchoes
  <2> HIDE DEF v, W, m, q
  <2> QED BY <2>1, <2>2
<1>2. /\ q \in Side /\ Peer(q) = p /\ Numbered(p) /\ Numbered(q)
      /\ seq[p] \in SeqState /\ seq[q] \in SeqState
      /\ seq'[p] \in SeqState /\ seq'[q] = seq[q]
  BY TwoSides DEF TypeInv, TypeOK, NumberInv, Counts
<1>3. /\ seq[p].out_seq_no \in Nat /\ seq[p].in_seq_no \in Nat
      /\ Len(sent[p]) = seq[p].out_seq_no
      /\ sent[p] \in Seq([act : Acts, a : Nat, b : Nat])
  BY <1>2, SeqFacts DEF Numbered, TypeInv, TypeOK
<1>4. /\ Len(sent'[p]) = seq[p].out_seq_no + 1
      /\ sent'[p][seq[p].out_seq_no + 1] = m
      /\ \A i \in 1 .. seq[p].out_seq_no : sent'[p][i] = sent[p][i]
  <2> HIDE DEF m
  <2> QED BY <1>1, <1>3
<1>5. Stays(seq[p], seq'[p]) /\ Grows(seq[q], seq'[q]) /\ Stays(seq[q], seq'[q])
  BY <1>2, SeqFacts DEF Counts, Stays, Grows
<1>6. Numbered(q)'
  <2>1. Echoes(Written(q)', Written(q))
    BY <1>1, EchoSelf DEF Echoes
  <2>2. DueWell(q, seq'[q], seq'[p])
    BY <1>2, <1>5, DueKept DEF Numbered
  <2>3. Retains(q)'
    BY <1>1, <1>2 DEF Numbered, Retains, Open
  <2> QED
    BY <1>1, <1>2, <1>5, <2>1, <2>2, <2>3, WriterKeeps
<1>7. /\ Fits(p, seq'[p], seq[q], sent'[p], v) /\ v.layer = outgoing_layer(seq[p].layer)
      /\ RawOut(v) = seq[p].out_seq_no /\ RawIn(v) = seq[p].in_seq_no
  BY <1>2, <1>4, NewFits DEF Counts, Numbered
<1>8. ASSUME NEW x \in Written(p) PROVE Fits(p, seq'[p], seq[q], sent'[p], x)
  <2>1. /\ x \in Wrapper /\ RawOut(x) \in Nat /\ Fits(p, seq[p], seq[q], sent[p], x)
        /\ RawIn(x) \in Nat
    BY <1>2, WrittenNumbers DEF Numbered, TypeInv
  <2>2. sent'[p][RawOut(x) + 1] = sent[p][RawOut(x) + 1]
    <3>1. RawOut(x) < seq[p].out_seq_no
      BY <2>1 DEF Fits
    <3>2. RawOut(x) + 1 \in 1 .. seq[p].out_seq_no
      BY <1>3, <2>1, <3>1
    <3> QED
      BY <1>4, <3>2
  <2>3. RawOut(x) < seq'[p].out_seq_no
    BY <1>3, <2>1 DEF Fits, Counts
  <2> QED
    BY <2>1, <2>2, <2>3 DEF Fits, Counts
<1>9. InStep(W)
  BY <1>7, NewInStep
<1> HIDE DEF v
<1>10. \A w \in Written(p)' : Fits(p, seq'[p], seq'[q], sent'[p], w)
  <2>1. \A x \in W : Fits(p, seq'[p], seq'[q], sent'[p], x)
    BY <1>2, <1>7, <1>8
  <2> HIDE DEF W
  <2> QED
    BY <1>1, <2>1, EchoFits DEF Echoes
<1>11. InStep(Written(p)')
  BY <1>1, <1>9, EchoInStep
<1>12. Heard(seq'[p], seq'[q])
  <2>1. Heard(seq[p], seq[q])
    BY <1>2 DEF Numbered
  <2>2. /\ seq'[p].out_seq_no = seq[p].out_seq_no + 1
        /\ seq'[p].in_seq_no = seq[p].in_seq_no /\ seq'[p].layer = seq[p].layer
    BY DEF Counts
  <2> HIDE DEF q, W, m
  <2> QED
    BY <1>2, <1>3, <2>1, <2>2, SeqFacts DEF Heard
<1>13. DueWell(p, seq'[p], seq'[q])
  BY <1>2, <1>5, DueKept DEF Numbered, Counts
<1>14. Retains(p)'
  <2> SUFFICES ASSUME NEW n \in seq[p].peer_in_seq_no .. seq[p].out_seq_no
               PROVE  \E r \in retained_out'[p] : RawOut(r.w) = n
    BY <1>3 DEF Retains, Counts
  <2>1. CASE n = seq[p].out_seq_no
    BY <1>1, <1>7, <2>1
  <2>2. CASE n # seq[p].out_seq_no
    <3>1. n \in seq[p].peer_in_seq_no .. (seq[p].out_seq_no - 1)
      BY <1>2, <1>3, <2>2, SeqFacts
    <3>2. \E r \in retained_out[p] : RawOut(r.w) = n
      BY <1>2, <3>1 DEF Numbered, Retains
    <3> QED
      BY <1>1, <3>2
  <2> QED
    BY <2>1, <2>2
<1>15. Numbered(p)'
  BY <1>1, <1>2, <1>3, <1>4, <1>10, <1>11, <1>12, <1>13, <1>14 DEF Numbered, Counts
<1> QED
  BY <1>6, <1>15, TwoSides DEF NumberInv

----------------------------------------------------------------------------
(* A wrapper taken: Receipt *)

\* The counters c a receipt leaves: those of the last wrapper of q it passed on,
\* or, for a wrapper that came too early, the ones it found.
Takes(q, d, c) ==
  /\ c.out_seq_no = d.out_seq_no /\ c.layer >= d.layer
  /\ \/ /\ c.in_seq_no = d.in_seq_no /\ c.peer_in_seq_no = d.peer_in_seq_no
        /\ c.wrapper_layer = d.wrapper_layer
     \/ \E last \in Written(q) :
          /\ RawOut(last) >= d.in_seq_no
          /\ c.in_seq_no = RawOut(last) + 1 /\ c.peer_in_seq_no = RawIn(last)
          /\ c.wrapper_layer = last.layer

\* The side whose wrapper is taken: nothing it wrote is behind its reader.
LEMMA ReaderTakes ==
  ASSUME TypeInv, TypeInv', NumberInv, NEW q \in Side,
         Takes(q, seq[Peer(q)], seq'[Peer(q)]),
         Echoes(Written(q)', Written(q)), sent'[q] = sent[q], seq'[q] = seq[q],
         \A w \in queue_in'[Peer(q)] :
           RawOut(w) <= seq'[Peer(q)].in_seq_no + MAX_RESEND_COUNT,
         Retains(q)'
  PROVE  Numbered(q)'
<1> DEFINE c == seq[q]
<1> DEFINE d == seq[Peer(q)]
<1>1. /\ c \in SeqState /\ d \in SeqState /\ d' \in SeqState /\ Numbered(q)
  BY PeerType DEF TypeInv, TypeOK, NumberInv
<1>2. d'.out_seq_no = d.out_seq_no
  BY DEF Takes
<1>3. ASSUME NEW x \in Written(q), RawOut(x) >= d'.in_seq_no
      PROVE  RawIn(x) >= d'.peer_in_seq_no /\ x.layer >= d'.wrapper_layer
  <2>1. CASE /\ d'.in_seq_no = d.in_seq_no /\ d'.peer_in_seq_no = d.peer_in_seq_no
             /\ d'.wrapper_layer = d.wrapper_layer
    BY <1>1, <1>3, <2>1 DEF Numbered, Fits
  <2>2. ASSUME NEW last \in Written(q), d'.in_seq_no = RawOut(last) + 1,
               d'.peer_in_seq_no = RawIn(last), d'.wrapper_layer = last.layer
        PROVE  RawIn(x) >= d'.peer_in_seq_no /\ x.layer >= d'.wrapper_layer
    <3>1. /\ RawOut(x) \in Nat /\ RawOut(last) \in Nat /\ RawIn(x) \in Nat
          /\ RawIn(last) \in Nat /\ x.layer \in Nat /\ last.layer \in Nat
      BY WrittenNumbers DEF TypeInv
    <3>2. RawOut(last) <= RawOut(x)
      BY <1>3, <2>2, <3>1
    <3>3. RawIn(last) <= RawIn(x) /\ last.layer <= x.layer
      BY <1>1, <3>2 DEF Numbered, InStep
    <3> QED
      BY <2>2, <3>1, <3>3
  <2> QED
    BY <2>1, <2>2 DEF Takes
<1>4. ASSUME NEW x \in Written(q) PROVE Fits(q, c', d', sent'[q], x)
  <2>1. Fits(q, c, d, sent[q], x)
    BY <1>1 DEF Numbered
  <2>2. x.act = "resend" => Askable(q, d', RawIn(x), x.a, x.b)
    BY <1>2, <2>1 DEF Fits, Askable
  <2> QED
    BY <1>3, <2>1, <2>2 DEF Fits
<1>5. \A w \in Written(q)' : Fits(q, c', d', sent'[q], w)
  BY <1>4, EchoFits DEF Echoes
<1>6. InStep(Written(q)')
  BY <1>1, EchoInStep DEF Numbered
<1>7. Heard(c', d')
  <2>1. CASE /\ d'.in_seq_no = d.in_seq_no /\ d'.peer_in_seq_no = d.peer_in_seq_no
             /\ d'.wrapper_layer = d.wrapper_layer
    BY <1>1, <2>1 DEF Numbered, Heard
  <2>2. ASSUME NEW last \in Written(q), d'.in_seq_no = RawOut(last) + 1,
               d'.peer_in_seq_no = RawIn(last), d'.wrapper_layer = last.layer
        PROVE  Heard(c', d')
    <3>1. RawOut(last) \in Nat /\ RawIn(last) \in Nat /\ last.layer \in Nat
      BY WrittenNumbers DEF TypeInv
    <3>2. Fits(q, c, d, sent[q], last)
      BY <1>1 DEF Numbered
    <3>3. RawOut(last) + 1 <= c.out_seq_no
      BY <1>1, <3>1, <3>2, SeqFacts DEF Fits
    <3> QED
      BY <2>2, <3>2, <3>3 DEF Fits, Heard
  <2> QED
    BY <2>1, <2>2 DEF Takes
<1>8. DueWell(q, c', d')
  BY <1>1, <1>2 DEF Numbered, DueWell, Askable
<1>9. Len(sent'[q]) = c'.out_seq_no
  BY <1>1 DEF Numbered
<1> QED
  BY <1>5, <1>6, <1>7, <1>8, <1>9 DEF Numbered

\* What p forgets on learning that its peer has heard up to peer_in is nothing
\* the peer may still ask for.
LEMMA ForgetRetains ==
  ASSUME TypeInv, NumberInv, NEW p \in Side, Open(p), NEW peer_in \in Nat,
         peer_in >= seq[p].peer_in_seq_no, NEW n \in peer_in .. (seq[p].out_seq_no - 1)
  PROVE  \E r \in forget_acknowledged(p, retained_out[p], peer_in) : RawOut(r.w) = n
<1>1. seq[p] \in SeqState /\ Numbered(p)
  BY DEF TypeInv, TypeOK, NumberInv
<1>2. PICK r \in retained_out[p] : RawOut(r.w) = n
  BY <1>1, SeqFacts DEF Numbered, Retains
<1>3. r.w \in Written(p)
  BY DEF Written
<1>4. r.w.out_seq_no = 2 * n + OutX(p)
  BY <1>1, <1>2, <1>3 DEF Numbered, Fits, transform_out_seq_no
<1>5. n \in Int /\ OutX(p) \in Int
  BY TwoSides
<1>6. 2 * n + OutX(p) > 2 * (peer_in - 1) + OutX(p)
  BY <1>5
<1> QED
  BY <1>2, <1>4, <1>6 DEF forget_acknowledged

LEMMA ReceiptEchoes ==
  ASSUME TypeInv, NEW p \in Side, NEW f \in net, f.to = p,
         NEW c, NEW ready, Receipt(p, f, c, ready),
         queue_in'[Peer(p)] = queue_in[Peer(p)],
         \A w \in queue_in'[p] : \E x \in Written(Peer(p)) : Echo(w, x)
  PROVE  /\ Echoes(Written(p)', Written(p))
         /\ Echoes(Written(Peer(p))', Written(Peer(p)))
<1> DEFINE q == Peer(p)
<1> DEFINE answer == IF f.w.act = "resend"
                       THEN answer_resend(retained_out[p], f.w.a, f.w.b) ELSE {}
<1> DEFINE kept == forget_acknowledged(p, retained_out[p], c.peer_in_seq_no)
<1>1. /\ retained_out' = [retained_out EXCEPT ![p] =
             (kept \ answer) \cup {[r EXCEPT !.pending = TRUE] : r \in answer}]
      /\ UNCHANGED <<net, sent>>
  BY DEF Receipt, history
<1>2. kept \subseteq retained_out[p] /\ answer \subseteq retained_out[p]
  BY DEF forget_acknowledged, answer_resend
<1> HIDE DEF answer, kept
<1>3. \A r \in retained_out[p] : [r EXCEPT !.pending = TRUE].w = r.w
  BY DEF TypeInv, TypeOK, Item
<1>4. \A r \in retained_out'[p] : \E x \in Written(p) : Echo(r.w, x)
  <2>1. \A r \in retained_out'[p] : \E y \in retained_out[p] : r.w = y.w
    <3>1. retained_out'[p] = (kept \ answer) \cup {[r EXCEPT !.pending = TRUE] : r \in answer}
      BY <1>1 DEF TypeInv, TypeOK
    <3>2. \A r \in answer : [r EXCEPT !.pending = TRUE].w = r.w /\ r \in retained_out[p]
      BY <1>2, <1>3
    <3> QED
      BY <1>2, <3>1, <3>2
  <2>2. \A y \in retained_out[p] : y.w \in Written(p)
    BY DEF Written
  <2> QED
    BY <2>1, <2>2, EchoSelf
<1>5. \A w \in queue_in'[q] : \E x \in Written(p) : Echo(w, x)
  BY EchoSelf DEF Written
<1>6. retained_out'[q] = retained_out[q] /\ Peer(q) = p
  BY <1>1, TwoSides DEF TypeInv, TypeOK
<1>7. \A r \in retained_out'[q] : \E x \in Written(q) : Echo(r.w, x)
  BY <1>6, EchoSelf DEF Written
<1>8. Echoes(Written(p)', Written(p))
  BY <1>1, <1>4, <1>5, WrittenEchoes
<1>9. Echoes(Written(q)', Written(q))
  BY <1>1, <1>6, <1>7, TwoSides, WrittenEchoes
<1> QED
  BY <1>8, <1>9

LEMMA ReceiptNumbers ==
  ASSUME TypeInv, TypeInv', NumberInv, NEW p \in Side, Open(p), NEW f \in net, f.to = p,
         NEW c \in SeqState, NEW ready, Receipt(p, f, c, ready),
         Takes(Peer(p), seq[p], c), c.peer_in_seq_no >= seq[p].peer_in_seq_no,
         DueWell(p, c, seq[Peer(p)]),
         queue_in'[Peer(p)] = queue_in[Peer(p)],
         \A w \in queue_in'[p] :
           /\ \E x \in Written(Peer(p)) : Echo(w, x)
           /\ RawOut(w) <= c.in_seq_no + MAX_RESEND_COUNT
  PROVE  NumberInv'
<1> DEFINE q == Peer(p)
<1>1. /\ q \in Side /\ q # p /\ Peer(q) = p /\ seq[p] \in SeqState /\ seq[q] \in SeqState
      /\ Numbered(p) /\ Numbered(q)
  BY TwoSides DEF TypeInv, TypeOK, NumberInv
<1>2. /\ seq'[p] = c /\ seq'[q] = seq[q] /\ UNCHANGED sent
      /\ retained_out'[q] = retained_out[q] /\ state'[q] = state[q]
  BY <1>1 DEF Receipt, history, TypeInv, TypeOK
<1>3. Echoes(Written(p)', Written(p)) /\ Echoes(Written(q)', Written(q))
  BY ReceiptEchoes
<1>4. Grows(seq[p], c)
  <2>1. \A last \in Written(q) : RawOut(last) \in Nat
    BY <1>1, WrittenNumbers DEF TypeInv
  <2> QED
    BY <1>1, <2>1, SeqFacts DEF Takes, Grows
<1>5. Stays(seq[q], seq'[q])
  BY <1>1, <1>2, SeqFacts DEF Stays
<1>6. Retains(p)'
  <2> SUFFICES ASSUME NEW n \in c.peer_in_seq_no .. (c.out_seq_no - 1)
               PROVE  \E r \in retained_out'[p] : RawOut(r.w) = n
    BY <1>2 DEF Retains
  <2> DEFINE answer == IF f.w.act = "resend"
                         THEN answer_resend(retained_out[p], f.w.a, f.w.b) ELSE {}
  <2> DEFINE kept == forget_acknowledged(p, retained_out[p], c.peer_in_seq_no)
  <2>1. retained_out'[p] = (kept \ answer) \cup {[r EXCEPT !.pending = TRUE] : r \in answer}
    BY DEF Receipt, TypeInv, TypeOK
  <2>2. kept \subseteq Item
    BY DEF forget_acknowledged, TypeInv, TypeOK
  <2>3. PICK r \in kept : RawOut(r.w) = n
    BY ForgetRetains, SeqFacts DEF Takes
  <2> HIDE DEF kept, answer
  <2>4. CASE r \in answer
    <3>1. [r EXCEPT !.pending = TRUE].w = r.w
      BY <2>2 DEF Item
    <3> QED
      BY <2>1, <2>3, <2>4, <3>1
  <2>5. CASE r \notin answer
    BY <2>1, <2>3, <2>5
  <2> QED
    BY <2>4, <2>5
<1>7. Numbered(p)'
  BY <1>1, <1>2, <1>3, <1>4, <1>5, <1>6, WriterKeeps
<1>8. Retains(q)'
  BY <1>1, <1>2 DEF Numbered, Retains, Open
<1>9. Numbered(q)'
  BY <1>1, <1>2, <1>3, <1>8, ReaderTakes
<1> QED
  BY <1>7, <1>9, TwoSides DEF NumberInv

\* A span of numbers p may ask for, as the wire numbers of its request.
LEMMA SpanAskable ==
  ASSUME NEW p \in Side, NEW d \in SeqState, NEW m \in Nat, NEW last \in Nat,
         m <= last, last - m < MAX_RESEND_COUNT, last < d.out_seq_no,
         NEW n \in Nat, n <= m
  PROVE  Askable(p, d, n, 2 * m + InX(p), 2 * last + InX(p))
<1>1. /\ transform_in_seq_no(m, p) = 2 * m + InX(p)
      /\ transform_in_seq_no(last, p) = 2 * last + InX(p)
  BY DEF transform_in_seq_no
<1>2. /\ raw_seq_no(2 * m + InX(p)) = m
      /\ raw_seq_no(2 * last + InX(p)) = last
  BY <1>1, WireNumber
<1> QED
  BY <1>1, <1>2 DEF Askable

LEMMA EarlyTakes ==
  ASSUME TypeInv, NumberInv, NEW p \in Side, NEW w \in Written(Peer(p)),
         RawOut(w) > seq[p].in_seq_no,
         RawOut(w) - seq[p].in_seq_no <= MAX_RESEND_COUNT
  PROVE  LET c == accept_early(seq[p], w)
         IN /\ Takes(Peer(p), seq[p], c) /\ c.peer_in_seq_no = seq[p].peer_in_seq_no
            /\ DueWell(p, c, seq[Peer(p)])
<1> DEFINE q == Peer(p)
<1> DEFINE d == seq[p]
<1> DEFINE heard == [d EXCEPT !.layer = raise_remote_layer(@, w.layer)]
<1> DEFINE due == [start |-> 2 * d.in_seq_no + (w.out_seq_no % 2), end |-> w.out_seq_no - 2]
<1> DEFINE c == accept_early(d, w)
<1>1. /\ q \in Side /\ d \in SeqState /\ seq[q] \in SeqState /\ Numbered(p) /\ Numbered(q)
      /\ OutX(q) = InX(p) /\ InX(p) \in {0, 1}
  BY TwoSides DEF TypeInv, TypeOK, NumberInv
<1>2. /\ w \in Wrapper /\ RawOut(w) \in Nat /\ w.layer \in Nat
      /\ w.out_seq_no = transform_out_seq_no(RawOut(w), q) /\ RawOut(w) < seq[q].out_seq_no
  BY <1>1, WrittenNumbers DEF Numbered, Fits, TypeInv
<1>3. w.out_seq_no = 2 * RawOut(w) + InX(p) /\ w.out_seq_no % 2 = InX(p)
  BY <1>1, <1>2, WireNumber DEF transform_out_seq_no
<1>4. /\ heard.in_seq_no = d.in_seq_no /\ heard.out_seq_no = d.out_seq_no
      /\ heard.peer_in_seq_no = d.peer_in_seq_no /\ heard.wrapper_layer = d.wrapper_layer
      /\ heard.layer >= d.layer /\ heard.resend_due = d.resend_due
      /\ d.in_seq_no \in Nat
  BY <1>1, <1>2, RaiseRises DEF SeqState
<1>5. c = IF d.gap_requested THEN heard
          ELSE [heard EXCEPT !.gap_requested = TRUE, !.gap_end = RawOut(w),
                             !.resend_due = due]
  BY DEF accept_early
<1>6. /\ c.in_seq_no = d.in_seq_no /\ c.out_seq_no = d.out_seq_no
      /\ c.peer_in_seq_no = d.peer_in_seq_no /\ c.wrapper_layer = d.wrapper_layer
      /\ c.layer >= d.layer /\ c.resend_due = IF d.gap_requested THEN d.resend_due ELSE due
  <2>1. heard \in SeqState
    BY <1>1, <1>2, RaiseType DEF SeqState
  <2> HIDE DEF heard, due, c
  <2> QED BY <1>4, <1>5, <2>1 DEF SeqState
<1> HIDE DEF c
<1>7. Askable(p, seq[q], 0, due.start, due.end)
  <2> DEFINE k == RawOut(w) - 1
  <2>1. k \in Nat /\ d.in_seq_no <= k /\ k - d.in_seq_no < MAX_RESEND_COUNT
        /\ k < seq[q].out_seq_no
    BY <1>1, <1>2, <1>4, SeqFacts, WindowAssumption
  <2>2. Askable(p, seq[q], 0, 2 * d.in_seq_no + InX(p), 2 * k + InX(p))
    <3> HIDE DEF k
    <3> QED BY <1>1, <1>4, <2>1, SpanAskable
  <2>3. due.start = 2 * d.in_seq_no + InX(p) /\ due.end = 2 * k + InX(p)
    BY <1>1, <1>2, <1>3
  <2> QED
    BY <2>2, <2>3
<1> HIDE DEF due
<1>8. DueWell(p, c, seq[q])
  BY <1>1, <1>6, <1>7 DEF Numbered, DueWell
<1>9. Takes(q, d, c)
  BY <1>6 DEF Takes
<1> QED
  BY <1>6, <1>8, <1>9 DEF c

\* What Taken picks for a number is the wrapper itself or one that waits.
LEMMA TakenFrom ==
  ASSUME NEW Q \in SUBSET Wrapper, NEW w \in Wrapper,
         NEW m \in NextMissing(Q, RawOut(w)), NEW j \in RawOut(w) .. (m - 1)
  PROVE  /\ Taken(Q, w, j) \in Q \cup {w} /\ RawOut(Taken(Q, w, j)) = j
         /\ j # RawOut(w) => Taken(Q, w, j) \in Q
<1>1. RawOut(w) \in Nat /\ m \in Nat
  BY RawOutType, NextMissingFacts
<1>2. CASE j = RawOut(w)
  BY <1>2 DEF Taken
<1>3. CASE j # RawOut(w)
  <2>1. j \in (RawOut(w) + 1) .. (m - 1)
    BY <1>1, <1>3
  <2>2. \E x \in Q : RawOut(x) = j
    BY <1>1, <2>1, NextMissingFacts
  <2> QED
    BY <1>3, <2>2 DEF Taken
<1> QED
  BY <1>2, <1>3

LEMMA NextTakes ==
  ASSUME TypeInv, NumberInv, NEW p \in Side, NEW w \in Written(Peer(p)),
         RawOut(w) = seq[p].in_seq_no,
         NEW m \in NextMissing(queue_in[p], RawOut(w)),
         NEW first \in FirstWaiting(queue_in[p], m)
  PROVE  LET c == accept_next(seq[p], queue_in[p], w, m, first)
         IN /\ Takes(Peer(p), seq[p], c) /\ c.peer_in_seq_no >= seq[p].peer_in_seq_no
            /\ c.in_seq_no = m /\ m > seq[p].in_seq_no
            /\ DueWell(p, c, seq[Peer(p)])
<1> DEFINE q == Peer(p)
<1> DEFINE d == seq[p]
<1> DEFINE Q == queue_in[p]
<1> DEFINE last == Taken(Q, w, m - 1)
<1> DEFINE x == w.out_seq_no % 2
<1> DEFINE moved == [d EXCEPT !.layer = raise_remote_layer(@, w.layer),
                              !.peer_in_seq_no = RawIn(last),
                              !.wrapper_layer = last.layer,
                              !.in_seq_no = m]
<1> DEFINE due == [start |-> 2 * m + x, end |-> 2 * (first - 1) + x]
<1> DEFINE c == accept_next(d, Q, w, m, first)
<1>1. /\ q \in Side /\ d \in SeqState /\ seq[q] \in SeqState /\ Numbered(p) /\ Numbered(q)
      /\ OutX(q) = InX(p) /\ InX(p) \in {0, 1} /\ Peer(q) = p /\ Q \in SUBSET Wrapper
  BY TwoSides DEF TypeInv, TypeOK, NumberInv
<1>2. Q \subseteq Written(q)
  BY <1>1 DEF Written
<1>3. \A y \in Written(q) :
        /\ y \in Wrapper /\ RawOut(y) \in Nat /\ RawIn(y) \in Nat /\ y.layer \in Nat
        /\ Fits(q, seq[q], d, sent[q], y)
  BY <1>1, WrittenNumbers DEF Numbered, TypeInv
<1>4. w.out_seq_no % 2 = InX(p)
  <2>1. w.out_seq_no = transform_out_seq_no(RawOut(w), q) /\ RawOut(w) \in Nat
    BY <1>3 DEF Fits
  <2> QED
    BY <1>1, <2>1, WireNumber
<1>5. m \in Nat /\ m > RawOut(w) /\ d.in_seq_no \in Nat
  BY <1>1, <1>3, NextMissingFacts, SeqFacts
<1>6. last \in Written(q) /\ RawOut(last) = m - 1
  <2>1. m - 1 \in RawOut(w) .. (m - 1)
    BY <1>3, <1>5
  <2>2. last \in Q \cup {w} /\ RawOut(last) = m - 1
    BY <1>1, <1>3, <2>1, TakenFrom
  <2> QED
    BY <1>2, <2>2
<1> HIDE DEF last
<1>7. /\ moved \in SeqState /\ moved.in_seq_no = m /\ moved.out_seq_no = d.out_seq_no
      /\ moved.peer_in_seq_no = RawIn(last) /\ moved.wrapper_layer = last.layer
      /\ moved.layer >= d.layer /\ moved.resend_due = d.resend_due
  <2>1. RawIn(last) \in Nat /\ last.layer \in Nat /\ w.layer \in Nat
    BY <1>3, <1>6
  <2> QED
    BY <1>1, <1>5, <2>1, RaiseType, RaiseRises DEF SeqState
<1>8. c = IF first = NoGap
            THEN [moved EXCEPT !.gap_requested = FALSE, !.gap_end = NoGap,
                               !.resend_due = NoSpan]
          ELSE IF d.gap_end = NoGap \/ m >= d.gap_end
            THEN [moved EXCEPT !.gap_requested = TRUE, !.gap_end = first,
                               !.resend_due = due]
          ELSE moved
  BY DEF accept_next, last
<1> HIDE DEF moved, due, c
<1>9. /\ c.in_seq_no = m /\ c.out_seq_no = d.out_seq_no
      /\ c.peer_in_seq_no = RawIn(last) /\ c.wrapper_layer = last.layer
      /\ c.layer >= d.layer
      /\ \/ c.resend_due = NoSpan \/ c.resend_due = d.resend_due
         \/ first # NoGap /\ c.resend_due = due
  BY <1>7, <1>8 DEF SeqState
<1>10. Takes(q, d, c)
  <2>1. RawOut(last) >= d.in_seq_no /\ m = RawOut(last) + 1
    BY <1>3, <1>5, <1>6
  <2> QED
    BY <1>6, <1>9, <2>1 DEF Takes
<1>11. c.peer_in_seq_no >= d.peer_in_seq_no
  <2>1. RawOut(last) >= d.in_seq_no
    BY <1>3, <1>5, <1>6
  <2> QED
    BY <1>3, <1>6, <1>9, <2>1 DEF Fits
<1>12. first # NoGap => Askable(p, seq[q], 0, due.start, due.end)
  <2> SUFFICES ASSUME first # NoGap PROVE Askable(p, seq[q], 0, due.start, due.end)
    OBVIOUS
  <2>1. PICK y \in Waiting(Q, m) : first = RawOut(y)
    BY DEF FirstWaiting
  <2>2. y \in Q /\ first > m /\ first \in Nat /\ y \in Written(q)
    BY <1>2, <1>3, <2>1 DEF Waiting
  <2>3. first < seq[q].out_seq_no /\ first <= d.in_seq_no + MAX_RESEND_COUNT
    BY <1>1, <1>3, <2>1, <2>2 DEF Numbered, Fits
  <2> DEFINE k == first - 1
  <2>4. k \in Nat /\ m <= k /\ k - m < MAX_RESEND_COUNT /\ k < seq[q].out_seq_no
    BY <1>1, <1>5, <2>2, <2>3, SeqFacts, WindowAssumption
  <2>5. Askable(p, seq[q], 0, 2 * m + InX(p), 2 * k + InX(p))
    <3> HIDE DEF k
    <3> QED BY <1>1, <1>5, <2>4, SpanAskable
  <2> QED
    BY <1>4, <2>5 DEF due
<1>13. DueWell(p, c, seq[q])
  BY <1>1, <1>9, <1>12 DEF Numbered, DueWell
<1> QED
  BY <1>5, <1>9, <1>10, <1>11, <1>13 DEF c

----------------------------------------------------------------------------
(* The steps that write nothing new and take nothing *)

LEMMA SameCounters ==
  ASSUME NEW c \in SeqState, NEW c2 \in SeqState, c2 = c
  PROVE  Counters(c, c2)
BY SeqFacts DEF Counters, Grows, Stays

\* A frame of what p retains.
SentAgain(p, f) == f.to = Peer(p) /\ \E x \in retained_out[p] : Echo(f.w, x.w)

\* A step of side p alone, which may send again what it retains.
LEMMA OwnNumbers ==
  ASSUME TypeInv, TypeInv', NumberInv, NEW p \in Side, UNCHANGED sent,
         \A q \in Side : queue_in'[q] \subseteq queue_in[q],
         \A q \in Side : q # p => /\ retained_out'[q] = retained_out[q]
                                /\ state'[q] = state[q] /\ seq'[q] = seq[q],
         \A r \in retained_out'[p] : \E x \in retained_out[p] : Echo(r.w, x.w),
         \A f \in net' : f \in net \/ SentAgain(p, f),
         Counters(seq[p], seq'[p]), Kept(p)
  PROVE  NumberInv'
<1> SUFFICES ASSUME NEW q \in Side
             PROVE  /\ Echoes(Written(q)', Written(q)) /\ queue_in'[q] \subseteq queue_in[q]
                    /\ Counters(seq[q], seq'[q]) /\ Kept(q)
  BY QuietNumbers
<1>1. \A w \in queue_in'[Peer(q)] : \E x \in Written(q) : Echo(w, x)
  BY EchoSelf, PeerType DEF Written
<1>2. \A x \in retained_out[q] : x.w \in Written(q)
  BY DEF Written
<1>3. CASE q = p
  <2>1. Echoes(Written(q)', Written(q))
    BY <1>1, <1>2, <1>3, WrittenEchoes DEF SentAgain
  <2> QED
    BY <1>3, <2>1
<1>4. CASE q # p
  <2>1. Peer(q) = p /\ Peer(p) # p
    BY <1>4, TwoSides
  <2>2. \A r \in retained_out'[q] : \E x \in Written(q) : Echo(r.w, x)
    BY <1>2, <1>4, EchoSelf
  <2>3. \A f \in net' : f \in net \/ f.to # Peer(q) \/ \E x \in Written(q) : Echo(f.w, x)
    BY <2>1 DEF SentAgain
  <2>4. Echoes(Written(q)', Written(q))
    BY <1>1, <2>2, <2>3, WrittenEchoes
  <2>5. seq[q] \in SeqState /\ seq'[q] = seq[q]
    BY <1>4 DEF TypeInv, TypeOK
  <2>6. Counters(seq[q], seq'[q])
    BY <2>5, SameCounters
  <2>7. Kept(q)
    BY <1>4 DEF Kept, Open
  <2> QED
    BY <2>4, <2>6, <2>7
<1> QED
  BY <1>3, <1>4

\* A step that leaves outboxes, queues and server alone.
LEMMA PlainNumbers ==
  ASSUME TypeInv, TypeInv', NumberInv, UNCHANGED <<retained_out, queue_in, net, sent>>,
         \A q \in Side : Counters(seq[q], seq'[q]) /\ (Open(q)' => Open(q))
  PROVE  NumberInv'
<1>1. \A q \in Side : Written(q)' = Written(q)
  BY DEF Written
<1>2. \A q \in Side : Echoes(Written(q)', Written(q))
  BY <1>1, EchoSelf DEF Echoes
<1>3. \A q \in Side : Kept(q)
  BY DEF Kept
<1> QED
  BY <1>2, <1>3, QuietNumbers

LEMMA StillNumbers ==
  ASSUME TypeInv, TypeInv', NumberInv, UNCHANGED <<retained_out, queue_in, net, sent, seq>>,
         \A q \in Side : Open(q)' => Open(q)
  PROVE  NumberInv'
<1>1. \A q \in Side : seq[q] \in SeqState /\ seq'[q] = seq[q]
  BY DEF TypeInv, TypeOK
<1>2. \A q \in Side : Counters(seq[q], seq'[q])
  BY <1>1, SameCounters
<1> QED
  BY <1>2, PlainNumbers

LEMMA CloseNumbers ==
  ASSUME TypeInv, TypeInv', NumberInv, NEW p \in Side, NEW reason, CloseChat(p, reason),
         UNCHANGED sent,
         \A f \in net' : f \in net \/ SentAgain(p, f)
  PROVE  NumberInv'
<1>1. /\ state' = [state EXCEPT ![p] = "closed"] /\ UNCHANGED seq
      /\ queue_in' = [queue_in EXCEPT ![p] = {}]
      /\ retained_out' = [retained_out EXCEPT ![p] = {}]
  BY DEF CloseChat
<1>2. /\ \A q \in Side : queue_in'[q] \subseteq queue_in[q]
      /\ \A q \in Side : q # p => /\ retained_out'[q] = retained_out[q]
                                 /\ state'[q] = state[q] /\ seq'[q] = seq[q]
      /\ retained_out'[p] = {} /\ state'[p] = "closed"
  BY <1>1 DEF TypeInv, TypeOK
<1>3. Kept(p)
  BY <1>2 DEF Kept, Open
<1>4. Counters(seq[p], seq'[p])
  BY <1>1, SameCounters DEF TypeInv, TypeOK
<1> QED
  BY <1>2, <1>3, <1>4, OwnNumbers

LEMMA CloseStill ==
  ASSUME TypeInv, TypeInv', NumberInv, NEW p \in Side, NEW reason, CloseChat(p, reason),
         UNCHANGED <<net, history>>
  PROVE  NumberInv'
<1>1. UNCHANGED sent /\ \A f \in net' : f \in net
  BY DEF history
<1> QED
  BY <1>1, CloseNumbers

\* Withdrawn content keeps its slot.
LEMMA ForgetNumbers ==
  ASSUME TypeInv, TypeInv', NumberInv, NEW p \in Side, NEW raws, Forget(p, raws),
         UNCHANGED <<state, seq, queue_in, net, sent>>
  PROVE  NumberInv'
<1> DEFINE g(r) == IF RawOut(r.w) \in raws THEN Withdrawn(r, keys[p].key) ELSE r
<1>1. /\ retained_out'[p] = {g(r) : r \in retained_out[p]}
      /\ \A q \in Side : q # p => retained_out'[q] = retained_out[q]
      /\ retained_out[p] \subseteq Item
  BY DEF Forget, rewrite_retained_as_deletes, TypeInv, TypeOK
<1>2. \A r \in retained_out[p] : Echo(g(r).w, r.w)
  BY <1>1, WithdrawnEcho, EchoSelf
<1> HIDE DEF g
<1>3. \A x \in retained_out'[p] : \E r \in retained_out[p] : Echo(x.w, r.w)
  BY <1>1, <1>2
<1>4. Kept(p)
  <2>1. \A r \in retained_out[p] : \E x \in retained_out'[p] : RawOut(x.w) = RawOut(r.w)
    BY <1>1, <1>2, EchoNumbers
  <2> QED
    BY <2>1 DEF Kept, Open
<1>5. Counters(seq[p], seq'[p])
  BY SameCounters DEF TypeInv, TypeOK
<1>6. /\ \A q \in Side : queue_in'[q] \subseteq queue_in[q]
      /\ \A q \in Side : q # p => state'[q] = state[q] /\ seq'[q] = seq[q]
      /\ \A f \in net' : f \in net
      /\ UNCHANGED sent
  OBVIOUS
<1> QED
  BY <1>1, <1>3, <1>4, <1>5, <1>6, OwnNumbers

----------------------------------------------------------------------------
(* The actions *)

LEMMA CountedCounts ==
  ASSUME TypeInv, NEW p \in Side, seq' = Counted(p)
  PROVE  Counts(p)
<1> DEFINE c == [seq[p] EXCEPT !.out_seq_no = @ + 1]
<1>1. seq[p] \in SeqState /\ seq' = [seq EXCEPT ![p] = c] /\ seq \in [Side -> SeqState]
  BY DEF TypeInv, TypeOK, Counted
<1>2. /\ c.out_seq_no = seq[p].out_seq_no + 1 /\ c.in_seq_no = seq[p].in_seq_no
      /\ c.peer_in_seq_no = seq[p].peer_in_seq_no /\ c.layer = seq[p].layer
      /\ c.wrapper_layer = seq[p].wrapper_layer /\ c.resend_due = seq[p].resend_due
  BY <1>1 DEF SeqState
<1> HIDE DEF c
<1> QED
  BY <1>1, <1>2 DEF Counts

LEMMA ApplicationNumbers ==
  ASSUME TypeInv, TypeInv', NumberInv, NEW p \in Side, Application(p)
  PROVE  NumberInv'
<1>1. CASE SendMessage(p) \/ NotifyLayer(p)
  <2>1. /\ Open(p) /\ Counts(p)
        /\ \E act \in {"msg", "notify"}, a \in {0, MAX_LAYER}, o \in AnyOutcome :
             Commit(p, act, a, 0, keys[p].key, keys[p], state[p], o)
    BY <1>1, CountedCounts DEF SendMessage, NotifyLayer, Idle
  <2>2. PICK act \in {"msg", "notify"}, a \in {0, MAX_LAYER}, o \in AnyOutcome :
          Commit(p, act, a, 0, keys[p].key, keys[p], state[p], o)
    BY <2>1
  <2>3. keys[p].key \in Nat /\ act \in Acts /\ a \in Nat /\ 0 \in Nat /\ act # "resend"
    BY <2>1, OpenFacts DEF Acts, MAX_LAYER
  <2> QED
    BY <2>1, <2>2, <2>3, CommitNumbers
<1>2. CASE StartRekey(p)
  <2>1. Open(p) /\ Counts(p)
    BY <1>2, CountedCounts DEF StartRekey, Idle, At
  <2>2. PICK e \in ExchangeIds[p], o \in AnyOutcome :
          Commit(p, "request", e, 0, keys[p].key, Requested(keys[p], e), "rekeying", o)
    BY <1>2 DEF StartRekey
  <2>3. keys[p].key \in Nat /\ "request" \in Acts /\ e \in Nat /\ 0 \in Nat
    BY <2>1, OpenFacts, BoundsAssumption DEF Acts
  <2> QED
    BY <2>1, <2>2, <2>3, CommitNumbers
<1>3. CASE SendDelete(p)
  <2>1. Open(p) /\ Counts(p) /\ Head(todo[p]) \in Step /\ Head(todo[p]).do \in {"delete", "flush"}
    BY <1>3, CountedCounts, AtFacts DEF SendDelete, TypeInv
  <2>2. PICK o : Commit(p, Head(todo[p]).do, Head(todo[p]).arg, 0, keys[p].key, keys[p], state[p], o)
    BY <1>3 DEF SendDelete
  <2>3. /\ keys[p].key \in Nat /\ Head(todo[p]).do \in Acts /\ Head(todo[p]).arg \in Nat
        /\ 0 \in Nat /\ Head(todo[p]).do # "resend"
    BY <2>1, OpenFacts DEF Acts, Step
  <2> QED
    BY <2>1, <2>2, <2>3, CommitNumbers
<1>4. CASE BeginDelete(p) \/ BeginFlush(p)
  <2>1. /\ \E raws : Forget(p, raws)
        /\ UNCHANGED <<state, seq, queue_in, net, sent>>
    BY <1>4 DEF BeginDelete, BeginFlush, chatVars, history
  <2> QED
    BY <2>1, ForgetNumbers
<1>5. CASE Close(p)
  BY <1>5, CloseStill DEF Close
<1> QED
  BY <1>1, <1>2, <1>3, <1>4, <1>5 DEF Application

LEMMA ReceiveNumbers ==
  ASSUME TypeInv, TypeInv', NumberInv, NEW p \in Side, Receive(p)
  PROVE  NumberInv'
<1> DEFINE q == Peer(p)
<1>1. /\ q \in Side /\ q # p /\ Peer(q) = p /\ seq[p] \in SeqState
      /\ queue_in[p] \in SUBSET Wrapper /\ queue_in \in [Side -> SUBSET Wrapper]
  BY TwoSides DEF TypeInv, TypeOK
<1>2. \A f \in net : f.to = p => f.w \in Written(q)
  BY <1>1 DEF Written
<1>3. \A x \in queue_in[p] :
        /\ x \in Written(q) /\ RawOut(x) \in Nat
        /\ RawOut(x) <= seq[p].in_seq_no + MAX_RESEND_COUNT
  BY <1>1, RawOutType DEF NumberInv, Numbered, Written
<1>4. ASSUME NEW f \in net, ReceiveEarly(p, f) PROVE NumberInv'
  <2> DEFINE c == accept_early(seq[p], f.w)
  <2>1. /\ Open(p) /\ f.to = p /\ Receipt(p, f, c, <<>>) /\ Verdict(p, f) = "take"
        /\ RawOut(f.w) > seq[p].in_seq_no
        /\ queue_in' = [queue_in EXCEPT ![p] = @ \cup {Stored(f.w)}]
    BY <1>4 DEF ReceiveEarly, Idle, Readable
  <2>2. f.w \in Written(q) /\ f.w \in Wrapper /\ RawOut(f.w) \in Nat
    BY <1>1, <1>2, <2>1, WrittenNumbers DEF TypeInv
  <2>3. RawOut(f.w) - seq[p].in_seq_no <= MAX_RESEND_COUNT
    <3>1. preflight(p, seq[p], queue_in[p], f.w) = "take"
      BY <2>1 DEF Verdict
    <3>2. ~ (RawOut(f.w) - seq[p].in_seq_no > MAX_RESEND_COUNT)
      BY <3>1 DEF preflight
    <3> QED
      BY <1>1, <2>2, <3>2, SeqFacts, WindowAssumption
  <2>4. /\ Takes(q, seq[p], c) /\ c.peer_in_seq_no = seq[p].peer_in_seq_no
        /\ DueWell(p, c, seq[q])
    BY <2>1, <2>2, <2>3, EarlyTakes
  <2>5. c \in SeqState /\ c.in_seq_no = seq[p].in_seq_no
    BY <1>1, <2>2, AcceptEarlyType
  <2> HIDE DEF c
  <2>6. /\ Echo(Stored(f.w), f.w) /\ RawOut(Stored(f.w)) = RawOut(f.w)
    BY <2>2, StoredEcho, EchoNumbers
  <2>7. /\ queue_in'[q] = queue_in[q]
        /\ \A w \in queue_in'[p] : w \in queue_in[p] \/ w = Stored(f.w)
    BY <1>1, <2>1
  <2>8. \A w \in queue_in'[p] : /\ \E x \in Written(q) : Echo(w, x)
                                /\ RawOut(w) <= c.in_seq_no + MAX_RESEND_COUNT
    <3>1. RawOut(f.w) <= seq[p].in_seq_no + MAX_RESEND_COUNT
      BY <1>1, <2>2, <2>3, SeqFacts, WindowAssumption
    <3> QED
      BY <1>3, <2>2, <2>5, <2>6, <2>7, <3>1, EchoSelf
  <2>9. c.peer_in_seq_no >= seq[p].peer_in_seq_no
    BY <1>1, <2>4, SeqFacts
  <2> QED
    BY <2>1, <2>4, <2>5, <2>7, <2>8, <2>9, ReceiptNumbers
<1>5. ASSUME NEW f \in net, ReceiveNext(p, f) PROVE NumberInv'
  <2>1. /\ Open(p) /\ f.to = p /\ RawOut(f.w) = seq[p].in_seq_no
    BY <1>5 DEF ReceiveNext, Idle, Readable
  <2>2. PICK m \in NextMissing(queue_in[p], RawOut(f.w)) :
          /\ queue_in' = [queue_in EXCEPT ![p] = Waiting(@, m)]
          /\ \E first \in FirstWaiting(queue_in[p], m) :
               Receipt(p, f, accept_next(seq[p], queue_in[p], f.w, m, first),
                       Ready(queue_in[p], Stored(f.w), m))
    BY <1>5 DEF ReceiveNext
  <2>3. PICK first \in FirstWaiting(queue_in[p], m) :
          Receipt(p, f, accept_next(seq[p], queue_in[p], f.w, m, first),
                  Ready(queue_in[p], Stored(f.w), m))
    BY <2>2
  <2> DEFINE c == accept_next(seq[p], queue_in[p], f.w, m, first)
  <2> DEFINE ready == Ready(queue_in[p], Stored(f.w), m)
  <2>4. f.w \in Written(q) /\ f.w \in Wrapper
    BY <1>1, <1>2, <2>1, WrittenNumbers DEF TypeInv
  <2>5. /\ Takes(q, seq[p], c) /\ c.peer_in_seq_no >= seq[p].peer_in_seq_no
        /\ c.in_seq_no = m /\ m > seq[p].in_seq_no /\ DueWell(p, c, seq[q])
    BY <2>1, <2>4, NextTakes
  <2>6. c \in SeqState
    BY <1>1, <2>4, AcceptNextType
  <2>7. Receipt(p, f, c, ready)
    BY <2>3
  <2> HIDE DEF c, ready
  <2>8. /\ queue_in'[q] = queue_in[q]
        /\ \A w \in queue_in'[p] : w \in queue_in[p]
    BY <1>1, <2>2 DEF Waiting
  <2>9. \A w \in queue_in'[p] : /\ \E x \in Written(q) : Echo(w, x)
                                /\ RawOut(w) <= c.in_seq_no + MAX_RESEND_COUNT
    <3>1. m \in Nat /\ seq[p].in_seq_no \in Nat
      BY <2>5, <2>6, <1>1, SeqFacts
    <3> QED
      BY <1>3, <2>5, <2>8, <3>1, EchoSelf, WindowAssumption
  <2> QED
    BY <2>1, <2>5, <2>6, <2>7, <2>8, <2>9, ReceiptNumbers
<1>6. ASSUME NEW f \in net, ReceiveRefused(p, f) PROVE NumberInv'
  BY <1>6, CloseStill DEF ReceiveRefused
<1>7. ASSUME NEW f \in net, ReceiveIgnored(p, f) PROVE NumberInv'
  <2>1. UNCHANGED <<state, retained_out, queue_in, net, sent, seq>>
    BY <1>7 DEF ReceiveIgnored, vars, chatVars, storeVars, history
  <2> QED
    BY <2>1, StillNumbers DEF Open
<1>8. CASE Discarded(p)
  BY <1>8, CloseStill DEF Discarded
<1> QED
  BY <1>4, <1>5, <1>6, <1>7, <1>8 DEF Receive

LEMMA ReplyNumbers ==
  ASSUME TypeInv, TypeInv', NumberInv, NEW p \in Side, Draining(p),
         NEW act \in {"abort", "accept", "commit", "noop"}, NEW a \in Nat, NEW b \in Nat,
         NEW key \in Nat, NEW new, NEW st, Reply(p, act, a, b, key, new, st)
  PROVE  NumberInv'
<1>1. Open(p) /\ Counts(p) /\ act \in Acts /\ act # "resend"
  BY CountedCounts DEF Draining, At, Reply, Acts
<1>2. PICK o : Commit(p, act, a, b, key, new, st, o)
  BY DEF Reply
<1> QED
  BY <1>1, <1>2, CommitNumbers

LEMMA DrainNumbers ==
  ASSUME TypeInv, TypeInv', NumberInv, NEW p \in Side, Drain(p)
  PROVE  NumberInv'
<1>1. ASSUME UNCHANGED <<state, retained_out, queue_in, net, sent, seq>> PROVE NumberInv'
  BY <1>1, StillNumbers DEF Open
<1>2. ASSUME Unanswered(p) PROVE NumberInv'
  BY <1>1, <1>2 DEF Unanswered, chatVars, storeVars
<1>3. CASE DeliverPlain(p)
  BY <1>1, <1>3 DEF DeliverPlain, chatVars, storeVars
<1>4. CASE DeliverNotifyLayer(p)
  <2> DEFINE n == Mail(p).a
  <2>1. /\ seq' = [seq EXCEPT ![p].layer = raise_remote_layer(@, n)] /\ n \in Nat
        /\ UNCHANGED <<state, retained_out, queue_in, net, sent>>
    BY <1>4, MailFacts DEF DeliverNotifyLayer, storeVars, Wrapper
  <2> HIDE DEF n
  <2>2. ASSUME NEW q \in Side PROVE Counters(seq[q], seq'[q])
    <3> DEFINE c == seq[q]
    <3>1. c \in SeqState /\ c.layer \in Nat /\ c.in_seq_no \in Nat /\ c.out_seq_no \in Nat
      BY SeqFacts DEF TypeInv, TypeOK
    <3>2. /\ seq'[q].in_seq_no = c.in_seq_no /\ seq'[q].out_seq_no = c.out_seq_no
          /\ seq'[q].peer_in_seq_no = c.peer_in_seq_no
          /\ seq'[q].wrapper_layer = c.wrapper_layer /\ seq'[q].resend_due = c.resend_due
          /\ seq'[q].layer \in {c.layer, raise_remote_layer(c.layer, n)}
      <4> DEFINE e == [seq[p] EXCEPT !.layer = raise_remote_layer(@, n)]
      <4>1. seq' = [seq EXCEPT ![p] = e] /\ seq \in [Side -> SeqState] /\ seq[p] \in SeqState
        BY <2>1 DEF TypeInv, TypeOK
      <4>2. /\ e.in_seq_no = seq[p].in_seq_no /\ e.out_seq_no = seq[p].out_seq_no
            /\ e.peer_in_seq_no = seq[p].peer_in_seq_no
            /\ e.wrapper_layer = seq[p].wrapper_layer /\ e.resend_due = seq[p].resend_due
            /\ e.layer = raise_remote_layer(seq[p].layer, n)
        BY <4>1 DEF SeqState
      <4> HIDE DEF e
      <4>3. seq'[q] = IF q = p THEN e ELSE seq[q]
        BY <4>1
      <4> QED
        BY <4>2, <4>3
    <3>3. c.layer <= raise_remote_layer(c.layer, n)
      BY <2>1, <3>1, RaiseRises
    <3> HIDE DEF c
    <3>4. seq'[q].layer >= c.layer
      BY <3>1, <3>2, <3>3, <2>1, RaiseType
    <3> QED
      BY <3>1, <3>2, <3>4 DEF Counters, Grows, Stays, c
  <2> QED
    BY <2>1, <2>2, PlainNumbers DEF Open
<1>5. CASE DeliverFlush(p)
  BY <1>5, ForgetNumbers DEF DeliverFlush, chatVars
<1>6. CASE DeliverRequestKey(p)
  <2>1. Draining(p) /\ Mail(p).a \in Nat /\ keys[p].key \in Nat /\ minted \in Nat
    BY <1>6, MailFacts, OpenFacts DEF DeliverRequestKey, Wrapper, TypeInv, TypeOK
  <2>2. \/ Unanswered(p)
        \/ \E new, st : \E act \in {"abort", "accept"}, b \in {0, minted + 1} :
             Reply(p, act, Mail(p).a, b, keys[p].key, new, st)
    BY <1>6 DEF DeliverRequestKey
  <2>3. \A b \in {0, minted + 1} : b \in Nat
    BY <2>1
  <2> QED
    BY <1>2, <2>1, <2>2, <2>3, ReplyNumbers
<1>7. CASE DeliverAcceptKey(p)
  <2>1. Draining(p) /\ Mail(p).a \in Nat /\ Mail(p).b \in Nat /\ keys[p].key \in Nat
    BY <1>7, MailFacts, OpenFacts DEF DeliverAcceptKey, Wrapper
  <2>2. \/ Unanswered(p)
        \/ \E new, st : Reply(p, "commit", Mail(p).a, Mail(p).b, keys[p].key, new, st)
    BY <1>7 DEF DeliverAcceptKey
  <2> QED
    BY <1>2, <2>1, <2>2, ReplyNumbers
<1>8. CASE DeliverCommitKey(p)
  <2>1. /\ Draining(p) /\ Open(p) /\ keys[p] \in KeyState
    BY <1>8, MailFacts, OpenFacts DEF DeliverCommitKey
  <2>2. \/ Unanswered(p)
        \/ /\ keys[p].pending_key # NoKey
           /\ \E new, st : Reply(p, "noop", 0, 0, keys[p].pending_key, new, st)
        \/ CloseChat(p, "commit") /\ UNCHANGED <<net, history>>
    BY <1>8 DEF DeliverCommitKey, CommitMatches
  <2>3. keys[p].pending_key # NoKey => keys[p].pending_key \in Nat
    BY <2>1 DEF KeyState, Key
  <2> QED
    BY <1>2, <2>1, <2>2, <2>3, ReplyNumbers, CloseStill
<1>9. CASE DeliverAbortKey(p)
  BY <1>2, <1>9 DEF DeliverAbortKey
<1>10. CASE Pop(p)
  <2>1. /\ UNCHANGED <<seq, queue_in, retained_out, net, sent>>
        /\ state' \in {state, [state EXCEPT ![p] = "ready"]} /\ Open(p)
    BY <1>10 DEF Pop, history, At
  <2>2. \A q \in Side : Open(q)' => Open(q)
    BY <2>1 DEF Open, TypeInv, TypeOK
  <2> QED
    BY <2>1, <2>2, StillNumbers
<1> QED
  BY <1>3, <1>4, <1>5, <1>6, <1>7, <1>8, <1>9, <1>10 DEF Drain

LEMMA RetryNumbers ==
  ASSUME TypeInv, TypeInv', NumberInv, NEW p \in Side, RetryPending(p)
  PROVE  NumberInv'
<1> DEFINE P == Pending(p)
<1>1. retained_out[p] \subseteq Item /\ P \subseteq retained_out[p] /\ UNCHANGED sent
  BY DEF Pending, TypeInv, TypeOK, RetryPending, history
<1>2. \A f \in net' : f \in net \/ SentAgain(p, f)
  <2>1. PICK S : S \subseteq P /\ net' = net \cup {FrameOf(p, r) : r \in S}
    BY DEF RetryPending
  <2>2. \A r \in S : /\ FrameOf(p, r).to = Peer(p) /\ FrameOf(p, r).w = r.w
                    /\ r \in retained_out[p]
    BY <1>1, <2>1 DEF FrameOf
  <2> QED
    BY <2>1, <2>2, EchoSelf DEF SentAgain
<1>3. \/ CloseChat(p, "rejected")
      \/ /\ UNCHANGED <<state, seq, queue_in>>
         /\ \E o : retained_out' = [retained_out EXCEPT ![p] =
                (@ \ P) \cup {Transmitted(r, o[r], keys[p].key) : r \in P}]
  BY DEF RetryPending, chatVars
<1>4. CASE CloseChat(p, "rejected")
  BY <1>1, <1>2, <1>4, CloseNumbers
<1>5. ASSUME UNCHANGED <<state, seq, queue_in>>, NEW o,
             retained_out' = [retained_out EXCEPT ![p] =
                (@ \ P) \cup {Transmitted(r, o[r], keys[p].key) : r \in P}]
      PROVE  NumberInv'
  <2> DEFINE t(r) == Transmitted(r, o[r], keys[p].key)
  <2>1. \A r \in P : Echo(t(r).w, r.w)
    BY <1>1, TransmittedEcho
  <2>2. /\ retained_out'[p] = (retained_out[p] \ P) \cup {t(r) : r \in P}
        /\ \A q \in Side : q # p => retained_out'[q] = retained_out[q]
    BY <1>5 DEF TypeInv, TypeOK
  <2> HIDE DEF t, P
  <2>3. \A r \in retained_out'[p] : \E x \in retained_out[p] : Echo(r.w, x.w)
    BY <1>1, <2>1, <2>2, EchoSelf
  <2>4. Kept(p)
    <3>1. ASSUME NEW r \in retained_out[p]
          PROVE  \E x \in retained_out'[p] : RawOut(x.w) = RawOut(r.w)
      <4>1. CASE r \in P
        BY <2>1, <2>2, <4>1, EchoNumbers
      <4>2. CASE r \notin P
        BY <2>2, <4>2
      <4> QED
        BY <4>1, <4>2
    <3> QED
      BY <1>5, <3>1 DEF Kept, Open
  <2>5. Counters(seq[p], seq'[p])
    BY <1>5, SameCounters DEF TypeInv, TypeOK
  <2>6. /\ \A q \in Side : queue_in'[q] \subseteq queue_in[q]
        /\ \A q \in Side : q # p => state'[q] = state[q] /\ seq'[q] = seq[q]
    BY <1>5
  <2> QED
    BY <1>1, <1>2, <2>2, <2>3, <2>4, <2>5, <2>6, OwnNumbers
<1> QED
  BY <1>3, <1>4, <1>5

LEMMA AskNumbers ==
  ASSUME TypeInv, TypeInv', NumberInv, NEW p \in Side, Ask(p)
  PROVE  NumberInv'
<1> DEFINE c == seq[p]
<1> DEFINE d == seq[Peer(p)]
<1> DEFINE due == c.resend_due
<1>1. /\ Open(p) /\ c \in SeqState /\ d \in SeqState /\ Numbered(p) /\ InX(p) \in {0, 1}
  BY TwoSides DEF Ask, At, TypeInv, TypeOK, NumberInv
<1>2. CASE /\ seq' = [seq EXCEPT ![p].resend_due = NoSpan]
           /\ UNCHANGED <<state, storeVars, net, history>>
  <2>1. ASSUME NEW q \in Side PROVE Counters(seq[q], seq'[q])
    <3>1. seq[q] \in SeqState
      BY DEF TypeInv, TypeOK
    <3>2. /\ seq'[q].in_seq_no = seq[q].in_seq_no /\ seq'[q].out_seq_no = seq[q].out_seq_no
          /\ seq'[q].peer_in_seq_no = seq[q].peer_in_seq_no /\ seq'[q].layer = seq[q].layer
          /\ seq'[q].wrapper_layer = seq[q].wrapper_layer
          /\ seq'[q].resend_due \in {seq[q].resend_due, NoSpan}
      <4> DEFINE e == [seq[p] EXCEPT !.resend_due = NoSpan]
      <4>1. seq' = [seq EXCEPT ![p] = e] /\ seq \in [Side -> SeqState]
        BY <1>2 DEF TypeInv, TypeOK
      <4>2. /\ e.in_seq_no = c.in_seq_no /\ e.out_seq_no = c.out_seq_no
            /\ e.peer_in_seq_no = c.peer_in_seq_no /\ e.layer = c.layer
            /\ e.wrapper_layer = c.wrapper_layer /\ e.resend_due = NoSpan
        BY <1>1 DEF SeqState
      <4> HIDE DEF e
      <4>3. seq'[q] = IF q = p THEN e ELSE seq[q]
        BY <4>1
      <4> QED
        BY <4>2, <4>3
    <3> QED
      BY <3>1, <3>2, SeqFacts DEF Counters, Grows, Stays
  <2> QED
    BY <1>2, <2>1, PlainNumbers DEF Open, storeVars, history
<1>3. ASSUME due # NoSpan, ~ (MissingFrom(c) > due.end),
             seq' = [Counted(p) EXCEPT ![p].resend_due = NoSpan],
             NEW o, Commit(p, "resend", MissingFrom(c), due.end, keys[p].key, keys[p], state[p], o)
      PROVE  NumberInv'
  <2>1. Counts(p)
    <3> DEFINE e == [seq[p] EXCEPT !.out_seq_no = @ + 1, !.resend_due = NoSpan]
    <3>1. seq' = [seq EXCEPT ![p] = e] /\ seq \in [Side -> SeqState]
      BY <1>3 DEF TypeInv, TypeOK, Counted, SeqState
    <3>2. /\ e.out_seq_no = c.out_seq_no + 1 /\ e.in_seq_no = c.in_seq_no
          /\ e.peer_in_seq_no = c.peer_in_seq_no /\ e.layer = c.layer
          /\ e.wrapper_layer = c.wrapper_layer /\ e.resend_due = NoSpan
      BY <1>1 DEF SeqState
    <3> HIDE DEF e
    <3> QED
      BY <3>1, <3>2 DEF Counts
  <2> DEFINE i == c.in_seq_no
  <2> DEFINE m == raw_seq_no(MissingFrom(c))
  <2> DEFINE last == raw_seq_no(due.end)
  <2> DEFINE x == InX(p)
  <2> DEFINE s == due.start
  <2> DEFINE n == raw_seq_no(due.start)
  <2>2. /\ s = 2 * n + x /\ due.end = 2 * last + x
        /\ 0 <= n /\ n <= last /\ last - n < MAX_RESEND_COUNT /\ last < d.out_seq_no
    BY <1>1, <1>3 DEF Numbered, DueWell, Askable, transform_in_seq_no
  <2>3. i \in Nat /\ s \in Int /\ due.end \in Int /\ d.out_seq_no \in Nat /\ x \in {0, 1}
    BY <1>1, SeqFacts DEF SeqState, Span
  <2>4. n \in Int /\ last \in Int
    BY <2>3 DEF raw_seq_no
  <2>5. MissingFrom(c) = IF 2 * i + (s % 2) > s THEN 2 * i + (s % 2) ELSE s
    BY DEF MissingFrom
  <2> HIDE DEF i, last, x, s, n
  <2>6. s % 2 = x
    BY <2>2, <2>3, <2>4
  <2>7. MissingFrom(c) = 2 * (IF i > n THEN i ELSE n) + x
    BY <2>2, <2>3, <2>4, <2>5, <2>6
  <2>8. m = IF i > n THEN i ELSE n
    BY <2>3, <2>4, <2>7 DEF raw_seq_no
  <2>9. ~ (MissingFrom(c) > due.end)
    BY <1>3
  <2> HIDE DEF m, due
  <2>10. MissingFrom(c) = 2 * m + x
    BY <2>7, <2>8
  <2>11. m \in Nat /\ last \in Nat /\ i <= m /\ m <= last /\ last - m < MAX_RESEND_COUNT
    BY <2>2, <2>3, <2>4, <2>8, <2>9, <2>10, WindowAssumption
  <2>12. Askable(p, d, i, 2 * m + x, 2 * last + x)
    BY <1>1, <2>2, <2>3, <2>11, SpanAskable DEF x
  <2>13. Askable(p, d, c.in_seq_no, MissingFrom(c), due.end)
    BY <2>2, <2>10, <2>12 DEF i
  <2>14. keys[p].key \in Nat /\ MissingFrom(c) \in Nat /\ due.end \in Nat /\ "resend" \in Acts
    BY <1>1, <2>2, <2>3, <2>10, <2>11, OpenFacts DEF Acts
  <2>15. Commit(p, "resend", MissingFrom(c), due.end, keys[p].key, keys[p], state[p], o)
    BY <1>3 DEF due
  <2> QED
    BY <1>1, <2>1, <2>13, <2>14, <2>15, CommitNumbers
<1> QED
  BY <1>2, <1>3 DEF Ask

LEMMA WorkNumbers ==
  ASSUME TypeInv, TypeInv', NumberInv, NEW p \in Side, Work(p)
  PROVE  NumberInv'
<1>1. CASE RetryNothing(p)
  <2>1. UNCHANGED <<state, retained_out, queue_in, net, sent, seq>>
    BY <1>1 DEF RetryNothing, chatVars, storeVars, history
  <2> QED
    BY <2>1, StillNumbers DEF Open
<1>2. CASE ConfirmSwitch(p)
  <2>1. Open(p) /\ Counts(p)
    BY <1>2, CountedCounts DEF ConfirmSwitch, At
  <2>2. PICK o : Commit(p, "noop", 0, 0, keys[p].key, keys[p], state[p], o)
    BY <1>2 DEF ConfirmSwitch
  <2>3. keys[p].key \in Nat /\ "noop" \in Acts /\ 0 \in Nat
    BY <2>1, OpenFacts DEF Acts
  <2> QED
    BY <2>1, <2>2, <2>3, CommitNumbers
<1> QED
  BY <1>1, <1>2, RetryNumbers, AskNumbers DEF Work

LEMMA LifecycleNumbers ==
  ASSUME TypeInv, TypeInv', NumberInv, NEW p \in Side, Lifecycle(p)
  PROVE  NumberInv'
<1>1. UNCHANGED <<state, retained_out, queue_in, net, sent, seq>>
  BY DEF Lifecycle, Crash, Start, ResumeDelivery, ResumeWork, chatVars, storeVars, history
<1> QED
  BY <1>1, StillNumbers DEF Open

LEMMA NumberInit == Init => NumberInv
<1> SUFFICES ASSUME Init, NEW p \in Side PROVE Numbered(p)
  BY DEF NumberInv
<1>1. Written(p) = {}
  BY PeerType DEF Init, Written
<1>2. /\ seq[p] = InitialSeq /\ seq[Peer(p)] = InitialSeq /\ sent[p] = <<>>
      /\ queue_in[Peer(p)] = {}
  BY PeerType DEF Init
<1>3. /\ InitialSeq.in_seq_no = 0 /\ InitialSeq.out_seq_no = 0 /\ InitialSeq.peer_in_seq_no = 0
      /\ InitialSeq.layer = 46 /\ InitialSeq.wrapper_layer = 0 /\ InitialSeq.resend_due = NoSpan
  BY DEF InitialSeq, INITIAL_REMOTE_LAYER
<1>4. 0 <= outgoing_layer(46) /\ Len(<<>>) = 0 /\ 0 .. (0 - 1) = {}
  BY DEF outgoing_layer, MIN_LAYER, MAX_LAYER
<1>5. InStep({})
  BY DEF InStep
<1> QED
  BY <1>1, <1>2, <1>3, <1>4, <1>5 DEF Numbered, Heard, DueWell, Retains

LEMMA NumberNext == TypeInv /\ NumberInv /\ [Next]_vars => NumberInv'
<1> SUFFICES ASSUME TypeInv, NumberInv, [Next]_vars PROVE NumberInv'
  OBVIOUS
<1>1. TypeInv'
  BY TypeNext
<1>2. CASE Next
  BY <1>1, <1>2, ApplicationNumbers, ReceiveNumbers, DrainNumbers, WorkNumbers,
     LifecycleNumbers DEF Next
<1>3. CASE UNCHANGED vars
  <2>1. UNCHANGED <<state, retained_out, queue_in, net, sent, seq>>
    BY <1>3 DEF vars, chatVars, storeVars, history
  <2> QED
    BY <1>1, <2>1, StillNumbers DEF Open
<1> QED
  BY <1>2, <1>3

----------------------------------------------------------------------------
(* Nobody is refused *)

\* The answer to a peer's Resend is still in the outbox.
LEMMA AlwaysAnswerable ==
  ASSUME TypeInv, NumberInv, NEW p \in Side, Open(p), NEW w \in Written(Peer(p)),
         w.act = "resend", RawIn(w) >= seq[p].peer_in_seq_no
  PROVE  Answerable(p, retained_out[p], w.a, w.b)
<1> DEFINE q == Peer(p)
<1> DEFINE s == raw_seq_no(w.a)
<1> DEFINE e == raw_seq_no(w.b)
<1> DEFINE x == OutX(p)
<1>1. /\ q \in Side /\ Peer(q) = p /\ InX(q) = OutX(p) /\ OutX(p) \in {0, 1}
      /\ seq[p] \in SeqState /\ Numbered(p) /\ Numbered(q)
  BY TwoSides DEF TypeInv, TypeOK, NumberInv
<1>2. w \in Wrapper /\ RawIn(w) \in Nat /\ w.a \in Nat /\ w.b \in Nat
  BY <1>1, WrittenNumbers DEF TypeInv, Wrapper
<1>3. Askable(q, seq[p], RawIn(w), w.a, w.b)
  BY <1>1 DEF Numbered, Fits
<1>4. /\ w.a = 2 * s + x /\ w.b = 2 * e + x /\ RawIn(w) <= s /\ s <= e
      /\ e - s < MAX_RESEND_COUNT /\ e < seq[p].out_seq_no
  BY <1>1, <1>3 DEF Askable, transform_in_seq_no
<1>5. s \in Nat /\ e \in Nat
  BY <1>2, RawType
<1>6. ASSUME NEW n \in Wanted(w.a, w.b)
      PROVE  \E r \in retained_out[p] : r.w.out_seq_no = n
  <2>1. n \in w.a .. w.b /\ n % 2 = w.a % 2
    BY DEF Wanted
  <2> HIDE DEF s, e, x
  <2>2. w.a % 2 = x /\ n \in Nat
    BY <1>1, <1>2, <1>4, <1>5, <2>1 DEF x
  <2>3. PICK k \in Nat : n = 2 * k + x
    <3>1. n \div 2 \in Nat /\ n = 2 * (n \div 2) + (n % 2)
      BY <2>2
    <3> QED
      BY <2>1, <2>2, <3>1
  <2>4. k \in s .. e
    BY <1>1, <1>4, <1>5, <2>1, <2>3 DEF x
  <2>5. k \in seq[p].peer_in_seq_no .. (seq[p].out_seq_no - 1)
    BY <1>1, <1>2, <1>4, <1>5, <2>4, SeqFacts
  <2>6. PICK r \in retained_out[p] : RawOut(r.w) = k
    BY <1>1, <2>5 DEF Numbered, Retains
  <2>7. r.w \in Written(p)
    BY DEF Written
  <2>8. r.w.out_seq_no = 2 * k + OutX(p)
    BY <1>1, <2>6, <2>7 DEF Numbered, Fits, transform_out_seq_no
  <2> QED
    BY <2>3, <2>8 DEF x
<1>7. (w.b - w.a) \div 2 + 1 <= MAX_RESEND_COUNT
  <2>1. w.b - w.a = 2 * (e - s) /\ e - s \in Nat
    BY <1>1, <1>4, <1>5
  <2>2. (w.b - w.a) \div 2 = e - s
    BY <2>1
  <2> QED
    BY <1>4, <2>1, <2>2, WindowAssumption
<1>8. w.a >= 0 /\ w.b >= w.a /\ w.a % 2 = OutX(p) /\ w.b % 2 = OutX(p)
  BY <1>1, <1>2, <1>4, <1>5
<1> QED
  BY <1>6, <1>7, <1>8 DEF Answerable

\* The queued run behind the next wrapper passes the checks of advance().
LEMMA AlwaysInOrder ==
  ASSUME TypeInv, NumberInv, NEW p \in Side, NEW w \in Written(Peer(p)),
         NEW m \in NextMissing(queue_in[p], RawOut(w))
  PROVE  RunInOrder(seq[p], queue_in[p], w, m)
<1> DEFINE q == Peer(p)
<1> DEFINE T(j) == Taken(queue_in[p], w, j)
<1>1. /\ q \in Side /\ Peer(q) = p /\ seq[p] \in SeqState /\ seq[q] \in SeqState
      /\ Numbered(p) /\ Numbered(q) /\ queue_in[p] \in SUBSET Wrapper
  BY TwoSides DEF TypeInv, TypeOK, NumberInv
<1>2. \A y \in Written(q) :
        /\ y \in Wrapper /\ RawOut(y) \in Nat /\ RawIn(y) \in Nat /\ y.layer \in Nat
        /\ RawIn(y) <= seq[q].in_seq_no
  BY <1>1, WrittenNumbers DEF Numbered, Fits, TypeInv
<1>3. m \in Nat /\ RawOut(w) \in Nat
  BY <1>1, <1>2, NextMissingFacts
<1>4. \A j \in RawOut(w) .. (m - 1) : T(j) \in Written(q) /\ RawOut(T(j)) = j
  <2>1. queue_in[p] \cup {w} \subseteq Written(q)
    BY <1>1 DEF Written
  <2> QED
    BY <1>1, <1>2, <2>1, TakenFrom
<1>5. seq[q].in_seq_no <= seq[p].out_seq_no
  BY <1>1 DEF Numbered, Heard
<1> HIDE DEF T
<1>6. ASSUME NEW j \in (RawOut(w) + 1) .. (m - 1)
      PROVE  /\ RawIn(T(j)) >= RawIn(T(j - 1)) /\ RawIn(T(j)) <= seq[p].out_seq_no
             /\ T(j).layer >= T(j - 1).layer
  <2>1. j \in RawOut(w) .. (m - 1) /\ j - 1 \in RawOut(w) .. (m - 1) /\ j - 1 <= j
    BY <1>3
  <2>2. /\ T(j) \in Written(q) /\ T(j - 1) \in Written(q)
        /\ RawOut(T(j)) = j /\ RawOut(T(j - 1)) = j - 1
    BY <1>4, <2>1
  <2>3. RawIn(T(j - 1)) <= RawIn(T(j)) /\ T(j - 1).layer <= T(j).layer
    BY <1>1, <2>1, <2>2 DEF Numbered, InStep
  <2> QED
    BY <1>1, <1>2, <1>5, <2>2, <2>3, SeqFacts
<1> QED
  BY <1>6 DEF RunInOrder, T

LEMMA OnlyTooFar ==
  ASSUME TypeInv, NumberInv, NEW p \in Side, Open(p), NEW f \in net, f.to = p
  PROVE  Refusal(p, f) \in {"open", "window"}
<1> DEFINE q == Peer(p)
<1> DEFINE w == f.w
<1>1. /\ q \in Side /\ Peer(q) = p /\ seq[p] \in SeqState /\ seq[q] \in SeqState
      /\ Numbered(p) /\ Numbered(q) /\ OutX(q) = InX(p) /\ InX(q) = OutX(p)
  BY TwoSides DEF TypeInv, TypeOK, NumberInv
<1>2. w \in Written(q) /\ w \in Wrapper /\ RawOut(w) \in Nat /\ RawIn(w) \in Nat /\ w.layer \in Nat
  <2>1. w \in Written(q)
    BY <1>1 DEF Written
  <2> QED
    BY <1>1, <2>1, WrittenNumbers DEF TypeInv
<1>3. Fits(q, seq[q], seq[p], sent[q], w)
  BY <1>1, <1>2 DEF Numbered
<1>4. w.in_seq_no % 2 = OutX(p) /\ w.out_seq_no % 2 = InX(p)
  BY <1>1, <1>2, <1>3, WireNumber DEF Fits
<1>5. RawOut(w) >= seq[p].in_seq_no => check_order(seq[p], w)
  <2>1. seq[q].in_seq_no <= seq[p].out_seq_no
    BY <1>1 DEF Numbered, Heard
  <2> QED
    BY <1>1, <1>2, <1>3, <2>1, SeqFacts DEF Fits, check_order
<1>6. /\ preflight(p, seq[p], queue_in[p], w) \in {"replay", "window", "take"}
      /\ preflight(p, seq[p], queue_in[p], w) = "take" => RawOut(w) >= seq[p].in_seq_no
  <2>1. RawOut(w) < seq[p].in_seq_no \/ RawOut(w) >= seq[p].in_seq_no
    BY <1>1, <1>2, SeqFacts
  <2> QED
    BY <1>4, <1>5, <2>1 DEF preflight
<1>7. preflight(p, seq[p], queue_in[p], w) = "take" /\ w.act = "resend"
        => Answerable(p, retained_out[p], w.a, w.b)
  BY <1>2, <1>3, <1>6, AlwaysAnswerable DEF Fits
<1>8. Verdict(p, f) \in {"replay", "window", "take"}
  BY <1>6, <1>7 DEF Verdict
<1>9. \A m \in NextMissing(queue_in[p], RawOut(w)) : RunInOrder(seq[p], queue_in[p], w, m)
  BY <1>2, AlwaysInOrder
<1> QED
  BY <1>8, <1>9 DEF Refusal

\* The reasons for which a step may end a chat.
LEMMA Reason ==
  ASSUME TypeInv, NumberInv, [Next]_vars, NEW q \in Side
  PROVE  closed_reason'[q] \in {closed_reason[q], "application", "window", "peer",
                               "commit", "rejected"}
<1> DEFINE Ends == {"application", "window", "peer", "commit", "rejected"}
<1>1. ASSUME NEW p \in Side, NEW reason \in Ends, CloseChat(p, reason)
      PROVE  closed_reason'[q] \in {closed_reason[q]} \cup Ends
  BY <1>1 DEF CloseChat, TypeInv, TypeOK
<1>2. ASSUME NEW p \in Side, Application(p) \/ Drain(p) \/ Work(p) \/ Lifecycle(p) \/ Receive(p)
      PROVE  closed_reason' = closed_reason \/ \E reason \in Ends : CloseChat(p, reason)
  <2>1. CASE Application(p)
    BY <2>1 DEF Application, SendMessage, NotifyLayer, StartRekey, SendDelete, BeginDelete,
       BeginFlush, Close, Commit, chatVars
  <2>2. CASE Drain(p)
    BY <2>2 DEF Drain, DeliverPlain, DeliverNotifyLayer, DeliverFlush, DeliverRequestKey,
       DeliverAcceptKey, DeliverCommitKey, DeliverAbortKey, Pop, Reply, Unanswered, Commit,
       chatVars
  <2>3. CASE Work(p)
    BY <2>3 DEF Work, RetryPending, RetryNothing, Ask, ConfirmSwitch, Commit, chatVars
  <2>4. CASE Lifecycle(p)
    BY <2>4 DEF Lifecycle, Crash, Start, ResumeDelivery, ResumeWork, chatVars
  <2>5. CASE Discarded(p)
    BY <2>5 DEF Discarded
  <2>6. ASSUME NEW f \in net, ReceiveNext(p, f) \/ ReceiveEarly(p, f) \/ ReceiveIgnored(p, f)
        PROVE  closed_reason' = closed_reason
    BY <2>6 DEF ReceiveNext, ReceiveEarly, ReceiveIgnored, Receipt, vars, chatVars
  <2>7. ASSUME NEW f \in net, ReceiveRefused(p, f)
        PROVE  CloseChat(p, "window")
    <3>1. /\ Open(p) /\ f.to = p /\ Refusal(p, f) # "open" /\ CloseChat(p, Refusal(p, f))
      BY <2>7 DEF ReceiveRefused, Idle, Readable
    <3>2. Refusal(p, f) = "window"
      BY <3>1, OnlyTooFar
    <3> QED
      BY <3>1, <3>2
  <2> QED
    BY <1>2, <2>1, <2>2, <2>3, <2>4, <2>5, <2>6, <2>7 DEF Receive
<1>3. CASE Next
  <2>1. PICK p \in Side :
          Application(p) \/ Drain(p) \/ Work(p) \/ Lifecycle(p) \/ Receive(p)
    BY <1>3 DEF Next
  <2> QED
    BY <1>1, <1>2, <2>1
<1>4. CASE UNCHANGED vars
  BY <1>4 DEF vars, chatVars
<1> QED
  BY <1>3, <1>4

\* Two sides that follow sequence.py never end a chat over numbers: whatever the
\* server delays, repeats or loses and whoever crashes, no wrapper fails
\* preflight's order checks and no Resend asks for a record already dropped.
THEOREM NobodyRefused == Spec => []NeverRefused
<1>1. Init => NeverRefused
  BY DEF Init, NeverRefused
<1>2. TypeInv /\ NumberInv /\ NeverRefused /\ [Next]_vars => NeverRefused'
  BY Reason DEF NeverRefused
<1> QED
  BY <1>1, <1>2, TypeInit, TypeNext, NumberInit, NumberNext, PTL DEF Spec

\* The outbox keeps every message the peer has not processed yet
\* (forget_acknowledged in sequence.py, the withdrawals of outbox.py): any hole
\* the peer finds can be filled.
THEOREM NothingLostEarly == Spec => []NothingForgottenEarly
<1>1. TypeInv /\ NumberInv => NothingForgottenEarly
  <2> SUFFICES ASSUME TypeInv, NumberInv, NEW p \in Side, Open(p),
                      NEW n \in seq[Peer(p)].in_seq_no .. (seq[p].out_seq_no - 1)
               PROVE  \E r \in retained_out[p] : RawOut(r.w) = n
    BY DEF NothingForgottenEarly
  <2>1. /\ Peer(p) \in Side /\ Peer(Peer(p)) = p /\ Numbered(p) /\ Numbered(Peer(p))
        /\ seq[p] \in SeqState /\ seq[Peer(p)] \in SeqState
    BY TwoSides DEF TypeInv, TypeOK, NumberInv
  <2>2. seq[p].peer_in_seq_no <= seq[Peer(p)].in_seq_no
    BY <2>1 DEF Numbered, Heard
  <2>3. n \in seq[p].peer_in_seq_no .. (seq[p].out_seq_no - 1)
    BY <2>1, <2>2, SeqFacts
  <2> QED
    BY <2>1, <2>3 DEF Numbered, Retains
<1> QED
  BY <1>1, TypeInit, TypeNext, NumberInit, NumberNext, PTL DEF Spec

----------------------------------------------------------------------------
(* The mailbox *)

\* The history of what a side has committed only grows.
Grown(q) == \A i \in 1 .. Len(sent[q]) : sent'[q][i] = sent[q][i]

LEMMA CommitGrown ==
  ASSUME TypeInv, NEW p \in Side, NEW act, NEW a, NEW b, NEW key, NEW new, NEW st, NEW o,
         Commit(p, act, a, b, key, new, st, o)
  PROVE  \A q \in Side : Grown(q)
<1> DEFINE M == [act : Acts, a : Nat, b : Nat]
<1> DEFINE m == [act |-> act, a |-> a, b |-> b]
<1>1. sent' = [sent EXCEPT ![p] = Append(@, m)]
  BY DEF Commit
<1> HIDE DEF m
<1>2. ASSUME NEW q \in Side, NEW i \in 1 .. Len(sent[q]) PROVE sent'[q][i] = sent[q][i]
  <2> DEFINE z == sent[q]
  <2>1. z \in Seq(M)
    BY DEF TypeInv, TypeOK
  <2>2. Append(z, m)[i] = z[i]
    <3> HIDE DEF M
    <3>1. i \in 1 .. Len(z)
      OBVIOUS
    <3> HIDE DEF z
    <3> QED BY <2>1, <3>1
  <2>3. sent'[q] = IF q = p THEN Append(z, m) ELSE z
    BY <1>1 DEF TypeInv, TypeOK
  <2> QED
    BY <2>2, <2>3
<1> QED
  BY <1>2 DEF Grown

\* What a step does to the mailbox of q, unless it takes or pops.
BoxStill(q) ==
  \/ pending_deliveries'[q] = <<>>
  \/ /\ pending_deliveries'[q] = pending_deliveries[q]
     /\ seq'[q].in_seq_no = seq[q].in_seq_no

BoxFaithful(q) ==
  \A i \in DOMAIN pending_deliveries[q] :
    LET w == pending_deliveries[q][i]
        n == MailNumber(q) + i - 1
    IN RawOut(w) = n /\ Faithful(w, sent[Peer(q)][n + 1])

LEMMA BoxStillFaithful ==
  ASSUME TypeInv, NumberInv, NEW q \in Side, BoxFaithful(q), BoxStill(q), Grown(Peer(q))
  PROVE  BoxFaithful(q)'
<1>1. CASE pending_deliveries'[q] = <<>>
  BY <1>1 DEF BoxFaithful
<1>2. CASE /\ pending_deliveries'[q] = pending_deliveries[q]
           /\ seq'[q].in_seq_no = seq[q].in_seq_no
  <2> SUFFICES ASSUME NEW i \in DOMAIN pending_deliveries[q]
               PROVE  LET w == pending_deliveries[q][i]
                          n == MailNumber(q) + i - 1
                      IN RawOut(w) = n /\ Faithful(w, sent'[Peer(q)][n + 1])
    BY <1>2 DEF BoxFaithful, MailNumber
  <2> DEFINE n == MailNumber(q) + i - 1
  <2>1. /\ RawOut(pending_deliveries[q][i]) = n
        /\ Faithful(pending_deliveries[q][i], sent[Peer(q)][n + 1])
    BY DEF BoxFaithful
  <2>2. n + 1 \in 1 .. Len(sent[Peer(q)])
    <3> DEFINE l == Len(pending_deliveries[q])
    <3> DEFINE k == seq[q].in_seq_no
    <3>1. l \in Nat /\ k \in Nat /\ l <= k /\ i \in 1 .. l
      <4>1. pending_deliveries[q] \in Seq(Wrapper)
        BY DEF TypeInv, TypeOK
      <4>2. l \in Nat /\ DOMAIN pending_deliveries[q] = 1 .. l
        BY <4>1
      <4>3. l <= k
        BY DEF TypeInv, MailCounted
      <4> QED
        BY <4>2, <4>3, CounterType DEF TypeInv
    <3>2. k <= Len(sent[Peer(q)]) /\ Len(sent[Peer(q)]) \in Nat
      <4>1. /\ Peer(q) \in Side /\ Peer(Peer(q)) = q /\ seq[Peer(q)] \in SeqState
            /\ Numbered(Peer(q))
        BY TwoSides DEF TypeInv, TypeOK, NumberInv
      <4> QED
        BY <4>1, SeqFacts DEF Numbered, Heard
    <3>3. MailNumber(q) = k - l
      BY DEF MailNumber
    <3> HIDE DEF k, l
    <3> QED
      BY <3>1, <3>2, <3>3
  <2>3. sent'[Peer(q)][n + 1] = sent[Peer(q)][n + 1]
    BY <2>2 DEF Grown
  <2> QED
    BY <2>1, <2>3
<1> QED
  BY <1>1, <1>2 DEF BoxStill

\* Every step but a receipt and a pop leaves the mailboxes as they are.
LEMMA StillSteps ==
  ASSUME TypeInv, NEW p \in Side,
         Application(p) \/ (Drain(p) /\ ~ Pop(p)) \/ Work(p) \/ Lifecycle(p)
  PROVE  \A q \in Side : BoxStill(q) /\ Grown(q)
<1>1. UNCHANGED sent => \A q \in Side : Grown(q)
  BY DEF Grown
<1>2. UNCHANGED <<pending_deliveries, seq>> => \A q \in Side : BoxStill(q)
  BY DEF BoxStill
<1>3. ASSUME NEW act, NEW a, NEW b, NEW key, NEW new, NEW st, NEW o,
             Commit(p, act, a, b, key, new, st, o),
             \/ seq' = Counted(p)
             \/ seq' = [Counted(p) EXCEPT ![p].resend_due = NoSpan]
      PROVE  \A q \in Side : BoxStill(q) /\ Grown(q)
  <2>1. \A q \in Side : seq'[q].in_seq_no = seq[q].in_seq_no
    <3>1. seq' = Counted(p) => \A q \in Side : seq'[q].in_seq_no = seq[q].in_seq_no
      BY CountedType DEF TypeInv
    <3>2. ASSUME seq' = [Counted(p) EXCEPT ![p].resend_due = NoSpan]
          PROVE  \A q \in Side : seq'[q].in_seq_no = seq[q].in_seq_no
      <4> DEFINE e == [seq[p] EXCEPT !.out_seq_no = @ + 1, !.resend_due = NoSpan]
      <4>1. seq' = [seq EXCEPT ![p] = e] /\ seq \in [Side -> SeqState]
        BY <3>2 DEF TypeInv, TypeOK, Counted, SeqState
      <4>2. e.in_seq_no = seq[p].in_seq_no
        BY <4>1 DEF SeqState
      <4> HIDE DEF e
      <4> QED
        BY <4>1, <4>2
    <3> QED
      BY <1>3, <3>1, <3>2
  <2>2. UNCHANGED pending_deliveries
    BY <1>3 DEF Commit
  <2>3. \A q \in Side : Grown(q)
    BY <1>3, CommitGrown
  <2> QED
    BY <2>1, <2>2, <2>3 DEF BoxStill
<1>4. ASSUME NEW reason, CloseChat(p, reason), UNCHANGED sent
      PROVE  \A q \in Side : BoxStill(q) /\ Grown(q)
  <2>1. /\ UNCHANGED seq
        /\ \A q \in Side : pending_deliveries'[q] = IF q = p THEN <<>> ELSE pending_deliveries[q]
    BY <1>4 DEF CloseChat, TypeInv, TypeOK
  <2> QED
    BY <1>1, <1>4, <2>1 DEF BoxStill
<1>5. CASE Application(p)
  <2>1. CASE SendMessage(p) \/ NotifyLayer(p) \/ StartRekey(p) \/ SendDelete(p)
    BY <1>3, <2>1 DEF SendMessage, NotifyLayer, StartRekey, SendDelete
  <2>2. CASE BeginDelete(p) \/ BeginFlush(p)
    BY <1>1, <1>2, <2>2 DEF BeginDelete, BeginFlush, chatVars, history
  <2>3. CASE Close(p)
    BY <1>4, <2>3 DEF Close, history
  <2> QED
    BY <1>5, <2>1, <2>2, <2>3 DEF Application
<1>6. CASE Drain(p) /\ ~ Pop(p)
  <2>1. CASE DeliverPlain(p) \/ DeliverFlush(p) \/ DeliverAbortKey(p)
    BY <1>1, <1>2, <2>1 DEF DeliverPlain, DeliverFlush, DeliverAbortKey, Unanswered,
       chatVars, storeVars
  <2>2. CASE DeliverNotifyLayer(p)
    <3>1. \A q \in Side : seq'[q].in_seq_no = seq[q].in_seq_no
      BY <2>2 DEF DeliverNotifyLayer, TypeInv, TypeOK, SeqState
    <3> QED
      BY <1>1, <2>2, <3>1 DEF DeliverNotifyLayer, storeVars, BoxStill
  <2>3. ASSUME Unanswered(p) PROVE \A q \in Side : BoxStill(q) /\ Grown(q)
    BY <1>1, <1>2, <2>3 DEF Unanswered, chatVars, storeVars
  <2>4. ASSUME NEW act, NEW a, NEW b, NEW key, NEW new, NEW st, Reply(p, act, a, b, key, new, st)
        PROVE  \A q \in Side : BoxStill(q) /\ Grown(q)
    BY <1>3, <2>4 DEF Reply
  <2>5. CASE DeliverRequestKey(p)
    BY <2>3, <2>4, <2>5 DEF DeliverRequestKey
  <2>6. CASE DeliverAcceptKey(p)
    BY <2>3, <2>4, <2>6 DEF DeliverAcceptKey
  <2>7. CASE DeliverCommitKey(p)
    BY <1>4, <2>3, <2>4, <2>7 DEF DeliverCommitKey, history
  <2> QED
    BY <1>6, <2>1, <2>2, <2>5, <2>6, <2>7 DEF Drain
<1>7. CASE Work(p)
  <2>1. CASE RetryPending(p)
    BY <1>1, <1>2, <1>4, <2>1 DEF RetryPending, chatVars, history
  <2>2. CASE RetryNothing(p)
    BY <1>1, <1>2, <2>2 DEF RetryNothing, chatVars, storeVars, history
  <2>3. CASE Ask(p)
    <3>1. ASSUME seq' = [seq EXCEPT ![p].resend_due = NoSpan], UNCHANGED <<storeVars, history>>
          PROVE  \A q \in Side : BoxStill(q) /\ Grown(q)
      <4>1. \A q \in Side : seq'[q].in_seq_no = seq[q].in_seq_no
        BY <3>1 DEF TypeInv, TypeOK, SeqState
      <4> QED
        BY <1>1, <3>1, <4>1 DEF BoxStill, storeVars, history
    <3> QED
      BY <1>3, <2>3, <3>1 DEF Ask
  <2>4. CASE ConfirmSwitch(p)
    BY <1>3, <2>4 DEF ConfirmSwitch
  <2> QED
    BY <1>7, <2>1, <2>2, <2>3, <2>4 DEF Work
<1>8. CASE Lifecycle(p)
  BY <1>1, <1>2, <1>8 DEF Lifecycle, Crash, Start, ResumeDelivery, ResumeWork, chatVars,
     storeVars, history
<1> QED
  BY <1>5, <1>6, <1>7, <1>8

\* The pop moves the head and its number together.
LEMMA PopFaithful ==
  ASSUME TypeInv, NEW p \in Side, Pop(p), \A q \in Side : BoxFaithful(q)
  PROVE  \A q \in Side : BoxFaithful(q)'
<1> DEFINE box == pending_deliveries[p]
<1>1. /\ box # <<>> /\ UNCHANGED <<seq, sent>>
      /\ \A q \in Side : pending_deliveries'[q] = IF q = p THEN Tail(box) ELSE pending_deliveries[q]
  BY DEF Pop, history, TypeInv, TypeOK
<1>2. ASSUME NEW q \in Side, q # p PROVE BoxFaithful(q)'
  BY <1>1, <1>2 DEF BoxFaithful, MailNumber
<1>3. BoxFaithful(p)'
  <2> DEFINE k == seq[p].in_seq_no
  <2>1. box \in Seq(Wrapper) /\ k \in Nat
    BY CounterType DEF TypeInv, TypeOK
  <2>2. /\ pending_deliveries'[p] = Tail(box) /\ MailNumber(p) = k - Len(box)
        /\ MailNumber(p)' = k - Len(Tail(box))
    BY <1>1 DEF MailNumber
  <2>3. \A i \in DOMAIN box : /\ RawOut(box[i]) = MailNumber(p) + i - 1
                            /\ Faithful(box[i], sent[Peer(p)][MailNumber(p) + i - 1 + 1])
    BY DEF BoxFaithful
  <2> HIDE DEF box, k
  <2>4. /\ Len(Tail(box)) = Len(box) - 1 /\ Len(box) \in Nat
        /\ \A i \in DOMAIN Tail(box) : i \in Nat /\ i + 1 \in DOMAIN box /\ Tail(box)[i] = box[i + 1]
    BY <1>1, <2>1
  <2>5. ASSUME NEW i \in DOMAIN Tail(box)
        PROVE  /\ RawOut(Tail(box)[i]) = MailNumber(p)' + i - 1
               /\ Faithful(Tail(box)[i], sent[Peer(p)][MailNumber(p)' + i - 1 + 1])
    <3>1. MailNumber(p) + (i + 1) - 1 = MailNumber(p)' + i - 1
      BY <2>1, <2>2, <2>4
    <3> QED
      BY <2>3, <2>4, <3>1
  <2> QED
    BY <1>1, <2>2, <2>5 DEF BoxFaithful
<1> QED
  BY <1>2, <1>3

\* What is appended is what the peer wrote under the next numbers.
LEMMA ReceiptFaithful ==
  ASSUME TypeInv, NumberInv, NEW p \in Side, NEW f, NEW c \in SeqState,
         NEW ready \in Seq(Wrapper), c.in_seq_no = seq[p].in_seq_no + Len(ready),
         \A i \in DOMAIN ready : /\ RawOut(ready[i]) = seq[p].in_seq_no + i - 1
                               /\ \E x \in Written(Peer(p)) : Echo(ready[i], x),
         Receipt(p, f, c, ready), \A q \in Side : BoxFaithful(q)
  PROVE  \A q \in Side : BoxFaithful(q)'
<1> DEFINE box == pending_deliveries[p]
<1> DEFINE k == seq[p].in_seq_no
<1>1. /\ UNCHANGED sent
      /\ \A q \in Side : /\ seq'[q] = IF q = p THEN c ELSE seq[q]
                        /\ pending_deliveries'[q] =
                             IF q = p THEN box \o ready ELSE pending_deliveries[q]
  BY DEF Receipt, Mailed, history, TypeInv, TypeOK
<1>2. ASSUME NEW q \in Side, q # p PROVE BoxFaithful(q)'
  BY <1>1, <1>2 DEF BoxFaithful, MailNumber
<1>3. BoxFaithful(p)'
  <2>1. box \in Seq(Wrapper) /\ k \in Nat
    BY CounterType DEF TypeInv, TypeOK
  <2>2. /\ pending_deliveries'[p] = box \o ready /\ MailNumber(p) = k - Len(box)
        /\ MailNumber(p)' = c.in_seq_no - Len(box \o ready)
    BY <1>1 DEF MailNumber
  <2>3. \A i \in DOMAIN box : /\ RawOut(box[i]) = MailNumber(p) + i - 1
                            /\ Faithful(box[i], sent[Peer(p)][MailNumber(p) + i - 1 + 1])
    BY DEF BoxFaithful
  <2>4. \A i \in DOMAIN ready : /\ RawOut(ready[i]) = k + i - 1
                              /\ Faithful(ready[i], sent[Peer(p)][k + i - 1 + 1])
    <3> SUFFICES ASSUME NEW i \in DOMAIN ready
                 PROVE  Faithful(ready[i], sent[Peer(p)][k + i - 1 + 1])
      OBVIOUS
    <3>1. PICK x \in Written(Peer(p)) : Echo(ready[i], x)
      OBVIOUS
    <3>2. Fits(Peer(p), seq[Peer(p)], seq[p], sent[Peer(p)], x)
      BY TwoSides DEF NumberInv, Numbered
    <3>3. Fits(Peer(p), seq[Peer(p)], seq[p], sent[Peer(p)], ready[i])
      BY <3>1, <3>2, EchoFits
    <3> QED
      BY <3>3 DEF Fits
  <2> HIDE DEF box
  <2>5. /\ Len(box \o ready) = Len(box) + Len(ready) /\ Len(box) \in Nat /\ Len(ready) \in Nat
        /\ \A i \in DOMAIN (box \o ready) :
             \/ i \in DOMAIN box /\ (box \o ready)[i] = box[i]
             \/ i - Len(box) \in DOMAIN ready /\ (box \o ready)[i] = ready[i - Len(box)]
    BY <2>1
  <2>6. MailNumber(p)' = k - Len(box)
    BY <2>1, <2>2, <2>5
  <2>7. ASSUME NEW i \in DOMAIN (box \o ready)
        PROVE  /\ RawOut((box \o ready)[i]) = MailNumber(p)' + i - 1
               /\ Faithful((box \o ready)[i], sent[Peer(p)][MailNumber(p)' + i - 1 + 1])
    <3>1. CASE i \in DOMAIN box /\ (box \o ready)[i] = box[i]
      BY <2>2, <2>3, <2>6, <3>1
    <3>2. CASE i - Len(box) \in DOMAIN ready /\ (box \o ready)[i] = ready[i - Len(box)]
      <4> DEFINE j == i - Len(box)
      <4>1. k + j - 1 = MailNumber(p)' + i - 1
        <5>1. i \in Int
          BY <2>1, <2>5
        <5> QED
          BY <2>1, <2>5, <2>6, <5>1
      <4>2. j \in DOMAIN ready /\ (box \o ready)[i] = ready[j]
        BY <3>2
      <4> HIDE DEF j, k
      <4>3. /\ RawOut(ready[j]) = k + j - 1
            /\ Faithful(ready[j], sent[Peer(p)][k + j - 1 + 1])
        BY <2>4, <4>2
      <4> QED
        BY <4>1, <4>2, <4>3
    <3> QED
      BY <2>5, <3>1, <3>2
  <2> QED
    BY <1>1, <2>2, <2>7 DEF BoxFaithful
<1> QED
  BY <1>2, <1>3

LEMMA ReceiveFaithful ==
  ASSUME TypeInv, NumberInv, NEW p \in Side, Receive(p), \A q \in Side : BoxFaithful(q)
  PROVE  \A q \in Side : BoxFaithful(q)'
<1> DEFINE q == Peer(p)
<1> DEFINE Q == queue_in[p]
<1>0. TypeOK /\ q \in Side /\ Peer(q) = p /\ Q \in SUBSET Wrapper /\ seq[p] \in SeqState
      /\ seq[p].in_seq_no \in Nat
  BY TwoSides, CounterType DEF TypeInv, TypeOK
<1>1. \A f \in net : f.to = p => f.w \in Written(q) /\ f.w \in Wrapper /\ RawOut(f.w) \in Nat
  <2>1. \A f \in net : f.to = p => f.w \in Written(q)
    BY <1>0 DEF Written
  <2> QED
    BY <1>0, <2>1, WrittenNumbers
<1>2. ASSUME NEW f \in net, ReceiveEarly(p, f) PROVE \A x \in Side : BoxFaithful(x)'
  <2> DEFINE c == accept_early(seq[p], f.w)
  <2>1. Receipt(p, f, c, <<>>) /\ f.to = p
    BY <1>2 DEF ReceiveEarly, Readable
  <2>2. c \in SeqState /\ c.in_seq_no = seq[p].in_seq_no
    BY <1>0, <1>1, <2>1, AcceptEarlyType
  <2>3. <<>> \in Seq(Wrapper) /\ seq[p].in_seq_no + Len(<<>>) = seq[p].in_seq_no /\ DOMAIN <<>> = {}
    BY <1>0
  <2> HIDE DEF c
  <2> QED
    BY <2>1, <2>2, <2>3, ReceiptFaithful
<1>3. ASSUME NEW f \in net, ReceiveNext(p, f) PROVE \A x \in Side : BoxFaithful(x)'
  <2> DEFINE w == f.w
  <2>1. f.to = p /\ RawOut(w) = seq[p].in_seq_no
    BY <1>3 DEF ReceiveNext, Readable
  <2>2. PICK m \in NextMissing(Q, RawOut(w)) :
          \E first \in FirstWaiting(Q, m) :
            Receipt(p, f, accept_next(seq[p], Q, w, m, first), Ready(Q, Stored(w), m))
    BY <1>3 DEF ReceiveNext
  <2>3. PICK first \in FirstWaiting(Q, m) :
          Receipt(p, f, accept_next(seq[p], Q, w, m, first), Ready(Q, Stored(w), m))
    BY <2>2
  <2> DEFINE c == accept_next(seq[p], Q, w, m, first)
  <2> DEFINE ready == Ready(Q, Stored(w), m)
  <2>4. /\ w \in Written(q) /\ w \in Wrapper /\ RawOut(w) \in Nat
        /\ Stored(w) \in Wrapper /\ RawOut(Stored(w)) = RawOut(w) /\ Echo(Stored(w), w)
    BY <1>1, <2>1, StoredType, StoredEcho
  <2>5. m \in NextMissing(Q, RawOut(Stored(w))) /\ m \in Nat /\ m > RawOut(w)
    BY <1>0, <2>4, NextMissingFacts
  <2>6. c \in SeqState /\ c.in_seq_no = m
    BY <1>0, <2>4, AcceptNextType
  <2>7. /\ ready \in Seq(Wrapper) /\ Len(ready) = m - RawOut(w)
        /\ \A i \in 1 .. (m - RawOut(w)) : RawOut(ready[i]) = RawOut(w) + i - 1
    BY <1>0, <2>4, <2>5, ReadyType
  <2>8. \A i \in 1 .. (m - RawOut(w)) : ready[i] \in Q \cup {Stored(w)}
    <3>1. \A i \in 1 .. (m - RawOut(w)) : RawOut(w) + i - 1 \in RawOut(w) .. (m - 1)
      BY <2>4, <2>5
    <3>2. \A i \in 1 .. (m - RawOut(w)) : ready[i] = Taken(Q, Stored(w), RawOut(w) + i - 1)
      BY <2>4 DEF Ready
    <3>3. \A j \in RawOut(w) .. (m - 1) : Taken(Q, Stored(w), j) \in Q \cup {Stored(w)}
      BY <1>0, <2>4, <2>5, TakenFrom
    <3> QED
      BY <3>1, <3>2, <3>3
  <2>9. \A x \in Q \cup {Stored(w)} : \E y \in Written(q) : Echo(x, y)
    BY <1>0, <2>4, EchoSelf DEF Written
  <2>10. c.in_seq_no = seq[p].in_seq_no + Len(ready)
    BY <2>1, <2>4, <2>5, <2>6, <2>7
  <2>11. Receipt(p, f, c, ready)
    BY <2>3
  <2> HIDE DEF c, ready, Q
  <2>12. \A i \in DOMAIN ready : /\ RawOut(ready[i]) = seq[p].in_seq_no + i - 1
                               /\ \E x \in Written(q) : Echo(ready[i], x)
    <3>1. DOMAIN ready = 1 .. (m - RawOut(w))
      BY <2>7
    <3> QED
      BY <2>1, <2>7, <2>8, <2>9, <3>1
  <2> QED
    BY <2>6, <2>7, <2>10, <2>11, <2>12, ReceiptFaithful
<1>4. ASSUME \A x \in Side : BoxStill(x), UNCHANGED sent
      PROVE  \A x \in Side : BoxFaithful(x)'
  BY <1>4, BoxStillFaithful DEF Grown
<1>5. ASSUME NEW reason, CloseChat(p, reason), UNCHANGED sent
      PROVE  \A x \in Side : BoxFaithful(x)'
  <2>1. /\ UNCHANGED seq
        /\ \A x \in Side : pending_deliveries'[x] = IF x = p THEN <<>> ELSE pending_deliveries[x]
    BY <1>5 DEF CloseChat, TypeInv, TypeOK
  <2>2. \A x \in Side : BoxStill(x)
    BY <2>1 DEF BoxStill
  <2> QED
    BY <1>4, <1>5, <2>2
<1>6. ASSUME NEW f \in net, ReceiveRefused(p, f) PROVE \A x \in Side : BoxFaithful(x)'
  BY <1>5, <1>6 DEF ReceiveRefused, history
<1>7. ASSUME NEW f \in net, ReceiveIgnored(p, f) PROVE \A x \in Side : BoxFaithful(x)'
  <2>1. UNCHANGED <<pending_deliveries, seq, sent>>
    BY <1>7 DEF ReceiveIgnored, vars, chatVars, storeVars, history
  <2> QED
    BY <1>4, <2>1 DEF BoxStill
<1>8. CASE Discarded(p)
  BY <1>5, <1>8 DEF Discarded, history
<1> QED
  BY <1>2, <1>3, <1>6, <1>7, <1>8 DEF Receive

\* What a side passes on is what its peer committed, number by number, with
\* nothing left out, doubled or replaced: the mailbox of receive.py, filled from
\* the wire and from the gap queue, keeps the peer's order and contents.
THEOREM MailboxIsFaithful == Spec => []MailboxFaithful
<1> DEFINE Boxes == \A q \in Side : BoxFaithful(q)
<1>1. Init => Boxes
  BY DEF Init, BoxFaithful
<1>2. TypeInv /\ NumberInv /\ Boxes /\ [Next]_vars => Boxes'
  <2> SUFFICES ASSUME TypeInv, NumberInv, Boxes, [Next]_vars, NEW q \in Side
               PROVE  BoxFaithful(q)'
    OBVIOUS
  <2>1. ASSUME NEW p \in Side,
               Application(p) \/ (Drain(p) /\ ~ Pop(p)) \/ Work(p) \/ Lifecycle(p)
        PROVE  BoxFaithful(q)'
    BY <2>1, StillSteps, BoxStillFaithful, PeerType
  <2>2. CASE UNCHANGED vars
    BY <2>2, BoxStillFaithful DEF vars, chatVars, storeVars, history, BoxStill, Grown
  <2> QED
    BY <2>1, <2>2, ReceiveFaithful, PopFaithful DEF Next
<1>3. Boxes => MailboxFaithful
  BY DEF BoxFaithful, MailboxFaithful
<1> HIDE DEF Boxes
<1> QED
  BY <1>1, <1>2, <1>3, TypeInit, TypeNext, NumberInit, NumberNext, PTL DEF Spec

----------------------------------------------------------------------------
(* Deleted content is not kept. A deletion withdraws first and is sent     *)
(* later, so the steps still to do have to say what is withdrawn already.  *)

MsgRaws(p) == {RawOut(r.w) : r \in {x \in retained_out[p] : x.w.act = "msg"}}

DueStep(p) ==
  {s \in Step :
     /\ s.do = "delete" => s.arg < Len(sent[p]) /\ s.arg \notin MsgRaws(p)
     /\ s.do = "flush" => MsgRaws(p) = {}}

OtherStep == {s \in Step : s.do \notin {"delete", "flush"}}

Gone(p) ==
  /\ \A n \in MsgRaws(p) : /\ \A i \in SentActs(p, {"delete"}) : sent[p][i].a # n
                          /\ \A i \in SentActs(p, {"flush"}) : i - 1 < n
  /\ \A i \in SentActs(p, {"delete"}) : sent[p][i].a < Len(sent[p])
  /\ todo[p] \in Seq(DueStep(p))

GoneInv == \A p \in Side : Gone(p)

LEMMA SeqWider ==
  ASSUME NEW S, NEW T, S \subseteq T, NEW s \in Seq(S)
  PROVE  s \in Seq(T)
OBVIOUS

LEMMA SeqMembers ==
  ASSUME NEW S, NEW s \in Seq(S)
  PROVE  \A i \in DOMAIN s : s[i] \in S
OBVIOUS

LEMMA QuietGone ==
  ASSUME NEW p \in Side, Gone(p), MsgRaws(p)' \subseteq MsgRaws(p), sent'[p] = sent[p],
         todo'[p] \in Seq(DueStep(p)) \/ todo'[p] \in Seq(DueStep(p)')
  PROVE  Gone(p)'
<1>1. DueStep(p) \subseteq DueStep(p)'
  BY DEF DueStep
<1>2. todo'[p] \in Seq(DueStep(p)')
  BY <1>1, SeqWider
<1>3. \A acts : SentActs(p, acts)' = SentActs(p, acts)
  BY DEF SentActs
<1> QED
  BY <1>2, <1>3 DEF Gone

\* A copy that is still a message is a copy of a message.
LEMMA EchoRaws ==
  ASSUME NEW p \in Side,
         \A r \in retained_out'[p] : \E x \in retained_out[p] : Echo(r.w, x.w)
  PROVE  MsgRaws(p)' \subseteq MsgRaws(p)
<1> SUFFICES ASSUME NEW r \in retained_out'[p], r.w.act = "msg"
             PROVE  RawOut(r.w) \in MsgRaws(p)
  BY DEF MsgRaws
<1>1. PICK x \in retained_out[p] : Echo(r.w, x.w)
  OBVIOUS
<1>2. x.w.act = "msg" /\ RawOut(r.w) = RawOut(x.w)
  BY <1>1, EchoNumbers DEF Echo
<1> QED
  BY <1>2 DEF MsgRaws

\* A step of side p alone that commits nothing.
LEMMA OwnGone ==
  ASSUME TypeInv, GoneInv, NEW p \in Side, UNCHANGED sent,
         \A r \in retained_out'[p] : \E x \in retained_out[p] : Echo(r.w, x.w),
         \A q \in Side : q # p => retained_out'[q] = retained_out[q] /\ todo'[q] = todo[q],
         todo'[p] \in Seq(DueStep(p)) \/ todo'[p] \in Seq(DueStep(p)')
  PROVE  GoneInv'
<1>1. Gone(p)'
  BY EchoRaws, QuietGone DEF GoneInv
<1>2. ASSUME NEW q \in Side, q # p PROVE Gone(q)'
  <2>1. MsgRaws(q)' \subseteq MsgRaws(q)
    BY <1>2, EchoSelf, EchoRaws
  <2> QED
    BY <1>2, <2>1, QuietGone DEF GoneInv, Gone
<1> QED
  BY <1>1, <1>2 DEF GoneInv

LEMMA OthersDue ==
  ASSUME NEW p \in Side
  PROVE  /\ \A s \in Seq(OtherStep) : s \in Seq(DueStep(p))
         /\ <<>> \in Seq(DueStep(p))
<1>1. OtherStep \subseteq DueStep(p)
  BY DEF OtherStep, DueStep
<1> QED
  BY <1>1, SeqWider

LEMMA PlanOthers ==
  ASSUME NEW mail, NEW answer, NEW due, NEW switched
  PROVE  Plan(mail, answer, due, switched) \in Seq(OtherStep)
<1>1. \A s \in {"drain", "retry", "ask", "noop"} : Do(s) \in OtherStep
  BY DEF Do, OtherStep, Step, Steps
<1>2. /\ <<Do("drain")>> \in Seq(OtherStep) /\ <<Do("retry")>> \in Seq(OtherStep)
      /\ <<Do("ask")>> \in Seq(OtherStep) /\ <<Do("noop")>> \in Seq(OtherStep)
      /\ <<>> \in Seq(OtherStep)
  BY <1>1
<1>3. \A s, t \in Seq(OtherStep) : s \o t \in Seq(OtherStep)
  OBVIOUS
<1> QED
  BY <1>2, <1>3 DEF Plan

\* What remains of the operation, with or without one of these steps first.
LEMMA RestDue ==
  ASSUME GoneInv, NEW p \in Side, todo[p] # <<>>
  PROVE  /\ Tail(todo[p]) \in Seq(DueStep(p)) /\ Head(todo[p]) \in DueStep(p)
         /\ <<Do("pop")>> \o Tail(todo[p]) \in Seq(DueStep(p))
         /\ <<Do("drain")>> \o Tail(todo[p]) \in Seq(DueStep(p))
<1> DEFINE D == DueStep(p)
<1> DEFINE t == Tail(todo[p])
<1>1. todo[p] \in Seq(D)
  BY DEF GoneInv, Gone
<1>2. Do("pop") \in D /\ Do("drain") \in D
  BY DEF Do, DueStep, Step, Steps
<1> HIDE DEF D
<1>3. t \in Seq(D) /\ Head(todo[p]) \in D
  BY <1>1
<1> HIDE DEF t
<1>4. <<Do("pop")>> \in Seq(D) /\ <<Do("drain")>> \in Seq(D)
  BY <1>2
<1>5. <<Do("pop")>> \o t \in Seq(D) /\ <<Do("drain")>> \o t \in Seq(D)
  BY <1>3, <1>4
<1> QED
  BY <1>3, <1>5 DEF D, t

LEMMA MsgNumbers ==
  ASSUME TypeInv, NumberInv, NEW p \in Side, NEW n \in MsgRaws(p)
  PROVE  n \in Nat /\ n < Len(sent[p]) /\ Len(sent[p]) \in Nat
<1>1. PICK r \in retained_out[p] : n = RawOut(r.w)
  BY DEF MsgRaws
<1>2. r.w \in Written(p)
  BY <1>1 DEF Written
<1>3. seq[p] \in SeqState /\ Numbered(p)
  BY DEF TypeInv, TypeOK, NumberInv
<1> QED
  BY <1>1, <1>2, <1>3, WrittenNumbers, SeqFacts DEF Numbered, Fits, TypeInv

LEMMA CommitGone ==
  ASSUME TypeInv, NumberInv, GoneInv, NEW p \in Side, Open(p),
         NEW act \in Acts, NEW a \in Nat, NEW b \in Nat,
         NEW key \in Nat, NEW new, NEW st, NEW o,
         Commit(p, act, a, b, key, new, st, o),
         \A q \in Side : q # p => todo'[q] = todo[q],
         todo'[p] \in Seq(DueStep(p)),
         act = "msg" => todo'[p] = <<>>,
         act = "delete" => a < Len(sent[p]) /\ a \notin MsgRaws(p),
         act = "flush" => MsgRaws(p) = {}
  PROVE  GoneInv'
<1> DEFINE v == NewWrapper(p, act, a, b)
<1> DEFINE m == [act |-> act, a |-> a, b |-> b]
<1> DEFINE l == Len(sent[p])
<1> DEFINE r == [w |-> v, key |-> key, pending |-> TRUE, failures |-> 0]
<1> DEFINE t == Transmitted(r, o, new.key)
<1>1. /\ sent'[p] = Append(sent[p], m)
      /\ \A q \in Side : q # p => /\ sent'[q] = sent[q] /\ retained_out'[q] = retained_out[q]
  BY CommitEchoes
<1>2. retained_out'[p] = retained_out[p] \cup {t}
  BY DEF Commit, TypeInv, TypeOK
<1>3. t.w.act = "msg" => act = "msg" /\ RawOut(t.w) = l
  <2>1. seq[p] \in SeqState /\ v \in Wrapper /\ v.act = act
    BY NewWrapperType DEF TypeInv, TypeOK, NewWrapper
  <2>2. RawOut(v) = seq[p].out_seq_no
    BY <2>1, SeqFacts, WireNumber DEF NewWrapper, RawOut
  <2>3. l = seq[p].out_seq_no
    BY DEF NumberInv, Numbered
  <2>4. r \in Item /\ r.w = v
    BY <2>1 DEF Item
  <2> HIDE DEF r, v
  <2>5. Echo(t.w, v)
    BY <2>4, TransmittedEcho
  <2> QED
    BY <2>1, <2>2, <2>3, <2>5, EchoNumbers DEF Echo
<1> HIDE DEF t, v
<1>4. MsgRaws(p)' \subseteq MsgRaws(p) \cup (IF act = "msg" THEN {l} ELSE {})
  BY <1>2, <1>3 DEF MsgRaws
<1>5. /\ Len(sent'[p]) = l + 1 /\ l \in Nat /\ sent'[p][l + 1] = m
      /\ \A i \in 1 .. l : sent'[p][i] = sent[p][i]
      /\ DOMAIN sent[p] = 1 .. l /\ DOMAIN sent'[p] = 1 .. (l + 1)
  <2> DEFINE z == sent[p]
  <2>1. z \in Seq([act : Acts, a : Nat, b : Nat])
    BY DEF TypeInv, TypeOK
  <2>2. m \in [act : Acts, a : Nat, b : Nat]
    OBVIOUS
  <2> HIDE DEF m
  <2> QED BY <1>1, <2>1, <2>2
<1>6. m.act = act /\ m.a = a
  OBVIOUS
<1> HIDE DEF m
<1>7. ASSUME NEW x, NEW i \in SentActs(p, {x})'
      PROVE  \/ i \in SentActs(p, {x}) /\ sent'[p][i] = sent[p][i] /\ i \in 1 .. l
             \/ i = l + 1 /\ act = x /\ sent'[p][i].a = a
  <2>1. i \in 1 .. (l + 1) /\ sent'[p][i].act = x
    BY <1>5, <1>7 DEF SentActs
  <2>2. CASE i = l + 1
    BY <1>5, <1>6, <2>1, <2>2
  <2>3. CASE i \in 1 .. l
    BY <1>5, <2>1, <2>3 DEF SentActs
  <2> QED
    BY <1>5, <2>1, <2>2, <2>3
<1>8. \A n \in MsgRaws(p) : n \in Nat /\ n < l
  BY MsgNumbers
<1>9. \A i \in SentActs(p, {"delete"}) : sent[p][i].a < l /\ sent[p][i].a \in Nat
  <2>1. sent[p] \in Seq([act : Acts, a : Nat, b : Nat])
    BY DEF TypeInv, TypeOK
  <2>2. \A i \in DOMAIN sent[p] : sent[p][i] \in [act : Acts, a : Nat, b : Nat]
    BY <2>1, SeqMembers
  <2>3. \A i \in DOMAIN sent[p] : sent[p][i].a \in Nat
    BY <2>2
  <2> QED
    BY <2>3 DEF SentActs, GoneInv, Gone
<1>10. ASSUME NEW n \in MsgRaws(p)', NEW i \in SentActs(p, {"delete"})'
       PROVE  sent'[p][i].a # n
  <2>1. CASE i \in SentActs(p, {"delete"}) /\ sent'[p][i] = sent[p][i] /\ i \in 1 .. l
    <3>1. sent[p][i].a < l /\ sent[p][i].a \in Nat
      BY <1>9, <2>1
    <3>2. CASE n \in MsgRaws(p)
      BY <2>1, <3>2 DEF GoneInv, Gone
    <3>3. CASE n = l
      BY <1>5, <2>1, <3>1, <3>3
    <3> QED
      BY <1>4, <3>2, <3>3
  <2>2. CASE i = l + 1 /\ act = "delete" /\ sent'[p][i].a = a
    BY <1>4, <2>2
  <2> QED
    BY <1>7, <2>1, <2>2
<1>11. ASSUME NEW n \in MsgRaws(p)', NEW i \in SentActs(p, {"flush"})'
       PROVE  i - 1 < n
  <2>1. CASE i \in SentActs(p, {"flush"}) /\ sent'[p][i] = sent[p][i] /\ i \in 1 .. l
    <3>2. CASE n \in MsgRaws(p)
      BY <2>1, <3>2 DEF GoneInv, Gone
    <3>3. CASE n = l
      BY <1>5, <2>1, <3>3
    <3> QED
      BY <1>4, <3>2, <3>3
  <2>2. CASE i = l + 1 /\ act = "flush" /\ sent'[p][i].a = a
    BY <1>4, <2>2
  <2> QED
    BY <1>7, <2>1, <2>2
<1>12. ASSUME NEW i \in SentActs(p, {"delete"})'
       PROVE  sent'[p][i].a < Len(sent'[p])
  <2>1. CASE i \in SentActs(p, {"delete"}) /\ sent'[p][i] = sent[p][i] /\ i \in 1 .. l
    BY <1>5, <1>9, <2>1
  <2>2. CASE i = l + 1 /\ act = "delete" /\ sent'[p][i].a = a
    BY <1>5, <2>2
  <2> QED
    BY <1>7, <2>1, <2>2
<1>13. todo'[p] \in Seq(DueStep(p)')
  <2>1. CASE act = "msg"
    BY <2>1
  <2>2. CASE act # "msg"
    <3>1. MsgRaws(p)' \subseteq MsgRaws(p)
      BY <1>4, <2>2
    <3>2. DueStep(p) \subseteq DueStep(p)'
      <4> SUFFICES ASSUME NEW s \in Step, s.do = "delete", s.arg < l
                   PROVE  s.arg < Len(sent'[p])
        BY <3>1 DEF DueStep
      <4>1. s.arg \in Nat
        BY DEF Step
      <4> QED
        BY <1>5, <4>1
    <3> QED
      BY <3>2, SeqWider
  <2> QED
    BY <2>1, <2>2
<1>14. Gone(p)'
  BY <1>10, <1>13, <1>11, <1>12 DEF Gone
<1>15. ASSUME NEW q \in Side, q # p PROVE Gone(q)'
  <2>1. MsgRaws(q)' \subseteq MsgRaws(q)
    BY <1>1, <1>15, EchoSelf, EchoRaws
  <2> QED
    BY <1>1, <1>15, <2>1, QuietGone DEF GoneInv, Gone
<1> QED
  BY <1>14, <1>15 DEF GoneInv

LEMMA TodoOf ==
  ASSUME TypeInv, NEW p \in Side, NEW x, todo' = [todo EXCEPT ![p] = x]
  PROVE  todo'[p] = x /\ \A q \in Side : q # p => todo'[q] = todo[q]
BY DEF TypeInv, TypeOK

\* What is forgotten is no message any more.
LEMMA ForgetGone ==
  ASSUME TypeInv, NEW p \in Side, NEW raws, Forget(p, raws)
  PROVE  /\ \A n \in MsgRaws(p)' : n \notin raws
         /\ \A r \in retained_out'[p] : \E x \in retained_out[p] : Echo(r.w, x.w)
         /\ \A q \in Side : q # p => retained_out'[q] = retained_out[q]
<1> DEFINE g(r) == IF RawOut(r.w) \in raws THEN Withdrawn(r, keys[p].key) ELSE r
<1>1. /\ retained_out'[p] = {g(r) : r \in retained_out[p]}
      /\ \A q \in Side : q # p => retained_out'[q] = retained_out[q]
      /\ retained_out[p] \subseteq Item
  BY DEF Forget, rewrite_retained_as_deletes, TypeInv, TypeOK
<1>2. \A r \in retained_out[p] : Echo(g(r).w, r.w)
  BY <1>1, WithdrawnEcho, EchoSelf
<1>3. ASSUME NEW r \in retained_out[p], RawOut(r.w) \in raws
      PROVE  g(r).w.act # "msg"
  <2>1. r \in Item /\ g(r) = Withdrawn(r, keys[p].key)
    BY <1>1, <1>3
  <2> HIDE DEF g
  <2>2. CASE r.w.act = "msg"
    <3> DEFINE u == [r.w EXCEPT !.act = "delete", !.a = RawOut(r.w)]
    <3>1. u.act = "delete"
      BY <2>1 DEF Item, Wrapper
    <3>2. g(r) = [r EXCEPT !.w = u, !.key = keys[p].key]
      BY <2>1, <2>2 DEF Withdrawn, Item
    <3> HIDE DEF u
    <3>3. g(r).w = u
      BY <2>1, <3>2 DEF Item
    <3> QED
      BY <3>1, <3>3
  <2> QED
    BY <2>1, <2>2 DEF Withdrawn
<1> HIDE DEF g
<1>4. \A x \in retained_out'[p] : \E r \in retained_out[p] : Echo(x.w, r.w)
  BY <1>1, <1>2
<1>5. ASSUME NEW n \in MsgRaws(p)' PROVE n \notin raws
  <2>1. PICK x \in retained_out'[p] : x.w.act = "msg" /\ n = RawOut(x.w)
    BY DEF MsgRaws
  <2>2. PICK r \in retained_out[p] : x = g(r)
    BY <1>1
  <2>3. RawOut(r.w) = n
    BY <1>2, <2>1, <2>2, EchoNumbers
  <2> QED
    BY <1>3, <2>1, <2>2, <2>3
<1> QED
  BY <1>1, <1>4, <1>5

LEMMA StillGone ==
  ASSUME GoneInv, UNCHANGED <<retained_out, sent, todo>>
  PROVE  GoneInv'
<1> SUFFICES ASSUME NEW q \in Side PROVE Gone(q)'
  BY DEF GoneInv
<1>1. MsgRaws(q)' \subseteq MsgRaws(q)
  BY DEF MsgRaws
<1> QED
  BY <1>1, QuietGone DEF GoneInv, Gone

LEMMA CloseGone ==
  ASSUME TypeInv, GoneInv, NEW p \in Side, NEW reason, CloseChat(p, reason), UNCHANGED sent
  PROVE  GoneInv'
<1>1. /\ retained_out'[p] = {} /\ todo'[p] = <<>>
      /\ \A q \in Side : q # p => retained_out'[q] = retained_out[q] /\ todo'[q] = todo[q]
  BY DEF CloseChat, TypeInv, TypeOK
<1>2. todo'[p] \in Seq(DueStep(p))
  BY <1>1, OthersDue
<1> QED
  BY <1>1, <1>2, OwnGone

LEMMA ApplicationGone ==
  ASSUME TypeInv, NumberInv, GoneInv, NEW p \in Side, Application(p)
  PROVE  GoneInv'
<1>1. CASE SendMessage(p)
  <2>1. Open(p) /\ todo' = todo /\ todo[p] = <<>>
    BY <1>1 DEF SendMessage, Idle
  <2>2. PICK o : Commit(p, "msg", 0, 0, keys[p].key, keys[p], state[p], o)
    BY <1>1 DEF SendMessage
  <2>3. keys[p].key \in Nat /\ "msg" \in Acts /\ 0 \in Nat
    BY <2>1, OpenFacts DEF Acts
  <2> QED
    BY <2>1, <2>2, <2>3, OthersDue, CommitGone
<1>2. CASE NotifyLayer(p)
  <2>1. Open(p) /\ todo' = todo /\ todo[p] = <<>>
    BY <1>2 DEF NotifyLayer, Idle
  <2>2. PICK o : Commit(p, "notify", MAX_LAYER, 0, keys[p].key, keys[p], state[p], o)
    BY <1>2 DEF NotifyLayer
  <2>3. keys[p].key \in Nat /\ "notify" \in Acts /\ 0 \in Nat /\ MAX_LAYER \in Nat
    BY <2>1, OpenFacts DEF Acts, MAX_LAYER
  <2> QED
    BY <2>1, <2>2, <2>3, OthersDue, CommitGone
<1>3. CASE StartRekey(p)
  <2>1. Open(p)
    BY <1>3 DEF StartRekey, Idle, At
  <2>2. PICK e \in ExchangeIds[p], o \in AnyOutcome :
          /\ Commit(p, "request", e, 0, keys[p].key, Requested(keys[p], e), "rekeying", o)
          /\ GoOn(p, o, todo[p])
    BY <1>3 DEF StartRekey
  <2>3. keys[p].key \in Nat /\ "request" \in Acts /\ e \in Nat /\ 0 \in Nat
    BY <2>1, OpenFacts, BoundsAssumption DEF Acts
  <2>4. todo'[p] \in {todo[p], <<>>} /\ \A q \in Side : q # p => todo'[q] = todo[q]
    BY <2>2, TodoOf DEF GoOn
  <2>5. todo'[p] \in Seq(DueStep(p))
    BY <2>4, OthersDue DEF GoneInv, Gone
  <2> QED
    BY <2>1, <2>2, <2>3, <2>4, <2>5, CommitGone
<1>4. CASE SendDelete(p)
  <2> DEFINE step == Head(todo[p])
  <2>1. /\ Open(p) /\ todo[p] # <<>> /\ step \in Step /\ step.do \in {"delete", "flush"}
    BY <1>4, AtFacts DEF SendDelete, At, TypeInv
  <2>2. PICK o : /\ Commit(p, step.do, step.arg, 0, keys[p].key, keys[p], state[p], o)
                 /\ GoOn(p, o, Tail(todo[p]))
    BY <1>4 DEF SendDelete
  <2>3. keys[p].key \in Nat /\ step.do \in Acts /\ step.arg \in Nat /\ 0 \in Nat
    BY <2>1, OpenFacts DEF Acts, Step
  <2>4. todo'[p] \in {Tail(todo[p]), <<>>} /\ \A q \in Side : q # p => todo'[q] = todo[q]
    BY <2>2, TodoOf DEF GoOn
  <2>5. step \in DueStep(p) /\ todo'[p] \in Seq(DueStep(p))
    BY <2>1, <2>4, OthersDue, RestDue
  <2>6. /\ step.do = "delete" => step.arg < Len(sent[p]) /\ step.arg \notin MsgRaws(p)
        /\ step.do = "flush" => MsgRaws(p) = {}
    BY <2>5 DEF DueStep
  <2> HIDE DEF step
  <2> QED
    BY <2>1, <2>2, <2>3, <2>4, <2>5, <2>6, CommitGone
<1>5. CASE BeginDelete(p)
  <2>1. PICK i \in SentActs(p, {"msg"}) :
          /\ Forget(p, {i - 1})
          /\ todo' = [todo EXCEPT ![p] = <<[do |-> "delete", arg |-> i - 1]>>]
    BY <1>5 DEF BeginDelete
  <2> DEFINE s == [do |-> "delete", arg |-> i - 1]
  <2>2. UNCHANGED sent
    BY <1>5 DEF BeginDelete, history
  <2>3. i \in 1 .. Len(sent[p]) /\ Len(sent[p]) \in Nat
    BY DEF SentActs, TypeInv, TypeOK
  <2>4. s \in DueStep(p)'
    <3>1. s \in Step /\ s.do = "delete" /\ s.arg = i - 1
      BY <2>3 DEF Step, Steps
    <3>2. i - 1 < Len(sent'[p]) /\ i - 1 \notin MsgRaws(p)'
      BY <2>1, <2>2, <2>3, ForgetGone
    <3> QED
      BY <3>1, <3>2 DEF DueStep
  <2> HIDE DEF s
  <2>5. <<s>> \in Seq(DueStep(p)')
    BY <2>4
  <2>6. todo'[p] = <<s>> /\ \A q \in Side : q # p => todo'[q] = todo[q]
    BY <2>1, TodoOf DEF s
  <2> QED
    BY <2>1, <2>2, <2>5, <2>6, ForgetGone, OwnGone
<1>6. CASE BeginFlush(p)
  <2>1. /\ Forget(p, AllRaws(p)) /\ todo' = [todo EXCEPT ![p] = <<Do("flush")>>]
        /\ UNCHANGED sent
    BY <1>6 DEF BeginFlush, history
  <2>2. MsgRaws(p)' = {}
    <3>1. \A n \in MsgRaws(p)' : n \in AllRaws(p)
      <4> SUFFICES ASSUME NEW r \in retained_out'[p]
                   PROVE  RawOut(r.w) \in AllRaws(p)
        BY DEF MsgRaws
      <4>1. PICK x \in retained_out[p] : Echo(r.w, x.w)
        BY <2>1, ForgetGone
      <4> QED
        BY <4>1, EchoNumbers DEF AllRaws
    <3> QED
      BY <2>1, <3>1, ForgetGone
  <2>3. Do("flush") \in DueStep(p)'
    BY <2>2 DEF DueStep, Do, Step, Steps
  <2>4. <<Do("flush")>> \in Seq(DueStep(p)')
    BY <2>3
  <2>5. todo'[p] = <<Do("flush")>> /\ \A q \in Side : q # p => todo'[q] = todo[q]
    BY <2>1, TodoOf
  <2> QED
    BY <2>1, <2>4, <2>5, ForgetGone, OwnGone
<1>7. ASSUME Close(p) PROVE GoneInv'
  BY <1>7, CloseGone DEF Close, history
<1> QED
  BY <1>1, <1>2, <1>3, <1>4, <1>5, <1>6, <1>7 DEF Application

LEMMA ReceiveGone ==
  ASSUME TypeInv, NumberInv, GoneInv, NEW p \in Side, Receive(p)
  PROVE  GoneInv'
<1>1. ASSUME NEW f, NEW c, NEW ready, Receipt(p, f, c, ready) PROVE GoneInv'
  <2> DEFINE R == retained_out[p]
  <2> DEFINE answer == IF f.w.act = "resend" THEN answer_resend(R, f.w.a, f.w.b) ELSE {}
  <2> DEFINE kept == forget_acknowledged(p, R, c.peer_in_seq_no)
  <2> DEFINE sw == keys[p].pending_key # NoKey /\ f.key = keys[p].pending_key
  <2> DEFINE mail == Mailed(pending_deliveries[p], ready)
  <2> DEFINE plan == Plan(mail, answer, c.resend_due, sw)
  <2>1. /\ retained_out' = [retained_out EXCEPT ![p] =
                (kept \ answer) \cup {[r EXCEPT !.pending = TRUE] : r \in answer}]
        /\ todo' = [todo EXCEPT ![p] = plan] /\ UNCHANGED sent
    BY <1>1 DEF Receipt, history
  <2>2. kept \subseteq R /\ answer \subseteq R /\ R \subseteq Item
    BY DEF forget_acknowledged, answer_resend, TypeInv, TypeOK
  <2>3. plan \in Seq(OtherStep)
    BY PlanOthers
  <2> HIDE DEF plan, kept, answer
  <2>4. /\ retained_out'[p] = (kept \ answer) \cup {[r EXCEPT !.pending = TRUE] : r \in answer}
        /\ \A q \in Side : q # p => retained_out'[q] = retained_out[q]
    BY <2>1 DEF TypeInv, TypeOK
  <2>5. \A r \in Item : [r EXCEPT !.pending = TRUE].w = r.w
    BY DEF Item
  <2>6. \A x \in retained_out'[p] : \E r \in retained_out[p] : x.w = r.w
    BY <2>2, <2>4, <2>5
  <2>7. todo'[p] \in Seq(DueStep(p)) /\ \A q \in Side : q # p => todo'[q] = todo[q]
    BY <2>1, <2>3, TodoOf, OthersDue
  <2> QED
    BY <2>1, <2>4, <2>6, <2>7, EchoSelf, OwnGone
<1>2. ASSUME NEW f \in net, ReceiveEarly(p, f) PROVE GoneInv'
  BY <1>1, <1>2 DEF ReceiveEarly
<1>3. ASSUME NEW f \in net, ReceiveNext(p, f) PROVE GoneInv'
  BY <1>1, <1>3 DEF ReceiveNext
<1>4. ASSUME NEW f \in net, ReceiveRefused(p, f) PROVE GoneInv'
  BY <1>4, CloseGone DEF ReceiveRefused, history
<1>5. ASSUME NEW f \in net, ReceiveIgnored(p, f) PROVE GoneInv'
  BY <1>5, StillGone DEF ReceiveIgnored, vars, storeVars, runVars, history
<1>6. CASE Discarded(p)
  BY <1>6, CloseGone DEF Discarded, history
<1> QED
  BY <1>2, <1>3, <1>4, <1>5, <1>6 DEF Receive

LEMMA HandOverGone ==
  ASSUME TypeInv, GoneInv, NEW p \in Side, Draining(p), HandOver(p)
  PROVE  todo'[p] \in Seq(DueStep(p)) /\ \A q \in Side : q # p => todo'[q] = todo[q]
<1>1. todo[p] # <<>> /\ todo' = [todo EXCEPT ![p] = <<Do("pop")>> \o Tail(todo[p])]
  BY DEF Draining, At, HandOver, TypeInv, TypeOK
<1> QED
  BY <1>1, TodoOf, RestDue

LEMMA PassedGone ==
  ASSUME TypeInv, GoneInv, NEW p \in Side, Draining(p), HandOver(p), UNCHANGED sent,
         \A r \in retained_out'[p] : \E x \in retained_out[p] : Echo(r.w, x.w),
         \A q \in Side : q # p => retained_out'[q] = retained_out[q]
  PROVE  GoneInv'
BY HandOverGone, OwnGone

LEMMA ReplyGone ==
  ASSUME TypeInv, NumberInv, GoneInv, NEW p \in Side, Draining(p),
         NEW act \in {"abort", "accept", "commit", "noop"}, NEW a \in Nat, NEW b \in Nat,
         NEW key \in Nat, NEW new, NEW st, Reply(p, act, a, b, key, new, st)
  PROVE  GoneInv'
<1>1. Open(p) /\ act \in Acts /\ act \notin {"msg", "delete", "flush"}
  BY DEF Draining, At, Acts
<1>2. PICK o : /\ Commit(p, act, a, b, key, new, st, o)
               /\ HandOver(p) \/ todo' = [todo EXCEPT ![p] = <<>>]
  BY DEF Reply
<1>3. todo'[p] \in Seq(DueStep(p)) /\ \A q \in Side : q # p => todo'[q] = todo[q]
  BY <1>2, HandOverGone, TodoOf, OthersDue
<1> QED
  BY <1>1, <1>2, <1>3, CommitGone

LEMMA DrainGone ==
  ASSUME TypeInv, NumberInv, GoneInv, NEW p \in Side, Drain(p)
  PROVE  GoneInv'
<1>1. ASSUME Draining(p), HandOver(p), UNCHANGED <<retained_out, sent>> PROVE GoneInv'
  BY <1>1, EchoSelf, PassedGone
<1>2. ASSUME Draining(p), Unanswered(p) PROVE GoneInv'
  BY <1>1, <1>2 DEF Unanswered, storeVars
<1>3. CASE DeliverPlain(p)
  BY <1>1, <1>3 DEF DeliverPlain, storeVars
<1>4. CASE DeliverNotifyLayer(p)
  BY <1>1, <1>4 DEF DeliverNotifyLayer, storeVars
<1>5. CASE DeliverFlush(p)
  BY <1>5, ForgetGone, PassedGone DEF DeliverFlush
<1>6. CASE DeliverRequestKey(p)
  <2>1. Draining(p) /\ Mail(p).a \in Nat /\ keys[p].key \in Nat /\ minted \in Nat
    BY <1>6, MailFacts, OpenFacts DEF DeliverRequestKey, Wrapper, TypeInv, TypeOK
  <2>2. \/ Unanswered(p)
        \/ \E new, st : \E act \in {"abort", "accept"}, b \in {0, minted + 1} :
             Reply(p, act, Mail(p).a, b, keys[p].key, new, st)
    BY <1>6 DEF DeliverRequestKey
  <2>3. \A b \in {0, minted + 1} : b \in Nat
    BY <2>1
  <2> QED
    BY <1>2, <2>1, <2>2, <2>3, ReplyGone
<1>7. CASE DeliverAcceptKey(p)
  <2>1. Draining(p) /\ Mail(p).a \in Nat /\ Mail(p).b \in Nat /\ keys[p].key \in Nat
    BY <1>7, MailFacts, OpenFacts DEF DeliverAcceptKey, Wrapper
  <2>2. \/ Unanswered(p)
        \/ \E new, st : Reply(p, "commit", Mail(p).a, Mail(p).b, keys[p].key, new, st)
    BY <1>7 DEF DeliverAcceptKey
  <2> QED
    BY <1>2, <2>1, <2>2, ReplyGone
<1>8. CASE DeliverCommitKey(p)
  <2>1. /\ Draining(p) /\ Open(p) /\ keys[p] \in KeyState
    BY <1>8, MailFacts, OpenFacts DEF DeliverCommitKey
  <2>2. \/ Unanswered(p)
        \/ /\ keys[p].pending_key # NoKey
           /\ \E new, st : Reply(p, "noop", 0, 0, keys[p].pending_key, new, st)
        \/ CloseChat(p, "commit") /\ UNCHANGED sent
    BY <1>8 DEF DeliverCommitKey, CommitMatches, history
  <2>3. keys[p].pending_key # NoKey => keys[p].pending_key \in Nat
    BY <2>1 DEF KeyState, Key
  <2> QED
    BY <1>2, <2>1, <2>2, <2>3, ReplyGone, CloseGone
<1>9. CASE DeliverAbortKey(p)
  BY <1>2, <1>9 DEF DeliverAbortKey
<1>10. CASE Pop(p)
  <2>1. /\ UNCHANGED <<retained_out, sent>> /\ todo[p] # <<>>
        /\ todo' = [todo EXCEPT ![p] = IF Len(pending_deliveries[p]) = 1 THEN Tail(todo[p])
                                       ELSE <<Do("drain")>> \o Tail(todo[p])]
    BY <1>10 DEF Pop, history, At, TypeInv, TypeOK
  <2>2. todo'[p] \in Seq(DueStep(p)) /\ \A q \in Side : q # p => todo'[q] = todo[q]
    BY <2>1, TodoOf, RestDue
  <2> QED
    BY <2>1, <2>2, EchoSelf, OwnGone
<1> QED
  BY <1>3, <1>4, <1>5, <1>6, <1>7, <1>8, <1>9, <1>10 DEF Drain

LEMMA RetryGone ==
  ASSUME TypeInv, GoneInv, NEW p \in Side, RetryPending(p)
  PROVE  GoneInv'
<1> DEFINE P == Pending(p)
<1>1. retained_out[p] \subseteq Item /\ P \subseteq retained_out[p] /\ UNCHANGED sent
  BY DEF Pending, TypeInv, TypeOK, RetryPending, history
<1>2. \/ CloseChat(p, "rejected")
      \/ /\ \E o : retained_out' = [retained_out EXCEPT ![p] =
                (@ \ P) \cup {Transmitted(r, o[r], keys[p].key) : r \in P}]
         /\ \/ todo' = [todo EXCEPT ![p] = Retried(p)]
            \/ todo' = [todo EXCEPT ![p] = <<>>]
  BY DEF RetryPending
<1>3. ASSUME NEW o,
             retained_out' = [retained_out EXCEPT ![p] =
                (@ \ P) \cup {Transmitted(r, o[r], keys[p].key) : r \in P}],
             \/ todo' = [todo EXCEPT ![p] = Retried(p)]
             \/ todo' = [todo EXCEPT ![p] = <<>>]
      PROVE  GoneInv'
  <2> DEFINE t(r) == Transmitted(r, o[r], keys[p].key)
  <2>1. \A r \in P : Echo(t(r).w, r.w)
    BY <1>1, TransmittedEcho
  <2>2. /\ retained_out'[p] = (retained_out[p] \ P) \cup {t(r) : r \in P}
        /\ \A q \in Side : q # p => retained_out'[q] = retained_out[q]
    BY <1>3 DEF TypeInv, TypeOK
  <2> HIDE DEF t, P
  <2>3. \A r \in retained_out'[p] : \E x \in retained_out[p] : Echo(r.w, x.w)
    BY <1>1, <2>1, <2>2, EchoSelf
  <2>4. Retried(p) \in Seq(DueStep(p))
    BY RestDue DEF Retried, At, GoneInv, Gone
  <2>5. todo'[p] \in Seq(DueStep(p)) /\ \A q \in Side : q # p => todo'[q] = todo[q]
    BY <1>3, <2>4, TodoOf, OthersDue
  <2> QED
    BY <1>1, <2>2, <2>3, <2>5, OwnGone
<1> QED
  BY <1>1, <1>2, <1>3, CloseGone

\* The ends of a request that is due are numbers.
LEMMA DueNumbers ==
  ASSUME TypeInv, NumberInv, NEW p \in Side, seq[p].resend_due # NoSpan
  PROVE  MissingFrom(seq[p]) \in Nat /\ seq[p].resend_due.end \in Nat
<1> DEFINE s == seq[p].resend_due.start
<1> DEFINE e == seq[p].resend_due.end
<1>1. seq[p].in_seq_no \in Nat /\ s \in Int /\ e \in Int /\ InX(p) \in {0, 1}
  BY TwoSides DEF TypeInv, TypeOK, SeqState, Span
<1>2. /\ s = 2 * raw_seq_no(s) + InX(p) /\ e = 2 * raw_seq_no(e) + InX(p)
      /\ 0 <= raw_seq_no(s) /\ raw_seq_no(s) <= raw_seq_no(e)
  BY DEF NumberInv, Numbered, DueWell, Askable, transform_in_seq_no
<1>3. raw_seq_no(s) \in Int /\ raw_seq_no(e) \in Int
  BY <1>1 DEF raw_seq_no
<1>4. seq[p].in_seq_no \in Nat /\ s \in Nat /\ e \in Nat
  BY <1>1, <1>2, <1>3
<1>5. MissingFrom(seq[p]) \in Nat
  BY <1>4 DEF MissingFrom
<1> QED
  BY <1>4, <1>5

LEMMA WorkGone ==
  ASSUME TypeInv, NumberInv, GoneInv, NEW p \in Side, Work(p)
  PROVE  GoneInv'
<1>1. ASSUME UNCHANGED <<retained_out, sent>>, todo[p] # <<>>,
             todo' = [todo EXCEPT ![p] = Tail(todo[p])]
      PROVE  GoneInv'
  BY <1>1, TodoOf, RestDue, EchoSelf, OwnGone
<1>2. CASE RetryNothing(p)
  <2>1. todo[p] # <<>> /\ todo' = [todo EXCEPT ![p] = Tail(todo[p])]
    BY <1>2 DEF RetryNothing, At, TypeInv, TypeOK
  <2> QED
    BY <1>1, <1>2, <2>1 DEF RetryNothing, storeVars, history
<1>3. ASSUME Open(p), todo[p] # <<>>, NEW act \in {"noop", "resend"}, NEW a \in Nat, NEW b \in Nat,
             NEW o, Commit(p, act, a, b, keys[p].key, keys[p], state[p], o),
             GoOn(p, o, Tail(todo[p]))
      PROVE  GoneInv'
  <2>1. keys[p].key \in Nat /\ act \in Acts /\ act \notin {"msg", "delete", "flush"}
    BY <1>3, OpenFacts DEF Acts
  <2>2. todo'[p] \in {Tail(todo[p]), <<>>} /\ \A q \in Side : q # p => todo'[q] = todo[q]
    BY <1>3, TodoOf DEF GoOn
  <2>3. todo'[p] \in Seq(DueStep(p))
    BY <1>3, <2>2, OthersDue, RestDue
  <2> QED
    BY <1>3, <2>1, <2>2, <2>3, CommitGone
<1>4. CASE ConfirmSwitch(p)
  BY <1>3, <1>4 DEF ConfirmSwitch, At
<1>5. CASE Ask(p)
  <2>1. Open(p) /\ todo[p] # <<>>
    BY <1>5 DEF Ask, At
  <2>2. CASE /\ UNCHANGED <<retained_out, sent>>
             /\ todo' = [todo EXCEPT ![p] = Tail(@)]
    BY <1>1, <2>1, <2>2 DEF TypeInv, TypeOK
  <2>3. ASSUME seq[p].resend_due # NoSpan, NEW o,
               Commit(p, "resend", MissingFrom(seq[p]), seq[p].resend_due.end,
                      keys[p].key, keys[p], state[p], o),
               GoOn(p, o, Tail(todo[p]))
        PROVE  GoneInv'
    <3>1. MissingFrom(seq[p]) \in Nat /\ seq[p].resend_due.end \in Nat
      BY <2>3, DueNumbers
    <3> QED
      BY <1>3, <2>1, <2>3, <3>1
  <2>4. \/ /\ UNCHANGED <<retained_out, sent>> /\ todo' = [todo EXCEPT ![p] = Tail(@)]
        \/ /\ seq[p].resend_due # NoSpan
           /\ \E o : /\ Commit(p, "resend", MissingFrom(seq[p]), seq[p].resend_due.end,
                               keys[p].key, keys[p], state[p], o)
                     /\ GoOn(p, o, Tail(todo[p]))
    BY <1>5 DEF Ask, storeVars, history
  <2> QED
    BY <2>2, <2>3, <2>4
<1> QED
  BY <1>2, <1>4, <1>5, RetryGone DEF Work

LEMMA LifecycleGone ==
  ASSUME TypeInv, GoneInv, NEW p \in Side, Lifecycle(p)
  PROVE  GoneInv'
<1>1. UNCHANGED <<retained_out, sent>>
  BY DEF Lifecycle, Crash, Start, ResumeDelivery, ResumeWork, storeVars, history
<1>2. \/ UNCHANGED todo
      \/ \E s \in Seq(OtherStep) : todo' = [todo EXCEPT ![p] = s]
  <2>1. <<>> \in Seq(OtherStep)
    OBVIOUS
  <2> QED
    BY <2>1, PlanOthers DEF Lifecycle, Crash, Start, ResumeDelivery, ResumeWork
<1>3. CASE UNCHANGED todo
  BY <1>1, <1>3, StillGone
<1>4. ASSUME NEW s \in Seq(OtherStep), todo' = [todo EXCEPT ![p] = s] PROVE GoneInv'
  <2>1. todo'[p] \in Seq(DueStep(p)) /\ \A q \in Side : q # p => todo'[q] = todo[q]
    BY <1>4, TodoOf, OthersDue
  <2> QED
    BY <1>1, <2>1, EchoSelf, OwnGone
<1> QED
  BY <1>2, <1>3, <1>4

LEMMA GoneInit == Init => GoneInv
<1> SUFFICES ASSUME Init, NEW p \in Side PROVE Gone(p)
  BY DEF GoneInv
<1>1. MsgRaws(p) = {} /\ sent[p] = <<>> /\ todo[p] = <<>>
  BY DEF Init, MsgRaws
<1>2. \A acts : SentActs(p, acts) = {}
  BY <1>1 DEF SentActs
<1> QED
  BY <1>1, <1>2, OthersDue DEF Gone

LEMMA GoneNext == TypeInv /\ NumberInv /\ GoneInv /\ [Next]_vars => GoneInv'
<1> SUFFICES ASSUME TypeInv, NumberInv, GoneInv, [Next]_vars PROVE GoneInv'
  OBVIOUS
<1>1. CASE Next
  BY <1>1, ApplicationGone, ReceiveGone, DrainGone, WorkGone, LifecycleGone DEF Next
<1>2. CASE UNCHANGED vars
  BY <1>2, StillGone DEF vars, storeVars, runVars, history
<1> QED
  BY <1>1, <1>2

\* A message the user deleted, or that was sent before the history was flushed,
\* is never kept as content again: not by a retry, not by the answer to a
\* Resend, not after a crash between the withdrawal and the action that
\* announces it (delete_messages and flush_history of outbox.py).
THEOREM DeletedStaysWithdrawn == Spec => []DeletedIsWithdrawn
<1>1. GoneInv => DeletedIsWithdrawn
  BY DEF GoneInv, Gone, MsgRaws, DeletedIsWithdrawn
<1>2. Init => TypeInv
  BY TypeInit
<1> QED
  BY <1>1, <1>2, TypeNext, NumberInit, NumberNext, GoneInit, GoneNext, PTL DEF Spec

============================================================================
