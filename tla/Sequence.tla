------------------------------ MODULE Sequence -----------------------------
(***************************************************************************)
(* The ordering rules of sequence.py as operators. c is the part of the    *)
(* chat record they read and write, Q the gap queue (wrappers that came    *)
(* too early), R the retained outbox.                                      *)
(***************************************************************************)
EXTENDS Framing, FiniteSets

CONSTANT MAX_RESEND_COUNT  \* 1000 in the code: the recovery window

ASSUME WindowAssumption == MAX_RESEND_COUNT \in Nat \ {0}

\* Python's None for gap_end and for resend_due.
NoGap == -1
NoSpan == [start |-> -1, end |-> -1]

Span == [start : Int, end : Int]

SeqState == [in_seq_no : Nat, out_seq_no : Nat, peer_in_seq_no : Nat,
             layer : Nat, wrapper_layer : Nat,
             gap_requested : BOOLEAN, gap_end : Int, resend_due : Span]

InitialSeq ==
  [in_seq_no |-> 0, out_seq_no |-> 0, peer_in_seq_no |-> 0,
   layer |-> INITIAL_REMOTE_LAYER, wrapper_layer |-> 0,
   gap_requested |-> FALSE, gap_end |-> NoGap, resend_due |-> NoSpan]

check_order(c, w) ==
  /\ RawIn(w) >= c.peer_in_seq_no
  /\ RawIn(w) <= c.out_seq_no
  /\ w.layer >= c.wrapper_layer

\* Whether side p takes wrapper w, ignores it as a replay, or ends the chat.
preflight(p, c, Q, w) ==
  IF w.in_seq_no % 2 # OutX(p) \/ w.out_seq_no % 2 # InX(p) THEN "sequence"
  ELSE IF RawOut(w) < c.in_seq_no \/ \E x \in Q : RawOut(x) = RawOut(w)
    THEN "replay"
  ELSE IF ~ check_order(c, w) THEN "sequence"
  ELSE IF \/ RawOut(w) - c.in_seq_no > MAX_RESEND_COUNT
          \/ RawOut(w) > c.in_seq_no /\ Cardinality(Q) >= MAX_RESEND_COUNT
    THEN "window"
  ELSE "take"

\* Faulty variant: an early wrapper counts as a chronological predecessor.
Bad_accept_early(c, w) ==
  [c EXCEPT !.gap_requested = TRUE, !.gap_end = RawOut(w),
            !.wrapper_layer = w.layer,
            !.resend_due = [start |-> 2 * c.in_seq_no + (w.out_seq_no % 2),
                            end |-> w.out_seq_no - 2]]

(***************************************************************************)
(* accept, for a wrapper ahead of the next expected number: it is queued,  *)
(* and the first one to open a hole makes a request due for all of it.     *)
(***************************************************************************)
accept_early(c, w) ==
  LET heard == [c EXCEPT !.layer = raise_remote_layer(@, w.layer)]
  IN IF c.gap_requested THEN heard
     ELSE [heard EXCEPT
             !.gap_requested = TRUE,
             !.gap_end = RawOut(w),
             !.resend_due = [start |-> 2 * c.in_seq_no + (w.out_seq_no % 2),
                             end |-> w.out_seq_no - 2]]

(***************************************************************************)
(* accept, for the next expected wrapper: it and the queued run behind it  *)
(* are taken, up to the next missing number m.                             *)
(***************************************************************************)
NextMissing(Q, n) ==
  {m \in {n + 1} \cup {RawOut(x) + 1 : x \in Q} :
     /\ m > n
     /\ \A x \in Q : RawOut(x) # m
     /\ \A j \in (n + 1) .. (m - 1) : \E x \in Q : RawOut(x) = j}

Taken(Q, w, j) ==
  IF j = RawOut(w) THEN w ELSE CHOOSE x \in Q : RawOut(x) = j

\* advance() re-checks each queued wrapper against the one before it.
RunInOrder(c, Q, w, m) ==
  \A j \in (RawOut(w) + 1) .. (m - 1) :
    /\ RawIn(Taken(Q, w, j)) >= RawIn(Taken(Q, w, j - 1))
    /\ RawIn(Taken(Q, w, j)) <= c.out_seq_no
    /\ Taken(Q, w, j).layer >= Taken(Q, w, j - 1).layer

Ready(Q, w, m) ==
  [i \in 1 .. (m - RawOut(w)) |-> Taken(Q, w, RawOut(w) + i - 1)]

Waiting(Q, m) == {x \in Q : RawOut(x) > m}

\* The number of the first wrapper still waiting, if any does.
FirstWaiting(Q, m) ==
  IF Waiting(Q, m) = {} THEN {NoGap}
  ELSE {RawOut(x) : x \in {y \in Waiting(Q, m) :
                             \A z \in Waiting(Q, m) : RawOut(y) <= RawOut(z)}}

\* The chat after that run; first \in FirstWaiting(Q, m).
accept_next(c, Q, w, m, first) ==
  LET last == Taken(Q, w, m - 1)
      x == w.out_seq_no % 2
      moved == [c EXCEPT !.layer = raise_remote_layer(@, w.layer),
                         !.peer_in_seq_no = RawIn(last),
                         !.wrapper_layer = last.layer,
                         !.in_seq_no = m]
  IN IF first = NoGap
       THEN [moved EXCEPT !.gap_requested = FALSE, !.gap_end = NoGap,
                          !.resend_due = NoSpan]
     ELSE IF c.gap_end = NoGap \/ m >= c.gap_end
       THEN [moved EXCEPT !.gap_requested = TRUE, !.gap_end = first,
                          !.resend_due = [start |-> 2 * m + x,
                                          end |-> 2 * (first - 1) + x]]
     ELSE moved

(***************************************************************************)
(* Answering the peer's request for the wire numbers s, s+2, ..., e.       *)
(***************************************************************************)
Wanted(s, e) == {n \in s .. e : n % 2 = s % 2}

Answerable(p, R, s, e) ==
  /\ s >= 0 /\ e >= s
  /\ s % 2 = OutX(p) /\ e % 2 = OutX(p)
  /\ (e - s) \div 2 + 1 <= MAX_RESEND_COUNT
  /\ \A n \in Wanted(s, e) : \E r \in R : r.w.out_seq_no = n

\* Faulty variant: the last number of the span is left out.
Bad_answer_resend(R, s, e) == {r \in R : r.w.out_seq_no \in Wanted(s, e - 1)}

answer_resend(R, s, e) == {r \in R : r.w.out_seq_no \in Wanted(s, e)}

\* Faulty variant: one message too many is taken for acknowledged.
Bad_forget_acknowledged(p, R, peer_in) ==
  {r \in R : r.w.out_seq_no > 2 * peer_in + OutX(p)}

forget_acknowledged(p, R, peer_in) ==
  IF peer_in > 0
    THEN {r \in R : r.w.out_seq_no > 2 * (peer_in - 1) + OutX(p)}
  ELSE R
============================================================================
