------------------------------ MODULE Framing ------------------------------
(***************************************************************************)
(* The two sides of one secret chat and the wrapper each message travels   *)
(* in (framing.py): the two sequence numbers, transformed on the wire so   *)
(* that a reflected message is recognisable, the layer, and the message.   *)
(***************************************************************************)
EXTENDS Integers

\* alice called requestEncryption: chat.is_outbound is true on her side only.
Side == {"alice", "bob"}
Peer(p) == IF p = "alice" THEN "bob" ELSE "alice"
is_outbound(p) == p = "alice"

\* What x of "2 * raw + x" is in the numbers side p writes.
OutX(p) == IF is_outbound(p) THEN 1 ELSE 0
InX(p) == IF is_outbound(p) THEN 0 ELSE 1

transform_out_seq_no(raw, p) == 2 * raw + OutX(p)
\* Faulty variant: the parity is subtracted.
Bad_transform_in_seq_no(raw, p) == 2 * raw - InX(p)

transform_in_seq_no(raw, p) == 2 * raw + InX(p)
raw_seq_no(wire) == wire \div 2

INITIAL_REMOTE_LAYER == 46
MIN_LAYER == 73
MAX_LAYER == 144

raise_remote_layer(stored, announced) ==
  IF announced > stored THEN announced ELSE stored

outgoing_layer(remote) ==
  IF remote < MIN_LAYER THEN MIN_LAYER
  ELSE IF remote > MAX_LAYER THEN MAX_LAYER ELSE remote

(***************************************************************************)
(* The messages the protocol tells apart. "msg" is ordinary content, with  *)
(* or without a file; the rest are service actions. a and b are arguments: *)
(*   resend   first and last wire number       request, abort  exchange id *)
(*   accept, commit  exchange id and key       notify          the layer   *)
(*   delete   raw number of the deleted message                           *)
(***************************************************************************)
Acts == {"msg", "noop", "notify", "resend", "delete", "flush",
         "request", "accept", "commit", "abort"}

Wrapper == [in_seq_no : Nat, out_seq_no : Nat, layer : Nat,
            act : Acts, a : Nat, b : Nat]

\* The counters a wrapper carries, as raw numbers.
RawOut(w) == raw_seq_no(w.out_seq_no)
RawIn(w) == raw_seq_no(w.in_seq_no)
============================================================================
