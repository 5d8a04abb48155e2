----------------------------- MODULE MessageFrame -----------------------------
(***************************************************************************)
(* The encrypted frame of a message (crypto.py) and the body inside it     *)
(* (framing.py unwrap), counted in words of four bytes, so that the        *)
(* numbers of the protocol keep their proportions.  Hashes are injective:  *)
(* a digest is the tuple of what it is taken over.                         *)
(***************************************************************************)
EXTENDS Integers, Sequences

CONSTANTS
  FrameKeys,   \* the shared keys of a chat: the current and the previous one
  MaxBody,     \* words of the longest body
  MaxBlocks    \* cipher blocks of the longest frame of another implementation

VARIABLES
  fr_stage,    \* "composed", "sealed", "sent", "opened"
  fr_from,     \* the side that seals
  fr_body,     \* the body it seals: kind and length
  frame,       \* the frame
  fr_reader,   \* side and key it is opened with
  fr_result    \* what opening it gave
frame_vars == <<fr_stage, fr_from, fr_body, frame, fr_reader, fr_result>>

PREFIX == 1        \* the length in front of the body
BLOCK_WORDS == 4
MIN_PADDING == 3

\* The originator's messages have x = 0.
out_x(side) == IF side = "originator" THEN 0 ELSE 8
in_x(side) == IF side = "originator" THEN 8 ELSE 0

\* What a body may be for the parser; the reader of it is framing.unwrap.
BodyKinds == {"message", "broken_inner", "bare", "old_layer"}
Words(kind, n) == [i \in 1..n |-> <<kind, i>>]
Total(payload) == PREFIX + Len(payload.words)

(***************************************************************************)
(* crypto.py                                                               *)
(***************************************************************************)
key_fingerprint(key) == key
compute_msg_key(key, payload, x) == [key |-> key, x |-> x, payload |-> payload]
derive_keys(key, msg_key, x) == [key |-> key, x |-> x, msg_key |-> msg_key]

Up(n, block) == n + ((-n) % block)

\* Faulty variant: the minimum is added to a length already rounded.
Bad_pad_payload(body) ==
  LET length == MIN_PADDING + ((-(PREFIX + Len(body))) % BLOCK_WORDS)
  IN  [declared |-> Len(body), words |-> body \o Words("padding", length)]

\* The shortest padding of MIN_PADDING or more that fills a block.
pad_payload(body) ==
  LET plain == PREFIX + Len(body)
      length == Up(plain + MIN_PADDING, BLOCK_WORDS) - plain
  IN  [declared |-> Len(body), words |-> body \o Words("padding", length)]

Sealed(key, payload, x) ==
  LET msg_key == compute_msg_key(key, payload, x)
  IN  [fingerprint |-> key_fingerprint(key), msg_key |-> msg_key,
       under |-> derive_keys(key, msg_key, x), payload |-> payload,
       length |-> Total(payload), flipped |-> FALSE]

encrypt_frame(key, body, x) == Sealed(key, pad_payload(body), x)

\* IGE: a piece that is cut off leaves the blocks before it readable, and a
\* changed block, or another key, spoils the whole of what this model reads.
decrypt_ige(f, keys) ==
  IF f.under = keys /\ ~f.flipped
  THEN [declared |-> f.payload.declared, words |-> SubSeq(f.payload.words, 1, f.length - PREFIX)]
  ELSE [declared |-> 0, words |-> Words("noise", f.length - PREFIX)]

Refused == [ok |-> FALSE, body |-> <<>>]

\* The checks in their order: size, fingerprint, blocks, digest, length, padding.
decrypt_frame(key, f, x) ==
  LET plain == decrypt_ige(f, derive_keys(key, f.msg_key, x)) IN
  IF \/ f.length < BLOCK_WORDS
     \/ f.fingerprint # key_fingerprint(key)
     \/ f.length % BLOCK_WORDS # 0
     \/ compute_msg_key(key, plain, x) # f.msg_key
     \/ plain.declared > Total(plain) - PREFIX
     \/ Total(plain) - PREFIX - plain.declared < MIN_PADDING
  THEN Refused
  ELSE [ok |-> TRUE, body |-> SubSeq(plain.words, 1, plain.declared)]

(***************************************************************************)
(* framing.py: a body opens with a whole wrapper header, or does not; what *)
(* is behind a header and can not be read ends the chat, and a body without*)
(* one is refused, and the chat goes on.                                   *)
(***************************************************************************)
KindOf(body) ==
  IF \E k \in BodyKinds : \E n \in 1..MaxBody : body = Words(k, n)
  THEN body[1][1] ELSE "broken_inner"

header_parses(body) == Len(body) > 0 /\ body[1][1] \in {"message", "broken_inner", "old_layer"}

unwrap(body) ==
  CASE KindOf(body) = "message" -> "taken"
    [] KindOf(body) = "broken_inner" -> IF header_parses(body) THEN "fatal" ELSE "refused"
    [] KindOf(body) \in {"bare", "old_layer"} -> "refused"

(***************************************************************************)
(* A frame from its sender to one reader.  The sender is this package, or  *)
(* another implementation that pads and declares what it likes.            *)
(***************************************************************************)
FrameInit ==
  /\ fr_stage = "composed"
  /\ fr_from \in {"originator", "other"}
  /\ fr_body \in [kind : BodyKinds, len : 1..MaxBody]
  /\ frame = Refused /\ fr_reader = <<>> /\ fr_result = Refused

Seal ==
  /\ fr_stage = "composed"
  /\ \E key \in FrameKeys :
       frame' = encrypt_frame(key, Words(fr_body.kind, fr_body.len), out_x(fr_from))
  /\ fr_stage' = "sealed"
  /\ UNCHANGED <<fr_from, fr_body, fr_reader, fr_result>>

\* Whole blocks, with a padding of any length and any number in front.
SealElsewhere ==
  /\ fr_stage = "composed"
  /\ \E key \in FrameKeys, blocks \in 1..MaxBlocks :
       LET room == blocks * BLOCK_WORDS - PREFIX IN
       \E declared \in 0..(room + PREFIX) :
         /\ fr_body.len <= room
         /\ frame' = Sealed(key,
              [declared |-> declared,
               words |-> Words(fr_body.kind, fr_body.len) \o Words("padding", room - fr_body.len)],
              out_x(fr_from))
  /\ fr_stage' = "sealed"
  /\ UNCHANGED <<fr_from, fr_body, fr_reader, fr_result>>

\* On the way a frame may lose its end, or have a block changed.
Carry ==
  /\ fr_stage = "sealed"
  /\ frame' \in {frame, [frame EXCEPT !.flipped = TRUE]}
                \cup {[frame EXCEPT !.length = n] : n \in 1..(frame.length - 1)}
  /\ fr_stage' = "sent"
  /\ UNCHANGED <<fr_from, fr_body, fr_reader, fr_result>>

Open_frame ==
  /\ fr_stage = "sent"
  /\ \E side \in {"originator", "other"}, key \in FrameKeys :
       /\ fr_reader' = <<side, key>>
       /\ fr_result' = decrypt_frame(key, frame, in_x(side))
  /\ fr_stage' = "opened"
  /\ UNCHANGED <<fr_from, fr_body, frame>>

FrameNext == Seal \/ SealElsewhere \/ Carry \/ Open_frame
FrameSpec == FrameInit /\ [][FrameNext]_frame_vars

(***************************************************************************)
(* A frame of this package that arrives whole opens for the other side, and*)
(* gives the body that was sealed; what opens at all came whole, from the  *)
(* other side, under that key, with a length inside it and the padding the *)
(* protocol asks for (crypto.py encrypt_frame and decrypt_frame).          *)
(***************************************************************************)
OpensAsSealed ==
  fr_stage = "opened" =>
    LET whole == ~frame.flipped /\ frame.length = Total(frame.payload)
        meant == fr_reader[1] # fr_from /\ fr_reader[2] = frame.fingerprint
        body == Words(fr_body.kind, fr_body.len)
    IN  /\ frame.payload = pad_payload(body) /\ whole /\ meant =>
             fr_result = [ok |-> TRUE, body |-> body]
        /\ fr_result.ok =>
             /\ whole /\ meant
             /\ Len(fr_result.body) = frame.payload.declared
             /\ Len(frame.payload.words) - Len(fr_result.body) >= MIN_PADDING
        /\ fr_result.ok /\ fr_result.body = body /\ fr_body.kind = "message" =>
             unwrap(fr_result.body) = "taken"
=============================================================================
