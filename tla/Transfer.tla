------------------------------- MODULE Transfer -------------------------------
(***************************************************************************)
(* An encrypted file from one chat to a path on the other side (files.py): *)
(* the upload reads the source in parts while other programs may change    *)
(* it, the message carries the key and the size, and a receiver saves the  *)
(* download through a temporary file.  A file can be forwarded by its      *)
(* handle, and received from a reference kept by the application           *)
(* (media.py).  Bytes are letters, a block is FILE_BLOCK of them.          *)
(***************************************************************************)
EXTENDS Integers, Sequences, FiniteSetsExt, SequencesExt

CONSTANTS
  Sources,      \* what the sender's file may hold
  Part,         \* bytes of one part of an upload
  FILE_BLOCK,   \* 16 in the code
  CHUNK,        \* 64 KiB in the code: a multiple of the block
  Savers,       \* the receives under way
  MemoryLimit,  \* limits.bytes of a mode that receives into memory
  IntSizeLimit, \* 2^31 in the code: sizes the old document cannot carry
  MaxRewrites   \* times another program changes a file under a reader

ASSUME TransferAssumption ==
  Part \in Nat \ {0} /\ FILE_BLOCK \in Nat \ {0} /\ CHUNK % FILE_BLOCK = 0

VARIABLES
  file,      \* the sender's file, as it is now
  upload,    \* send_file: its step, reader and what the server has of it
  stored,    \* id -> ciphertext the server holds
  letters,   \* the messages with a file that the peer has
  layer_old, \* the peer's layer has no size:long
  chat_open, \* the sender's chat is still the one send_file was given
  saver,     \* receive() by receiver
  target,    \* the file at the path both receivers write
  rewrites   \* changes so far
file_vars == <<file, upload, stored, letters, layer_old, chat_open, saver, target, rewrites>>

(***************************************************************************)
(* _Ige.  Block n of a stream depends on the key and on all plain blocks up*)
(* to it: a cipher block is that key and prefix, a cipher byte its place   *)
(* in the block.  The chain is the prefix deciphered or enciphered so far. *)
(***************************************************************************)
NewIge(key) == [key |-> key, chain |-> <<>>]
Blocks(bytes) ==
  [n \in 1..(Len(bytes) \div FILE_BLOCK) |->
     SubSeq(bytes, (n - 1) * FILE_BLOCK + 1, n * FILE_BLOCK)]
Whole(bytes) == Len(bytes) - (Len(bytes) % FILE_BLOCK)

EncryptBlock(ige, plain) ==
  [i \in 1..FILE_BLOCK |-> [key |-> ige.key, upto |-> Append(ige.chain, plain), at |-> i]]

Encrypt(ige, plain) ==
  FoldLeft(LAMBDA r, block :
             [ige |-> [r.ige EXCEPT !.chain = Append(@, block)],
              out |-> r.out \o EncryptBlock(r.ige, block)],
           [ige |-> ige, out |-> <<>>], Blocks(plain))

Noise == [i \in 1..FILE_BLOCK |-> "?"]

\* What a cipher block deciphers to: noise, unless the chain before it is right.
DecryptBlock(ige, cipher) ==
  LET plain == Last(cipher[1].upto)
  IN  IF cipher = EncryptBlock(ige, plain) THEN plain ELSE Noise

Decrypt(ige, cipher) ==
  FoldLeft(LAMBDA r, block :
             LET plain == DecryptBlock(r.ige, block)
             IN  [ige |-> [r.ige EXCEPT !.chain = Append(@, plain)], out |-> r.out \o plain],
           [ige |-> ige, out |-> <<>>], Blocks(cipher))

PaddingOf(size) == [i \in 1..((0 - size) % FILE_BLOCK) |-> "p"]

(***************************************************************************)
(* EncryptingReader.  read(Part) goes on until it has a part or has given  *)
(* everything; a source that ends before the size it declared is an error. *)
(***************************************************************************)
NewReader(key, size) ==
  [size |-> size, left |-> size, padded |-> FALSE, ige |-> NewIge(key),
   plain |-> <<>>, ready |-> <<>>, taken |-> <<>>, failed |-> FALSE]

\* One turn of the loop of read().
Fill(r) ==
  LET wanted == Min({CHUNK, r.left})
      piece == SubSeq(file, Len(r.taken) + 1, Min({Len(file), Len(r.taken) + wanted}))
      left == r.left - Len(piece)
      plain == r.plain \o piece \o (IF left = 0 THEN PaddingOf(r.size) ELSE <<>>)
      done == Encrypt(r.ige, SubSeq(plain, 1, Whole(plain)))
  IN  IF r.left > 0 /\ piece = <<>>
      THEN [r EXCEPT !.failed = TRUE]
      ELSE [r EXCEPT !.left = left, !.padded = left = 0, !.taken = @ \o piece,
                     !.ige = done.ige, !.ready = @ \o done.out,
                     !.plain = SubSeq(plain, Whole(plain) + 1, Len(plain))]

ReadPart(reader) ==
  LET turn[n \in 0..(reader.size + 1)] ==
        IF n = 0 THEN reader
        ELSE LET r == turn[n - 1] IN
             IF r.failed \/ Len(r.ready) >= Part \/ r.padded THEN r ELSE Fill(r)
      end == turn[reader.size + 1]
      given == Min({Part, Len(end.ready)})
  IN  [out |-> SubSeq(end.ready, 1, given),
       reader |-> [end EXCEPT !.ready = SubSeq(@, given + 1, Len(@))]]

PaddedSize(size) == size + Len(PaddingOf(size))

(***************************************************************************)
(* send                                                                    *)
(***************************************************************************)
file_fingerprint(key) == key

\* The file is opened, its size taken, and the key drawn.
SendFile ==
  /\ upload.step = "idle"
  /\ LET refused == layer_old /\ Len(file) >= IntSizeLimit
     IN  upload' = [step |-> IF refused THEN "failed" ELSE "reading",
                    reader |-> NewReader("key", Len(file)), sent |-> <<>>]
  /\ UNCHANGED <<file, stored, letters, layer_old, chat_open, saver, target, rewrites>>

\* upload_file asks for a part and puts it on the server, until it has them all.
UploadPart ==
  /\ upload.step = "reading"
  /\ LET part == ReadPart(upload.reader)
         sent == upload.sent \o part.out
     IN  upload' = [step |-> CASE part.reader.failed -> "failed"
                               [] Len(sent) >= PaddedSize(part.reader.size) -> "uploaded"
                               [] OTHER -> "reading",
                    reader |-> part.reader, sent |-> sent]
  /\ UNCHANGED <<file, stored, letters, layer_old, chat_open, saver, target, rewrites>>

\* The document the layer knows; the server's handle rides outside of it.
DocumentFor(narrow, size, key) == [key |-> key, size |-> size, narrow |-> narrow]
KeyOf(id) == IF id = "new" THEN "key" ELSE "key0"
Letter(document, id, plain) ==
  [media |-> document, id |-> id, fingerprint |-> file_fingerprint(KeyOf(id)),
   plain |-> plain]

\* Under the chat's lock again, which the upload ran without.  The server may
\* hand the message on with the handle of another file.
SendUploaded ==
  /\ upload.step = "uploaded"
  /\ IF ~chat_open
     THEN upload' = [upload EXCEPT !.step = "failed"] /\ UNCHANGED <<stored, letters>>
     ELSE /\ upload' = [upload EXCEPT !.step = "sent"]
          /\ stored' = [stored EXCEPT !["new"] = upload.sent]
          /\ \E attached \in {"new", "old"} :
               letters' = letters \cup
                 {Letter(DocumentFor(layer_old, upload.reader.size, upload.reader.ige.key),
                         attached, upload.reader.taken)}
  /\ UNCHANGED <<file, layer_old, chat_open, saver, target, rewrites>>

\* The media and the handle of a message or a reference, or a refusal.
file_of(letter) == letter.fingerprint = file_fingerprint(letter.media.key)

\* A letter goes on, to this chat or to another of either layer, with its own key and
\* handle: nothing is read or uploaded, and a document once made narrow stays so.
Forward ==
  /\ \E l \in letters, narrow \in BOOLEAN :
       /\ file_of(l)
       /\ ~(narrow /\ l.media.size >= IntSizeLimit)
       /\ letters' = letters \cup {[l EXCEPT !.media.narrow = @ \/ narrow]}
  /\ UNCHANGED <<file, upload, stored, layer_old, chat_open, saver, target, rewrites>>

(***************************************************************************)
(* receive                                                                 *)
(***************************************************************************)
Ashore == [step |-> "idle", letter |-> {}, down |-> <<>>, pos |-> 0, total |-> 0,
           pending |-> <<>>, left |-> 0, ige |-> NewIge("none"), out |-> <<>>]
Beforehand == <<"untouched">>

\* What a kept reference may have suffered in the application's hands; one that
\* is not whole is refused when it is read back (MediaReference.from_dict).
Damages == {"none", "version", "field", "media", "fingerprint"}
from_dict(reference, damage) ==
  damage = "none" /\ reference.fingerprint = file_fingerprint(reference.media.key)

UpToTransfer == <<file, upload, stored, letters, layer_old, chat_open>>

ReceiveFile(s) ==
  /\ saver[s].step = "idle"
  /\ \E l \in letters, damage \in Damages :
       saver' = [saver EXCEPT ![s].letter = {l},
                   ![s].step = IF file_of(l) /\ from_dict(l, damage)
                               THEN "downloading" ELSE "refused"]
  /\ UNCHANGED <<UpToTransfer, target, rewrites>>

LetterOf(s) == CHOOSE l \in saver[s].letter : TRUE

\* The ciphertext goes to an unnamed file, a part at a time, or the call fails.
DownloadPart(s) ==
  /\ saver[s].step = "downloading"
  /\ LET cipher == stored[LetterOf(s).id]
         got == Len(saver[s].down)
     IN  \/ /\ got < Len(cipher)
            /\ saver' = [saver EXCEPT ![s].down =
                           @ \o SubSeq(cipher, got + 1, Min({got + Part, Len(cipher)}))]
         \/ /\ got = Len(cipher)
            /\ saver' = [saver EXCEPT ![s].step = "downloaded"]
         \/ saver' = [saver EXCEPT ![s].step = "refused"]
  /\ UNCHANGED <<UpToTransfer, target, rewrites>>

check_lengths(total, size) ==
  total % FILE_BLOCK = 0 /\ total - size \in 0..(FILE_BLOCK - 1)

\* save() refuses before it has created anything, or opens its temporary file.
SaveBegins(s) ==
  /\ saver[s].step = "downloaded"
  /\ LET l == LetterOf(s) IN
     saver' =
       IF file_of(l) /\ check_lengths(Len(saver[s].down), l.media.size)
       THEN [saver EXCEPT ![s].step = "writing", ![s].left = l.media.size,
                          ![s].ige = NewIge(l.media.key)]
       ELSE [saver EXCEPT ![s].step = "refused"]
  /\ UNCHANGED <<UpToTransfer, target, rewrites>>

\* decrypt_stream takes one piece: the whole blocks at hand, up to the size.
Deciphered(r, piece) ==
  LET bytes == r.pending \o piece
      whole == Whole(bytes)
      done == Decrypt(r.ige, SubSeq(bytes, 1, whole))
      given == Min({r.left, Len(done.out)})
      moved == [r EXCEPT !.pos = @ + Len(piece), !.total = @ + Len(piece),
                         !.pending = SubSeq(bytes, whole + 1, Len(bytes))]
  IN  IF whole > 0 /\ r.left > 0
      THEN [moved EXCEPT !.ige = done.ige, !.left = @ - given,
                         !.out = @ \o SubSeq(done.out, 1, given)]
      ELSE moved

\* Faulty variant: every piece is deciphered from the first IV again.
Bad_WritePiece(s) ==
  /\ saver[s].step = "writing"
  /\ LET r == saver[s]
         piece == SubSeq(r.down, r.pos + 1, Min({r.pos + CHUNK, Len(r.down)}))
     IN  saver' = [saver EXCEPT ![s] =
           IF piece # <<>>
           THEN [Deciphered(r, piece) EXCEPT !.ige = NewIge(LetterOf(s).media.key)]
           ELSE [r EXCEPT !.step = IF check_lengths(r.total, LetterOf(s).media.size)
                                   THEN "replacing" ELSE "refused"]]
  /\ UNCHANGED <<UpToTransfer, target, rewrites>>

\* At the end of the stream its length is checked again, then comes the fsync.
WritePiece(s) ==
  /\ saver[s].step = "writing"
  /\ LET r == saver[s]
         piece == SubSeq(r.down, r.pos + 1, Min({r.pos + CHUNK, Len(r.down)}))
     IN  saver' = [saver EXCEPT ![s] =
           IF piece # <<>> THEN Deciphered(r, piece)
           ELSE [r EXCEPT !.step = IF check_lengths(r.total, LetterOf(s).media.size)
                                   THEN "replacing" ELSE "refused"]]
  /\ UNCHANGED <<UpToTransfer, target, rewrites>>

Replace(s) ==
  /\ saver[s].step = "replacing"
  /\ target' = saver[s].out
  /\ saver' = [saver EXCEPT ![s].step = "done"]
  /\ UNCHANGED <<UpToTransfer, rewrites>>

\* A write, the fsync or the replacement fails: the temporary file goes.
SaveFails(s) ==
  /\ saver[s].step \in {"writing", "replacing"}
  /\ saver' = [saver EXCEPT ![s].step = "refused"]
  /\ UNCHANGED <<UpToTransfer, target, rewrites>>

(***************************************************************************)
(* receive_file of the transient mode: into memory, under a ceiling of the *)
(* padded size, and out as bytes; the call fails if the chat has gone.     *)
(***************************************************************************)
ReceiveInMemory(s) ==
  /\ saver[s].step = "idle"
  /\ \E l \in letters :
       saver' = [saver EXCEPT ![s].letter = {l},
                   ![s].step = IF file_of(l) /\ PaddedSize(l.media.size) * 4 <= MemoryLimit
                               THEN "buffering" ELSE "refused"]
  /\ UNCHANGED <<UpToTransfer, target, rewrites>>

\* decrypt_file: the lengths first, then the whole of it in one piece.
decrypt_file(r, l) ==
  IF check_lengths(Len(r.down), l.media.size)
  THEN [Deciphered([r EXCEPT !.left = l.media.size, !.ige = NewIge(l.media.key)], r.down)
          EXCEPT !.step = "returned"]
  ELSE [r EXCEPT !.step = "refused"]

BufferPart(s) ==
  /\ saver[s].step = "buffering"
  /\ LET l == LetterOf(s)
         cipher == stored[l.id]
         got == Len(saver[s].down)
         part == SubSeq(cipher, got + 1, Min({got + Part, Len(cipher)}))
     IN  saver' \in
           {[saver EXCEPT ![s] =
               IF part = <<>> THEN decrypt_file(saver[s], l)
               ELSE IF got + Len(part) > PaddedSize(l.media.size)
               THEN [saver[s] EXCEPT !.step = "refused"]
               ELSE [saver[s] EXCEPT !.down = @ \o part]],
            [saver EXCEPT ![s].step = "refused"]}
  /\ UNCHANGED <<UpToTransfer, target, rewrites>>

(***************************************************************************)
(* What goes on around: other programs, the chat, a crash of the receiver. *)
(***************************************************************************)
RewriteSource ==
  /\ rewrites < MaxRewrites /\ upload.step = "reading"
  /\ file' \in {Front(file), Append(file, "z"), [file EXCEPT ![Len(file)] = "z"]}
  /\ rewrites' = rewrites + 1
  /\ UNCHANGED <<upload, stored, letters, layer_old, chat_open, saver, target>>

ShrinkDownload(s) ==
  /\ rewrites < MaxRewrites /\ saver[s].step \in {"downloaded", "writing"}
  /\ saver[s].pos < Len(saver[s].down)
  /\ saver' = [saver EXCEPT ![s].down = Front(@)]
  /\ rewrites' = rewrites + 1
  /\ UNCHANGED <<UpToTransfer, target>>

ChatMovesOn ==
  /\ chat_open /\ chat_open' = FALSE
  /\ UNCHANGED <<file, upload, stored, letters, layer_old, saver, target, rewrites>>

UnderWay == {"downloading", "downloaded", "writing", "replacing", "buffering"}
ReceiverDies ==
  /\ \E s \in Savers : saver[s].step \in UnderWay
  /\ saver' = [s \in Savers |-> IF saver[s].step \notin UnderWay
                                THEN saver[s] ELSE [Ashore EXCEPT !.step = "dead"]]
  /\ UNCHANGED <<UpToTransfer, target, rewrites>>

\* An older file is on the server, and its message with the peer.
OldPlain == <<"o", "l">>
FileInit ==
  /\ file \in Sources
  /\ upload = [step |-> "idle", reader |-> NewReader("none", 0), sent |-> <<>>]
  /\ stored = [id \in {"old", "new"} |->
                 IF id = "old"
                 THEN Encrypt(NewIge("key0"), OldPlain \o PaddingOf(Len(OldPlain))).out
                 ELSE <<>>]
  /\ letters = {Letter(DocumentFor(TRUE, Len(OldPlain), "key0"), "old", OldPlain)}
  /\ layer_old \in BOOLEAN /\ chat_open = TRUE
  /\ saver = [s \in Savers |-> Ashore]
  /\ target = Beforehand /\ rewrites = 0

FileNext ==
  \/ SendFile \/ UploadPart \/ SendUploaded \/ Forward
  \/ \E s \in Savers :
       \/ ReceiveFile(s) \/ DownloadPart(s) \/ SaveBegins(s) \/ WritePiece(s)
       \/ Replace(s) \/ SaveFails(s) \/ ShrinkDownload(s)
       \/ ReceiveInMemory(s) \/ BufferPart(s)
  \/ RewriteSource \/ ChatMovesOn \/ ReceiverDies

FileSpec == FileInit /\ [][FileNext]_file_vars

(***************************************************************************)
(* A path holds what it held before, or all the bytes that the sender's    *)
(* reader took from its file, in the number it announced; of a file whose  *)
(* key does not belong to it nothing reaches the disk.  This holds however *)
(* the source and the download change while they are read, and wherever a  *)
(* receive ends (files.py EncryptingReader, decrypt_stream, save).         *)
(***************************************************************************)
SavedIsSent ==
  /\ \A s \in Savers :
       /\ saver[s].step \in {"writing", "replacing", "done", "returned"} => file_of(LetterOf(s))
       /\ saver[s].step \in {"done", "returned"} =>
            /\ saver[s].out = LetterOf(s).plain
            /\ Len(saver[s].out) = LetterOf(s).media.size
  /\ target = Beforehand \/ \E s \in Savers : saver[s].step = "done" /\ target = saver[s].out
=============================================================================
