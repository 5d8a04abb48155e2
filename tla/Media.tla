--------------------------------- MODULE Media ---------------------------------
(***************************************************************************)
(* What kind of file a message carries, from the sender's request to the   *)
(* export on the other side: files.py settles the kind and writes the      *)
(* attributes, ogg_tags.py reads a container to tell a voice note from     *)
(* music, media.py checks the metadata, secret_saved.py reads the saved    *)
(* attributes back.  Bytes are numbers and a lacing value below LACE ends  *)
(* a packet; a length field takes one byte.                                *)
(***************************************************************************)
EXTENDS Integers, Sequences, FiniteSetsExt, SequencesExt

CONSTANTS
  LACE,       \* 255 in the code
  Comments,   \* the comment lists an encoder may write
  Vendors     \* and the vendor strings

VARIABLES
  md_stage,   \* "asked", "settled", "described", "exported" or "refused"
  ask,        \* the caller's request and the file
  kind,       \* what resolve_kind settled on
  described,  \* the attributes sent
  shown       \* the media group the export puts the file in, and its JSON media_type
media_vars == <<md_stage, ask, kind, described, shown>>

(***************************************************************************)
(* ogg_tags.py                                                             *)
(***************************************************************************)
OpusHead == 201   OpusTags == 202
TITLE == 90   ENCODER == 91   EQUALS == 61
MUSIC_TAGS == {TITLE}
None == "none"

\* The first `wanted` packets of the stream that begins first, or None: a page
\* is [ok, first, continued, serial, lacing, body].
first_packets(pages, wanted) ==
  LET Piece(page, i) ==
        LET before == FoldLeft(+, 0, SubSeq(page.lacing, 1, i - 1))
        IN  SubSeq(page.body, before + 1, before + page.lacing[i])
      Laced(r, page) ==
        FoldLeft(LAMBDA q, i :
                   LET current == q.current \o Piece(page, i) IN
                   IF Len(q.packets) = wanted THEN q
                   ELSE IF page.lacing[i] < LACE
                   THEN [q EXCEPT !.packets = Append(@, current), !.current = <<>>,
                                  !.open = FALSE]
                   ELSE [q EXCEPT !.current = current, !.open = TRUE],
                 r, [i \in 1..Len(page.lacing) |-> i])
      Turn(r, page) ==
        IF Len(r.packets) = wanted \/ r.bad THEN r
        ELSE IF ~page.ok \/ (r.serial = 0 /\ ~page.first) THEN [r EXCEPT !.bad = TRUE]
        ELSE IF r.serial \notin {0, page.serial} THEN r
        ELSE IF page.continued # r.open THEN [r EXCEPT !.bad = TRUE]
        ELSE Laced([r EXCEPT !.serial = page.serial], page)
      end == FoldLeft(Turn, [packets |-> <<>>, current |-> <<>>, open |-> FALSE,
                             serial |-> 0, bad |-> FALSE], pages)
  IN  IF Len(end.packets) = wanted THEN end.packets ELSE <<>>

\* One length-prefixed field at a cursor; a field that runs out is bad.
Field(block, at) ==
  LET length == IF at < Len(block) THEN block[at + 1] ELSE Len(block)
      bad == length > Len(block) - at - 1
  IN  [bad |-> bad, next |-> at + 1 + length,
       value |-> IF bad THEN <<>> ELSE SubSeq(block, at + 2, at + 1 + length)]

IsMusic(field) ==
  \E n \in 1..Len(field) :
    field[n] = EQUALS /\ EQUALS \notin {field[i] : i \in 1..(n - 1)}
    /\ n = 2 /\ field[1] \in MUSIC_TAGS

\* Faulty variant: music is anything that looks like a tag, wherever it stands.
Bad_no_music_tags(block) ==
  IF \E i \in 1..(Len(block) - 1) : block[i] \in MUSIC_TAGS /\ block[i + 1] = EQUALS
  THEN "music" ELSE "voice"

\* The vendor string is no comment; the count may not promise more than is there.
no_music_tags(block) ==
  LET vendor == Field(block, 0)
      count == IF vendor.next < Len(block) THEN block[vendor.next + 1] ELSE -1
      walk[n \in 0..Len(block)] ==
        IF n = 0 THEN [bad |-> FALSE, music |-> FALSE, at |-> vendor.next + 1]
        ELSE LET r == walk[n - 1]
                 field == Field(block, r.at)
             IN  IF r.bad \/ field.bad THEN [r EXCEPT !.bad = TRUE]
                 ELSE [bad |-> FALSE, music |-> r.music \/ IsMusic(field.value),
                       at |-> field.next]
  IN  IF vendor.bad \/ count < 0 \/ count > Len(block) - vendor.next - 1 THEN None
      ELSE IF walk[count].bad THEN None
      ELSE IF walk[count].music THEN "music" ELSE "voice"

looks_like_voice(pages) ==
  LET packets == first_packets(pages, 2) IN
  IF packets = <<>> THEN None
  ELSE IF packets[1] = <<>> \/ packets[2] = <<>> THEN None
  ELSE IF packets[1][1] # OpusHead \/ packets[2][1] # OpusTags THEN None
  ELSE no_music_tags(Tail(packets[2]))

(***************************************************************************)
(* files.py: the kind and its attributes                                   *)
(***************************************************************************)
MEDIA_KINDS == {"photo", "video", "document", "audio",
                "animation", "sticker", "video_note", "voice_note"}
CAPTIONLESS_KINDS == {"sticker", "video_note"}
Unknown == "application/octet-stream"
Mimes == {"image/gif", "image/png", "video/mp4", "audio/ogg", "audio/mpeg",
          "text/plain", Unknown}
Image == {"image/gif", "image/png"}

KindNeeds(k) ==
  CASE k \in {"photo", "sticker"} -> Image
    [] k = "animation" -> {"image/gif", "video/mp4"}
    [] k \in {"video", "video_note"} -> {"video/mp4"}
    [] k = "audio" -> {"audio/ogg", "audio/mpeg"}
    [] k = "voice_note" -> {"audio/ogg"}
    [] k = "document" -> Mimes

infer_kind(mime, header) ==
  CASE mime = "image/gif" -> "animation"
    [] mime = "image/png" -> "photo"
    [] mime = "video/mp4" -> "video"
    [] mime \in {"audio/ogg", "audio/mpeg"} ->
         IF looks_like_voice(header) = "voice" THEN "voice_note" ELSE "audio"
    [] OTHER -> "document"

\* The kind, or None when it is refused.
resolve_kind(asked, mime, caption, header) ==
  LET k == IF asked = None THEN infer_kind(mime, header) ELSE asked IN
  IF \/ k \notin MEDIA_KINDS
     \/ mime # Unknown /\ mime \notin KindNeeds(k)
     \/ caption /\ k \in CAPTIONLESS_KINDS
  THEN None ELSE k

\* An attribute and the flag that tells two kinds with the same one apart.
Attribute(name, flag) == [name |-> name, flag |-> flag]
attributes_for(k, sized) ==
  <<Attribute("Filename", FALSE)>> \o
  CASE k = "photo" -> <<Attribute("ImageSize", FALSE)>>
    [] k \in {"video", "video_note"} -> <<Attribute("Video", k = "video_note")>>
    [] k \in {"audio", "voice_note"} -> <<Attribute("Audio", k = "voice_note")>>
    [] k = "animation" -> <<Attribute("Animated", FALSE)>>
    [] k = "sticker" -> <<Attribute("Sticker", FALSE)>>
    [] OTHER -> <<>>
  \o (IF sized /\ k \in {"animation", "sticker"} THEN <<Attribute("ImageSize", FALSE)>> ELSE <<>>)

\* A caption on what the forwarded attributes say is a sticker or a round video.
ForwardRefused(attributes, caption) ==
  caption /\ \E i \in DOMAIN attributes :
               \/ attributes[i].name = "Sticker"
               \/ attributes[i].name = "Video" /\ attributes[i].flag

(***************************************************************************)
(* media.py: the sender's metadata                                         *)
(***************************************************************************)
Applies(field) ==
  CASE field = "duration" -> {"video", "video_note", "audio", "voice_note"}
    [] field \in {"width", "height"} -> {"photo", "video", "video_note", "animation", "sticker"}
    [] field = "waveform" -> {"voice_note"}
    [] field \in {"title", "performer"} -> {"audio"}
    [] field = "sticker_alt" -> {"sticker"}
Fields == {"duration", "width", "height", "waveform", "title", "performer", "sticker_alt"}
Thumbnails == {"none", "without_size", "jpeg", "webp", "oversized", "flat"}

check_thumbnail(k, thumbnail) ==
  thumbnail = "none" \/ thumbnail = "jpeg" \/ (thumbnail = "webp" /\ k = "sticker")

\* bad: fields whose value has the wrong type or is out of its range.
check_metadata(k, given, bad, thumbnail) ==
  /\ \A field \in given : k \in Applies(field)
  /\ given \cap bad = {}
  /\ check_thumbnail(k, thumbnail)

(***************************************************************************)
(* secret_saved.py and tdexport/files.py: the attributes read back         *)
(***************************************************************************)
apply_attributes(attributes) ==
  {CASE a.name = "Animated" -> "is_animated"
     [] a.name = "Sticker" -> "is_sticker"
     [] a.name = "Video" -> IF a.flag THEN "is_video_message" ELSE "is_video_file"
     [] a.name = "Audio" -> IF a.flag THEN "is_voice_message" ELSE "is_audio_file"
     [] OTHER -> "plain" : a \in ToSet(attributes)}

document_media_type(flags) ==
  CASE "is_sticker" \in flags -> "Sticker"
    [] "is_video_message" \in flags -> "VideoMessage"
    [] "is_voice_message" \in flags -> "VoiceMessage"
    [] "is_animated" \in flags -> "GIF"
    [] "is_video_file" \in flags -> "Video"
    [] OTHER -> "File"

\* _push_document.
media_type(flags) ==
  CASE "is_sticker" \in flags -> "sticker"
    [] "is_video_message" \in flags -> "video_message"
    [] "is_voice_message" \in flags -> "voice_message"
    [] "is_animated" \in flags -> "animation"
    [] "is_video_file" \in flags -> "video_file"
    [] "is_audio_file" \in flags -> "audio_file"
    [] OTHER -> None

(***************************************************************************)
(* A container as an encoder writes it: two packets, laced and cut into    *)
(* pages anywhere, with a page of another stream among them.               *)
(***************************************************************************)
FieldOf(text) == <<Len(text)>> \o text
TagsPacket(vendor, comments) ==
  <<OpusTags>> \o FieldOf(vendor) \o <<Len(comments)>>
  \o FoldLeft(\o, <<>>, [i \in DOMAIN comments |-> FieldOf(comments[i])])
LacingOf(packet) ==
  [i \in 1..(Len(packet) \div LACE + 1) |->
     IF i <= Len(packet) \div LACE THEN LACE ELSE Len(packet) % LACE]

\* The page of lacing values lo..hi of a stream.
PageOf(lacing, bytes, lo, hi) ==
  LET Upto(n) == FoldLeft(+, 0, SubSeq(lacing, 1, n))
  IN  [ok |-> TRUE, first |-> lo = 1, continued |-> lo > 1 /\ lacing[lo - 1] = LACE,
       serial |-> 1, lacing |-> SubSeq(lacing, lo, hi),
       body |-> SubSeq(bytes, Upto(lo - 1) + 1, Upto(hi))]
OtherPage == [ok |-> TRUE, first |-> TRUE, continued |-> FALSE, serial |-> 2,
              lacing |-> <<1>>, body |-> <<TITLE>>]

\* Cut into pages after the first packet and behind lacing value `cut`.
Muxed(vendor, comments, cut, other) ==
  LET packet == TagsPacket(vendor, comments)
      lacing == <<1>> \o LacingOf(packet)
      bytes == <<OpusHead>> \o packet
      last == Len(lacing)
  IN  <<PageOf(lacing, bytes, 1, 1)>> \o (IF other THEN <<OtherPage>> ELSE <<>>)
      \o (IF cut \in 2..(last - 1)
          THEN <<PageOf(lacing, bytes, 2, cut), PageOf(lacing, bytes, cut + 1, last)>>
          ELSE <<PageOf(lacing, bytes, 2, last)>>)

(***************************************************************************)
(* From the request to the export                                          *)
(***************************************************************************)
MediaInit ==
  /\ md_stage = "asked"
  /\ \E vendor \in Vendors, comments \in Comments, cut \in 2..6, other, caption \in BOOLEAN,
        mime \in Mimes, asked \in MEDIA_KINDS \cup {None}, peeked \in 1..4 :
       /\ \/ mime \in {"audio/ogg", "audio/mpeg"} /\ asked = None
          \/ vendor = <<>> /\ comments = <<>> /\ cut = 2 /\ ~other /\ peeked = 4
       /\ ask = [pages |-> Muxed(vendor, comments, cut, other), comments |-> comments,
                 mime |-> mime, kind |-> asked, caption |-> caption, peeked |-> peeked]
  /\ kind = None /\ described = <<>> /\ shown = None

\* Source.peek reads the head only.
Peeked == SubSeq(ask.pages, 1, Min({ask.peeked, Len(ask.pages)}))

ResolveKind ==
  /\ md_stage = "asked"
  /\ kind' = resolve_kind(ask.kind, ask.mime, ask.caption, Peeked)
  /\ md_stage' = IF kind' = None THEN "refused" ELSE "settled"
  /\ UNCHANGED <<ask, described, shown>>

DescribeFile ==
  /\ md_stage = "settled"
  /\ \E given \in {g \in SUBSET Fields : Cardinality(g) <= 2}, bad \in {{}, {"width"}},
        thumbnail \in Thumbnails :
       IF check_metadata(kind, given, bad, thumbnail)
       THEN /\ described' = attributes_for(kind, given \cap {"width", "height"} # {})
            /\ md_stage' = "described"
       ELSE /\ md_stage' = "refused"
            /\ UNCHANGED described
  /\ UNCHANGED <<ask, kind, shown>>

\* The receiver may send it on, with a caption of its own, before it exports.
ExportFile ==
  /\ md_stage = "described"
  /\ \E caption \in BOOLEAN :
       IF ForwardRefused(described, caption)
       THEN md_stage' = "refused" /\ UNCHANGED shown
       ELSE /\ LET flags == apply_attributes(described)
                IN  shown' = [group |-> document_media_type(flags), type |-> media_type(flags)]
            /\ md_stage' = "exported"
  /\ UNCHANGED <<ask, kind, described>>

MediaNext == ResolveKind \/ DescribeFile \/ ExportFile
MediaSpec == MediaInit /\ [][MediaNext]_media_vars

\* The kinds the request and the file allow: the one asked for, or what the file
\* is; a head that ends too early leaves an audio file music.
Meant ==
  IF ask.kind # None THEN {ask.kind}
  ELSE CASE ask.mime = "image/gif" -> {"animation"}
         [] ask.mime = "image/png" -> {"photo"}
         [] ask.mime = "video/mp4" -> {"video"}
         [] ask.mime \in {"audio/ogg", "audio/mpeg"} ->
              (IF \E i \in DOMAIN ask.comments : IsMusic(ask.comments[i])
               THEN {"audio"} ELSE {"voice_note"})
              \cup (IF ask.peeked < Len(ask.pages) THEN {"audio"} ELSE {})
         [] OTHER -> {"document"}

(***************************************************************************)
(* A file is exported in the group, and under the media_type, of the kind  *)
(* that was asked for, or that it is by its type and its comment block,    *)
(* whatever text stands in the block's other fields and however the        *)
(* container is cut into pages (ogg_tags.py, files.py resolve_kind and     *)
(* attributes_for, secret_saved.py).  The two have no word that tells a    *)
(* photo from a document.                                                  *)
(***************************************************************************)
KindIsKept ==
  md_stage = "exported" =>
    \E k \in Meant :
      <<shown.group, shown.type>> =
        CASE k = "sticker" -> <<"Sticker", "sticker">>
          [] k = "video_note" -> <<"VideoMessage", "video_message">>
          [] k = "voice_note" -> <<"VoiceMessage", "voice_message">>
          [] k = "animation" -> <<"GIF", "animation">>
          [] k = "video" -> <<"Video", "video_file">>
          [] k = "audio" -> <<"File", "audio_file">>
          [] k \in {"photo", "document"} -> <<"File", None>>
===============================================================================
