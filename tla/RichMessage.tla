----------------------------- MODULE RichMessage ----------------------------
(***************************************************************************)
(* One rich message of an export: parsed and, if the server gave only part *)
(* of it, read whole (model_rich_parse.py, fetch.py); its emoji and files  *)
(* loaded (fetch_files.py); and written by both writers (html_rich*.py,    *)
(* json_rich.py).                                                          *)
(*                                                                         *)
(* A text is [t, c, o, v, n]: its type, its children, the old children of  *)
(* a diff, its word, name, target, emoji or document, and a number that    *)
(* tells an anchor from the others (id() in the code).  "bold" stands for  *)
(* the types that only wrap, "fragment" is a url whose target begins with  *)
(* #.  A block has the same fields whatever its kind.  What is written is  *)
(* a sequence of tokens: words, links, anchors, files, emoji, and "other"  *)
(* for anything else a reader sees; layout and attributes are left out.    *)
(***************************************************************************)
EXTENDS Naturals, Sequences, FiniteSets, SequencesExt

CONSTANTS
  RichMessages,  \* [blocks, photos, documents, thumbs (of which documents), part]: part
                 \* says that the server first gave only some of it
  ButtonActions, \* the button types this code knows
  SafeTargets,   \* urls and plain targets that pass html_safe.py
  RichEmoji,     \* the custom emoji of the messages, each used once
  TargetMax      \* RICH_TARGET_MAX_BYTES, in words

VARIABLES
  rm_stage,
  rm_sent,    \* the whole message, as its author sent it
  rich,       \* message.rich_message
  rm_anchors, \* collect_anchors of it
  rm_files,   \* each file of it -> "new", "path" or why it has none
  rm_emoji,   \* custom_emoji_data: each emoji -> "id", "path", "odd_path" (no safe
              \* link), "unavailable" or ""
  rm_work,    \* the files still to load
  rm_html, rm_json
rich_vars == <<rm_stage, rm_sent, rich, rm_anchors, rm_files, rm_emoji, rm_work, rm_html, rm_json>>

\* What f gives for each of a sequence, one after the other.
ForEach(f(_), seq) == FlattenSeq([i \in DOMAIN seq |-> f(seq[i])])

(***************************************************************************)
(* Parsing                                                                 *)
(***************************************************************************)
Empty == [t |-> "empty", c |-> <<>>, o |-> <<>>, v |-> "", n |-> 0]
parse_inline_button_action(button) == button.v \in ButtonActions

\* An unknown button inside a text leaves its label, an unknown text nothing.
RECURSIVE parse_rich_text(_)
parse_rich_text(text) ==
  LET each(texts) == [i \in DOMAIN texts |-> parse_rich_text(texts[i])]
  IN CASE text.t = "unknown" -> Empty
       [] text.t = "button" /\ ~parse_inline_button_action(text) -> parse_rich_text(text.c[1])
       [] OTHER -> [text EXCEPT !.c = each(text.c), !.o = each(text.o)]

parse_text_item(item) == [item EXCEPT !.text = parse_rich_text(item.text)]
\* A row has only the buttons that are known.
parse_button_row(row) ==
  LET known == SelectSeq(row, LAMBDA item : parse_inline_button_action(item.text))
  IN [i \in DOMAIN known |-> parse_text_item(known[i])]

parse_rich_caption(caption) ==
  [text |-> parse_rich_text(caption.text), credit |-> parse_rich_text(caption.credit)]

TextBlocks == {"heading", "paragraph", "author_date", "code"}
DocumentBlocks == {"video", "audio", "file"}
GroupBlocks == {"collage", "slideshow"}
MediaBlocks == {"photo", "embed", "embed_post", "map"} \cup DocumentBlocks \cup GroupBlocks
StructureBlocks == {"list", "quote", "table", "details", "related", "button_row"}
NoBlock ==
  [kind |-> "unknown", content |-> "text", text |-> Empty, note |-> Empty,
   caption |-> [text |-> Empty, credit |-> Empty], blocks |-> <<>>, items |-> <<>>,
   media |-> "", url |-> "", name |-> "", n |-> 0, open |-> FALSE]
\* An item is of a list, a cell of a table, a button or a related article.
NoItem == [content |-> "text", text |-> Empty, blocks |-> <<>>,
           media |-> "", url |-> "", description |-> ""]

RECURSIVE parse_rich_block(_)
parse_rich_blocks(blocks) == [i \in DOMAIN blocks |-> parse_rich_block(blocks[i])]
parse_list_item(item) ==
  IF item.content = "blocks" THEN [item EXCEPT !.blocks = parse_rich_blocks(item.blocks)]
  ELSE parse_text_item(item)
parse_media_block(block) ==
  [block EXCEPT !.caption = parse_rich_caption(block.caption),
                !.blocks = parse_rich_blocks(block.blocks)]
parse_structure_block(block) ==
  CASE block.kind = "list" ->
         [block EXCEPT !.items = [i \in DOMAIN block.items |-> parse_list_item(block.items[i])]]
    [] block.kind = "quote" ->
         [block EXCEPT !.text = parse_rich_text(block.text),
                       !.blocks = parse_rich_blocks(block.blocks),
                       !.note = parse_rich_text(block.note)]
    [] block.kind = "table" ->
         [block EXCEPT !.text = parse_rich_text(block.text),
                       !.items = [i \in DOMAIN block.items |-> parse_text_item(block.items[i])]]
    [] block.kind = "details" ->
         [block EXCEPT !.text = parse_rich_text(block.text),
                       !.blocks = parse_rich_blocks(block.blocks)]
    [] block.kind = "related" -> [block EXCEPT !.text = parse_rich_text(block.text)]
    [] block.kind = "button_row" -> [block EXCEPT !.items = parse_button_row(block.items)]
parse_rich_block(block) ==
  CASE block.kind \in TextBlocks -> [block EXCEPT !.text = parse_rich_text(block.text)]
    [] block.kind \in {"divider", "math", "channel", "anchor", "unsupported"} -> block
    [] block.kind = "cover" -> [block EXCEPT !.blocks = parse_rich_blocks(block.blocks)]
    [] block.kind \in MediaBlocks -> parse_media_block(block)
    [] block.kind \in StructureBlocks -> parse_structure_block(block)
    [] OTHER -> NoBlock

parse_rich_message(data) == [data EXCEPT !.blocks = parse_rich_blocks(data.blocks)]

\* The complete rich message of exactly one answer with the id that was asked for; the
\* id of an answer is "same" or "another".
NoRich == [blocks |-> <<>>, photos |-> {}, documents |-> {}, thumbs |-> {}, part |-> TRUE]
extract_full_rich_message(answers) ==
  LET matches == SelectSeq(answers, LAMBDA a : a.id = "same")
  IN IF Len(matches) = 1 /\ ~matches[1].rich.part THEN matches[1].rich ELSE NoRich

(***************************************************************************)
(* The visitor, through which emoji and files are found                    *)
(***************************************************************************)
Call(callback, type, id) == <<[call |-> callback, type |-> type, id |-> id]>>
visit_photo(id) == IF id \in rich.photos THEN Call("photo", "", id) ELSE <<>>
visit_document(id) == IF id \in rich.documents THEN Call("document", "", id) ELSE <<>>
RECURSIVE visit_text(_)
visit_text(text) ==
  Call("text", text.t, text.v) \o (IF text.t = "image" THEN visit_document(text.v) ELSE <<>>)
    \o ForEach(visit_text, text.c) \o ForEach(visit_text, text.o)
\* The credit of a caption is passed over.
Bad_visit_caption(caption) == visit_text(caption.text)
visit_caption(caption) == visit_text(caption.text) \o visit_text(caption.credit)

RECURSIVE visit_block(_)
visit_blocks(blocks) == ForEach(visit_block, blocks)
visit_list_item(item) ==
  IF item.content = "text" THEN visit_text(item.text) ELSE visit_blocks(item.blocks)
visit_block(block) ==
  CASE block.kind \in TextBlocks -> visit_text(block.text)
    [] block.kind = "list" -> ForEach(visit_list_item, block.items)
    [] block.kind = "quote" -> visit_list_item(block) \o visit_text(block.note)
    [] block.kind = "photo" -> visit_photo(block.media) \o visit_caption(block.caption)
    [] block.kind \in DocumentBlocks -> visit_document(block.media) \o visit_caption(block.caption)
    [] block.kind = "cover" -> visit_block(block.blocks[1])
    [] block.kind = "embed" ->
         (IF block.media # "" THEN visit_photo(block.media) ELSE <<>>)
           \o visit_caption(block.caption)
    [] block.kind = "embed_post" ->
         visit_photo(block.media) \o visit_blocks(block.blocks) \o visit_caption(block.caption)
    [] block.kind \in GroupBlocks -> visit_blocks(block.blocks) \o visit_caption(block.caption)
    [] block.kind = "table" -> visit_text(block.text) \o ForEach(visit_list_item, block.items)
    [] block.kind = "details" -> visit_text(block.text) \o visit_blocks(block.blocks)
    [] block.kind = "related" ->
         visit_text(block.text)
           \o ForEach(LAMBDA a : IF a.media # "" THEN visit_photo(a.media) ELSE <<>>, block.items)
    [] block.kind = "map" -> visit_caption(block.caption)
    [] block.kind = "button_row" -> ForEach(visit_list_item, block.items)
    [] OTHER -> <<>>

\* Each file once, a document's thumbnail after the document.
message_file_work ==
  LET Of(call) == CASE call.call = "photo" -> <<<<"file", call.id>>>>
                    [] call.call = "document" ->
                         <<<<"file", call.id>>>>
                           \o (IF call.id \in rich.thumbs THEN <<<<"thumb", call.id>>>> ELSE <<>>)
                    [] OTHER -> <<>>
  IN FoldLeft(LAMBDA seen, f : IF f \in Range(seen) THEN seen ELSE Append(seen, f),
              <<>>, ForEach(Of, visit_blocks(rich.blocks)))
collect_custom_emoji ==
  {c.id : c \in {d \in Range(visit_blocks(rich.blocks)) : d.call = "text" /\ d.type = "emoji"}}

(***************************************************************************)
(* Anchors                                                                 *)
(***************************************************************************)
\* Types whose children may hold anchors; of a diff both sides may.
AnchorChildren ==
  {"bold", "spoiler", "url", "fragment", "mention", "action", "user", "date", "concat", "button"}
RECURSIVE collect_text(_)
collect_text(text) ==
  CASE text.t = "anchor" -> <<[n |-> text.n, name |-> text.v]>> \o ForEach(collect_text, text.c)
    [] text.t \in AnchorChildren -> ForEach(collect_text, text.c)
    [] text.t = "diff" -> ForEach(collect_text, text.c) \o ForEach(collect_text, text.o)
    [] OTHER -> <<>>
collect_caption(caption) == collect_text(caption.text) \o collect_text(caption.credit)

RECURSIVE collect_block(_)
collect_blocks(blocks) == ForEach(collect_block, blocks)
collect_list_item(item) ==
  IF item.content = "text" THEN collect_text(item.text) ELSE collect_blocks(item.blocks)
collect_block(block) ==
  CASE block.kind \in TextBlocks \cup {"related"} -> collect_text(block.text)
    [] block.kind = "anchor" -> <<[n |-> block.n, name |-> block.name]>>
    [] block.kind = "list" -> ForEach(collect_list_item, block.items)
    [] block.kind = "quote" -> collect_list_item(block) \o collect_text(block.note)
    [] block.kind \in DocumentBlocks \cup {"photo", "embed", "map"} -> collect_caption(block.caption)
    [] block.kind \in GroupBlocks \cup {"embed_post"} ->
         collect_blocks(block.blocks) \o collect_caption(block.caption)
    [] block.kind = "cover" -> collect_blocks(block.blocks)
    [] block.kind = "table" -> collect_text(block.text) \o ForEach(collect_list_item, block.items)
    [] block.kind = "details" -> collect_text(block.text) \o collect_blocks(block.blocks)
    [] block.kind = "button_row" -> ForEach(collect_list_item, block.items)
    [] OTHER -> <<>>

collect_anchors(message) == collect_blocks(message.blocks)

\* An id is the name with how many have had it so far. anchor_token keeps names apart; that
\* one name's "-n" makes it another's token would take more anchors of a name than a
\* message holds, and is left out.
register_anchor(anchors, i) ==
  <<anchors[i].name, Cardinality({j \in 1..i : anchors[j].name = anchors[i].name})>>
NoId == <<"", 0>>
anchor_id(n) ==
  LET at == {i \in DOMAIN rm_anchors : rm_anchors[i].n = n}
  IN IF at = {} THEN NoId ELSE register_anchor(rm_anchors, CHOOSE i \in at : TRUE)
fragment_href(name) ==
  IF \E i \in DOMAIN rm_anchors : rm_anchors[i].name = name THEN <<name, 1>> ELSE NoId

(***************************************************************************)
(* HTML: texts                                                             *)
(***************************************************************************)
Token(kind, what) == <<<<kind, what>>>>
Other == Token("other", "")
Word(w) == IF w = "" THEN <<>> ELSE Token("word", w)

\* The plain text of a text, or none if it has something else or is too long.
RECURSIVE append_plain_text(_)
append_plain_text(text) ==
  CASE text.t = "empty" -> <<>>
    [] text.t \in {"plain", "emoji"} -> <<text.v>>
    [] text.t \in {"image", "math", "button"} -> <<"none">>
    [] OTHER -> ForEach(append_plain_text, text.c)
is_plain_target(text) ==
  LET words == append_plain_text(text)
  IN words # <<>> /\ Len(words) <= TargetMax /\ Range(words) \subseteq SafeTargets

\* Where a text leads, for each type that may lead anywhere.
Inert == <<"inert">>
href(text) ==
  CASE text.t = "fragment" -> IF fragment_href(text.v) = NoId THEN Inert ELSE fragment_href(text.v)
    [] text.t = "url" -> IF text.v \in SafeTargets THEN <<text.v>> ELSE Inert
    [] text.t \in {"mention", "action"} -> IF is_plain_target(text) THEN <<"">> ELSE Inert
    [] text.t = "user" -> <<"">>

RECURSIVE render_text(_, _)
render_texts(texts, active) == ForEach(LAMBDA text : render_text(text, active), texts)
render_children(text, active) ==
  IF text.c # <<>> THEN render_texts(text.c, active) ELSE Other
render_link(text, target, active) ==
  IF target = Inert \/ active THEN Other \o render_children(text, active)
  ELSE Token("a", target) \o render_children(text, TRUE) \o Token("/a", "")
render_button(button, active) ==
  IF ~active /\ button.v \in {"url", "copy"}
  THEN Token("a", <<button.v>>) \o render_text(button.c[1], TRUE) \o Token("/a", "")
  ELSE Other \o render_text(button.c[1], TRUE)
render_custom_emoji(text, active) ==
  LET alt == Token("emoji", <<text.v, rm_emoji[text.v]>>) \o Word(text.v)
  IN IF active \/ rm_emoji[text.v] = "odd_path" THEN Other \o alt
     ELSE Token("a", <<"">>) \o alt \o Token("/a", "")
render_diff(text, active) ==
  Other \o render_children(text, active)
    \o (IF text.o = <<>> THEN Other ELSE render_texts(text.o, active))
render_text(text, active) ==
  CASE text.t = "empty" -> <<>>
    [] text.t = "plain" -> Word(text.v)
    [] text.t = "concat" -> render_texts(text.c, active)
    [] text.t \in {"bold", "spoiler", "date"} -> Other \o render_children(text, active)
    [] text.t \in {"fragment", "url", "mention", "action", "user"} ->
         render_link(text, href(text), active)
    [] text.t = "anchor" ->
         Other \o (IF anchor_id(text.n) = NoId THEN <<>> ELSE Token("id", anchor_id(text.n)))
           \o render_texts(text.c, active)
    [] text.t = "math" -> Other \o Word(text.v)
    [] text.t = "emoji" -> render_custom_emoji(text, active)
    [] text.t = "image" -> Other
    [] text.t = "diff" -> render_diff(text, active)
    [] text.t = "button" -> render_button(text, active)

RECURSIVE rich_text_has_output(_)
rich_text_has_output(text) ==
  CASE text.t = "empty" -> FALSE
    [] text.t = "plain" -> text.v # ""
    [] text.t = "concat" -> \E i \in DOMAIN text.c : rich_text_has_output(text.c[i])
    [] OTHER -> TRUE
rich_caption_has_output(caption) ==
  rich_text_has_output(caption.text) \/ rich_text_has_output(caption.credit)

(***************************************************************************)
(* HTML: blocks                                                            *)
(***************************************************************************)
\* What a file is shown as: a missing one, and one that was never loaded, as unavailable.
rich_file_presentation(f) ==
  IF f \in DOMAIN rm_files /\ rm_files[f] # "new" THEN rm_files[f] ELSE "Unavailable"
ShownFile(f) == Token("file", <<f, rich_file_presentation(f)>>)
Media == Token("media", "")
Photo(id) == ShownFile(<<"file", id>>) \o Media
\* A video shows its thumbnail only if it has both.
Document(block) ==
  LET f == <<"file", block.media>>
      thumb == <<"thumb", block.media>>
  IN ShownFile(f)
       \o (IF /\ block.kind = "video"
              /\ rich_file_presentation(f) = "path" /\ rich_file_presentation(thumb) = "path"
           THEN ShownFile(thumb) ELSE <<>>)
       \o Media

render_caption(caption) ==
  LET text == render_text(caption.text, FALSE)
      credit == render_text(caption.credit, FALSE)
  IN IF text = <<>> /\ credit = <<>> THEN <<>> ELSE Other \o text \o credit
render_source_meta(url) ==
  IF url = "" THEN <<>>
  ELSE IF url \in SafeTargets THEN Token("a", <<url>>) \o Other \o Token("/a", "")
  ELSE Other

RECURSIVE tail_state(_)
tail_state_of(blocks) ==
  LET states == [i \in DOMAIN blocks |-> tail_state(blocks[i])]
      shown == {i \in DOMAIN states : states[i] # "Empty"}
  IN IF shown = {} THEN "Empty" ELSE states[CHOOSE i \in shown : \A j \in shown : j <= i]
TailOr(blocks, otherwise) ==
  IF tail_state_of(blocks) = "Empty" THEN otherwise ELSE tail_state_of(blocks)
TailOfArticle(article) ==
  IF article.url # "" THEN "Other"
  ELSE IF /\ article.media # "" /\ article.description # ""
          /\ rich_file_presentation(<<"file", article.media>>) # "path" THEN "Other"
  ELSE "Media"
tail_state(block) ==
  CASE block.kind = "anchor" -> "Empty"
    [] block.kind = "list" ->
         IF block.items = <<>> THEN "Empty"
         ELSE IF Last(block.items).content = "blocks" THEN TailOr(Last(block.items).blocks, "Other")
         ELSE "Other"
    [] block.kind = "quote" ->
         IF rich_text_has_output(block.note) \/ block.content = "text" THEN "Other"
         ELSE TailOr(block.blocks, "Other")
    [] block.kind \in DocumentBlocks \cup {"photo", "map"} ->
         IF rich_caption_has_output(block.caption) \/ (block.kind = "photo" /\ block.url # "")
         THEN "Other" ELSE "Media"
    [] block.kind = "cover" -> tail_state_of(block.blocks)
    [] block.kind = "embed" ->
         IF rich_caption_has_output(block.caption) \/ (block.media # "" /\ block.url # "")
         THEN "Other" ELSE "Media"
    [] block.kind = "embed_post" ->
         IF rich_caption_has_output(block.caption) THEN "Other"
         ELSE TailOr(block.blocks, IF block.url = "" THEN "Media" ELSE "Other")
    [] block.kind \in GroupBlocks ->
         IF rich_caption_has_output(block.caption) THEN "Other" ELSE tail_state_of(block.blocks)
    [] block.kind = "channel" -> "Media"
    [] block.kind = "details" -> IF block.open THEN TailOr(block.blocks, "Other") ELSE "Other"
    [] block.kind = "related" ->
         IF block.items # <<>> THEN TailOfArticle(Last(block.items))
         ELSE IF rich_text_has_output(block.text) THEN "Other" ELSE "Empty"
    [] OTHER -> "Other"

render_text_block(block) == Other \o render_text(block.text, FALSE)

\* The marker, then the content; a quote is a body of the same two forms.
RECURSIVE render_block(_)
render_blocks(blocks) == ForEach(render_block, blocks)
render_list_item(item) ==
  Other \o IF item.content = "blocks" THEN render_blocks(item.blocks)
           ELSE render_text(item.text, FALSE)
render_quote(block) ==
  LET caption == render_text(block.note, FALSE)
  IN render_list_item(block) \o (IF caption = <<>> THEN <<>> ELSE Other \o caption)

\* Closed, its body is not seen: what is seen last is the title.
render_details(block) ==
  Other \o render_text(block.text, FALSE) \o render_blocks(block.blocks)
    \o (IF block.open THEN <<>> ELSE Other)
render_table(block) ==
  Other \o render_text(block.text, FALSE)
    \o ForEach(LAMBDA cell : render_text(cell.text, FALSE), block.items)
render_button_row(block) ==
  Other \o ForEach(LAMBDA item : render_button(item.text, FALSE), block.items)

render_photo(block) ==
  Photo(block.media) \o render_source_meta(block.url) \o render_caption(block.caption)
render_document(block) == Document(block) \o render_caption(block.caption)

\* The styles ask whether the items end with a file; a group whose files all have a
\* size, no caption and no link is drawn whole, and says it does.
media_item_size(block) ==
  /\ block.kind \in {"photo", "video"}
  /\ rich_file_presentation(<<"file", block.media>>) = "path"
  /\ block.kind = "video" => rich_file_presentation(<<"thumb", block.media>>) = "path"
media_group_sizes(blocks) ==
  \A i \in DOMAIN blocks :
    /\ media_item_size(blocks[i])
    /\ ~rich_caption_has_output(blocks[i].caption) /\ blocks[i].url = ""
EndsMedia(blocks, said) == Token("ends", <<blocks # <<>> /\ said, render_blocks(blocks)>>)
render_media_group(block) ==
  EndsMedia(block.blocks, tail_state_of(block.blocks) = "Media") \o render_blocks(block.blocks)
render_group(block) ==
  (IF block.blocks # <<>> /\ media_group_sizes(block.blocks)
   THEN EndsMedia(block.blocks, TRUE) \o render_blocks(block.blocks)
   ELSE render_media_group(block))
  \o render_caption(block.caption)
render_embed(block) ==
  (IF block.media # "" THEN Photo(block.media) \o render_source_meta(block.url) ELSE Media)
    \o render_caption(block.caption)
render_embed_post(block) ==
  Photo(block.media) \o render_source_meta(block.url)
    \o EndsMedia(block.blocks, tail_state_of(block.blocks) = "Media")
    \o render_blocks(block.blocks) \o render_caption(block.caption)

render_channel == Media
render_map(block) == Media \o render_caption(block.caption)

\* Why a photo is missing takes the place of the description, which then follows.
render_related_article(article) ==
  LET photo == article.media # ""
      missing == photo /\ rich_file_presentation(<<"file", article.media>>) # "path"
      described == Word(article.description)
  IN (IF photo THEN ShownFile(<<"file", article.media>>) ELSE <<>>)
       \o (IF missing THEN Media \o described ELSE described \o Media)
       \o render_source_meta(article.url)
render_related_articles(block) ==
  LET title == render_text(block.text, FALSE)
  IN (IF title = <<>> THEN <<>> ELSE Other \o title)
       \o ForEach(render_related_article, block.items)

render_block(block) ==
  CASE block.kind \in TextBlocks -> render_text_block(block)
    [] block.kind = "anchor" ->
         IF anchor_id(block.n) = NoId THEN Other ELSE Token("id", anchor_id(block.n))
    [] block.kind = "list" -> ForEach(render_list_item, block.items)
    [] block.kind = "quote" -> render_quote(block)
    [] block.kind = "photo" -> render_photo(block)
    [] block.kind \in DocumentBlocks -> render_document(block)
    [] block.kind = "cover" -> render_media_group(block)
    [] block.kind = "embed" -> render_embed(block)
    [] block.kind = "embed_post" -> render_embed_post(block)
    [] block.kind \in GroupBlocks -> render_group(block)
    [] block.kind = "channel" -> render_channel
    [] block.kind = "table" -> render_table(block)
    [] block.kind = "details" -> render_details(block)
    [] block.kind = "related" -> render_related_articles(block)
    [] block.kind = "map" -> render_map(block)
    [] block.kind = "button_row" -> render_button_row(block)
    [] OTHER -> Other

(***************************************************************************)
(* JSON                                                                    *)
(***************************************************************************)
file_availability(f) ==
  CASE f \notin DOMAIN rm_files -> "Unavailable"
    [] f \in DOMAIN rm_files /\ rm_files[f] = "new" -> "Unavailable"
    [] OTHER -> rm_files[f]
Available(f) == Token("file", <<f, file_availability(f)>>)
photo_metadata(id) == Available(<<"file", id>>)
document_metadata(id) ==
  Available(<<"file", id>>)
    \o (IF id \in rich.documents /\ id \in rich.thumbs THEN Available(<<"thumb", id>>) ELSE <<>>)

RECURSIVE serialize_rich_text(_)
serialize_rich_texts(texts) == ForEach(serialize_rich_text, texts)
serialize_rich_text(text) ==
  CASE text.t \in {"plain", "math"} -> Word(text.v)
    [] text.t = "emoji" -> Token("emoji", <<text.v, rm_emoji[text.v]>>) \o Word(text.v)
    [] text.t = "image" -> document_metadata(text.v)
    [] text.t = "diff" -> serialize_rich_texts(text.c) \o serialize_rich_texts(text.o)
    [] OTHER -> serialize_rich_texts(text.c)
serialize_caption(caption) ==
  serialize_rich_text(caption.text) \o serialize_rich_text(caption.credit)
serialize_related_article(article) ==
  Word(article.description)
    \o (IF article.media # "" THEN photo_metadata(article.media) ELSE <<>>)

RECURSIVE serialize_rich_block(_)
serialize_rich_blocks(blocks) == ForEach(serialize_rich_block, blocks)
serialize_list_item(item) ==
  IF item.content = "text" THEN serialize_rich_text(item.text)
  ELSE serialize_rich_blocks(item.blocks)
serialize_embed(block) ==
  (IF block.media # "" THEN photo_metadata(block.media) ELSE <<>>)
    \o serialize_caption(block.caption)
serialize_embed_post(block) ==
  photo_metadata(block.media) \o serialize_rich_blocks(block.blocks)
    \o serialize_caption(block.caption)
serialize_rich_block(block) ==
  CASE block.kind \in TextBlocks -> serialize_rich_text(block.text)
    [] block.kind = "list" -> ForEach(serialize_list_item, block.items)
    [] block.kind = "quote" -> serialize_list_item(block) \o serialize_rich_text(block.note)
    [] block.kind = "photo" -> photo_metadata(block.media) \o serialize_caption(block.caption)
    [] block.kind \in DocumentBlocks ->
         document_metadata(block.media) \o serialize_caption(block.caption)
    [] block.kind = "cover" -> serialize_rich_block(block.blocks[1])
    [] block.kind = "embed" -> serialize_embed(block)
    [] block.kind = "embed_post" -> serialize_embed_post(block)
    [] block.kind \in GroupBlocks ->
         serialize_rich_blocks(block.blocks) \o serialize_caption(block.caption)
    [] block.kind = "table" ->
         serialize_rich_text(block.text) \o ForEach(serialize_list_item, block.items)
    [] block.kind = "details" ->
         serialize_rich_text(block.text) \o serialize_rich_blocks(block.blocks)
    [] block.kind = "related" ->
         serialize_rich_text(block.text) \o ForEach(serialize_related_article, block.items)
    [] block.kind = "map" -> serialize_caption(block.caption)
    [] block.kind = "button_row" -> ForEach(serialize_list_item, block.items)
    [] OTHER -> <<>>

(***************************************************************************)
(* The message's way                                                       *)
(***************************************************************************)
WholeMessage == [rm_sent EXCEPT !.part = FALSE]
FirstPart == [rm_sent EXCEPT !.blocks = SubSeq(rm_sent.blocks, 1, 1)]
AllFiles(m) == ({"file"} \X (m.photos \cup m.documents)) \cup ({"thumb"} \X m.thumbs)
Unsettled(m) == [f \in AllFiles(m) |-> "new"]
Take(m) ==
  /\ rich' = parse_rich_message(m) /\ rm_files' = Unsettled(m)
  /\ rm_anchors' = collect_anchors(rich')

ParseRich ==
  /\ rm_stage = "received"
  /\ Take(IF rm_sent.part THEN FirstPart ELSE rm_sent)
  /\ rm_stage' = IF rm_sent.part THEN "part" ELSE "whole"
  /\ UNCHANGED <<rm_sent, rm_emoji, rm_work, rm_html, rm_json>>

\* What the server may answer: the message alone, after another, twice, still a part,
\* or not at all.
Answers ==
  LET one == [id |-> "same", rich |-> WholeMessage]
      other == [id |-> "another", rich |-> [NoRich EXCEPT !.part = FALSE]]
      still == [id |-> "same", rich |-> FirstPart]
  IN {<<one>>, <<other, one>>, <<one, other>>, <<one, one>>, <<still>>, <<still, one>>, <<other>>, <<>>}
HydrateRich ==
  /\ rm_stage = "part"
  /\ \E answers \in Answers :
       LET full == extract_full_rich_message(answers)
       IN IF full.part THEN rm_stage' = "failed" /\ UNCHANGED <<rich, rm_anchors, rm_files>>
          ELSE rm_stage' = "whole" /\ Take(full)
  /\ UNCHANGED <<rm_sent, rm_emoji, rm_work, rm_html, rm_json>>

\* Each emoji that was collected becomes a path, one that is no safe link among them, a
\* placeholder, or nothing if its file is not wanted.
ResolveRichEmoji ==
  /\ rm_stage = "whole"
  /\ \E found \in [collect_custom_emoji -> {"path", "odd_path", "unavailable", ""}] :
       rm_emoji' = [e \in RichEmoji |-> IF e \in DOMAIN found THEN found[e] ELSE rm_emoji[e]]
  /\ rm_work' = message_file_work
  /\ rm_stage' = "loading"
  /\ UNCHANGED <<rm_sent, rich, rm_anchors, rm_files, rm_html, rm_json>>

\* A thumbnail is measured by the size of its document.
LoadRichFile ==
  /\ rm_stage = "loading" /\ rm_work # <<>>
  /\ LET f == Head(rm_work)
         large == f[1] = "thumb" /\ rm_files[<<"file", f[2]>>] = "FileSize"
         small == f[1] = "thumb" /\ rm_files[<<"file", f[2]>>] = "path"
     IN \E outcome \in {"path", "Unavailable", "FileSize"} :
          /\ large => outcome # "path"
          /\ small => outcome # "FileSize"
          /\ rm_files' = [rm_files EXCEPT ![f] = outcome]
  /\ rm_work' = Tail(rm_work)
  /\ UNCHANGED <<rm_stage, rm_sent, rich, rm_anchors, rm_emoji, rm_html, rm_json>>

RenderRich ==
  /\ rm_stage = "loading" /\ rm_work = <<>>
  /\ rm_html' = render_blocks(rich.blocks)
  /\ rm_json' = serialize_rich_blocks(rich.blocks)
  /\ rm_stage' = "written"
  /\ UNCHANGED <<rm_sent, rich, rm_anchors, rm_files, rm_emoji, rm_work>>

RichInit ==
  /\ rm_stage = "received" /\ rm_sent \in RichMessages
  /\ rich = NoRich /\ rm_anchors = <<>> /\ rm_files = Unsettled(NoRich) /\ rm_emoji = [e \in RichEmoji |-> "id"]
  /\ rm_work = <<>> /\ rm_html = <<>> /\ rm_json = <<>>
RichNext == ParseRich \/ HydrateRich \/ ResolveRichEmoji \/ LoadRichFile \/ RenderRich

(***************************************************************************)
(* Properties                                                              *)
(***************************************************************************)
\* The words and anchors as they were sent: those of a block stand in the order of its
\* fields.
RECURSIVE SentText(_)
SentText(text) ==
  IF text.t \in {"plain", "math", "emoji"} THEN Word(text.v)
  ELSE (IF text.t = "anchor" THEN Token("anchor", text.v) ELSE <<>>)
         \o ForEach(SentText, text.c) \o ForEach(SentText, text.o)
RECURSIVE SentBlock(_)
SentItem(item) == SentText(item.text) \o ForEach(SentBlock, item.blocks) \o Word(item.description)
SentBlock(block) ==
  LET Unwritten(item) == block.kind = "button_row" /\ item.text.v \notin ButtonActions
  IN IF block.kind = "new" THEN <<>>
     ELSE (IF block.kind = "anchor" THEN Token("anchor", block.name) ELSE <<>>)
            \o SentText(block.text) \o ForEach(SentBlock, block.blocks)
            \o ForEach(SentItem, SelectSeq(block.items, LAMBDA i : ~Unwritten(i)))
            \o SentText(block.note)
            \o SentText(block.caption.text) \o SentText(block.caption.credit)
Sent == ForEach(SentBlock, rm_sent.blocks)
OfKind(tokens, kinds) == SelectSeq(tokens, LAMBDA token : token[1] \in kinds)

\* Both writers write every word, in order, of the message and not of a part of it.
WordsAreWhole ==
  LET words == OfKind(Sent, {"word"})
  IN OfKind(rm_html, {"word"}) = words /\ OfKind(rm_json, {"word"}) = words

\* What either shows of a file or an emoji is what its load came to, never that nobody
\* loaded it; and whatever file the HTML shows the JSON names too.
ShownIsSettled ==
  LET html == Range(OfKind(rm_html, {"file"}))
      json == Range(OfKind(rm_json, {"file"}))
      icons == Range(OfKind(rm_html \o rm_json, {"emoji"}))
  IN /\ html \subseteq json
     /\ \A token \in json : token[2][1] \in DOMAIN rm_files => rm_files[token[2][1]] # "new"
     /\ \A token \in icons : token[2][2] # "id"

\* Every anchor has its place; links open and close in turn; and a link inside the message
\* leads to the only place with that id, the first of its name.
LinksLead ==
  LET links == OfKind(rm_html, {"a", "/a"})
      ids == OfKind(rm_html, {"id"})
      targets == {links[i][2] : i \in {j \in DOMAIN links : links[j][1] = "a"}}
      names == OfKind(Sent, {"anchor"})
  IN /\ [i \in DOMAIN ids |-> ids[i][2][1]] = [i \in DOMAIN names |-> names[i][2]]
     /\ \A i \in DOMAIN links : links[i][1] = IF i % 2 = 1 THEN "a" ELSE "/a"
     /\ Len(links) % 2 = 0
     /\ \A target \in {t \in targets : Len(t) = 2} :
          /\ Cardinality({i \in DOMAIN ids : ids[i][2] = target}) = 1
          /\ \A i \in DOMAIN ids :
               ids[i][2] = target => \A j \in 1..(i - 1) : ids[j][2][1] # target[1]

\* A group says that it ends with a file exactly if that is what is seen last.
TailsAgree ==
  \A token \in Range(OfKind(rm_html, {"ends"})) :
    LET seen == OfKind(token[2][2], {"word", "other", "media"})
    IN token[2][1] = (seen # <<>> /\ Last(seen)[1] = "media")

\* A rich message is exported whole: five walks over one tree (the parser, the visitor
\* that finds files and emoji, the one that numbers anchors and the two writers) agree on
\* every kind of block, whatever was loaded of it and however the server gave it.
RichIsWhole ==
  rm_stage = "written" => WordsAreWhole /\ ShownIsSettled /\ LinksLead /\ TailsAgree
=============================================================================
