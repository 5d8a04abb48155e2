------------------------------- MODULE MCRich -------------------------------
(* The rich messages that are tried: each kind of block alone, in another and *)
(* beside another, with each kind of text in one of its places.              *)
EXTENDS RichMessage

\* The words, names and numbers of a rich message's k-th part.
Numeral(k) == <<"1", "2", "3", "4", "5", "6">>[k]
Text(type, value, children) == [Empty EXCEPT !.t = type, !.v = value, !.c = children]
Plain(k) == Text("plain", "w" \o Numeral(k), <<>>)
Mark(name, k) == [Text("anchor", name, <<Plain(k)>>) EXCEPT !.n = k]
Icon(k) == Text("emoji", "e" \o Numeral(k), <<>>)
Picture == Text("image", "d2", <<>>)
InlineTexts(k) ==
  {Plain(k), Text("bold", "", <<Plain(k)>>), Mark("x", k), Icon(k), Picture,
   Text("concat", "", <<>>), Text("unknown", "", <<>>),
   Text("fragment", "x", <<Text("concat", "", <<Text("mention", "", <<Plain(k)>>), Icon(k)>>)>>),
   Text("url", "http", <<Text("button", "copy", <<Plain(k)>>)>>),
   Text("button", "url", <<Text("fragment", "x", <<Plain(k)>>)>>),
   Text("button", "new", <<Text("user", "", <<Mark("y", k)>>)>>),
   [Text("diff", "", <<Plain(k)>>) EXCEPT !.o = <<Mark("x", k)>>]}
FewTexts(k) == {Empty, Mark("x", k), Icon(k), Picture}
OneText(k) == {Empty, Text("concat", "", <<Mark("x", k), Icon(k)>>)}
Captions(k) == [text : OneText(k), credit : FewTexts(k + 1)]
ABlock(b) == [NoBlock EXCEPT !.kind = b]

\* Leaves: a text, an anchor, a photo that came with the message, one that did not, a
\* file with a thumbnail, a map and a block of a kind that is new.
Leaves(k) ==
  {[ABlock("paragraph") EXCEPT !.text = text] : text \in InlineTexts(k)}
  \cup {[ABlock("anchor") EXCEPT !.name = "x", !.n = k]}
  \cup {[ABlock("photo") EXCEPT !.media = "p1", !.caption = c] : c \in Captions(k)}
  \cup {[ABlock("photo") EXCEPT !.media = p, !.url = "http"] : p \in {"p1", "p2"}}
  \cup {[ABlock(b) EXCEPT !.media = "d1"] : b \in {"video", "file"}}
  \cup {[ABlock("map") EXCEPT !.caption.credit = text] : text \in FewTexts(k)}
  \cup {[ABlock("new") EXCEPT !.text = Plain(k)]}
FewLeaves(k) ==
  {[ABlock("paragraph") EXCEPT !.text = Mark("x", k)], [ABlock("anchor") EXCEPT !.name = "x", !.n = k],
   [ABlock("photo") EXCEPT !.media = "p1"], [ABlock("video") EXCEPT !.media = "d1"]}
LeafLists(k) == {<<>>} \cup {<<a>> : a \in FewLeaves(k)} \cup {<<a, b>> : a \in FewLeaves(k), b \in FewLeaves(k + 1)}
Items(k) ==
  {[NoItem EXCEPT !.text = text] : text \in FewTexts(k)}
  \cup {[NoItem EXCEPT !.content = "blocks", !.blocks = list] : list \in LeafLists(k)}
Articles(k) ==
  {[NoItem EXCEPT !.media = p, !.url = u, !.description = "w" \o Numeral(k)] :
     p \in {"", "p1", "p2"}, u \in {"", "http"}}
Groups(k) ==
  {[ABlock(b) EXCEPT !.blocks = list, !.caption.credit = text, !.media = "p1"] :
     b \in {"collage", "embed_post"}, list \in LeafLists(k), text \in FewTexts(k + 2)}
  \cup {[ABlock("cover") EXCEPT !.blocks = <<leaf>>] : leaf \in FewLeaves(k)}
  \cup {[ABlock("list") EXCEPT !.items = <<item>>] : item \in Items(k)}
  \cup {[ABlock("quote") EXCEPT !.content = "blocks", !.blocks = list, !.note = text] :
          list \in LeafLists(k), text \in FewTexts(k + 2)}
  \cup {[ABlock("quote") EXCEPT !.text = Plain(k), !.note = text] : text \in FewTexts(k + 1)}
  \cup {[ABlock("details") EXCEPT !.text = Mark("x", k + 2), !.blocks = list, !.open = seen] :
          list \in LeafLists(k), seen \in BOOLEAN}
  \cup {[ABlock("table") EXCEPT !.text = text, !.items = <<[NoItem EXCEPT !.text = Icon(k)]>>] :
          text \in FewTexts(k + 1)}
  \cup {[ABlock("related") EXCEPT !.text = text, !.items = items] :
          text \in FewTexts(k + 1), items \in {<<>>} \cup {<<a>> : a \in Articles(k)}}
  \cup {[ABlock("embed") EXCEPT !.media = p, !.url = "http", !.caption.text = text] :
          p \in {"", "p1"}, text \in FewTexts(k)}
  \cup {[ABlock("button_row") EXCEPT !.items = <<[NoItem EXCEPT !.text = Text("button", "new", <<Plain(k)>>)],
                                                 [NoItem EXCEPT !.text = Text("button", "copy", <<Icon(k)>>)]>>],
        ABlock("channel"), ABlock("divider")}

\* One block alone; a group after, or around the end of, another; and a few that the
\* server first gave only in part.
Nested(k) ==
  {[ABlock(b) EXCEPT !.blocks = <<inner>>, !.media = IF b = "embed_post" THEN "p1" ELSE ""] :
     b \in {"collage", "embed_post"}, inner \in Groups(k)}
Messages(lists, parts) ==
  [blocks : lists, photos : {{"p1"}}, documents : {{"d1", "d2"}}, thumbs : {{"d1"}}, part : parts]
RichInstances ==
  Messages({<<b>> : b \in Leaves(1) \cup Groups(1) \cup Nested(1)}, {FALSE})
  \cup Messages({<<a, b>> : a \in {leaf \in Leaves(5) : leaf.media = ""}, b \in FewLeaves(1)}, BOOLEAN)
=============================================================================
