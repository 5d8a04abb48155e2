---------------------------- MODULE DesktopExport ----------------------------
(***************************************************************************)
(* The export of a saved chat: saved_export.py checks the request,         *)
(* secret_saved.py numbers the records, copies their files and drives a    *)
(* writer slice by slice; html_writer.py splits the messages over pages,   *)
(* json_writer.py nests one object, html_and_json.py runs both.  A write   *)
(* may fail at any call to a writer, and a copy at any file.               *)
(***************************************************************************)
EXTENDS Integers, Sequences, FiniteSetsExt, SequencesExt

CONSTANTS
  Records,           \* what messages.jsonl may hold
  Ranges,            \* the date ranges asked for: [from, till], 0 is open
  MESSAGES_IN_FILE,  \* 1000 in the code
  SLICE_LIMIT,       \* 100 in the code
  SizeLimit          \* settings.media.size_limit

VARIABLES
  ex_stage,   \* the call that is next, or "finished" or "failed"
  request,    \* records, date range, format and the folder as it is
  messages,   \* the messages made of the records
  next_slice, \* the first message of the next slice
  next_file,  \* the next message whose file is looked at
  copies,     \* path -> the source copied to it
  html, json, \* the two writers
  folder      \* the folder written to: 0, the one asked for, or n, its n-th child
export_vars == <<ex_stage, request, messages, next_slice, next_file, copies,
                 html, json, folder>>

(***************************************************************************)
(* secret_saved.py: messages 1..N, replies and files                       *)
(***************************************************************************)
Action(record) == record.type = "service" /\ record.action # "delete"
Kept(records) == SelectSeq(records, LAMBDA r : r.type = "message" \/ Action(r))

\* A reply names the saved message with that random id, or none.
Parsed(records) ==
  LET kept == Kept(records) IN
  [i \in DOMAIN kept |->
     LET r == kept[i]
         others == {j \in DOMAIN kept : kept[j].id = r.reply}
     IN  [id |-> i, date |-> r.date, file |-> r.file, path |-> <<>>, skip |-> "none",
          reply |-> IF r.type = "message" /\ others # {} THEN Max(others) ELSE 0]]

skip_message_by_date(m, range) ==
  \/ range.from > 0 /\ m.date < range.from
  \/ range.till > 0 /\ m.date >= range.till

messages_count(list, range) ==
  IF list = <<>> THEN 0
  ELSE IF ~(Last(list).date > 0 /\ Last(list).date > range.from) THEN 0
  ELSE IF range.till > 0 /\ ~(0 < Head(list).date /\ Head(list).date < range.till) THEN 0
  ELSE Len(list)

\* The reason not to copy a file, in the order they are looked at.
SkipReason(file) ==
  CASE file.source = 0 -> "Unavailable"
    [] ~file.wanted -> "FileType"
    [] file.size > SizeLimit -> "FileSize"
    [] OTHER -> "none"

\* Faulty variant: the first numbered name is taken without looking.
Bad_prepare_relative_path(name) ==
  IF <<name, 0>> \notin DOMAIN copies THEN <<name, 0>> ELSE <<name, 1>>

\* "name (N).ext" with the first N that is free.
prepare_relative_path(name) ==
  <<name, Min({n \in 0..Len(messages) : <<name, n>> \notin DOMAIN copies})>>

(***************************************************************************)
(* html_writer.py.  A page is a sequence of entries and a stack of open    *)
(* tags; what is buffered in a block is written before the call returns.   *)
(***************************************************************************)
Entry(what, id, link) == [what |-> what, id |-> id, link |-> link]
PageTags == <<"html", "body", "page_wrap">>
NewPage == [entries |-> <<>>, tags |-> PageTags, closed |-> FALSE]
NoHtml == [pages |-> <<>>, count |-> 0, per_file |-> <<>>, blank |-> TRUE, last |-> 0, date |-> 0]
HtmlStart == [NoHtml EXCEPT !.pages = <<NewPage>>]

OnPage(h, entry) ==
  [h EXCEPT !.pages = [@ EXCEPT ![Len(@)].entries = Append(@, entry)]]
ClosePage(h) ==
  [h EXCEPT !.pages = [@ EXCEPT ![Len(@)].tags = <<>>, ![Len(@)].closed = TRUE]]

Opening(h, index) ==
  LET opened == [OnPage(h, Entry("opening", 0, 0)) EXCEPT
                   !.pages = [@ EXCEPT ![Len(@)].tags = @ \o <<"page_body", "history">>],
                   !.blank = FALSE]
  IN  IF index > 0 THEN OnPage(opened, Entry("previous", 0, index)) ELSE opened

\* Page `index` begins: the one before ends with a link to it, and its last
\* message is remembered for the links of later replies.
SwitchPage(h, index) ==
  LET ended == ClosePage(OnPage(h, Entry("next", 0, index + 1)))
  IN  [ended EXCEPT !.pages = Append(@, NewPage), !.per_file = Append(@, h.last),
                    !.blank = TRUE, !.last = 0, !.date = 0]

\* The page a link to a message names: the first that ends behind it, or its own.
LinkTo(h, id) ==
  IF \E i \in DOMAIN h.per_file : id <= h.per_file[i]
  THEN Min({i \in DOMAIN h.per_file : id <= h.per_file[i]}) ELSE Len(h.pages)

WriteMessage(h, m) ==
  LET old == IF h.count > 0 THEN (h.count - 1) \div MESSAGES_IN_FILE ELSE 0
      new == h.count \div MESSAGES_IN_FILE
      turned == IF old # new THEN SwitchPage(h, new) ELSE h
      opened == IF turned.blank THEN Opening(turned, new) ELSE turned
      dated == IF opened.date # m.date THEN OnPage(opened, Entry("date", 0, 0)) ELSE opened
      link == IF m.reply = 0 THEN 0 ELSE LinkTo(dated, m.reply)
  IN  [OnPage(dated, Entry("message", m.id, link)) EXCEPT
         !.count = @ + 1, !.last = m.id, !.date = m.date]

HtmlSlice(h, slice, range) ==
  FoldLeft(WriteMessage, h, SelectSeq(slice, LAMBDA m : ~skip_message_by_date(m, range)))

HtmlEnd(h) ==
  ClosePage(IF h.count = 0 THEN OnPage(Opening(h, 0), Entry("empty", 0, 0)) ELSE h)

(***************************************************************************)
(* json_writer.py: one object with one array of messages                   *)
(***************************************************************************)
NoJson == [nesting |-> <<>>, items |-> <<>>, closed |-> TRUE]
JsonStart == [NoJson EXCEPT !.closed = FALSE]
JsonDialog(j) == [j EXCEPT !.nesting = @ \o <<"object", "array">>]
JsonSlice(j, slice, range) ==
  FoldLeft(LAMBDA r, m : IF skip_message_by_date(m, range) THEN r
                         ELSE [r EXCEPT !.items = Append(@, m.id)], j, slice)
JsonDialogEnd(j) == [j EXCEPT !.nesting = Front(Front(@))]
JsonFinish(j) == [j EXCEPT !.closed = TRUE]

(***************************************************************************)
(* saved_export.py and export_saved_chat                                   *)
(***************************************************************************)
Writes(format) == request.format \in {format, "both"}

\* The request is refused before anything exists.
Overlaps == request.place \in {"source", "inside", "above"}
RangeIsEmpty == request.range.till > 0 /\ request.range.till <= request.range.from

\* The folder asked for if it is empty, else its first child that does not exist.
normalize_path ==
  IF request.empty /\ ~request.sub THEN 0
  ELSE Min((1..(Cardinality(request.taken) + 1)) \ request.taken)

Check ==
  /\ ex_stage = "check"
  /\ ex_stage' = IF Overlaps \/ RangeIsEmpty THEN "refused" ELSE "parse"
  /\ UNCHANGED <<request, messages, next_slice, next_file, copies, html, json, folder>>

ParseRecords ==
  /\ ex_stage = "parse"
  /\ messages' = Parsed(request.records)
  /\ folder' = normalize_path
  /\ ex_stage' = "start"
  /\ UNCHANGED <<request, next_slice, next_file, copies, html, json>>

\* Every writer runs although one fails; the failure is raised after them, and
\* the export ends with every handle closed.
Drive(onHtml, onJson, then) ==
  LET h == IF Writes("html") THEN onHtml ELSE html
      j == IF Writes("json") THEN onJson ELSE json
      Closed(w) == IF w.pages = <<>> THEN w ELSE ClosePage(w)
  IN  \/ html' = h /\ json' = j /\ ex_stage' = then
      \/ \E broken \in {f \in {"html", "json"} : Writes(f)} :
           /\ html' = Closed(IF broken = "html" THEN html ELSE h)
           /\ json' = [(IF broken = "json" THEN json ELSE j) EXCEPT !.closed = TRUE]
           /\ ex_stage' = "failed"

StartWriting ==
  /\ ex_stage = "start"
  /\ Drive(html, JsonStart, "dialog")
  /\ UNCHANGED <<request, messages, next_slice, next_file, copies, folder>>

StartDialog ==
  /\ ex_stage = "dialog"
  /\ Drive(HtmlStart, JsonDialog(json),
           IF messages_count(messages, request.range) > 0 THEN "files" ELSE "end")
  /\ UNCHANGED <<request, messages, next_slice, next_file, copies, folder>>

\* One message: its file is skipped with a reason, or copied to a free path.
CopyFile ==
  /\ ex_stage = "files"
  /\ IF next_file > Len(messages)
     THEN ex_stage' = "slices" /\ UNCHANGED <<messages, copies, html, json>>
     ELSE LET m == messages[next_file] IN
          IF skip_message_by_date(m, request.range) \/ m.file.name = "none"
          THEN UNCHANGED <<ex_stage, messages, copies, html, json>>
          ELSE IF SkipReason(m.file) # "none"
          THEN /\ messages' = [messages EXCEPT ![next_file].skip = SkipReason(m.file)]
               /\ UNCHANGED <<ex_stage, copies, html, json>>
          ELSE LET path == prepare_relative_path(m.file.name) IN
               \/ /\ copies' = [p \in DOMAIN copies \cup {path} |->
                                  IF p = path THEN m.file.source ELSE copies[p]]
                  /\ messages' = [messages EXCEPT ![next_file].path = path]
                  /\ UNCHANGED <<ex_stage, html, json>>
               \/ /\ ex_stage' = "failed"
                  /\ html' = (IF html.pages = <<>> THEN html ELSE ClosePage(html))
                  /\ json' = [json EXCEPT !.closed = TRUE]
                  /\ UNCHANGED <<messages, copies>>
  /\ next_file' = next_file + 1
  /\ UNCHANGED <<request, next_slice, folder>>

WriteSlice ==
  /\ ex_stage = "slices"
  /\ LET slice == SubSeq(messages, next_slice, Min({next_slice + SLICE_LIMIT - 1, Len(messages)}))
         after == next_slice + SLICE_LIMIT
     IN  /\ Drive(HtmlSlice(html, slice, request.range), JsonSlice(json, slice, request.range),
                  IF after > Len(messages) THEN "end" ELSE "slices")
         /\ next_slice' = after
  /\ UNCHANGED <<request, messages, next_file, copies, folder>>

EndDialog ==
  /\ ex_stage = "end"
  /\ Drive(HtmlEnd(html), JsonDialogEnd(json), "finish")
  /\ UNCHANGED <<request, messages, next_slice, next_file, copies, folder>>

FinishExport ==
  /\ ex_stage = "finish"
  /\ Drive(html, JsonFinish(json), "finished")
  /\ UNCHANGED <<request, messages, next_slice, next_file, copies, folder>>

ExportInit ==
  /\ ex_stage = "check"
  /\ request \in [records : Records, range : Ranges, format : {"html", "json", "both"},
                  place : {"apart", "inside"}, empty : BOOLEAN, sub : {FALSE}, taken : {{}, {1}}]
  /\ messages = <<>> /\ next_slice = 1 /\ next_file = 1
  /\ copies = <<>> /\ html = NoHtml /\ json = NoJson /\ folder = 0

ExportNext ==
  Check \/ ParseRecords \/ StartWriting \/ StartDialog \/ CopyFile \/ WriteSlice
    \/ EndDialog \/ FinishExport
ExportSpec == ExportInit /\ [][ExportNext]_export_vars

(***************************************************************************)
(* What a finished export of records in the order of their dates holds.    *)
(***************************************************************************)
InRange == SelectSeq(messages, LAMBDA m : ~skip_message_by_date(m, request.range))
Ids(list) == [i \in DOMAIN list |-> list[i].id]
MessagesOn(page) == SelectSeq(page.entries, LAMBDA e : e.what = "message")
PageWith(id) == CHOOSE p \in DOMAIN html.pages :
                  \E i \in DOMAIN MessagesOn(html.pages[p]) : MessagesOn(html.pages[p])[i].id = id
InDateOrder == \A i, j \in DOMAIN messages : i < j => messages[i].date <= messages[j].date
\* The count takes a chat whose newest message has the first date asked for to
\* be outside of the range.
EndsAtFrom ==
  messages # <<>> /\ request.range.from > 0 /\ Last(messages).date = request.range.from

(***************************************************************************)
(* A finished export holds every message of the range once, in order, in   *)
(* each format; its pages are full but for the last, closed, and every     *)
(* reply to a message of the export links to the page that message is on;  *)
(* the path a message names holds its own file.  A failed one leaves no    *)
(* handle open (secret_saved.py export_saved_chat, html_writer.py          *)
(* write_dialog_slice, saved_export.py _close_writer).                     *)
(***************************************************************************)
ExportIsWhole ==
  /\ ex_stage = "finished" /\ InDateOrder /\ ~EndsAtFrom =>
       /\ Writes("json") => json.items = Ids(InRange) /\ json.nesting = <<>>
       /\ Writes("html") =>
            /\ FoldLeft(LAMBDA all, page : all \o Ids(MessagesOn(page)), <<>>, html.pages)
                 = Ids(InRange)
            /\ \A p \in DOMAIN html.pages :
                 /\ html.pages[p].tags = <<>>
                 /\ p < Len(html.pages) =>
                      Len(MessagesOn(html.pages[p])) = MESSAGES_IN_FILE
                 /\ \A i \in DOMAIN MessagesOn(html.pages[p]) :
                      LET e == MessagesOn(html.pages[p])[i]
                          reply == messages[e.id].reply
                      IN  reply > 0 /\ (\E k \in DOMAIN InRange : InRange[k].id = reply)
                            => e.link = PageWith(reply)
       /\ \A i \in DOMAIN InRange :
            InRange[i].path # <<>> => copies[InRange[i].path] = InRange[i].file.source
  /\ ex_stage \in {"finished", "failed", "refused"} =>
       json.closed /\ \A p \in DOMAIN html.pages : html.pages[p].closed
=============================================================================
