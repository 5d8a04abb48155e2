------------------------------ MODULE MCSaving -----------------------------
(* Auto-save, and what carries a file or a chat outside: the key, the        *)
(* frames, a file's way to the peer, its kind, the two exports and a rich     *)
(* message, in one run. `subject`, chosen at the start, says which takes     *)
(* steps; the others are not there, so that nothing is owed by the fairness  *)
(* of auto-save.                                                             *)
EXTENDS AutoSave, DiffieHellman, MessageFrame, Transfer, Media, DesktopExport, Fetch, MCRich

CONSTANT Subjects  \* the ones this run is about
VARIABLE subject

\* A message received with a file, and one sent with a file.
Mails == [m1 |-> "received", m2 |-> "sent"]

\* A file of one part and one of two.
TwoSources == {<<"a", "b", "c">>, <<"a", "b", "c", "d", "e">>}

\* Comments of which one is a title, one only mentions it and one has no value.
OneComment == {<<TITLE, EQUALS, 7>>, <<ENCODER, EQUALS, TITLE>>, <<TITLE>>}
CommentLists == {<<>>} \cup {<<a>> : a \in OneComment} \cup {<<a, b>> : a, b \in OneComment}
VendorNames == {<<>>, <<TITLE, EQUALS>>}

\* Up to four records: a text, a later reply to the first record, a file of the name
\* all files have, and a deletion, which is not exported.
NoFile == [name |-> "none", source |-> 0, size |-> 0, wanted |-> TRUE]
AFile == [name |-> "n", source |-> 1, size |-> 1, wanted |-> TRUE]
SomeRecords ==
  {[type |-> "message", date |-> 1, reply |-> 0, file |-> NoFile],
   [type |-> "message", date |-> 2, reply |-> 1, file |-> NoFile],
   [type |-> "message", date |-> 2, reply |-> 0, file |-> AFile],
   [type |-> "service", action |-> "delete", date |-> 1, reply |-> 0, file |-> NoFile]}

\* A record's random id is its place, and so is the content of its file.
Numbered(list) ==
  [i \in DOMAIN list |->
     [f \in DOMAIN list[i] \cup {"id"} |->
        IF f = "id" THEN i
        ELSE IF f = "file" /\ list[i].file = AFile THEN [AFile EXCEPT !.source = i]
        ELSE list[i][f]]]
RecordLists == {Numbered(list) : list \in UNION {[1..n -> SomeRecords] : n \in 0..4}}
SavedRanges == {[from |-> 0, till |-> 0], [from |-> 1, till |-> 0], [from |-> 0, till |-> 2]}

\* Files that are downloaded, that came with their message, too large or not asked for;
\* two messages with the same file; and emoji shared by two messages.
Policies ==
  [l \in {5, 6, 7, 8, 9} |-> CASE l \in {5, 8} -> "load" [] l = 6 -> "preloaded"
                               [] l = 7 -> "FileSize" [] OTHER -> "FileType"]
Posted(id, mine, reply, location, icons) ==
  [id |-> id, mine |-> mine, reply |-> reply, file |-> location, emoji |-> icons, ttl |-> id = 3]
NewChat == {Posted(1, TRUE, 0, 5, {}), Posted(2, FALSE, 1, 0, {8, 9}),
            Posted(3, TRUE, 1, 6, {9}), Posted(4, FALSE, 0, 5, {})}
OldChat == {Posted(1, FALSE, 0, 7, {}), Posted(2, FALSE, 1, 0, {}), Posted(3, FALSE, 2, 6, {})}
SomeHistories ==
  {[new |-> {m \in NewChat : m.id <= k}, old |-> o] : k \in {0, 3, 4}, o \in {{}, OldChat}}
FetchedRanges == {[from |-> 0, till |-> 0], [from |-> 2, till |-> 4]}
Below == -10

SavingInit ==
  /\ subject \in Subjects
  /\ SaveInit
  /\ IF subject = "key" THEN DHInit
     ELSE dh_stage = "none" /\ config = 0 /\ exponent = 0 /\ public = 0 /\ agreed = 0
  /\ IF subject = "frame" THEN FrameInit
     ELSE fr_stage = "none" /\ fr_from = 0 /\ fr_body = 0 /\ frame = 0 /\ fr_reader = 0 /\ fr_result = 0
  /\ IF subject = "file" THEN FileInit
     ELSE /\ file = 0 /\ upload = 0 /\ stored = 0 /\ letters = 0 /\ layer_old = 0 /\ chat_open = 0
          /\ saver = [s \in Savers |-> Ashore] /\ target = Beforehand /\ rewrites = 0
  /\ IF subject = "kind" THEN MediaInit
     ELSE md_stage = "none" /\ ask = 0 /\ kind = 0 /\ described = 0 /\ shown = 0
  /\ IF subject = "export" THEN ExportInit
     ELSE /\ ex_stage = "none" /\ request = 0 /\ messages = 0 /\ next_slice = 0 /\ next_file = 0
          /\ copies = 0 /\ html = 0 /\ json = 0 /\ folder = 0
  /\ IF subject = "fetch" THEN FetchInit
     ELSE /\ fetch_stage = "none" /\ peer = 0 /\ range = 0 /\ takeout = 0 /\ range_count = 0
          /\ history = 0 /\ stayed = 0 /\ changes = 0 /\ dialog = 0 /\ local = 0
          /\ largest_plus_one = 0 /\ last_slice = 0 /\ slice = 0 /\ work = 0 /\ refreshes = 0
          /\ disk = 0 /\ file_cache = 0 /\ emoji = 0 /\ unresolved = 0 /\ written = <<>>
  /\ IF subject = "rich" THEN RichInit
     ELSE /\ rm_stage = "none" /\ rm_sent = 0 /\ rich = 0 /\ rm_anchors = 0 /\ rm_files = 0 /\ rm_emoji = 0
          /\ rm_work = 0 /\ rm_html = 0 /\ rm_json = 0

SavingNext ==
  /\ \/ /\ subject = "save" /\ SaveNext
        /\ UNCHANGED <<dh_vars, frame_vars, file_vars, media_vars, export_vars, fetch_vars, rich_vars>>
     \/ /\ subject = "key" /\ DHNext
        /\ UNCHANGED <<saveVars, frame_vars, file_vars, media_vars, export_vars, fetch_vars, rich_vars>>
     \/ /\ subject = "frame" /\ FrameNext
        /\ UNCHANGED <<saveVars, dh_vars, file_vars, media_vars, export_vars, fetch_vars, rich_vars>>
     \/ /\ subject = "file" /\ FileNext
        /\ UNCHANGED <<saveVars, dh_vars, frame_vars, media_vars, export_vars, fetch_vars, rich_vars>>
     \/ /\ subject = "kind" /\ MediaNext
        /\ UNCHANGED <<saveVars, dh_vars, frame_vars, file_vars, export_vars, fetch_vars, rich_vars>>
     \/ /\ subject = "export" /\ ExportNext
        /\ UNCHANGED <<saveVars, dh_vars, frame_vars, file_vars, media_vars, fetch_vars, rich_vars>>
     \/ /\ subject = "fetch" /\ FetchNext
        /\ UNCHANGED <<saveVars, dh_vars, frame_vars, file_vars, media_vars, export_vars, rich_vars>>
     \/ /\ subject = "rich" /\ RichNext
        /\ UNCHANGED <<saveVars, dh_vars, frame_vars, file_vars, media_vars, export_vars, fetch_vars>>
  /\ UNCHANGED subject

savingVars == <<subject, saveVars, dh_vars, frame_vars, file_vars, media_vars, export_vars, fetch_vars, rich_vars>>
SavingSpec == SavingInit /\ [][SavingNext]_savingVars
FairSaving == SavingSpec /\ SaveFairness
============================================================================
