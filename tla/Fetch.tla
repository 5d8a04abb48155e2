-------------------------------- MODULE Fetch -------------------------------
(***************************************************************************)
(* The export of an online chat (tdexport/fetch.py, fetch_files.py,        *)
(* model_dialogs.py): through a takeout session or without one, split by   *)
(* split and slice by slice, while the history changes on the server, with *)
(* the files and custom emoji of each slice loaded before it is written.   *)
(*                                                                         *)
(* The server's answers are external, as fetch.py uses them.  A message's  *)
(* date is its id; a file is its location, a number, which also stands for *)
(* its content: 0 is no file and GONE one that has neither.                *)
(***************************************************************************)
EXTENDS Integers, Sequences, FiniteSetsExt, SequencesExt

CONSTANTS
  PeerKinds,       \* which of "user", "group", "supergroup", "channel"
  Histories,       \* what the chat and the group it was made from may hold
  SplitCounts,     \* how many ranges the server may name, 0 for none
  LastOfFirst,     \* the last id of the first of two ranges
  FetchRanges,     \* the date ranges asked for
  SLICE,           \* _MESSAGES_SLICE_LIMIT: 100 in the code
  EMOJI_CHUNK,     \* _MAX_EMOJI_PER_REQUEST: 100
  CACHE,           \* _LOCATION_CACHE_SIZE: 100000
  MaxRefreshes,    \* _MAX_REFERENCE_REFRESHES: 3
  MIGRATED_SHIFT,  \* MIGRATED_MESSAGES_ID_SHIFT: below every id
  Policy,          \* [location -> "load", "preloaded", "FileType" or "FileSize"]; an
                   \* emoji is the location of its document
  MaxChanges       \* how many messages come or go meanwhile

VARIABLES
  fetch_stage, peer, range, takeout,
  range_count, \* len(self.splits)
  history,     \* what the server holds, per peer: "new" and "old"
  stayed,      \* what it has held all along
  changes,
  dialog,      \* DialogInfo: splits, counts, only_my_messages
  local, largest_plus_one, last_slice,
  slice,       \* the messages read, with what their files became
  work,        \* the files still to load: the message, the location, is it an emoji
  refreshes,
  disk,        \* path -> what is in the file
  file_cache,  \* <<location, path>>, the oldest first
  emoji,       \* resolved_emoji: id -> what its file became
  unresolved,
  written      \* what the writer was given, in order
filesVars == <<work, refreshes, disk, file_cache, emoji, unresolved>>
position == <<local, largest_plus_one, last_slice>>
serverVars == <<peer, range, history, stayed, changes>>
fetch_vars == <<fetch_stage, serverVars, takeout, range_count, dialog, position,
                slice, filesVars, written>>

NOFILE == 0
GONE == -1
Goto(s) == fetch_stage' = s

(***************************************************************************)
(* The session and the dialog                                              *)
(***************************************************************************)
\* A refused takeout leaves the ordinary client, which has one range; so has a
\* takeout session that names none.
OpenSession ==
  /\ fetch_stage = "session"
  /\ takeout' \in BOOLEAN
  /\ range_count' \in (IF takeout' THEN {Max({n, 1}) : n \in SplitCounts} ELSE {1})
  /\ Goto("dialog")
  /\ UNCHANGED <<serverVars, dialog, position, slice, filesVars, written>>

IsChannel == peer.kind \in {"supergroup", "channel"}
Ascending(S) == SetToSortSeq(S, <)

\* append_chats_slice and add_migrate_from_slice: a channel is read in its last
\* range, other chats in each; the old group's ranges are the negative ones.
CollectDialog ==
  /\ fetch_stage = "dialog"
  /\ LET own == IF IsChannel THEN {range_count - 1} ELSE 0..(range_count - 1)
         old == IF peer.kind = "supergroup" /\ peer.migrated THEN (-range_count)..(-1) ELSE {}
         splits == Ascending(own \cup old)
     IN dialog' = [splits |-> splits, counts |-> [i \in DOMAIN splits |-> 0], mine |-> FALSE]
  /\ Goto("count")
  /\ UNCHANGED <<serverVars, takeout, range_count, position, slice, filesVars, written>>

(***************************************************************************)
(* What the server answers                                                 *)
(***************************************************************************)
RealSplit(split) == IF split >= 0 THEN split ELSE range_count + split
InSplit(m, split) ==
  \/ range_count = 1 \/ (IsChannel /\ split >= 0)
  \/ (m.id <= LastOfFirst) = (RealSplit(split) = 0)

\* After CHANNEL_PRIVATE only the user's own messages are searched for.
Readable(split, held) ==
  {m \in held[IF split >= 0 THEN "new" ELSE "old"] :
     InSplit(m, split) /\ (dialog.mine => m.mine)}

Split == dialog.splits[local]
IdsOf(S) == {m.id : m \in S}

\* The newest message decides whether the range begins before it.
CountMessages ==
  LET read == Readable(Split, history)
      n == IF read # {} /\ Max(IdsOf(read)) > range.from THEN Cardinality(read) ELSE 0
      counted == local = Len(dialog.splits)
  IN /\ fetch_stage = "count"
     /\ dialog' = [dialog EXCEPT !.counts[local] = n]
     /\ IF n > 0 /\ range.till > 0 THEN Goto("oldest") /\ UNCHANGED local
        ELSE Goto(IF counted THEN "slice" ELSE "count") /\ local' = (IF counted THEN 1 ELSE local + 1)
     /\ UNCHANGED <<serverVars, takeout, range_count, largest_plus_one, last_slice, slice,
                    filesVars, written>>

\* Its oldest message, whether it ends after it.
CheckOldest ==
  LET read == Readable(Split, history)
      before == read # {} /\ Min(IdsOf(read)) < range.till
      counted == local = Len(dialog.splits)
  IN /\ fetch_stage = "oldest"
     /\ dialog' = [dialog EXCEPT !.counts[local] = IF before THEN @ ELSE 0]
     /\ Goto(IF counted THEN "slice" ELSE "count") /\ local' = (IF counted THEN 1 ELSE local + 1)
     /\ UNCHANGED <<serverVars, takeout, range_count, largest_plus_one, last_slice, slice,
                    filesVars, written>>

Skipped(m) == (range.from > 0 /\ m.id < range.from) \/ (range.till > 0 /\ m.id >= range.till)

\* parse_message: the file of what another one sent to be seen once is dropped.
parse_message(m) ==
  [id |-> m.id, reply |-> m.reply, split |-> Split, emoji |-> m.emoji, results |-> <<>>,
   file |-> IF m.file # NOFILE /\ m.ttl /\ ~m.mine THEN GONE ELSE m.file]

\* The slice that begins at the id after the last one read.  An answer that is the whole
\* history, and an empty one, are the last.
ReadSlice ==
  LET read == Readable(Split, history)
      rest == {m \in read : m.id >= largest_plus_one}
      ordered == SetToSortSeq(rest, LAMBDA a, b : a.id < b.id)
      answer == IF dialog.counts[local] = 0 THEN <<>>
                ELSE SubSeq(ordered, 1, Min({SLICE, Len(ordered)}))
  IN /\ fetch_stage = "slice"
     /\ slice' = [i \in DOMAIN answer |-> parse_message(answer[i])]
     /\ last_slice' = (answer = <<>> \/ Cardinality(read) <= SLICE)
     /\ unresolved' = unresolved \cup
          (UNION {answer[i].emoji : i \in {k \in DOMAIN answer : ~Skipped(answer[k])}} \ DOMAIN emoji)
     /\ Goto("emoji")
     /\ UNCHANGED <<serverVars, takeout, range_count, dialog, local, largest_plus_one, work,
                    refreshes, disk, file_cache, emoji, written>>

\* We were removed from the channel: the request that fails is repeated as a search.
Removed ==
  /\ fetch_stage \in {"count", "oldest", "slice"} /\ IsChannel /\ Split >= 0 /\ ~dialog.mine
  /\ dialog' = [dialog EXCEPT !.mine = TRUE]
  /\ UNCHANGED <<fetch_stage, serverVars, takeout, range_count, position, slice, filesVars, written>>

\* Others write and delete; an id is never used again.
Changed ==
  /\ fetch_stage \notin {"done", "failed"} /\ changes < MaxChanges /\ changes' = changes + 1
  /\ \/ \E m \in history["new"] : /\ history' = [history EXCEPT !["new"] = @ \ {m}]
                                  /\ stayed' = [stayed EXCEPT !["new"] = @ \ {m}]
     \/ /\ \E m \in UNION {h["new"] : h \in Histories} :
             /\ \A held \in history["new"] \cup stayed["new"] : held.id < m.id
             /\ \A w \in Range(written) \cup Range(slice) : w.split >= 0 => w.id < m.id
             /\ history' = [history EXCEPT !["new"] = @ \cup {m}]
        /\ UNCHANGED stayed
  /\ UNCHANGED <<fetch_stage, peer, range, takeout, range_count, dialog, position, slice,
                 filesVars, written>>

(***************************************************************************)
(* fetch_files.py                                                          *)
(***************************************************************************)
NotLoaded == [path |-> 0, skip |-> "none"]
Skip(reason) == [path |-> 0, skip |-> reason]
Loaded(path) == [path |-> path, skip |-> "none"]

\* message_file_work of the slice: the emoji of each message, then its file.
FileWork ==
  LET Of(i) == [k \in 1..Cardinality(slice[i].emoji) |->
                   [at |-> i, location |-> Ascending(slice[i].emoji)[k], emoji |-> TRUE]]
                 \o (IF slice[i].file = NOFILE THEN <<>>
                     ELSE <<[at |-> i, location |-> slice[i].file, emoji |-> FALSE]>>)
  IN FlattenSeq([i \in DOMAIN slice |-> IF Skipped(slice[i]) THEN <<>> ELSE Of(i)])

\* resolve_custom_emoji: the largest ids first; those of a request that fails are unavailable.
ResolveEmoji ==
  LET ids == Ascending(unresolved)
      chunk == Range(SubSeq(ids, Max({1, Len(ids) - EMOJI_CHUNK + 1}), Len(ids)))
  IN /\ fetch_stage = "emoji"
     /\ unresolved' = unresolved \ chunk
     /\ \E result \in {NotLoaded, Skip("Unavailable")} :
          emoji' = [e \in DOMAIN emoji \cup chunk |-> IF e \in chunk THEN result ELSE emoji[e]]
     /\ IF unresolved' = {} THEN work' = FileWork /\ Goto("files") ELSE UNCHANGED <<work, fetch_stage>>
     /\ UNCHANGED <<serverVars, takeout, range_count, dialog, position, slice, refreshes, disk,
                    file_cache, written>>

Item == Head(work)
Location == Item.location
Loading == fetch_stage = "files" /\ work # <<>>
Handled == IF Item.emoji THEN emoji[Location] ELSE NotLoaded
Cached == {i \in DOMAIN file_cache : file_cache[i].location = Location}
FreePath == Min((1..(Cardinality(DOMAIN disk) + 1)) \ DOMAIN disk)
loadRest == <<serverVars, takeout, range_count, dialog, position, unresolved, written>>

\* LoadedFileCache.save
save(path) ==
  LET more == Append(file_cache, [location |-> Location, path |-> path])
  IN file_cache' = IF Len(more) > CACHE THEN Tail(more) ELSE more

\* LazyFile: the file is there from its first block on.
Write(path, whole) ==
  disk' = [p \in DOMAIN disk \cup {path} |->
             IF p = path THEN [location |-> Location, whole |-> whole] ELSE disk[p]]

\* What became of a file is kept with its message, and with the document of an emoji.
Settle(result) ==
  /\ slice' = [slice EXCEPT ![Item.at].results =
                 Append(@, [location |-> Location, path |-> result.path, skip |-> result.skip])]
  /\ emoji' = IF Item.emoji THEN [emoji EXCEPT ![Location] = result] ELSE emoji
  /\ work' = Tail(work) /\ refreshes' = 0

\* apply_file_policy
Reason == IF Handled # NotLoaded THEN Handled.skip
          ELSE IF Location = GONE THEN "Unavailable"
          ELSE IF Policy[Location] \in {"FileType", "FileSize"} THEN Policy[Location] ELSE "none"

SkipFile ==
  /\ Loading /\ (Reason # "none" \/ Handled # NotLoaded)
  /\ Settle([path |-> Handled.path, skip |-> Reason])
  /\ UNCHANGED <<fetch_stage, disk, file_cache, loadRest>>

FromCache ==
  /\ Loading /\ Reason = "none" /\ Handled = NotLoaded /\ Cached # {}
  /\ Settle(Loaded(file_cache[Max(Cached)].path))
  /\ UNCHANGED <<fetch_stage, disk, file_cache, loadRest>>

\* A file whose content came with its message is written, another is downloaded.
StartFile ==
  /\ Loading /\ Reason = "none" /\ Handled = NotLoaded /\ Cached = {}
  /\ IF Policy[Location] = "preloaded"
     THEN /\ Write(FreePath, TRUE) /\ save(FreePath)
          /\ Settle(Loaded(FreePath)) /\ UNCHANGED fetch_stage
     ELSE Goto("download") /\ UNCHANGED <<slice, emoji, work, refreshes, disk, file_cache>>
  /\ UNCHANGED loadRest

\* The path was chosen before the download, and nothing else writes meanwhile.
Downloaded == LET mine == {p \in DOMAIN disk : ~disk[p].whole /\ disk[p].location = Location}
              IN IF refreshes > 0 /\ mine # {} THEN Max(mine) ELSE FreePath

FinishDownload ==
  /\ fetch_stage = "download"
  /\ Write(Downloaded, TRUE) /\ save(Downloaded) /\ Settle(Loaded(Downloaded))
  /\ Goto("files") /\ UNCHANGED loadRest

Unavailable == Settle(Skip("Unavailable"))

\* An error before or after the first block: the file is unavailable, or its reference has
\* expired and is asked for again, or the export fails.
BreakOff ==
  /\ fetch_stage = "download"
  /\ UNCHANGED disk \/ Write(Downloaded, FALSE)
  /\ \/ Unavailable /\ Goto("files")
     \/ /\ refreshes < MaxRefreshes /\ refreshes' = refreshes + 1
        /\ UNCHANGED <<slice, emoji, work, fetch_stage>>
     \/ Goto("failed") /\ UNCHANGED <<slice, emoji, work, refreshes>>
  /\ UNCHANGED <<file_cache, loadRest>>

(***************************************************************************)
(* The writer, and the next slice                                          *)
(***************************************************************************)
\* adjust_migrate_message_ids: the old group's ids sort before all others.
Shown(m, id) == IF m.split < 0 /\ id > 0 THEN id + MIGRATED_SHIFT ELSE id
adjust_migrate_message_ids(list) ==
  [i \in DOMAIN list |->
     [list[i] EXCEPT !.id = Shown(list[i], @), !.reply = Shown(list[i], @)]]

\* Faulty variant: the place in the history is taken from the ids as written.
Bad_NextOffset == Last(adjust_migrate_message_ids(slice)).id + 1

NextOffset == Last(slice).id + 1

\* The slice is written; after the last of a split the next one begins.
WriteMessages ==
  /\ fetch_stage = "files" /\ work = <<>>
  /\ written' = written \o adjust_migrate_message_ids(slice)
  /\ LET more == local < Len(dialog.splits)
     IN /\ local' = IF last_slice /\ more THEN local + 1 ELSE local
        /\ last_slice' = (last_slice /\ ~more)
        /\ largest_plus_one' = IF last_slice /\ more THEN 1
                               ELSE IF slice = <<>> THEN largest_plus_one ELSE NextOffset
        /\ Goto(IF last_slice' THEN "done" ELSE "slice")
  /\ slice' = <<>>
  /\ UNCHANGED <<serverVars, takeout, range_count, dialog, filesVars>>

FetchInit ==
  /\ fetch_stage = "session"
  /\ peer \in [kind : PeerKinds, migrated : BOOLEAN]
  /\ (peer.migrated => peer.kind = "supergroup")
  /\ range \in FetchRanges /\ history \in Histories
  /\ (~peer.migrated => history["old"] = {})
  /\ stayed = history /\ changes = 0
  /\ takeout = FALSE /\ range_count = 0
  /\ dialog = [splits |-> <<>>, counts |-> <<>>, mine |-> FALSE]
  /\ local = 1 /\ largest_plus_one = 1 /\ last_slice = FALSE
  /\ slice = <<>> /\ work = <<>> /\ refreshes = 0 /\ disk = <<>> /\ file_cache = <<>>
  /\ emoji = <<>> /\ unresolved = {} /\ written = <<>>

FetchNext ==
  \/ OpenSession \/ CollectDialog \/ CountMessages \/ CheckOldest \/ ReadSlice
  \/ Removed \/ Changed \/ ResolveEmoji \/ SkipFile \/ FromCache \/ StartFile
  \/ FinishDownload \/ BreakOff \/ WriteMessages
FetchSpec == FetchInit /\ [][FetchNext]_fetch_vars

(***************************************************************************)
(* What was written                                                        *)
(***************************************************************************)
\* A message of the very first moment asked for is left out when it is its split's
\* newest: the count looks for one after it.
Owed(held) == {m.id : m \in {o \in held : ~Skipped(o) /\ (range.from > 0 => o.id # range.from)}}

(***************************************************************************)
(* The writer is given no message twice and each in the order of the       *)
(* history, the old group first; when the export is done, every message    *)
(* of the range that was on the server from the start to the end is        *)
(* written, unless we were removed meanwhile; and a path that a message    *)
(* names holds the whole of the file it stands for (export_dialog,         *)
(* adjust_migrate_message_ids, load_file).                                 *)
(***************************************************************************)
FetchedIsWhole ==
  /\ \A i, j \in DOMAIN written : i < j => written[i].id < written[j].id
  /\ \A i \in DOMAIN written :
       /\ written[i].reply # 0 => written[i].reply < written[i].id
       /\ \A k \in DOMAIN written[i].results :
            LET r == written[i].results[k]
            IN r.skip = "none" => disk[r.path] = [location |-> r.location, whole |-> TRUE]
  /\ fetch_stage = "done" /\ ~dialog.mine =>
       Owed(stayed["new"]) \cup {id + MIGRATED_SHIFT : id \in Owed(stayed["old"])}
         \subseteq {written[i].id : i \in DOMAIN written}
=============================================================================
