------------------------------- MODULE MonitorDump -------------------------------
(***************************************************************************)
(* The durable history of the captured traffic: the writer that appends it *)
(* to rotated files and prunes the old ones (monitor-dump.js), and the     *)
(* clients that page through the files with a cursor, forwards and from    *)
(* the newest (monitor-dump-reader.js).                                    *)
(*                                                                         *)
(* A captured request is its number; 0 is a line that no longer parses.  A *)
(* whole line takes LineBytes, a line cut short one byte.                  *)
(***************************************************************************)
EXTENDS Naturals, Sequences, FiniteSets, SequencesExt

CONSTANTS Wanted,        \* the captures that the filter of a reader lets through
          Threshold,     \* pending entries that start a flush
          MaxFileBytes, MaxTotalBytes,
          DumpPage,      \* items of a page
          MaxScanned,    \* lines that a page reads at most
          MaxCaptured, MaxSession, MaxPart,  \* bounds of the checked instance
          NoTask

LineBytes == 2

ASSUME DumpAssumption ==
         /\ Wanted \subseteq Nat
         /\ {Threshold, MaxFileBytes, MaxTotalBytes, DumpPage, MaxScanned} \subseteq Nat \ {0}
         /\ MaxCaptured \in Nat /\ MaxSession \in Nat /\ MaxPart \in Nat

VARIABLES
  enabled, pending, captured,
  session, fileSeq, bytesWritten,  \* the file being written is <<session, fileSeq>>
  queue,      \* the chain of writing tasks: batches, or "prune"
  task,       \* the task at work, or NoTask
  stopping,   \* stop() awaits its last flush
  files,      \* on disk: name -> [lines, fragment]
  parts,      \* appends written in more than one piece so far
  lost,       \* history: captures that a failure, a deletion or a crash took away
  reader      \* the clients: order -> [cursor, got, whole, first]

writerVars == <<enabled, pending, captured, session, fileSeq, bytesWritten, queue, task,
                stopping, files, parts, lost>>
dumpVars == <<enabled, pending, captured, session, fileSeq, bytesWritten, queue, task,
              stopping, files, parts, lost, reader>>

current == <<session, fileSeq>>
Older(f, g) == f[1] < g[1] \/ (f[1] = g[1] /\ f[2] < g[2])

\* listDumpFiles: by session, then by the number of the rotation.
Names(fs) == SetToSortSeq(DOMAIN fs, Older)

Size(file) ==
  FoldLeft(LAMBDA n, l : n + l.bytes, 0, file.lines) + (IF file.fragment # 0 THEN 1 ELSE 0)
Total(fs, names) == FoldLeft(LAMBDA n, f : n + Size(fs[f]), 0, SetToSeq(names))

EmptyFile == [lines |-> <<>>, fragment |-> 0]
FileAt(f) == IF f \in DOMAIN files THEN files[f] ELSE EmptyFile
Stored(f, file) == [g \in DOMAIN files \cup {f} |-> IF g = f THEN file ELSE files[g]]
Without(f) == [g \in DOMAIN files \ {f} |-> files[g]]

WholeLine(n) == [id |-> n, bytes |-> LineBytes]
Lines(batch) == [i \in DOMAIN batch |-> WholeLine(batch[i])]

\* What appending a batch makes of a file: after a line cut short by a failure, the
\* first line of the batch runs into it, and neither parses.
Extended(file, batch, continues) ==
  IF batch = <<>> THEN file
  ELSE IF file.fragment = 0 \/ continues
       THEN [lines |-> file.lines \o Lines(batch), fragment |-> 0]
       ELSE [lines |-> file.lines \o <<[id |-> 0, bytes |-> LineBytes + 1]>> \o Lines(Tail(batch)),
             fragment |-> 0]

InitDump ==
  /\ enabled = FALSE /\ pending = <<>> /\ captured = 0
  /\ session = 0 /\ fileSeq = 0 /\ bytesWritten = 0
  /\ queue = <<>> /\ task = NoTask /\ stopping = FALSE
  /\ files = <<>> /\ parts = 0 /\ lost = {}
  /\ reader = [o \in {"asc", "desc"} |->
                 [cursor |-> NoTask, got |-> <<>>, whole |-> TRUE, first |-> <<>>]]

-------------------------------------------------------------------------------
(* The writer.                                                             *)

\* flush() takes every pending entry.
Taken(p) == <<>>

\* flush, up to its await: the batch joins the chain of the writing tasks.
Flushed(p) == IF p = <<>> THEN queue ELSE Append(queue, p)

\* _onEvent of a request, while subscribed.
Capture ==
  /\ enabled /\ captured < MaxCaptured
  /\ captured' = captured + 1
  /\ LET p == Append(pending, captured + 1) IN
       IF Len(p) >= Threshold
       THEN pending' = Taken(p) /\ queue' = Flushed(p)
       ELSE pending' = p /\ UNCHANGED queue
  /\ UNCHANGED <<enabled, session, fileSeq, bytesWritten, task, stopping, files, parts, lost,
                 reader>>

\* The timer, or POST /monitoring/dump/flush.
FlushPending ==
  /\ pending # <<>>
  /\ enabled
  /\ pending' = Taken(pending) /\ queue' = Flushed(pending)
  /\ UNCHANGED <<enabled, captured, session, fileSeq, bytesWritten, task, stopping, files,
                 parts, lost, reader>>

\* PATCH /monitoring/dump with enabled: it waits for its turn among the mutations, so
\* never while a stop awaits.
StartDump ==
  /\ ~enabled /\ ~stopping
  /\ session < MaxSession
  /\ enabled' = TRUE
  /\ session' = session + 1 /\ fileSeq' = 1 /\ bytesWritten' = 0
  /\ queue' = Append(queue, "prune")
  /\ UNCHANGED <<pending, captured, task, stopping, files, parts, lost, reader>>

\* Mutant: the capture ends without a last flush.
StopFlush_None(p) == queue

\* The flush with which stop() ends.
StopFlush(p) == Flushed(p)

\* stop(): no more events and no timer, then the last flush, which it awaits.
StopDump ==
  /\ enabled
  /\ enabled' = FALSE /\ stopping' = TRUE
  /\ pending' = Taken(pending) /\ queue' = StopFlush(pending)
  /\ UNCHANGED <<captured, session, fileSeq, bytesWritten, task, files, parts, lost, reader>>

StopAnswers ==
  /\ stopping /\ task = NoTask /\ queue = <<>>
  /\ stopping' = FALSE
  /\ UNCHANGED <<enabled, pending, captured, session, fileSeq, bytesWritten, queue, task,
                 files, parts, lost, reader>>

\* The file would grow beyond its limit.
MustRotate(batch) ==
  bytesWritten > 0 /\ bytesWritten + LineBytes * Len(batch) > MaxFileBytes

\* _append takes its turn: the rotation comes before the write.
BeginAppend ==
  /\ task = NoTask /\ queue # <<>> /\ Head(queue) # "prune"
  /\ queue' = Tail(queue)
  /\ LET rotated == MustRotate(Head(queue)) IN
       /\ task' = [at |-> "write", left |-> Head(queue), batch |-> Head(queue),
                   rotated |-> rotated, opened |-> FALSE, unlink |-> <<>>, total |-> 0]
       /\ fileSeq' = IF rotated THEN fileSeq + 1 ELSE fileSeq
       /\ bytesWritten' = IF rotated THEN 0 ELSE bytesWritten
  /\ UNCHANGED <<enabled, pending, captured, session, stopping, files, parts, lost, reader>>

\* A large batch reaches the disk in pieces: whole lines, then the beginning of one.
WritePart(n) ==
  /\ task # NoTask /\ task.at = "write" /\ ~task.opened
  /\ parts < MaxPart /\ FileAt(current).fragment = 0
  /\ n < Len(task.left)
  /\ parts' = parts + 1
  /\ files' = Stored(current,
                [Extended(FileAt(current), SubSeq(task.left, 1, n), FALSE)
                   EXCEPT !.fragment = task.left[n + 1]])
  /\ task' = [task EXCEPT !.left = SubSeq(@, n + 1, Len(@)), !.opened = TRUE]
  /\ UNCHANGED <<enabled, pending, captured, session, fileSeq, bytesWritten, queue, stopping,
                 lost, reader>>

Merged(file) == IF file.fragment # 0 /\ ~task.opened THEN {Head(task.left)} ELSE {}

\* The rest of the batch is on disk: the counter grows, and a rotation prunes.  Of a file
\* deleted since its first piece, the rest goes with the file.
EndAppend ==
  /\ task # NoTask /\ task.at = "write"
  /\ IF task.opened /\ current \notin DOMAIN files
     THEN UNCHANGED files /\ lost' = lost \cup ToSet(task.left)
     ELSE /\ files' = Stored(current, Extended(FileAt(current), task.left, task.opened))
          /\ lost' = lost \cup Merged(FileAt(current))
  /\ bytesWritten' = bytesWritten + LineBytes * Len(task.batch)
  /\ task' = IF task.rotated THEN [task EXCEPT !.at = "list", !.left = <<>>] ELSE NoTask
  /\ UNCHANGED <<enabled, pending, captured, session, fileSeq, queue, stopping, parts, reader>>

\* The write fails: what was not written is logged and dropped, the counter stays.
AppendFails ==
  /\ task # NoTask /\ task.at = "write"
  /\ parts < MaxPart /\ parts' = parts + 1
  /\ lost' = lost \cup ToSet(task.left)
  /\ task' = NoTask
  /\ UNCHANGED <<enabled, pending, captured, session, fileSeq, bytesWritten, queue, stopping,
                 files, reader>>

BeginPrune ==
  /\ task = NoTask /\ queue # <<>> /\ Head(queue) = "prune"
  /\ queue' = Tail(queue)
  /\ task' = [at |-> "list", left |-> <<>>, batch |-> <<>>, rotated |-> FALSE,
              opened |-> FALSE, unlink |-> <<>>, total |-> 0]
  /\ UNCHANGED <<enabled, pending, captured, session, fileSeq, bytesWritten, stopping, files,
                 parts, lost, reader>>

\* Mutant: the active file is a candidate like the others.
Candidates_All(names) == names

\* The files that a pruning may delete, oldest first: never the one being written.  The
\* code sorts by the time of the last write, which is the order of the names: a file is
\* written only after every older one was.
Candidates(names) == SelectSeq(names, LAMBDA f : f # current)

\* _prune reads the sizes of the other files and counts the active one by its counter.
ListForPrune ==
  /\ task # NoTask /\ task.at = "list"
  /\ LET others == Candidates(Names(files)) IN
       task' = [task EXCEPT !.at = "unlink", !.unlink = others,
                            !.total = bytesWritten + Total(files, ToSet(others))]
  /\ UNCHANGED <<enabled, pending, captured, session, fileSeq, bytesWritten, queue, stopping,
                 files, parts, lost, reader>>

IdsIn(file) == {file.lines[i].id : i \in DOMAIN file.lines} \ {0}

\* A file disappears: its captures are gone, and a client in the middle of its pages
\* finds the other files under other positions.
Removed(f) ==
  /\ files' = Without(f)
  /\ lost' = lost \cup (IF f \in DOMAIN files THEN IdsIn(files[f]) ELSE {})
  /\ reader' = [o \in DOMAIN reader |-> [reader[o] EXCEPT !.whole = f \notin DOMAIN files /\ @]]

Fits == task.total <= MaxTotalBytes

\* unlink of the oldest candidate.
PruneOne ==
  /\ task # NoTask /\ task.at = "unlink" /\ task.unlink # <<>> /\ ~Fits
  /\ Head(task.unlink) \in DOMAIN files
  /\ Removed(Head(task.unlink))
  /\ task' = [task EXCEPT !.unlink = Tail(@), !.total = @ - Size(files[Head(task.unlink)])]
  /\ UNCHANGED <<enabled, pending, captured, session, fileSeq, bytesWritten, queue, stopping,
                 parts>>

\* The candidate is no longer there: the error ends the pruning.
PruneFails ==
  /\ task # NoTask /\ task.at = "unlink" /\ task.unlink # <<>> /\ ~Fits
  /\ Head(task.unlink) \notin DOMAIN files
  /\ task' = NoTask
  /\ UNCHANGED <<enabled, pending, captured, session, fileSeq, bytesWritten, queue, stopping,
                 files, parts, lost, reader>>

EndPrune ==
  /\ task # NoTask /\ task.at = "unlink" /\ (task.unlink = <<>> \/ Fits)
  /\ task' = NoTask
  /\ UNCHANGED <<enabled, pending, captured, session, fileSeq, bytesWritten, queue, stopping,
                 files, parts, lost, reader>>

\* DELETE /monitoring/dumps/:file, also of the file being written.
DeleteFile(f) ==
  /\ ~stopping /\ f \in DOMAIN files
  /\ Removed(f)
  /\ UNCHANGED <<enabled, pending, captured, session, fileSeq, bytesWritten, queue, task,
                 stopping, parts>>

\* The process ends: what was not on disk is lost.  A new engine has a new writer.
DumpDown ==
  /\ lost' = lost \cup ToSet(pending)
               \cup UNION {ToSet(queue[i]) : i \in {j \in DOMAIN queue : queue[j] # "prune"}}
               \cup (IF task # NoTask THEN ToSet(task.left) ELSE {})
  /\ enabled' = FALSE /\ pending' = <<>> /\ queue' = <<>> /\ task' = NoTask /\ stopping' = FALSE
  /\ fileSeq' = 0 /\ bytesWritten' = 0
  /\ UNCHANGED <<captured, session, files, parts, reader>>

-------------------------------------------------------------------------------
(* The pages.  A cursor is [file, line, byte]: the position of the file in *)
(* the list, the lines before the point of resumption, and its byte.       *)

\* The bytes at which the lines of a file begin, and its end.
LineStart(file, k) == FoldLeft(LAMBDA n, l : n + l.bytes, 0, SubSeq(file.lines, 1, k))
Readable(file) ==
  file.lines \o (IF file.fragment # 0 THEN <<[id |-> 0, bytes |-> 1]>> ELSE <<>>)
Whole(file) == [lines |-> Readable(file), fragment |-> 0]

\* isLineStart and the direct resumption: the lines before byte b, if a line begins there.
LinesBefore(file, b) == {k \in 0..Len(file.lines) : LineStart(file, k) = b}

\* Where to resume in a file: the lines skipped, and the number given to the next.
Resume(file, c) ==
  IF LinesBefore(file, c.byte) # {}
  THEN [skip |-> CHOOSE k \in LinesBefore(file, c.byte) : TRUE, line |-> c.line]
  ELSE [skip |-> IF c.line < Len(Whole(file).lines) THEN c.line ELSE Len(Whole(file).lines),
        line |-> c.line]

Positions(i, skip, line) ==
  LET f == Names(files)[i]  whole == Whole(files[f]) IN
    [k \in 1..(Len(whole.lines) - skip) |->
       [id |-> whole.lines[skip + k].id, key |-> <<f, line + k - 1>>,
        cut |-> files[f].fragment # 0 /\ skip + k = Len(whole.lines),
        file |-> i, line |-> line + k, byte |-> LineStart(whole, skip + k)]]

\* The lines after a cursor, through every following file.
LinesAhead(c) ==
  IF c.file > Len(Names(files)) THEN <<>>
  ELSE LET r == Resume(files[Names(files)[c.file]], c) IN
       FlattenSeq([j \in 1..(Len(Names(files)) - c.file + 1) |->
                     IF j = 1 THEN Positions(c.file, r.skip, r.line)
                     ELSE Positions(c.file + j - 1, 0, 0)])

\* The lines before a point of a file, the last first, with the number and the byte of
\* the beginning of each.
PositionsBack(i, upto, line) ==
  LET f == Names(files)[i]  whole == Whole(files[f]) IN
    [k \in 1..(IF line < upto THEN upto - 1 ELSE upto) |->
       [id |-> whole.lines[upto - k + 1].id, key |-> <<f, line - k>>, cut |-> FALSE,
        file |-> i, line |-> line - k, byte |-> LineStart(whole, upto - k)]]

EndOfFile(i) ==
  LET whole == Whole(files[Names(files)[i]]) IN
    [file |-> i, line |-> Len(whole.lines), byte |-> Size(whole)]

\* The cursor from which a page from the newest starts, on the files of now.
BackFrom(c) ==
  IF c = NoTask \/ (c # NoTask /\ c.file > Len(Names(files))) THEN EndOfFile(Len(Names(files)))
  ELSE c

LinesBehind(c) ==
  IF Names(files) = <<>> THEN <<>>
  ELSE LET from == BackFrom(c)
           whole == Whole(files[Names(files)[from.file]])
           upto == IF LinesBefore(whole, from.byte) # {}
                   THEN CHOOSE k \in LinesBefore(whole, from.byte) : TRUE
                   ELSE IF from.line < Len(whole.lines) THEN from.line ELSE Len(whole.lines)
       IN FlattenSeq([j \in 1..from.file |->
            IF j = 1 THEN PositionsBack(from.file, upto, from.line)
            ELSE PositionsBack(from.file - j + 1, EndOfFile(from.file - j + 1).line,
                               EndOfFile(from.file - j + 1).line)])

MatchingLines(s) == SelectSeq(s, LAMBDA p : p.id \in Wanted)

\* The lines that a page reads: up to a full page, or to the cap on scanned lines.
PageOf(s) ==
  LET full == {n \in DOMAIN s : Len(MatchingLines(SubSeq(s, 1, n))) = DumpPage}
      n == IF full = {} THEN Len(s) ELSE CHOOSE m \in full : \A k \in full : m <= k
  IN SubSeq(s, 1, IF n < MaxScanned THEN n ELSE MaxScanned)

PageIsFull(p) == Len(MatchingLines(p)) = DumpPage \/ Len(p) = MaxScanned

LineItem(p) == [id |-> p.id, key |-> p.key]
LineItems(p) == [i \in DOMAIN MatchingLines(p) |-> LineItem(MatchingLines(p)[i])]

\* Mutant: the next page starts again at the last line of this one.
NextForward_SameLine(p) ==
  LET l == Last(p) IN [file |-> l.file, line |-> l.line - 1, byte |-> l.byte - LineBytes]

\* The cursor after a full page.
NextForward(p) == LET l == Last(p) IN [file |-> l.file, line |-> l.line, byte |-> l.byte]

\* A page from the newest that ends with the first line of a file goes on to the file before.
NextBack(p) ==
  LET l == Last(p) IN
    IF l.line # 0 THEN [file |-> l.file, line |-> l.line, byte |-> l.byte]
    ELSE IF l.file = 1 THEN NoTask ELSE EndOfFile(l.file - 1)

Content == FlattenSeq([i \in DOMAIN Names(files) |-> Positions(i, 0, 0)])

\* GET /monitoring/dumps/read: the client passes the cursor back as received; after the
\* last page it starts again.
ReadForwardPage ==
  LET r == reader["asc"]
      start == r.cursor = NoTask
      c == IF start THEN [file |-> 1, line |-> 0, byte |-> 0] ELSE r.cursor
      p == PageOf(LinesAhead(c))
      before == IF start THEN <<>> ELSE r.got
  IN /\ reader' = [reader EXCEPT !["asc"] =
                     [cursor |-> IF PageIsFull(p) THEN NextForward(p) ELSE NoTask,
                      got |-> before \o LineItems(p),
                      whole |-> (start \/ r.whole) /\ \A i \in DOMAIN p : ~p[i].cut,
                      first |-> <<>>]]
     /\ UNCHANGED writerVars

\* With order=desc.
ReadBackPage ==
  LET r == reader["desc"]
      start == r.cursor = NoTask
      p == PageOf(LinesBehind(r.cursor))
  IN /\ reader' = [reader EXCEPT !["desc"] =
                     [cursor |-> IF PageIsFull(p) THEN NextBack(p) ELSE NoTask,
                      got |-> (IF start THEN <<>> ELSE r.got) \o LineItems(p),
                      whole |-> start \/ r.whole,
                      first |-> IF start THEN LineItems(Content) ELSE r.first]]
     /\ UNCHANGED writerVars

-------------------------------------------------------------------------------
ReaderStep == ReadForwardPage \/ ReadBackPage

DumpStep ==
  \/ FlushPending \/ StartDump \/ StopDump \/ StopAnswers
  \/ BeginAppend \/ (\E n \in 0..Threshold : WritePart(n)) \/ EndAppend \/ AppendFails
  \/ BeginPrune \/ ListForPrune \/ PruneOne \/ PruneFails \/ EndPrune
  \/ (\E f \in DOMAIN files : DeleteFile(f))
  \/ ReaderStep

InMemory ==
  (IF task # NoTask THEN task.left ELSE <<>>)
    \o FlattenSeq(SelectSeq(queue, LAMBDA b : b # "prune")) \o pending
OnDisk == SelectSeq([i \in DOMAIN Content |-> Content[i].id], LAMBDA n : n # 0)

Increasing(s) == \A i, j \in DOMAIN s : i < j => s[i] < s[j]

\* Every capture of a recorded session is on disk or on its way there, once and in the
\* order of the traffic, across flushes by the timer, the threshold and the stop,
\* rotations, restarts of the capture and writes in pieces, unless a failed write, a
\* deletion or a crash took it away.  A write that failed or crashed within a line takes
\* the first of the next batch for that file too, which runs into it.
CapturesKept ==
  /\ Increasing(OnDisk \o InMemory)
  /\ 1..captured \ lost \subseteq ToSet(OnDisk \o InMemory)

\* A pruning deletes the oldest file but the one being written, only while the total
\* exceeds the limit, and ends within it or with no other file, unless one disappeared
\* under it.
PruneBounded ==
  [][(task # NoTask /\ task.at = "unlink" /\ ToSet(task.unlink) \subseteq DOMAIN files) =>
       /\ PruneOne => /\ Head(task.unlink) # current
                      /\ \A f \in DOMAIN files \ {current} : ~Older(f, Head(task.unlink))
                      /\ bytesWritten + Total(files, DOMAIN files \ {current}) > MaxTotalBytes
       /\ EndPrune => \/ DOMAIN files \subseteq {current}
                      \/ bytesWritten + Total(files, DOMAIN files \ {current}) <= MaxTotalBytes]_dumpVars

\* A client that pages forwards never gets a capture twice; unless a file was deleted or
\* a line was read while it was being written, it has every matching capture before its
\* cursor, each under the key that finds it again.  From the newest, it gets what was
\* there at its first page and nothing written later.
PagesComplete ==
  LET asc == reader["asc"]  desc == reader["desc"]
      ids(s) == [i \in DOMAIN s |-> s[i].id]
      all == LineItems(Content)
  IN /\ Increasing(ids(asc.got))
     /\ asc.whole => IsPrefix(asc.got, all)
     /\ asc.whole /\ asc.cursor # NoTask =>
          asc.got \o LineItems(LinesAhead(asc.cursor)) = all
     /\ desc.whole => IsPrefix(desc.got, Reverse(desc.first))
     /\ desc.whole /\ desc.cursor = NoTask => Len(desc.got) = Len(desc.first)

\* The durable history is whole at both ends: what was captured is written once and in
\* order, who pages through it gets it all, and pruning takes no more than it must.
HistoryWhole == [](CapturesKept /\ PagesComplete) /\ PruneBounded

==============================================================================
