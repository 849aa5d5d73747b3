------------------------------ MODULE FileTail -------------------------------
(***************************************************************************)
(* FileTailer of crates/ffwd-io/src/tail: discovery by glob, rotation by   *)
(* identity and fingerprint, budgeted reads, truncation, deletion, the     *)
(* open-file limit with its evicted offsets, error backoff, the shutdown   *)
(* poll, and the restoration of offsets by source id after a restart.  The *)
(* file system is the environment: between any two steps of a poll files   *)
(* are created, written, renamed, deleted or truncated by other processes. *)
(*                                                                         *)
(* A byte is a number that is never written twice, a fingerprint is the    *)
(* prefix it hashes (<<>> is the sentinel 0 of an empty file), and a       *)
(* source id is an inode with a fingerprint: hashes do not collide.  The   *)
(* ages that choose the files to evict, the idle window before an end of   *)
(* file and the other timers are abstracted to any choice.                 *)
(***************************************************************************)
EXTENDS Naturals, FiniteSets, Sequences, TLC

CONSTANTS
    Paths,          \* the names the input watches
    Inodes,
    Nil,            \* no inode, no saved offset
    IsGlob,         \* the input is configured with a glob pattern
    FingerprintBytes,
    Budget,         \* per_file_read_budget_bytes
    MaxOpen,        \* max_open_files
    MaxBytes,       \* bound: bytes ever written
    MaxEvents       \* bound: renames, deletions, truncations, failing system
                    \* calls and crashes

ASSUME TailAssumptions ==
    /\ Nil \notin Inodes
    /\ IsGlob \in BOOLEAN
    /\ {FingerprintBytes, Budget} \subseteq Nat \ {0}
    /\ {MaxOpen, MaxBytes, MaxEvents} \subseteq Nat

VARIABLES
    link,           \* the inode at each watched name, or Nil
    elsewhere,      \* inodes that have a name the input does not watch
    content,        \* the bytes of each inode
    written,        \* bytes written so far: the next one is written + 1
    files,          \* open files by path
    evicted,        \* evicted_offsets by path
    watch,          \* watch_paths
    pc,             \* the part of the poll that runs
    todo,           \* the paths it has still to visit
    shutdown,       \* the polls are shutdown polls
    had_data, had_error,
    backoff,        \* error_backoff_until is in the future
    saved,          \* the checkpoint store: source id -> offset
    owed,           \* bytes written within reach of the tailer and not delivered yet
    unflushed,      \* path and source with data after their last EndOfFile, Truncated or Rotated
    abandoned,      \* without a failing call the tailer has closed a file with bytes left
                    \* and no watched name
    unseen,         \* inodes truncated between polls and not looked at since
    raced,          \* inodes truncated while a poll ran: the copytruncate window
    strayed,        \* inodes of which a failed read dropped bytes or lost the cursor
    events          \* the disturbances so far

fsVars == <<link, elsewhere, content, written>>
tailVars == <<files, evicted, watch>>
pollVars == <<pc, todo, shutdown, had_data, had_error, backoff>>
ghosts == <<owed, unflushed, abandoned, unseen, raced, strayed>>
allVars == <<fsVars, tailVars, pollVars, saved, ghosts, events>>

-----------------------------------------------------------------------------
(* Sequences and maps.                                                     *)

Least(m, n) == IF m < n THEN m ELSE n
Prefix(s, n) == SubSeq(s, 1, Least(n, Len(s)))
Bytes(s) == {s[k] : k \in DOMAIN s}
Rest(s, n) == SubSeq(s, n + 1, Len(s))
With(f, p, x) == [q \in DOMAIN f \cup {p} |-> IF q = p THEN x ELSE f[q]]
Without(f, S) == [q \in DOMAIN f \ S |-> f[q]]
Empty == [p \in {} |-> Nil]

(* Identity.                                                               *)

Fingerprint(s) == Prefix(s, FingerprintBytes)
ObservedFingerprintLen(fp, size) == IF fp = <<>> THEN 0 ELSE Least(size, FingerprintBytes)
SourceId(h) == <<h.inode, h.fp>>
HasSource(h) == h.fp # <<>>

Deleted(i) == i \notin elsewhere /\ \A p \in Paths : link[p] # i
Opened(i) == \E p \in DOMAIN files : files[p].inode = i
Reachable(i) == Opened(i) \/ \E p \in Paths : link[p] = i

-----------------------------------------------------------------------------
(* FileReader.                                                             *)

(* Mutation: the saved offset of a path is used for whatever has its inode *)
(* now.                                                                    *)
EvictedMatchesInode(e, i, fp, now, size) == e.inode = i

EvictedMatches(e, i, fp, now, size) ==
    /\ e.inode = i
    /\ IF e.len > 0 /\ e.len < FingerprintBytes
       THEN e.cmp = Prefix(now, e.len) /\ (e.offset <= e.len \/ size < e.offset)
       ELSE e.cmp = fp

(* The keys under which open_file_at may find a saved offset: the path, or *)
(* any other path with the same source id.                                 *)
EvictedKeys(p, i, fp) ==
    IF p \in DOMAIN evicted THEN {p}
    ELSE LET same == {q \in DOMAIN evicted : SourceId(evicted[q]) = <<i, fp>>}
         IN  IF fp = <<>> \/ same = {} THEN {Nil} ELSE same

(* open_file_at(path, false) of inode i: the fingerprint is taken from     *)
(* before, the size from now (a writer may append in between).             *)
OpenFileAt(key, i, before, now) ==
    LET fp == Fingerprint(before)
        size == Len(now)
        fresh == [inode |-> i, fp |-> fp, cmp |-> fp, offset |-> 0, cursor |-> 0,
                  eof |-> "fresh", len |-> ObservedFingerprintLen(fp, size)]
    IN  IF key # Nil /\ EvictedMatches(evicted[key], i, fp, now, size)
        THEN [evicted[key] EXCEPT !.cursor = evicted[key].offset] ELSE fresh

(* Active::read_new_data: size is read from before, the bytes from now.    *)
(* First, a file that is shorter than the offset is begun again.           *)
Rewound(h, before, now) ==
    LET fp == Fingerprint(now)
    IN  IF Len(before) < h.offset
        THEN [h EXCEPT !.offset = 0, !.cursor = 0, !.eof = "fresh", !.fp = fp, !.cmp = fp,
                       !.len = ObservedFingerprintLen(fp, Len(before))]
        ELSE h

(* Then up to a budget of bytes is read at the cursor of the descriptor,   *)
Taken(h, before, now) ==
    IF Len(before) <= h.offset THEN <<>>
    ELSE SubSeq(now, h.cursor + 1, Least(h.cursor + Budget, Len(now)))

Advanced(h, data) ==
    [h EXCEPT !.offset = h.offset + Len(data), !.cursor = h.cursor + Len(data)]

(* and a fingerprint that covers less than the window is taken again.      *)
Promotes(h, data, before) ==
    data # <<>> /\ h.len < FingerprintBytes /\ Len(before) > h.len

ReadNewData(h, before, now) ==
    LET h1 == Rewound(h, before, now)
        data == Taken(h1, before, now)
        h2 == Advanced(h1, data)
        fp == Fingerprint(now)
        promoted == [h2 EXCEPT !.fp = IF h1.fp = <<>> THEN fp ELSE h1.fp, !.cmp = fp,
                               !.len = ObservedFingerprintLen(fp, Len(before))]
    IN  [file |-> IF Promotes(h1, data, before) THEN promoted ELSE h2,
         data |-> data,
         truncated |-> Len(before) < h.offset]

(* compute_fingerprint moves the cursor to the beginning of the file, and  *)
(* does not set it back when one of its calls fails.                       *)
CursorsLeft(pos, now) == {pos} \cup 0 .. Least(FingerprintBytes, Len(now))

(* The error returns of read_new_data and the handle each leaves behind:   *)
(* the size is not read; the file is shorter, and the seek or its new      *)
(* fingerprint fails; the read fails, and the offset and, if that seek     *)
(* does not fail too, the cursor are set back; the bytes are read, the     *)
(* fingerprint fails, and they are dropped behind the offset.  Truncated   *)
(* is reported by none of them.                                            *)
FailedReads(h, before, now) ==
    LET h1 == Rewound(h, before, now)
        data == Taken(h1, before, now)
        h2 == Advanced(h1, data)
        Left(f, cursors, dropped) ==
            {[file |-> [f EXCEPT !.cursor = c], strays |-> dropped \/ c # f.offset] : c \in cursors}
    IN  Left(h, {h.cursor}, FALSE)
        \cup (IF Len(before) < h.offset
              THEN Left([h EXCEPT !.offset = 0, !.eof = "fresh"], CursorsLeft(h.cursor, now), FALSE)
              ELSE {})
        \cup (IF Len(before) > h1.offset
              THEN Left(h1, {h1.offset} \cup h1.cursor .. h2.cursor, FALSE)
              ELSE {})
        \cup (IF Promotes(h1, data, before)
              THEN Left(h2, CursorsLeft(h2.cursor, now), TRUE)
              ELSE {})

OnData(h) == [h EXCEPT !.eof = "fresh"]

(* eof_model_transition for an idle poll: "fresh" has seen no idle poll    *)
(* since the last data, "idle" at least one.  From the second one on the   *)
(* end of file is emitted, once, when the idle window has passed.          *)
OnNoData(h, elapsed) ==
    [h EXCEPT !.eof = CASE @ = "fresh" -> "idle"
                        [] @ = "idle" /\ elapsed -> "emitted"
                        [] OTHER -> @]

HasEmitted(h) == h.eof = "emitted"

-----------------------------------------------------------------------------
(* A writer may append one byte to a file between two system calls of a    *)
(* step.                                                                   *)
LateWrite(j) ==
    IF j = Nil THEN UNCHANGED <<content, written>>
    ELSE /\ written < MaxBytes
         /\ written' = written + 1
         /\ content' = [content EXCEPT ![j] = Append(@, written + 1)]

(* The bytes that are owed after a step that delivers or gives up some: a  *)
(* late write of the step is owed too.                                     *)
Owe(less) == owed' = (owed \cup (written + 1) .. written') \ less

Linked == {link[p] : p \in Paths} \ {Nil}

(* EndOfFile, Truncated or Rotated for these sources.                      *)
Flush(sids) == {u \in unflushed : u[2] \notin sids}

(* What the events of a read of h at p leave unflushed downstream.         *)
Unflushed(p, h, r) ==
    (IF r.truncated THEN Flush({SourceId(h)}) ELSE unflushed)
    \cup (IF r.data # <<>> THEN {<<p, SourceId(r.file)>>} ELSE {})

(* The unread bytes of a handle that is dropped after a full read.         *)
Unread(r, now) == IF Len(r.data) = Budget THEN Bytes(Rest(now, r.file.offset)) ELSE {}

(* Inodes of which an offset may be wrong: truncated behind the back of a  *)
(* poll, or read by a handle that a failed read left astray.               *)
Unsure == raced \cup unseen \cup strayed

InWindow(i) == IF i \in Unsure THEN Bytes(content[i]) ELSE {}

Stray(r) == strayed' = IF r.strays THEN strayed \cup {r.file.inode} ELSE strayed

Disturb == events < MaxEvents /\ events' = events + 1

(* A shutdown poll waits for no backoff.                                   *)
Fail ==
    /\ Disturb
    /\ had_error' = ~shutdown

Succeed == UNCHANGED <<had_error, events>>

(* Whether a shutdown poll yields data decides on another one.             *)
Yields(data) == had_data' = (had_data \/ (shutdown /\ data # <<>>))

Turn(p, step) ==
    /\ pc = step
    /\ p \in todo
    /\ todo' = todo \ {p}
    /\ UNCHANGED <<pc, shutdown, backoff>>

-----------------------------------------------------------------------------
(* FileTailer::poll.                                                       *)

(* Mutation: a glob that has matched once is not scanned again.            *)
GlobbedOnce == IF IsGlob /\ watch = {} THEN {p \in Paths : link[p] # Nil} ELSE {}

Globbed == IF IsGlob THEN {p \in Paths : link[p] # Nil} \ watch ELSE {}

(* poll is due (a file event, the interval, an adaptive fast poll) and no  *)
(* backoff runs; a glob rescan may be due with it.                         *)
PollBegins ==
    /\ pc = "idle" /\ ~shutdown /\ ~backoff
    /\ \E due \in BOOLEAN :
          IF due /\ Globbed # {}
          THEN pc' = "rescan" /\ todo' = Globbed
          ELSE pc' = "detect" /\ todo' = watch
    /\ UNCHANGED <<fsVars, tailVars, shutdown, had_data, had_error, backoff, saved, ghosts,
                   events>>

(* A poll during the backoff returns at once; the deadline passes.         *)
BackoffElapses ==
    /\ pc = "idle" /\ backoff
    /\ backoff' = FALSE
    /\ UNCHANGED <<fsVars, tailVars, pc, todo, shutdown, had_data, had_error, saved,
                   ghosts, events>>

(* open_file_at for a path without an open handle.                         *)
OpenNew(p, late) ==
    LET i == link[p]
        fp == Fingerprint(content[i])
    IN  /\ LateWrite(late)
        /\ \E key \in EvictedKeys(p, i, fp) :
              /\ files' = With(files, p, OpenFileAt(key, i, content[i], content'[i]))
              /\ evicted' = Without(evicted, {key})
        /\ Owe({})
        /\ Succeed

(* open_file_at fails, before or after it has taken the saved offset.      *)
NotOpened(p) ==
    \E key \in {Nil} \cup EvictedKeys(p, link[p], Fingerprint(content[link[p]])) :
       evicted' = Without(evicted, {key})

OpenFails(p) ==
    /\ Fail
    /\ NotOpened(p)
    /\ UNCHANGED <<content, written, files, owed>>

(* rescan_globs: the path is watched from now on, opened or not.           *)
Rescan(p) ==
    /\ Turn(p, "rescan")
    /\ watch' = watch \cup {p}
    /\ \/ /\ link[p] # Nil
          /\ \E late \in {Nil, link[p]} : OpenNew(p, late)
       \/ link[p] # Nil /\ OpenFails(p)
       \/ /\ link[p] = Nil
          /\ had_error' = TRUE
          /\ UNCHANGED <<content, written, files, evicted, owed, events>>
    /\ UNCHANGED <<link, elsewhere, had_data, saved, unflushed, abandoned, unseen, raced,
                   strayed>>

(* should_rotate_file: the identity is compared over the prefix that the   *)
(* stored fingerprint covers.                                              *)
ShouldRotate(h, p) ==
    LET window == IF h.len > 0 THEN h.len ELSE FingerprintBytes
    IN  \/ Deleted(h.inode)
        \/ h.inode # link[p]
        \/ h.cmp # <<>> /\ h.len > 0 /\ h.cmp # Prefix(content[link[p]], window)

(* Mutation: the old handle is dropped unread.                             *)
RotateWithoutDrain(p) ==
    /\ files' = With(files, p, OpenFileAt(Nil, link[p], content[link[p]], content[link[p]]))
    /\ Succeed
    /\ UNCHANGED <<content, written, evicted, owed, unflushed, abandoned, had_data>>

(* A rotated file: one read of the old handle, Rotated, and the new file   *)
(* from offset 0; if it cannot be opened the path is without a handle.  If *)
(* the read fails, what it would have returned goes with the old handle.   *)
Rotate(p) ==
    LET h == files[p]
        i == link[p]
        fp == Fingerprint(content[i])
    IN  /\ \E late \in {Nil, i} : LateWrite(late)
        /\ \E drained, opened \in BOOLEAN :
              /\ IF drained /\ opened THEN Succeed ELSE Fail
              /\ LET now == content'[h.inode]
                     r == ReadNewData(h, content[h.inode], now)
                     data == IF drained THEN r.data ELSE <<>>
                     left == IF h.inode \in Linked THEN {}
                             ELSE IF drained THEN Unread(r, now) ELSE Bytes(now)
                 IN  /\ Owe(Bytes(data) \cup left \cup InWindow(h.inode))
                     /\ unflushed' = {u \in (IF drained THEN Unflushed(p, h, r) ELSE unflushed) :
                                        u[2] # SourceId(h)}
                     /\ abandoned' = (abandoned \/ (drained /\ left \cap owed # {}))
                     /\ Yields(data)
              /\ IF opened
                 THEN \E key \in EvictedKeys(p, i, fp) :
                         /\ files' = With(files, p, OpenFileAt(key, i, content[i], content'[i]))
                         /\ evicted' = Without(evicted, {key})
                 ELSE files' = Without(files, {p}) /\ NotOpened(p)

(* detect_changes for one watched path.                                    *)
Detect(p) ==
    /\ Turn(p, "detect")
    /\ unseen' = unseen \ {link[p]}
    /\ \/ /\ link[p] # Nil                 \* identify_file fails
          /\ Fail
          /\ raced' = raced \cup ({link[p]} \cap unseen)
          /\ UNCHANGED <<content, written, files, evicted, had_data, owed, unflushed, abandoned>>
       \/ /\ link[p] # Nil /\ p \in DOMAIN files
          /\ ShouldRotate(files[p], p)
          /\ Rotate(p)
          /\ UNCHANGED raced
       \/ /\ link[p] # Nil => p \in DOMAIN files /\ ~ShouldRotate(files[p], p)
          /\ Succeed
          /\ UNCHANGED <<content, written, files, evicted, had_data, owed, unflushed, abandoned,
                         raced>>
       \/ /\ link[p] # Nil /\ p \notin DOMAIN files
          /\ (\E late \in {Nil, link[p]} : OpenNew(p, late)) \/ OpenFails(p)
          /\ UNCHANGED <<had_data, unflushed, abandoned, raced>>
    /\ UNCHANGED <<link, elsewhere, watch, saved, strayed>>

(* read_all for one open file.                                             *)
ReadAll(p) ==
    /\ Turn(p, "read")
    /\ \E late \in {Nil, files[p].inode} : LateWrite(late)
    /\ LET h == files[p]
           before == content[h.inode]
           now == content'[h.inode]
           r == ReadNewData(h, before, now)
       IN  \/ /\ r.data # <<>> \/ r.truncated
              /\ Owe(Bytes(r.data))
              /\ unflushed' = Unflushed(p, h, r)
              /\ files' = [files EXCEPT ![p] = OnData(r.file)]
              /\ Yields(r.data)
              /\ Succeed
              /\ UNCHANGED strayed
           \/ /\ r.data = <<>> /\ ~r.truncated
              /\ \E elapsed \in BOOLEAN :
                    LET f == OnNoData(r.file, elapsed)
                        emit == HasEmitted(f) /\ ~HasEmitted(h) /\ (HasSource(h) \/ ~shutdown)
                    IN  /\ files' = [files EXCEPT ![p] = f]
                        /\ unflushed' = IF emit THEN Flush({SourceId(h)}) ELSE unflushed
              /\ Owe({})
              /\ Succeed
              /\ UNCHANGED <<had_data, strayed>>
           \/ /\ Fail
              /\ \E failed \in FailedReads(h, before, now) :
                    files' = [files EXCEPT ![p] = failed.file] /\ Stray(failed)
              /\ Owe({})
              /\ UNCHANGED <<unflushed, had_data>>
    /\ UNCHANGED <<link, elsewhere, evicted, watch, saved, abandoned, unseen, raced>>

(* What becomes of a deleted file after the read that delivered data and   *)
(* left a handle f and unread bytes.  A shutdown poll keeps it while bytes *)
(* are left, unless its size cannot be read (gone), and signals the end of *)
(* file when there are none.                                               *)
CloseDeleted(p, f, data, unread, pending, gone) ==
    LET caughtUp == f.offset >= Len(content[f.inode])
        close == ~shutdown \/ gone \/ caughtUp
        emit == shutdown /\ ~gone /\ caughtUp /\ HasSource(f) /\ ~HasEmitted(f)
        left == IF close THEN unread \cup InWindow(f.inode) ELSE {}
    IN  /\ files' = IF close THEN Without(files, {p}) ELSE [files EXCEPT ![p] = f]
        /\ evicted' = IF close THEN Without(evicted, {p}) ELSE evicted
        /\ watch' = IF close /\ IsGlob THEN watch \ {p} ELSE watch
        /\ unflushed' = {u \in pending : ~(emit /\ u[2] = SourceId(f))}
        /\ owed' = owed \ (data \cup left)

(* cleanup_deleted and cleanup_deleted_for_shutdown: one read of each file *)
(* whose last name is gone.                                                *)
Cleanup(p) ==
    /\ Turn(p, "cleanup")
    /\ LET h == files[p]
           now == content[h.inode]
           r == ReadNewData(h, now, now)
           f == IF r.data # <<>> \/ r.truncated THEN OnData(r.file) ELSE r.file
       IN  \E gone \in {FALSE, shutdown} :
              \/ /\ CloseDeleted(p, f, Bytes(r.data), Unread(r, now), Unflushed(p, h, r), gone)
                 /\ Yields(r.data)
                 /\ LET cut == p \notin DOMAIN files' /\ ~gone /\ Unread(r, now) \cap owed # {}
                    IN  abandoned' = (abandoned \/ cut)
                 /\ IF gone THEN Disturb /\ UNCHANGED had_error ELSE Succeed
                 /\ UNCHANGED strayed
              \/ /\ Fail
                 /\ \E failed \in FailedReads(h, now, now) :
                       CloseDeleted(p, failed.file, {}, Bytes(now), unflushed, gone) /\ Stray(failed)
                 /\ UNCHANGED <<had_data, abandoned>>
    /\ UNCHANGED <<fsVars, saved, unseen, raced>>

(* The next part of the poll, once every path of this one was visited.     *)
Advance ==
    /\ todo = {}
    /\ \/ pc = "rescan" /\ pc' = "detect" /\ todo' = watch
       \/ pc = "detect" /\ pc' = "read" /\ todo' = DOMAIN files
       \/ /\ pc = "read" /\ pc' = "cleanup"
          /\ todo' = {p \in DOMAIN files : Deleted(files[p].inode)}
    /\ UNCHANGED <<fsVars, tailVars, shutdown, had_data, had_error, backoff, saved, ghosts,
                   events>>

(* Mutation: the files evicted by then are forgotten.                      *)
EofTargetsOfOpenFiles ==
    {SourceId(files[p]) : p \in {q \in DOMAIN files :
        ~HasEmitted(files[q]) /\ HasSource(files[q])
        /\ files[q].offset >= Len(content[files[q].inode])}}

(* shutdown_eof_targets: the open files that are read to their end, and    *)
(* the evicted ones whose saved offset is the size of the file now.        *)
EofTargets ==
    {SourceId(files[p]) : p \in {q \in DOMAIN files :
        LET h == files[q] IN
        ~HasEmitted(h) /\ HasSource(h) /\ h.offset >= Len(content[h.inode])}}
    \cup {SourceId(evicted[p]) : p \in {q \in DOMAIN evicted :
        LET e == evicted[q] IN
        ~HasEmitted(e) /\ HasSource(e) /\ link[q] # Nil /\ e.offset = Len(content[link[q]])}}

(* The end of a poll: the end-of-file events of a shutdown poll, evict_lru *)
(* and the backoff.  The I/O worker repeats the shutdown poll while it     *)
(* yields data.                                                            *)
PollEnds ==
    /\ pc = "cleanup" /\ todo = {}
    /\ \E keep \in SUBSET DOMAIN files :
          /\ Cardinality(keep) = Least(MaxOpen, Cardinality(DOMAIN files))
          /\ files' = [p \in keep |-> files[p]]
          /\ evicted' = [p \in DOMAIN evicted \cup (DOMAIN files \ keep) |->
                            IF p \in DOMAIN files THEN files[p] ELSE evicted[p]]
    /\ LET left == UNION {Bytes(content[files[p].inode]) :
                              p \in {q \in DOMAIN files \ DOMAIN files' : files[q].inode \notin Linked}}
       IN  /\ owed' = owed \ left
           /\ abandoned' = (abandoned \/ left \cap owed # {})
    /\ unflushed' = IF shutdown THEN Flush(EofTargets) ELSE unflushed
    /\ backoff' = had_error
    /\ had_data' = FALSE /\ had_error' = FALSE
    /\ \/ ~shutdown /\ pc' = "idle" /\ UNCHANGED todo
       \/ shutdown /\ had_data /\ pc' = "detect" /\ todo' = watch
       \/ shutdown /\ ~had_data /\ pc' = "stopped" /\ UNCHANGED todo
    /\ UNCHANGED <<fsVars, watch, shutdown, saved, unseen, raced, strayed, events>>

PollStep ==
    \/ PollBegins
    \/ BackoffElapses
    \/ \E p \in Paths : Rescan(p) \/ Detect(p) \/ ReadAll(p) \/ Cleanup(p)
    \/ Advance
    \/ PollEnds

(* The pipeline shuts down: the I/O worker goes over to shutdown polls.    *)
BeginShutdown ==
    /\ pc = "idle" /\ ~shutdown
    /\ shutdown' = TRUE
    /\ pc' = "detect" /\ todo' = watch
    /\ backoff' = FALSE
    /\ UNCHANGED <<fsVars, tailVars, had_data, had_error, saved, ghosts, events>>

-----------------------------------------------------------------------------
(* Checkpoints and restart.                                                *)

(* file_offsets: the offsets handed to the checkpoint store.               *)
Tracked == {files[p] : p \in DOMAIN files} \cup {evicted[p] : p \in DOMAIN evicted}
FileOffsets == {<<SourceId(h), h.offset>> : h \in {f \in Tracked : HasSource(f)}}

(* The offsets delivered so far become durable.                            *)
CheckpointOffsets ==
    /\ pc = "idle"
    /\ events < MaxEvents
    /\ saved' = [sid \in DOMAIN saved \cup {c[1] : c \in FileOffsets} |->
                    LET offsets == {c[2] : c \in {d \in FileOffsets : d[1] = sid}}
                    IN  IF offsets = {} THEN saved[sid] ELSE CHOOSE o \in offsets : TRUE]
    /\ UNCHANGED <<fsVars, tailVars, pollVars, ghosts, events>>

(* FileTailer::new and set_offset_by_source for every saved source: an     *)
(* offset beyond the end of the file becomes 0.                            *)
Restored(i) ==
    LET s == content[i]
        fp == Fingerprint(s)
        sid == <<i, fp>>
        offset == IF fp # <<>> /\ sid \in DOMAIN saved /\ saved[sid] <= Len(s)
                  THEN saved[sid] ELSE 0
    IN  [inode |-> i, fp |-> fp, cmp |-> fp, offset |-> offset, cursor |-> offset,
         eof |-> "fresh", len |-> ObservedFingerprintLen(fp, Len(s))]

StartFiles == [p \in {q \in Paths : link[q] # Nil} |-> Restored(link[p])]

(* The process dies and starts again.  What only the old process could     *)
(* still read is gone, and so are the rows that were only framed.  A crash *)
(* during a poll is one before it, as its events have not been returned.   *)
RestartTailer ==
    /\ pc \in {"idle", "stopped"}
    /\ Disturb
    /\ files' = StartFiles
    /\ evicted' = Empty
    /\ watch' = IF IsGlob THEN {p \in Paths : link[p] # Nil} ELSE Paths
    /\ pc' = "idle" /\ todo' = {} /\ shutdown' = FALSE
    /\ had_data' = FALSE /\ had_error' = FALSE /\ backoff' = FALSE
    /\ unflushed' = {}
    /\ owed' = owed \cap UNION {Bytes(content[i]) : i \in Linked}
    /\ unseen' = {}
    /\ raced' = raced \cup unseen
    /\ UNCHANGED <<fsVars, saved, abandoned, strayed>>

-----------------------------------------------------------------------------
(* The file system.                                                        *)

fsQuiet == <<tailVars, pollVars, saved, unflushed, abandoned, strayed>>

(* Other processes run between any two steps that look at the file system. *)
Active ==
    /\ pc # "stopped"
    /\ todo = {} => pc \notin {"rescan", "detect"} /\ (pc = "cleanup" => shutdown)

(* Free inodes can be used again by a new file.                            *)
Create(p) ==
    /\ link[p] = Nil
    /\ Active
    /\ \E i \in Inodes :
          /\ Deleted(i) /\ ~Opened(i)
          /\ link' = [link EXCEPT ![p] = i]
          /\ content' = [content EXCEPT ![i] = <<>>]
          /\ unseen' = unseen \ {i}
          /\ raced' = raced \ {i}
    /\ UNCHANGED <<elsewhere, written, owed, events, fsQuiet>>

(* A write of no interest to the visits left of this part of the poll can  *)
(* as well come later.                                                     *)
LooksAt(p, i) == link[p] = i \/ (p \in DOMAIN files /\ files[p].inode = i)

WriterAppends(i) ==
    /\ Active
    /\ pc \in {"idle", "cleanup"} \/ \E p \in todo : LooksAt(p, i)
    /\ ~Deleted(i) /\ Reachable(i)
    /\ LateWrite(i)
    /\ Owe({})
    /\ UNCHANGED <<link, elsewhere, unseen, raced, events, fsQuiet>>

(* Rename or remove a watched name.  What is not open by then can be read  *)
(* no more.                                                                *)
Move(p, to) ==
    /\ Disturb
    /\ link[p] # Nil /\ to # p
    /\ Active
    /\ link' = [q \in Paths |-> IF q = p THEN Nil ELSE IF q = to THEN link[p] ELSE link[q]]
    /\ elsewhere' = IF to = "elsewhere" THEN elsewhere \cup {link[p]} ELSE elsewhere
    /\ LET gone == {i \in Linked : ~Opened(i) /\ \A q \in Paths : link'[q] # i}
       IN  owed' = owed \ UNION {Bytes(content[i]) : i \in gone}
    /\ raced' = raced \cup ({link[p]} \cap unseen)
    /\ UNCHANGED <<content, written, unseen, fsQuiet>>

Truncate(i) ==
    /\ Disturb
    /\ content[i] # <<>> /\ i \in Linked
    /\ Active
    /\ content' = [content EXCEPT ![i] = <<>>]
    /\ owed' = owed \ Bytes(content[i])
    /\ IF pc = "idle" /\ \A p \in DOMAIN files : files[p].inode = i => link[p] = i
       THEN unseen' = unseen \cup {i} /\ UNCHANGED raced
       ELSE raced' = raced \cup {i} /\ UNCHANGED unseen
    /\ UNCHANGED <<link, elsewhere, written, fsQuiet>>

FileSystem ==
    \/ \E p \in Paths :
          Create(p) \/ \E to \in Paths \cup {"elsewhere", "removed"} : Move(p, to)
    \/ \E i \in Inodes : WriterAppends(i) \/ Truncate(i)

TailInit ==
    /\ link = [p \in Paths |-> Nil]
    /\ elsewhere = {}
    /\ content = [i \in Inodes |-> <<>>]
    /\ written = 0
    /\ files = Empty /\ evicted = Empty
    /\ watch = IF IsGlob THEN {} ELSE Paths
    /\ pc = "idle" /\ todo = {} /\ shutdown = FALSE
    /\ had_data = FALSE /\ had_error = FALSE /\ backoff = FALSE
    /\ saved = Empty
    /\ owed = {} /\ unflushed = {} /\ abandoned = FALSE
    /\ unseen = {} /\ raced = {} /\ strayed = {}
    /\ events = 0

TailNext == PollStep \/ BeginShutdown \/ CheckpointOffsets \/ RestartTailer \/ FileSystem

TailSpec == TailInit /\ [][TailNext]_allVars

(* The I/O worker polls again and again, each poll comes to its end, and a *)
(* poll finds the rescan interval elapsed again and again.                 *)
FairSpec ==
    /\ TailSpec
    /\ WF_allVars(PollStep)
    /\ SF_allVars(PollBegins /\ pc' = "rescan")

-----------------------------------------------------------------------------
(* Properties.                                                             *)

Files == [inode : Inodes, fp : Seq(Nat), cmp : Seq(Nat), len : 0 .. FingerprintBytes,
          offset : Nat, cursor : Nat, eof : {"fresh", "idle", "emitted"}]

(* The type of the tailer's state.                                         *)
TailTypeOK ==
    /\ link \in [Paths -> Inodes \cup {Nil}]
    /\ elsewhere \subseteq Inodes
    /\ \A i \in Inodes : Bytes(content[i]) \subseteq 1 .. written
    /\ DOMAIN files \cup DOMAIN evicted \subseteq watch /\ watch \subseteq Paths
    /\ \A p \in DOMAIN files : files[p] \in Files
    /\ \A p \in DOMAIN evicted : evicted[p] \in Files
    /\ pc \in {"idle", "rescan", "detect", "read", "cleanup", "stopped"}
    /\ todo \subseteq Paths
    /\ owed \subseteq 1 .. written
    /\ unseen \cup raced \cup strayed \subseteq Inodes
    /\ abandoned \in BOOLEAN

(* The bytes in front of a tracked offset.                                 *)
Passed(h) == Bytes(Prefix(content[h.inode], h.offset))

(* Outside the copytruncate window no offset of an open file is ahead of   *)
(* what was delivered: rotation, eviction and restoration by path or       *)
(* source id, inode reuse, growing partial fingerprints, failed opens and  *)
(* reads and restarts never skip a byte (offsets are what is               *)
(* checkpointed).  The exception are the files of which a failed read has  *)
(* dropped bytes or lost the cursor (strayed): a fingerprint that fails    *)
(* after a read (lifecycle.rs:154) or after a truncation (84), or a seek   *)
(* that fails after a failed read (127).                                   *)
OffsetCovered ==
    pc = "idle" =>
       \A p \in DOMAIN files :
          files[p].inode \notin Unsure => Passed(files[p]) \cap owed = {}

(* "Restore offset and buffer to pre-loop state so the caller can retry    *)
(* without data corruption."                                               *)
FailedReadSkipsNothing ==
    pc = "idle" =>
       \A p \in DOMAIN files :
          files[p].inode \notin raced \cup unseen => Passed(files[p]) \cap owed = {}

(* A byte that was within reach of the tailer when it was written is lost  *)
(* only where the tailer closes a file that has no watched name any more:  *)
(* with more than one read budget unread, to keep the open-file limit, or  *)
(* when a read of it fails or has failed; every other byte is delivered or *)
(* still in an open or watched file.                                       *)
LossOnlyAtClose ==
    \A b \in owed : \E i \in Inodes : Reachable(i) /\ b \in Bytes(content[i])

(* "Drains whatever remains in the old file [...] No data lost."           *)
RotationLosesNothing == ~abandoned

Flushed(p, h) == <<p, SourceId(h)>> \in unflushed => h.offset # Len(content[h.inode])

(* When the shutdown drain is over, data of a file that is read to its end *)
(* has been followed by an end-of-file event, so that the framer has       *)
(* flushed the last line without a newline.  With more than two names it   *)
(* depends on the ages of the files, which are not part of the model.      *)
ShutdownFlushes ==
    pc = "stopped" =>
       /\ \A p \in DOMAIN files : Flushed(p, files[p])
       /\ \A p \in DOMAIN evicted : link[p] = evicted[p].inode => Flushed(p, evicted[p])

(* The tailer catches up with every file that keeps a watched name: with   *)
(* more files than may be open, bounded reads, errors and backoff, no byte *)
(* waits for ever.                                                         *)
CatchesUp ==
    \A b \in 1 .. MaxBytes :
       (b \in owed /\ \E i \in Linked : b \in Bytes(content[i]))
          ~> (b \notin owed \/ shutdown \/ raced \cup strayed # {}
                 \/ ~ \E i \in Linked : b \in Bytes(content[i]))

\* For TLC: what follows a stray is explored while a disturbance is left.
StraysEarly == strayed = {} \/ events < MaxEvents

\* For TLC: the names and the inodes are interchangeable.
Symmetry == Permutations(Paths) \cup Permutations(Inodes)
=============================================================================
