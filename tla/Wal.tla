-------------------------------- MODULE Wal --------------------------------
(***************************************************************************)
(* The write-ahead log (crates/store): segments, the job index, space      *)
(* reservation, roll, flush, sync, compaction, garbage collection, and the *)
(* replay that rebuilds the jobs from whatever a crash left on the disk.   *)
(*                                                                         *)
(* `w` is the open log (wal.rs, Inner). Its methods are operators from `w` *)
(* to `w`; the file operations they issue are collected in `w.ops`, in     *)
(* order, so that a crash can stop after any of them. `m` is the disk: a   *)
(* function from segment numbers to files. An I/O error is not retried by  *)
(* any caller: it sets `w.err` and nothing is issued after it.             *)
(*                                                                         *)
(* Records carry what replay tells apart: the kind, the job id, a version  *)
(* standing for the JobRecord, the tube, and the encoded length. The CRC   *)
(* is modelled by its effect: replay recognises a record that was not      *)
(* written whole and takes it for the end of the segment.                  *)
(***************************************************************************)
EXTENDS Integers, Sequences, SequencesExt, FiniteSetsExt

CONSTANTS
  Jobs,             \* the job ids that may be put, a set of positive numbers
  Tubes,            \* tube names; "default" is the one replay does not list
  TubeOf,           \* the tube each job is put into
  Excess,           \* MAX_TUBE_NAME_LEN less the length of the job's tube
  DELETE_REC_LEN, UPDATE_REC_LEN, SEG_HEADER_LEN,
  seg_size          \* segment_size(opts.file_size)

ASSUME WalAssumption ==
  /\ Jobs \subseteq Nat \ {0}
  /\ TubeOf \in [Jobs -> Tubes]
  /\ {DELETE_REC_LEN, UPDATE_REC_LEN, SEG_HEADER_LEN, seg_size} \subseteq Nat \ {0}
  /\ DELETE_REC_LEN + SEG_HEADER_LEN <= seg_size

SumLen(recs) == FoldLeft(LAMBDA n, r : n + r.len, 0, recs)
PutRec(id, ver, len) ==
  [kind |-> "Put", id |-> id, ver |-> ver, tube |-> TubeOf[id], len |-> len]
UpdateRec(id, ver) ==
  [kind |-> "Update", id |-> id, ver |-> ver, tube |-> "", len |-> UPDATE_REC_LEN]
DeleteRec(id) ==
  [kind |-> "Delete", id |-> id, ver |-> 0, tube |-> "", len |-> DELETE_REC_LEN]

-----------------------------------------------------------------------------
(* The disk. A file keeps its records in order from the end of its header. *)
(* `synced` of them, and the header if `hsync`, would survive a power cut. *)
(* `torn` says that other bytes follow the last readable record, `gone`    *)
(* that the file is unlinked but its directory not yet synced.             *)

NewFile == [header |-> FALSE, hsync |-> FALSE, len |-> 0, recs |-> <<>>,
            synced |-> 0, torn |-> FALSE, gone |-> FALSE]

Do(m, o) ==
  CASE o.op = "create"   -> (o.seg :> NewFile) @@ m
    [] o.op = "fill"     -> [m EXCEPT ![o.seg].header = TRUE, ![o.seg].len = seg_size]
    [] o.op = "write"    ->
         LET recs == m[o.seg].recs \o o.recs
         IN  [m EXCEPT ![o.seg].recs = recs,
                       ![o.seg].len = Max({@, SEG_HEADER_LEN + SumLen(recs)})]
    [] o.op \in {"sync", "resync"} ->
         [m EXCEPT ![o.seg].synced = Len(m[o.seg].recs), ![o.seg].hsync = TRUE]
    [] o.op = "truncate" -> [m EXCEPT ![o.seg].len = o.len, ![o.seg].torn = FALSE]
    [] o.op = "unlink"   -> [m EXCEPT ![o.seg].gone = TRUE]
    [] o.op = "dirsync"  -> [i \in {j \in DOMAIN m : ~m[j].gone} |-> m[i]]
    [] o.op = "reply"    -> m

Perform(m, ops) == FoldLeft(Do, m, ops)
Found(m) == {i \in DOMAIN m : ~m[i].gone}

\* The process dies: what it wrote stays, the write it was in may be cut.
Killed(m, op) ==
  {m} \cup
    IF op.op # "write" THEN {}
    ELSE { [m EXCEPT ![op.seg].recs = @ \o SubSeq(op.recs, 1, k),
                     ![op.seg].torn = t] : k \in 0 .. Len(op.recs) - 1, t \in BOOLEAN }

\* The power fails: unsynced records may be missing or damaged from any point
\* on, an unsynced header may be blank (which matters only before records), and
\* the unlinks since the last sync of the directory may be undone, last first.
FilesAfterPowerLoss(f) ==
  LET Cut(k, t) == [f EXCEPT !.recs = SubSeq(@, 1, k), !.synced = k, !.hsync = f.header,
                              !.torn = t, !.gone = FALSE]
  IN  {Cut(k, f.torn) : k \in f.synced .. Len(f.recs)}
      \cup {Cut(k, TRUE) : k \in f.synced .. Len(f.recs) - 1}
      \cup IF f.hsync \/ f.recs = <<>> THEN {}
           ELSE {[Cut(0, t) EXCEPT !.header = FALSE, !.hsync = FALSE] : t \in BOOLEAN}
PowerLost(m) ==
  UNION { FoldSet(LAMBDA i, disks : {(i :> f) @@ d : f \in FilesAfterPowerLoss(m[i]), d \in disks},
                  {<<>>}, {i \in DOMAIN m : ~m[i].gone \/ i >= k}) :
          k \in {i \in DOMAIN m : m[i].gone} \cup {Max({0} \cup DOMAIN m) + 1} }

-----------------------------------------------------------------------------
(* Replay (replay.rs). `info` counts the live jobs of each listed tube and *)
(* keeps its place in `order`.                                             *)

add_job_default(st, tube) ==
  IF tube \in DOMAIN st.info THEN [st EXCEPT !.info[tube].refs = @ + 1]
  ELSE [st EXCEPT !.info = (tube :> [refs |-> 1, pos |-> Len(st.order) + 1]) @@ @,
                  !.order = Append(@, tube)]
add_job(st, tube) ==
  IF tube = "default" THEN st
  ELSE IF tube \in DOMAIN st.info THEN [st EXCEPT !.info[tube].refs = @ + 1]
  ELSE [st EXCEPT !.info = (tube :> [refs |-> 1, pos |-> Len(st.order) + 1]) @@ @,
                  !.order = Append(@, tube)]

remove_job(st, tube) ==
  IF tube \notin DOMAIN st.info THEN st
  ELSE IF st.info[tube].refs > 1 THEN [st EXCEPT !.info[tube].refs = @ - 1]
  ELSE LET pos   == st.info[tube].pos
           last  == Len(st.order)
           moved == st.order[last]
           info  == [t \in DOMAIN st.info \ {tube} |-> st.info[t]]
       IN  [st EXCEPT !.info = IF moved = tube THEN info ELSE [info EXCEPT ![moved].pos = pos],
                      !.order = SubSeq([@ EXCEPT ![pos] = moved], 1, last - 1)]

\* One record of segment `seg` at offset `off`.
apply(st, rec, seg, off) ==
  LET known == rec.id \in DOMAIN st.jobs
      s1 == [st EXCEPT !.max_id = Max({@, rec.id}), !.seq = @ + 1]
      new == [ver |-> rec.ver, tube |-> rec.tube, seg |-> seg, off |-> off,
              put_len |-> rec.len, used |-> rec.len,
              order |-> IF known THEN st.jobs[rec.id].order ELSE s1.seq]
  IN  CASE rec.kind = "Put" ->
             [(IF known THEN s1 ELSE add_job(s1, rec.tube))
               EXCEPT !.jobs = (rec.id :> new) @@ @]
        [] rec.kind = "Update" ->
             IF ~known THEN s1
             ELSE [s1 EXCEPT !.jobs[rec.id].ver = rec.ver, !.jobs[rec.id].used = @ + rec.len]
        [] rec.kind = "Delete" ->
             IF ~known THEN s1
             ELSE LET tube == st.jobs[rec.id].tube IN
                  [remove_job(s1, tube)
                    EXCEPT !.jobs = [i \in DOMAIN @ \ {rec.id} |-> @[i]]]

ReplayState == [jobs |-> <<>>, max_id |-> 0, seq |-> 0, order |-> <<>>, info |-> <<>>,
                torn |-> FALSE, corrupt |-> FALSE]

\* One file: a record after a torn place, here or in an earlier file, is
\* corruption; a file without a header has no records.
scan_file(st, seg, f) ==
  IF ~f.header THEN [st EXCEPT !.torn = @ \/ f.torn]
  ELSE IF f.recs # <<>> /\ st.torn THEN [st EXCEPT !.corrupt = TRUE]
  ELSE LET Step(acc, rec) == [st |-> apply(acc.st, rec, seg, acc.off),
                              off |-> acc.off + rec.len]
           end == FoldLeft(Step, [st |-> st, off |-> SEG_HEADER_LEN], f.recs)
       IN  [end.st EXCEPT !.torn = @ \/ f.torn]

Ascending(S) == [k \in 1 .. Cardinality(S) |-> CHOOSE i \in S : Cardinality({j \in S : j < i}) = k - 1]
scan(m) == FoldLeft(LAMBDA st, i : scan_file(st, i, m[i]), ReplayState, Ascending(Found(m)))
next_id(st) == st.max_id + 1
LiveOf(st) == [i \in DOMAIN st.jobs |-> st.jobs[i].ver]

-----------------------------------------------------------------------------
(* Space (wal.rs). `segs[cur]` is written to, later segments are empty     *)
(* spares, earlier ones are closed.                                        *)

capacity == seg_size - SEG_HEADER_LEN
Cur(w) == w.segs[w.cur]
future_count(w) == Len(w.segs) - w.cur
reserved(w) == DELETE_REC_LEN * (Cardinality(DOMAIN w.jobs) + w.pending_puts) + w.pending_bytes
avail(w) == Max({0, Cur(w).size - Cur(w).written}) + future_count(w) * capacity
slack(w) == DELETE_REC_LEN * (future_count(w) + 1) + w.pending_bytes

Ok(w) == w.err = "none"
Fail(w, why) == [w EXCEPT !.err = why]
Issue(w, ops) == IF Ok(w) THEN [w EXCEPT !.ops = @ \o ops] ELSE w

\* The entries written so far; `upto` of a sync or a reply says how many of
\* them it covers.
Appended(w) == w.records_written - w.records_migrated

NewSeg(index) == [index |-> index, size |-> seg_size, written |-> SEG_HEADER_LEN,
                  anchors |-> 0, puts |-> <<>>]

allocate(w) ==
  IF ~Ok(w) THEN w
  ELSE IF w.disk_total + seg_size > w.limit THEN Fail(w, "full")
  ELSE LET i == w.next_index IN
       Issue([w EXCEPT !.next_index = @ + 1, !.disk_total = @ + seg_size,
                       !.segs = Append(@, NewSeg(i))],
             <<[op |-> "create", seg |-> i], [op |-> "fill", seg |-> i]>>
               \o IF w.policy = "Never" THEN <<>> ELSE <<[op |-> "dirsync"]>>)

\* A failed allocation ends the loop and is not an error of the caller.
RECURSIVE ensure_room(_, _, _)
ensure_room(w, n, spare) ==
  IF reserved(w) + n + slack(w) + (IF spare THEN capacity ELSE 0) <= avail(w)
  THEN [w |-> w, ok |-> TRUE]
  ELSE IF w.disk_total + seg_size > w.limit THEN [w |-> w, ok |-> FALSE]
  ELSE ensure_room(allocate(w), n, spare)

Reserved(room, put) ==
  [w |-> IF room.ok THEN [room.w EXCEPT !.pending_puts = @ + 1]
         ELSE [room.w EXCEPT !.pending_bytes = @ - put],
   ok |-> room.ok]
reserve_put_unchecked(w, put) ==
  IF put > capacity THEN [w |-> w, ok |-> FALSE]
  ELSE Reserved([ensure_room([w EXCEPT !.pending_bytes = @ + put], DELETE_REC_LEN, TRUE)
                   EXCEPT !.ok = TRUE], put)
reserve_put(w, put) ==
  IF put > capacity THEN [w |-> w, ok |-> FALSE]
  ELSE Reserved(ensure_room([w EXCEPT !.pending_bytes = @ + put], DELETE_REC_LEN, TRUE), put)

-----------------------------------------------------------------------------
(* Writing.                                                                *)

flush(w) ==
  IF w.buf = <<>> THEN w
  ELSE [Issue(w, <<[op |-> "write", seg |-> Cur(w).index, recs |-> w.buf]>>)
         EXCEPT !.buf = <<>>, !.unsynced = TRUE]

sync_cur(w) ==
  [Issue(w, <<[op |-> "sync", seg |-> Cur(w).index, upto |-> Appended(w)]>>)
    EXCEPT !.unsynced = FALSE]

sync_if_unsynced(w) == IF w.unsynced /\ w.policy # "Never" THEN sync_cur(w) ELSE w

with_next(w) == IF w.cur = Len(w.segs) THEN allocate(w) ELSE w

\* The current segment is cut to its records and the next one becomes current.
Truncate(w, c) ==
  IF c.size <= c.written THEN w
  ELSE Issue([w EXCEPT !.segs[w.cur].size = c.written, !.disk_total = @ - (c.size - c.written)],
             <<[op |-> "truncate", seg |-> c.index, len |-> c.written]>>)
close_cur(w) ==
  IF ~Ok(w) THEN w ELSE [Truncate(w, Cur(w)) EXCEPT !.cur = @ + 1, !.unsynced = FALSE]

roll_unsynced(w) == close_cur(with_next(flush(w)))
roll(w) == close_cur(with_next(sync_if_unsynced(flush(w))))

\* Room for `len` bytes at the end of the current segment, or of the next.
\* A record larger than an empty segment makes it grow.
Extend(w, end) ==
  [w EXCEPT !.segs[w.cur].written = end, !.segs[w.cur].size = Max({@, end}),
            !.disk_total = @ + Max({0, end - Cur(w).size})]
PlaceHere(w, len) == Extend(w, Cur(w).written + len)
place(w, len) ==
  PlaceHere(IF Cur(w).written > SEG_HEADER_LEN /\ Cur(w).written + len > Cur(w).size
            THEN roll(w) ELSE w, len)

seg_pos(w, index) == CHOOSE p \in 1 .. Len(w.segs) : w.segs[p].index = index
unanchor(w, index) == [w EXCEPT !.segs[seg_pos(w, index)].anchors = @ - 1]
anchor(w, id, off) == [w EXCEPT !.segs[w.cur].anchors = @ + 1,
                                !.segs[w.cur].puts = Append(@, <<id, off>>)]

\* The job's latest put is the record just placed at the end of the log.
Index(w, rec) ==
  [anchor(w, rec.id, Cur(w).written - rec.len)
    EXCEPT !.buf = Append(@, rec),
           !.jobs = (rec.id :> [ver |-> rec.ver, seg |-> Cur(w).index,
                                off |-> Cur(w).written - rec.len,
                                put_len |-> rec.len, used |-> rec.len]) @@ @,
           !.live_bytes = @ + rec.len]
Forget(w, old) == unanchor([w EXCEPT !.live_bytes = @ - old.used], old.seg)

take_reservation(w, len) ==
  IF w.pending_puts = 0 THEN w
  ELSE [w EXCEPT !.pending_puts = @ - 1, !.pending_bytes = Max({0, @ - len})]

put_in_place(w, rec) ==
  IF rec.id \in DOMAIN w.jobs THEN Forget(Index(w, rec), w.jobs[rec.id]) ELSE Index(w, rec)
append_put(w, rec) == put_in_place(place(take_reservation(w, rec.len), rec.len), rec)

Buffer(w, rec) == [place(w, rec.len) EXCEPT !.buf = Append(@, rec)]
append_update(w, rec) ==
  IF rec.id \notin DOMAIN w.jobs THEN Buffer(w, rec)
  ELSE [Buffer(w, rec) EXCEPT !.jobs[rec.id].ver = rec.ver, !.jobs[rec.id].used = @ + rec.len,
                              !.live_bytes = @ + rec.len]

WithoutJob(w, id) == [w EXCEPT !.jobs = [i \in DOMAIN @ \ {id} |-> @[i]]]
append_delete_anchored(w, rec) ==
  IF rec.id \notin DOMAIN w.jobs THEN Buffer(w, rec)
  ELSE [WithoutJob(Buffer(w, rec), rec.id) EXCEPT !.live_bytes = @ - w.jobs[rec.id].used]
append_delete(w, rec) ==
  IF rec.id \notin DOMAIN w.jobs THEN Buffer(w, rec)
  ELSE Forget(WithoutJob(Buffer(w, rec), rec.id), w.jobs[rec.id])

append_entry(w, rec) ==
  IF ~Ok(w) THEN w
  ELSE [(CASE rec.kind = "Put"    -> append_put(w, rec)
           [] rec.kind = "Update" -> append_update(w, rec)
           [] rec.kind = "Delete" -> append_delete(w, rec))
         EXCEPT !.records_written = @ + 1]

sync_always(w) == IF w.policy = "Always" /\ w.unsynced THEN sync_cur(w) ELSE w
append(w, entries) ==
  sync_always(flush([FoldLeft(append_entry, w, entries)
                      EXCEPT !.pending_puts = 0, !.pending_bytes = 0]))

-----------------------------------------------------------------------------
(* Compaction and garbage collection.                                      *)

ratio(w) ==
  LET live == w.live_bytes + reserved(w)
  IN  IF live = 0 THEN 0 ELSE Max({0, w.disk_total - live}) \div live

\* The record of file `f` that starts at offset `off`, if there is one.
RecordsAt(f, off) ==
  {f.recs[k] : k \in {j \in DOMAIN f.recs : SEG_HEADER_LEN + SumLen(SubSeq(f.recs, 1, j - 1)) = off}}

\* The oldest segment that anchors a job and is two before the current one, and
\* the places in its list that still are the latest put of a live job.
Oldest(w) == {p \in 1 .. w.cur - 2 : w.segs[p].anchors > 0
                                     /\ \A q \in 1 .. p - 1 : w.segs[q].anchors = 0}
LivePuts(w, p) ==
  {k \in DOMAIN w.segs[p].puts :
     LET put == w.segs[p].puts[k] IN
     put[1] \in DOMAIN w.jobs /\ w.jobs[put[1]].seg = w.segs[p].index
                              /\ w.jobs[put[1]].off = put[2]}

\* The job's put, read back and stamped with its latest state, is written again
\* at the end of the log.
Restamped(w, rec, old) ==
  [Forget(Index(place(w, rec.len), rec), old)
    EXCEPT !.records_written = @ + 1, !.records_migrated = @ + 1]
move_job_stale(w, p, id, found) ==
  IF found = {} THEN Fail(w, "corrupt")
  ELSE Restamped([w EXCEPT !.segs[p].puts = Tail(@)],
                 CHOOSE r \in found : TRUE, w.jobs[id])
move_job(w, p, id, found) ==
  IF found = {} THEN Fail(w, "corrupt")
  ELSE Restamped([w EXCEPT !.segs[p].puts = Tail(@)],
                 [(CHOOSE r \in found : TRUE) EXCEPT !.ver = w.jobs[id].ver], w.jobs[id])

PutAt(m, job) == {r \in RecordsAt(m[job.seg], job.off) : r.kind = "Put" /\ r.len = job.put_len}
move_in(room, m, p, id) ==
  IF ~room.ok THEN [w |-> room.w, moved |-> FALSE]
  ELSE [w |-> move_job(room.w, p, id, PutAt(Perform(m, room.w.ops), room.w.jobs[id])),
        moved |-> TRUE]
move_first(w, m, p, k) ==
  move_in(ensure_room([w EXCEPT !.segs[p].puts = SubSeq(@, k, Len(@))],
                      w.jobs[w.segs[p].puts[k][1]].put_len, TRUE),
          m, p, w.segs[p].puts[k][1])
move_one(w, m) ==
  LET p == CHOOSE q \in Oldest(w) : TRUE
  IN  IF Oldest(w) = {} THEN [w |-> w, moved |-> FALSE]
      ELSE IF LivePuts(w, p) = {} THEN [w |-> Fail(w, "corrupt"), moved |-> TRUE]
      ELSE move_first(w, m, p, Min(LivePuts(w, p)))

RECURSIVE move_up_to(_, _, _)
move_up_to(w, m, n) ==
  IF n = 0 \/ ~Ok(w) THEN w
  ELSE LET one == move_one(w, m)
       IN  IF one.moved THEN move_up_to(one.w, m, n - 1) ELSE one.w

\* Unlink the leading closed segments in which no live job is anchored.
Unlinks(w, n) == [k \in 1 .. n |-> [op |-> "unlink", seg |-> w.segs[k].index]]
Deletable(w) == Max({k \in 0 .. w.cur - 1 : \A p \in 1 .. k : w.segs[p].anchors = 0})
SizeOf(segs) == FoldLeft(LAMBDA x, s : x + s.size, 0, segs)
drop_segs(w, n) ==
  Issue([w EXCEPT !.segs = SubSeq(@, n + 1, Len(@)), !.cur = @ - n,
                  !.disk_total = @ - SizeOf(SubSeq(w.segs, 1, n))],
        Unlinks(w, n) \o IF w.policy = "Always" THEN <<[op |-> "dirsync"]>> ELSE <<>>)
gc_unsynced(w) ==
  IF Deletable(w) = 0 \/ ~Ok(w) THEN w ELSE flush(drop_segs(w, Deletable(w)))
gc(w) ==
  IF Deletable(w) = 0 \/ ~Ok(w) THEN w
  ELSE drop_segs(sync_if_unsynced(flush(w)), Deletable(w))

maintain(w, m) == gc(IF ratio(w) >= 2 THEN flush(move_up_to(w, m, ratio(w) - 1)) ELSE w)

-----------------------------------------------------------------------------
(* Open: replay, cut torn tails, drop empty files, start a new segment.    *)

ValidEnd(f) == SEG_HEADER_LEN + SumLen(f.recs)
HasRecords(m) == {i \in Found(m) : m[i].header /\ m[i].recs # <<>>}

FixUp(m) ==
  LET fix(i) == IF i \notin HasRecords(m) THEN <<[op |-> "unlink", seg |-> i]>>
                ELSE IF m[i].len > ValidEnd(m[i])
                THEN <<[op |-> "truncate", seg |-> i, len |-> ValidEnd(m[i])],
                       [op |-> "resync", seg |-> i]>>
                ELSE <<>>
  IN  FlattenSeq([k \in 1 .. Cardinality(Found(m)) |-> fix(Ascending(Found(m))[k])])
        \o IF Found(m) = HasRecords(m) THEN <<>> ELSE <<[op |-> "dirsync"]>>

Recovered(m, st, opts) ==
  LET segs == Ascending(HasRecords(m))
      here(i) == {id \in DOMAIN st.jobs : st.jobs[id].seg = i}
      seg(i) == [index |-> i, size |-> ValidEnd(m[i]), written |-> ValidEnd(m[i]),
                 anchors |-> Cardinality(here(i)),
                 puts |-> [k \in 1 .. Cardinality(here(i)) |->
                            LET off == Ascending({st.jobs[id].off : id \in here(i)})[k]
                            IN  <<CHOOSE id \in here(i) : st.jobs[id].off = off, off>>]]
  IN  [segs |-> [k \in DOMAIN segs |-> seg(segs[k])], cur |-> 0,
       next_index |-> Max({0} \cup Found(m)) + 1,
       jobs |-> [id \in DOMAIN st.jobs |->
                  [ver |-> st.jobs[id].ver, seg |-> st.jobs[id].seg, off |-> st.jobs[id].off,
                   put_len |-> st.jobs[id].put_len, used |-> st.jobs[id].used]],
       live_bytes |-> MapThenSumSet(LAMBDA id : st.jobs[id].used, DOMAIN st.jobs),
       disk_total |-> MapThenSumSet(LAMBDA i : ValidEnd(m[i]), HasRecords(m)),
       pending_puts |-> 0, pending_bytes |-> 0, buf |-> <<>>, unsynced |-> FALSE,
       records_written |-> 0, records_migrated |-> 0, ops |-> FixUp(m), err |-> "none",
       policy |-> opts.policy, limit |-> opts.limit]

opened(room) == IF room.ok THEN gc(room.w) ELSE Fail(room.w, "full")
start_segment(w) ==
  IF Ok(w) THEN opened(ensure_room([w EXCEPT !.cur = Len(w.segs)], 0, FALSE)) ELSE w
open(m, opts) ==
  LET st == scan(m)
  IN  IF st.corrupt THEN [Recovered(m, st, opts) EXCEPT !.err = "corrupt", !.ops = <<>>]
      ELSE start_segment(allocate(Recovered(m, st, opts)))
=============================================================================
