--------------------------- MODULE MCEngineActor ---------------------------
(* Small instances of EngineActor for TLC, and its properties.             *)
EXTENDS EngineActor

MCTubeOf == [i \in Jobs |-> IF i = 2 THEN "default" ELSE IF i = 1 THEN "a" ELSE "b"]
\* Record lengths that never fill a segment of 8 bytes to the last byte, and
\* lengths that do.
EvenPutLen(n) == [i \in 1 .. n |-> 4]
MCPutLen(n) == [i \in 1 .. n |-> IF i = 2 THEN 4 ELSE 3]

Killed2 == [policy |-> "Always", limit |-> 60, every |-> 1, put_len |-> MCPutLen(2), kills |-> TRUE,
            power |-> FALSE, updates |-> TRUE, entries |-> 4, index |-> 4]
PowerLost2 == [Killed2 EXCEPT !.policy = "Interval", !.put_len = EvenPutLen(2), !.kills = FALSE,
                              !.power = TRUE, !.entries = 3, !.index = 5]
SmallDisk == [policy |-> "Interval", limit |-> 32, every |-> 2, put_len |-> MCPutLen(6), kills |-> FALSE,
              power |-> FALSE, updates |-> FALSE, entries |-> 12, index |-> 12]

\* A process that is killed, a machine that loses power, a disk that is full.
MCDeployments == {Killed2, PowerLost2, SmallDisk}
\* The process is killed and later the power fails.
BothFail == {[Killed2 EXCEPT !.power = TRUE, !.entries = 3, !.index = 5]}

\* The assertions of the log's own check_invariants, on every state: the byte
\* counts are exact, the files are as long as the log believes, every live job
\* is anchored where its last put is, spares are empty, nothing is buffered.
LogConsistent ==
  status = "up" =>
    /\ w.live_bytes = MapThenSumSet(LAMBDA i : w.jobs[i].used, DOMAIN w.jobs)
    /\ w.disk_total = FoldLeft(LAMBDA x, s : x + s.size, 0, w.segs)
    /\ Found(Disk) = {w.segs[p].index : p \in DOMAIN w.segs}
    /\ w.buf = <<>>
    /\ \A p \in DOMAIN w.segs :
         LET s == w.segs[p] IN
         /\ Disk[s.index].len = s.size /\ s.written <= s.size
         /\ s.written = ValidEnd(Disk[s.index])
         /\ s.anchors = Cardinality({i \in DOMAIN w.jobs : w.jobs[i].seg = s.index})
         /\ p > w.cur => s.written = SEG_HEADER_LEN
    /\ \A i \in DOMAIN w.jobs :
         \E p \in DOMAIN w.segs :
           /\ w.segs[p].index = w.jobs[i].seg
           /\ Contains(w.segs[p].puts, <<i, w.jobs[i].off>>)
           /\ PutRec(i, 0, depl.put_len[i]) \in {[r EXCEPT !.ver = 0] : r \in RecordsAt(Disk[w.jobs[i].seg], w.jobs[i].off)}

\* Whatever a crash leaves on the disk, at any file operation of append,
\* maintain, a sync, a restart or a stop, replays without corruption to the
\* jobs after some prefix of the journal that includes every entry whose reply
\* was released (or, after a power failure, every entry a sync covered).
RecoverySound ==
  status # "up" =>
    LET st == scan(m) IN
    /\ ~st.corrupt
    /\ \E n \in must .. Len(hist) - 1 : hist[n + 1] = LiveOf(st)

\* Replay hands the engine an id above every live job and lists, once each,
\* exactly the non-default tubes of the live jobs.
ReplaySound ==
  status # "up" =>
    LET st == scan(m) IN
    /\ \A i \in DOMAIN st.jobs : i < next_id(st)
    /\ Len(st.order) = Cardinality(ToSet(st.order))
    /\ ToSet(st.order) = {st.jobs[i].tube : i \in DOMAIN st.jobs} \ {"default"}

\* Jobs that are only put and deleted never run a server out of space: a put
\* whose records would not fit is refused beforehand, and the reservation keeps
\* room for every delete to come, fragmentation and compaction included, so the
\* log never fails, however full the disk.
NeverStopsOnFullDisk ==
  [][status = "up" /\ ~depl.updates => status' # "down" \/ w'.err = "none"]_vars

\* With the interval policy nothing stays unsynced for two intervals: writes
\* push the timer back, but a write that finds the last sync an interval ago
\* syncs by itself, so even a server that is never idle syncs in time.
SyncedInTime == status = "up" => stale < 2 * depl.every
=============================================================================
