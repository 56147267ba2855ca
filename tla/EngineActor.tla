---------------------------- MODULE EngineActor ----------------------------
(***************************************************************************)
(* The engine actor with a binlog (crates/server/src/engine_actor.rs): one *)
(* message at a time, its journal appended to the write-ahead log before   *)
(* its replies are released, compaction and interval syncs in between,     *)
(* fail-stop on a log error, and the restart that replays the log.         *)
(*                                                                         *)
(* What the engine does with a message is modelled in module Engine; here  *)
(* a message is the journal its engine call and tick produced. The file    *)
(* operations of the last handler are `w.ops`, and `m` is the disk before  *)
(* them, so that the process may die, or the power fail, after any prefix. *)
(***************************************************************************)
EXTENDS Wal

CONSTANTS
  Deployments   \* the settings, faults and bounds explored, as follows

\* policy: "Always", "Interval" or "Never"; limit: the bytes the disk can hold;
\* every: the sync interval in clock steps; put_len: put_rec_len of each job's
\* tube and body, for the jobs that may be put; kills, power: whether the
\* process is killed, the power fails; updates: whether jobs change other than
\* by put and delete; entries: bound on the journal entries in one life of the
\* process; index: bound on the segment numbers in use.
ASSUME DeploymentsAssumption ==
  \A d \in Deployments :
    /\ d.policy \in {"Always", "Interval", "Never"} /\ {d.kills, d.power, d.updates} \subseteq BOOLEAN
    /\ DOMAIN d.put_len \subseteq Jobs /\ \A i \in DOMAIN d.put_len : d.put_len[i] > 0
    /\ {d.limit, d.every, d.entries, d.index} \subseteq Nat \ {0}

VARIABLES
  depl,         \* this server's deployment
  status,       \* "up", "down" (crashed or failed) or "stopped"
  w,            \* the open log
  m,            \* the disk before the operations of the last handler
  hist,         \* hist[n + 1]: the live jobs after n journal entries
  base,         \* the index in hist of the state this life started from
  acked,        \* entries covered by replies released before the last handler
  synced,       \* entries covered by a sync before the last handler
  must,         \* after a crash: the entries that have to be recovered
  nid,          \* the engine's next job id
  tubes,        \* the tube list the last replay produced
  draining,
  age,          \* time since last_sync, at most the interval
  sync_in,      \* time until sync_at; -1 when it is not set
  stale         \* time since the oldest write that is not synced

vars == <<depl, status, w, m, hist, base, acked, synced, must, nid, tubes, draining, age, sync_in, stale>>

Live == hist[Len(hist)]
LastUpto(ops, kinds, before) ==
  Max({before} \cup {base + ops[k].upto : k \in {j \in DOMAIN ops : ops[j].op \in kinds}})
AckedBy(ops) == LastUpto(ops, {"reply"}, acked)
SyncedBy(ops) == LastUpto(ops, {"sync"}, synced)

-----------------------------------------------------------------------------
(* One handler: on_message or on_timer.                                    *)

Fresh == [w EXCEPT !.ops = <<>>]
Disk == Perform(m, w.ops)

\* sync_if_due at a time `since` after the last interval sync.
Due(v, since) == v.policy = "Interval" /\ v.unsynced /\ since >= depl.every
sync_if_due(v, since) == IF Due(v, since) THEN sync_cur(v) ELSE v

\* After a write with the interval policy: a sync if one is due, and a timer for
\* the next. `v` is the log as the handler found it.
schedule_once(new, v) ==
  IF ~Ok(new) \/ new.records_written = v.records_written \/ v.policy # "Interval"
  THEN [v |-> new, age |-> age, sync_in |-> sync_in]
  ELSE [v |-> sync_if_due(new, age), age |-> IF Due(new, age) THEN 0 ELSE age,
        sync_in |-> -1]
schedule(new, v) ==
  IF ~Ok(new) \/ new.records_written = v.records_written \/ v.policy # "Interval"
  THEN [v |-> new, age |-> age, sync_in |-> sync_in]
  ELSE [v |-> sync_if_due(new, age), age |-> IF Due(new, age) THEN 0 ELSE age,
        sync_in |-> depl.every]

persist(v, journal, put_reserved) ==
  IF journal = <<>> /\ ~put_reserved THEN [v |-> v, age |-> age, sync_in |-> sync_in]
  ELSE schedule(maintain(append(v, journal), Disk), v)

\* The replies of a handler that changed something acknowledge the change.
deliver(v, journal) ==
  IF journal = <<>> THEN v ELSE Issue(v, <<[op |-> "reply", upto |-> Appended(v)]>>)

AfterEntry(live, e) ==
  CASE e.kind = "Put"    -> (e.id :> e.ver) @@ live
    [] e.kind = "Update" -> [live EXCEPT ![e.id] = e.ver]
    [] e.kind = "Delete" -> [i \in DOMAIN live \ {e.id} |-> live[i]]
AfterEntries(h, entries) ==
  FoldLeft(LAMBDA a, e : Append(a, AfterEntry(a[Len(a)], e)), h, entries)

\* The tick, the journal, then the replies; a log error ends the process.
Finish(d, journal, timer) ==
  /\ w' = d
  /\ status' = IF Ok(d) THEN "up" ELSE "down"
  /\ m' = IF Ok(d) THEN Disk ELSE Perform(Disk, d.ops)
  /\ hist' = AfterEntries(hist, journal)
  /\ acked' = AckedBy(w.ops) /\ synced' = SyncedBy(w.ops)
  /\ must' = IF Ok(d) THEN must ELSE Max({base, AckedBy(w.ops)})
  /\ age' = timer.age /\ sync_in' = timer.sync_in /\ stale' = IF d.unsynced THEN stale ELSE 0
  /\ UNCHANGED <<base, tubes>>
finish(v, journal, put_reserved) ==
  \E p \in {persist(v, journal, put_reserved)} : Finish(deliver(p.v, journal), journal, p)

Running == status = "up"
CanWrite(n) == Running /\ w.next_index <= depl.index /\ Len(hist) + n <= depl.entries + 1

\* What engine calls and their ticks journal about the live jobs.
Bump(live, id) == (live[id] + 1) % 3
Changes ==
  { <<DeleteRec(i)>> : i \in DOMAIN Live }
  \cup IF ~depl.updates THEN {}
       ELSE { <<UpdateRec(i, Bump(Live, i))>> : i \in DOMAIN Live }
            \cup { <<UpdateRec(i, Bump(Live, i)), DeleteRec(j)>> : i, j \in DOMAIN Live }

\* A put: room for its records is reserved first, unless draining; the engine
\* then accepts it, or rejects it and leaves the reservation to be released.
CommandPut ==
  /\ CanWrite(1) /\ nid \in DOMAIN depl.put_len /\ ~draining
  /\ \E r \in {reserve_put(Fresh, depl.put_len[nid] + Excess)}, accept \in BOOLEAN :
       finish(r.w, IF r.ok /\ accept THEN <<PutRec(nid, 0, depl.put_len[nid])>> ELSE <<>>, r.ok)
  /\ nid' = nid + 1
  /\ UNCHANGED draining

Command ==
  /\ \E journal \in Changes : CanWrite(Len(journal)) /\ finish(Fresh, journal, FALSE)
  /\ UNCHANGED <<nid, draining>>

SetDraining ==
  /\ Running
  /\ finish(Fresh, <<>>, FALSE)
  /\ draining' = ~draining
  /\ UNCHANGED nid

\* Time passes; the actor is never late for its own timer here.
Clock ==
  /\ Running /\ sync_in # 0
  /\ age < depl.every \/ sync_in > 0 \/ (w.unsynced /\ w.policy = "Interval" /\ stale < 2 * depl.every)
  /\ age' = Min({age + 1, depl.every})
  /\ sync_in' = IF sync_in > 0 THEN sync_in - 1 ELSE sync_in
  /\ stale' = IF w.unsynced /\ w.policy = "Interval" THEN Min({stale + 1, 2 * depl.every}) ELSE 0
  /\ UNCHANGED <<status, w, m, hist, base, acked, synced, must, nid, tubes, draining>>

on_timer ==
  /\ Running /\ sync_in = 0
  /\ w' = sync_if_due(Fresh, age)
  /\ age' = IF Due(w, age) THEN 0 ELSE age
  /\ sync_in' = -1
  /\ stale' = IF w'.unsynced THEN stale ELSE 0
  /\ m' = Disk /\ acked' = AckedBy(w.ops) /\ synced' = SyncedBy(w.ops)
  /\ UNCHANGED <<status, hist, base, must, nid, tubes, draining>>

\* SIGTERM: an unconditional sync with the interval policy, then exit.
shutdown ==
  /\ Running
  /\ \E v \in {sync_if_due(Fresh, depl.every)} :
       /\ w' = [v EXCEPT !.ops = <<>>]
       /\ m' = Perform(Disk, v.ops)
       /\ synced' = LastUpto(v.ops, {"sync"}, SyncedBy(w.ops))
  /\ acked' = AckedBy(w.ops) /\ must' = Len(hist) - 1
  /\ status' = "stopped"
  /\ UNCHANGED <<hist, base, nid, tubes, draining, age, sync_in, stale>>

-----------------------------------------------------------------------------
(* Crashes and restarts.                                                   *)

Die(done, disks, floor) ==
  /\ m' \in disks
  /\ must' = floor
  /\ acked' = AckedBy(done) /\ synced' = SyncedBy(done)
  /\ status' = "down"
  /\ w' = Fresh
  /\ UNCHANGED <<hist, base, nid, tubes, draining, age, sync_in, stale>>

\* The disks left when the process stops after the operations `done`.
KilledAfter(k) ==
  LET disk == Perform(m, SubSeq(w.ops, 1, k))
  IN  IF k = Len(w.ops) THEN {disk} ELSE Killed(disk, w.ops[k + 1])

Kill ==
  /\ depl.kills /\ status = "up"
  /\ \E k \in 0 .. Len(w.ops) :
       LET done == SubSeq(w.ops, 1, k) IN Die(done, KilledAfter(k), Max({base, AckedBy(done)}))

\* With fsync on every append a released reply is durable; otherwise only
\* what an fsync covered is, and after a clean stop everything.
PowerFloor(done) ==
  IF status = "stopped" /\ Len(hist) - 1 > base THEN must
  ELSE IF depl.policy = "Always" THEN Max({AckedBy(done), SyncedBy(done)}) ELSE SyncedBy(done)

PowerFailure ==
  /\ depl.power
  /\ \E k \in 0 .. Len(w.ops) :
       LET done == SubSeq(w.ops, 1, k)
       IN  Die(done, UNION {PowerLost(d) : d \in KilledAfter(k)}, PowerFloor(done))

\* A start: the jobs replayed become the engine's, or the server exits again.
Started(v, st, r) ==
  /\ w' = v
  /\ status' = "up"
  /\ hist' = SubSeq(hist, synced + 1, r + 1)
  /\ base' = r - synced /\ acked' = 0 /\ synced' = 0 /\ must' = 0
  /\ nid' = next_id(st) /\ tubes' = st.order
  /\ UNCHANGED m
NotStarted(v) ==
  /\ m' = Perform(m, v.ops) /\ w' = [v EXCEPT !.ops = <<>>]
  /\ status' = "down"
  /\ UNCHANGED <<hist, base, acked, synced, must, nid, tubes>>
Start ==
  /\ status # "up" /\ Max({0} \cup DOMAIN m) < depl.index
  /\ \E v \in {open(m, depl)}, st \in {scan(m)} :
       \/ Ok(v) /\ Started(v, st, Max({synced} \cup {n \in synced .. Len(hist) - 1 :
                                                     hist[n + 1] = LiveOf(st)}))
       \/ ~Ok(v) /\ NotStarted(v)
  /\ age' = depl.every /\ sync_in' = -1 /\ stale' = 0 /\ draining' = FALSE

Init ==
  /\ depl \in Deployments
  /\ status = "down"
  /\ m = <<>> /\ w = Recovered(<<>>, ReplayState, depl)
  /\ hist = << <<>> >> /\ base = 0 /\ acked = 0 /\ synced = 0 /\ must = 0
  /\ nid = 1 /\ tubes = <<>> /\ draining = FALSE /\ age = depl.every /\ sync_in = -1 /\ stale = 0

Next ==
  /\ \/ CommandPut \/ Command \/ SetDraining \/ Clock \/ on_timer \/ shutdown
     \/ Kill \/ PowerFailure \/ Start
  /\ UNCHANGED depl

Spec == Init /\ [][Next]_vars
=============================================================================
