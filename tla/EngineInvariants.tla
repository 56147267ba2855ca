-------------------------- MODULE EngineInvariants --------------------------
(***************************************************************************)
(* What the engine must keep true, over the state of module Engine.        *)
(***************************************************************************)
EXTENDS Engine, EngineTypes

CallType == [fn : {"none", "end", "reply", "reserve_now", "kick", "disconnect", "unwatch",
                   "tick_delayed", "tick_conns", "conn_timeout"},
             conn : ConnIds \cup {None}, tube : TubeNames \cup {None}, buried : BOOLEAN,
             n : Nat, jobs : Seq(Nat), watch : Seq(TubeNames), processed : SUBSET ConnIds]

\* Every piece of state has its type.
TypeOK ==
    /\ EngineType(eng)
    /\ call \in CallType
    /\ pq \in BOOLEAN
    /\ now \in Nat
-----------------------------------------------------------------------------
\* Every job is in exactly one place: the ready, delayed or buried set of its
\* live tube, or the reservations of the live connection that holds it.  No
\* job is lost by a command, a timeout or a disconnect, and none can be
\* handed out twice.
JobPlacement == Placed(eng, {})

Jobs == DOMAIN eng.jobs

Conns == DOMAIN eng.conns

Tubes == DOMAIN eng.tubes

\* A connection is registered with a tube exactly while it waits and watches
\* that tube, once: a wait that ends by a job, a timeout, a half-close or a
\* disconnect leaves no registration behind that a later job could be given to.
WaitersRegistered ==
    \A t \in Tubes :
        LET waiters == eng.tubes[t].waiting_conns.items
        IN  /\ Range(waiters) = {c \in Conns : eng.conns[c].waiting /\ t \in Range(eng.conns[c].watch)}
            /\ IsInjective(waiters)

\* The recorded index entries are what the data says: no delay, time-to-run
\* or wait whose timer was lost, no tube that could be served but is not in
\* `dispatchable`.
IndexesExact ==
    /\ \A t \in Tubes : /\ eng.tubes[t] = refresh_dispatchable(eng.tubes[t])
                        /\ eng.tubes[t] = refresh_delay_head(eng.tubes[t])
    /\ \A c \in Conns : eng.conns[c] = refresh_conn_tick(eng.conns[c])

\* Between calls, a ready job and a connection waiting for its tube exist
\* together only while the tube is paused.
NothingToAssign ==
    Idle => \A id \in Jobs, c \in Conns :
        /\ eng.jobs[id].state = "ready"
        /\ eng.conns[c].waiting
        /\ eng.jobs[id].tube \in Range(eng.conns[c].watch)
        => eng.tubes[eng.jobs[id].tube].unpause_at # None

\* The tubes that exist are "default" and those some connection uses or
\* watches or some job belongs to, and the reference counts say by how many
\* (while a disconnect runs, the watches it still has to drop count).  No use
\* or watch outlives its tube.  The list that list-tubes prints holds each
\* tube once, "default" first.
TubesReferenced ==
    /\ DefaultTube \in Tubes /\ eng.tube_order[1] = DefaultTube
    /\ Range(eng.tube_order) = Tubes /\ IsInjective(eng.tube_order)
    /\ \A t \in Tubes \ {DefaultTube} : refs(eng.tubes[t]) > 0
    /\ \A t \in Tubes :
         LET watchers == {c \in Conns : t \in Range(eng.conns[c].watch)}
             dropping == IF t \in Range(call.watch) THEN 1 ELSE 0
         IN  /\ eng.tubes[t].using_ct = Cardinality({c \in Conns : eng.conns[c].use_tube = t})
             /\ eng.tubes[t].watching_ct = Cardinality(watchers) + dropping
             /\ eng.tubes[t].job_ref_ct = Cardinality({id \in Jobs : eng.jobs[id].tube = t})
    /\ \A c \in Conns : {eng.conns[c].use_tube} \cup Range(eng.conns[c].watch) \subseteq Tubes

\* A put in progress owns an id no job and no other put has, below the next
\* one to be allocated, however puts of several connections overlap.
PendingIdsFresh == IdsFresh(eng)

\* A connection that is not going away is owed a reply exactly while it waits
\* for a job or its own call is running: every command is answered once,
\* whoever's call, timeout or half-close ends a wait.
RepliesOwed ==
    \A c \in Conns :
        \/ call.fn \in {"disconnect", "unwatch"} /\ call.conn = c
        \/ eng.conns[c].owed =
             IF eng.conns[c].waiting \/ (call.fn \in {"reply", "kick"} /\ call.conn = c)
             THEN 1 ELSE 0

JobsIn(t, state) == {id \in Jobs : eng.jobs[id].tube = t /\ eng.jobs[id].state = state}

\* The gauges stats and stats-tube print are the sizes of what they count;
\* a saturating decrement never hides a miscount.
GaugesExact ==
    LET InState(state) == {id \in Jobs : eng.jobs[id].state = state}
        Urgent(ids) == {id \in ids : eng.jobs[id].pri < URGENT_THRESHOLD}
        Waiters == {c \in Conns : eng.conns[c].waiting}
    IN  /\ eng.ready_ct = Cardinality(InState("ready"))
        /\ eng.urgent_ct = Cardinality(Urgent(InState("ready")))
        /\ eng.delayed_ct = Cardinality(InState("delayed"))
        /\ eng.reserved_ct = Cardinality(InState("reserved"))
        /\ eng.buried_ct = Cardinality(InState("buried"))
        /\ eng.waiting_ct = Cardinality(Waiters)
        /\ \A t \in Tubes :
             /\ eng.tubes[t].urgent_ct = Cardinality(Urgent(JobsIn(t, "ready")))
             /\ eng.tubes[t].reserved_ct = Cardinality(JobsIn(t, "reserved"))
             /\ eng.tubes[t].buried_ct = Cardinality(JobsIn(t, "buried"))
             /\ eng.tubes[t].waiting_ct =
                  Cardinality({c \in Waiters : t \in Range(eng.conns[c].watch)})
-----------------------------------------------------------------------------
(* What a step may never do.                                               *)

PendingIds(s) == {s.conns[c].pending_put : c \in DOMAIN s.conns} \ {None, TooBig}

\* Job ids only grow: an id handed to a put is new, and a job only appears
\* under the id its connection's put was given, so a deleted or rejected
\* job's id never names another one.
IdsNeverReused ==
    [][ /\ eng'.next_job_id >= eng.next_job_id
        /\ \A id \in PendingIds(eng') \ PendingIds(eng) : id >= eng.next_job_id
        /\ DOMAIN eng'.jobs \ Jobs \subseteq PendingIds(eng) ]_vars

\* A reservation ends only by its holder's release, bury or delete, by its
\* holder's disconnect, or once its deadline has passed: no other
\* connection's command and no early tick takes a job from a worker.
ReservationKept ==
    [][ \A id \in Jobs, c \in Conns : Holds(c, id) /\ ~Holds(c, id)' =>
          \/ eng.jobs[id].deadline_at < now
          \/ call.fn = "disconnect" /\ call.conn = c
          \/ \E pri \in Pris : Bury(c, id, pri) \/ \E delay \in Delays : Release(c, id, pri, delay)
          \/ Delete(c, id) ]_vars

Paused(t) == eng.tubes[t].unpause_at # None /\ eng.tubes[t].unpause_at > now

\* When a waiting connection is given a job, it watches the job's tube, the
\* tube is not paused, and no ready job that any waiting connection could
\* have been given precedes it by priority and then by id.
BestJobServed ==
    [][ \A id \in Jobs, c \in Conns :
          eng.conns[c].waiting /\ ~Holds(c, id) /\ Holds(c, id)' =>
            /\ eng.jobs[id].tube \in Range(eng.conns[c].watch) /\ ~Paused(eng.jobs[id].tube)
            /\ \A k \in Jobs \ {id} :
                 /\ eng.jobs[k].state = "ready" /\ ~Paused(eng.jobs[k].tube)
                 /\ \E d \in Conns : /\ eng.conns[d].waiting
                                     /\ eng.jobs[k].tube \in Range(eng.conns[d].watch)
                 => PairLess(<<eng.jobs[id].pri, id>>, <<eng.jobs[k].pri, k>>) ]_vars

\* A wait ends without a job only when its timeout has come, when one of the
\* connection's reservations is inside the safety margin, or because the
\* client half-closed or left.
WaitEndsForCause ==
    [][ \A c \in Conns : eng.conns[c].waiting /\ c \in DOMAIN eng'.conns /\ ~eng'.conns[c].waiting =>
          \/ Len(eng'.conns[c].reserved) > Len(eng.conns[c].reserved)
          \/ conn_deadline_soon(eng, c, now)
          \/ eng.conns[c].wait_deadline # None /\ eng.conns[c].wait_deadline <= now
          \/ HalfClose(c) \/ Disconnect(c) ]_vars
-----------------------------------------------------------------------------
(* What must eventually happen.  A running call goes on, and the actor     *)
(* ticks after every batch of messages and when the next deadline comes,   *)
(* so a tick that keeps becoming possible is taken.  The clock need not    *)
(* move: the properties say what happens once something is due.            *)

Fairness == WF_vars(CallStep) /\ SF_vars(Tick)

FairSpec == Spec /\ Fairness

WaitDue(c) ==
    /\ Live(c)
    /\ eng.conns[c].wait_deadline # None
    /\ eng.conns[c].wait_deadline <= now

\* A reserve whose timeout has come is answered, unless its connection goes.
WaitsEnd == \A c \in ConnIds : WaitDue(c) ~> ~WaitDue(c)

DelayDue(id) ==
    id \in Jobs /\ eng.jobs[id].state = "delayed" /\ eng.jobs[id].deadline_at <= now

\* A delayed job whose deadline has come becomes ready (or is taken or
\* deleted): it is never forgotten in the delayed set.
DelaysEnd == \A id \in JobIds : DelayDue(id) ~> ~DelayDue(id)

ReservationOverdue(id) ==
    id \in Jobs /\ eng.jobs[id].state = "reserved" /\ eng.jobs[id].deadline_at < now

\* A reservation past its time to run ends (or is touched in time): a job
\* held by a worker that went silent comes back.
ReservationsEnd == \A id \in JobIds : ReservationOverdue(id) ~> ~ReservationOverdue(id)

\* Every call returns: process_queue, kick, disconnect and tick terminate,
\* although each dispatch changes what is still due.
CallsReturn == (~Idle) ~> Idle
=============================================================================
