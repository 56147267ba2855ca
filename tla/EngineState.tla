---------------------------- MODULE EngineState ----------------------------
(***************************************************************************)
(* The data of the job engine (crates/engine/src/engine.rs and model.rs)   *)
(* and the private helpers every command is built from.  A helper of the   *)
(* code that takes `&mut self` is an operator here that takes the engine   *)
(* record s and returns the changed one.                                   *)
(*                                                                         *)
(* What the record keeps and what it abstracts:                            *)
(*  - tubes are named directly; the slab of TubeIds and its free list only *)
(*    give names to the same tubes.  `pos` is the index in tube_order;     *)
(*  - the global indexes (dispatchable, delay_heads, pauses, conn_ticks)   *)
(*    are the sets of tubes and connections whose recorded flag or key     *)
(*    says so: the code inserts and removes an index entry exactly where   *)
(*    it assigns that field;                                               *)
(*  - list_seq is the order of the sequences `buried` and `reserved`;      *)
(*  - deadline_at is 0 in a ready or buried job, where no code reads it;   *)
(*  - job bodies, creation times, and counters that only ever grow and     *)
(*    are only printed (cmd_*, total_*, per-job counts) are left out;      *)
(*  - 64-bit times do not overflow: a deadline is at most the clock plus   *)
(*    2^32 seconds.                                                        *)
(***************************************************************************)
EXTENDS Ms, FiniteSets

CONSTANTS
    TubeNames,      \* tube names clients may use
    DefaultTube,    \* "default", the immortal tube
    ConnIds,        \* connection ids
    NanosPerSec,    \* clock units per second
    Journal,        \* EngineConfig::journal: are journal entries produced?
    None,           \* Option::None
    TooBig          \* PendingPut { id: None }: an oversized put

ASSUME ConstantsAssumption ==
    /\ DefaultTube \in TubeNames
    /\ ConnIds \subseteq Nat
    /\ NanosPerSec \in Nat \ {0}
    /\ Journal \in BOOLEAN
    /\ None \notin Nat \cup TubeNames \cup {TooBig}
    /\ TooBig \notin Nat

URGENT_THRESHOLD == 1024

\* SAFETY_MARGIN: one second before a reservation times out.
SAFETY_MARGIN == NanosPerSec

States == {"ready", "delayed", "reserved", "buried"}

\* TubeState::new.
NewTube ==
    [ready |-> {}, delayed |-> {}, buried |-> <<>>, waiting_conns |-> MsEmpty,
     using_ct |-> 0, watching_ct |-> 0, job_ref_ct |-> 0,
     urgent_ct |-> 0, buried_ct |-> 0, reserved_ct |-> 0, waiting_ct |-> 0,
     unpause_at |-> None, delay_head |-> None, dispatchable |-> FALSE]

\* ConnState::new.  `owed` is not in the code: it counts the commands the
\* connection was promised a reply for that the Outbox does not hold yet.
NewConn ==
    [use_tube |-> DefaultTube, watch |-> <<DefaultTube>>, waiting |-> FALSE,
     wait_deadline |-> None, reserved |-> <<>>, reserved_by_deadline |-> {},
     pending_put |-> None, tick_key |-> None, owed |-> 0]

\* Engine::new: only the default tube exists.
NewEngine ==
    [next_job_id |-> 1, jobs |-> [i \in {} |-> None],
     tubes |-> [t \in {DefaultTube} |-> NewTube], tube_order |-> <<DefaultTube>>,
     conns |-> [c \in {} |-> None], draining |-> FALSE,
     ready_ct |-> 0, urgent_ct |-> 0, delayed_ct |-> 0, reserved_ct |-> 0,
     buried_ct |-> 0, waiting_ct |-> 0, journal |-> <<>>]
-----------------------------------------------------------------------------
(* Ordered sets (BTreeSet of pairs) and partial functions (maps).          *)

PairLess(p, q) == p[1] < q[1] \/ (p[1] = q[1] /\ p[2] < q[2])

\* BTreeSet::first of a non-empty set of pairs of numbers.
first(S) == CHOOSE p \in S : \A q \in S : ~PairLess(q, p)

with_entry(f, k, v) == [x \in DOMAIN f \cup {k} |-> IF x = k THEN v ELSE f[x]]

without_entry(f, k) == Restrict(f, DOMAIN f \ {k})

saturating_sub(n, d) == IF n > d THEN n - d ELSE 0
-----------------------------------------------------------------------------
(* Recorded index fields, recomputed from the rest of their record.        *)

refresh_dispatchable(ts) ==
    [ts EXCEPT !.dispatchable = ts.waiting_conns.items # <<>> /\ ts.ready # {}]

refresh_delay_head(ts) ==
    [ts EXCEPT !.delay_head = IF ts.delayed = {} THEN None ELSE first(ts.delayed)[1]]

soonest_reserved(cs) == first(cs.reserved_by_deadline)

\* When the connection next needs attention: its soonest reservation (one
\* margin earlier while it waits) or the end of its wait.
conn_tickat(cs) ==
    LET margin == IF cs.waiting THEN SAFETY_MARGIN ELSE 0
        due == (IF cs.reserved_by_deadline = {} THEN {}
                ELSE {saturating_sub(soonest_reserved(cs)[1], margin)})
               \cup (IF cs.waiting /\ cs.wait_deadline # None
                     THEN {cs.wait_deadline} ELSE {})
    IN  IF due = {} THEN None ELSE CHOOSE d \in due : \A e \in due : d <= e

refresh_conn_tick(cs) == [cs EXCEPT !.tick_key = conn_tickat(cs)]
-----------------------------------------------------------------------------
(* Journal entries, and the reply to a command.                            *)

job_record(j) ==
    [pri |-> j.pri, ttr |-> j.ttr,
     state |-> IF j.state = "reserved" THEN "ready" ELSE j.state,
     deadline_at |-> IF j.state = "delayed" THEN j.deadline_at ELSE 0]

push_journal(s, entry) ==
    IF Journal THEN [s EXCEPT !.journal = Append(@, entry)] ELSE s

journal_put(s, id) ==
    push_journal(s, [op |-> "put", id |-> id, record |-> job_record(s.jobs[id]),
                     tube |-> s.jobs[id].tube])

journal_update(s, id) ==
    push_journal(s, [op |-> "update", id |-> id, record |-> job_record(s.jobs[id])])

journal_delete(s, id) == push_journal(s, [op |-> "delete", id |-> id])

reply(s, c) == [s EXCEPT !.conns[c].owed = @ - 1]
-----------------------------------------------------------------------------
(* Tubes.                                                                  *)

find_or_make_tube(s, t) ==
    IF t \in DOMAIN s.tubes THEN s
    ELSE [s EXCEPT !.tubes = with_entry(@, t, NewTube), !.tube_order = Append(@, t)]

refs(ts) == ts.using_ct + ts.watching_ct + ts.job_ref_ct

\* A tube without users, watchers or jobs is destroyed; "default" never is.
gc_tube_if_orphan(s, t) ==
    IF t = DefaultTube \/ refs(s.tubes[t]) # 0 THEN s
    ELSE [s EXCEPT !.tubes = without_entry(@, t),
                   !.tube_order = list_swap_remove(@, t)]
-----------------------------------------------------------------------------
(* What happens to one job, tube or connection record.                     *)

urgent(pri) == IF pri < URGENT_THRESHOLD THEN 1 ELSE 0

queued(j, state, deadline) ==
    [j EXCEPT !.state = state, !.reserver = None, !.deadline_at = deadline]

held(j, c, deadline) ==
    [j EXCEPT !.state = "reserved", !.reserver = c, !.deadline_at = deadline]

add_ready(ts, pri, id) ==
    refresh_dispatchable(
        [ts EXCEPT !.ready = @ \cup {<<pri, id>>}, !.urgent_ct = @ + urgent(pri)])

drop_ready(ts, pri, id) ==
    refresh_dispatchable(
        [ts EXCEPT !.ready = @ \ {<<pri, id>>},
                   !.urgent_ct = saturating_sub(@, urgent(pri))])

add_delayed(ts, deadline, id) ==
    refresh_delay_head([ts EXCEPT !.delayed = @ \cup {<<deadline, id>>}])

drop_delayed(ts, deadline, id) ==
    refresh_delay_head([ts EXCEPT !.delayed = @ \ {<<deadline, id>>}])

add_buried(ts, id) == [ts EXCEPT !.buried = Append(@, id), !.buried_ct = @ + 1]

drop_buried(ts, id) ==
    [ts EXCEPT !.buried = list_remove(@, id), !.buried_ct = saturating_sub(@, 1)]

add_waiter(ts, c) ==
    refresh_dispatchable(
        [ts EXCEPT !.waiting_conns = ms_append(@, c), !.waiting_ct = @ + 1])

drop_waiter(ts, c) ==
    refresh_dispatchable(
        [ts EXCEPT !.waiting_conns = ms_remove(@, c),
                   !.waiting_ct = saturating_sub(@, 1)])

take_waiter(ts) == refresh_dispatchable([ts EXCEPT !.waiting_conns = ms_take(@)])

\* A new connection uses and watches the tube.
joined(ts) == [ts EXCEPT !.using_ct = @ + 1, !.watching_ct = @ + 1]

count_reserved(ts, n) == [ts EXCEPT !.reserved_ct = n]

hold(cs, deadline, id) ==
    refresh_conn_tick([cs EXCEPT !.reserved = Append(@, id),
                                 !.reserved_by_deadline = @ \cup {<<deadline, id>>}])

unhold(cs, deadline, id) ==
    refresh_conn_tick([cs EXCEPT !.reserved = list_remove(@, id),
                                 !.reserved_by_deadline = @ \ {<<deadline, id>>}])

rehold(cs, old, new, id) ==
    refresh_conn_tick([cs EXCEPT !.reserved_by_deadline =
        (@ \ {<<old, id>>}) \cup {<<new, id>>}])

set_wait(cs, waiting, wait_deadline) ==
    refresh_conn_tick([cs EXCEPT !.waiting = waiting, !.wait_deadline = wait_deadline])
-----------------------------------------------------------------------------
(* The containers a job can be in.  insert_* puts job id, which is in none *)
(* of them, into one and sets its state; remove_* takes it out and leaves  *)
(* its state to the caller.                                                *)

insert_ready(s, t, id) ==
    [s EXCEPT !.jobs[id] = queued(@, "ready", 0),
              !.tubes[t] = add_ready(@, s.jobs[id].pri, id),
              !.ready_ct = @ + 1,
              !.urgent_ct = @ + urgent(s.jobs[id].pri)]

\* Mutant: the server's urgent gauge is not decremented.
remove_ready_urgent_kept(s, t, id) ==
    [s EXCEPT !.tubes[t] = drop_ready(@, s.jobs[id].pri, id),
              !.ready_ct = saturating_sub(@, 1)]

remove_ready(s, t, id) ==
    [s EXCEPT !.tubes[t] = drop_ready(@, s.jobs[id].pri, id),
              !.ready_ct = saturating_sub(@, 1),
              !.urgent_ct = saturating_sub(@, urgent(s.jobs[id].pri))]

\* Mutant: the tube's entry in delay_heads is not refreshed.
insert_delayed_unindexed(s, t, id, deadline) ==
    [s EXCEPT !.jobs[id] = queued(@, "delayed", deadline),
              !.tubes[t].delayed = @ \cup {<<deadline, id>>},
              !.delayed_ct = @ + 1]

insert_delayed(s, t, id, deadline) ==
    [s EXCEPT !.jobs[id] = queued(@, "delayed", deadline),
              !.tubes[t] = add_delayed(@, deadline, id),
              !.delayed_ct = @ + 1]

remove_delayed(s, t, id) ==
    [s EXCEPT !.tubes[t] = drop_delayed(@, s.jobs[id].deadline_at, id),
              !.delayed_ct = saturating_sub(@, 1)]

insert_buried(s, t, id) ==
    [s EXCEPT !.jobs[id] = queued(@, "buried", 0),
              !.tubes[t] = add_buried(@, id),
              !.buried_ct = @ + 1]

\* remove_buried; pop_buried_front is the same of the first job of the list.
remove_buried(s, t, id) ==
    [s EXCEPT !.tubes[t] = drop_buried(@, id),
              !.buried_ct = saturating_sub(@, 1)]

\* Mutant: the connection's tick is not refreshed.
do_reserve_untimed(s, c, id, now) ==
    LET deadline == now + s.jobs[id].ttr * NanosPerSec
    IN  [s EXCEPT !.jobs[id] = held(@, c, deadline),
                  !.conns[c] = [@ EXCEPT !.reserved = Append(@, id),
                      !.reserved_by_deadline = @ \cup {<<deadline, id>>}],
                  !.tubes[s.jobs[id].tube] = count_reserved(@, @.reserved_ct + 1),
                  !.reserved_ct = @ + 1]

\* Connection c takes job id, which is in no container, for its time-to-run.
do_reserve(s, c, id, now) ==
    LET deadline == now + s.jobs[id].ttr * NanosPerSec
    IN  [s EXCEPT !.jobs[id] = held(@, c, deadline),
                  !.conns[c] = hold(@, deadline, id),
                  !.tubes[s.jobs[id].tube] = count_reserved(@, @.reserved_ct + 1),
                  !.reserved_ct = @ + 1]

do_unreserve(s, c, id) ==
    [s EXCEPT !.jobs[id].reserver = None,
              !.conns[c] = unhold(@, s.jobs[id].deadline_at, id),
              !.tubes[s.jobs[id].tube] =
                  count_reserved(@, saturating_sub(@.reserved_ct, 1)),
              !.reserved_ct = saturating_sub(@, 1)]

\* The container a job leaves by its state, when it is not reserved.
remove_queued(s, id) ==
    LET j == s.jobs[id]
    IN  CASE j.state = "ready"   -> remove_ready(s, j.tube, id)
          [] j.state = "delayed" -> remove_delayed(s, j.tube, id)
          [] j.state = "buried"  -> remove_buried(s, j.tube, id)
-----------------------------------------------------------------------------
(* Waiting connections.  A wait registers the connection with every tube   *)
(* it watches; the watch list holds each tube once, so the code's loop     *)
(* over the list is one simultaneous update.                               *)

\* Mutant: the wait's deadline is not put into conn_ticks.
enqueue_waiting_conn_untimed(s, c, wait_deadline) ==
    LET watched == Range(s.conns[c].watch)
    IN  [s EXCEPT
          !.conns[c] = [@ EXCEPT !.waiting = TRUE, !.wait_deadline = wait_deadline],
          !.tubes = [t \in DOMAIN @ |-> IF t \in watched THEN add_waiter(@[t], c) ELSE @[t]],
          !.waiting_ct = @ + 1]

enqueue_waiting_conn(s, c, wait_deadline) ==
    LET watched == Range(s.conns[c].watch)
    IN  [s EXCEPT
          !.conns[c] = set_wait(@, TRUE, wait_deadline),
          !.tubes = [t \in DOMAIN @ |-> IF t \in watched THEN add_waiter(@[t], c) ELSE @[t]],
          !.waiting_ct = @ + 1]

\* Mutant: the connection stays registered with the tubes it watches.
do_remove_waiting_conn_registered(s, c) ==
    IF ~s.conns[c].waiting THEN s
    ELSE [s EXCEPT !.conns[c] = set_wait(@, FALSE, None),
                   !.waiting_ct = saturating_sub(@, 1)]

\* Mutant: a connection that is not waiting is removed too, and the gauge is
\* decremented below zero.
do_remove_waiting_conn_always(s, c) ==
    [s EXCEPT !.conns[c] = set_wait(@, FALSE, None), !.waiting_ct = @ - 1]

do_remove_waiting_conn(s, c) ==
    LET watched == Range(s.conns[c].watch)
    IN  IF ~s.conns[c].waiting THEN s
        ELSE [s EXCEPT
               !.conns[c] = set_wait(@, FALSE, None),
               !.tubes = [t \in DOMAIN @ |->
                            IF t \in watched THEN drop_waiter(@[t], c) ELSE @[t]],
               !.waiting_ct = saturating_sub(@, 1)]
-----------------------------------------------------------------------------
(* What is due, and who can be served.                                     *)

clear_expired_pauses(s, now) ==
    LET Expired(ts) == ts.unpause_at # None /\ ts.unpause_at <= now
    IN  [s EXCEPT !.tubes = [t \in DOMAIN @ |->
            IF Expired(@[t]) THEN [@[t] EXCEPT !.unpause_at = None] ELSE @[t]]]

\* The tubes process_queue looks at: waiters, ready jobs, and no pause.
serving(s) ==
    {t \in DOMAIN s.tubes : s.tubes[t].dispatchable /\ s.tubes[t].unpause_at = None}

\* Mutant: whichever tube comes first.
best_tube_any(s) == CHOOSE t \in serving(s) : TRUE

\* The serving tube with the smallest (pri, id) at its head.
best_tube(s) ==
    CHOOSE t \in serving(s) : \A u \in serving(s) :
        ~PairLess(first(s.tubes[u].ready), first(s.tubes[t].ready))

\* Mutant: the oldest ready job is served, whatever its priority.
assign_oldest(s, now) ==
    LET t  == best_tube(s)
        id == CHOOSE i \in {p[2] : p \in s.tubes[t].ready} :
                  \A p \in s.tubes[t].ready : i <= p[2]
        c  == ms_taken(s.tubes[t].waiting_conns)
        s1 == remove_ready(s, t, id)
    IN  reply(do_reserve(do_remove_waiting_conn(s1, c), c, id, now), c)

\* One round of process_queue's loop: the best ready job goes to the waiter
\* its tube's round-robin picks, which stops waiting everywhere.
assign_best(s, now) ==
    LET t  == best_tube(s)
        id == first(s.tubes[t].ready)[2]
        c  == ms_taken(s.tubes[t].waiting_conns)
        s1 == remove_ready(s, t, id)
        s2 == [s1 EXCEPT !.tubes[t] = take_waiter(@)]
    IN  reply(do_reserve(do_remove_waiting_conn(s2, c), c, id, now), c)

delayed_tubes(s) == {t \in DOMAIN s.tubes : s.tubes[t].delay_head # None}

\* soonest_delayed_job: smallest recorded head; ties go to the tube that
\* comes first in tube_order.
soonest_delayed_tube(s) ==
    LET Key(t) == <<s.tubes[t].delay_head, position(s.tube_order, t)>>
    IN  CHOOSE t \in delayed_tubes(s) : \A u \in delayed_tubes(s) : ~PairLess(Key(u), Key(t))

conn_deadline_soon(s, c, now) ==
    /\ s.conns[c].reserved_by_deadline # {}
    /\ now >= saturating_sub(soonest_reserved(s.conns[c])[1], SAFETY_MARGIN)

conn_ready(s, c) == \E t \in Range(s.conns[c].watch) : s.tubes[t].ready # {}

\* next_deadline: what the indexes say is due, whatever the data says.
anything_due(s, now) ==
    \/ \E t \in DOMAIN s.tubes :
          \/ s.tubes[t].delay_head # None /\ s.tubes[t].delay_head <= now
          \/ s.tubes[t].unpause_at # None /\ s.tubes[t].unpause_at <= now
    \/ \E c \in DOMAIN s.conns : s.conns[c].tick_key # None /\ s.conns[c].tick_key <= now
=============================================================================
