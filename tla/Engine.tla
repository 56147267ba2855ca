------------------------------- MODULE Engine -------------------------------
(***************************************************************************)
(* The deterministic job engine: one action per entry point of             *)
(* crates/engine/src/engine.rs that changes state.  The engine is driven   *)
(* by one thread (engine_actor.rs, or the replicated state machine), so a  *)
(* call runs alone to its end.  Calls that loop are broken into one step   *)
(* per iteration: `call` is the frame of the running call and `pq` says    *)
(* that its process_queue is running.  No other call can begin until the   *)
(* frame is gone, so the steps of a call are never interleaved with        *)
(* another; splitting them keeps every step a simple function of the       *)
(* state, and lets invariants that hold between iterations be stated.      *)
(*                                                                         *)
(* The caller's contract is the one `handle` documents and the connection  *)
(* task keeps: no command for a connection before the reply to its         *)
(* previous one, and between PutStarted and the end of that put nothing    *)
(* else.  A disconnect or half-close may come at any time, and the clock   *)
(* may run far past a deadline before the next tick.                       *)
(*                                                                         *)
(* Commands that only read (the peek, stats and list families) and replies *)
(* that refuse a command (NOT_FOUND, NOT_IGNORED) change nothing but a     *)
(* statistics counter: they are stuttering steps and not listed.           *)
(***************************************************************************)
EXTENDS EngineState

CONSTANTS
    MaxJobs,        \* bound: job ids ever allocated
    MaxTime,        \* bound: the clock
    Pris, Delays, Ttrs, Timeouts, Pauses, Kicks,  \* argument values tried
    Commands        \* the calls clients make; a run may look at some of them

ASSUME BoundsAssumption ==
    /\ MaxJobs \in Nat
    /\ MaxTime \in Nat
    /\ Pris \subseteq Nat
    /\ Delays \subseteq Nat
    /\ Ttrs \subseteq Nat
    /\ Timeouts \subseteq Nat \cup {None}
    /\ Pauses \subseteq Nat
    /\ Kicks \subseteq Nat

VARIABLES
    eng,    \* the engine record (EngineState)
    call,   \* frame of the running call
    pq,     \* is process_queue running?
    now     \* the clock the caller passes in

vars == <<eng, call, pq, now>>

NoCall == [fn |-> "none", conn |-> None, tube |-> None, buried |-> FALSE,
           n |-> 0, jobs |-> <<>>, watch |-> <<>>, processed |-> {}]

Init ==
    /\ eng = NewEngine
    /\ call = NoCall
    /\ pq = FALSE
    /\ now = 0

Idle == call = NoCall

\* The call ends here.
Return(s) == eng' = s /\ call' = NoCall /\ pq' = FALSE /\ UNCHANGED now

\* The call continues with frame f, running process_queue first.
Continue(s, f) == eng' = s /\ call' = f /\ pq' = TRUE /\ UNCHANGED now

\* The call continues with frame f.
Goto(s, f) == eng' = s /\ call' = f /\ pq' = FALSE /\ UNCHANGED now

ReplyTo(c) == [NoCall EXCEPT !.fn = "reply", !.conn = c]

Live(c) == c \in DOMAIN eng.conns

\* c may send a command: its last one is answered and no put is half-way.
MaySend(c) ==
    Idle /\ Live(c) /\ eng.conns[c].owed = 0 /\ eng.conns[c].pending_put = None

\* The engine once it has accepted a command of c and owes it a reply.
accept(s, c) == [s EXCEPT !.conns[c].owed = @ + 1]
-----------------------------------------------------------------------------
(* Connections.                                                            *)

connect(s, c) ==
    [s EXCEPT !.tubes[DefaultTube] = joined(@),
              !.conns = with_entry(@, c, NewConn)]

Connect(c) ==
    /\ Idle
    /\ ~Live(c)
    /\ Return(connect(eng, c))

\* Mutant: the wait queues still hold the connection that leaves.
DisconnectWaiting(c) ==
    /\ Idle
    /\ Live(c)
    /\ Goto(eng, [NoCall EXCEPT !.fn = "disconnect", !.conn = c,
                                !.jobs = eng.conns[c].reserved])

\* disconnect: leave the wait queues, then give back the reserved jobs one
\* by one (oldest first, process_queue after each), then the watched tubes
\* in ms_clear order, then the used tube, then forget the connection.
Disconnect(c) ==
    /\ Idle
    /\ Live(c)
    /\ Goto(do_remove_waiting_conn(eng, c),
            [NoCall EXCEPT !.fn = "disconnect", !.conn = c,
                           !.jobs = eng.conns[c].reserved])

give_back(s, c, id) == insert_ready(do_unreserve(s, c, id), s.jobs[id].tube, id)

\* Mutant: process_queue is not run for the jobs given back.
DisconnectJobOnly ==
    /\ call.fn = "disconnect" /\ ~pq
    /\ call.jobs # <<>>
    /\ Goto(give_back(eng, call.conn, Head(call.jobs)), [call EXCEPT !.jobs = Tail(@)])

DisconnectJob ==
    /\ call.fn = "disconnect" /\ ~pq
    /\ call.jobs # <<>>
    /\ Continue(give_back(eng, call.conn, Head(call.jobs)),
                [call EXCEPT !.jobs = Tail(@)])

DisconnectJobsDone ==
    /\ call.fn = "disconnect" /\ ~pq
    /\ call.jobs = <<>>
    /\ Goto([eng EXCEPT !.conns[call.conn].watch = <<>>],
            [call EXCEPT !.fn = "unwatch", !.watch = delete_order(eng.conns[call.conn].watch)])

drop_watch(s, t) ==
    gc_tube_if_orphan([s EXCEPT !.tubes[t].watching_ct = saturating_sub(@, 1)], t)

drop_use(s, t) ==
    gc_tube_if_orphan([s EXCEPT !.tubes[t].using_ct = saturating_sub(@, 1)], t)

DisconnectWatch ==
    /\ call.fn = "unwatch"
    /\ call.watch # <<>>
    /\ Goto(drop_watch(eng, Head(call.watch)), [call EXCEPT !.watch = Tail(@)])

forget_conn(s, c) ==
    LET s1 == drop_use(s, s.conns[c].use_tube)
    IN  [s1 EXCEPT !.conns = without_entry(@, c)]

DisconnectEnd ==
    /\ call.fn = "unwatch"
    /\ call.watch = <<>>
    /\ Return(forget_conn(eng, call.conn))

\* Mutant: the client is answered and goes on waiting.
HalfCloseWaiting(c) ==
    /\ Idle
    /\ Live(c)
    /\ eng.conns[c].waiting
    /\ Return(reply(eng, c))

\* A client that half-closed its socket stops waiting: TIMED_OUT.
HalfClose(c) ==
    /\ Idle
    /\ Live(c)
    /\ eng.conns[c].waiting
    /\ Return(reply(do_remove_waiting_conn(eng, c), c))

\* set_draining (SIGUSR1).
Drain ==
    /\ Idle
    /\ ~eng.draining
    /\ Return([eng EXCEPT !.draining = TRUE])
-----------------------------------------------------------------------------
(* put: the header allocates the id, the body completes the job later.     *)

allocate_id(s) == [s EXCEPT !.next_job_id = @ + 1]

\* Mutant: the id is only counted when the put completes.
put_started_uncounted(s, c, too_big) ==
    [s EXCEPT !.conns[c].pending_put = IF too_big THEN TooBig ELSE s.next_job_id]

\* put_started.  An oversized put allocates nothing.
put_started(s, c, too_big) ==
    IF too_big THEN [s EXCEPT !.conns[c].pending_put = TooBig]
    ELSE [allocate_id(s) EXCEPT !.conns[c].pending_put = s.next_job_id]

PutStarted(c, too_big) ==
    /\ MaySend(c)
    /\ too_big \/ eng.next_job_id <= MaxJobs
    /\ Return(put_started(eng, c, too_big))

\* put_rejected: "job_too_big" ends an oversized put, "expected_crlf" and
\* "out_of_memory" one whose header was accepted, "trailing_garbage" one
\* whose header was not.  An id given to a rejected put is never used.
PutRejectionKinds == {"job_too_big", "trailing_garbage", "expected_crlf", "out_of_memory"}

PutRejections(pending) ==
    IF pending = TooBig THEN {"job_too_big"}
    ELSE IF pending = None THEN {"trailing_garbage"}
    ELSE {"expected_crlf", "out_of_memory"}

\* Mutant: the id of a rejected put is given back.
put_rejected_returns_id(s, c, why) ==
    LET s1 == IF why \in {"expected_crlf", "out_of_memory"}
              THEN [s EXCEPT !.next_job_id = @ - 1] ELSE s
    IN  reply(accept([s1 EXCEPT !.conns[c].pending_put = None], c), c)

put_rejected(s, c, why) ==
    LET consumed == /\ s.conns[c].pending_put = None
                    /\ why \in {"expected_crlf", "out_of_memory"}
        s1 == IF consumed THEN allocate_id(s) ELSE s
    IN  reply(accept([s1 EXCEPT !.conns[c].pending_put = None], c), c)

PutRejected(c, why) ==
    /\ Idle /\ Live(c) /\ eng.conns[c].owed = 0
    /\ why \in PutRejections(eng.conns[c].pending_put)
    /\ Return(put_rejected(eng, c, why))

\* The id of the put in progress, or a fresh one.
put_id(s, c) ==
    IF s.conns[c].pending_put \in {None, TooBig} THEN s.next_job_id
    ELSE s.conns[c].pending_put

take_pending(s, c) ==
    LET s1 == IF s.conns[c].pending_put \in {None, TooBig} THEN allocate_id(s) ELSE s
    IN  [s1 EXCEPT !.conns[c].pending_put = None]

enqueue(s, t, id, delay, at) ==
    IF delay > 0 THEN insert_delayed(s, t, id, at + delay * NanosPerSec)
    ELSE insert_ready(s, t, id)

cmd_put(s, c, pri, delay, ttr, at) ==
    LET id == put_id(s, c)
        t  == s.conns[c].use_tube
        j  == [tube |-> t, pri |-> pri, ttr |-> IF ttr = 0 THEN 1 ELSE ttr,
               state |-> "ready", reserver |-> None, deadline_at |-> 0]
        s1 == take_pending(s, c)
        s2 == [s1 EXCEPT !.jobs = with_entry(@, id, j), !.tubes[t].job_ref_ct = @ + 1]
    IN  journal_put(enqueue(s2, t, id, delay, at), id)

\* The body of a put arrived.  Draining discards the job, not its id.
Put(c, pri, delay, ttr) ==
    /\ Idle /\ Live(c)
    /\ eng.conns[c].pending_put \notin {None, TooBig}
    /\ IF eng.draining
       THEN Return(reply(accept(take_pending(eng, c), c), c))
       ELSE Continue(accept(cmd_put(eng, c, pri, delay, ttr, now), c), ReplyTo(c))
-----------------------------------------------------------------------------
(* Tubes a connection uses and watches.                                    *)

\* Mutant: the tube no longer used is not collected.
cmd_use_leaks(s, c, t) ==
    LET old == s.conns[c].use_tube
        s1  == [find_or_make_tube(s, t) EXCEPT !.tubes[old].using_ct = @ - 1]
    IN  IF t = old THEN s
        ELSE [s1 EXCEPT !.tubes[t].using_ct = @ + 1, !.conns[c].use_tube = t]

cmd_use(s, c, t) ==
    LET old == s.conns[c].use_tube
        s1  == drop_use(find_or_make_tube(s, t), old)
    IN  IF t = old THEN s
        ELSE [s1 EXCEPT !.tubes[t].using_ct = @ + 1, !.conns[c].use_tube = t]

Use(c, t) ==
    /\ MaySend(c)
    /\ Return(cmd_use(eng, c, t))

cmd_watch(s, c, t) ==
    IF t \in Range(s.conns[c].watch) THEN s
    ELSE [find_or_make_tube(s, t) EXCEPT !.conns[c].watch = Append(@, t),
                                         !.tubes[t].watching_ct = @ + 1]

Watch(c, t) ==
    /\ MaySend(c)
    /\ Return(cmd_watch(eng, c, t))

cmd_ignore(s, c, t) ==
    drop_watch([s EXCEPT !.conns[c].watch = list_swap_remove(@, t)], t)

\* The last watched tube cannot be ignored.
Ignore(c, t) ==
    /\ MaySend(c)
    /\ t \in Range(eng.conns[c].watch)
    /\ Len(eng.conns[c].watch) >= 2
    /\ Return(cmd_ignore(eng, c, t))

\* A pause of 0 seconds lasts one clock unit.
cmd_pause_tube(s, t, delay, at) ==
    [s EXCEPT !.tubes[t].unpause_at =
        at + (IF delay = 0 THEN 1 ELSE delay * NanosPerSec)]

PauseTube(c, t, delay) ==
    /\ MaySend(c)
    /\ t \in DOMAIN eng.tubes
    /\ Return(cmd_pause_tube(eng, t, delay, now))
-----------------------------------------------------------------------------
(* Reserving.                                                              *)

\* timeout is a number of seconds, or None for a plain reserve.  With a job
\* about to time out and nothing ready the answer is DEADLINE_SOON at once;
\* otherwise the connection waits, and process_queue may serve it.
Reserve(c, timeout) ==
    /\ MaySend(c)
    /\ ~(conn_deadline_soon(eng, c, now) /\ ~conn_ready(eng, c))
    /\ LET wait_deadline == IF timeout = None THEN None ELSE now + timeout * NanosPerSec
       IN  Continue(enqueue_waiting_conn(accept(eng, c), c, wait_deadline),
                    IF timeout = 0 THEN [NoCall EXCEPT !.fn = "reserve_now", !.conn = c]
                    ELSE [NoCall EXCEPT !.fn = "end"])

\* reserve-with-timeout 0 does not wait: DEADLINE_SOON or TIMED_OUT.
ReserveNow ==
    /\ call.fn = "reserve_now" /\ ~pq
    /\ Return(IF eng.conns[call.conn].waiting
              THEN reply(do_remove_waiting_conn(eng, call.conn), call.conn) ELSE eng)

\* reserve-job takes a job of any other state, and runs no process_queue.
ReserveJob(c, id) ==
    /\ MaySend(c)
    /\ id \in DOMAIN eng.jobs
    /\ eng.jobs[id].state # "reserved"
    /\ Return(do_reserve(remove_queued(eng, id), c, id, now))

\* reserved_by: c holds the reservation of id.
Holds(c, id) ==
    id \in DOMAIN eng.jobs /\ eng.jobs[id].reserver = c /\ eng.jobs[id].state = "reserved"

\* Mutant: the old deadline stays in reserved_by_deadline.
cmd_touch_twice(s, c, id, at) ==
    LET new == at + s.jobs[id].ttr * NanosPerSec
    IN  [s EXCEPT !.jobs[id].deadline_at = new,
                  !.conns[c] = refresh_conn_tick(
                      [@ EXCEPT !.reserved_by_deadline = @ \cup {<<new, id>>}])]

\* Mutant: the connection's tick is not refreshed.
cmd_touch_untimed(s, c, id, at) ==
    LET old == s.jobs[id].deadline_at
        new == at + s.jobs[id].ttr * NanosPerSec
    IN  [s EXCEPT !.jobs[id].deadline_at = new,
                  !.conns[c].reserved_by_deadline = (@ \ {<<old, id>>}) \cup {<<new, id>>}]

cmd_touch(s, c, id, at) ==
    LET old == s.jobs[id].deadline_at
        new == at + s.jobs[id].ttr * NanosPerSec
    IN  [s EXCEPT !.jobs[id].deadline_at = new,
                  !.conns[c] = rehold(@, old, new, id)]

Touch(c, id) ==
    /\ MaySend(c)
    /\ Holds(c, id)
    /\ Return(cmd_touch(eng, c, id, now))
-----------------------------------------------------------------------------
(* What becomes of a job.                                                  *)

cmd_release(s, c, id, pri, delay, at) ==
    LET s1 == [do_unreserve(s, c, id) EXCEPT !.jobs[id].pri = pri]
        s2 == enqueue(s1, s.jobs[id].tube, id, delay, at)
    IN  IF delay > 0 THEN journal_update(s2, id) ELSE s2

Release(c, id, pri, delay) ==
    /\ MaySend(c)
    /\ Holds(c, id)
    /\ Continue(accept(cmd_release(eng, c, id, pri, delay, now), c), ReplyTo(c))

cmd_bury(s, c, id, pri) ==
    LET s1 == [do_unreserve(s, c, id) EXCEPT !.jobs[id].pri = pri]
    IN  journal_update(insert_buried(s1, s.jobs[id].tube, id), id)

Bury(c, id, pri) ==
    /\ MaySend(c)
    /\ Holds(c, id)
    /\ Return(cmd_bury(eng, c, id, pri))

cmd_delete(s, c, id) ==
    LET t  == s.jobs[id].tube
        s1 == IF s.jobs[id].state = "reserved" THEN do_unreserve(s, c, id)
              ELSE remove_queued(s, id)
        s2 == [s1 EXCEPT !.tubes[t].job_ref_ct = saturating_sub(@, 1),
                         !.jobs = without_entry(@, id)]
    IN  gc_tube_if_orphan(journal_delete(s2, id), t)

\* A reserved job can only be deleted by the connection that holds it.
Delete(c, id) ==
    /\ MaySend(c)
    /\ id \in DOMAIN eng.jobs
    /\ eng.jobs[id].state = "reserved" => eng.jobs[id].reserver = c
    /\ Return(cmd_delete(eng, c, id))

kick_to_ready(s, id) ==
    journal_update(insert_ready(remove_queued(s, id), s.jobs[id].tube, id), id)

KickJob(c, id) ==
    /\ MaySend(c)
    /\ id \in DOMAIN eng.jobs
    /\ eng.jobs[id].state \in {"buried", "delayed"}
    /\ Continue(accept(kick_to_ready(eng, id), c), ReplyTo(c))

\* kick: up to n buried jobs of the used tube, or delayed ones when nothing
\* is buried as the call begins.
Kick(c, n) ==
    /\ MaySend(c)
    /\ LET t == eng.conns[c].use_tube
       IN  Goto(accept(eng, c),
                [NoCall EXCEPT !.fn = "kick", !.conn = c, !.tube = t, !.n = n,
                               !.buried = eng.tubes[t].buried # <<>>])

KickSource == LET ts == eng.tubes[call.tube]
              IN  IF call.buried THEN ts.buried # <<>> ELSE ts.delayed # {}

KickNext ==
    /\ call.fn = "kick" /\ ~pq
    /\ call.n > 0 /\ KickSource
    /\ LET ts == eng.tubes[call.tube]
           id == IF call.buried THEN Head(ts.buried) ELSE first(ts.delayed)[2]
       IN  Continue(kick_to_ready(eng, id), [call EXCEPT !.n = @ - 1])

KickEnd ==
    /\ call.fn = "kick" /\ ~pq
    /\ call.n = 0 \/ ~KickSource
    /\ Return(reply(eng, call.conn))
-----------------------------------------------------------------------------
(* process_queue, and the end of the calls that finish after it.           *)

Assign ==
    /\ pq
    /\ LET s == clear_expired_pauses(eng, now)
       IN  /\ serving(s) # {}
           /\ eng' = assign_best(s, now)
    /\ UNCHANGED <<call, pq, now>>

AssignEnd ==
    /\ pq
    /\ LET s == clear_expired_pauses(eng, now)
       IN  /\ serving(s) = {}
           /\ eng' = s
    /\ pq' = FALSE
    /\ UNCHANGED <<call, now>>

EndCall ==
    /\ call.fn = "end" /\ ~pq
    /\ Return(eng)

Reply ==
    /\ call.fn = "reply" /\ ~pq
    /\ Return(reply(eng, call.conn))
-----------------------------------------------------------------------------
(* tick: delays, then pauses, then each connection that is due.            *)

Tick ==
    /\ Idle
    /\ anything_due(eng, now)
    /\ Goto(eng, [NoCall EXCEPT !.fn = "tick_delayed"])

DelayedDue ==
    delayed_tubes(eng) # {} /\ eng.tubes[soonest_delayed_tube(eng)].delay_head <= now

TickDelayed ==
    /\ call.fn = "tick_delayed" /\ ~pq
    /\ DelayedDue
    /\ LET t  == soonest_delayed_tube(eng)
           id == first(eng.tubes[t].delayed)[2]
       IN  Continue(insert_ready(remove_delayed(eng, t, id), t, id), call)

TickPauses ==
    /\ call.fn = "tick_delayed" /\ ~pq
    /\ ~DelayedDue
    /\ eng' = eng
    /\ call' = [call EXCEPT !.fn = "tick_conns"]
    /\ pq' = (\E t \in DOMAIN eng.tubes :
                eng.tubes[t].unpause_at # None /\ eng.tubes[t].unpause_at <= now)
    /\ UNCHANGED now

\* Connections whose recorded tick is due and not yet handled by this tick.
ConnsDue ==
    {c \in DOMAIN eng.conns \ call.processed :
        eng.conns[c].tick_key # None /\ eng.conns[c].tick_key <= now}

\* Mutant: a connection still due is handled again by the same tick.
TickConnAgain ==
    /\ call.fn = "tick_conns" /\ ~pq
    /\ ConnsDue # {}
    /\ LET c == first({<<eng.conns[d].tick_key, d>> : d \in ConnsDue})[2]
       IN  Goto(eng, [call EXCEPT !.fn = "conn_timeout", !.conn = c])

TickConn ==
    /\ call.fn = "tick_conns" /\ ~pq
    /\ ConnsDue # {}
    /\ LET c == first({<<eng.conns[d].tick_key, d>> : d \in ConnsDue})[2]
       IN  Goto(eng, [call EXCEPT !.fn = "conn_timeout", !.conn = c,
                                  !.processed = @ \cup {c}])

TickEnd ==
    /\ call.fn = "tick_conns" /\ ~pq
    /\ ConnsDue = {}
    /\ Return(eng)

\* Mutant: a reservation ends at its deadline, not after it.
OverdueInclusive(c) ==
    /\ eng.conns[c].reserved_by_deadline # {}
    /\ soonest_reserved(eng.conns[c])[1] <= now

\* conn_timeout: give back every reservation past its deadline ...
Overdue(c) ==
    /\ eng.conns[c].reserved_by_deadline # {}
    /\ soonest_reserved(eng.conns[c])[1] < now

TimeoutJob ==
    /\ call.fn = "conn_timeout" /\ ~pq
    /\ Overdue(call.conn)
    /\ Continue(give_back(eng, call.conn, soonest_reserved(eng.conns[call.conn])[2]), call)

\* Mutant: every connection that is due stops waiting.
wait_over_always(s, c, at) == s.conns[c].waiting

\* ... and then end a wait that is inside a reservation's safety margin
\* (DEADLINE_SOON) or has run out (TIMED_OUT).
wait_over(s, c, at) ==
    LET cs == s.conns[c]
    IN  /\ cs.waiting
        /\ \/ conn_deadline_soon(s, c, at)
           \/ cs.wait_deadline # None /\ cs.wait_deadline <= at

TimeoutWait ==
    /\ call.fn = "conn_timeout" /\ ~pq
    /\ ~Overdue(call.conn)
    /\ Goto(IF wait_over(eng, call.conn, now)
            THEN reply(do_remove_waiting_conn(eng, call.conn), call.conn) ELSE eng,
            [call EXCEPT !.fn = "tick_conns", !.conn = None])

\* The clock moves between calls, by any amount.
Advance ==
    /\ Idle
    /\ now < MaxTime
    /\ now' \in (now + 1)..MaxTime
    /\ UNCHANGED <<eng, call, pq>>
-----------------------------------------------------------------------------
JobIds == 1..MaxJobs

\* A command or event of connection c.
ConnStep(c) ==
    \/ Connect(c)
    \/ "disconnect" \in Commands /\ Disconnect(c)
    \/ "half-close" \in Commands /\ HalfClose(c)
    \/ "put" \in Commands /\ PutStarted(c, FALSE)
    \/ "put" \in Commands /\
         \E pri \in Pris, delay \in Delays, ttr \in Ttrs : Put(c, pri, delay, ttr)
    \/ "put-rejected" \in Commands /\ PutStarted(c, TRUE)
    \/ "put-rejected" \in Commands /\ \E why \in PutRejectionKinds : PutRejected(c, why)
    \/ "use" \in Commands /\ \E t \in TubeNames : Use(c, t)
    \/ "watch" \in Commands /\ \E t \in TubeNames : Watch(c, t)
    \/ "ignore" \in Commands /\ \E t \in TubeNames : Ignore(c, t)
    \/ "pause-tube" \in Commands /\
         \E t \in TubeNames, delay \in Pauses : PauseTube(c, t, delay)
    \/ "reserve" \in Commands /\ \E timeout \in Timeouts : Reserve(c, timeout)
    \/ \E id \in JobIds :
         \/ "reserve-job" \in Commands /\ ReserveJob(c, id)
         \/ "touch" \in Commands /\ Touch(c, id)
         \/ "delete" \in Commands /\ Delete(c, id)
         \/ "kick-job" \in Commands /\ KickJob(c, id)
         \/ "release" \in Commands /\
              \E pri \in Pris, delay \in Delays : Release(c, id, pri, delay)
         \/ "bury" \in Commands /\ \E pri \in Pris : Bury(c, id, pri)
    \/ "kick" \in Commands /\ \E n \in Kicks : Kick(c, n)

\* The running call goes on.
CallStep ==
    \/ DisconnectJob \/ DisconnectJobsDone \/ DisconnectWatch \/ DisconnectEnd
    \/ ReserveNow \/ KickNext \/ KickEnd
    \/ Assign \/ AssignEnd \/ EndCall \/ Reply
    \/ TickDelayed \/ TickPauses \/ TickConn \/ TickEnd \/ TimeoutJob \/ TimeoutWait

Next ==
    \/ \E c \in ConnIds : ConnStep(c)
    \/ "drain" \in Commands /\ Drain
    \/ Tick
    \/ CallStep
    \/ Advance

Spec == Init /\ [][Next]_vars
=============================================================================
