-------------------------------- MODULE Conn --------------------------------
(***************************************************************************)
(* The connection tasks of the server (server/src/conn.rs), the accept     *)
(* loops and shutdown (main.rs), the cap on connections that have not      *)
(* authenticated yet (pending.rs) and token authentication (auth.rs).      *)
(*                                                                         *)
(* Clients, the kernel's sockets and the engine are the environment.  A    *)
(* client sends the frames of a script one by one (what a frame is, the    *)
(* Codec module says), ends its stream or resets it, at any moment.  The   *)
(* engine is reduced to what a task can see of it: it takes messages from  *)
(* one FIFO channel, answers each command once, and lets a reserve wait.   *)
(* A frame is known by its number in the script, and so is its answer.     *)
(***************************************************************************)
EXTENDS Naturals, Sequences, FiniteSets, Functions, SequencesExt

CONSTANTS
    Conns,                      \* sockets that clients open
    Casts,                      \* node mode and clients: [clustered, script],
                                \* what each may do: script[c] is [kind, frames]
    max_pending,                \* server.max_pending_connections
    MAX_BUFFERED_WHILE_WAITING  \* in frames

ASSUME ConnAssumption ==
    /\ max_pending \in Nat \ {0}
    /\ MAX_BUFFERED_WHILE_WAITING \in Nat \ {0}
    /\ \A cast \in Casts :
           /\ cast.clustered \in BOOLEAN
           /\ \A c \in Conns : cast.script[c].kind \in {"plain", "tls", "token", "absent"}

VARIABLES
    clustered,  \* whether the node runs in cluster mode
    script,     \* what each client may do
    sent,       \* frames the client has sent
    stream,     \* the client's side: "open", "fin" or "reset"
    rd,         \* frames the task has read from the socket
    used,       \* frames it has decoded; rbuf is used+1 .. rd
    eof,        \* the task saw the end of the stream
    pc,         \* where the task is
    guard,      \* its ConnGuard will send Disconnect
    holds,      \* it owns a PendingGuard
    wbuf,       \* answers not written yet
    out,        \* answers written
    pending, pending_rejected, auth_timeouts, auth_failures,
    chan,       \* the engine's channel
    log,        \* what each connection sent to it (history)
    reply,      \* reply channels
    open,       \* connections the engine knows
    waiting,    \* the frame whose reserve waits in the engine, or 0
    admitting, closers, fired,  \* Clients (cluster mode)
    stage       \* "run", "stopping" (Shutdown queued), "draining", "exit"

client == <<clustered, script, sent, stream>>
buffers == <<rd, used, eof, wbuf, out>>
counters == <<pending, pending_rejected, auth_timeouts, auth_failures, holds>>
engine == <<chan, log, reply, open, waiting>>
clients == <<admitting, closers, fired>>
vars == <<client, buffers, pc, guard, counters, engine, clients, stage>>

kind(c) == script[c].kind
frames(c) == script[c].frames
TaskPcs == {"handshake", "auth", "admit", "spawned", "loop", "await", "drop", "close"}

Init ==
    /\ \E cast \in Casts : clustered = cast.clustered /\ script = cast.script
    /\ sent = [c \in Conns |-> 0] /\ stream = [c \in Conns |-> "open"]
    /\ rd = [c \in Conns |-> 0] /\ used = [c \in Conns |-> 0]
    /\ eof = [c \in Conns |-> FALSE]
    /\ wbuf = [c \in Conns |-> <<>>] /\ out = [c \in Conns |-> <<>>]
    /\ pc = [c \in Conns |-> "new"]
    /\ guard = [c \in Conns |-> FALSE] /\ holds = [c \in Conns |-> FALSE]
    /\ pending = 0 /\ pending_rejected = 0
    /\ auth_timeouts = 0 /\ auth_failures = 0
    /\ chan = <<>> /\ log = [c \in Conns |-> <<>>]
    /\ reply = [c \in Conns |-> <<>>]
    /\ open = {} /\ waiting = [c \in Conns |-> 0]
    /\ admitting = TRUE /\ closers = {} /\ fired = {}
    /\ stage = "run"

(***************************************************************************)
(* Messages to the engine.  Sends(c, ms) appends the messages ms.          *)
(***************************************************************************)
Msg(c, what, n) == [conn |-> c, what |-> what, n |-> n]

Sends(c, ms) ==
    /\ chan' = chan \o ms
    /\ log' = [log EXCEPT ![c] = @ \o [i \in DOMAIN ms |-> ms[i].what]]
    /\ UNCHANGED <<reply, open, waiting>>

goto(c, where) == pc' = [pc EXCEPT ![c] = where]

----------------------------------------------------------------------------
(***************************************************************************)
(* Admission: the accept loops, the pending cap, the handshake and token   *)
(* authentication.                                                         *)
(***************************************************************************)

\* Clients::admit, then ids: in cluster mode a new block of connection
\* numbers may fail to be reserved, which refuses the connection too.
admit == \/ admitting
         \/ ~clustered
next_id_fails == clustered

\* Connect is queued; in cluster mode the closer is registered before it.
connect(c) ==
    /\ closers' = IF clustered THEN closers \cup {c} ELSE closers
    /\ Sends(c, <<Msg(c, "Connect", 0)>>)

refuse(c, where) ==
    /\ goto(c, where)
    /\ UNCHANGED <<closers, engine, guard>>

\* The accept loop sends Connect itself, then spawns the task.
accept_plain(c) ==
    /\ stage = "run" /\ pc[c] = "new" /\ kind(c) = "plain"
    /\ \/ (~admit \/ next_id_fails) /\ refuse(c, "done")
       \/ admit /\ connect(c) /\ goto(c, "spawned") /\ UNCHANGED guard
    /\ UNCHANGED <<client, buffers, counters, admitting, fired, stage>>

\* The first poll of handle_plain: the guard is made whether or not the
\* socket can be registered, and a socket that cannot is dropped at once.
handle_plain(c) ==
    /\ pc[c] = "spawned"
    /\ \E registered \in BOOLEAN : goto(c, IF registered THEN "loop" ELSE "drop")
    /\ guard' = [guard EXCEPT ![c] = TRUE]
    /\ UNCHANGED <<client, buffers, counters, engine, clients, stage>>

\* A load and then an add: the value compared with the cap may be old.
try_acquire_racy(c) ==
    /\ \E seen \in 0 .. pending : seen < max_pending
    /\ pending' = pending + 1
    /\ holds' = [holds EXCEPT ![c] = TRUE]
    /\ goto(c, "handshake")
    /\ UNCHANGED pending_rejected

\* A fetch_update that fails at the cap, or a permit.
try_acquire(c) ==
    IF pending < max_pending
    THEN /\ pending' = pending + 1
         /\ holds' = [holds EXCEPT ![c] = TRUE]
         /\ goto(c, "handshake")
         /\ UNCHANGED pending_rejected
    ELSE /\ pending_rejected' = pending_rejected + 1
         /\ goto(c, "done")
         /\ UNCHANGED <<pending, holds>>

accept_tls(c) ==
    /\ stage = "run" /\ pc[c] = "new" /\ kind(c) \in {"tls", "token"}
    /\ try_acquire(c)
    /\ UNCHANGED <<client, buffers, auth_timeouts, auth_failures, engine, guard,
                   clients, stage>>

\* Drop of a PendingGuard.
release(c) ==
    /\ pending' = pending - (IF holds[c] THEN 1 ELSE 0)
    /\ holds' = [holds EXCEPT ![c] = FALSE]

keep_permits == UNCHANGED <<pending, holds>>

\* (Tokens are not asked for.)
handle_tls_no_token(c) ==
    /\ pc[c] = "handshake"
    /\ goto(c, "admit") /\ release(c)
    /\ UNCHANGED <<client, buffers, pending_rejected, auth_timeouts, auth_failures,
                   engine, guard, clients, stage>>

\* The handshake completes, fails, or takes longer than HANDSHAKE_TIMEOUT.
handle_tls(c) ==
    /\ pc[c] = "handshake"
    /\ \/ /\ stream[c] # "reset"
          /\ IF kind(c) = "token"
             THEN goto(c, "auth") /\ keep_permits
             ELSE goto(c, "admit") /\ release(c)
       \/ goto(c, "done") /\ release(c)
    /\ UNCHANGED <<client, buffers, pending_rejected, auth_timeouts, auth_failures,
                   engine, guard, clients, stage>>

\* Once it is no longer pending: admitted, numbered, announced.
handle_tls_connect(c) ==
    /\ pc[c] = "admit"
    /\ \/ (~admit \/ next_id_fails) /\ refuse(c, "close")
       \/ /\ admit
          /\ connect(c)
          /\ goto(c, "loop")
          /\ guard' = [guard EXCEPT ![c] = TRUE]
    /\ UNCHANGED <<client, buffers, counters, admitting, fired, stage>>

\* One frame of the client is moved into rbuf.
CanRead(c) == rd[c] < sent[c]
Read(c) == rd' = [rd EXCEPT ![c] = @ + 1]
AtEnd(c) == rd[c] = sent[c] /\ stream[c] # "open"

\* Answers are written, or the write fails because the client is gone.
flushed(c, answers) ==
    /\ out' = [out EXCEPT ![c] = @ \o wbuf[c] \o answers]
    /\ wbuf' = [wbuf EXCEPT ![c] = <<>>]
flush_failed(c) ==
    /\ stream[c] = "reset"
    /\ wbuf' = [wbuf EXCEPT ![c] = <<>>]
    /\ UNCHANGED out
tried_flush(c, answers) == flushed(c, answers) \/ flush_failed(c)

\* (A frame is skipped.)
decoded_two(c) == used' = [used EXCEPT ![c] = @ + 2]

decoded(c) == used' = [used EXCEPT ![c] = @ + 1]

\* The unauthenticated phase: only a correct token leads on; anything else
\* is answered UNAUTHORIZED and closes, quit and the end close silently.
authenticate(c) ==
    /\ pc[c] = "auth"
    /\ \/ /\ used[c] < rd[c]
          /\ LET n == used[c] + 1
                 f == frames(c)[n]
             IN  \/ /\ f = "auth_ok"
                    /\ wbuf' = [wbuf EXCEPT ![c] = Append(@, n)]
                    /\ goto(c, "admit") /\ release(c)
                    /\ UNCHANGED <<out, auth_failures>>
                 \/ /\ f = "quit"
                    /\ goto(c, "close") /\ keep_permits
                    /\ UNCHANGED <<out, wbuf, auth_failures>>
                 \/ /\ f \notin {"auth_ok", "quit"}
                    /\ auth_failures' = auth_failures + 1
                    /\ tried_flush(c, <<n>>)
                    /\ goto(c, "close") /\ keep_permits
          /\ decoded(c)
          /\ UNCHANGED rd
       \/ /\ used[c] = rd[c] /\ CanRead(c)
          /\ Read(c)
          /\ keep_permits
          /\ UNCHANGED <<used, wbuf, out, pc, auth_failures>>
       \/ /\ used[c] = rd[c] /\ AtEnd(c)
          /\ goto(c, "close") /\ keep_permits
          /\ UNCHANGED <<rd, used, wbuf, out, auth_failures>>
    /\ UNCHANGED <<client, eof, pending_rejected, auth_timeouts, engine, guard,
                   clients, stage>>

\* (No bound on authentication.)
auth_timed_out_never(c) == FALSE

\* auth.timeout is over.
auth_timed_out(c) ==
    /\ pc[c] = "auth"
    /\ auth_timeouts' = auth_timeouts + 1
    /\ goto(c, "close")
    /\ UNCHANGED <<client, buffers, pending, holds, pending_rejected, auth_failures,
                   engine, guard, clients, stage>>

----------------------------------------------------------------------------
(***************************************************************************)
(* The protocol loop.                                                      *)
(***************************************************************************)

\* (A task that says only once that the stream ended.)
dispatched_once(c, f, n) == <<Msg(c, f, n)>>

\* HalfClose is sent again with every command dispatched after the end of
\* the stream was seen.
dispatched(c, f, n) ==
    <<Msg(c, f, n)>> \o (IF eof[c] THEN <<Msg(c, "HalfClose", n)>> ELSE <<>>)

Answered == {"cmd", "reserve", "putrej"}

\* (A task that does not wait for the reply before it decodes on.)
command_loop_dispatch_pipelined(c, n) ==
    /\ flushed(c, <<>>)
    /\ Sends(c, dispatched(c, frames(c)[n], n))
    /\ UNCHANGED pc

\* A frame that the engine answers: earlier answers are written first.
command_loop_dispatch(c, n) ==
    \/ /\ flushed(c, <<>>)
       /\ Sends(c, dispatched(c, frames(c)[n], n))
       /\ goto(c, "await")
    \/ /\ flush_failed(c)
       /\ goto(c, "drop")
       /\ UNCHANGED engine

\* On a listener without tokens, auth is an unknown command: an error.
IsError(c, f) == f = "err" \/ (f \in {"auth_ok", "auth_bad"} /\ kind(c) # "token")

command_loop_frame(c) ==
    /\ pc[c] = "loop" /\ used[c] < rd[c]
    /\ LET n == used[c] + 1
           f == frames(c)[n]
       IN  \/ /\ f = "quit"
              /\ tried_flush(c, <<>>)
              /\ goto(c, "drop")
              /\ UNCHANGED <<engine, auth_failures>>
           \/ /\ f \in Answered
              /\ command_loop_dispatch(c, n)
              /\ UNCHANGED auth_failures
           \/ /\ f = "putstart"
              /\ Sends(c, <<Msg(c, f, n)>>)
              /\ UNCHANGED <<wbuf, out, pc, auth_failures>>
           \/ /\ IsError(c, f) \/ f = "auth_ok"
              /\ wbuf' = [wbuf EXCEPT ![c] = Append(@, n)]
              /\ UNCHANGED <<engine, out, pc, auth_failures>>
           \/ /\ f = "auth_bad" /\ ~IsError(c, f)
              /\ auth_failures' = auth_failures + 1
              /\ tried_flush(c, <<n>>)
              /\ goto(c, "drop")
              /\ UNCHANGED engine
    /\ decoded(c)
    /\ UNCHANGED <<client, rd, eof, guard, pending, holds, pending_rejected,
                   auth_timeouts, clients, stage>>

\* Nothing to decode: write, then leave at the end of the stream or read.
\* A reset is an error on a plain socket and may read as an end over TLS.
command_loop_read(c) ==
    /\ pc[c] = "loop" /\ used[c] = rd[c]
    /\ \/ /\ flushed(c, <<>>)
          /\ \/ eof[c] /\ goto(c, "drop") /\ UNCHANGED <<rd, eof>>
             \/ ~eof[c] /\ CanRead(c) /\ Read(c) /\ UNCHANGED <<eof, pc>>
             \/ /\ ~eof[c] /\ AtEnd(c)
                /\ \/ /\ stream[c] = "fin" \/ kind(c) # "plain"
                      /\ eof' = [eof EXCEPT ![c] = TRUE]
                      /\ UNCHANGED pc
                   \/ stream[c] = "reset" /\ goto(c, "drop") /\ UNCHANGED eof
                /\ UNCHANGED rd
             \/ /\ ~eof[c] /\ ~CanRead(c) /\ ~AtEnd(c)   \* blocks in read
                /\ wbuf[c] # <<>>
                /\ UNCHANGED <<rd, eof, pc>>
       \/ /\ wbuf[c] # <<>>
          /\ flush_failed(c)
          /\ goto(c, "drop")
          /\ UNCHANGED <<rd, eof>>
    /\ UNCHANGED <<client, used, guard, counters, engine, clients, stage>>

\* The reply is taken; it is written behind whatever is in wbuf.
await_reply(c) ==
    /\ pc[c] = "await" /\ reply[c] # <<>>
    /\ reply' = [reply EXCEPT ![c] = Tail(@)]
    /\ \/ flushed(c, <<Head(reply[c])>>) /\ goto(c, "loop")
       \/ flush_failed(c) /\ goto(c, "drop")
    /\ UNCHANGED <<client, rd, used, eof, guard, counters, chan, log, open, waiting,
                   clients, stage>>

\* (A task that decodes the next error while a command is in flight.)
await_reply_read_ahead(c) ==
    \/ /\ pc[c] = "await" /\ used[c] < rd[c]
       /\ IsError(c, frames(c)[used[c] + 1])
       /\ wbuf' = [wbuf EXCEPT ![c] = Append(@, used[c] + 1)]
       /\ decoded(c)
       /\ UNCHANGED <<client, rd, eof, out, pc, guard, counters, engine, clients, stage>>
    \/ /\ pc[c] = "await"
       /\ ~eof[c] /\ rd[c] - used[c] < MAX_BUFFERED_WHILE_WAITING
       /\ CanRead(c) /\ Read(c)
       /\ UNCHANGED <<client, eof, used, wbuf, out, pc, guard, counters, engine, clients,
                      stage>>

\* Meanwhile the socket is read, up to a limit and only to notice its end.
await_reply_read(c) ==
    /\ pc[c] = "await"
    /\ ~eof[c] /\ rd[c] - used[c] < MAX_BUFFERED_WHILE_WAITING
    /\ \/ /\ CanRead(c) /\ Read(c)
          /\ UNCHANGED <<eof, engine>>
       \/ /\ AtEnd(c)
          /\ eof' = [eof EXCEPT ![c] = TRUE]
          /\ Sends(c, <<Msg(c, "HalfClose", used[c])>>)
          /\ UNCHANGED rd
    /\ UNCHANGED <<client, used, wbuf, out, pc, guard, counters, clients, stage>>

\* (The socket is closed first and the guard dropped afterwards.)
ConnGuard_drop_late(c) ==
    /\ \/ pc[c] = "drop" /\ goto(c, "done") /\ UNCHANGED <<engine, guard>>
       \/ /\ pc[c] = "done" /\ guard[c]
          /\ Sends(c, <<Msg(c, "Disconnect", 0)>>)
          /\ guard' = [guard EXCEPT ![c] = FALSE]
          /\ UNCHANGED pc
    /\ UNCHANGED <<client, buffers, counters, clients, stage>>

\* Drop of the ConnGuard, always before the socket is closed.
ConnGuard_drop(c) ==
    /\ pc[c] = "drop"
    /\ IF guard[c] THEN Sends(c, <<Msg(c, "Disconnect", 0)>>) ELSE UNCHANGED engine
    /\ guard' = [guard EXCEPT ![c] = FALSE]
    /\ goto(c, "close")
    /\ UNCHANGED <<client, buffers, counters, clients, stage>>

close_tls(c) ==
    /\ pc[c] = "close"
    /\ goto(c, "done")
    /\ release(c)
    /\ UNCHANGED <<client, buffers, pending_rejected, auth_timeouts, auth_failures, guard,
                   engine, clients, stage>>

\* The closer wins the select: the serving future is dropped where it is.
\* One that was never polled has no guard yet.
closed_by_cluster(c) ==
    /\ c \in fired
    /\ pc[c] \in {"spawned", "loop", "await"}
    /\ goto(c, "drop")
    /\ UNCHANGED <<client, buffers, guard, counters, engine, clients, stage>>

----------------------------------------------------------------------------
(***************************************************************************)
(* Shutdown, the engine and the clients.                                   *)
(***************************************************************************)

\* SIGINT or SIGTERM: the accept loops return, then Shutdown is queued.
serve_stop ==
    /\ stage = "run"
    /\ stage' = "stopping"
    /\ chan' = Append(chan, [what |-> "Shutdown"])
    /\ UNCHANGED <<client, buffers, pc, guard, counters, log, reply, open, waiting, clients>>

answer(c, n) == reply' = [reply EXCEPT ![c] = Append(@, n)]

\* The engine, as the tasks see it: it takes the oldest message.
EngineStep ==
    /\ chan # <<>> /\ stage # "exit"
    /\ chan' = Tail(chan)
    /\ LET m == Head(chan)
       IN  \/ /\ m.what = "Connect"
              /\ open' = open \cup {m.conn}
              /\ UNCHANGED <<reply, waiting, stage, closers, fired>>
           \/ /\ m.what \in Answered
              /\ m.conn \in open
              /\ \/ answer(m.conn, m.n) /\ UNCHANGED waiting
                 \/ /\ m.what = "reserve" /\ m.conn \in open
                    /\ waiting' = [waiting EXCEPT ![m.conn] = m.n]
                    /\ UNCHANGED reply
              /\ UNCHANGED <<open, stage, closers, fired>>
           \/ /\ m.what = "HalfClose"
              /\ IF waiting[m.conn] # 0
                 THEN /\ answer(m.conn, waiting[m.conn])
                      /\ waiting' = [waiting EXCEPT ![m.conn] = 0]
                 ELSE UNCHANGED <<reply, waiting>>
              /\ UNCHANGED <<open, stage, closers, fired>>
           \/ /\ m.what = "Disconnect"
              /\ open' = open \ {m.conn}
              /\ waiting' = [waiting EXCEPT ![m.conn] = 0]
              /\ closers' = closers \ {m.conn}
              /\ UNCHANGED <<reply, stage, fired>>
           \/ /\ m.what = "putstart"
              /\ UNCHANGED <<reply, open, waiting, stage, closers, fired>>
           \/ /\ m.what = "Shutdown"
              /\ IF clustered
                 THEN fired' = fired \cup closers /\ closers' = {} /\ stage' = "draining"
                 ELSE stage' = "exit" /\ UNCHANGED <<closers, fired>>
              /\ UNCHANGED <<reply, open, waiting>>
    /\ UNCHANGED <<client, buffers, pc, guard, counters, log, admitting>>

\* A waiting reserve gets a job, a deadline warning or a timeout.
EngineServes(c) ==
    /\ waiting[c] # 0 /\ stage # "exit"
    /\ answer(c, waiting[c])
    /\ waiting' = [waiting EXCEPT ![c] = 0]
    /\ UNCHANGED <<client, buffers, pc, guard, counters, chan, log, open, clients, stage>>

\* The cluster closes a connection, or stops or resumes admitting.
ClusterCloses(c) ==
    /\ clustered /\ c \in closers
    /\ closers' = closers \ {c} /\ fired' = fired \cup {c}
    /\ UNCHANGED <<client, buffers, pc, guard, counters, engine, admitting, stage>>

\* Every Disconnect is applied, or SHUTDOWN_BOUND is over.
ClusterExits ==
    /\ stage = "draining"
    /\ stage' = "exit"
    /\ UNCHANGED <<client, buffers, pc, guard, counters, engine, clients>>

ClusterAdmits ==
    /\ clustered
    /\ admitting' = ~admitting
    /\ UNCHANGED <<client, buffers, pc, guard, counters, engine, closers, fired, stage>>

ClientSends(c) ==
    /\ pc[c] \notin {"new", "done"}
    /\ stream[c] = "open" /\ sent[c] < Len(frames(c))
    /\ sent' = [sent EXCEPT ![c] = @ + 1]
    /\ UNCHANGED <<clustered, script, stream, buffers, pc, guard, counters, engine, clients, stage>>

ClientEnds(c) ==
    /\ pc[c] \notin {"new", "done"}
    /\ stream[c] = "open"
    /\ \E how \in {"fin", "reset"} : stream' = [stream EXCEPT ![c] = how]
    /\ UNCHANGED <<clustered, script, sent, buffers, pc, guard, counters, engine, clients, stage>>

----------------------------------------------------------------------------
Task(c) ==
    \/ handle_plain(c) \/ handle_tls(c) \/ handle_tls_connect(c)
    \/ authenticate(c) \/ auth_timed_out(c)
    \/ command_loop_frame(c) \/ command_loop_read(c)
    \/ await_reply(c) \/ await_reply_read(c)
    \/ ConnGuard_drop(c) \/ close_tls(c) \/ closed_by_cluster(c)

Next ==
    \/ stage # "exit" /\ \E c \in Conns :
           \/ accept_plain(c) \/ accept_tls(c)
           \/ Task(c)
           \/ EngineServes(c) \/ ClusterCloses(c)
           \/ ClientSends(c) \/ ClientEnds(c)
    \/ EngineStep
    \/ stage # "exit" /\ (serve_stop \/ ClusterAdmits \/ ClusterExits)

\* The runtime polls every task that can move, the timers of the handshake
\* and of authentication fire, and the engine takes its messages.  Nothing
\* is assumed of the clients, nor that a waiting reserve gets a job.
Fairness ==
    /\ \A c \in Conns : WF_vars(stage # "exit" /\ Task(c))
    /\ WF_vars(EngineStep)

Spec == Init /\ [][Next]_vars /\ Fairness

----------------------------------------------------------------------------
(***************************************************************************)
(* Properties.                                                             *)
(***************************************************************************)

\* Type correctness of the task state.
TypeOK ==
    /\ [clustered |-> clustered, script |-> script] \in Casts
    /\ pc \in [Conns -> TaskPcs \cup {"new", "done"}]
    /\ \A c \in Conns :
           /\ used[c] <= rd[c] /\ rd[c] <= sent[c] /\ sent[c] <= Len(frames(c))
           /\ stream[c] \in {"open", "fin", "reset"}
           /\ waiting[c] \in 0 .. used[c]
    /\ eof \in [Conns -> BOOLEAN] /\ guard \in [Conns -> BOOLEAN]
    /\ holds \in [Conns -> BOOLEAN]
    /\ open \subseteq Conns /\ closers \subseteq Conns /\ fired \subseteq Conns

\* The commands of c between its task and the engine, and their replies.
InFlight(c) ==
    Cardinality({i \in DOMAIN chan : /\ chan[i].what \in Answered
                                     /\ chan[i].conn = c})
    + (IF waiting[c] # 0 THEN 1 ELSE 0) + Len(reply[c])

\* At most one command of a connection is anywhere between the task and
\* the engine, and one is exactly while the task waits for its reply
\* (conn.rs, await_reply: "at most one command is ever in flight").  So a
\* pipelining client cannot have two reserves wait, nor a reply be taken
\* for another command's.
OneInFlight ==
    \A c \in Conns :
        /\ pc[c] = "await" => InFlight(c) = 1
        /\ pc[c] \in {"new", "handshake", "auth", "admit", "spawned", "loop"} => InFlight(c) = 0

HasAnswer(c, n) ==
    frames(c)[n] \notin {"quit", "putstart"}

\* The answers a client has been sent, those in the write buffer included,
\* are those of the frames decoded so far that have one, each once and in
\* order; the one in flight is the last frame decoded.
AnswersInOrder ==
    \A c \in Conns :
        LET due == SelectSeq([n \in 1 .. used[c] |-> n], LAMBDA n : HasAnswer(c, n))
        IN  /\ pc[c] \in {"auth", "admit", "loop"} => out[c] \o wbuf[c] = due
            /\ pc[c] = "await" => out[c] \o wbuf[c] = Front(due) /\ wbuf[c] = <<>>
            /\ IsPrefix(out[c], due)

\* A task that ended has sent Disconnect if Connect was sent (ConnGuard: "on
\* every exit path, only if Connect was sent"), and by then the client has
\* not seen its socket closed yet.
DisconnectSent ==
    \A c \in Conns :
        pc[c] \in {"close", "done"} /\ log[c] # <<>> => Last(log[c]) = "Disconnect"

\* What a connection tells the engine is Connect, then its inputs, then
\* one Disconnect, and nothing after it (ConnGuard); and outside cluster
\* mode every task that told it of the connection also tells it of the
\* end, whichever of its exits it takes, before the socket is closed.
Conversation ==
    /\ \A c \in Conns :
           /\ log[c] # <<>> => log[c][1] = "Connect"
           /\ \A i \in DOMAIN log[c] :
                  /\ log[c][i] = "Connect" => i = 1
                  /\ log[c][i] = "Disconnect" => i = Len(log[c])
    /\ ~clustered => DisconnectSent

\* A token connection reaches the engine only after it sent a correct token
\* as its first frame.
AuthenticatedFirst ==
    \A c \in Conns : kind(c) = "token" /\ log[c] # <<>> => frames(c)[1] = "auth_ok"

\* The counter of pending connections is the number of permits held, never
\* above the cap, and a connection the engine was told of holds none.
PendingExact ==
    /\ pending = Cardinality({c \in Conns : holds[c]})
    /\ pending <= max_pending
    /\ \A c \in Conns : holds[c] => log[c] = <<>>

Full(c) == pc[c] = "await" /\ rd[c] - used[c] >= MAX_BUFFERED_WHILE_WAITING

\* A connection whose client ended its stream is closed eventually, also
\* when its reserve reached the engine only after the end was seen.  The
\* exception is a client that pipelined more than the task buffers while a
\* reserve waits: the task has stopped reading and cannot see the end.
EndsWithStream ==
    \A c \in Conns :
        (stream[c] # "open" /\ pc[c] # "new") ~>
            (pc[c] = "done" \/ stage = "exit" \/ []Full(c))

\* A permit is given back eventually, whatever the client does.
PermitsReturn ==
    \A c \in Conns : holds[c] ~> (~holds[c] \/ stage = "exit")

=============================================================================
