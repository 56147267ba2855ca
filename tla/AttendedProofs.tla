--------------------------- MODULE AttendedProofs ---------------------------
(***************************************************************************)
(* Every step of the job engine keeps Attended, which says of the watches, *)
(* the waits and the timers what IInv says of the jobs, and Attended gives *)
(* the invariants that the engine's runs check of them.                    *)
(*                                                                         *)
(* What the steps of kick and process_queue need of the jobs they pick is  *)
(* the hypothesis Chosen, which module EngineProofs derives from IInv.     *)
(***************************************************************************)
EXTENDS WaiterProofs

\* What the invariants say before a step.
LEMMA AtRest ==
    ASSUME IInv, Attended
    PROVE  /\ Shaped(eng) /\ WaitLists(eng)
           /\ call.fn # "unwatch" => Watched(eng, <<>>, {})
           /\ Idle => ~pq /\ call.fn = "none"
           /\ \A c \in DOMAIN eng.conns : /\ c \in ConnIds
                                          /\ eng.conns[c].use_tube \in DOMAIN eng.tubes
           /\ \A id \in DOMAIN eng.jobs : /\ eng.jobs[id].state \in States
                                          /\ eng.jobs[id].tube \in DOMAIN eng.tubes
<1>1. Sound(eng, {}) /\ EngineType(eng)
  BY Zenon DEF IInv, Sound
<1>2. Shaped(eng)
  BY <1>1, TypeShapes, Zenon
<1>3. WaitLists(eng)
  <2>1. \A t \in DOMAIN eng.tubes : eng.tubes[t] \in TubeType
    BY <1>1, SoundRecords, Zenon
  <2>2. \A ts \in TubeType : ts.waiting_conns \in MsType
    BY Zenon DEF TubeType
  <2> QED BY <1>1, <2>1, <2>2, Zenon DEF Sound, WaitersSound, WaitLists, WaitList
<1>4. Idle => ~pq /\ call.fn = "none"
  BY DEF Attended, Idle, NoCall
<1>5. \A c \in DOMAIN eng.conns : c \in ConnIds /\ eng.conns[c].use_tube \in DOMAIN eng.tubes
  BY <1>1, SoundRecords, Zenon DEF Sound, RefsSound
<1>6. \A id \in DOMAIN eng.jobs : eng.jobs[id].state \in States /\ eng.jobs[id].tube \in DOMAIN eng.tubes
  <2>1. \A id \in DOMAIN eng.jobs : eng.jobs[id] \in JobType /\ eng.jobs[id].tube \in DOMAIN eng.tubes
    BY <1>1, SoundRecords, Zenon
  <2>2. \A j \in JobType : j.state \in States
    BY Zenon DEF JobType
  <2> QED BY <2>1, <2>2, Zenon
<1> QED BY <1>2, <1>3, <1>4, <1>5, <1>6, ZenonT(60) DEF Attended

\* A client that may send a command does not wait.
LEMMA SenderIdle ==
    ASSUME IInv, NEW c, MaySend(c)
    PROVE  c \in DOMAIN eng.conns /\ ~eng.conns[c].waiting /\ Idle
<1>1. Idle /\ c \in DOMAIN eng.conns /\ eng.conns[c].owed = 0
  BY Zenon DEF MaySend, Live
<1>2. Duty(call, c, eng.conns[c]) /\ ~Leaving(call, c)
  BY <1>1, Zenon DEF IInv, DutiesSound, Idle, NoCall, Leaving
<1> QED BY <1>1, <1>2, SMTT(30) DEF Duty

\* A call returns.
LEMMA Returns ==
    ASSUME Attended, ~pq, NEW r, Return(r), Watched(r, <<>>, {}), Kept(eng, r)
    PROVE  Attended'
<1>1. eng' = r /\ call' = NoCall /\ pq' = FALSE /\ NoCall.fn = "none" /\ NoCall.watch = <<>>
  BY Zenon DEF Return, NoCall
<1>2. Registered(r) /\ Ticked(r) /\ Wanting(r) = {}
  BY ZenonT(30) DEF Attended, Kept
<1> QED BY <1>1, <1>2, Zenon DEF Attended

\* A call goes on, without or with process_queue.
LEMMA GoesOn ==
    ASSUME Attended, NEW r, NEW f, f.fn \notin {"none", "unwatch"}, f.watch = <<>>,
           Watched(r, <<>>, {}),
           \/ ~pq /\ Goto(r, f) /\ Kept(eng, r)
           \/ Continue(r, f) /\ Registered(r) /\ Ticked(r)
    PROVE  Attended'
<1>1. CASE ~pq /\ Goto(r, f) /\ Kept(eng, r)
  <2>1. eng' = r /\ call' = f /\ pq' = FALSE
    BY <1>1, Zenon DEF Goto
  <2>2. Registered(r) /\ Ticked(r) /\ Wanting(r) = {}
    BY <1>1, Zenon DEF Attended, Kept
  <2> QED BY <2>1, <2>2, ZenonT(30) DEF Attended
<1>2. CASE Continue(r, f) /\ Registered(r) /\ Ticked(r)
  <2>1. eng' = r /\ call' = f /\ pq' = TRUE
    BY <1>2, Zenon DEF Continue
  <2> QED BY <1>2, <2>1, ZenonT(30) DEF Attended
<1> QED BY <1>1, <1>2, Zenon

\* A still update returns, or goes on with process_queue.
LEMMA StillReturns ==
    ASSUME Attended, ~pq, call.fn # "unwatch", NEW r, Return(r), Still(eng, r), NoneReady(eng, r)
    PROVE  Attended'
<1>1. Watched(r, <<>>, {}) /\ Kept(eng, r)
  BY StillKeeps, KeptBy, ZenonT(60) DEF Attended
<1> QED BY <1>1, Returns, Zenon

\* It serves the tubes that got a job.
LEMMA StillGoesOn ==
    ASSUME Attended, call.fn # "unwatch", NEW r, Still(eng, r),
           NEW f, f.fn \notin {"none", "unwatch"}, f.watch = <<>>, Continue(r, f)
    PROVE  Attended'
<1>1. Watched(r, <<>>, {}) /\ Registered(r) /\ Ticked(r)
  BY StillKeeps, Zenon DEF Attended
<1> QED BY <1>1, GoesOn, Zenon

\* The frames that calls run in.
LEMMA Frames ==
    ASSUME NEW c
    PROVE  /\ LET f == ReplyTo(c) IN f.fn = "reply" /\ f.watch = <<>>
           /\ \A a, b, d, e : LET f == [NoCall EXCEPT !.fn = "kick", !.conn = a, !.tube = b,
                                                    !.n = d, !.buried = e]
                            IN  f.fn = "kick" /\ f.watch = <<>>
           /\ \A a : LET f == [NoCall EXCEPT !.fn = "disconnect", !.conn = c, !.jobs = a]
                   IN  f.fn = "disconnect" /\ f.watch = <<>>
           /\ LET f == [NoCall EXCEPT !.fn = "reserve_now", !.conn = c]
              IN  f.fn = "reserve_now" /\ f.watch = <<>>
           /\ LET f == [NoCall EXCEPT !.fn = "end"] IN f.fn = "end" /\ f.watch = <<>>
           /\ LET f == [NoCall EXCEPT !.fn = "tick_delayed"] IN f.fn = "tick_delayed" /\ f.watch = <<>>
  BY Zenon DEF ReplyTo, NoCall

\* put, rejected puts, and the job commands that end at once.
LEMMA PlainAttended ==
    ASSUME Laws, IInv, Attended, NEW c,
           \/ \E too_big \in BOOLEAN : PutStarted(c, too_big)
           \/ \E why : PutRejected(c, why)
           \/ \E id : ReserveJob(c, id) \/ Touch(c, id)
           \/ \E id, pri : Bury(c, id, pri)
           \/ Drain
    PROVE  Attended'
<1>1. Idle
  BY SenderIdle, Zenon DEF PutStarted, PutRejected, ReserveJob, Touch, Bury, Drain
<1>2. Shaped(eng) /\ ~pq /\ call.fn # "unwatch"
  BY <1>1, AtRest, Zenon
<1>3. PICK r : Return(r) /\ Still(eng, r) /\ NoneReady(eng, r)
  <2>1. CASE \E too_big \in BOOLEAN : PutStarted(c, too_big)
    BY <1>2, <2>1, PutCallsStill, Zenon DEF PutStarted
  <2>2. CASE \E why : PutRejected(c, why)
    BY <1>2, <2>2, PutCallsStill, Zenon DEF PutRejected
  <2>3. CASE \E id : ReserveJob(c, id)
    <3>1. PICK id : ReserveJob(c, id)
      BY <2>3, Zenon
    <3>2. eng.jobs[id].state \in {"ready", "delayed", "buried"}
      BY <3>1, AtRest, Zenon DEF ReserveJob, States
    <3>3. LET r == do_reserve(remove_queued(eng, id), c, id, now)
          IN  Still(eng, r) /\ NoneReady(eng, r)
      <4>1. 0 \in Nat
        BY Zenon
      <4> QED BY <1>2, <3>2, <4>1, JobCallsStill, ZenonT(60)
    <3> QED BY <3>1, <3>3, Zenon DEF ReserveJob
  <2>4. CASE \E id : Touch(c, id)
    BY <1>2, <2>4, ReservesStill, Zenon DEF Touch
  <2>5. CASE \E id, pri : Bury(c, id, pri)
    <3>1. PICK id, pri : Bury(c, id, pri)
      BY <2>5, Zenon
    <3>2. LET r == cmd_bury(eng, c, id, pri) IN Still(eng, r) /\ NoneReady(eng, r)
      <4>1. 0 \in Nat
        BY Zenon
      <4> QED BY <1>2, <4>1, JobCallsStill, ZenonT(60)
    <3> QED BY <3>1, <3>2, Zenon DEF Bury
  <2>6. CASE Drain
    <3>1. Return([eng EXCEPT !.draining = TRUE])
      BY <2>6, Zenon DEF Drain
    <3>2. LET r == [eng EXCEPT !.draining = TRUE] IN Still(eng, r) /\ NoneReady(eng, r)
      BY <1>2, PlainStill, Zenon
    <3> QED BY <3>1, <3>2, Zenon
  <2> QED BY <2>1, <2>2, <2>3, <2>4, <2>5, <2>6, ZenonT(60)
<1> QED BY <1>2, <1>3, StillReturns, Zenon

\* The body of a put arrives.
LEMMA PutAttended ==
    ASSUME Laws, IInv, Attended, NEW c, NEW pri, NEW delay \in Nat, NEW ttr, Put(c, pri, delay, ttr)
    PROVE  Attended'
<1>1. Idle /\ c \in DOMAIN eng.conns
  BY Zenon DEF Put, Live
<1>2. /\ Shaped(eng) /\ ~pq /\ call.fn # "unwatch" /\ Watched(eng, <<>>, {})
      /\ eng.conns[c].use_tube \in DOMAIN eng.tubes
  BY <1>1, AtRest, Zenon
<1>3. CASE eng.draining
  <2> DEFINE y == take_pending(eng, c)
             r == reply(accept(y, c), c)
  <2>1. Return(r)
    BY <1>3, Zenon DEF Put
  <2>2. Still(eng, y) /\ NoneReady(eng, y) /\ Shaped(y)
    BY <1>2, PutCallsStill, StillTrans, Zenon
  <2> HIDE DEF y
  <2>3. Still(y, r) /\ NoneReady(y, r)
    BY <2>2, PutCallsStill, Zenon
  <2> HIDE DEF r
  <2>4. Still(eng, r) /\ NoneReady(eng, r)
    BY <1>2, <2>2, <2>3, StillTrans, Zenon
  <2> QED BY <1>2, <2>1, <2>4, StillReturns, Zenon
<1>4. CASE ~eng.draining
  <2> DEFINE r == accept(cmd_put(eng, c, pri, delay, ttr, now), c)
  <2>1. Continue(r, ReplyTo(c))
    BY <1>4, Zenon DEF Put
  <2>2. Watched(r, <<>>, {}) /\ Registered(r) /\ Ticked(r)
    BY <1>1, <1>2, PutWatched, Zenon DEF Attended
  <2> HIDE DEF r
  <2>3. ReplyTo(c).fn \notin {"none", "unwatch"} /\ ReplyTo(c).watch = <<>>
    BY Frames, Zenon
  <2> QED BY <2>1, <2>2, <2>3, GoesOn, Zenon
<1> QED BY <1>3, <1>4, Zenon

\* release and kick-job make a job ready and process_queue serves it.
LEMMA ReadyAttended ==
    ASSUME Laws, IInv, Attended, NEW c,
           \/ \E id, pri, delay \in Nat : Release(c, id, pri, delay)
           \/ \E id : KickJob(c, id)
    PROVE  Attended'
<1>1. Idle
  BY SenderIdle, Zenon DEF Release, KickJob
<1>2. Shaped(eng) /\ call.fn # "unwatch"
  BY <1>1, AtRest, Zenon
<1>3. PICK y : Continue(accept(y, c), ReplyTo(c)) /\ Still(eng, y)
  <2>1. CASE \E id, pri, delay \in Nat : Release(c, id, pri, delay)
    <3>1. PICK id, pri, delay \in Nat : Release(c, id, pri, delay)
      BY <2>1, Zenon
    <3>2. Still(eng, cmd_release(eng, c, id, pri, delay, now))
      BY <1>2, JobCallsStill, Zenon
    <3> QED BY <3>1, <3>2, Zenon DEF Release
  <2>2. CASE \E id : KickJob(c, id)
    <3>1. PICK id : KickJob(c, id)
      BY <2>2, Zenon
    <3>2. eng.jobs[id].state \in {"ready", "delayed", "buried"} /\ 0 \in Nat
      BY <3>1, Zenon DEF KickJob
    <3>3. Still(eng, kick_to_ready(eng, id))
      BY <1>2, <3>2, JobCallsStill, Zenon
    <3> QED BY <3>1, <3>3, Zenon DEF KickJob
  <2> QED BY <2>1, <2>2, Zenon
<1>4. Still(eng, accept(y, c))
  <2>1. Shaped(y)
    BY <1>2, <1>3, StillTrans, Zenon
  <2>2. Still(y, accept(y, c))
    BY <2>1, PlainStill, Zenon
  <2> QED BY <1>2, <1>3, <2>2, StillTrans, ZenonT(60)
<1>5. ReplyTo(c).fn \notin {"none", "unwatch"} /\ ReplyTo(c).watch = <<>>
  BY Frames, Zenon
<1> QED BY <1>2, <1>3, <1>4, <1>5, StillGoesOn, ZenonT(60)
\* The commands about tubes, and connect.
LEMMA TubeCallsAttended ==
    ASSUME Laws, IInv, Attended, NEW c,
           \/ Connect(c)
           \/ \E t \in TubeNames : Use(c, t) \/ Watch(c, t) \/ Ignore(c, t)
           \/ \E id : Delete(c, id)
    PROVE  Attended'
<1>1. Idle
  BY SenderIdle, Zenon DEF Connect, Use, Watch, Ignore, Delete
<1>2. /\ Shaped(eng) /\ ~pq /\ Watched(eng, <<>>, {}) /\ DefaultTube \in DOMAIN eng.tubes
      /\ \A d \in DOMAIN eng.conns : eng.conns[d].use_tube \in DOMAIN eng.tubes
  <2>1. ~pq /\ call.fn = "none"
    BY <1>1, AtRest, Zenon
  <2>2. Shaped(eng) /\ Watched(eng, <<>>, {})
    BY <2>1, AtRest, Zenon
  <2>3. DefaultTube \in DOMAIN eng.tubes
    BY <2>2 DEF Watched, Ordered, Range
  <2> QED BY <2>1, <2>2, <2>3, AtRest, Zenon
<1>3. PICK r : Return(r) /\ Watched(r, <<>>, {}) /\ Kept(eng, r)
  <2>1. CASE Connect(c)
    BY <1>2, <2>1, ConnectWatched, Zenon DEF Connect, Live
  <2>2. CASE \E t \in TubeNames : Use(c, t)
    BY <1>2, <2>2, SenderIdle, UseWatched, Zenon DEF Use
  <2>3. CASE \E t \in TubeNames : Watch(c, t)
    BY <1>2, <2>3, SenderIdle, WatchWatched, KeptBy, ZenonT(60) DEF Watch
  <2>4. CASE \E t \in TubeNames : Ignore(c, t)
    BY <1>2, <2>4, SenderIdle, IgnoreWatched, KeptBy, ZenonT(60) DEF Ignore
  <2>5. CASE \E id : Delete(c, id)
    <3>1. PICK id : Delete(c, id)
      BY <2>5, Zenon
    <3>2. eng.jobs[id].state \in States /\ eng.jobs[id].tube \in DOMAIN eng.tubes
      BY <3>1, AtRest, ZenonT(30) DEF Delete
    <3> QED BY <1>2, <3>1, <3>2, DeleteWatched, ZenonT(60) DEF Delete
  <2> QED BY <2>1, <2>2, <2>3, <2>4, <2>5, Zenon
<1> QED BY <1>2, <1>3, Returns, Zenon

\* pause-tube takes a tube out of reach and puts none into it.
LEMMA PauseAttended ==
    ASSUME IInv, Attended, NEW c, NEW t, NEW delay \in Nat, PauseTube(c, t, delay)
    PROVE  Attended'
<1>1. Idle /\ t \in DOMAIN eng.tubes /\ Return(cmd_pause_tube(eng, t, delay, now))
  BY SenderIdle, Zenon DEF PauseTube
<1>2. Shaped(eng) /\ ~pq /\ Watched(eng, <<>>, {}) /\ now \in Nat
  BY <1>1, AtRest, Zenon DEF IInv
<1> DEFINE r == cmd_pause_tube(eng, t, delay, now)
<1>3. Repaused(eng, r) /\ Wanting(r) \subseteq Wanting(eng)
  BY <1>1, <1>2, PauseKeeps, ZenonT(60)
<1> HIDE DEF r
<1>4. Watched(r, <<>>, {}) /\ Kept(eng, r)
  BY <1>2, <1>3, RepausedKeeps, Zenon DEF Kept
<1> QED BY <1>1, <1>2, <1>4, Returns, ZenonT(60) DEF r

\* The reply to a waiter that leaves the lists.
LEMMA DismissKept ==
    ASSUME NEW s, Shaped(s), WaitLists(s), NEW c \in DOMAIN s.conns, NEW w, Watched(s, w, {})
    PROVE  /\ LET r == do_remove_waiting_conn(s, c) IN Watched(r, w, {}) /\ Kept(s, r)
           /\ LET r == reply(do_remove_waiting_conn(s, c), c) IN Watched(r, w, {}) /\ Kept(s, r)
<1> DEFINE y == do_remove_waiting_conn(s, c)
           r == reply(y, c)
<1>1. Fewer(s, y, c) /\ ~y.conns[c].waiting
  BY RemoveFewer, ZenonT(30)
<1> HIDE DEF y
<1>2. Shaped(y) /\ Watched(y, w, {}) /\ Kept(s, y)
  BY <1>1, FewerKeeps, Zenon
<1>3. Still(y, r) /\ NoneReady(y, r)
  BY <1>2, PlainStill, Zenon
<1> HIDE DEF r
<1>4. Watched(r, w, {}) /\ Kept(y, r)
  BY <1>2, <1>3, StillKeeps, KeptBy, Zenon
<1>5. Kept(s, r)
  BY <1>2, <1>4, KeptBy, Zenon
<1> QED BY <1>2, <1>4, <1>5, Zenon DEF r, y

\* half-close and reserve-with-timeout 0 end a wait.
LEMMA WaitsEndAttended ==
    ASSUME IInv, Attended, ReserveNow \/ \E c : HalfClose(c)
    PROVE  Attended'
<1>1. CASE \E c : HalfClose(c)
  <2>1. PICK c : HalfClose(c)
    BY <1>1, Zenon
  <2>2. Idle /\ c \in DOMAIN eng.conns /\ Return(reply(do_remove_waiting_conn(eng, c), c))
    BY <2>1, Zenon DEF HalfClose, Live
  <2>3. Shaped(eng) /\ WaitLists(eng) /\ ~pq /\ Watched(eng, <<>>, {})
    BY <2>2, AtRest, ZenonT(30)
  <2>4. LET r == reply(do_remove_waiting_conn(eng, c), c) IN Watched(r, <<>>, {}) /\ Kept(eng, r)
    BY <2>2, <2>3, DismissKept, ZenonT(60)
  <2> QED BY <2>2, <2>3, <2>4, Returns, ZenonT(60)
<1>2. CASE ReserveNow
  <2> DEFINE c == call.conn
  <2>1. ~pq /\ call.fn = "reserve_now"
    BY <1>2, Zenon DEF ReserveNow
  <2>2. c \in DOMAIN eng.conns
    BY <2>1, Zenon DEF IInv, FrameSound, OwnCalls
  <2>3. Shaped(eng) /\ WaitLists(eng) /\ Watched(eng, <<>>, {})
    BY <2>1, AtRest, Zenon
  <2>4. LET r == reply(do_remove_waiting_conn(eng, c), c) IN Watched(r, <<>>, {}) /\ Kept(eng, r)
    BY <2>2, <2>3, DismissKept, Zenon
  <2>5. Kept(eng, eng)
    BY Zenon DEF Kept
  <2>6. PICK r : Return(r) /\ Watched(r, <<>>, {}) /\ Kept(eng, r)
    BY <1>2, <2>3, <2>4, <2>5, ZenonT(60) DEF ReserveNow
  <2> QED BY <2>1, <2>6, Returns, Zenon
<1> QED BY <1>1, <1>2, Zenon
\* The fields of the frame that the steps of a call leave alone.
LEMMA FrameFields ==
    ASSUME IInv
    PROVE  /\ \A x : LET f == [call EXCEPT !.jobs = x]
                     IN  f.fn = call.fn /\ f.watch = call.watch /\ f.conn = call.conn
           /\ \A x : LET f == [call EXCEPT !.watch = x]
                     IN  f.fn = call.fn /\ f.watch = x /\ f.conn = call.conn
           /\ \A x : LET f == [call EXCEPT !.fn = "unwatch", !.watch = x]
                     IN  f.fn = "unwatch" /\ f.watch = x /\ f.conn = call.conn
           /\ \A x : LET f == [call EXCEPT !.n = x] IN f.fn = call.fn /\ f.watch = call.watch
           /\ LET f == [call EXCEPT !.fn = "tick_conns"]
              IN  f.fn = "tick_conns" /\ f.watch = call.watch
           /\ \A x, y : LET f == [call EXCEPT !.fn = "conn_timeout", !.conn = x, !.processed = y]
                        IN  f.fn = "conn_timeout" /\ f.watch = call.watch
           /\ \A x : LET f == [call EXCEPT !.fn = "tick_conns", !.conn = x]
                     IN  f.fn = "tick_conns" /\ f.watch = call.watch
<1>1. {"fn", "conn", "watch"} \subseteq DOMAIN call
  BY Zenon DEF IInv, FrameSound, CallType
<1> QED BY <1>1, Zenon

\* reserve registers the connection, and process_queue serves it.
LEMMA ReserveAttended ==
    ASSUME IInv, Attended, NEW c, NEW timeout, Reserve(c, timeout)
    PROVE  Attended'
<1>1. c \in DOMAIN eng.conns /\ Idle
  BY SenderIdle, Zenon DEF Reserve
<1>2. /\ Shaped(eng) /\ WaitLists(eng) /\ Watched(eng, <<>>, {}) /\ call.fn # "unwatch"
      /\ c \in ConnIds
  BY <1>1, AtRest, Zenon
<1> DEFINE y == accept(eng, c)
<1>3. Still(eng, y) /\ Shaped(y)
  BY <1>2, PlainStill, StillTrans, ZenonT(60)
<1>4. WaitLists(y) /\ c \in DOMAIN y.conns
  <2>1. y.tubes = eng.tubes
    BY <1>2, Zenon DEF accept, Shaped
  <2> QED BY <1>1, <1>2, <1>3, <2>1, ZenonT(60) DEF WaitLists, Still
<1> HIDE DEF y
<1>5. Watched(y, <<>>, {}) /\ Registered(y) /\ Ticked(y)
  BY <1>2, <1>3, StillKeeps, ZenonT(60) DEF Attended
<1>6. PICK d, f : /\ Continue(enqueue_waiting_conn(y, c, d), f)
                  /\ f.fn \notin {"none", "unwatch"} /\ f.watch = <<>>
  <2> DEFINE g == [NoCall EXCEPT !.fn = "reserve_now", !.conn = c]
             h == [NoCall EXCEPT !.fn = "end"]
             e == IF timeout = None THEN None ELSE now + timeout * NanosPerSec
  <2>1. g.fn = "reserve_now" /\ g.watch = <<>> /\ h.fn = "end" /\ h.watch = <<>>
    BY Zenon DEF NoCall
  <2>2. Continue(enqueue_waiting_conn(y, c, e), g) \/ Continue(enqueue_waiting_conn(y, c, e), h)
    BY Zenon DEF Reserve, y
  <2> HIDE DEF g, h, e
  <2> QED BY <2>1, <2>2, Zenon
<1> DEFINE r == enqueue_waiting_conn(y, c, d)
<1>7. Watched(r, <<>>, {}) /\ Registered(r) /\ Ticked(r)
  BY <1>2, <1>3, <1>4, <1>5, EnqueueRegistered, ZenonT(60)
<1> HIDE DEF r
<1> QED BY <1>6, <1>7, GoesOn, ZenonT(60) DEF r

\* kick begins and ends, the replies, and the calls that end.
LEMMA EndsAttended ==
    ASSUME IInv, Attended,
           (\E c, n : Kick(c, n)) \/ KickEnd \/ Reply \/ EndCall \/ TickEnd \/ Tick \/ Advance
             \/ UNCHANGED vars
    PROVE  Attended'
<1>1. CASE \E c, n : Kick(c, n)
  <2>1. PICK c, n : Kick(c, n)
    BY <1>1, Zenon
  <2>2. Idle
    BY <2>1, SenderIdle, ZenonT(30) DEF Kick
  <2>3. Shaped(eng) /\ Watched(eng, <<>>, {}) /\ ~pq
    BY <2>2, AtRest, Zenon
  <2> DEFINE r == accept(eng, c)
  <2>4. Still(eng, r) /\ NoneReady(eng, r)
    BY <2>3, PlainStill, Zenon
  <2>5. PICK f : Goto(r, f) /\ f.fn = "kick" /\ f.watch = <<>>
    <3> DEFINE t == eng.conns[c].use_tube
               f == [NoCall EXCEPT !.fn = "kick", !.conn = c, !.tube = t, !.n = n,
                                   !.buried = eng.tubes[t].buried # <<>>]
    <3>1. f.fn = "kick" /\ f.watch = <<>>
      BY Zenon DEF NoCall
    <3>2. Goto(r, f)
      BY <2>1, ZenonT(30) DEF Kick
    <3> HIDE DEF f
    <3> QED BY <3>1, <3>2, Zenon
  <2> HIDE DEF r
  <2>6. Watched(r, <<>>, {}) /\ Kept(eng, r)
    BY <2>3, <2>4, StillKeeps, KeptBy, ZenonT(60)
  <2> QED BY <2>3, <2>5, <2>6, GoesOn, Zenon
<1>2. CASE KickEnd \/ Reply
  <2>1. ~pq /\ call.fn # "unwatch" /\ Return(reply(eng, call.conn))
    BY <1>2, Zenon DEF KickEnd, Reply
  <2>2. LET r == reply(eng, call.conn) IN Still(eng, r) /\ NoneReady(eng, r)
    BY AtRest, PlainStill, Zenon
  <2> QED BY <2>1, <2>2, StillReturns, Zenon
<1>3. CASE EndCall \/ TickEnd
  <2>1. ~pq /\ call.fn # "unwatch" /\ Return(eng)
    BY <1>3, Zenon DEF EndCall, TickEnd
  <2>2. Still(eng, eng) /\ NoneReady(eng, eng)
    BY AtRest, StillTrans, ZenonT(30)
  <2> QED BY <2>1, <2>2, StillReturns, Zenon
<1>4. CASE Tick
  <2>1. PICK f : Goto(eng, f) /\ f.fn = "tick_delayed" /\ f.watch = <<>>
    BY <1>4, Frames, ZenonT(60) DEF Tick
  <2>2. ~pq /\ Watched(eng, <<>>, {}) /\ Kept(eng, eng)
    BY <1>4, AtRest, Zenon DEF Tick, Kept
  <2> QED BY <2>1, <2>2, GoesOn, Zenon
<1>5. CASE Advance \/ UNCHANGED vars
  BY <1>5 DEF Advance, Attended, vars
<1> QED BY <1>1, <1>2, <1>3, <1>4, <1>5, ZenonT(60)

\* A tick gives delayed and overdue jobs back and ends waits.
LEMMA TickAttended ==
    ASSUME IInv, Attended, TickDelayed \/ TickPauses \/ TickConn \/ TimeoutJob \/ TimeoutWait
    PROVE  Attended'
<1>1. ~pq /\ call.fn \notin {"none", "unwatch"}
  BY Zenon DEF TickDelayed, TickPauses, TickConn, TimeoutJob, TimeoutWait
<1>2. /\ Shaped(eng) /\ WaitLists(eng) /\ Watched(eng, <<>>, {}) /\ call.watch = <<>>
      /\ Kept(eng, eng)
  BY <1>1, AtRest, Zenon DEF Attended, Kept
<1>3. CASE TickDelayed
  <2>1. PICK t, id : Continue(insert_ready(remove_delayed(eng, t, id), t, id), call)
    BY <1>3, Zenon DEF TickDelayed
  <2> DEFINE y == remove_delayed(eng, t, id)
             r == insert_ready(y, t, id)
  <2>2. Still(eng, y) /\ Shaped(y)
    BY <1>2, RemovesStill, StillTrans, ZenonT(60)
  <2> HIDE DEF y
  <2>3. Still(y, r)
    BY <2>2, InsertsStill, Zenon
  <2> HIDE DEF r
  <2>4. Still(eng, r)
    BY <1>2, <2>2, <2>3, StillTrans, ZenonT(60)
  <2> QED BY <1>1, <1>2, <2>1, <2>4, StillGoesOn, ZenonT(60) DEF r, y
<1>4. CASE TickPauses
  <2>1. eng' = eng /\ call' = [call EXCEPT !.fn = "tick_conns"] /\ pq' \in BOOLEAN
    BY <1>4, Zenon DEF TickPauses
  <2>2. call'.fn = "tick_conns" /\ call'.watch = <<>>
    BY <1>2, <2>1, FrameFields, Zenon
  <2> QED BY <1>1, <1>2, <2>1, <2>2, ZenonT(60) DEF Attended
<1>5. CASE TickConn
  <2>1. PICK f : Goto(eng, f) /\ f.fn = "conn_timeout" /\ f.watch = <<>>
    <3>1. PICK x, z : Goto(eng, [call EXCEPT !.fn = "conn_timeout", !.conn = x, !.processed = z])
      BY <1>5, Zenon DEF TickConn
    <3> DEFINE f == [call EXCEPT !.fn = "conn_timeout", !.conn = x, !.processed = z]
    <3>2. f.fn = "conn_timeout" /\ f.watch = <<>>
      BY <1>2, FrameFields, SMTT(30)
    <3>3. Goto(eng, f)
      BY <3>1, Zenon
    <3> HIDE DEF f
    <3> QED BY <3>2, <3>3, Zenon
  <2> QED BY <1>1, <1>2, <2>1, GoesOn, ZenonT(60)
<1>6. CASE TimeoutJob
  <2>1. PICK id : Continue(give_back(eng, call.conn, id), call)
    BY <1>6, Zenon DEF TimeoutJob
  <2>2. Still(eng, give_back(eng, call.conn, id))
    <3>1. 0 \in Nat
      BY Zenon
    <3> QED BY <1>2, <3>1, JobCallsStill, Zenon
  <2> QED BY <1>1, <1>2, <2>1, <2>2, StillGoesOn, ZenonT(60)
<1>7. CASE TimeoutWait
  <2>1. call.conn \in DOMAIN eng.conns
    BY <1>7, Zenon DEF TimeoutWait, IInv, FrameSound, OwnCalls
  <2> DEFINE y == reply(do_remove_waiting_conn(eng, call.conn), call.conn)
  <2>2. Watched(y, <<>>, {}) /\ Kept(eng, y)
    BY <1>2, <2>1, DismissKept, Zenon
  <2>3. PICK f : /\ Goto(eng, f) \/ Goto(y, f)
                 /\ f.fn = "tick_conns" /\ f.watch = <<>>
    <3> DEFINE f == [call EXCEPT !.fn = "tick_conns", !.conn = None]
    <3>1. f.fn = "tick_conns" /\ f.watch = <<>>
      BY <1>2, FrameFields, Zenon
    <3>2. Goto(eng, f) \/ Goto(y, f)
      BY <1>7, Zenon DEF TimeoutWait
    <3> HIDE DEF f, y
    <3> QED BY <3>1, <3>2, Zenon
  <2> HIDE DEF y
  <2>4. PICK r : Goto(r, f) /\ Watched(r, <<>>, {}) /\ Kept(eng, r)
    BY <1>2, <2>2, <2>3, Zenon
  <2> QED BY <1>1, <2>3, <2>4, GoesOn, Zenon
<1> QED BY <1>3, <1>4, <1>5, <1>6, <1>7, ZenonT(60)
\* A disconnect leaves the lists of waiters, gives its jobs back and drops its
\* watches and its tube.
LEMMA DisconnectAttended ==
    ASSUME Laws, IInv, Attended,
           (\E c : Disconnect(c)) \/ DisconnectJob \/ DisconnectJobsDone \/ DisconnectWatch
             \/ DisconnectEnd
    PROVE  Attended'
<1>1. Shaped(eng) /\ WaitLists(eng)
  BY AtRest, Zenon
<1>2. CASE \E c : Disconnect(c)
  <2>1. PICK c : Disconnect(c)
    BY <1>2, Zenon
  <2>2. Idle /\ c \in DOMAIN eng.conns
    BY <2>1, ZenonT(30) DEF Disconnect, Live
  <2>3. ~pq /\ Watched(eng, <<>>, {})
    BY <2>2, AtRest, Zenon
  <2> DEFINE y == do_remove_waiting_conn(eng, c)
             f == [NoCall EXCEPT !.fn = "disconnect", !.conn = c, !.jobs = eng.conns[c].reserved]
  <2>4. Watched(y, <<>>, {}) /\ Kept(eng, y)
    BY <1>1, <2>2, <2>3, DismissKept, ZenonT(60)
  <2>5. Goto(y, f)
    BY <2>1, Zenon DEF Disconnect
  <2>6. f.fn = "disconnect" /\ f.watch = <<>>
    BY Zenon DEF NoCall
  <2> HIDE DEF f, y
  <2> QED BY <2>3, <2>4, <2>5, <2>6, GoesOn, ZenonT(60)
<1>3. CASE DisconnectJob
  <2> DEFINE r == give_back(eng, call.conn, Head(call.jobs))
             f == [call EXCEPT !.jobs = Tail(@)]
  <2>1. Continue(r, f) /\ call.fn = "disconnect"
    BY <1>3, Zenon DEF DisconnectJob
  <2>2. f.fn = "disconnect" /\ f.watch = <<>>
    BY <2>1, FrameFields, Zenon DEF Attended
  <2>3. Still(eng, r)
    <3>1. 0 \in Nat
      BY Zenon
    <3> QED BY <1>1, <3>1, JobCallsStill, Zenon
  <2> HIDE DEF f, r
  <2> QED BY <2>1, <2>2, <2>3, StillGoesOn, ZenonT(60)
<1>4. CASE DisconnectJobsDone
  <2> DEFINE c == call.conn
             r == [eng EXCEPT !.conns[c].watch = <<>>]
             v == delete_order(eng.conns[c].watch)
             f == [call EXCEPT !.fn = "unwatch", !.watch = v]
  <2>1. Goto(r, f) /\ call.fn = "disconnect" /\ ~pq
    BY <1>4, Zenon DEF DisconnectJobsDone
  <2>2. c \in DOMAIN eng.conns /\ ~eng.conns[c].waiting
    BY <2>1, Zenon DEF IInv, FrameSound, OwnCalls
  <2>3. Watched(eng, <<>>, {})
    BY <2>1, AtRest, Zenon
  <2>4. Watched(r, v, {}) /\ Moved(eng, r) /\ r.conns[c].watch = <<>>
    BY <1>1, <2>2, <2>3, ClearWatched, Zenon
  <2>5. f.fn = "unwatch" /\ f.watch = v /\ f.conn = c
    BY FrameFields, Zenon
  <2> HIDE DEF f, r, v
  <2>6. Kept(eng, r)
    BY <2>4, KeptBy, Zenon
  <2>7. Registered(r) /\ Ticked(r) /\ Wanting(r) = {}
    BY <2>1, <2>6, Zenon DEF Attended, Kept
  <2>8. eng' = r /\ call' = f /\ pq' = FALSE
    BY <2>1, Zenon DEF Goto
  <2> QED BY <2>4, <2>5, <2>7, <2>8, ZenonT(60) DEF Attended
<1>5. CASE DisconnectWatch
  <2> DEFINE w == call.watch
             r == drop_watch(eng, Head(w))
             f == [call EXCEPT !.watch = Tail(@)]
  <2>1. Goto(r, f) /\ call.fn = "unwatch" /\ w # <<>>
    BY <1>5, Zenon DEF DisconnectWatch
  <2>2. Watched(eng, w, {}) /\ eng.conns[call.conn].watch = <<>>
    BY <2>1, Zenon DEF Attended
  <2>3. Watched(r, Tail(w), {}) /\ Moved(eng, r) /\ r.conns = eng.conns
    BY <1>1, <2>1, <2>2, DropWatched, Zenon
  <2>4. f.fn = "unwatch" /\ f.watch = Tail(w) /\ f.conn = call.conn
    BY <2>1, FrameFields, Zenon
  <2> HIDE DEF f, r
  <2>5. Kept(eng, r)
    BY <2>3, KeptBy, Zenon
  <2>6. ~pq
    BY <2>1, Zenon DEF Attended
  <2>7. Registered(r) /\ Ticked(r) /\ Wanting(r) = {}
    BY <2>5, <2>6, Zenon DEF Attended, Kept
  <2>8. eng' = r /\ call' = f /\ pq' = FALSE
    BY <2>1, Zenon DEF Goto
  <2> QED BY <2>2, <2>3, <2>4, <2>7, <2>8, ZenonT(60) DEF Attended
<1>6. CASE DisconnectEnd
  <2> DEFINE c == call.conn
             r == forget_conn(eng, c)
  <2>1. Return(r) /\ call.fn = "unwatch" /\ call.watch = <<>>
    BY <1>6, Zenon DEF DisconnectEnd
  <2>2. c \in DOMAIN eng.conns /\ eng.conns[c].watch = <<>> /\ Watched(eng, <<>>, {})
    BY <2>1, Zenon DEF IInv, FrameSound, OwnCalls, Attended
  <2>3. eng.conns[c].use_tube \in DOMAIN eng.tubes
    BY <2>2, AtRest, Zenon
  <2>4. Watched(r, <<>>, {}) /\ Kept(eng, r)
    BY <1>1, <2>2, <2>3, ForgetWatched, ZenonT(60)
  <2>5. ~pq
    BY <2>1, Zenon DEF Attended
  <2> HIDE DEF r
  <2> QED BY <2>1, <2>4, <2>5, Returns, ZenonT(30)
<1> QED BY <1>2, <1>3, <1>4, <1>5, <1>6, ZenonT(60)

\* kick makes the next buried or delayed job ready and process_queue serves it.
LEMMA KickNextAttended ==
    ASSUME Laws, IInv, Chosen(eng, now), Attended, KickNext
    PROVE  Attended'
<1> DEFINE t == call.tube
           id == IF call.buried THEN Head(eng.tubes[t].buried) ELSE first(eng.tubes[t].delayed)[2]
           f == [call EXCEPT !.n = call.n - 1]
<1>1. call.fn = "kick" /\ KickSource /\ Continue(kick_to_ready(eng, id), f) /\ Sound(eng, {})
  BY Zenon DEF KickNext, IInv
<1>2. t \in DOMAIN eng.tubes
  BY <1>1, AtRest, Zenon DEF IInv, FrameSound, OwnCalls
<1>3. eng.jobs[id].state \in {"delayed", "buried"}
  <2>1. CASE call.buried
    <3>1. eng.tubes[t].buried # <<>>
      BY <1>1, <2>1, Zenon DEF KickSource
    <3>2. JobIn(eng, t, Head(eng.tubes[t].buried), "buried")
      BY <1>2, <3>1, Zenon DEF Chosen
    <3> QED BY <2>1, <3>2, Zenon DEF JobIn
  <2>2. CASE ~call.buried
    <3>1. eng.tubes[t].delayed # {}
      BY <1>1, <2>2, Zenon DEF KickSource
    <3>2. JobIn(eng, t, first(eng.tubes[t].delayed)[2], "delayed")
      BY <1>2, <3>1, Zenon DEF Chosen
    <3> QED BY <2>2, <3>2, Zenon DEF JobIn
  <2> QED BY <2>1, <2>2, Zenon
<1>4. f.fn = "kick" /\ f.watch = <<>>
  BY <1>1, FrameFields, ZenonT(60) DEF Attended
<1> HIDE DEF f, id
<1>5. Still(eng, kick_to_ready(eng, id))
  <2>1. 0 \in Nat
    BY Zenon
  <2> QED BY <1>3, <2>1, AtRest, JobCallsStill, ZenonT(60)
<1> QED BY <1>1, <1>4, <1>5, StillGoesOn, Zenon

\* process_queue hands the best job to a waiter, who leaves every list.
LEMMA AssignAttended ==
    ASSUME Laws, IInv, Chosen(eng, now), Attended, Assign
    PROVE  Attended'
<1> DEFINE s == clear_expired_pauses(eng, now)
           t == best_tube(s)
           q == s.tubes[t].waiting_conns
           r == assign_best(s, now)
<1>1. pq /\ serving(s) # {} /\ eng' = r /\ call' = call /\ pq' = pq
  BY Zenon DEF Assign
<1>2. Shaped(eng) /\ WaitLists(eng) /\ call.fn \notin {"none", "unwatch"}
  BY <1>1, AtRest, Zenon DEF Attended
<1>3. Repaused(eng, s)
  BY <1>2, ClearKeeps, Zenon
<1>4. t \in DOMAIN s.tubes /\ q.items # <<>> /\ ms_taken(q) \in DOMAIN s.conns
  BY <1>1, Zenon DEF Chosen
<1> HIDE DEF t
<1> HIDE DEF s
<1>5. Watched(s, <<>>, {}) /\ Registered(s) /\ Ticked(s) /\ Shaped(s) /\ call.watch = <<>>
  BY <1>2, <1>3, RepausedKeeps, ZenonT(30) DEF Attended
<1>6. WaitLists(s)
  BY <1>2, <1>3, Zenon DEF WaitLists, WaitList, Repaused
<1>7. Watched(r, <<>>, {}) /\ Kept(s, r)
  BY <1>4, <1>5, <1>6, AssignKept, ZenonT(60) DEF t
<1> HIDE DEF r
<1>8. Registered(r) /\ Ticked(r)
  BY <1>5, <1>7, Zenon DEF Kept
<1> QED BY <1>1, <1>2, <1>5, <1>7, <1>8, ZenonT(30) DEF Attended

\* process_queue ends when no tube it may serve is left.
LEMMA AssignEndAttended ==
    ASSUME IInv, Chosen(eng, now), Attended, AssignEnd
    PROVE  Attended'
<1> DEFINE s == clear_expired_pauses(eng, now)
<1>1. pq /\ serving(s) = {} /\ eng' = s /\ call' = call /\ pq' = FALSE
  BY Zenon DEF AssignEnd
<1>2. Shaped(eng) /\ call.fn \notin {"none", "unwatch"}
  BY <1>1, AtRest, Zenon DEF Attended
<1>3. Repaused(eng, s)
  BY <1>2, ClearKeeps, Zenon
<1>4. Sound(s, {})
  BY Zenon DEF Chosen
<1> HIDE DEF s
<1>5. Watched(s, <<>>, {}) /\ Registered(s) /\ Ticked(s) /\ call.watch = <<>>
  BY <1>2, <1>3, RepausedKeeps, ZenonT(60) DEF Attended
<1>6. \A t \in DOMAIN s.tubes : Indexed(s.tubes[t])
  BY <1>4, Zenon DEF Sound, WaitersSound
<1>7. Wanting(s) = {}
  BY <1>1, <1>6, Zenon DEF Wanting, serving, Indexed, DispatchableExact
<1> QED BY <1>1, <1>2, <1>5, <1>7, ZenonT(60) DEF Attended

\* Every step of the engine keeps Attended.
LEMMA StepAttended ==
    ASSUME Laws, IInv, Chosen(eng, now), Attended, [Next]_vars
    PROVE  Attended'
<1>1. TRUE \in BOOLEAN /\ FALSE \in BOOLEAN
  BY Zenon
<1>2. ASSUME NEW c \in ConnIds, ConnStep(c) PROVE Attended'
  <2>1. CASE \/ PutStarted(c, TRUE) \/ PutStarted(c, FALSE) \/ \E why : PutRejected(c, why)
             \/ \E id : ReserveJob(c, id) \/ Touch(c, id)
             \/ \E id, pri : Bury(c, id, pri)
    BY <1>1, <2>1, PlainAttended, ZenonT(60)
  <2>2. CASE \E pri \in Pris, delay \in Nat, ttr \in Ttrs : Put(c, pri, delay, ttr)
    BY <2>2, PutAttended, Zenon
  <2>3. CASE \/ Connect(c) \/ \E t \in TubeNames : Use(c, t) \/ Watch(c, t) \/ Ignore(c, t)
             \/ \E id : Delete(c, id)
    BY <2>3, TubeCallsAttended, ZenonT(60)
  <2>4. CASE \/ \E id, pri, delay \in Nat : Release(c, id, pri, delay)
             \/ \E id : KickJob(c, id)
    BY <2>4, ReadyAttended, Zenon
  <2>5. CASE Disconnect(c)
    BY <2>5, DisconnectAttended, ZenonT(60)
  <2>6. CASE HalfClose(c)
    BY <2>6, WaitsEndAttended, Zenon
  <2>7. CASE \E n : Kick(c, n)
    BY <2>7, EndsAttended, Zenon
  <2>8. CASE \E timeout : Reserve(c, timeout)
    BY <2>8, ReserveAttended, ZenonT(60)
  <2>9. CASE \E t \in TubeNames, delay \in Nat : PauseTube(c, t, delay)
    BY <2>9, PauseAttended, ZenonT(60)
  <2>10. Delays \subseteq Nat /\ Pauses \subseteq Nat /\ Pris \subseteq Nat /\ JobIds \subseteq Nat
    BY BoundsAssumption DEF JobIds
  <2>11. \/ PutStarted(c, TRUE) \/ PutStarted(c, FALSE) \/ \E why : PutRejected(c, why)
         \/ Connect(c) \/ Disconnect(c) \/ HalfClose(c)
         \/ \E pri \in Pris, delay \in Nat, ttr \in Ttrs : Put(c, pri, delay, ttr)
         \/ \E t \in TubeNames : Use(c, t) \/ Watch(c, t) \/ Ignore(c, t)
         \/ \E t \in TubeNames, delay \in Nat : PauseTube(c, t, delay)
         \/ \E timeout : Reserve(c, timeout)
         \/ \E id : ReserveJob(c, id) \/ Touch(c, id) \/ Delete(c, id) \/ KickJob(c, id)
         \/ \E id, pri : Bury(c, id, pri)
         \/ \E id, pri, delay \in Nat : Release(c, id, pri, delay)
         \/ \E n : Kick(c, n)
    BY ONLY ConnStep(c), <2>10, Zenon DEF ConnStep
  <2> QED
    BY ONLY <2>1, <2>2, <2>3, <2>4, <2>5, <2>6, <2>7, <2>8, <2>9, <2>11, ZenonT(60)
<1>3. ASSUME CallStep PROVE Attended'
  <2>1. CASE DisconnectJob \/ DisconnectJobsDone \/ DisconnectWatch \/ DisconnectEnd
    BY <2>1, DisconnectAttended, Zenon
  <2>2. CASE ReserveNow
    BY <2>2, WaitsEndAttended, Zenon
  <2>3. CASE KickNext
    BY <2>3, KickNextAttended, ZenonT(60)
  <2>4. CASE KickEnd \/ EndCall \/ Reply \/ TickEnd
    BY <2>4, EndsAttended, ZenonT(30)
  <2>5. CASE Assign
    BY <2>5, AssignAttended, Zenon
  <2>6. CASE AssignEnd
    BY <2>6, AssignEndAttended, Zenon
  <2>7. CASE TickDelayed \/ TickPauses \/ TickConn \/ TimeoutJob \/ TimeoutWait
    BY <2>7, TickAttended, Zenon
  <2> QED BY ONLY CallStep, <2>1, <2>2, <2>3, <2>4, <2>5, <2>6, <2>7, ZenonT(60) DEF CallStep
<1>4. CASE Drain
  BY <1>4, PlainAttended, Zenon
<1>5. CASE Tick \/ Advance \/ UNCHANGED vars
  BY <1>5, EndsAttended, ZenonT(60)
<1> QED BY ONLY [Next]_vars, <1>2, <1>3, <1>4, <1>5, ZenonT(30) DEF Next

\* A new engine has one tube, which nobody watches, and nobody waits.
LEMMA InitAttended ==
    ASSUME Laws, Init
    PROVE  Attended
<1> DEFINE s == NewEngine
<1>1. eng = s /\ call.fn = "none" /\ call.watch = <<>> /\ pq = FALSE
  BY Zenon DEF Init, NoCall
<1>2. /\ DOMAIN s.conns = {} /\ DOMAIN s.tubes = {DefaultTube}
      /\ s.tubes[DefaultTube] = NewTube /\ s.tube_order = <<DefaultTube>>
  BY Zenon DEF NewEngine
<1> HIDE DEF s
<1>3. NewTube.using_ct = 0 /\ NewTube.watching_ct = 0 /\ NewTube.job_ref_ct = 0 /\ NewTube.ready = {}
  BY Zenon DEF NewTube
<1>4. IsFiniteSet({}) /\ Cardinality({}) = 0
  BY CountNone, Zenon
<1>5. Ordered(s)
  BY <1>2, ConstantsAssumption, SMTT(30) DEF Ordered, IsInjective, Range
<1>6. WatchesLive(s, <<>>)
  BY EmptyList DEF WatchesLive
<1>7. Counted(s, <<>>, {}, DefaultTube)
  <2>1. Watchers(s, DefaultTube) = {} /\ Dropping(<<>>, DefaultTube) = 0
    BY <1>2, EmptyList, Zenon DEF Watchers, Dropping
  <2> QED BY <1>2, <1>3, <1>4, <2>1, SMTT(30) DEF Counted
<1>8. Watched(s, <<>>, {})
  BY <1>2, <1>4, <1>5, <1>6, <1>7, ZenonT(60) DEF Watched
<1>9. Registered(s) /\ Ticked(s) /\ Wanting(s) = {}
  BY <1>2, <1>3, ZenonT(60) DEF Registered, Ticked, Wanting
<1> QED BY <1>1, <1>8, <1>9, ZenonT(60) DEF Attended

\* The lists of waiters of the tubes hold exactly the connections that wait
\* for them.
LEMMA ListsExact == IInv /\ Attended => WaitersRegistered
  BY Zenon DEF IInv, Sound, WaitersSound, Waiter, Attended, Registered, WaitersRegistered, Tubes, Conns

\* The reference counts of the tubes are exact.
LEMMA CountsExact == IInv /\ Attended => TubesReferenced
<1> SUFFICES ASSUME IInv, Attended PROVE TubesReferenced
  BY Zenon
<1>1. RefsSound(eng) /\ Watched(eng, call.watch, {})
  BY Zenon DEF IInv, Sound, Attended
<1>2. /\ DefaultTube \in Tubes /\ eng.tube_order[1] = DefaultTube
      /\ Range(eng.tube_order) = Tubes /\ IsInjective(eng.tube_order)
  BY <1>1, ZenonT(60) DEF RefsSound, Watched, Ordered, Tubes
<1>3. ASSUME NEW t \in Tubes
      PROVE  /\ t # DefaultTube => refs(eng.tubes[t]) > 0
             /\ eng.tubes[t].watching_ct = Cardinality(Watchers(eng, t)) + Dropping(call.watch, t)
             /\ eng.tubes[t].using_ct = Cardinality(Users(eng, t))
             /\ eng.tubes[t].job_ref_ct = Cardinality(JobsOf(eng, t))
  BY <1>1, <1>3, ZenonT(60) DEF RefsSound, Watched, Counted, Tubes
<1>4. \A c \in Conns : {eng.conns[c].use_tube} \cup Range(eng.conns[c].watch) \subseteq Tubes
  BY <1>1, Zenon DEF RefsSound, Watched, WatchesLive, Tubes, Conns
<1> QED BY ONLY <1>2, <1>3, <1>4, ZenonT(60) DEF TubesReferenced, Watchers, Dropping, Users, JobsOf, Tubes, Conns, Jobs

\* The index entries of tubes and connections are what a refresh would make
\* them.
LEMMA EntriesExact == IInv /\ Attended => IndexesExact
<1> SUFFICES ASSUME IInv, Attended PROVE IndexesExact
  BY Zenon
<1>1. ASSUME NEW t \in Tubes
      PROVE  /\ eng.tubes[t] = refresh_dispatchable(eng.tubes[t])
             /\ eng.tubes[t] = refresh_delay_head(eng.tubes[t])
  <2> DEFINE ts == eng.tubes[t]
  <2>1. ts \in TubeType /\ Indexed(ts)
    BY <1>1, SoundRecords, ZenonT(60) DEF IInv, Tubes
  <2> HIDE DEF ts
  <2>2. ts.dispatchable \in BOOLEAN
    BY <2>1, Zenon DEF TubeType
  <2>3. ts.dispatchable = (ts.waiting_conns.items # <<>> /\ ts.ready # {})
    BY <2>1, <2>2, ZenonT(60) DEF Indexed, DispatchableExact
  <2>4. \A v, w : /\ ts.dispatchable = v => ts = [ts EXCEPT !.dispatchable = v]
                  /\ ts.delay_head = w => ts = [ts EXCEPT !.delay_head = w]
    BY <2>1, Zenon DEF TubeType
  <2>5. ts = refresh_dispatchable(ts)
    BY <2>3, <2>4, ZenonT(60) DEF refresh_dispatchable
  <2>6. ts = refresh_delay_head(ts)
    BY <2>1, <2>4, ZenonT(60) DEF refresh_delay_head, Indexed, DelayHeadExact
  <2> QED BY <2>5, <2>6, Zenon DEF ts
<1>2. ASSUME NEW c \in Conns PROVE eng.conns[c] = refresh_conn_tick(eng.conns[c])
  <2> DEFINE cs == eng.conns[c]
  <2>1. cs \in ConnType
    BY <1>2, SoundRecords, Zenon DEF IInv, Conns
  <2>2. cs.tick_key = conn_tickat(cs)
    BY <1>2, ZenonT(60) DEF Attended, Ticked, Timed, Conns
  <2> HIDE DEF cs
  <2>3. \A v : cs.tick_key = v => cs = [cs EXCEPT !.tick_key = v]
    BY <2>1, Zenon DEF ConnType
  <2> QED BY <2>2, <2>3, ZenonT(60) DEF refresh_conn_tick, cs
<1> QED BY <1>1, <1>2, ZenonT(60) DEF IndexesExact
=============================================================================
