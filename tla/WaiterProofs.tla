---------------------------- MODULE WaiterProofs ----------------------------
(***************************************************************************)
(* Tubes that are watched, connections that wait for them and the timers   *)
(* that end their waits: what every step of the job engine keeps beyond    *)
(* IInv (module EngineSoundness).                                          *)
(*                                                                         *)
(* Attended says that the watch counts are exact, that a waiting           *)
(* connection is registered with every tube it watches, that the recorded  *)
(* tick of every connection is the one its record asks for, and that       *)
(* outside process_queue no tube could be served.                          *)
(*                                                                         *)
(* The helpers of the engine are chained without a type for the records    *)
(* in between: Shaped says no more than which fields are there.            *)
(***************************************************************************)
EXTENDS EngineSoundness, ListProofs

\* The fields the lemmas below read of a tube
TubeKeys == {"ready", "waiting_conns", "using_ct", "watching_ct", "job_ref_ct", "unpause_at"}

\* and of a connection.
ConnKeys == {"watch", "waiting", "wait_deadline", "reserved_by_deadline", "tick_key"}

\* The engine record and its tubes and connections have these fields.
Shaped(s) ==
    /\ {"tubes", "tube_order", "conns"} \subseteq DOMAIN s
    /\ \A t \in DOMAIN s.tubes : TubeKeys \subseteq DOMAIN s.tubes[t]
    /\ \A c \in DOMAIN s.conns : ConnKeys \subseteq DOMAIN s.conns[c]

\* A tube has the same waiters, references and pause.
SameTube(T, ts) ==
    /\ TubeKeys \subseteq DOMAIN T
    /\ T.waiting_conns = ts.waiting_conns /\ T.unpause_at = ts.unpause_at /\ SameRefs(T, ts)

\* A connection watches and waits as before, and its tick is no less exact.
SameConn(C, cs) ==
    /\ ConnKeys \subseteq DOMAIN C
    /\ C.watch = cs.watch /\ C.waiting = cs.waiting
    /\ Timed(cs) => Timed(C)

\* An update that changes no tube's waiters, references or pause, and nobody's
\* wait or watches.
Still(s, r) ==
    /\ {"tubes", "tube_order", "conns"} \subseteq DOMAIN r
    /\ DOMAIN r.tubes = DOMAIN s.tubes /\ DOMAIN r.conns = DOMAIN s.conns
    /\ r.tube_order = s.tube_order
    /\ \A t \in DOMAIN s.tubes : SameTube(r.tubes[t], s.tubes[t])
    /\ \A c \in DOMAIN s.conns : SameConn(r.conns[c], s.conns[c])

\* No tube gets a ready job.
NoneReady(s, r) == \A t \in DOMAIN r.tubes : r.tubes[t].ready \subseteq s.tubes[t].ready

\* Typed engine records have the fields.
LEMMA TypeShapes ==
    ASSUME NEW s, EngineType(s)
    PROVE  Shaped(s)
<1>1. {"tubes", "tube_order", "conns"} \subseteq DOMAIN s
  BY Zenon DEF EngineType
<1>2. \A t \in DOMAIN s.tubes : s.tubes[t] \in TubeType
  BY Zenon DEF EngineType
<1>3. \A c \in DOMAIN s.conns : s.conns[c] \in ConnType
  BY Zenon DEF EngineType
<1>4. \A ts \in TubeType : TubeKeys \subseteq DOMAIN ts
  BY Zenon DEF TubeType, TubeKeys
<1>5. \A cs \in ConnType : ConnKeys \subseteq DOMAIN cs
  BY Zenon DEF ConnType, ConnKeys
<1> QED BY <1>1, <1>2, <1>3, <1>4, <1>5, Zenon DEF Shaped

\* An update that changes nothing is still, and still updates compose.
LEMMA StillTrans ==
    ASSUME NEW s, Shaped(s)
    PROVE  /\ Still(s, s) /\ NoneReady(s, s)
           /\ \A r : Still(s, r) => Shaped(r)
           /\ \A r, q : Still(s, r) /\ Still(r, q) => Still(s, q)
           /\ \A r, q : Still(s, r) /\ Still(r, q) /\ NoneReady(s, r) /\ NoneReady(r, q)
                            => NoneReady(s, q)
<1>1. Still(s, s) /\ NoneReady(s, s)
  BY Zenon DEF Shaped, Still, NoneReady, SameTube, SameConn, SameRefs
<1>2. ASSUME NEW r, Still(s, r) PROVE Shaped(r)
  BY <1>2, Zenon DEF Shaped, Still, SameTube, SameConn
<1>3. ASSUME NEW r, NEW q, Still(s, r), Still(r, q) PROVE Still(s, q)
  BY <1>3 DEF Still, SameTube, SameConn, SameRefs
<1>4. ASSUME NEW r, NEW q, Still(s, r), Still(r, q), NoneReady(s, r), NoneReady(r, q)
      PROVE  NoneReady(s, q)
  BY <1>4, Zenon DEF Still, NoneReady
<1> QED BY <1>1, <1>2, <1>3, <1>4, Zenon

\* One tube changes, and nothing the other fields say.
LEMMA OneTube ==
    ASSUME NEW s, Shaped(s), NEW r, NEW t, NEW T, {"tubes", "tube_order", "conns"} \subseteq DOMAIN r,
           r.tubes = [s.tubes EXCEPT ![t] = T], r.conns = s.conns, r.tube_order = s.tube_order,
           t \in DOMAIN s.tubes => SameTube(T, s.tubes[t])
    PROVE  /\ Still(s, r)
           /\ (t \in DOMAIN s.tubes => T.ready \subseteq s.tubes[t].ready) => NoneReady(s, r)
<1>1. \A c \in DOMAIN s.conns : SameConn(s.conns[c], s.conns[c])
  BY Zenon DEF Shaped, SameConn
<1>2. \A u \in DOMAIN s.tubes : SameTube(s.tubes[u], s.tubes[u])
  BY Zenon DEF Shaped, SameTube, SameRefs
<1> QED BY <1>1, <1>2, Zenon DEF Still, NoneReady

\* refresh_conn_tick makes the recorded tick exact.
LEMMA RefreshTimes ==
    ASSUME NEW cs, ConnKeys \subseteq DOMAIN cs
    PROVE  LET r == refresh_conn_tick(cs)
           IN  /\ DOMAIN r = DOMAIN cs /\ Timed(r)
               /\ r.watch = cs.watch /\ r.waiting = cs.waiting
<1> DEFINE d == conn_tickat(cs)
           r == [cs EXCEPT !.tick_key = d]
<1>1. refresh_conn_tick(cs) = r
  BY Zenon DEF refresh_conn_tick
<1> HIDE DEF d
<1>2. /\ DOMAIN r = DOMAIN cs /\ r.tick_key = d /\ r.watch = cs.watch
      /\ r.waiting = cs.waiting /\ r.wait_deadline = cs.wait_deadline
      /\ r.reserved_by_deadline = cs.reserved_by_deadline
  BY Zenon DEF ConnKeys
<1> HIDE DEF r
<1>3. conn_tickat(r) = conn_tickat(cs)
  BY <1>2 DEF conn_tickat, soonest_reserved
<1> QED BY <1>1, <1>2, <1>3, Zenon DEF Timed, d

\* The connection records that reservations change.
LEMMA ConnEdits ==
    ASSUME NEW cs, ConnKeys \subseteq DOMAIN cs, NEW d, NEW e, NEW id
    PROVE  /\ SameConn(cs, cs)
           /\ SameConn(hold(cs, d, id), cs) /\ SameConn(unhold(cs, d, id), cs)
           /\ SameConn(rehold(cs, d, e, id), cs)
<1>1. ASSUME NEW q, NEW D
      PROVE  /\ SameConn(refresh_conn_tick([cs EXCEPT !.reserved = q, !.reserved_by_deadline = D]), cs)
             /\ SameConn(refresh_conn_tick([cs EXCEPT !.reserved_by_deadline = D]), cs)
  <2> DEFINE m == [cs EXCEPT !.reserved = q, !.reserved_by_deadline = D]
             n == [cs EXCEPT !.reserved_by_deadline = D]
  <2>1. DOMAIN m = DOMAIN cs /\ m.watch = cs.watch /\ m.waiting = cs.waiting
    BY Zenon DEF ConnKeys
  <2>2. DOMAIN n = DOMAIN cs /\ n.watch = cs.watch /\ n.waiting = cs.waiting
    BY Zenon DEF ConnKeys
  <2> HIDE DEF m, n
  <2>3. SameConn(refresh_conn_tick(m), cs)
    BY <2>1, RefreshTimes, Zenon DEF SameConn
  <2>4. SameConn(refresh_conn_tick(n), cs)
    BY <2>2, RefreshTimes, Zenon DEF SameConn
  <2> QED BY <2>3, <2>4, Zenon DEF m, n
<1>2. SameConn(cs, cs)
  BY Zenon DEF SameConn
<1> QED BY <1>1, <1>2, Zenon DEF hold, unhold, rehold

\* The tube records that jobs change.
LEMMA TubeEdits ==
    ASSUME NEW ts, TubeKeys \subseteq DOMAIN ts, NEW p, NEW id
    PROVE  /\ SameTube(add_ready(ts, p, id), ts)
           /\ SameTube(drop_ready(ts, p, id), ts) /\ drop_ready(ts, p, id).ready \subseteq ts.ready
           /\ SameTube(add_delayed(ts, p, id), ts) /\ add_delayed(ts, p, id).ready = ts.ready
           /\ SameTube(drop_delayed(ts, p, id), ts) /\ drop_delayed(ts, p, id).ready = ts.ready
           /\ SameTube(add_buried(ts, id), ts) /\ add_buried(ts, id).ready = ts.ready
           /\ SameTube(drop_buried(ts, id), ts) /\ drop_buried(ts, id).ready = ts.ready
           /\ SameTube(count_reserved(ts, p), ts) /\ count_reserved(ts, p).ready = ts.ready
<1>1. ASSUME NEW u, NEW R, NEW b
      PROVE  LET r == [[ts EXCEPT !.ready = R, !.urgent_ct = u] EXCEPT !.dispatchable = b]
             IN  SameTube(r, ts) /\ r.ready = R
  BY Zenon DEF TubeKeys, SameTube, SameRefs
<1>2. ASSUME NEW D, NEW b
      PROVE  LET r == [[ts EXCEPT !.delayed = D] EXCEPT !.delay_head = b]
             IN  SameTube(r, ts) /\ r.ready = ts.ready
  BY Zenon DEF TubeKeys, SameTube, SameRefs
<1>3. ASSUME NEW B, NEW n
      PROVE  LET r == [ts EXCEPT !.buried = B, !.buried_ct = n]
             IN  SameTube(r, ts) /\ r.ready = ts.ready
  BY Zenon DEF TubeKeys, SameTube, SameRefs
<1>4. SameTube(count_reserved(ts, p), ts) /\ count_reserved(ts, p).ready = ts.ready
  BY Zenon DEF TubeKeys, SameTube, SameRefs, count_reserved
<1>5. SameTube(add_ready(ts, p, id), ts)
  BY <1>1, Zenon DEF add_ready, refresh_dispatchable
<1>6. SameTube(drop_ready(ts, p, id), ts) /\ drop_ready(ts, p, id).ready \subseteq ts.ready
  <2> DEFINE R == ts.ready \ {<<p, id>>}
             u == saturating_sub(ts.urgent_ct, urgent(p))
             m == [ts EXCEPT !.ready = R, !.urgent_ct = u]
             b == m.waiting_conns.items # <<>> /\ m.ready # {}
  <2>1. drop_ready(ts, p, id) = [m EXCEPT !.dispatchable = b]
    BY Zenon DEF drop_ready, refresh_dispatchable
  <2>2. R \subseteq ts.ready
    BY Zenon
  <2> HIDE DEF R, u, b
  <2>3. SameTube([m EXCEPT !.dispatchable = b], ts) /\ [m EXCEPT !.dispatchable = b].ready = R
    BY <1>1, Zenon
  <2> QED BY <2>1, <2>2, <2>3, Zenon
<1>7. /\ SameTube(add_delayed(ts, p, id), ts) /\ add_delayed(ts, p, id).ready = ts.ready
      /\ SameTube(drop_delayed(ts, p, id), ts) /\ drop_delayed(ts, p, id).ready = ts.ready
  BY <1>2, ZenonT(60) DEF add_delayed, drop_delayed, refresh_delay_head
<1>8. /\ SameTube(add_buried(ts, id), ts) /\ add_buried(ts, id).ready = ts.ready
      /\ SameTube(drop_buried(ts, id), ts) /\ drop_buried(ts, id).ready = ts.ready
  BY <1>3, Zenon DEF add_buried, drop_buried
<1> QED BY ONLY <1>4, <1>5, <1>6, <1>7, <1>8, Zenon

\* A job put into a container of its tube.
LEMMA InsertsStill ==
    ASSUME NEW s, Shaped(s), NEW t, NEW id, NEW deadline
    PROVE  /\ Still(s, insert_ready(s, t, id))
           /\ LET r == insert_delayed(s, t, id, deadline) IN Still(s, r) /\ NoneReady(s, r)
           /\ LET r == insert_buried(s, t, id) IN Still(s, r) /\ NoneReady(s, r)
<1> DEFINE p == s.jobs[id].pri
<1>0. ASSUME t \in DOMAIN s.tubes
      PROVE  LET ts == s.tubes[t]
             IN  /\ SameTube(add_ready(ts, p, id), ts)
                 /\ SameTube(add_delayed(ts, deadline, id), ts)
                 /\ add_delayed(ts, deadline, id).ready = ts.ready
                 /\ SameTube(add_buried(ts, id), ts) /\ add_buried(ts, id).ready = ts.ready
  BY <1>0, TubeEdits DEF Shaped
<1>1. Still(s, insert_ready(s, t, id))
  <2> DEFINE r == insert_ready(s, t, id)
             T == add_ready(s.tubes[t], p, id)
  <2>1. /\ {"tubes", "tube_order", "conns"} \subseteq DOMAIN r
        /\ r.tubes = [s.tubes EXCEPT ![t] = T] /\ r.conns = s.conns /\ r.tube_order = s.tube_order
    <3> HIDE DEF T
    <3> QED BY Zenon DEF Shaped, insert_ready, T
  <2>2. t \in DOMAIN s.tubes => SameTube(T, s.tubes[t])
    BY <1>0, Zenon
  <2> HIDE DEF r, T
  <2> QED BY <2>1, <2>2, OneTube, Zenon DEF r
<1>2. LET r == insert_delayed(s, t, id, deadline) IN Still(s, r) /\ NoneReady(s, r)
  <2> DEFINE r == insert_delayed(s, t, id, deadline)
             T == add_delayed(s.tubes[t], deadline, id)
  <2>1. /\ {"tubes", "tube_order", "conns"} \subseteq DOMAIN r
        /\ r.tubes = [s.tubes EXCEPT ![t] = T] /\ r.conns = s.conns /\ r.tube_order = s.tube_order
    BY Zenon DEF Shaped, insert_delayed
  <2>2. t \in DOMAIN s.tubes => SameTube(T, s.tubes[t]) /\ T.ready = s.tubes[t].ready
    BY <1>0, Zenon
  <2> HIDE DEF r, T
  <2> QED BY <2>1, <2>2, OneTube, ZenonT(60) DEF r
<1>3. LET r == insert_buried(s, t, id) IN Still(s, r) /\ NoneReady(s, r)
  <2> DEFINE r == insert_buried(s, t, id)
             T == add_buried(s.tubes[t], id)
  <2>1. /\ {"tubes", "tube_order", "conns"} \subseteq DOMAIN r
        /\ r.tubes = [s.tubes EXCEPT ![t] = T] /\ r.conns = s.conns /\ r.tube_order = s.tube_order
    BY Zenon DEF Shaped, insert_buried
  <2>2. t \in DOMAIN s.tubes => SameTube(T, s.tubes[t]) /\ T.ready = s.tubes[t].ready
    BY <1>0, Zenon
  <2> HIDE DEF r, T
  <2> QED BY <2>1, <2>2, OneTube DEF r
<1> QED BY <1>1, <1>2, <1>3, Zenon

\* A job taken out of the container it is queued in.
LEMMA RemovesStill ==
    ASSUME NEW s, Shaped(s), NEW t, NEW id
    PROVE  /\ LET r == remove_ready(s, t, id) IN Still(s, r) /\ NoneReady(s, r)
           /\ LET r == remove_delayed(s, t, id) IN Still(s, r) /\ NoneReady(s, r)
           /\ LET r == remove_buried(s, t, id) IN Still(s, r) /\ NoneReady(s, r)
<1> DEFINE p == s.jobs[id].pri
           d == s.jobs[id].deadline_at
<1>0. ASSUME t \in DOMAIN s.tubes
      PROVE  LET ts == s.tubes[t]
             IN  /\ SameTube(drop_ready(ts, p, id), ts) /\ drop_ready(ts, p, id).ready \subseteq ts.ready
                 /\ SameTube(drop_delayed(ts, d, id), ts) /\ drop_delayed(ts, d, id).ready = ts.ready
                 /\ SameTube(drop_buried(ts, id), ts) /\ drop_buried(ts, id).ready = ts.ready
  BY <1>0, TubeEdits DEF Shaped
<1>1. LET r == remove_ready(s, t, id) IN Still(s, r) /\ NoneReady(s, r)
  <2> DEFINE r == remove_ready(s, t, id)
             T == drop_ready(s.tubes[t], p, id)
  <2>1. /\ {"tubes", "tube_order", "conns"} \subseteq DOMAIN r
        /\ r.tubes = [s.tubes EXCEPT ![t] = T] /\ r.conns = s.conns /\ r.tube_order = s.tube_order
    BY Zenon DEF Shaped, remove_ready
  <2>2. t \in DOMAIN s.tubes => SameTube(T, s.tubes[t]) /\ T.ready \subseteq s.tubes[t].ready
    BY <1>0, Zenon
  <2> HIDE DEF r, T
  <2> QED BY <2>1, <2>2, OneTube DEF r
<1>2. LET r == remove_delayed(s, t, id) IN Still(s, r) /\ NoneReady(s, r)
  <2> DEFINE r == remove_delayed(s, t, id)
             T == drop_delayed(s.tubes[t], d, id)
  <2>1. /\ {"tubes", "tube_order", "conns"} \subseteq DOMAIN r
        /\ r.tubes = [s.tubes EXCEPT ![t] = T] /\ r.conns = s.conns /\ r.tube_order = s.tube_order
    BY Zenon DEF Shaped, remove_delayed
  <2>2. t \in DOMAIN s.tubes => SameTube(T, s.tubes[t]) /\ T.ready = s.tubes[t].ready
    BY <1>0, Zenon
  <2> HIDE DEF r, T
  <2> QED BY <2>1, <2>2, OneTube DEF r
<1>3. LET r == remove_buried(s, t, id) IN Still(s, r) /\ NoneReady(s, r)
  <2> DEFINE r == remove_buried(s, t, id)
             T == drop_buried(s.tubes[t], id)
  <2>1. /\ {"tubes", "tube_order", "conns"} \subseteq DOMAIN r
        /\ r.tubes = [s.tubes EXCEPT ![t] = T] /\ r.conns = s.conns /\ r.tube_order = s.tube_order
    BY Zenon DEF Shaped, remove_buried
  <2>2. t \in DOMAIN s.tubes => SameTube(T, s.tubes[t]) /\ T.ready = s.tubes[t].ready
    BY <1>0, Zenon
  <2> HIDE DEF r, T
  <2> QED BY <2>1, <2>2, OneTube DEF r
<1> QED BY <1>1, <1>2, <1>3, Zenon

\* The same, by the state of the job.
LEMMA RemoveQueuedStill ==
    ASSUME NEW s, Shaped(s), NEW id, s.jobs[id].state \in {"ready", "delayed", "buried"}
    PROVE  LET r == remove_queued(s, id) IN Still(s, r) /\ NoneReady(s, r)
<1> DEFINE t == s.jobs[id].tube
<1>1. remove_queued(s, id) \in {remove_ready(s, t, id), remove_delayed(s, t, id), remove_buried(s, t, id)}
  BY Zenon DEF remove_queued
<1> QED BY <1>1, RemovesStill, Zenon

\* One tube and one connection change, and nothing that their keys say.
EachEdited(s, r, t, T, c, C) ==
    /\ {"tubes", "tube_order", "conns"} \subseteq DOMAIN r
    /\ r.tubes = [s.tubes EXCEPT ![t] = T] /\ r.conns = [s.conns EXCEPT ![c] = C]
    /\ r.tube_order = s.tube_order
    /\ t \in DOMAIN s.tubes => SameTube(T, s.tubes[t]) /\ T.ready = s.tubes[t].ready
    /\ c \in DOMAIN s.conns => SameConn(C, s.conns[c])

\* That is a still update.
LEMMA OneOfEach ==
    ASSUME NEW s, Shaped(s), NEW r, NEW t, NEW T, NEW c, NEW C, EachEdited(s, r, t, T, c, C)
    PROVE  Still(s, r) /\ NoneReady(s, r)
<1>1. \A d \in DOMAIN s.conns : SameConn(s.conns[d], s.conns[d])
  BY Zenon DEF Shaped, SameConn
<1>2. \A u \in DOMAIN s.tubes : SameTube(s.tubes[u], s.tubes[u])
  BY Zenon DEF Shaped, SameTube, SameRefs
<1> QED BY <1>1, <1>2, Zenon DEF Still, NoneReady, EachEdited

\* Only one connection changes.
LEMMA OneConn ==
    ASSUME NEW s, Shaped(s), NEW r, NEW c, NEW C,
           {"tubes", "tube_order", "conns"} \subseteq DOMAIN r,
           r.tubes = s.tubes, r.conns = [s.conns EXCEPT ![c] = C], r.tube_order = s.tube_order,
           c \in DOMAIN s.conns => SameConn(C, s.conns[c])
    PROVE  Still(s, r) /\ NoneReady(s, r)
<1>1. \A d \in DOMAIN s.conns : SameConn(s.conns[d], s.conns[d])
  BY Zenon DEF Shaped, SameConn
<1>2. \A u \in DOMAIN s.tubes : SameTube(s.tubes[u], s.tubes[u])
  BY Zenon DEF Shaped, SameTube, SameRefs
<1> QED BY <1>1, <1>2, Zenon DEF Still, NoneReady

\* A reservation begins, ends or is prolonged (do_reserve, do_unreserve, touch).
LEMMA ReservesStill ==
    ASSUME NEW s, Shaped(s), NEW c, NEW id, NEW at
    PROVE  /\ LET r == do_reserve(s, c, id, at) IN Still(s, r) /\ NoneReady(s, r)
           /\ LET r == do_unreserve(s, c, id) IN Still(s, r) /\ NoneReady(s, r)
           /\ LET r == cmd_touch(s, c, id, at) IN Still(s, r) /\ NoneReady(s, r)
<1> DEFINE t == s.jobs[id].tube
           old == s.jobs[id].deadline_at
           new == at + s.jobs[id].ttr * NanosPerSec
<1>0. ASSUME c \in DOMAIN s.conns
      PROVE  LET cs == s.conns[c]
             IN  /\ SameConn(hold(cs, new, id), cs) /\ SameConn(unhold(cs, old, id), cs)
                 /\ SameConn(rehold(cs, old, new, id), cs)
  <2> HIDE DEF old, new
  <2> QED BY <1>0, ConnEdits, Zenon DEF Shaped
<1>1. ASSUME t \in DOMAIN s.tubes, NEW n
      PROVE  LET T == count_reserved(s.tubes[t], n)
             IN  SameTube(T, s.tubes[t]) /\ T.ready = s.tubes[t].ready
  BY <1>1, TubeEdits, Zenon DEF Shaped
<1>2. LET r == do_reserve(s, c, id, at) IN Still(s, r) /\ NoneReady(s, r)
  <2> DEFINE r == do_reserve(s, c, id, at)
             n == s.tubes[t].reserved_ct + 1
             T == count_reserved(s.tubes[t], n)
             C == hold(s.conns[c], new, id)
  <2>1. /\ {"tubes", "tube_order", "conns"} \subseteq DOMAIN r
        /\ r.tubes = [s.tubes EXCEPT ![t] = T] /\ r.conns = [s.conns EXCEPT ![c] = C]
        /\ r.tube_order = s.tube_order
    BY Zenon DEF Shaped, do_reserve
  <2>2. t \in DOMAIN s.tubes => SameTube(T, s.tubes[t]) /\ T.ready = s.tubes[t].ready
    BY <1>1, Zenon
  <2>3. c \in DOMAIN s.conns => SameConn(C, s.conns[c])
    BY <1>0, Zenon
  <2> HIDE DEF r, T, C, t
  <2>4. EachEdited(s, r, t, T, c, C)
    BY <2>1, <2>2, <2>3, Zenon DEF EachEdited
  <2> QED BY <2>4, OneOfEach, Zenon DEF r
<1>3. LET r == do_unreserve(s, c, id) IN Still(s, r) /\ NoneReady(s, r)
  <2> DEFINE r == do_unreserve(s, c, id)
             n == saturating_sub(s.tubes[t].reserved_ct, 1)
             T == count_reserved(s.tubes[t], n)
             C == unhold(s.conns[c], old, id)
  <2>1. /\ {"tubes", "tube_order", "conns"} \subseteq DOMAIN r
        /\ r.tubes = [s.tubes EXCEPT ![t] = T] /\ r.conns = [s.conns EXCEPT ![c] = C]
        /\ r.tube_order = s.tube_order
    BY Zenon DEF Shaped, do_unreserve
  <2>2. t \in DOMAIN s.tubes => SameTube(T, s.tubes[t]) /\ T.ready = s.tubes[t].ready
    BY <1>1, Zenon
  <2>3. c \in DOMAIN s.conns => SameConn(C, s.conns[c])
    BY <1>0, Zenon
  <2> HIDE DEF r, T, C, t
  <2>4. EachEdited(s, r, t, T, c, C)
    BY <2>1, <2>2, <2>3, Zenon DEF EachEdited
  <2> QED BY <2>4, OneOfEach, Zenon DEF r
<1>4. LET r == cmd_touch(s, c, id, at) IN Still(s, r) /\ NoneReady(s, r)
  <2> DEFINE r == cmd_touch(s, c, id, at)
             C == rehold(s.conns[c], old, new, id)
  <2>1. /\ {"tubes", "tube_order", "conns"} \subseteq DOMAIN r
        /\ r.tubes = s.tubes /\ r.conns = [s.conns EXCEPT ![c] = C] /\ r.tube_order = s.tube_order
    BY Zenon DEF Shaped, cmd_touch
  <2>2. c \in DOMAIN s.conns => SameConn(C, s.conns[c])
    BY <1>0, Zenon
  <2> HIDE DEF r, C
  <2> QED BY <2>1, <2>2, OneConn, Zenon DEF r
<1> QED BY <1>2, <1>3, <1>4, Zenon

\* The parts of a connection that say nothing of its wait.
LEMMA PlainConn ==
    ASSUME NEW cs, ConnKeys \subseteq DOMAIN cs, NEW x
    PROVE  /\ SameConn([cs EXCEPT !.owed = x], cs)
           /\ SameConn([cs EXCEPT !.pending_put = x], cs)
<1>1. ASSUME NEW C, DOMAIN C = DOMAIN cs, C.watch = cs.watch, C.waiting = cs.waiting,
             C.wait_deadline = cs.wait_deadline, C.reserved_by_deadline = cs.reserved_by_deadline,
             C.tick_key = cs.tick_key
      PROVE  SameConn(C, cs)
  BY <1>1, ZenonT(30) DEF SameConn, Timed, conn_tickat, soonest_reserved
<1> QED BY <1>1, Zenon DEF ConnKeys

\* Replies, accepted commands, ids and the journal.
LEMMA PlainStill ==
    ASSUME NEW s, Shaped(s), NEW c, NEW id, NEW x
    PROVE  /\ LET r == reply(s, c) IN Still(s, r) /\ NoneReady(s, r)
           /\ LET r == accept(s, c) IN Still(s, r) /\ NoneReady(s, r)
           /\ LET r == [s EXCEPT !.conns[c].pending_put = x] IN Still(s, r) /\ NoneReady(s, r)
           /\ LET r == allocate_id(s) IN Still(s, r) /\ NoneReady(s, r)
           /\ LET r == push_journal(s, x) IN Still(s, r) /\ NoneReady(s, r)
           /\ LET r == [s EXCEPT !.jobs[id].pri = x] IN Still(s, r) /\ NoneReady(s, r)
           /\ LET r == [s EXCEPT !.draining = x] IN Still(s, r) /\ NoneReady(s, r)
<1>1. ASSUME NEW r, {"tubes", "tube_order", "conns"} \subseteq DOMAIN r,
             r.tubes = s.tubes, r.conns = s.conns, r.tube_order = s.tube_order
      PROVE  Still(s, r) /\ NoneReady(s, r)
  BY <1>1, StillTrans, Zenon DEF Still, NoneReady
<1>2. ASSUME NEW n
      PROVE  LET r == [s EXCEPT !.conns[c].owed = n] IN Still(s, r) /\ NoneReady(s, r)
  <2> DEFINE C == [s.conns[c] EXCEPT !.owed = n]
             r == [s EXCEPT !.conns[c].owed = n]
  <2>1. /\ {"tubes", "tube_order", "conns"} \subseteq DOMAIN r
        /\ r.tubes = s.tubes /\ r.conns = [s.conns EXCEPT ![c] = C] /\ r.tube_order = s.tube_order
    BY Zenon DEF Shaped
  <2>2. c \in DOMAIN s.conns => SameConn(C, s.conns[c])
    BY PlainConn, Zenon DEF Shaped
  <2> HIDE DEF r, C
  <2> QED BY <2>1, <2>2, OneConn, Zenon DEF r
<1>3. LET r == [s EXCEPT !.conns[c].pending_put = x] IN Still(s, r) /\ NoneReady(s, r)
  <2> DEFINE C == [s.conns[c] EXCEPT !.pending_put = x]
             r == [s EXCEPT !.conns[c].pending_put = x]
  <2>1. /\ {"tubes", "tube_order", "conns"} \subseteq DOMAIN r
        /\ r.tubes = s.tubes /\ r.conns = [s.conns EXCEPT ![c] = C] /\ r.tube_order = s.tube_order
    BY Zenon DEF Shaped
  <2>2. c \in DOMAIN s.conns => SameConn(C, s.conns[c])
    BY PlainConn, Zenon DEF Shaped
  <2> HIDE DEF r, C
  <2> QED BY <2>1, <2>2, OneConn, Zenon DEF r
<1>4. LET r == reply(s, c) IN Still(s, r) /\ NoneReady(s, r)
  BY <1>2, Zenon DEF reply
<1>5. LET r == accept(s, c) IN Still(s, r) /\ NoneReady(s, r)
  BY <1>2, Zenon DEF accept
<1>6. /\ LET r == allocate_id(s) IN Still(s, r) /\ NoneReady(s, r)
      /\ LET r == [s EXCEPT !.jobs[id].pri = x] IN Still(s, r) /\ NoneReady(s, r)
      /\ LET r == [s EXCEPT !.draining = x] IN Still(s, r) /\ NoneReady(s, r)
  BY <1>1 DEF allocate_id, Shaped
<1>7. LET r == push_journal(s, x) IN Still(s, r) /\ NoneReady(s, r)
  BY <1>1 DEF push_journal, Shaped
<1> QED BY <1>3, <1>4, <1>5, <1>6, <1>7, Zenon

\* The commands on a job, and a job given back by a timeout or a disconnect.
LEMMA JobCallsStill ==
    ASSUME NEW s, Shaped(s), NEW c, NEW id, NEW pri, NEW delay \in Nat, NEW at
    PROVE  /\ Still(s, give_back(s, c, id)) /\ Still(s, cmd_release(s, c, id, pri, delay, at))
           /\ LET r == cmd_bury(s, c, id, pri) IN Still(s, r) /\ NoneReady(s, r)
           /\ s.jobs[id].state \in {"ready", "delayed", "buried"}
                => /\ Still(s, kick_to_ready(s, id))
                   /\ LET r == do_reserve(remove_queued(s, id), c, id, at)
                      IN  Still(s, r) /\ NoneReady(s, r)
<1> DEFINE t == s.jobs[id].tube
           x == do_unreserve(s, c, id)
           y == [x EXCEPT !.jobs[id].pri = pri]
           e == enqueue(y, t, id, delay, at)
           b == insert_buried(y, t, id)
           q == remove_queued(s, id)
           k == insert_ready(q, t, id)
<1>1. Still(s, x) /\ NoneReady(s, x) /\ Shaped(x)
  BY ReservesStill, StillTrans, Zenon
<1>2. Still(s, give_back(s, c, id))
  <2> HIDE DEF x
  <2>1. Still(x, insert_ready(x, t, id))
    BY <1>1, InsertsStill, Zenon
  <2> QED BY <1>1, <2>1, StillTrans DEF give_back, x
<1>3. Still(s, y) /\ NoneReady(s, y) /\ Shaped(y)
  <2> HIDE DEF x
  <2>1. Still(x, y) /\ NoneReady(x, y)
    BY <1>1, PlainStill, Zenon
  <2> QED BY <1>1, <2>1, StillTrans
<1>4. Still(s, e) /\ Shaped(e)
  <2> HIDE DEF y
  <2>1. Still(y, e)
    BY <1>3, InsertsStill, Zenon DEF enqueue
  <2> QED BY <1>3, <2>1, StillTrans
<1>5. Still(s, cmd_release(s, c, id, pri, delay, at))
  <2>1. cmd_release(s, c, id, pri, delay, at) \in {journal_update(e, id), e}
    BY Zenon DEF cmd_release
  <2> HIDE DEF e
  <2>2. Still(e, journal_update(e, id))
    BY <1>4, PlainStill, Zenon DEF journal_update
  <2> QED BY <1>4, <2>1, <2>2, StillTrans, ZenonT(30)
<1>6. LET r == cmd_bury(s, c, id, pri) IN Still(s, r) /\ NoneReady(s, r)
  <2>1. cmd_bury(s, c, id, pri) = journal_update(b, id)
    BY Zenon DEF cmd_bury
  <2>2. Still(s, b) /\ NoneReady(s, b) /\ Shaped(b)
    <3> HIDE DEF y
    <3>1. Still(y, b) /\ NoneReady(y, b)
      BY <1>3, InsertsStill, Zenon
    <3> QED BY <1>3, <3>1, StillTrans
  <2> HIDE DEF b
  <2>3. Still(b, journal_update(b, id)) /\ NoneReady(b, journal_update(b, id))
    BY <2>2, PlainStill, Zenon DEF journal_update
  <2> QED BY <2>1, <2>2, <2>3, StillTrans, SMTT(30)
<1>7. ASSUME s.jobs[id].state \in {"ready", "delayed", "buried"}
      PROVE  /\ Still(s, kick_to_ready(s, id))
             /\ LET r == do_reserve(remove_queued(s, id), c, id, at)
                IN  Still(s, r) /\ NoneReady(s, r)
  <2>1. Still(s, q) /\ NoneReady(s, q) /\ Shaped(q)
    BY <1>7, RemoveQueuedStill, StillTrans
  <2>2. kick_to_ready(s, id) = journal_update(k, id)
    BY Zenon DEF kick_to_ready
  <2> HIDE DEF q
  <2>3. Still(s, k) /\ Shaped(k)
    <3>1. Still(q, k)
      BY <2>1, InsertsStill, Zenon
    <3> QED BY <2>1, <3>1, StillTrans
  <2>4. Still(q, do_reserve(q, c, id, at)) /\ NoneReady(q, do_reserve(q, c, id, at))
    BY <2>1, ReservesStill, Zenon
  <2> HIDE DEF k
  <2>5. Still(k, journal_update(k, id))
    BY <2>3, PlainStill, Zenon DEF journal_update
  <2>6. Still(s, journal_update(k, id))
    BY <2>3, <2>5, StillTrans, Zenon
  <2>7. Still(s, do_reserve(q, c, id, at)) /\ NoneReady(s, do_reserve(q, c, id, at))
    BY <2>1, <2>4, StillTrans, Zenon
  <2> QED BY <2>2, <2>6, <2>7, Zenon DEF q
<1> QED BY <1>2, <1>5, <1>6, <1>7, Zenon

\* A put that begins, is refused, or is discarded while the server drains.
LEMMA PutCallsStill ==
    ASSUME NEW s, Shaped(s), NEW c, NEW why, NEW too_big \in BOOLEAN
    PROVE  /\ LET r == put_started(s, c, too_big) IN Still(s, r) /\ NoneReady(s, r)
           /\ LET r == put_rejected(s, c, why) IN Still(s, r) /\ NoneReady(s, r)
           /\ LET r == take_pending(s, c) IN Still(s, r) /\ NoneReady(s, r)
           /\ LET r == reply(accept(s, c), c) IN Still(s, r) /\ NoneReady(s, r)
<1> DEFINE a == allocate_id(s)
<1>1. Still(s, a) /\ NoneReady(s, a) /\ Shaped(a)
  BY PlainStill, StillTrans, Zenon
<1>2. ASSUME NEW x \in {s, a}, NEW n
      PROVE  LET r == [x EXCEPT !.conns[c].pending_put = n]
             IN  Still(s, r) /\ NoneReady(s, r) /\ Shaped(r)
  <2> HIDE DEF a
  <2>1. Still(s, x) /\ NoneReady(s, x) /\ Shaped(x)
    BY <1>1, StillTrans, Zenon
  <2> DEFINE r == [x EXCEPT !.conns[c].pending_put = n]
  <2>2. Still(x, r) /\ NoneReady(x, r)
    BY <2>1, PlainStill, Zenon
  <2> HIDE DEF r
  <2> QED BY <2>1, <2>2, StillTrans DEF r
<1>3. ASSUME NEW x, Shaped(x)
      PROVE  LET r == reply(accept(x, c), c) IN Still(x, r) /\ NoneReady(x, r)
  <2> DEFINE y == accept(x, c)
  <2>1. Still(x, y) /\ NoneReady(x, y) /\ Shaped(y)
    BY <1>3, PlainStill, StillTrans, Zenon
  <2> HIDE DEF y
  <2>2. Still(y, reply(y, c)) /\ NoneReady(y, reply(y, c))
    BY <2>1, PlainStill, Zenon
  <2>3. Still(x, reply(y, c)) /\ NoneReady(x, reply(y, c))
    BY <1>3, <2>1, <2>2, StillTrans, Zenon
  <2> QED BY <2>3, Zenon DEF y
<1>4. LET r == put_started(s, c, too_big) IN Still(s, r) /\ NoneReady(s, r)
  BY <1>2, Zenon DEF put_started
<1>5. LET r == take_pending(s, c) IN Still(s, r) /\ NoneReady(s, r)
  BY <1>2, Zenon DEF take_pending
<1>6. LET r == put_rejected(s, c, why) IN Still(s, r) /\ NoneReady(s, r)
  <2>1. PICK x \in {s, a} :
          put_rejected(s, c, why) = reply(accept([x EXCEPT !.conns[c].pending_put = None], c), c)
    BY Zenon DEF put_rejected
  <2> DEFINE y == [x EXCEPT !.conns[c].pending_put = None]
  <2>2. Still(s, y) /\ NoneReady(s, y) /\ Shaped(y)
    BY <1>2, Zenon
  <2> HIDE DEF y
  <2>3. LET r == reply(accept(y, c), c) IN Still(y, r) /\ NoneReady(y, r)
    BY <1>3, <2>2, Zenon
  <2>4. LET r == reply(accept(y, c), c) IN Still(s, r) /\ NoneReady(s, r)
    BY <2>2, <2>3, StillTrans, Zenon
  <2> QED BY <2>1, <2>4, Zenon DEF y
<1> QED BY <1>3, <1>4, <1>5, <1>6, Zenon
-----------------------------------------------------------------------------
(* Who watches, who waits, and which timers run.                           *)

\* A still update keeps all of this.
LEMMA StillKeeps ==
    ASSUME NEW s, NEW r, Still(s, r), NEW w, NEW x
    PROVE  /\ Watched(s, w, x) => Watched(r, w, x)
           /\ Registered(s) => Registered(r)
           /\ Ticked(s) => Ticked(r)
           /\ NoneReady(s, r) => Wanting(r) \subseteq Wanting(s)
<1>1. \A t : Watchers(r, t) = Watchers(s, t)
  BY Zenon DEF Watchers, Still, SameConn
<1>2. Watched(s, w, x) => Watched(r, w, x)
  <2>1. \A c \in DOMAIN s.conns : r.conns[c].watch = s.conns[c].watch
    BY Zenon DEF Still, SameConn
  <2>2. \A t \in DOMAIN s.tubes :
          /\ r.tubes[t].using_ct = s.tubes[t].using_ct /\ r.tubes[t].job_ref_ct = s.tubes[t].job_ref_ct
          /\ r.tubes[t].watching_ct = s.tubes[t].watching_ct /\ refs(r.tubes[t]) = refs(s.tubes[t])
    BY Zenon DEF Still, SameTube, SameRefs, refs
  <2>3. DOMAIN r.tubes = DOMAIN s.tubes /\ DOMAIN r.conns = DOMAIN s.conns
        /\ r.tube_order = s.tube_order
    BY Zenon DEF Still
  <2> QED BY ONLY <1>1, <2>1, <2>2, <2>3, Zenon DEF Watched, Ordered, WatchesLive, Counted
<1>3. Registered(s) => Registered(r)
  BY Zenon DEF Registered, Still, SameTube, SameConn
<1>4. Ticked(s) => Ticked(r)
  BY Zenon DEF Ticked, Still, SameConn
<1>5. NoneReady(s, r) => Wanting(r) \subseteq Wanting(s)
  BY Zenon DEF NoneReady, Wanting, Still, SameTube
<1> QED BY <1>2, <1>3, <1>4, <1>5, Zenon
-----------------------------------------------------------------------------
(* Tubes and connections come and go, and connections watch and use tubes. *)

\* A tube has the same waiters, ready jobs and pause.
SameQueue(T, ts) ==
    /\ T.waiting_conns = ts.waiting_conns /\ T.ready = ts.ready /\ T.unpause_at = ts.unpause_at

\* Nobody begins to wait, whoever waits watches what it did, and the tubes that
\* were not there before have no jobs and nobody waits for them.
Moved(s, r) ==
    /\ Shaped(r)
    /\ Ticked(s) => Ticked(r)
    /\ \A d \in DOMAIN r.conns :
         r.conns[d].waiting => /\ d \in DOMAIN s.conns /\ s.conns[d].waiting
                               /\ r.conns[d].watch = s.conns[d].watch
    /\ \A u \in DOMAIN r.tubes :
         \/ u \in DOMAIN s.tubes /\ SameQueue(r.tubes[u], s.tubes[u])
         \/ /\ r.tubes[u].ready = {}
            /\ \A d \in DOMAIN r.conns : r.conns[d].waiting => u \notin Range(r.conns[d].watch)

\* Such updates keep the registrations and give no tube something to serve.
LEMMA MovedKeeps ==
    ASSUME NEW s, NEW r, Moved(s, r)
    PROVE  /\ Registered(s) => Registered(r)
           /\ Ticked(s) => Ticked(r)
           /\ Wanting(r) \subseteq Wanting(s)
<1>1. Registered(s) => Registered(r)
  BY Zenon DEF Moved, Registered, SameQueue
<1>2. Wanting(r) \subseteq Wanting(s)
  BY Zenon DEF Moved, Wanting, SameQueue
<1> QED BY <1>1, <1>2, Zenon DEF Moved

\* They compose.
LEMMA MovedTrans ==
    ASSUME NEW s, NEW r, NEW q, Moved(s, r), Moved(r, q)
    PROVE  Moved(s, q)
<1>1. Shaped(q) /\ (Ticked(s) => Ticked(q))
  BY Zenon DEF Moved
<1>2. \A d \in DOMAIN q.conns :
         q.conns[d].waiting => /\ d \in DOMAIN s.conns /\ s.conns[d].waiting
                               /\ q.conns[d].watch = s.conns[d].watch
  BY Zenon DEF Moved
<1>3. ASSUME NEW u \in DOMAIN q.tubes
      PROVE  \/ u \in DOMAIN s.tubes /\ SameQueue(q.tubes[u], s.tubes[u])
             \/ /\ q.tubes[u].ready = {}
                /\ \A d \in DOMAIN q.conns : q.conns[d].waiting => u \notin Range(q.conns[d].watch)
  BY <1>3, Zenon DEF Moved, SameQueue
<1> QED BY <1>1, <1>2, <1>3, Zenon DEF Moved

\* The reference counts of a tube change.
LEMMA CountsMoved ==
    ASSUME NEW s, Shaped(s), NEW r, NEW t, NEW T, {"tubes", "tube_order", "conns"} \subseteq DOMAIN r,
           r.tubes = [s.tubes EXCEPT ![t] = T], r.conns = s.conns,
           t \in DOMAIN s.tubes => TubeKeys \subseteq DOMAIN T /\ SameQueue(T, s.tubes[t])
    PROVE  Moved(s, r)
<1>1. Shaped(r) /\ (Ticked(s) => Ticked(r))
  BY Zenon DEF Shaped, Ticked
<1>2. \A u \in DOMAIN r.tubes : u \in DOMAIN s.tubes /\ SameQueue(r.tubes[u], s.tubes[u])
  BY Zenon DEF SameQueue
<1> QED BY <1>1, <1>2, Zenon DEF Moved

\* A connection that does not wait watches or uses other tubes.
LEMMA ConnMoves ==
    ASSUME NEW s, Shaped(s), NEW r, NEW c \in DOMAIN s.conns, NEW C,
           {"tubes", "tube_order", "conns"} \subseteq DOMAIN r,
           r.tubes = s.tubes, r.conns = [s.conns EXCEPT ![c] = C],
           ConnKeys \subseteq DOMAIN C, ~C.waiting, Timed(s.conns[c]) => Timed(C)
    PROVE  Moved(s, r)
<1>1. Shaped(r) /\ (Ticked(s) => Ticked(r))
  BY Zenon DEF Shaped, Ticked
<1>2. \A u \in DOMAIN r.tubes : u \in DOMAIN s.tubes /\ SameQueue(r.tubes[u], s.tubes[u])
  BY Zenon DEF SameQueue
<1> QED BY <1>1, <1>2, Zenon DEF Moved

\* The list of tubes when one is made,
LEMMA OrderGrows ==
    ASSUME NEW q \in Seq(TubeNames), IsInjective(q), q # <<>>, NEW t \in TubeNames, t \notin Range(q)
    PROVE  LET p == Append(q, t)
           IN  /\ p \in Seq(TubeNames) /\ IsInjective(p) /\ p # <<>> /\ p[1] = q[1]
               /\ Range(p) = Range(q) \cup {t}
<1>1. /\ Append(q, t) \in Seq(TubeNames) /\ Range(Append(q, t)) = Range(q) \cup {t}
      /\ IsInjective(Append(q, t))
  BY AppendNew
<1>2. Append(q, t) # <<>> /\ Append(q, t)[1] = q[1]
  OBVIOUS
<1> QED BY <1>1, <1>2, Zenon

\* and when one other than the first is collected.
LEMMA OrderShrinks ==
    ASSUME NEW q \in Seq(TubeNames), IsInjective(q), q # <<>>, NEW t, t # q[1]
    PROVE  LET p == list_swap_remove(q, t)
           IN  /\ p \in Seq(TubeNames) /\ IsInjective(p) /\ p # <<>> /\ p[1] = q[1]
               /\ Range(p) = Range(q) \ {t}
<1> DEFINE p == list_swap_remove(q, t)
           i == position(q, t)
<1>1. p \in Seq(TubeNames) /\ IsInjective(p) /\ Range(p) = Range(q) \ {t}
  BY ListSwapRemove, Zenon
<1>2. CASE t \notin Range(q)
  BY <1>1, <1>2, Zenon DEF list_swap_remove
<1>3. CASE t \in Range(q)
  <2>1. i \in 1..Len(q) /\ q[i] = t
    BY <1>3, PositionFound, Zenon
  <2>2. p = swap_remove(q, i)
    BY <1>3, Zenon DEF list_swap_remove
  <2> HIDE DEF i
  <2>3. i # 1 /\ Len(q) \in Nat /\ Len(q) >= 2
    BY <2>1
  <2>4. p[1] = q[1] /\ Len(p) = Len(q) - 1
    BY <2>2, <2>3 DEF swap_remove
  <2> HIDE DEF p
  <2>5. p # <<>>
    BY <2>3, <2>4, <1>1, SMTT(30)
  <2> QED BY <1>1, <2>4, <2>5, Zenon DEF p
<1> QED BY <1>2, <1>3, Zenon

\* A tube is made for a name that has none.
LEMMA MakeWatched ==
    ASSUME Laws, NEW s, Shaped(s), NEW w, NEW x, Watched(s, w, x), NEW t \in TubeNames
    PROVE  LET r == find_or_make_tube(s, t)
           IN  /\ Watched(r, w, x \cup {t}) /\ Moved(s, r) /\ r.conns = s.conns
               /\ t \in DOMAIN r.tubes /\ DOMAIN s.tubes \subseteq DOMAIN r.tubes
<1>1. CASE t \in DOMAIN s.tubes
  <2>1. find_or_make_tube(s, t) = s
    BY <1>1, Zenon DEF find_or_make_tube
  <2>2. Watched(s, w, x \cup {t})
    BY Zenon DEF Watched, Counted
  <2>3. Moved(s, s)
    BY Zenon DEF Moved, SameQueue
  <2> QED BY <1>1, <2>1, <2>2, <2>3, Zenon
<1>2. CASE t \notin DOMAIN s.tubes
  <2> DEFINE r == find_or_make_tube(s, t)
             q == Append(s.tube_order, t)
  <2>1. /\ {"tubes", "tube_order", "conns"} \subseteq DOMAIN r
        /\ r.conns = s.conns /\ r.tube_order = q /\ DOMAIN r.tubes = DOMAIN s.tubes \cup {t}
        /\ r.tubes[t] = NewTube /\ \A u \in DOMAIN s.tubes : r.tubes[u] = s.tubes[u]
    BY <1>2, Zenon DEF find_or_make_tube, with_entry, Shaped
  <2>2. /\ q \in Seq(TubeNames) /\ IsInjective(q) /\ q # <<>> /\ q[1] = DefaultTube
        /\ Range(q) = Range(s.tube_order) \cup {t}
    BY <1>2, OrderGrows, Zenon DEF Watched, Ordered
  <2> HIDE DEF r, q
  <2>3. /\ TubeKeys \subseteq DOMAIN NewTube /\ NewTube.ready = {} /\ NewTube.using_ct = 0
        /\ NewTube.watching_ct = 0 /\ NewTube.job_ref_ct = 0
    BY Zenon DEF NewTube, TubeKeys
  <2>4. Moved(s, r)
    <3>1. Shaped(r) /\ (Ticked(s) => Ticked(r))
      BY <2>1, <2>3, Zenon DEF Shaped, Ticked
    <3>2. \A d \in DOMAIN r.conns : t \notin Range(r.conns[d].watch)
      BY <1>2, <2>1, Zenon DEF Watched, WatchesLive
    <3> QED BY <2>1, <2>3, <3>1, <3>2, ZenonT(60) DEF Moved, SameQueue
  <2>5. \A u : Watchers(r, u) = Watchers(s, u)
    BY <2>1, Zenon DEF Watchers
  <2>6. Watchers(s, t) = {} /\ t \notin Range(w) /\ Cardinality({}) = 0
    BY <1>2, CountNone, Zenon DEF Watched, WatchesLive, Watchers
  <2>7. Watched(r, w, x \cup {t})
    <3>1. Ordered(r) /\ WatchesLive(r, w) /\ \A c \in DOMAIN r.conns : WatchesLive(r, r.conns[c].watch)
      BY <2>1, <2>2, ZenonT(60) DEF Watched, Ordered, WatchesLive
    <3>2. Counted(r, w, x \cup {t}, t)
      BY <2>1, <2>3, <2>5, <2>6, SMTT(30) DEF Counted, Dropping
    <3>3. \A u \in DOMAIN s.tubes : Counted(r, w, x \cup {t}, u)
      BY <2>1, <2>5, Zenon DEF Watched, Counted
    <3> QED BY <2>1, <3>1, <3>2, <3>3, Zenon DEF Watched
  <2> QED BY <2>1, <2>4, <2>7, Zenon DEF r
<1> QED BY <1>1, <1>2, Zenon

\* A tube that nothing refers to is collected.
LEMMA GcWatched ==
    ASSUME Laws, NEW s, Shaped(s), NEW w, NEW x, Watched(s, w, x), NEW t \in DOMAIN s.tubes
    PROVE  LET r == gc_tube_if_orphan(s, t)
           IN  /\ Watched(r, w, x \ {t}) /\ Moved(s, r) /\ r.conns = s.conns
               /\ \A u \in DOMAIN s.tubes : u # t => u \in DOMAIN r.tubes
<1>1. CASE t = DefaultTube \/ refs(s.tubes[t]) # 0
  <2>1. gc_tube_if_orphan(s, t) = s
    BY <1>1, Zenon DEF gc_tube_if_orphan
  <2>2. t # DefaultTube => refs(s.tubes[t]) > 0
    <3>1. Cardinality(Watchers(s, t)) \in Nat
      <4>1. IsFiniteSet(Watchers(s, t))
        BY CountPart, Zenon DEF Watched, Watchers
      <4> QED BY <4>1, CountType, Zenon
    <3> QED BY <1>1, <3>1 DEF Watched, Counted, refs, Dropping
  <2>3. Watched(s, w, x \ {t})
    BY <2>2, Zenon DEF Watched, Counted
  <2>4. Moved(s, s)
    BY Zenon DEF Moved, SameQueue
  <2> QED BY <2>1, <2>3, <2>4, Zenon
<1>2. CASE t # DefaultTube /\ refs(s.tubes[t]) = 0
  <2> DEFINE r == gc_tube_if_orphan(s, t)
             q == list_swap_remove(s.tube_order, t)
  <2>1. /\ {"tubes", "tube_order", "conns"} \subseteq DOMAIN r
        /\ r.conns = s.conns /\ r.tube_order = q /\ DOMAIN r.tubes = DOMAIN s.tubes \ {t}
        /\ \A u \in DOMAIN s.tubes \ {t} : r.tubes[u] = s.tubes[u]
    BY <1>2, Zenon DEF gc_tube_if_orphan, without_entry, Restrict, Shaped
  <2>2. /\ q \in Seq(TubeNames) /\ IsInjective(q) /\ q # <<>> /\ q[1] = DefaultTube
        /\ Range(q) = Range(s.tube_order) \ {t}
    BY <1>2, OrderShrinks, Zenon DEF Watched, Ordered
  <2> HIDE DEF r, q
  <2>3. Moved(s, r)
    <3>1. Shaped(r) /\ (Ticked(s) => Ticked(r))
      BY <2>1, Zenon DEF Shaped, Ticked
    <3> QED BY <2>1, <3>1, Zenon DEF Moved, SameQueue
  <2>4. Watchers(s, t) = {} /\ t \notin Range(w)
    <3>1. IsFiniteSet(Watchers(s, t))
      BY CountPart, Zenon DEF Watched, Watchers
    <3>2. Cardinality(Watchers(s, t)) \in Nat
      BY <3>1, CountType, Zenon
    <3>3. Cardinality(Watchers(s, t)) = 0 /\ t \notin Range(w)
      BY <1>2, <3>2, SMTT(30) DEF Watched, Counted, refs, Dropping
    <3> QED BY <3>1, <3>3, CountNone, ZenonT(60)
  <2>5. \A u : Watchers(r, u) = Watchers(s, u)
    BY <2>1, Zenon DEF Watchers
  <2>6. \A c \in DOMAIN s.conns : t \notin Range(s.conns[c].watch)
    BY <2>4, Zenon DEF Watchers
  <2>7. Watched(r, w, x \ {t})
    <3>1. Ordered(r) /\ WatchesLive(r, w) /\ \A c \in DOMAIN r.conns : WatchesLive(r, r.conns[c].watch)
      BY <2>1, <2>2, <2>4, <2>6, ZenonT(60) DEF Watched, Ordered, WatchesLive
    <3>2. \A u \in DOMAIN r.tubes : Counted(r, w, x \ {t}, u)
      BY <2>1, <2>5, Zenon DEF Watched, Counted
    <3> QED BY <2>1, <3>1, <3>2, Zenon DEF Watched
  <2> QED BY <2>1, <2>3, <2>7, Zenon DEF r
<1> QED BY <1>1, <1>2, Zenon

\* The connection record cs with another watch list.
Rewatched(C, cs, q) ==
    /\ ConnKeys \subseteq DOMAIN C /\ C.watch = q /\ C.waiting = cs.waiting
    /\ Timed(cs) => Timed(C)

\* The watch list and the used tube say nothing of the timers.
LEMMA WatchEdit ==
    ASSUME NEW cs, ConnKeys \subseteq DOMAIN cs, NEW q
    PROVE  Rewatched([cs EXCEPT !.watch = q], cs, q) /\ SameConn([cs EXCEPT !.use_tube = q], cs)
<1>1. ASSUME NEW C, DOMAIN C = DOMAIN cs, C.waiting = cs.waiting,
             C.wait_deadline = cs.wait_deadline, C.reserved_by_deadline = cs.reserved_by_deadline,
             C.tick_key = cs.tick_key
      PROVE  Timed(cs) => Timed(C)
  BY <1>1, ZenonT(60) DEF Timed, conn_tickat, soonest_reserved
<1> QED BY <1>1, Zenon DEF ConnKeys, SameConn, Rewatched

\* A tube's counts and a connection that does not wait change.
PairEdited(s, r, t, T, c, C) ==
    /\ {"tubes", "tube_order", "conns"} \subseteq DOMAIN r
    /\ r.tubes = [s.tubes EXCEPT ![t] = T] /\ r.conns = [s.conns EXCEPT ![c] = C]
    /\ r.tube_order = s.tube_order
    /\ t \in DOMAIN s.tubes /\ TubeKeys \subseteq DOMAIN T /\ SameQueue(T, s.tubes[t])
    /\ c \in DOMAIN s.conns /\ ConnKeys \subseteq DOMAIN C /\ ~C.waiting
    /\ Timed(s.conns[c]) => Timed(C)

\* That moves no waiter and no job.
LEMMA PairMoved ==
    ASSUME NEW s, Shaped(s), NEW r, NEW t, NEW T, NEW c, NEW C, PairEdited(s, r, t, T, c, C)
    PROVE  Moved(s, r)
<1>1. Shaped(r) /\ (Ticked(s) => Ticked(r))
  BY Zenon DEF Shaped, Ticked, PairEdited
<1>2. \A u \in DOMAIN r.tubes : u \in DOMAIN s.tubes /\ SameQueue(r.tubes[u], s.tubes[u])
  BY Zenon DEF SameQueue, PairEdited
<1> QED BY <1>1, <1>2, Zenon DEF Moved, PairEdited

\* Counting watchers needs only the finite set of connections.
LEMMA WatchersFinite ==
    ASSUME Laws, NEW s, IsFiniteSet(DOMAIN s.conns), NEW t
    PROVE  IsFiniteSet(Watchers(s, t)) /\ Cardinality(Watchers(s, t)) \in Nat
<1>1. IsFiniteSet(Watchers(s, t))
  BY CountPart, Zenon DEF Watchers
<1> QED BY <1>1, CountType, Zenon

\* watch: a new watcher of the tube.
LEMMA WatchWatched ==
    ASSUME Laws, NEW s, Shaped(s), NEW w, Watched(s, w, {}), NEW c \in DOMAIN s.conns,
           ~s.conns[c].waiting, NEW t \in TubeNames
    PROVE  LET r == cmd_watch(s, c, t) IN Watched(r, w, {}) /\ Moved(s, r)
<1>1. CASE t \in Range(s.conns[c].watch)
  <2>1. cmd_watch(s, c, t) = s
    BY <1>1, Zenon DEF cmd_watch
  <2> QED BY <2>1, Zenon DEF Moved, SameQueue
<1>2. CASE t \notin Range(s.conns[c].watch)
  <2> DEFINE y == find_or_make_tube(s, t)
             r == cmd_watch(s, c, t)
             q == Append(s.conns[c].watch, t)
             n == y.tubes[t].watching_ct + 1
             T == [y.tubes[t] EXCEPT !.watching_ct = n]
             C == [s.conns[c] EXCEPT !.watch = q]
             X == {} \cup {t}
  <2>1. r = [y EXCEPT !.conns[c].watch = Append(@, t), !.tubes[t].watching_ct = @ + 1]
    BY <1>2, Zenon DEF cmd_watch
  <2>2. Watched(y, w, X) /\ Moved(s, y) /\ y.conns = s.conns /\ t \in DOMAIN y.tubes
    BY MakeWatched, Zenon
  <2> HIDE DEF y
  <2>3. Shaped(y)
    BY <2>2, Zenon DEF Moved
  <2>4. /\ {"tubes", "tube_order", "conns"} \subseteq DOMAIN r
        /\ r.tubes = [y.tubes EXCEPT ![t] = T] /\ r.conns = [y.conns EXCEPT ![c] = C]
        /\ r.tube_order = y.tube_order
    BY <2>1, <2>2, <2>3, Zenon DEF Shaped
  <2>5. /\ TubeKeys \subseteq DOMAIN T /\ SameQueue(T, y.tubes[t]) /\ T.watching_ct = n
        /\ T.using_ct = y.tubes[t].using_ct /\ T.job_ref_ct = y.tubes[t].job_ref_ct
    BY <2>2, <2>3, Zenon DEF Shaped, TubeKeys, SameQueue
  <2>6. /\ ConnKeys \subseteq DOMAIN C /\ C.watch = q /\ ~C.waiting
        /\ Timed(s.conns[c]) => Timed(C)
    <3> HIDE DEF q
    <3>1. Rewatched(C, s.conns[c], q)
      BY WatchEdit, Zenon DEF Shaped
    <3> QED BY <3>1, Zenon DEF Rewatched
  <2>7. PairEdited(y, r, t, T, c, C)
    BY <2>2, <2>4, <2>5, <2>6, Zenon DEF PairEdited
  <2>8. Moved(s, r)
    BY <2>2, <2>3, <2>7, PairMoved, MovedTrans, ZenonT(60)
  <2>9. q \in Seq(TubeNames) /\ IsInjective(q) /\ Range(q) = Range(s.conns[c].watch) \cup {t}
    BY <1>2, AppendNew DEF Watched, WatchesLive
  <2>10. /\ DOMAIN r.tubes = DOMAIN y.tubes /\ DOMAIN r.conns = DOMAIN y.conns
         /\ r.tubes[t] = T /\ \A u \in DOMAIN y.tubes : u # t => r.tubes[u] = y.tubes[u]
         /\ r.conns[c] = C /\ \A d \in DOMAIN y.conns : d # c => r.conns[d] = y.conns[d]
    BY <2>2, <2>4, Zenon
  <2> HIDE DEF r, q, n, T, C
  <2>11. Watchers(r, t) = Watchers(y, t) \cup {c} /\ c \notin Watchers(y, t)
    BY <1>2, <2>2, <2>6, <2>9, <2>10, ZenonT(60) DEF Watchers
  <2>12. \A u : u # t => Watchers(r, u) = Watchers(y, u)
    BY <2>2, <2>6, <2>9, <2>10, ZenonT(60) DEF Watchers
  <2>13. Counted(r, w, {}, t)
    <3>1. IsFiniteSet(Watchers(y, t)) /\ Cardinality(Watchers(y, t)) \in Nat
      BY <2>2, WatchersFinite, Zenon DEF Watched
    <3>2. Cardinality(Watchers(r, t)) = Cardinality(Watchers(y, t)) + 1
      BY <2>11, <3>1, CountMore, Zenon
    <3>3. Counted(y, w, X, t)
      BY <2>2, Zenon DEF Watched
    <3> QED BY <2>5, <2>10, <3>1, <3>2, <3>3, SMTT(30) DEF Counted, Dropping, refs, n
  <2>14. \A u \in DOMAIN r.tubes : u # t => Counted(r, w, {}, u)
    BY <2>2, <2>10, <2>12, Zenon DEF Watched, Counted
  <2>15. Ordered(r) /\ WatchesLive(r, w) /\ \A d \in DOMAIN r.conns : WatchesLive(r, r.conns[d].watch)
    BY <2>2, <2>4, <2>6, <2>9, <2>10, ZenonT(60) DEF Watched, Ordered, WatchesLive
  <2>16. Watched(r, w, {})
    BY <2>2, <2>10, <2>13, <2>14, <2>15, Zenon DEF Watched
  <2> QED BY <2>8, <2>16, Zenon DEF r
<1> QED BY <1>1, <1>2, Zenon

\* A watcher fewer: the tube's count before it may be collected.
LEMMA FewerWatchers ==
    ASSUME Laws, NEW s, Shaped(s), NEW w, Watched(s, w, {}), NEW t \in DOMAIN s.tubes,
           NEW r, NEW v, {"tubes", "tube_order", "conns"} \subseteq DOMAIN r,
           r.tubes = [s.tubes EXCEPT ![t].watching_ct = saturating_sub(@, 1)],
           r.tube_order = s.tube_order, DOMAIN r.conns = DOMAIN s.conns,
           WatchesLive(s, v), \A d \in DOMAIN s.conns : WatchesLive(s, r.conns[d].watch),
           \A u : u # t => Watchers(r, u) = Watchers(s, u) /\ Dropping(v, u) = Dropping(w, u),
           Cardinality(Watchers(s, t)) + Dropping(w, t)
               = Cardinality(Watchers(r, t)) + Dropping(v, t) + 1
    PROVE  Watched(r, v, {t})
<1> DEFINE n == saturating_sub(s.tubes[t].watching_ct, 1)
           T == [s.tubes[t] EXCEPT !.watching_ct = n]
<1>1. r.tubes = [s.tubes EXCEPT ![t] = T]
  BY Zenon
<1>2. T.watching_ct = n /\ T.using_ct = s.tubes[t].using_ct /\ T.job_ref_ct = s.tubes[t].job_ref_ct
  BY Zenon DEF Shaped, TubeKeys
<1>3. /\ DOMAIN r.tubes = DOMAIN s.tubes /\ r.tubes[t] = T
      /\ \A u \in DOMAIN s.tubes : u # t => r.tubes[u] = s.tubes[u]
  BY <1>1, Zenon
<1> HIDE DEF T
<1>4. Cardinality(Watchers(r, t)) \in Nat /\ Dropping(v, t) \in Nat
  BY WatchersFinite, Zenon DEF Watched, Dropping
<1>5. Counted(s, w, {}, t)
  BY Zenon DEF Watched
<1>6. n = Cardinality(Watchers(r, t)) + Dropping(v, t)
  BY <1>4, <1>5 DEF Counted, saturating_sub
<1> HIDE DEF n
<1>7. Counted(r, v, {t}, t)
  BY <1>2, <1>3, <1>5, <1>6, ZenonT(60) DEF Counted
<1>8. \A u \in DOMAIN r.tubes : u # t => Counted(r, v, {t}, u)
  BY <1>3, Zenon DEF Watched, Counted
<1>9. Ordered(r) /\ WatchesLive(r, v) /\ \A d \in DOMAIN r.conns : WatchesLive(r, r.conns[d].watch)
  BY <1>3, Zenon DEF Watched, Ordered, WatchesLive
<1> QED BY <1>3, <1>7, <1>8, <1>9, Zenon DEF Watched

\* ignore: a watcher fewer, and the tube may go.
LEMMA IgnoreWatched ==
    ASSUME Laws, NEW s, Shaped(s), NEW w, Watched(s, w, {}), NEW c \in DOMAIN s.conns,
           ~s.conns[c].waiting, NEW t \in Range(s.conns[c].watch)
    PROVE  LET r == cmd_ignore(s, c, t) IN Watched(r, w, {}) /\ Moved(s, r)
<1> DEFINE q == list_swap_remove(s.conns[c].watch, t)
           y == [[s EXCEPT !.conns[c].watch = list_swap_remove(@, t)]
                    EXCEPT !.tubes[t].watching_ct = saturating_sub(@, 1)]
           n == saturating_sub(s.tubes[t].watching_ct, 1)
           T == [s.tubes[t] EXCEPT !.watching_ct = n]
           C == [s.conns[c] EXCEPT !.watch = q]
           X == {t}
<1>1. cmd_ignore(s, c, t) = gc_tube_if_orphan(y, t)
  BY Zenon DEF cmd_ignore, drop_watch
<1>2. /\ {"tubes", "tube_order", "conns"} \subseteq DOMAIN y
      /\ y.tubes = [s.tubes EXCEPT ![t].watching_ct = saturating_sub(@, 1)]
      /\ y.tubes = [s.tubes EXCEPT ![t] = T] /\ y.conns = [s.conns EXCEPT ![c] = C]
      /\ y.tube_order = s.tube_order
  BY Zenon DEF Shaped
<1>3. t \in DOMAIN s.tubes
  BY Zenon DEF Watched, WatchesLive
<1>4. TubeKeys \subseteq DOMAIN T /\ SameQueue(T, s.tubes[t])
  BY <1>3, Zenon DEF Shaped, TubeKeys, SameQueue
<1>5. /\ ConnKeys \subseteq DOMAIN C /\ C.watch = q /\ ~C.waiting
      /\ Timed(s.conns[c]) => Timed(C)
  <2> HIDE DEF q
  <2>1. Rewatched(C, s.conns[c], q)
    BY WatchEdit, Zenon DEF Shaped
  <2> QED BY <2>1, Zenon DEF Rewatched
<1>6. Moved(s, y)
  <2>1. PairEdited(s, y, t, T, c, C)
    BY <1>2, <1>3, <1>4, <1>5, Zenon DEF PairEdited
  <2> QED BY <2>1, PairMoved, Zenon
<1>7. q \in Seq(TubeNames) /\ IsInjective(q) /\ Range(q) = Range(s.conns[c].watch) \ {t}
  BY ListSwapRemove, Zenon DEF Watched, WatchesLive
<1>8. /\ DOMAIN y.conns = DOMAIN s.conns /\ y.conns[c] = C
      /\ \A d \in DOMAIN s.conns : d # c => y.conns[d] = s.conns[d]
  BY <1>2, Zenon
<1> HIDE DEF q, y, T, C
<1>9. Watchers(y, t) = Watchers(s, t) \ {c} /\ c \in Watchers(s, t)
  BY <1>5, <1>7, <1>8 DEF Watchers
<1>10. \A u : u # t => Watchers(y, u) = Watchers(s, u)
  BY <1>5, <1>7, <1>8, Zenon DEF Watchers
<1>11. \A d \in DOMAIN s.conns : WatchesLive(s, y.conns[d].watch)
  BY <1>5, <1>7, <1>8, Zenon DEF Watched, WatchesLive
<1>12. Cardinality(Watchers(s, t)) + Dropping(w, t) = Cardinality(Watchers(y, t)) + Dropping(w, t) + 1
  <2>1. IsFiniteSet(Watchers(s, t)) /\ Cardinality(Watchers(s, t)) \in Nat
    BY WatchersFinite, Zenon DEF Watched
  <2>2. Cardinality(Watchers(y, t)) = Cardinality(Watchers(s, t)) - 1
    BY <1>9, <2>1, CountFewer, Zenon
  <2> QED BY <2>1, <2>2 DEF Dropping
<1>13. Watched(y, w, X)
  <2>1. WatchesLive(s, w)
    BY Zenon DEF Watched
  <2> QED BY <1>2, <1>3, <1>8, <1>10, <1>11, <1>12, <2>1, FewerWatchers, ZenonT(60)
<1>14. Shaped(y) /\ t \in DOMAIN y.tubes
  BY <1>2, <1>3, <1>6, Zenon DEF Moved
<1>15. X \ {t} = {}
  BY Zenon
<1> HIDE DEF X
<1>16. LET r == gc_tube_if_orphan(y, t) IN Watched(r, w, {}) /\ Moved(y, r)
  BY <1>13, <1>14, <1>15, GcWatched, SMTT(30)
<1> QED BY <1>1, <1>6, <1>16, MovedTrans, Zenon

\* clear_in_delete_order visits every watched tube once.
LEMMA VisitOrder ==
    ASSUME NEW S, NEW q \in Seq(S), IsInjective(q)
    PROVE  /\ delete_order(q) \in Seq(S) /\ IsInjective(delete_order(q))
           /\ Range(delete_order(q)) = Range(q)
<1> DEFINE r == delete_order(q)
           at(k) == IF k = 1 THEN 1 ELSE Len(q) - k + 2
<1>1. Len(q) \in Nat /\ q \in [1..Len(q) -> S]
  OBVIOUS
<1>2. \A k \in 1..Len(q) : at(k) \in 1..Len(q) /\ at(at(k)) = k
  BY <1>1
<1>3. r = [k \in 1..Len(q) |-> q[at(k)]]
  BY Zenon DEF delete_order
<1> HIDE DEF r, at
<1>4. r \in Seq(S) /\ Len(r) = Len(q) /\ \A k \in 1..Len(q) : r[k] = q[at(k)]
  BY <1>1, <1>2, <1>3
<1>5. IsInjective(r)
  <2>1. DOMAIN r = 1..Len(q) /\ DOMAIN q = 1..Len(q)
    BY <1>3, <1>1, Zenon
  <2> SUFFICES ASSUME NEW i \in 1..Len(q), NEW j \in 1..Len(q), r[i] = r[j] PROVE i = j
    BY <2>1, Zenon DEF IsInjective
  <2>2. at(i) = at(j)
    BY <1>2, <1>4, <2>1, Zenon DEF IsInjective
  <2> QED BY <1>2, <2>2, Zenon
<1>6. Range(r) = Range(q)
  <2>1. DOMAIN r = 1..Len(q) /\ DOMAIN q = 1..Len(q)
    BY <1>3, <1>1, Zenon
  <2>2. \A k \in 1..Len(q) : q[k] = r[at(k)]
    BY <1>2, <1>4, Zenon
  <2> QED BY <1>2, <1>4, <2>1, <2>2, SMTT(30) DEF Range
<1> QED BY <1>4, <1>5, <1>6, Zenon DEF r

\* A disconnect clears the watch list and keeps the watches to drop in its frame.
LEMMA ClearWatched ==
    ASSUME Laws, NEW s, Shaped(s), Watched(s, <<>>, {}), NEW c \in DOMAIN s.conns,
           ~s.conns[c].waiting
    PROVE  LET r == [s EXCEPT !.conns[c].watch = <<>>]
               v == delete_order(s.conns[c].watch)
           IN  Watched(r, v, {}) /\ Moved(s, r) /\ r.conns[c].watch = <<>>
<1> DEFINE q == s.conns[c].watch
           r == [s EXCEPT !.conns[c].watch = <<>>]
           v == delete_order(q)
           e == <<>>
           C == [s.conns[c] EXCEPT !.watch = e]
<1>1. /\ {"tubes", "tube_order", "conns"} \subseteq DOMAIN r
      /\ r.tubes = s.tubes /\ r.conns = [s.conns EXCEPT ![c] = C] /\ r.tube_order = s.tube_order
  BY Zenon DEF Shaped
<1>2. Rewatched(C, s.conns[c], e)
  <2> HIDE DEF e
  <2> QED BY WatchEdit, Zenon DEF Shaped
<1>3. Moved(s, r)
  <2> HIDE DEF C, r
  <2> QED BY <1>1, <1>2, ConnMoves, Zenon DEF Rewatched
<1>4. /\ DOMAIN r.conns = DOMAIN s.conns /\ r.conns[c].watch = <<>>
      /\ \A d \in DOMAIN s.conns : d # c => r.conns[d] = s.conns[d]
  <2> HIDE DEF C, r
  <2> QED BY <1>1, <1>2, Zenon DEF Rewatched
<1>5. WatchesLive(s, v) /\ Range(v) = Range(q)
  <2>1. q \in Seq(TubeNames) /\ IsInjective(q) /\ Range(q) \subseteq DOMAIN s.tubes
    BY Zenon DEF Watched, WatchesLive
  <2> QED BY <2>1, VisitOrder, Zenon DEF WatchesLive
<1> HIDE DEF r, v, C
<1>6. Range(<<>>) = {} /\ IsInjective(<<>>) /\ <<>> \in Seq(TubeNames)
  BY DEF Range, IsInjective
<1>7. \A t : Watchers(r, t) = Watchers(s, t) \ {c} /\ (t \in Range(q) <=> c \in Watchers(s, t))
  BY <1>4, <1>6, Zenon DEF Watchers
<1>8. ASSUME NEW t \in DOMAIN s.tubes
      PROVE  Cardinality(Watchers(s, t)) + Dropping(<<>>, t) = Cardinality(Watchers(r, t)) + Dropping(v, t)
  <2>1. IsFiniteSet(Watchers(s, t)) /\ Cardinality(Watchers(s, t)) \in Nat
    BY WatchersFinite, Zenon DEF Watched
  <2>2. CASE t \in Range(q)
    <3>1. Cardinality(Watchers(r, t)) = Cardinality(Watchers(s, t)) - 1
      BY <1>7, <2>1, <2>2, CountFewer, Zenon
    <3> QED BY <1>5, <1>6, <2>1, <2>2, <3>1, SMTT(30) DEF Dropping
  <2>3. CASE t \notin Range(q)
    <3>1. Watchers(r, t) = Watchers(s, t)
      BY <1>7, <2>3, ZenonT(30)
    <3> QED BY <1>5, <1>6, <2>3, <3>1, ZenonT(60) DEF Dropping
  <2> QED BY <2>2, <2>3, Zenon
<1>9. \A t \in DOMAIN r.tubes : Counted(r, v, {}, t)
  BY <1>1, <1>8, Zenon DEF Watched, Counted
<1>10. Ordered(r) /\ WatchesLive(r, v) /\ \A d \in DOMAIN r.conns : WatchesLive(r, r.conns[d].watch)
  BY <1>1, <1>4, <1>5, <1>6, ZenonT(60) DEF Watched, Ordered, WatchesLive
<1>11. Watched(r, v, {})
  BY <1>4, <1>9, <1>10, Zenon DEF Watched
<1> QED BY <1>3, <1>4, <1>11, Zenon DEF r, v

\* The next watch of a disconnect is dropped.
LEMMA DropWatched ==
    ASSUME Laws, NEW s, Shaped(s), NEW w, Watched(s, w, {}), w # <<>>
    PROVE  LET r == drop_watch(s, Head(w))
           IN  Watched(r, Tail(w), {}) /\ Moved(s, r) /\ r.conns = s.conns
<1> DEFINE t == Head(w)
           v == Tail(w)
           y == [s EXCEPT !.tubes[t].watching_ct = saturating_sub(@, 1)]
           n == saturating_sub(s.tubes[t].watching_ct, 1)
           T == [s.tubes[t] EXCEPT !.watching_ct = n]
           X == {t}
<1>1. drop_watch(s, t) = gc_tube_if_orphan(y, t)
  BY Zenon DEF drop_watch
<1>2. w \in Seq(TubeNames) /\ IsInjective(w) /\ Range(w) \subseteq DOMAIN s.tubes
  BY Zenon DEF Watched, WatchesLive
<1>3. /\ v \in Seq(TubeNames) /\ IsInjective(v) /\ Range(v) = Range(w) \ {t} /\ t \in Range(w)
  <2>1. v = list_remove(w, t)
    BY <1>2, RemoveHead, Zenon
  <2>2. t \in Range(w)
    BY <1>2 DEF Range
  <2> HIDE DEF v, t
  <2> QED BY <1>2, <2>1, <2>2, ListRemove, Zenon
<1> HIDE DEF v, t
<1>4. t \in DOMAIN s.tubes
  BY <1>2, <1>3, Zenon
<1>5. /\ {"tubes", "tube_order", "conns"} \subseteq DOMAIN y
      /\ y.tubes = [s.tubes EXCEPT ![t].watching_ct = saturating_sub(@, 1)]
      /\ y.tubes = [s.tubes EXCEPT ![t] = T] /\ y.conns = s.conns
      /\ y.tube_order = s.tube_order
  BY Zenon DEF Shaped
<1>6. TubeKeys \subseteq DOMAIN T /\ SameQueue(T, s.tubes[t])
  BY <1>4, Zenon DEF Shaped, TubeKeys, SameQueue
<1> HIDE DEF y, T
<1>7. Moved(s, y)
  BY <1>5, <1>6, CountsMoved, SMTT(30)
<1>8. \A u : Watchers(y, u) = Watchers(s, u)
  BY <1>5, Zenon DEF Watchers
<1>9. \A u : u # t => Dropping(v, u) = Dropping(w, u)
  BY <1>3, Zenon DEF Dropping
<1>10. Cardinality(Watchers(s, t)) + Dropping(w, t) = Cardinality(Watchers(y, t)) + Dropping(v, t) + 1
  <2>1. Cardinality(Watchers(s, t)) \in Nat
    BY WatchersFinite, Zenon DEF Watched
  <2> QED BY <1>3, <1>8, <2>1, SMTT(30) DEF Dropping
<1>11. WatchesLive(s, v) /\ \A d \in DOMAIN s.conns : WatchesLive(s, y.conns[d].watch)
  BY <1>2, <1>3, <1>5, Zenon DEF WatchesLive, Watched
<1>12. Watched(y, v, X)
  BY <1>4, <1>5, <1>8, <1>9, <1>10, <1>11, FewerWatchers, ZenonT(60)
<1>13. Shaped(y) /\ t \in DOMAIN y.tubes
  BY <1>4, <1>5, <1>7, Zenon DEF Moved
<1>14. X \ {t} = {}
  BY Zenon
<1> HIDE DEF X
<1>15. LET r == gc_tube_if_orphan(y, t) IN Watched(r, v, {}) /\ Moved(y, r) /\ r.conns = y.conns
  BY <1>12, <1>13, <1>14, GcWatched, SMTT(30)
<1>16. LET r == gc_tube_if_orphan(y, t) IN Watched(r, v, {}) /\ Moved(s, r) /\ r.conns = s.conns
  BY <1>5, <1>7, <1>15, MovedTrans, ZenonT(60)
<1> QED BY <1>1, <1>16, Zenon DEF t, v

\* The registrations and the timers are kept, and no tube gets something to serve.
Kept(s, r) ==
    /\ Registered(s) => Registered(r)
    /\ Ticked(s) => Ticked(r)
    /\ Wanting(r) \subseteq Wanting(s)

\* Moved and still updates keep them.
LEMMA KeptBy ==
    ASSUME NEW s, NEW r
    PROVE  /\ Moved(s, r) => Kept(s, r)
           /\ Still(s, r) /\ NoneReady(s, r) => Kept(s, r)
           /\ \A q : Kept(s, r) /\ Kept(r, q) => Kept(s, q)
<1>1. Moved(s, r) => Kept(s, r)
  BY MovedKeeps, Zenon DEF Kept
<1>2. Still(s, r) /\ NoneReady(s, r) => Kept(s, r)
  BY StillKeeps, Zenon DEF Kept
<1> QED BY <1>1, <1>2, Zenon DEF Kept

\* The users or the jobs of tube t are counted anew.
RefEdited(s, r, t, T) ==
    /\ {"tubes", "tube_order", "conns"} \subseteq DOMAIN r
    /\ r.tubes = [s.tubes EXCEPT ![t] = T] /\ r.conns = s.conns /\ r.tube_order = s.tube_order
    /\ TubeKeys \subseteq DOMAIN T /\ SameQueue(T, s.tubes[t])
    /\ T.watching_ct = s.tubes[t].watching_ct /\ T.using_ct \in Nat /\ T.job_ref_ct \in Nat

\* The tube may have to be collected then, unless something refers to it.
LEMMA RefsMoved ==
    ASSUME NEW s, Shaped(s), NEW w, NEW x, Watched(s, w, x), NEW t \in DOMAIN s.tubes,
           NEW r, NEW T, RefEdited(s, r, t, T)
    PROVE  /\ Moved(s, r) /\ Watched(r, w, x \cup {t})
           /\ refs(T) > 0 => Watched(r, w, x \ {t})
<1>1. /\ DOMAIN r.tubes = DOMAIN s.tubes /\ r.tubes[t] = T
      /\ \A u \in DOMAIN s.tubes : u # t => r.tubes[u] = s.tubes[u]
  BY Zenon DEF RefEdited
<1>2. Moved(s, r)
  BY CountsMoved DEF RefEdited
<1>3. \A u : Watchers(r, u) = Watchers(s, u)
  BY Zenon DEF RefEdited, Watchers
<1>4. Ordered(r) /\ WatchesLive(r, w) /\ \A d \in DOMAIN r.conns : WatchesLive(r, r.conns[d].watch)
  BY <1>1, Zenon DEF RefEdited, Watched, Ordered, WatchesLive
<1>5. \A u \in DOMAIN r.tubes : Counted(r, w, x \cup {t}, u)
  BY <1>1, <1>3, ZenonT(30) DEF RefEdited, Watched, Counted
<1>6. refs(T) > 0 => \A u \in DOMAIN r.tubes : Counted(r, w, x \ {t}, u)
  BY <1>1, <1>3, SMTT(30) DEF RefEdited, Watched, Counted
<1> QED BY <1>2, <1>4, <1>5, <1>6, Zenon DEF Watched, RefEdited

\* A user leaves a tube, and the tube may go.
LEMMA DropUsed ==
    ASSUME Laws, NEW s, Shaped(s), NEW w, NEW x, Watched(s, w, x), NEW t \in DOMAIN s.tubes
    PROVE  LET r == drop_use(s, t)
           IN  /\ Watched(r, w, x \ {t}) /\ Moved(s, r) /\ r.conns = s.conns
               /\ \A u \in DOMAIN s.tubes : u # t => u \in DOMAIN r.tubes
<1> DEFINE y == [s EXCEPT !.tubes[t].using_ct = saturating_sub(@, 1)]
           n == saturating_sub(s.tubes[t].using_ct, 1)
           T == [s.tubes[t] EXCEPT !.using_ct = n]
           X == x \cup {t}
<1>1. drop_use(s, t) = gc_tube_if_orphan(y, t)
  BY Zenon DEF drop_use
<1>2. n \in Nat
  BY SaturatingSub, Zenon DEF Watched, Counted
<1>3. RefEdited(s, y, t, T)
  <2>1. /\ {"tubes", "tube_order", "conns"} \subseteq DOMAIN y
        /\ y.tubes = [s.tubes EXCEPT ![t] = T] /\ y.conns = s.conns /\ y.tube_order = s.tube_order
    BY Zenon DEF Shaped
  <2> HIDE DEF n
  <2>2. /\ TubeKeys \subseteq DOMAIN T /\ SameQueue(T, s.tubes[t]) /\ T.using_ct = n
        /\ T.watching_ct = s.tubes[t].watching_ct /\ T.job_ref_ct = s.tubes[t].job_ref_ct
    BY Zenon DEF Shaped, TubeKeys, SameQueue
  <2> HIDE DEF T, y
  <2> QED BY <1>2, <2>1, <2>2, Zenon DEF RefEdited, Watched, Counted
<1> HIDE DEF y, T
<1>4. Watched(y, w, X) /\ Moved(s, y) /\ DOMAIN y.tubes = DOMAIN s.tubes /\ y.conns = s.conns
  BY <1>3, RefsMoved, Zenon DEF RefEdited
<1>5. Shaped(y) /\ X \ {t} = x \ {t}
  BY <1>4, Zenon DEF Moved
<1> HIDE DEF X
<1>6. LET r == gc_tube_if_orphan(y, t)
      IN  /\ Watched(r, w, x \ {t}) /\ Moved(y, r) /\ r.conns = y.conns
          /\ \A u \in DOMAIN y.tubes : u # t => u \in DOMAIN r.tubes
  BY <1>4, <1>5, GcWatched, Zenon
<1>7. Moved(s, gc_tube_if_orphan(y, t))
  BY <1>4, <1>6, MovedTrans, Zenon
<1> QED BY <1>1, <1>4, <1>6, <1>7, Zenon

\* One more user or job of a tube that is not to be collected.
LEMMA OneMoreRef ==
    ASSUME Laws, NEW s, Shaped(s), NEW w, NEW x, Watched(s, w, x), NEW t \in DOMAIN s.tubes,
           NEW r, {"tubes", "tube_order", "conns"} \subseteq DOMAIN r,
           r.conns = s.conns, r.tube_order = s.tube_order,
           \/ r.tubes = [s.tubes EXCEPT ![t].using_ct = @ + 1]
           \/ r.tubes = [s.tubes EXCEPT ![t].job_ref_ct = @ + 1]
    PROVE  Watched(r, w, x \ {t}) /\ Moved(s, r)
<1>1. /\ s.tubes[t].using_ct \in Nat /\ s.tubes[t].job_ref_ct \in Nat
      /\ s.tubes[t].watching_ct \in Nat
  <2>1. Cardinality(Watchers(s, t)) \in Nat
    BY WatchersFinite, Zenon DEF Watched
  <2> QED BY <2>1 DEF Watched, Counted, Dropping
<1>2. PICK T : /\ r.tubes = [s.tubes EXCEPT ![t] = T]
               /\ \/ T = [s.tubes[t] EXCEPT !.using_ct = s.tubes[t].using_ct + 1]
                  \/ T = [s.tubes[t] EXCEPT !.job_ref_ct = s.tubes[t].job_ref_ct + 1]
  BY Zenon
<1>3. /\ TubeKeys \subseteq DOMAIN T /\ SameQueue(T, s.tubes[t])
      /\ T.watching_ct = s.tubes[t].watching_ct
      /\ T.using_ct \in Nat /\ T.job_ref_ct \in Nat /\ T.using_ct + T.job_ref_ct > 0
  BY <1>1, <1>2, SMTT(30) DEF Shaped, TubeKeys, SameQueue
<1>4. RefEdited(s, r, t, T) /\ refs(T) > 0
  BY <1>1, <1>2, <1>3, SMTT(30) DEF RefEdited, refs
<1> QED BY <1>4, RefsMoved, Zenon

\* use: the old tube loses a user and may go, the new one gets it.
LEMMA UseWatched ==
    ASSUME Laws, NEW s, Shaped(s), NEW w, Watched(s, w, {}), NEW c \in DOMAIN s.conns,
           s.conns[c].use_tube \in DOMAIN s.tubes, NEW t \in TubeNames
    PROVE  LET r == cmd_use(s, c, t) IN Watched(r, w, {}) /\ Kept(s, r)
<1> DEFINE old == s.conns[c].use_tube
<1>1. CASE t = old
  <2>1. cmd_use(s, c, t) = s
    BY <1>1, Zenon DEF cmd_use
  <2> QED BY <2>1, Zenon DEF Kept
<1>2. CASE t # old
  <2> DEFINE y == find_or_make_tube(s, t)
             z == drop_use(y, old)
             m == [z EXCEPT !.tubes[t].using_ct = @ + 1]
             r == cmd_use(s, c, t)
             C == [m.conns[c] EXCEPT !.use_tube = t]
             X == {} \cup {t}
             Y == X \ {old}
  <2>1. r = [z EXCEPT !.tubes[t].using_ct = @ + 1, !.conns[c].use_tube = t]
    BY <1>2, Zenon DEF cmd_use
  <2>2. /\ Watched(y, w, X) /\ Moved(s, y) /\ y.conns = s.conns
        /\ t \in DOMAIN y.tubes /\ old \in DOMAIN y.tubes
    BY MakeWatched, Zenon
  <2> HIDE DEF y, X
  <2>3. Shaped(y)
    BY <2>2, Zenon DEF Moved
  <2>4. Watched(z, w, Y) /\ Moved(y, z) /\ z.conns = s.conns /\ t \in DOMAIN z.tubes
    BY <1>2, <2>2, <2>3, DropUsed, ZenonT(60)
  <2>5. Y \ {t} = {}
    BY Zenon DEF X
  <2> HIDE DEF z, Y
  <2>6. Shaped(z)
    BY <2>4, Zenon DEF Moved
  <2>7. /\ {"tubes", "tube_order", "conns"} \subseteq DOMAIN m
        /\ m.tubes = [z.tubes EXCEPT ![t].using_ct = @ + 1] /\ m.conns = z.conns
        /\ m.tube_order = z.tube_order
    BY <2>6, Zenon DEF Shaped
  <2>8. /\ {"tubes", "tube_order", "conns"} \subseteq DOMAIN r
        /\ r.tubes = m.tubes /\ r.conns = [m.conns EXCEPT ![c] = C] /\ r.tube_order = m.tube_order
    BY <2>1, <2>6, <2>7, ZenonT(60) DEF Shaped
  <2> HIDE DEF m, r
  <2>9. Watched(m, w, {}) /\ Moved(z, m)
    BY <2>4, <2>5, <2>6, <2>7, OneMoreRef, SMTT(30)
  <2>10. Shaped(m) /\ c \in DOMAIN m.conns
    BY <2>4, <2>7, <2>9, Zenon DEF Moved
  <2>11. SameConn(C, m.conns[c])
    BY <2>10, WatchEdit, Zenon DEF Shaped
  <2> HIDE DEF C
  <2>12. Still(m, r) /\ NoneReady(m, r)
    BY <2>8, <2>10, <2>11, OneConn, SMTT(30)
  <2>13. Watched(r, w, {}) /\ Kept(m, r)
    BY <2>9, <2>12, StillKeeps, KeptBy, Zenon
  <2>14. Kept(s, y) /\ Kept(y, z) /\ Kept(z, m)
    BY <2>2, <2>4, <2>9, KeptBy, Zenon
  <2>15. Kept(s, r)
    BY <2>13, <2>14, KeptBy, Zenon
  <2> QED BY <2>13, <2>15, Zenon DEF r
<1> QED BY <1>1, <1>2, Zenon

\* connect: the new connection uses and watches "default" and waits for nothing.
LEMMA ConnectWatched ==
    ASSUME Laws, NEW s, Shaped(s), NEW w, Watched(s, w, {}), DefaultTube \in DOMAIN s.tubes,
           NEW c, c \notin DOMAIN s.conns
    PROVE  LET r == connect(s, c) IN Watched(r, w, {}) /\ Kept(s, r)
<1> DEFINE r == connect(s, c)
           T == joined(s.tubes[DefaultTube])
           n == NewConn
<1>1. /\ {"tubes", "tube_order", "conns"} \subseteq DOMAIN r
      /\ r.tubes = [s.tubes EXCEPT ![DefaultTube] = T] /\ r.conns = with_entry(s.conns, c, n)
      /\ r.tube_order = s.tube_order
  BY Zenon DEF connect, Shaped
<1>2. /\ n.watch = <<DefaultTube>> /\ ~n.waiting /\ ConnKeys \subseteq DOMAIN n
      /\ n.tick_key = None /\ n.reserved_by_deadline = {}
  BY ZenonT(30) DEF NewConn, ConnKeys
<1> HIDE DEF n, r
<1>3. Timed(n)
  BY <1>2, Zenon DEF Timed, conn_tickat
<1>4. /\ s.tubes[DefaultTube].using_ct \in Nat /\ s.tubes[DefaultTube].watching_ct \in Nat
  <2>1. Cardinality(Watchers(s, DefaultTube)) \in Nat
    BY WatchersFinite, Zenon DEF Watched
  <2> QED BY <2>1 DEF Watched, Counted, Dropping
<1>5. /\ TubeKeys \subseteq DOMAIN T /\ SameQueue(T, s.tubes[DefaultTube])
      /\ T.using_ct \in Nat /\ T.job_ref_ct = s.tubes[DefaultTube].job_ref_ct
      /\ T.watching_ct = s.tubes[DefaultTube].watching_ct + 1
  BY <1>4 DEF joined, Shaped, TubeKeys, SameQueue
<1> HIDE DEF T
<1>6. /\ DOMAIN r.tubes = DOMAIN s.tubes /\ r.tubes[DefaultTube] = T
      /\ \A u \in DOMAIN s.tubes : u # DefaultTube => r.tubes[u] = s.tubes[u]
  BY <1>1, Zenon
<1>7. /\ DOMAIN r.conns = DOMAIN s.conns \cup {c} /\ r.conns[c] = n
      /\ \A d \in DOMAIN s.conns : r.conns[d] = s.conns[d]
  BY <1>1, Zenon DEF with_entry
<1>8. Moved(s, r)
  <2>1. Shaped(r)
    BY <1>1, <1>2, <1>5, <1>6, <1>7, ZenonT(60) DEF Shaped
  <2>2. Ticked(s) => Ticked(r)
    BY <1>3, <1>7, Zenon DEF Ticked
  <2>3. \A d \in DOMAIN r.conns :
          r.conns[d].waiting => /\ d \in DOMAIN s.conns /\ s.conns[d].waiting
                                /\ r.conns[d].watch = s.conns[d].watch
    BY <1>2, <1>7, Zenon
  <2>4. \A u \in DOMAIN r.tubes : u \in DOMAIN s.tubes /\ SameQueue(r.tubes[u], s.tubes[u])
    BY <1>5, <1>6, Zenon DEF SameQueue
  <2> QED BY <2>1, <2>2, <2>3, <2>4, Zenon DEF Moved
<1>9. DefaultTube \in Range(n.watch) /\ \A u \in Range(n.watch) : u = DefaultTube
  BY <1>2 DEF Range
<1>10. WatchesLive(s, n.watch)
  BY <1>2, <1>9, ConstantsAssumption DEF WatchesLive, IsInjective
<1>11. /\ Watchers(r, DefaultTube) = Watchers(s, DefaultTube) \cup {c}
       /\ c \notin Watchers(s, DefaultTube)
       /\ \A u : u # DefaultTube => Watchers(r, u) = Watchers(s, u)
  BY <1>7, <1>9, Zenon DEF Watchers
<1>12. Cardinality(Watchers(r, DefaultTube)) = Cardinality(Watchers(s, DefaultTube)) + 1
  <2>1. IsFiniteSet(Watchers(s, DefaultTube))
    BY WatchersFinite, Zenon DEF Watched
  <2> QED BY <1>11, <2>1, SMTT(30) DEF Laws
<1>13. IsFiniteSet(DOMAIN r.conns)
  BY <1>7, Zenon DEF Watched, Laws
<1>14. Ordered(r) /\ WatchesLive(r, w) /\ \A d \in DOMAIN r.conns : WatchesLive(r, r.conns[d].watch)
  BY <1>1, <1>6, <1>7, <1>10, ZenonT(60) DEF Watched, Ordered, WatchesLive
<1>15. ASSUME NEW u \in DOMAIN r.tubes PROVE Counted(r, w, {}, u)
  <2>1. u \in DOMAIN s.tubes /\ Counted(s, w, {}, u)
    BY <1>6, ZenonT(60) DEF Watched
  <2>2. CASE u = DefaultTube
    <3>1. Cardinality(Watchers(s, u)) \in Nat
      BY WatchersFinite, Zenon DEF Watched
    <3> QED BY <1>5, <1>6, <1>12, <2>1, <2>2, <3>1, SMTT(30) DEF Counted, Dropping
  <2>3. CASE u # DefaultTube
    BY <1>6, <1>11, <2>1, <2>3, ZenonT(60) DEF Counted
  <2> QED BY <2>2, <2>3, ZenonT(30)
<1> QED BY <1>8, <1>13, <1>14, <1>15, KeptBy, Zenon DEF Watched, r

\* The last step of a disconnect: the used tube is left and the record goes.
LEMMA ForgetWatched ==
    ASSUME Laws, NEW s, Shaped(s), NEW w, Watched(s, w, {}), NEW c \in DOMAIN s.conns,
           s.conns[c].use_tube \in DOMAIN s.tubes, s.conns[c].watch = <<>>
    PROVE  LET r == forget_conn(s, c) IN Watched(r, w, {}) /\ Kept(s, r)
<1> DEFINE u == s.conns[c].use_tube
           y == drop_use(s, u)
           r == forget_conn(s, c)
           X == {} \ {u}
<1>1. r = [y EXCEPT !.conns = without_entry(@, c)]
  BY Zenon DEF forget_conn
<1>2. Watched(y, w, X) /\ Moved(s, y) /\ y.conns = s.conns
  BY DropUsed, Zenon
<1>3. X = {}
  BY Zenon
<1> HIDE DEF y, X
<1>4. Shaped(y)
  BY <1>2, Zenon DEF Moved
<1>5. /\ {"tubes", "tube_order", "conns"} \subseteq DOMAIN r
      /\ r.tubes = y.tubes /\ r.tube_order = y.tube_order /\ r.conns = without_entry(s.conns, c)
  BY <1>1, <1>2, <1>4, Zenon DEF Shaped
<1> HIDE DEF r
<1>6. /\ DOMAIN r.conns = DOMAIN s.conns \ {c}
      /\ \A d \in DOMAIN r.conns : r.conns[d] = s.conns[d]
  BY <1>5, Zenon DEF without_entry, Restrict
<1>7. Moved(y, r)
  <2>1. Shaped(r)
    BY <1>2, <1>4, <1>5, <1>6, ZenonT(60) DEF Shaped
  <2>2. Ticked(y) => Ticked(r)
    BY <1>2, <1>6, Zenon DEF Ticked
  <2>3. \A d \in DOMAIN r.conns :
          r.conns[d].waiting => /\ d \in DOMAIN y.conns /\ y.conns[d].waiting
                                /\ r.conns[d].watch = y.conns[d].watch
    BY <1>2, <1>6, ZenonT(60)
  <2>4. \A t \in DOMAIN r.tubes : t \in DOMAIN y.tubes /\ SameQueue(r.tubes[t], y.tubes[t])
    BY <1>5, Zenon DEF SameQueue
  <2> QED BY <2>1, <2>2, <2>3, <2>4, Zenon DEF Moved
<1>8. \A t : Watchers(r, t) = Watchers(y, t)
  BY <1>2, <1>6, SMTT(30) DEF Watchers, Range
<1>9. IsFiniteSet(DOMAIN r.conns)
  BY <1>2, <1>6, Zenon DEF Watched, Laws
<1>10. Watched(r, w, {})
  BY <1>2, <1>3, <1>5, <1>6, <1>8, <1>9, ZenonT(60) DEF Watched, Ordered, WatchesLive, Counted
<1>11. Kept(s, r)
  BY <1>2, <1>7, KeptBy, Zenon
<1> QED BY <1>10, <1>11, Zenon DEF r

\* put: the used tube gets a job.
LEMMA PutWatched ==
    ASSUME Laws, NEW s, Shaped(s), NEW w, Watched(s, w, {}), NEW c \in DOMAIN s.conns,
           s.conns[c].use_tube \in DOMAIN s.tubes, NEW pri, NEW delay \in Nat, NEW ttr, NEW at
    PROVE  LET r == accept(cmd_put(s, c, pri, delay, ttr, at), c)
           IN  /\ Watched(r, w, {})
               /\ Registered(s) => Registered(r)
               /\ Ticked(s) => Ticked(r)
<1> DEFINE id == put_id(s, c)
           t == s.conns[c].use_tube
           j == [tube |-> t, pri |-> pri, ttr |-> IF ttr = 0 THEN 1 ELSE ttr,
                 state |-> "ready", reserver |-> None, deadline_at |-> 0]
           y == take_pending(s, c)
           z == [y EXCEPT !.jobs = with_entry(@, id, j), !.tubes[t].job_ref_ct = @ + 1]
           e == enqueue(z, t, id, delay, at)
           q == journal_put(e, id)
           r == accept(q, c)
           X == {} \ {t}
<1>1. cmd_put(s, c, pri, delay, ttr, at) = q
  BY Zenon DEF cmd_put
<1>2. Still(s, y) /\ Shaped(y)
  BY PutCallsStill, StillTrans, Zenon
<1>3. Watched(y, w, {}) /\ t \in DOMAIN y.tubes
  BY <1>2, StillKeeps, Zenon DEF Still
<1> HIDE DEF y, id, j
<1>4. /\ {"tubes", "tube_order", "conns"} \subseteq DOMAIN z /\ z.conns = y.conns
      /\ z.tube_order = y.tube_order /\ z.tubes = [y.tubes EXCEPT ![t].job_ref_ct = @ + 1]
  BY <1>2, Zenon DEF Shaped
<1> HIDE DEF z, t
<1>5. Watched(z, w, X) /\ Moved(y, z)
  BY <1>2, <1>3, <1>4, OneMoreRef, Zenon
<1>6. X = {} /\ Shaped(z)
  BY <1>5, Zenon DEF Moved
<1> HIDE DEF X
<1>7. Still(z, e) /\ Shaped(e)
  BY <1>6, InsertsStill, StillTrans, ZenonT(30) DEF enqueue
<1> HIDE DEF e
<1>8. Still(e, q) /\ Shaped(q)
  <2>1. PICK a : q = push_journal(e, a)
    BY Zenon DEF journal_put
  <2>2. Still(e, push_journal(e, a))
    BY <1>7, PlainStill, Zenon
  <2> HIDE DEF q
  <2> QED BY <1>7, <2>1, <2>2, StillTrans, ZenonT(60)
<1> HIDE DEF q
<1>9. Still(q, r)
  BY <1>8, PlainStill, Zenon
<1>10. Still(z, r)
  BY <1>6, <1>7, <1>8, <1>9, StillTrans, ZenonT(60)
<1> HIDE DEF r
<1>11. Watched(r, w, {})
  BY <1>5, <1>6, <1>10, StillKeeps, Zenon
<1>12. Registered(s) => Registered(r)
  BY <1>2, <1>5, <1>10, StillKeeps, MovedKeeps, Zenon
<1>13. Ticked(s) => Ticked(r)
  BY <1>2, <1>5, <1>10, StillKeeps, MovedKeeps, Zenon
<1> QED BY <1>1, <1>11, <1>12, <1>13, ZenonT(60) DEF r

\* delete: the job's tube loses it and may go.
LEMMA DeleteWatched ==
    ASSUME Laws, NEW s, Shaped(s), NEW w, Watched(s, w, {}), NEW c, NEW id,
           s.jobs[id].state \in States, s.jobs[id].tube \in DOMAIN s.tubes
    PROVE  LET r == cmd_delete(s, c, id) IN Watched(r, w, {}) /\ Kept(s, r)
<1> DEFINE t == s.jobs[id].tube
           y == IF s.jobs[id].state = "reserved" THEN do_unreserve(s, c, id)
                ELSE remove_queued(s, id)
           z == [y EXCEPT !.tubes[t].job_ref_ct = saturating_sub(@, 1),
                          !.jobs = without_entry(@, id)]
           q == journal_delete(z, id)
           r == gc_tube_if_orphan(q, t)
           n == saturating_sub(y.tubes[t].job_ref_ct, 1)
           T == [y.tubes[t] EXCEPT !.job_ref_ct = n]
           X == {} \cup {t}
<1>1. cmd_delete(s, c, id) = r
  BY Zenon DEF cmd_delete
<1>2. Still(s, y) /\ NoneReady(s, y) /\ Shaped(y)
  <2>1. CASE s.jobs[id].state = "reserved"
    <3>1. y = do_unreserve(s, c, id)
      BY <2>1, Zenon
    <3> QED BY <3>1, ReservesStill, StillTrans, ZenonT(60)
  <2>2. CASE s.jobs[id].state # "reserved"
    <3>1. y = remove_queued(s, id) /\ s.jobs[id].state \in {"ready", "delayed", "buried"}
      BY <2>2, Zenon DEF States
    <3> HIDE DEF y
    <3>2. Still(s, y) /\ NoneReady(s, y)
      BY <3>1, RemoveQueuedStill
    <3> QED BY <3>2, StillTrans, Zenon
  <2> QED BY <2>1, <2>2, Zenon
<1>3. Watched(y, w, {}) /\ t \in DOMAIN y.tubes
  BY <1>2, StillKeeps, Zenon DEF Still
<1> HIDE DEF y, t
<1>4. RefEdited(y, z, t, T)
  <2>1. /\ {"tubes", "tube_order", "conns"} \subseteq DOMAIN z
        /\ z.tubes = [y.tubes EXCEPT ![t] = T] /\ z.conns = y.conns /\ z.tube_order = y.tube_order
    BY <1>2, Zenon DEF Shaped
  <2>2. n \in Nat
    BY <1>3, SaturatingSub, Zenon DEF Watched, Counted
  <2> HIDE DEF n
  <2>3. /\ TubeKeys \subseteq DOMAIN T /\ SameQueue(T, y.tubes[t]) /\ T.job_ref_ct = n
        /\ T.watching_ct = y.tubes[t].watching_ct /\ T.using_ct = y.tubes[t].using_ct
    BY <1>2, <1>3, Zenon DEF Shaped, TubeKeys, SameQueue
  <2> HIDE DEF T, z
  <2> QED BY <1>3, <2>1, <2>2, <2>3, ZenonT(60) DEF RefEdited, Watched, Counted
<1> HIDE DEF z, T
<1>5. Watched(z, w, X) /\ Moved(y, z) /\ t \in DOMAIN z.tubes
  BY <1>2, <1>3, <1>4, RefsMoved, Zenon DEF RefEdited
<1>6. Shaped(z)
  BY <1>5, Zenon DEF Moved
<1>7. Still(z, q) /\ NoneReady(z, q) /\ Shaped(q)
  BY <1>6, PlainStill, StillTrans, ZenonT(60) DEF journal_delete
<1> HIDE DEF q
<1>8. Watched(q, w, X) /\ t \in DOMAIN q.tubes
  BY <1>5, <1>7, StillKeeps, Zenon DEF Still
<1>9. Watched(r, w, X \ {t}) /\ Moved(q, r)
  BY <1>7, <1>8, GcWatched, Zenon
<1>10. X \ {t} = {}
  BY Zenon
<1> HIDE DEF r
<1>11. Kept(s, y) /\ Kept(y, z) /\ Kept(z, q) /\ Kept(q, r)
  BY <1>2, <1>5, <1>7, <1>9, KeptBy, ZenonT(30)
<1>12. Kept(s, r)
  BY <1>11, KeptBy, Zenon
<1> QED BY <1>1, <1>9, <1>10, <1>12, Zenon

\* Pauses begin or end, and nothing else.
Repaused(s, r) ==
    /\ {"tubes", "tube_order", "conns"} \subseteq DOMAIN r
    /\ r.conns = s.conns /\ r.tube_order = s.tube_order /\ DOMAIN r.tubes = DOMAIN s.tubes
    /\ \A t \in DOMAIN s.tubes :
         /\ TubeKeys \subseteq DOMAIN r.tubes[t] /\ SameRefs(r.tubes[t], s.tubes[t])
         /\ r.tubes[t].waiting_conns = s.tubes[t].waiting_conns /\ r.tubes[t].ready = s.tubes[t].ready

\* They say nothing of who watches and waits.
LEMMA RepausedKeeps ==
    ASSUME NEW s, NEW r, Repaused(s, r), NEW w, NEW x
    PROVE  /\ Watched(s, w, x) => Watched(r, w, x)
           /\ Registered(s) => Registered(r)
           /\ Ticked(s) => Ticked(r)
           /\ Shaped(s) => Shaped(r)
<1>1. \A t : Watchers(r, t) = Watchers(s, t)
  BY Zenon DEF Repaused, Watchers
<1>2. \A t \in DOMAIN s.tubes :
        /\ r.tubes[t].using_ct = s.tubes[t].using_ct /\ r.tubes[t].job_ref_ct = s.tubes[t].job_ref_ct
        /\ r.tubes[t].watching_ct = s.tubes[t].watching_ct /\ refs(r.tubes[t]) = refs(s.tubes[t])
  BY Zenon DEF Repaused, SameRefs, refs
<1>3. Watched(s, w, x) => Watched(r, w, x)
  BY <1>1, <1>2, ZenonT(60) DEF Repaused, Watched, Ordered, WatchesLive, Counted
<1>4. Registered(s) => Registered(r)
  BY ZenonT(30) DEF Repaused, Registered
<1>5. (Ticked(s) => Ticked(r)) /\ (Shaped(s) => Shaped(r))
  BY Zenon DEF Repaused, Ticked, Shaped
<1> QED BY <1>3, <1>4, <1>5, Zenon

\* pause-tube leaves one tube less to serve,
LEMMA PauseKeeps ==
    ASSUME NEW s, Shaped(s), NEW t \in DOMAIN s.tubes, NEW delay \in Nat, NEW at \in Nat
    PROVE  LET r == cmd_pause_tube(s, t, delay, at)
           IN  Repaused(s, r) /\ Wanting(r) \subseteq Wanting(s)
<1> DEFINE n == at + (IF delay = 0 THEN 1 ELSE delay * NanosPerSec)
           r == cmd_pause_tube(s, t, delay, at)
           T == [s.tubes[t] EXCEPT !.unpause_at = n]
<1>1. n \in Nat /\ n # None
  BY ConstantsAssumption
<1>2. /\ {"tubes", "tube_order", "conns"} \subseteq DOMAIN r
      /\ r.tubes = [s.tubes EXCEPT ![t] = T] /\ r.conns = s.conns /\ r.tube_order = s.tube_order
  BY Zenon DEF cmd_pause_tube, Shaped
<1> HIDE DEF n, r
<1>3. /\ TubeKeys \subseteq DOMAIN T /\ SameRefs(T, s.tubes[t]) /\ T.unpause_at = n
      /\ T.waiting_conns = s.tubes[t].waiting_conns /\ T.ready = s.tubes[t].ready
  BY Zenon DEF Shaped, TubeKeys, SameRefs
<1> HIDE DEF T
<1>4. Repaused(s, r)
  BY <1>2, <1>3, Zenon DEF Repaused, Shaped, SameRefs
<1>5. Wanting(r) \subseteq Wanting(s)
  BY <1>1, <1>2, <1>3, ZenonT(60) DEF Wanting
<1> QED BY <1>4, <1>5, Zenon DEF r

\* and clear_expired_pauses ends some.
LEMMA ClearKeeps ==
    ASSUME NEW s, Shaped(s), NEW at
    PROVE  Repaused(s, clear_expired_pauses(s, at))
<1> DEFINE r == clear_expired_pauses(s, at)
           n == None
           T(t) == [s.tubes[t] EXCEPT !.unpause_at = n]
<1>1. /\ {"tubes", "tube_order", "conns"} \subseteq DOMAIN r
      /\ r.conns = s.conns /\ r.tube_order = s.tube_order
      /\ DOMAIN r.tubes = DOMAIN s.tubes
      /\ \A t \in DOMAIN s.tubes : r.tubes[t] \in {s.tubes[t], T(t)}
  BY Zenon DEF clear_expired_pauses, Shaped
<1> HIDE DEF r, n
<1>2. ASSUME NEW t \in DOMAIN s.tubes
      PROVE  /\ TubeKeys \subseteq DOMAIN T(t) /\ SameRefs(T(t), s.tubes[t])
             /\ T(t).waiting_conns = s.tubes[t].waiting_conns /\ T(t).ready = s.tubes[t].ready
  BY Zenon DEF Shaped, TubeKeys, SameRefs
<1> HIDE DEF T
<1>3. Repaused(s, r)
  BY <1>1, <1>2, ZenonT(60) DEF Repaused, Shaped, SameRefs
<1> QED BY <1>3, Zenon DEF r
-----------------------------------------------------------------------------
(* Waits begin and end.                                                    *)

\* The list of waiters of a tube is in order.
WaitList(ts) == ts.waiting_conns \in MsType /\ IsInjective(ts.waiting_conns.items)

\* A tube's list of waiters has lost c, and nothing else changed.
Lost(T, ts, c) ==
    /\ TubeKeys \subseteq DOMAIN T /\ WaitList(T)
    /\ T.unpause_at = ts.unpause_at /\ T.ready = ts.ready /\ SameRefs(T, ts)
    /\ Range(ts.waiting_conns.items) \ {c} \subseteq Range(T.waiting_conns.items)
    /\ T.waiting_conns.items # <<>> => ts.waiting_conns.items # <<>>

\* drop_waiter, take_waiter and add_waiter, by what they do to the list.
LEMMA WaiterEdits ==
    ASSUME NEW ts, TubeKeys \subseteq DOMAIN ts, WaitList(ts), NEW c
    PROVE  /\ Lost(ts, ts, c) /\ Lost(drop_waiter(ts, c), ts, c)
           /\ ts.waiting_conns.items # <<>>
                => Lost(take_waiter(ts), ts, ms_taken(ts.waiting_conns))
           /\ c \in ConnIds =>
                LET T == add_waiter(ts, c)
                IN  /\ TubeKeys \subseteq DOMAIN T /\ SameRefs(T, ts)
                    /\ Range(T.waiting_conns.items) = Range(ts.waiting_conns.items) \cup {c}
<1> DEFINE q == ts.waiting_conns
           L == list_swap_remove(q.items, c)
           i == ms_cursor(q) + 1
           M == swap_remove(q.items, i)
<1>1. q.items \in Seq(ConnIds) /\ q.last \in Nat /\ DOMAIN q = {"items", "last"}
  BY Zenon DEF WaitList, MsType
<1>2. ASSUME NEW m, NEW b
      PROVE  LET T == [[ts EXCEPT !.waiting_conns = m] EXCEPT !.dispatchable = b]
             IN  /\ TubeKeys \subseteq DOMAIN T /\ T.waiting_conns = m
                 /\ T.unpause_at = ts.unpause_at /\ T.ready = ts.ready /\ SameRefs(T, ts)
  BY Zenon DEF TubeKeys, SameRefs
<1>3. Lost(ts, ts, c)
  BY Zenon DEF Lost, SameRefs
<1>4. Lost(drop_waiter(ts, c), ts, c)
  <2>1. L \in Seq(ConnIds) /\ Range(L) = Range(q.items) \ {c} /\ IsInjective(L)
    BY <1>1, ListSwapRemove, Zenon DEF WaitList
  <2> DEFINE m == [q EXCEPT !.items = L]
             n == saturating_sub(ts.waiting_ct, 1)
             y == [ts EXCEPT !.waiting_conns = m, !.waiting_ct = n]
             b == y.waiting_conns.items # <<>> /\ y.ready # {}
             T == [y EXCEPT !.dispatchable = b]
  <2>2. drop_waiter(ts, c) = T
    BY Zenon DEF drop_waiter, ms_remove, refresh_dispatchable
  <2> HIDE DEF n, b, L
  <2>3. m \in MsType /\ m.items = L
    BY <2>1, Zenon DEF WaitList, MsType
  <2> HIDE DEF m
  <2>4. /\ TubeKeys \subseteq DOMAIN T /\ T.waiting_conns = m
        /\ T.unpause_at = ts.unpause_at /\ T.ready = ts.ready /\ SameRefs(T, ts)
    BY Zenon DEF TubeKeys, SameRefs
  <2> HIDE DEF T
  <2>5. L # <<>> => q.items # <<>>
    <3>1. SUFFICES ASSUME L # <<>>, q.items = <<>> PROVE FALSE
      BY Zenon
    <3>2. L[1] \in Range(L)
      BY <2>1, <3>1, SMTT(30) DEF Range
    <3> QED BY <2>1, <3>1, <3>2, SMTT(30) DEF Range
  <2> HIDE DEF q
  <2>6. Lost(T, ts, c)
    BY <2>1, <2>3, <2>4, <2>5, ZenonT(60) DEF Lost, WaitList, q
  <2> QED BY <2>2, <2>6, ZenonT(60)
<1>5. ASSUME q.items # <<>> PROVE Lost(take_waiter(ts), ts, ms_taken(q))
  <2>1. i \in 1..Len(q.items) /\ i \in Nat /\ ms_taken(q) = q.items[i]
    <3>1. Len(q.items) \in Nat \ {0}
      BY <1>1, <1>5, SMTT(30)
    <3>2. q.last % Len(q.items) \in 0..(Len(q.items) - 1)
      BY <1>1, <3>1, SMTT(30)
    <3> QED BY <3>1, <3>2, SMTT(30) DEF ms_cursor, ms_taken
  <2> DEFINE m == [items |-> M, last |-> i]
             y == [ts EXCEPT !.waiting_conns = m]
             b == y.waiting_conns.items # <<>> /\ y.ready # {}
             T == [y EXCEPT !.dispatchable = b]
  <2>2. take_waiter(ts) = T
    BY Zenon DEF take_waiter, ms_take, refresh_dispatchable
  <2> HIDE DEF i, b
  <2>3. M \in Seq(ConnIds) /\ Range(M) = Range(q.items) \ {q.items[i]} /\ IsInjective(M)
    BY <1>1, <2>1, SwapRemove, ZenonT(60) DEF WaitList
  <2> HIDE DEF M
  <2>4. m \in MsType /\ m.items = M
    BY <2>1, <2>3, ZenonT(60) DEF MsType
  <2> HIDE DEF m
  <2>5. /\ TubeKeys \subseteq DOMAIN T /\ T.waiting_conns = m
        /\ T.unpause_at = ts.unpause_at /\ T.ready = ts.ready /\ SameRefs(T, ts)
    BY <1>2, ZenonT(30)
  <2> HIDE DEF T
  <2>6. Lost(T, ts, q.items[i])
    BY <1>5, <2>3, <2>4, <2>5, ZenonT(60) DEF Lost, WaitList
  <2> QED BY <2>1, <2>2, <2>6, ZenonT(60)
<1>6. ASSUME c \in ConnIds
      PROVE  LET T == add_waiter(ts, c)
             IN  /\ TubeKeys \subseteq DOMAIN T /\ SameRefs(T, ts)
                 /\ Range(T.waiting_conns.items) = Range(q.items) \cup {c}
  <2> DEFINE A == Append(q.items, c)
             m == [q EXCEPT !.items = A]
             n == ts.waiting_ct + 1
             y == [ts EXCEPT !.waiting_conns = m, !.waiting_ct = n]
             b == y.waiting_conns.items # <<>> /\ y.ready # {}
             T == [y EXCEPT !.dispatchable = b]
  <2>1. add_waiter(ts, c) = T
    BY Zenon DEF add_waiter, ms_append, refresh_dispatchable
  <2>2. Range(A) = Range(q.items) \cup {c}
    BY <1>1, <1>6, AppendNew, SMTT(30)
  <2> HIDE DEF n, b, A
  <2>3. m.items = A
    BY <1>1, Zenon
  <2> HIDE DEF m
  <2>4. TubeKeys \subseteq DOMAIN T /\ T.waiting_conns = m /\ SameRefs(T, ts)
    BY Zenon DEF TubeKeys, SameRefs
  <2> HIDE DEF T
  <2> QED BY <2>1, <2>2, <2>3, <2>4, ZenonT(60)
<1> QED BY <1>3, <1>4, <1>5, <1>6, Zenon

\* set_wait leaves an exact tick.
LEMMA WaitSet ==
    ASSUME NEW cs, ConnKeys \subseteq DOMAIN cs, NEW d
    PROVE  /\ LET C == set_wait(cs, TRUE, d)
              IN  ConnKeys \subseteq DOMAIN C /\ C.watch = cs.watch /\ C.waiting /\ Timed(C)
           /\ LET C == set_wait(cs, FALSE, d)
              IN  ConnKeys \subseteq DOMAIN C /\ C.watch = cs.watch /\ ~C.waiting /\ Timed(C)
<1> DEFINE m == [cs EXCEPT !.waiting = TRUE, !.wait_deadline = d]
           n == [cs EXCEPT !.waiting = FALSE, !.wait_deadline = d]
<1>1. set_wait(cs, TRUE, d) = refresh_conn_tick(m) /\ set_wait(cs, FALSE, d) = refresh_conn_tick(n)
  BY Zenon DEF set_wait
<1>2. DOMAIN m = DOMAIN cs /\ m.watch = cs.watch /\ m.waiting
  BY Zenon DEF ConnKeys
<1>3. DOMAIN n = DOMAIN cs /\ n.watch = cs.watch /\ ~n.waiting
  BY Zenon DEF ConnKeys
<1> HIDE DEF m, n
<1> QED BY <1>1, <1>2, <1>3, RefreshTimes, ZenonT(60)

\* The lists of waiters are in order.
WaitLists(s) == \A t \in DOMAIN s.tubes : WaitList(s.tubes[t])

\* At most connection c left lists of waiters, and nobody began to wait.
Fewer(s, r, c) ==
    /\ {"tubes", "tube_order", "conns"} \subseteq DOMAIN r
    /\ DOMAIN r.tubes = DOMAIN s.tubes /\ DOMAIN r.conns = DOMAIN s.conns
    /\ r.tube_order = s.tube_order
    /\ \A t \in DOMAIN s.tubes : Lost(r.tubes[t], s.tubes[t], c)
    /\ \A d \in DOMAIN s.conns :
         /\ ConnKeys \subseteq DOMAIN r.conns[d] /\ r.conns[d].watch = s.conns[d].watch
         /\ r.conns[d].waiting => s.conns[d].waiting
         /\ Timed(s.conns[d]) => Timed(r.conns[d])

\* Once c does not wait either, the registrations are still complete.
LEMMA FewerKeeps ==
    ASSUME NEW s, NEW r, NEW c, Fewer(s, r, c), NEW w, NEW x
    PROVE  /\ Shaped(r) /\ WaitLists(r)
           /\ Watched(s, w, x) => Watched(r, w, x)
           /\ ~r.conns[c].waiting => Kept(s, r)
<1>1. \A t : Watchers(r, t) = Watchers(s, t)
  BY Zenon DEF Fewer, Watchers
<1>2. \A t \in DOMAIN s.tubes :
        /\ r.tubes[t].using_ct = s.tubes[t].using_ct /\ r.tubes[t].job_ref_ct = s.tubes[t].job_ref_ct
        /\ r.tubes[t].watching_ct = s.tubes[t].watching_ct /\ refs(r.tubes[t]) = refs(s.tubes[t])
  BY ZenonT(30) DEF Fewer, Lost, SameRefs, refs
<1>3. Watched(s, w, x) => Watched(r, w, x)
  BY <1>1, <1>2, ZenonT(60) DEF Fewer, Watched, Ordered, WatchesLive, Counted
<1>4. Shaped(r) /\ WaitLists(r)
  BY ZenonT(30) DEF Fewer, Lost, Shaped, WaitLists
<1>5. Ticked(s) => Ticked(r)
  BY Zenon DEF Fewer, Ticked
<1>6. Wanting(r) \subseteq Wanting(s)
  BY Zenon DEF Fewer, Lost, Wanting
<1>7. ~r.conns[c].waiting /\ Registered(s) => Registered(r)
  BY Zenon DEF Fewer, Lost, Registered
<1> QED BY <1>3, <1>4, <1>5, <1>6, <1>7, ZenonT(60) DEF Kept

\* Such updates compose.
LEMMA FewerTrans ==
    ASSUME NEW s, NEW r, NEW q, NEW c, Fewer(s, r, c), Fewer(r, q, c)
    PROVE  Fewer(s, q, c)
<1>1. ASSUME NEW T, NEW U, NEW V, Lost(U, V, c), Lost(T, U, c) PROVE Lost(T, V, c)
  BY <1>1, Zenon DEF Lost, SameRefs
<1>2. \A t \in DOMAIN s.tubes : Lost(q.tubes[t], s.tubes[t], c)
  BY <1>1, Zenon DEF Fewer
<1> QED BY <1>2, ZenonT(30) DEF Fewer

\* Ms::take on one tube.
LEMMA TakeFewer ==
    ASSUME NEW s, Shaped(s), WaitLists(s), NEW t \in DOMAIN s.tubes,
           s.tubes[t].waiting_conns.items # <<>>
    PROVE  Fewer(s, [s EXCEPT !.tubes[t] = take_waiter(@)], ms_taken(s.tubes[t].waiting_conns))
<1> DEFINE T == take_waiter(s.tubes[t])
           c == ms_taken(s.tubes[t].waiting_conns)
           r == [s EXCEPT !.tubes[t] = take_waiter(@)]
<1>1. /\ {"tubes", "tube_order", "conns"} \subseteq DOMAIN r
      /\ r.tubes = [s.tubes EXCEPT ![t] = T] /\ r.conns = s.conns /\ r.tube_order = s.tube_order
  BY Zenon DEF Shaped
<1>2. Lost(T, s.tubes[t], c) /\ \A u \in DOMAIN s.tubes : Lost(s.tubes[u], s.tubes[u], c)
  BY WaiterEdits, Zenon DEF Shaped, WaitLists
<1> HIDE DEF T, c, r
<1>3. Fewer(s, r, c)
  BY <1>1, <1>2, ZenonT(30) DEF Fewer, Shaped
<1> QED BY <1>3, Zenon DEF r, c

\* do_remove_waiting_conn: c leaves every list and waits no more.
LEMMA RemoveFewer ==
    ASSUME NEW s, Shaped(s), WaitLists(s), NEW c \in DOMAIN s.conns
    PROVE  LET r == do_remove_waiting_conn(s, c) IN Fewer(s, r, c) /\ ~r.conns[c].waiting
<1> DEFINE r == do_remove_waiting_conn(s, c)
           C == set_wait(s.conns[c], FALSE, None)
           W == Range(s.conns[c].watch)
           T(t) == drop_waiter(s.tubes[t], c)
<1>1. \A u \in DOMAIN s.tubes : Lost(s.tubes[u], s.tubes[u], c) /\ Lost(T(u), s.tubes[u], c)
  BY WaiterEdits, ZenonT(60) DEF Shaped, WaitLists
<1>2. CASE ~s.conns[c].waiting
  <2>1. r = s
    BY <1>2, Zenon DEF do_remove_waiting_conn
  <2> QED BY <1>1, <1>2, <2>1, ZenonT(60) DEF Fewer, Shaped
<1>3. CASE s.conns[c].waiting
  <2>1. ConnKeys \subseteq DOMAIN C /\ C.watch = s.conns[c].watch /\ ~C.waiting /\ Timed(C)
    <3>1. ConnKeys \subseteq DOMAIN s.conns[c]
      BY ZenonT(60) DEF Shaped
    <3> QED BY <3>1, WaitSet, Zenon
  <2>2. /\ {"tubes", "tube_order", "conns"} \subseteq DOMAIN r /\ r.tube_order = s.tube_order
        /\ r.conns = [s.conns EXCEPT ![c] = C]
        /\ r.tubes = [t \in DOMAIN s.tubes |-> IF t \in W THEN T(t) ELSE s.tubes[t]]
    BY <1>3, Zenon DEF do_remove_waiting_conn, Shaped
  <2> HIDE DEF r, C, T, W
  <2>3. \A t \in DOMAIN s.tubes : Lost(r.tubes[t], s.tubes[t], c)
    BY <1>1, <2>2, ZenonT(60)
  <2>4. Fewer(s, r, c)
    BY <2>1, <2>2, <2>3, ZenonT(60) DEF Fewer, Shaped
  <2> QED BY <2>1, <2>2, <2>4, ZenonT(60) DEF r
<1> QED BY <1>2, <1>3, ZenonT(60)

\* enqueue_waiting_conn registers c with every tube it watches.
LEMMA EnqueueRegistered ==
    ASSUME NEW s, Shaped(s), WaitLists(s), NEW c \in DOMAIN s.conns, c \in ConnIds, NEW d, NEW w, NEW x
    PROVE  LET r == enqueue_waiting_conn(s, c, d)
           IN  /\ Watched(s, w, x) => Watched(r, w, x)
               /\ Registered(s) => Registered(r)
               /\ Ticked(s) => Ticked(r)
<1> DEFINE r == enqueue_waiting_conn(s, c, d)
           C == set_wait(s.conns[c], TRUE, d)
           W == Range(s.conns[c].watch)
           T(t) == add_waiter(s.tubes[t], c)
<1>1. ASSUME NEW t \in DOMAIN s.tubes
      PROVE  /\ SameRefs(T(t), s.tubes[t])
             /\ Range(T(t).waiting_conns.items) = Range(s.tubes[t].waiting_conns.items) \cup {c}
  BY WaiterEdits, Zenon DEF Shaped, WaitLists
<1>2. C.watch = s.conns[c].watch /\ C.waiting /\ Timed(C)
  <2>1. ConnKeys \subseteq DOMAIN s.conns[c]
    BY Zenon DEF Shaped
  <2> QED BY <2>1, WaitSet, Zenon
<1>3. /\ r.tube_order = s.tube_order /\ r.conns = [s.conns EXCEPT ![c] = C]
      /\ r.tubes = [t \in DOMAIN s.tubes |-> IF t \in W THEN T(t) ELSE s.tubes[t]]
  BY ZenonT(60) DEF enqueue_waiting_conn, Shaped
<1> HIDE DEF r, C, T, W
<1>4. \A t : Watchers(r, t) = Watchers(s, t)
  BY <1>2, <1>3, SMTT(30) DEF Watchers
<1>5. \A t \in DOMAIN s.tubes :
        /\ r.tubes[t].using_ct = s.tubes[t].using_ct /\ r.tubes[t].job_ref_ct = s.tubes[t].job_ref_ct
        /\ r.tubes[t].watching_ct = s.tubes[t].watching_ct /\ refs(r.tubes[t]) = refs(s.tubes[t])
  BY <1>1, <1>3, ZenonT(60) DEF SameRefs, refs
<1>6. /\ DOMAIN r.conns = DOMAIN s.conns /\ DOMAIN r.tubes = DOMAIN s.tubes
      /\ \A e \in DOMAIN s.conns : r.conns[e].watch = s.conns[e].watch
  <2>1. DOMAIN r.conns = DOMAIN s.conns /\ r.conns[c] = C
    BY <1>3, Zenon
  <2>2. \A e \in DOMAIN s.conns : e # c => r.conns[e] = s.conns[e]
    BY <1>3, Zenon
  <2>3. DOMAIN r.tubes = DOMAIN s.tubes
    BY <1>3, Zenon
  <2> QED BY <1>2, <2>1, <2>2, <2>3, ZenonT(60)
<1>7. Watched(s, w, x) => Watched(r, w, x)
  <2>1. r.tube_order = s.tube_order
    BY <1>3, Zenon
  <2> QED BY <1>4, <1>5, <1>6, <2>1, ZenonT(60) DEF Watched, Ordered, WatchesLive, Counted
<1>8. Ticked(s) => Ticked(r)
  BY <1>2, <1>3, ZenonT(30) DEF Ticked
<1>9. ASSUME Registered(s), NEW t \in DOMAIN r.tubes, NEW e \in DOMAIN r.conns,
             r.conns[e].waiting, t \in Range(r.conns[e].watch)
      PROVE  e \in Range(r.tubes[t].waiting_conns.items)
  <2>1. CASE e = c
    <3>1. t \in W /\ t \in DOMAIN s.tubes
      BY <1>2, <1>3, <1>9, <2>1, ZenonT(60) DEF W
    <3> QED BY <1>1, <1>3, <2>1, <3>1, ZenonT(60)
  <2>2. CASE e # c
    <3>1. /\ e \in DOMAIN s.conns /\ t \in DOMAIN s.tubes /\ r.conns[e] = s.conns[e]
          /\ r.tubes[t] \in {T(t), s.tubes[t]}
      BY <1>3, <1>6, <1>9, <2>2, ZenonT(60)
    <3>2. e \in Range(s.tubes[t].waiting_conns.items)
      BY <1>9, <3>1, Zenon DEF Registered
    <3> QED BY <1>1, <3>1, <3>2, ZenonT(60)
  <2> QED BY <2>1, <2>2, Zenon
<1>10. Registered(s) => Registered(r)
  BY <1>9, Zenon DEF Registered
<1> QED BY <1>7, <1>8, <1>10, ZenonT(60) DEF r

\* One round of process_queue: the chosen waiter leaves every list, and its
\* reservation sets its tick.
LEMMA AssignKept ==
    ASSUME NEW s, Shaped(s), WaitLists(s), NEW at, NEW w, Watched(s, w, {}),
           best_tube(s) \in DOMAIN s.tubes, s.tubes[best_tube(s)].waiting_conns.items # <<>>,
           ms_taken(s.tubes[best_tube(s)].waiting_conns) \in DOMAIN s.conns
    PROVE  LET r == assign_best(s, at) IN Watched(r, w, {}) /\ Kept(s, r)
<1> DEFINE t  == best_tube(s)
           id == first(s.tubes[t].ready)[2]
           c  == ms_taken(s.tubes[t].waiting_conns)
           s1 == remove_ready(s, t, id)
           s2 == [s1 EXCEPT !.tubes[t] = take_waiter(@)]
           s3 == do_remove_waiting_conn(s2, c)
           s4 == do_reserve(s3, c, id, at)
           s5 == reply(s4, c)
<1>1. assign_best(s, at) = s5
  BY Zenon DEF assign_best
<1> HIDE DEF t, id
<1>2. Still(s, s1) /\ NoneReady(s, s1) /\ Shaped(s1)
  BY RemovesStill, StillTrans, Zenon
<1>3. /\ WaitLists(s1) /\ t \in DOMAIN s1.tubes /\ c \in DOMAIN s1.conns
      /\ s1.tubes[t].waiting_conns = s.tubes[t].waiting_conns
      /\ Watched(s1, w, {}) /\ Kept(s, s1)
  <2> HIDE DEF s1, c
  <2>1. /\ DOMAIN s1.tubes = DOMAIN s.tubes /\ DOMAIN s1.conns = DOMAIN s.conns
        /\ \A u \in DOMAIN s.tubes : s1.tubes[u].waiting_conns = s.tubes[u].waiting_conns
    BY <1>2, Zenon DEF Still, SameTube
  <2> QED BY <1>2, <2>1, StillKeeps, KeptBy, ZenonT(60) DEF WaitLists, WaitList, t, c
<1> HIDE DEF s1
<1>4. Fewer(s1, s2, c)
  <2>1. s1.tubes[t].waiting_conns.items # <<>> /\ c = ms_taken(s1.tubes[t].waiting_conns)
    BY <1>3, Zenon DEF t
  <2> HIDE DEF c
  <2> QED BY <1>2, <1>3, <2>1, TakeFewer, ZenonT(60)
<1> HIDE DEF s2, c
<1>5. Shaped(s2) /\ WaitLists(s2) /\ c \in DOMAIN s2.conns
  BY <1>3, <1>4, FewerKeeps, ZenonT(60) DEF Fewer
<1>6. Fewer(s2, s3, c) /\ ~s3.conns[c].waiting
  BY <1>5, RemoveFewer, ZenonT(30)
<1> HIDE DEF s3
<1>7. Fewer(s1, s3, c)
  BY <1>4, <1>6, FewerTrans, Zenon
<1>8. Shaped(s3) /\ Watched(s3, w, {}) /\ Kept(s1, s3)
  BY <1>3, <1>6, <1>7, FewerKeeps, ZenonT(60)
<1>9. Still(s3, s4) /\ NoneReady(s3, s4) /\ Shaped(s4)
  BY <1>8, ReservesStill, StillTrans, Zenon
<1> HIDE DEF s4
<1>10. Still(s4, s5) /\ NoneReady(s4, s5)
  BY <1>9, PlainStill, Zenon
<1> HIDE DEF s5
<1>11. Watched(s5, w, {})
  BY <1>8, <1>9, <1>10, StillKeeps, ZenonT(60)
<1>12. Kept(s3, s4) /\ Kept(s4, s5)
  BY <1>9, <1>10, KeptBy, ZenonT(60)
<1>13. Kept(s, s5)
  BY <1>3, <1>8, <1>12, KeptBy, ZenonT(60)
<1> QED BY <1>1, <1>11, <1>13, Zenon
=============================================================================
