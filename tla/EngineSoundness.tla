-------------------------- MODULE EngineSoundness ---------------------------
(***************************************************************************)
(* The inductive invariant of the job engine.                              *)
(*                                                                         *)
(* IInv is Sound (module Soundness) together with what the frame of the    *)
(* running call promises about its connection (FrameSound) and what every  *)
(* connection is owed (DutiesSound).  Attended, which rests on it, is what *)
(* keeps watches, waits and timers in step with the rest.                  *)
(***************************************************************************)
EXTENDS EngineInvariants, Soundness

\* The calls that work for the connection in their frame.
OwnCalls == {"reply", "kick", "reserve_now", "conn_timeout", "disconnect", "unwatch"}

\* The connection of the running call is live; a call that answers it or ends
\* it does not leave it waiting; disconnect still has to give back exactly the
\* jobs it holds, and kick works on the tube it uses.
FrameSound(s, f) ==
    /\ f \in CallType
    /\ f.fn \in OwnCalls => f.conn \in DOMAIN s.conns
    /\ f.fn \in {"reply", "kick", "disconnect", "unwatch"} => ~s.conns[f.conn].waiting
    /\ f.fn = "disconnect" => f.jobs = s.conns[f.conn].reserved
    /\ f.fn = "unwatch" => s.conns[f.conn].reserved = <<>>
    /\ f.fn = "kick" => f.tube = s.conns[f.conn].use_tube

\* The frame will answer connection c.
Answering(f, c) == f.fn \in {"reply", "kick"} /\ f.conn = c

\* The frame is removing connection c.
Leaving(f, c) == f.fn \in {"disconnect", "unwatch"} /\ f.conn = c

\* What connection c is owed, and that no put waits for its body meanwhile.
Duty(f, c, cs) ==
    /\ Leaving(f, c) \/ cs.owed = IF cs.waiting \/ Answering(f, c) THEN 1 ELSE 0
    /\ cs.waiting => cs.pending_put = None

\* Every connection is owed what its state says.
DutiesSound(s, f) == \A c \in DOMAIN s.conns : Duty(f, c, s.conns[c])

\* The inductive invariant.
IInv ==
    /\ Sound(eng, {})
    /\ FrameSound(eng, call)
    /\ DutiesSound(eng, call)
    /\ pq \in BOOLEAN /\ now \in Nat
-----------------------------------------------------------------------------
(* Who watches, who waits, and which timers run.                           *)

\* The connections that watch tube t.
Watchers(s, t) == {c \in DOMAIN s.conns : t \in Range(s.conns[c].watch)}

\* A disconnect has yet to drop its watch of t.
Dropping(w, t) == IF t \in Range(w) THEN 1 ELSE 0

\* The list of tubes holds live tubes, once each, "default" first.
Ordered(s) ==
    /\ s.tube_order \in Seq(TubeNames) /\ IsInjective(s.tube_order)
    /\ s.tube_order # <<>> /\ s.tube_order[1] = DefaultTube
    /\ Range(s.tube_order) \subseteq DOMAIN s.tubes

\* A list of watched tubes holds live tubes, once each.
WatchesLive(s, q) ==
    q \in Seq(TubeNames) /\ IsInjective(q) /\ Range(q) \subseteq DOMAIN s.tubes

\* watching_ct counts the watchers of a tube, with a watch that a disconnect has
\* yet to drop, and something refers to a tube that is not "default" or in x.
Counted(s, w, x, t) ==
    LET ts == s.tubes[t]
    IN  /\ ts.using_ct \in Nat /\ ts.job_ref_ct \in Nat
        /\ ts.watching_ct = Cardinality(Watchers(s, t)) + Dropping(w, t)
        /\ t \in {DefaultTube} \cup x \/ refs(ts) > 0

\* The watches and the references are right, with the watches w that a
\* disconnect has yet to drop and the tubes x that are not collected yet.
Watched(s, w, x) ==
    /\ IsFiniteSet(DOMAIN s.conns)
    /\ Ordered(s)
    /\ WatchesLive(s, w)
    /\ \A c \in DOMAIN s.conns : WatchesLive(s, s.conns[c].watch)
    /\ \A t \in DOMAIN s.tubes : Counted(s, w, x, t)

\* A waiting connection is registered with every tube it watches.
Registered(s) ==
    \A t \in DOMAIN s.tubes, c \in DOMAIN s.conns :
        s.conns[c].waiting /\ t \in Range(s.conns[c].watch)
            => c \in Range(s.tubes[t].waiting_conns.items)

\* The recorded tick of a connection is the one its record asks for.
Timed(cs) == cs.tick_key = conn_tickat(cs)

\* The recorded tick of every connection is exact.
Ticked(s) == \A c \in DOMAIN s.conns : Timed(s.conns[c])

\* The tubes that could be served.
Wanting(s) ==
    {t \in DOMAIN s.tubes : /\ s.tubes[t].waiting_conns.items # <<>> /\ s.tubes[t].ready # {}
                            /\ s.tubes[t].unpause_at = None}

\* The watches and the reference counts are right, waiting connections are
\* registered, timers are exact, and outside process_queue no tube could be
\* served.  Only a disconnect has watches left to drop, its connection has
\* none then, and process_queue runs neither there nor outside a call.
Attended ==
    /\ Watched(eng, call.watch, {}) /\ Registered(eng) /\ Ticked(eng)
    /\ call.fn # "unwatch" => call.watch = <<>>
    /\ call.fn = "unwatch" => eng.conns[call.conn].watch = <<>>
    /\ call.fn \in {"none", "unwatch"} => ~pq
    /\ ~pq => Wanting(eng) = {}

\* What kick and process_queue pick is there: the first buried or delayed job of
\* a tube, and the tube that is served first with a connection that waits for it.
Chosen(s, at) ==
    /\ \A t \in DOMAIN s.tubes :
         /\ s.tubes[t].buried # <<>> => JobIn(s, t, Head(s.tubes[t].buried), "buried")
         /\ s.tubes[t].delayed # {} => JobIn(s, t, first(s.tubes[t].delayed)[2], "delayed")
    /\ LET r == clear_expired_pauses(s, at)
           t == best_tube(r)
       IN  /\ Sound(r, {})
           /\ serving(r) # {} =>
                /\ t \in DOMAIN r.tubes /\ r.tubes[t].waiting_conns.items # <<>>
                /\ ms_taken(r.tubes[t].waiting_conns) \in DOMAIN r.conns
=============================================================================
