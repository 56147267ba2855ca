------------------------------ MODULE JobProofs -----------------------------
(***************************************************************************)
(* The operations on jobs and on tubes keep the engine record sound: the   *)
(* journal, the commands on a job, a job that comes into being with a put  *)
(* or goes with a delete, the choice that process_queue makes, and the     *)
(* tubes and connections that come and go.                                 *)
(***************************************************************************)
EXTENDS StateProofs


\* Journal entries are typed, and pushing one touches nothing else.
LEMMA PushJournal ==
    ASSUME NEW s, NEW hand, Sound(s, hand), NEW entry \in JournalType
    PROVE  Sound(push_journal(s, entry), hand) /\ SameCore(s, push_journal(s, entry))
<1> DEFINE r == [s EXCEPT !.journal = Append(s.journal, entry)]
<1>1. EngineType(r) /\ SameCore(s, r)
  <2>1. Append(s.journal, entry) \in Seq(JournalType)
    BY DEF Sound, EngineType
  <2> DEFINE q == Append(s.journal, entry)
  <2> HIDE DEF q
  <2>2. EngineType([s EXCEPT !.journal = q]) /\ SameCore(s, [s EXCEPT !.journal = q])
    BY <2>1, Zenon DEF Sound, EngineType, SameCore, q
  <2> QED BY <2>2, Zenon DEF q
<1>2. Sound(r, hand)
  BY <1>1, CoreKept, Zenon
<1>3. push_journal(s, entry) = r \/ push_journal(s, entry) = s
  BY Zenon DEF push_journal
<1>4. SameCore(s, s)
  BY Zenon DEF SameCore
<1> HIDE DEF r
<1> QED BY <1>1, <1>2, <1>3, <1>4, Zenon

\* job_record makes what the journal stores of a job.
LEMMA JobRecord ==
    ASSUME NEW j \in JobType
    PROVE  job_record(j) \in RecordType
<1>1. j.pri \in Nat /\ j.ttr \in Nat /\ j.state \in States /\ j.deadline_at \in Nat
  BY Zenon DEF JobType
<1>2. (IF j.state = "reserved" THEN "ready" ELSE j.state) \in States
      /\ (IF j.state = "delayed" THEN j.deadline_at ELSE 0) \in Nat
  BY <1>1, Zenon DEF States
<1> QED BY <1>1, <1>2, Zenon DEF job_record, RecordType

\* journal_put, journal_update and journal_delete.
LEMMA JournalCalls ==
    ASSUME NEW s, NEW hand, Sound(s, hand), NEW id \in Nat
    PROVE  /\ Sound(journal_delete(s, id), hand) /\ SameCore(s, journal_delete(s, id))
           /\ id \in DOMAIN s.jobs =>
                /\ Sound(journal_put(s, id), hand) /\ SameCore(s, journal_put(s, id))
                /\ Sound(journal_update(s, id), hand) /\ SameCore(s, journal_update(s, id))
<1>1. Sound(journal_delete(s, id), hand) /\ SameCore(s, journal_delete(s, id))
  <2>1. [op |-> "delete", id |-> id] \in JournalType
    BY Zenon DEF JournalType
  <2> QED BY <2>1, PushJournal, Zenon DEF journal_delete
<1>2. ASSUME id \in DOMAIN s.jobs
      PROVE  /\ Sound(journal_put(s, id), hand) /\ SameCore(s, journal_put(s, id))
             /\ Sound(journal_update(s, id), hand) /\ SameCore(s, journal_update(s, id))
  <2> DEFINE rec == job_record(s.jobs[id])
             t == s.jobs[id].tube
  <2>1. s.jobs[id] \in JobType /\ t \in TubeNames
    BY <1>2, SoundRecords, Zenon
  <2>2. rec \in RecordType
    BY <2>1, JobRecord, Zenon
  <2> HIDE DEF rec, t
  <2>3. [op |-> "update", id |-> id, record |-> rec] \in JournalType
    BY <2>2, Zenon DEF JournalType
  <2>4. [op |-> "put", id |-> id, record |-> rec, tube |-> t] \in JournalType
    BY <2>1, <2>2, Zenon DEF JournalType
  <2>5. /\ journal_update(s, id) = push_journal(s, [op |-> "update", id |-> id, record |-> rec])
        /\ journal_put(s, id) =
             push_journal(s, [op |-> "put", id |-> id, record |-> rec, tube |-> t])
    BY Zenon DEF journal_update, journal_put, rec, t
  <2> QED BY <2>3, <2>4, <2>5, PushJournal, ZenonT(60)
<1> QED BY <1>1, <1>2, ZenonT(60)

\* cmd_touch files the job under a later deadline; it stays with its holder.
LEMMA TouchSound ==
    ASSUME Laws, NEW s, Sound(s, {}), NEW id \in DOMAIN s.jobs, s.jobs[id].state = "reserved",
           NEW c, c = s.jobs[id].reserver, c \in DOMAIN s.conns, NEW at \in Nat
    PROVE  Sound(cmd_touch(s, c, id, at), {}) /\ KeepsRest(s, cmd_touch(s, c, id, at))
<1> DEFINE r == cmd_touch(s, c, id, at)
           j == s.jobs[id]
           cs == s.conns[c]
           new == at + j.ttr * NanosPerSec
           old == j.deadline_at
           D == (cs.reserved_by_deadline \ {<<old, id>>}) \cup {<<new, id>>}
           J == [j EXCEPT !.deadline_at = new]
           m == [cs EXCEPT !.reserved_by_deadline = D]
           C == rehold(cs, old, new, id)
<1>1. j \in JobType /\ j.ttr \in Nat /\ j.deadline_at \in Nat /\ id \in Nat
      /\ cs \in ConnType /\ c \in ConnIds
  BY SoundRecords, Zenon
<1>2. j.state = "reserved" /\ j.reserver = c
  BY Zenon
<1>3. r = [s EXCEPT !.jobs[id] = J, !.conns[c] = C]
  BY Zenon DEF cmd_touch
<1> HIDE DEF j, cs, r
<1>4. new \in Nat
  BY <1>1, ConstantsAssumption, SMTT(30)
<1>5. D \in SUBSET (Nat \X Nat)
  BY <1>1, <1>4, SMTT(30) DEF ConnType
<1> HIDE DEF new, D
<1>6. /\ J \in JobType /\ J.tube = j.tube /\ J.state = "reserved" /\ J.reserver = c
      /\ J.deadline_at = new
  BY <1>1, <1>2, <1>4, Zenon DEF JobType
<1>7. /\ m \in ConnType /\ m.reserved = cs.reserved /\ m.reserved_by_deadline = D
      /\ SameRole(m, cs) /\ m.waiting = cs.waiting
  BY <1>1, <1>5, Zenon DEF ConnType, SameRole
<1> HIDE DEF J, m
<1>8. /\ C \in ConnType /\ C.reserved = cs.reserved /\ C.reserved_by_deadline = D
      /\ SameRole(C, cs) /\ C.waiting = cs.waiting
  <2>1. C = refresh_conn_tick(m)
    BY Zenon DEF rehold, m, D
  <2> HIDE DEF C
  <2> QED BY <1>7, <2>1, RefreshConnTick, ZenonT(60) DEF SameRole, SameHeld
<1> HIDE DEF C
<1>9. /\ r.jobs = [s.jobs EXCEPT ![id] = J] /\ r.conns = [s.conns EXCEPT ![c] = C]
      /\ r.tubes = s.tubes /\ r.next_job_id = s.next_job_id /\ r.tube_order = s.tube_order
  BY <1>3, ZenonT(60) DEF Sound, EngineType
<1>10. EngineType(r)
  BY <1>3, <1>6, <1>8, ZenonT(60) DEF Sound, EngineType
<1>11. TubesKept(s, r)
  BY <1>9, Zenon DEF TubesKept, SameRefs, SameJobSets
<1>12. ConnMoved(s, r, id, c, J, C)
  BY <1>6, <1>8, <1>9, <1>11, ZenonT(60) DEF ConnMoved, j, cs
<1>13. /\ KeepsRest(s, r) /\ OthersKept(s, r, id)
       /\ IsInjective(C.reserved) /\ ListsOnce(s) => ListsOnce(r)
       /\ r.jobs[id] = J /\ r.conns[c] = C
       /\ \A d \in DOMAIN s.conns : d # c => r.conns[d] = s.conns[d]
       /\ DOMAIN r.conns = DOMAIN s.conns
  BY ONLY <1>12, ConnMove, SMTT(30)
<1>14. /\ Filed(s, {}) /\ ListsOnce(s) /\ IsInjective(cs.reserved)
       /\ \A w, x : \A p \in Nat, k \in Nat :
            Contains(s, w, x, p, k) <=> Belongs(s, {}, w, x, p, k)
  BY SoundRecords, Zenon DEF Sound, Filed, Exact, cs
<1>15. ASSUME NEW w, NEW x, NEW p \in Nat
       PROVE  Contains(s, w, x, p, id) <=> Place(j, w, x, p)
  BY <1>1, <1>14, ZenonT(60) DEF Belongs, j
<1>16. ASSUME NEW w, NEW x, NEW p \in Nat
       PROVE  Contains(r, w, x, p, id) <=> Place(J, w, x, p)
  <2>1. CASE w = "due" /\ x = c
    <3>1. <<p, id>> \in D <=> p = new
      <4>1. \A q \in Nat : <<q, id>> \in cs.reserved_by_deadline => q = old
        <5> SUFFICES ASSUME NEW q \in Nat, <<q, id>> \in cs.reserved_by_deadline PROVE q = old
          BY Zenon
        <5>1. Contains(s, "due", c, q, id)
          BY Zenon DEF Contains, cs
        <5>2. Place(j, "due", c, q)
          BY <1>15, <5>1, ZenonT(60)
        <5> QED BY <5>2, Zenon DEF Place
      <4> QED BY <4>1, Zenon DEF D
    <3> QED BY <1>6, <1>8, <1>13, <2>1, <3>1, ZenonT(30) DEF Contains, Place
  <2>2. CASE w = "reserved" /\ x = c
    <3>1. Contains(s, w, x, p, id) <=> p = 0
      BY <1>2, <1>15, <2>2, SMTT(30) DEF Place
    <3>2. Contains(r, w, x, p, id) <=> Contains(s, w, x, p, id)
      BY <1>8, <1>13, <2>2, ZenonT(60) DEF Contains, cs
    <3> QED BY <1>6, <2>2, <3>1, <3>2, ZenonT(60) DEF Place
  <2>3. CASE w \notin {"reserved", "due"} \/ x # c
    <3>1. ~Place(j, w, x, p) /\ ~Place(J, w, x, p)
      BY <1>2, <1>6, <2>3, Zenon DEF Place
    <3>2. Contains(r, w, x, p, id) <=> Contains(s, w, x, p, id)
      BY <1>9, <1>13, <2>3, ZenonT(60) DEF Contains
    <3> QED BY <1>15, <3>1, <3>2, ZenonT(60)
  <2> QED BY <2>1, <2>2, <2>3, ZenonT(60)
<1>17. ASSUME NEW w, NEW x, NEW p \in Nat, NEW k \in Nat, k # id
       PROVE  Contains(r, w, x, p, k) <=> Contains(s, w, x, p, k)
  <2>1. CASE x = c
    <3>1. <<p, k>> \in D <=> <<p, k>> \in cs.reserved_by_deadline
      BY <1>17, Zenon DEF D
    <3> QED BY <1>8, <1>9, <1>13, <2>1, <3>1, ZenonT(60) DEF Contains, cs
  <2>2. CASE x # c
    BY <1>9, <1>13, <2>2, ZenonT(60) DEF Contains
  <2> QED BY <2>1, <2>2, Zenon
<1>18. Exact(r, {})
  <2> SUFFICES ASSUME NEW w, NEW x, NEW p \in Nat, NEW k \in Nat
               PROVE  Contains(r, w, x, p, k) <=> Belongs(r, {}, w, x, p, k)
    BY Zenon DEF Exact
  <2>1. CASE k = id
    BY <1>13, <1>16, <2>1, Zenon DEF Belongs, OthersKept
  <2>2. CASE k # id
    BY <1>13, <1>14, <1>17, <2>2, ZenonT(60) DEF Belongs, OthersKept
  <2> QED BY <2>1, <2>2, Zenon
<1>19. Filed(r, {})
  <2>1. TubesLive(r) /\ Unheld(r, {})
    BY <1>6, <1>13, <1>14, ZenonT(30) DEF Filed, TubesLive, Unheld, OthersKept
  <2> QED BY <1>8, <1>13, <1>14, <1>18, <2>1, ZenonT(30) DEF Filed
<1> QED BY <1>10, <1>13, <1>19, SoundMove, Zenon DEF r

\* enqueue puts the job in hand into the delayed or the ready set of its tube.
LEMMA EnqueueSound ==
    ASSUME Laws, NEW s, NEW id \in DOMAIN s.jobs, Sound(s, {id}), NEW t, t = s.jobs[id].tube,
           NEW delay \in Nat, NEW at \in Nat
    PROVE  LET r == enqueue(s, t, id, delay, at)
           IN  Sound(r, {}) /\ KeepsRest(s, r) /\ r.conns = s.conns
<1>1. CASE delay > 0
  <2> DEFINE deadline == at + delay * NanosPerSec
             r == insert_delayed(s, t, id, deadline)
  <2>1. enqueue(s, t, id, delay, at) = r
    BY <1>1, Zenon DEF enqueue
  <2>2. deadline \in Nat
    BY ConstantsAssumption, SMTT(30)
  <2> HIDE DEF deadline
  <2>3. Sound(r, {}) /\ KeepsRest(s, r) /\ r.conns = s.conns
    BY <2>2, InsertDelayed, SMTT(30)
  <2> HIDE DEF r
  <2> QED BY <2>1, <2>3, Zenon
<1>2. CASE ~(delay > 0)
  <2>1. enqueue(s, t, id, delay, at) = insert_ready(s, t, id)
    BY <1>2, Zenon DEF enqueue
  <2> QED BY <2>1, InsertReady, SMTT(30)
<1> QED BY <1>1, <1>2, Zenon

\* A job its holder gives back, or loses to its deadline, is ready again.
LEMMA GiveBack ==
    ASSUME Laws, NEW s, NEW id \in DOMAIN s.jobs, Sound(s, {}), NEW c,
           s.jobs[id].state = "reserved", s.jobs[id].reserver = c
    PROVE  LET r == give_back(s, c, id)
           IN  /\ Sound(r, {}) /\ KeepsRest(s, r) /\ c \in DOMAIN s.conns
               /\ r.conns[c].reserved = list_remove(s.conns[c].reserved, id)
<1> DEFINE q == do_unreserve(s, c, id)
           t == s.jobs[id].tube
           r == insert_ready(q, t, id)
<1>1. /\ Sound(q, {id}) /\ KeepsRest(s, q) /\ c \in DOMAIN s.conns
      /\ q.conns[c].reserved = list_remove(s.conns[c].reserved, id)
  BY DoUnreserve, Zenon
<1> HIDE DEF q
<1>2. id \in DOMAIN q.jobs /\ t = q.jobs[id].tube
  BY <1>1, Zenon DEF KeepsRest
<1> HIDE DEF t
<1>3. Sound(r, {}) /\ KeepsRest(q, r) /\ r.conns = q.conns
  BY <1>1, <1>2, InsertReady, Zenon
<1>4. give_back(s, c, id) = r
  BY Zenon DEF give_back, r, q, t
<1> HIDE DEF r
<1>5. KeepsRest(s, r)
  BY <1>1, <1>3, KeepsTrans, Zenon
<1> QED BY <1>1, <1>3, <1>4, <1>5, Zenon

\* cmd_release and cmd_bury.
LEMMA ReleaseSound ==
    ASSUME Laws, NEW s, NEW id \in DOMAIN s.jobs, Sound(s, {}), NEW c,
           s.jobs[id].state = "reserved", s.jobs[id].reserver = c,
           NEW pri \in Nat, NEW delay \in Nat, NEW at \in Nat
    PROVE  /\ Sound(cmd_release(s, c, id, pri, delay, at), {})
           /\ KeepsRest(s, cmd_release(s, c, id, pri, delay, at))
           /\ Sound(cmd_bury(s, c, id, pri), {}) /\ KeepsRest(s, cmd_bury(s, c, id, pri))
<1> DEFINE u == do_unreserve(s, c, id)
           q == [u EXCEPT !.jobs[id].pri = pri]
           t == s.jobs[id].tube
           r == enqueue(q, t, id, delay, at)
           b == insert_buried(q, t, id)
<1>1. Sound(u, {id}) /\ KeepsRest(s, u)
  BY DoUnreserve, Zenon
<1>2. /\ cmd_bury(s, c, id, pri) = journal_update(b, id)
      /\ cmd_release(s, c, id, pri, delay, at) = IF delay > 0 THEN journal_update(r, id) ELSE r
  BY Zenon DEF cmd_release, cmd_bury
<1> HIDE DEF u
<1>3. id \in DOMAIN u.jobs
  BY <1>1, Zenon DEF KeepsRest
<1>4. Sound(q, {id}) /\ KeepsRest(u, q)
  BY <1>1, <1>3, SetPri, ZenonT(60)
<1> HIDE DEF q
<1>5. KeepsRest(s, q)
  BY <1>1, <1>4, KeepsTrans, ZenonT(60)
<1>6. id \in DOMAIN q.jobs /\ t = q.jobs[id].tube
  BY <1>5, Zenon DEF KeepsRest
<1> HIDE DEF t
<1>7. Sound(r, {}) /\ KeepsRest(q, r) /\ Sound(b, {}) /\ KeepsRest(q, b)
  BY <1>4, <1>6, EnqueueSound, InsertBuried, ZenonT(60)
<1> HIDE DEF r, b
<1>8. KeepsRest(s, r) /\ KeepsRest(s, b) /\ id \in DOMAIN r.jobs /\ id \in DOMAIN b.jobs
  <2>1. KeepsRest(s, r) /\ KeepsRest(s, b)
    BY <1>5, <1>7, KeepsTrans, Zenon
  <2> QED BY <2>1, Zenon DEF KeepsRest
<1>9. ASSUME NEW x, Sound(x, {}), KeepsRest(s, x), id \in DOMAIN x.jobs
      PROVE  Sound(journal_update(x, id), {}) /\ KeepsRest(s, journal_update(x, id))
  <2>1. id \in Nat
    BY SoundRecords, Zenon
  <2>2. Sound(journal_update(x, id), {}) /\ SameCore(x, journal_update(x, id))
    BY <1>9, <2>1, JournalCalls, ZenonT(60)
  <2>3. KeepsRest(x, journal_update(x, id))
    BY <1>9, <2>2, CoreKept, ZenonT(60) DEF Sound
  <2> QED BY <1>9, <2>2, <2>3, KeepsTrans, ZenonT(60)
<1> QED BY <1>2, <1>7, <1>8, <1>9, ZenonT(60)

\* kick_to_ready of a job that is not reserved.
LEMMA KickSound ==
    ASSUME Laws, NEW s, NEW id \in DOMAIN s.jobs, Sound(s, {}), s.jobs[id].state # "reserved"
    PROVE  /\ Sound(kick_to_ready(s, id), {}) /\ KeepsRest(s, kick_to_ready(s, id))
           /\ kick_to_ready(s, id).conns = s.conns
<1> DEFINE q == remove_queued(s, id)
           t == s.jobs[id].tube
           r == insert_ready(q, t, id)
           x == journal_update(r, id)
<1>1. kick_to_ready(s, id) = x
  BY Zenon DEF kick_to_ready
<1>2. Sound(q, {id}) /\ KeepsRest(s, q) /\ q.conns = s.conns /\ q.jobs = s.jobs
  BY RemoveQueued, Zenon
<1> HIDE DEF q
<1>3. Sound(r, {}) /\ KeepsRest(q, r) /\ r.conns = q.conns
  BY <1>2, InsertReady, Zenon
<1> HIDE DEF r
<1>4. id \in Nat /\ id \in DOMAIN r.jobs /\ KeepsRest(s, r)
  <2>1. KeepsRest(s, r)
    BY <1>2, <1>3, KeepsTrans, ZenonT(60)
  <2> QED BY <2>1, SoundRecords, ZenonT(60) DEF KeepsRest
<1>5. Sound(x, {}) /\ SameCore(r, x)
  BY <1>3, <1>4, JournalCalls, Zenon
<1> HIDE DEF x
<1>6. KeepsRest(r, x)
  BY <1>3, <1>5, CoreKept, ZenonT(60) DEF Sound
<1> QED BY <1>1, <1>2, <1>3, <1>4, <1>5, <1>6, KeepsTrans, ZenonT(60) DEF SameCore

\* The first entry of a tube's ready or delayed set is a job of the tube.
LEMMA FirstQueued ==
    ASSUME Laws, NEW s, Sound(s, {}), NEW t \in DOMAIN s.tubes
    PROVE  /\ s.tubes[t].ready # {} =>
                /\ first(s.tubes[t].ready) \in Nat \X Nat
                /\ JobIn(s, t, first(s.tubes[t].ready)[2], "ready")
           /\ s.tubes[t].delayed # {} => JobIn(s, t, first(s.tubes[t].delayed)[2], "delayed")
<1> DEFINE ts == s.tubes[t]
<1>1. /\ ts.ready \in SUBSET (Nat \X Nat) /\ ts.delayed \in SUBSET (Nat \X Nat)
  <2>1. ts \in TubeType
    BY SoundRecords, Zenon
  <2> HIDE DEF ts
  <2> QED BY <2>1, Zenon DEF TubeType
<1>2. ASSUME NEW w, NEW p \in Nat, NEW k \in Nat, Contains(s, w, t, p, k)
      PROVE  k \in DOMAIN s.jobs /\ Place(s.jobs[k], w, t, p)
  BY <1>2, Zenon DEF Sound, Filed, Exact, Belongs
<1>3. ASSUME ts.ready # {}
      PROVE  first(ts.ready) \in Nat \X Nat /\ JobIn(s, t, first(ts.ready)[2], "ready")
  <2> DEFINE e == first(ts.ready)
  <2>1. e \in ts.ready
    BY <1>1, <1>3, FirstIsLeast, ZenonT(60)
  <2> HIDE DEF e
  <2>2. e \in Nat \X Nat /\ e[1] \in Nat /\ e[2] \in Nat /\ e = <<e[1], e[2]>>
    BY <1>1, <2>1, SMTT(30)
  <2>3. Contains(s, "ready", t, e[1], e[2])
    BY <2>1, <2>2, Zenon DEF Contains
  <2>4. e[2] \in DOMAIN s.jobs /\ Place(s.jobs[e[2]], "ready", t, e[1])
    BY <1>2, <2>2, <2>3, ZenonT(60)
  <2> QED BY <2>2, <2>4, ZenonT(60) DEF Place, JobIn, e
<1>4. ASSUME ts.delayed # {}
      PROVE  JobIn(s, t, first(ts.delayed)[2], "delayed")
  <2> DEFINE e == first(ts.delayed)
  <2>1. e \in ts.delayed
    BY <1>1, <1>4, FirstIsLeast, ZenonT(60)
  <2> HIDE DEF e
  <2>2. e[1] \in Nat /\ e[2] \in Nat /\ e = <<e[1], e[2]>>
    BY <1>1, <2>1, SMTT(30)
  <2>3. Contains(s, "delayed", t, e[1], e[2])
    BY <2>1, <2>2, Zenon DEF Contains
  <2>4. e[2] \in DOMAIN s.jobs /\ Place(s.jobs[e[2]], "delayed", t, e[1])
    BY <1>2, <2>2, <2>3, ZenonT(60)
  <2> QED BY <2>4, Zenon DEF Place, JobIn, e
<1> QED BY <1>3, <1>4, Zenon

\* The tube process_queue chooses is one of those it can serve.
LEMMA BestTube ==
    ASSUME Laws, NEW s, Sound(s, {}), serving(s) # {}
    PROVE  best_tube(s) \in serving(s)
<1> DEFINE Key(u) == first(s.tubes[u].ready)
           S == {Key(u) : u \in serving(s)}
<1>1. ASSUME NEW u \in serving(s) PROVE Key(u) \in Nat \X Nat
  <2>1. u \in DOMAIN s.tubes /\ s.tubes[u].dispatchable
    BY Zenon DEF serving
  <2>2. s.tubes[u].ready # {}
    BY <2>1, SoundRecords, Zenon DEF Indexed, DispatchableExact
  <2> QED BY <2>1, <2>2, FirstQueued, ZenonT(60)
<1> HIDE DEF Key
<1>2. S \in SUBSET (Nat \X Nat) /\ S # {}
  BY <1>1, Zenon
<1>3. first(S) \in S /\ \A q \in S : ~PairLess(q, first(S))
  BY <1>2, FirstIsLeast, Zenon
<1>4. PICK t \in serving(s) : Key(t) = first(S)
  BY <1>3, Zenon
<1>5. \E v \in serving(s) : \A u \in serving(s) : ~PairLess(Key(u), Key(v))
  BY <1>3, <1>4, ZenonT(60)
<1>6. best_tube(s) = CHOOSE v \in serving(s) : \A u \in serving(s) : ~PairLess(Key(u), Key(v))
  BY Zenon DEF best_tube, Key
<1> QED BY <1>5, <1>6, ZenonT(60)

\* Connection c got a job: it alone changed, stopped waiting and was answered.
Answered(s, r, c) ==
    /\ c \in DOMAIN s.conns /\ OthersSame(s, r, c)
    /\ r.conns[c].owed = s.conns[c].owed - 1
    /\ r.conns[c].use_tube = s.conns[c].use_tube
    /\ r.conns[c].pending_put = s.conns[c].pending_put
    /\ ~r.conns[c].waiting
    /\ DOMAIN r.jobs = DOMAIN s.jobs /\ DOMAIN r.tubes = DOMAIN s.tubes
    /\ r.next_job_id = s.next_job_id

\* One round of process_queue.
LEMMA AssignBest ==
    ASSUME Laws, NEW s, Sound(s, {}), serving(s) # {}, NEW at \in Nat
    PROVE  /\ Sound(assign_best(s, at), {})
           /\ \E c : Answered(s, assign_best(s, at), c) /\ s.conns[c].waiting
<1> DEFINE t  == best_tube(s)
           id == first(s.tubes[t].ready)[2]
           c  == ms_taken(s.tubes[t].waiting_conns)
           s1 == remove_ready(s, t, id)
           s2 == [s1 EXCEPT !.tubes[t] = take_waiter(@)]
           s3 == do_remove_waiting_conn(s2, c)
           s4 == do_reserve(s3, c, id, at)
           s5 == reply(s4, c)
<1>1. assign_best(s, at) = s5
  BY Zenon DEF assign_best
<1>2. t \in DOMAIN s.tubes /\ s.tubes[t].ready # {} /\ s.tubes[t].waiting_conns.items # <<>>
  <2>1. t \in DOMAIN s.tubes /\ s.tubes[t].dispatchable
    BY BestTube, Zenon DEF serving
  <2> HIDE DEF t
  <2> QED BY <2>1, SoundRecords, ZenonT(60) DEF Indexed, DispatchableExact
<1> HIDE DEF t
<1>3. id \in DOMAIN s.jobs /\ s.jobs[id].state = "ready" /\ t = s.jobs[id].tube
  <2>1. JobIn(s, t, id, "ready")
    BY <1>2, FirstQueued, ZenonT(60)
  <2> QED BY <2>1, Zenon DEF JobIn
<1> HIDE DEF id
<1>4. Sound(s1, {id}) /\ KeepsRest(s, s1) /\ s1.conns = s.conns /\ s1.jobs = s.jobs
  BY <1>3, RemoveReady, ZenonT(60)
<1> HIDE DEF s1
<1>5. /\ t \in DOMAIN s1.tubes /\ s1.tubes[t].waiting_conns = s.tubes[t].waiting_conns
      /\ s1.tubes[t].waiting_conns.items # <<>> /\ c = ms_taken(s1.tubes[t].waiting_conns)
      /\ DOMAIN s1.tubes = DOMAIN s.tubes /\ s1.next_job_id = s.next_job_id
  BY <1>2, <1>4, ZenonT(60) DEF KeepsRest
<1> HIDE DEF c
<1>6. TubesOnly(s1, s2, {id}) /\ c \in DOMAIN s1.conns /\ s1.conns[c].waiting
  BY ONLY <1>4, <1>5, TakeWaiterSound, ZenonT(60) DEF s2
<1> HIDE DEF s2
<1>7. /\ Sound(s2, {id}) /\ s2.conns = s.conns /\ s2.jobs = s.jobs
      /\ DOMAIN s2.tubes = DOMAIN s.tubes /\ s2.next_job_id = s.next_job_id
      /\ c \in DOMAIN s2.conns /\ s.conns[c].waiting
  BY <1>4, <1>5, <1>6, ZenonT(60) DEF TubesOnly
<1>8. PICK C : /\ Sound(s3, {id}) /\ Waited(s2, s3, c, C)
               /\ SameRole(C, s2.conns[c]) /\ SameHeld(C, s2.conns[c]) /\ ~C.waiting
  BY <1>7, RemoveWaiting, ZenonT(60)
<1> HIDE DEF s3
<1>9. /\ s3.jobs = s.jobs /\ DOMAIN s3.tubes = DOMAIN s.tubes /\ s3.next_job_id = s.next_job_id
      /\ DOMAIN s3.conns = DOMAIN s.conns /\ s3.conns[c] = C
      /\ \A d \in DOMAIN s.conns : d # c => s3.conns[d] = s.conns[d]
      /\ id \in DOMAIN s3.jobs /\ c \in DOMAIN s3.conns
  BY <1>3, <1>7, <1>8, ZenonT(60) DEF Waited, OthersSame
<1>10. /\ Sound(s4, {}) /\ KeepsRest(s3, s4)
       /\ \A d \in DOMAIN s3.conns : d # c => s4.conns[d] = s3.conns[d]
  BY <1>8, <1>9, DoReserve, ZenonT(30)
<1> HIDE DEF s4
<1>11. /\ DOMAIN s4.conns = DOMAIN s.conns /\ c \in DOMAIN s4.conns
       /\ SameRole(s4.conns[c], C) /\ s4.conns[c].waiting = C.waiting
       /\ DOMAIN s4.jobs = DOMAIN s.jobs /\ DOMAIN s4.tubes = DOMAIN s.tubes
       /\ s4.next_job_id = s.next_job_id
       /\ \A d \in DOMAIN s.conns : d # c => s4.conns[d] = s.conns[d]
  BY <1>9, <1>10, ZenonT(60) DEF KeepsRest
<1>12. /\ Sound(s5, {}) /\ s5.jobs = s4.jobs /\ s5.tubes = s4.tubes
       /\ s5.next_job_id = s4.next_job_id /\ OthersSame(s4, s5, c)
       /\ s5.conns[c].use_tube = s4.conns[c].use_tube
       /\ s5.conns[c].pending_put = s4.conns[c].pending_put
       /\ s5.conns[c].waiting = s4.conns[c].waiting
       /\ s5.conns[c].owed = s4.conns[c].owed - 1
  <2>1. /\ Sound(reply(s4, c), {})
        /\ reply(s4, c).jobs = s4.jobs /\ reply(s4, c).tubes = s4.tubes
        /\ reply(s4, c).next_job_id = s4.next_job_id /\ OthersSame(s4, reply(s4, c), c)
        /\ reply(s4, c).conns[c].use_tube = s4.conns[c].use_tube
        /\ reply(s4, c).conns[c].pending_put = s4.conns[c].pending_put
        /\ reply(s4, c).conns[c].waiting = s4.conns[c].waiting
        /\ reply(s4, c).conns[c].owed = s4.conns[c].owed - 1
    <3>1. Sound(s4, {}) /\ c \in DOMAIN s4.conns
      BY <1>10, <1>11, ZenonT(60)
    <3> QED BY ONLY <3>1, ReplySound, SMTT(30)
  <2> QED BY <2>1, ZenonT(30)
<1> HIDE DEF s5
<1>13. Answered(s, s5, c)
  BY <1>7, <1>8, <1>11, <1>12, ZenonT(60) DEF Answered, OthersSame, SameRole
<1> QED BY <1>1, <1>7, <1>12, <1>13, ZenonT(60)

\* Jobs in hand come or go; the others, the connections and what the tubes
\* hold stay as they are.
JobsChanged(s, r, hand, hand2) ==
    /\ DOMAIN r.jobs \ hand2 = DOMAIN s.jobs \ hand
    /\ \A k \in DOMAIN s.jobs \ hand : r.jobs[k] = s.jobs[k]
    /\ IsFiniteSet(DOMAIN r.jobs)
    /\ TubesLive(r)
    /\ r.conns = s.conns /\ r.tube_order = s.tube_order

\* The tubes' job counts follow the jobs.
TubesRerefed(s, r) ==
    /\ DOMAIN r.tubes = DOMAIN s.tubes
    /\ \A t \in DOMAIN s.tubes :
         /\ SameJobSets(r.tubes[t], s.tubes[t])
         /\ r.tubes[t].using_ct = s.tubes[t].using_ct
         /\ r.tubes[t].waiting_conns = s.tubes[t].waiting_conns
         /\ Indexed(r.tubes[t])
         /\ r.tubes[t].job_ref_ct = Cardinality(JobsOf(r, t))

\* Jobs that are in no container may come and go.
LEMMA JobsChangedSound ==
    ASSUME NEW s, NEW r, NEW hand, NEW hand2, Sound(s, hand), EngineType(r),
           JobsChanged(s, r, hand, hand2), TubesRerefed(s, r), IdsFresh(r)
    PROVE  Sound(r, hand2)
<1>1. ASSUME NEW w, NEW x, NEW p \in Nat, NEW k \in Nat
      PROVE  Contains(r, w, x, p, k) <=> Contains(s, w, x, p, k)
  BY Zenon DEF Contains, JobsChanged, TubesRerefed, SameJobSets
<1>2. Exact(r, hand2)
  <2> SUFFICES ASSUME NEW w, NEW x, NEW p \in Nat, NEW k \in Nat
               PROVE  Contains(r, w, x, p, k) <=> Belongs(r, hand2, w, x, p, k)
    BY Zenon DEF Exact
  <2>1. Contains(s, w, x, p, k) <=> Belongs(s, hand, w, x, p, k)
    BY Zenon DEF Sound, Filed, Exact
  <2>2. Belongs(s, hand, w, x, p, k) <=> Belongs(r, hand2, w, x, p, k)
    BY Zenon DEF Belongs, JobsChanged
  <2> QED BY <1>1, <2>1, <2>2, ZenonT(60)
<1>3. Filed(r, hand2)
  <2>1. Unheld(r, hand2)
    BY ZenonT(60) DEF Sound, Filed, Unheld, JobsChanged
  <2>2. ListsOnce(r)
    BY ZenonT(60) DEF Sound, Filed, ListsOnce, JobsChanged, TubesRerefed, SameJobSets
  <2> QED BY <1>2, <2>1, <2>2, ZenonT(60) DEF Filed, JobsChanged
<1>4. WaitersSound(r)
  <2>1. \A t, c : Waiter(r, t, c) <=> Waiter(s, t, c)
    BY Zenon DEF Waiter, JobsChanged
  <2> QED BY <2>1, ZenonT(60) DEF Sound, WaitersSound, TubesRerefed
<1>5. RefsSound(r)
  <2>1. \A t : Users(r, t) = Users(s, t)
    BY Zenon DEF Users, JobsChanged
  <2> QED BY <2>1, ZenonT(30) DEF Sound, RefsSound, TubesRerefed, JobsChanged
<1> QED BY <1>3, <1>4, <1>5, Zenon DEF Sound

\* A tube's record with another count of jobs.
LEMMA RefField ==
    ASSUME NEW ts \in TubeType, Indexed(ts), NEW n \in Nat
    PROVE  LET T == [ts EXCEPT !.job_ref_ct = n]
           IN  /\ T \in TubeType /\ Indexed(T) /\ SameJobSets(T, ts) /\ T.job_ref_ct = n
               /\ T.using_ct = ts.using_ct /\ T.waiting_conns = ts.waiting_conns
  BY Zenon DEF TubeType, Indexed, DispatchableExact, DelayHeadExact, SameJobSets

\* The engine record with other jobs, n of them in tube t.
job_filed(s, jobs, t, n) == [s EXCEPT !.jobs = jobs, !.tubes[t].job_ref_ct = n]

\* The record with other jobs and another count of them in tube t.
LEMMA JobFiled ==
    ASSUME NEW s, NEW hand, Sound(s, hand), NEW t \in DOMAIN s.tubes, NEW n \in Nat, NEW jobs,
           jobs \in [DOMAIN jobs -> JobType], DOMAIN jobs \subseteq Nat
    PROVE  LET r == job_filed(s, jobs, t, n)
           IN  /\ EngineType(r) /\ r.jobs = jobs /\ r.conns = s.conns
               /\ r.next_job_id = s.next_job_id /\ DOMAIN r.tubes = DOMAIN s.tubes /\ r.tube_order = s.tube_order
               /\ r.tubes[t].job_ref_ct = n
               /\ \A u \in DOMAIN s.tubes :
                    /\ SameJobSets(r.tubes[u], s.tubes[u])
                    /\ r.tubes[u].using_ct = s.tubes[u].using_ct
                    /\ r.tubes[u].waiting_conns = s.tubes[u].waiting_conns
                    /\ Indexed(r.tubes[u])
                    /\ u # t => r.tubes[u].job_ref_ct = s.tubes[u].job_ref_ct
<1> DEFINE ts == s.tubes[t]
           T == [ts EXCEPT !.job_ref_ct = n]
           F == [s.tubes EXCEPT ![t] = T]
           r == job_filed(s, jobs, t, n)
<1>1. ts \in TubeType /\ Indexed(ts) /\ EngineType(s)
  BY SoundRecords, Zenon DEF Sound
<1>2. r = [s EXCEPT !.jobs = jobs, !.tubes = F]
  BY Zenon DEF job_filed
<1> HIDE DEF ts
<1>3. /\ T \in TubeType /\ Indexed(T) /\ SameJobSets(T, ts) /\ T.job_ref_ct = n
      /\ T.using_ct = ts.using_ct /\ T.waiting_conns = ts.waiting_conns
  BY <1>1, RefField, ZenonT(60)
<1> HIDE DEF T
<1>4. /\ F \in [DOMAIN s.tubes -> TubeType] /\ DOMAIN F = DOMAIN s.tubes /\ F[t] = T
      /\ \A u \in DOMAIN s.tubes : u # t => F[u] = s.tubes[u]
  BY <1>1, <1>3, ZenonT(60) DEF EngineType
<1> HIDE DEF F, r
<1>5. r.jobs = jobs /\ r.conns = s.conns /\ r.next_job_id = s.next_job_id /\ r.tubes = F /\ r.tube_order = s.tube_order
  BY <1>1, <1>2, ZenonT(60) DEF EngineType
<1>6. EngineType(r)
  BY <1>1, <1>2, <1>4, ZenonT(60) DEF EngineType
<1>7. \A u \in DOMAIN s.tubes : Indexed(s.tubes[u])
  BY SoundRecords, ZenonT(60)
<1> QED BY <1>3, <1>4, <1>5, <1>6, <1>7, ZenonT(30) DEF r, ts, SameJobSets

\* A put adds a job under an id nothing else has; it is in hand.
LEMMA NewJob ==
    ASSUME Laws, NEW s, Sound(s, {}), NEW id \in 1..(s.next_job_id - 1), id \notin DOMAIN s.jobs,
           \A d \in DOMAIN s.conns : s.conns[d].pending_put # id,
           NEW j \in JobType, NEW t \in DOMAIN s.tubes, j.tube = t
    PROVE  LET r == job_filed(s, with_entry(s.jobs, id, j), t, s.tubes[t].job_ref_ct + 1)
           IN  /\ Sound(r, {id}) /\ r.conns = s.conns /\ r.next_job_id = s.next_job_id
               /\ DOMAIN r.tubes = DOMAIN s.tubes
               /\ DOMAIN r.jobs = DOMAIN s.jobs \cup {id} /\ r.jobs[id] = j
<1> DEFINE f == with_entry(s.jobs, id, j)
           n == s.tubes[t].job_ref_ct + 1
           r == job_filed(s, f, t, n)
<1>0. s.next_job_id \in Nat /\ s.jobs \in [DOMAIN s.jobs -> JobType] /\ DOMAIN s.jobs \subseteq Nat
  BY ZenonT(60) DEF Sound, EngineType
<1>1. id \in Nat
  BY <1>0, SMTT(30)
<1>2. /\ DOMAIN f = DOMAIN s.jobs \cup {id} /\ f[id] = j
      /\ \A k \in DOMAIN s.jobs : f[k] = s.jobs[k]
      /\ f \in [DOMAIN f -> JobType] /\ DOMAIN f \subseteq Nat
  BY <1>0, <1>1, ZenonT(60) DEF with_entry
<1>3. n \in Nat
  <2>1. s.tubes[t] \in TubeType
    BY SoundRecords, Zenon
  <2>2. s.tubes[t].job_ref_ct \in Nat
    BY ONLY <2>1, ZenonT(60) DEF TubeType
  <2> QED BY ONLY <2>2, SMTT(30)
<1> HIDE DEF f, n
<1>4. /\ EngineType(r) /\ r.jobs = f /\ r.conns = s.conns
      /\ r.next_job_id = s.next_job_id /\ DOMAIN r.tubes = DOMAIN s.tubes /\ r.tube_order = s.tube_order
      /\ r.tubes[t].job_ref_ct = n
      /\ \A u \in DOMAIN s.tubes :
           /\ SameJobSets(r.tubes[u], s.tubes[u])
           /\ r.tubes[u].using_ct = s.tubes[u].using_ct
           /\ r.tubes[u].waiting_conns = s.tubes[u].waiting_conns
           /\ Indexed(r.tubes[u])
           /\ u # t => r.tubes[u].job_ref_ct = s.tubes[u].job_ref_ct
  BY <1>2, <1>3, JobFiled, SMTT(30)
<1> HIDE DEF r
<1>5. /\ IsFiniteSet(DOMAIN s.jobs) /\ IsFiniteSet(DOMAIN f)
      /\ \A u : IsFiniteSet(JobsOf(s, u))
  <2>1. IsFiniteSet(DOMAIN s.jobs)
    BY Zenon DEF Sound, RefsSound
  <2>2. \A u : JobsOf(s, u) \in SUBSET DOMAIN s.jobs
    BY Zenon DEF JobsOf
  <2> QED BY <1>2, <2>1, <2>2, CountPart, CountMore, ZenonT(60)
<1>6. TubesRerefed(s, r)
  <2>1. \A u \in DOMAIN s.tubes : s.tubes[u].job_ref_ct = Cardinality(JobsOf(s, u))
    BY ZenonT(60) DEF Sound, RefsSound
  <2>2. \A u \in DOMAIN s.tubes \ {t} : JobsOf(r, u) = JobsOf(s, u)
    BY <1>2, <1>4, SMTT(30) DEF JobsOf
  <2>3. JobsOf(r, t) = JobsOf(s, t) \cup {id} /\ id \notin JobsOf(s, t)
    BY <1>2, <1>4, SMTT(30) DEF JobsOf
  <2>4. Cardinality(JobsOf(r, t)) = n
    <3>1. Cardinality(JobsOf(s, t) \cup {id}) = Cardinality(JobsOf(s, t)) + 1
      BY ONLY Laws, <1>5, <2>3, CountMore, ZenonT(60)
    <3>2. n = Cardinality(JobsOf(s, t)) + 1
      BY <2>1, ZenonT(60) DEF n
    <3> QED BY ONLY <2>3, <3>1, <3>2, ZenonT(60)
  <2>5. \A u \in DOMAIN s.tubes : r.tubes[u].job_ref_ct = Cardinality(JobsOf(r, u))
    BY ONLY <1>4, <2>1, <2>2, <2>4, ZenonT(30)
  <2> QED BY ONLY <1>4, <2>5, ZenonT(60) DEF TubesRerefed
<1>7. JobsChanged(s, r, {}, {id})
  <2>1. TubesLive(r)
    BY <1>2, <1>4, ZenonT(60) DEF Sound, Filed, TubesLive
  <2> QED BY <1>2, <1>4, <1>5, <2>1, ZenonT(30) DEF JobsChanged
<1>8. IdsFresh(r)
  BY <1>2, <1>4, SMTT(30) DEF Sound, IdsFresh
<1>9. Sound(r, {id})
  BY <1>4, <1>6, <1>7, <1>8, JobsChangedSound, ZenonT(60)
<1> QED BY <1>2, <1>4, <1>9, ZenonT(60) DEF r, f, n

\* A delete forgets the job in hand.
LEMMA DropJob ==
    ASSUME Laws, NEW s, NEW id \in DOMAIN s.jobs, Sound(s, {id}), NEW t, t = s.jobs[id].tube
    PROVE  LET r == job_filed(s, without_entry(s.jobs, id), t,
                              saturating_sub(s.tubes[t].job_ref_ct, 1))
           IN  /\ Sound(r, {}) /\ r.conns = s.conns /\ r.next_job_id = s.next_job_id
               /\ DOMAIN r.jobs = DOMAIN s.jobs \ {id}
<1> DEFINE f == without_entry(s.jobs, id)
           n == saturating_sub(s.tubes[t].job_ref_ct, 1)
           r == job_filed(s, f, t, n)
<1>0. s.next_job_id \in Nat /\ s.jobs \in [DOMAIN s.jobs -> JobType] /\ DOMAIN s.jobs \subseteq Nat
  BY Zenon DEF Sound, EngineType
<1>2. /\ DOMAIN f = DOMAIN s.jobs \ {id}
      /\ \A k \in DOMAIN s.jobs \ {id} : f[k] = s.jobs[k]
      /\ f \in [DOMAIN f -> JobType] /\ DOMAIN f \subseteq Nat
  BY <1>0, Zenon DEF without_entry, Restrict
<1>5. /\ IsFiniteSet(DOMAIN s.jobs) /\ IsFiniteSet(DOMAIN f)
      /\ \A u : IsFiniteSet(JobsOf(s, u))
  <2>1. IsFiniteSet(DOMAIN s.jobs)
    BY Zenon DEF Sound, RefsSound
  <2>2. \A u : JobsOf(s, u) \in SUBSET DOMAIN s.jobs
    BY ZenonT(60) DEF JobsOf
  <2> QED BY <1>2, <2>1, <2>2, CountPart, CountFewer, ZenonT(30)
<1>1. /\ t \in DOMAIN s.tubes
      /\ \A u \in DOMAIN s.tubes : s.tubes[u].job_ref_ct = Cardinality(JobsOf(s, u))
  BY ZenonT(60) DEF Sound, RefsSound, Filed, TubesLive
<1>3. n \in Nat /\ n = Cardinality(JobsOf(s, t) \ {id})
  <2> DEFINE J == JobsOf(s, t)
             m == s.tubes[t].job_ref_ct
  <2>1. m = Cardinality(J) /\ IsFiniteSet(J) /\ id \in J
    BY <1>1, <1>5, ZenonT(60) DEF JobsOf
  <2>2. m \in Nat /\ Cardinality(J \ {id}) = m - 1 /\ Cardinality(J \ {id}) \in Nat
    BY <2>1, CountFewer, CountType, ZenonT(60)
  <2> HIDE DEF J, m
  <2>3. saturating_sub(m, 1) = m - 1
    BY <2>2, SMTT(30) DEF saturating_sub
  <2> QED BY <2>2, <2>3, ZenonT(60) DEF J, m
<1> HIDE DEF f, n
<1>4. /\ EngineType(r) /\ r.jobs = f /\ r.conns = s.conns
      /\ r.next_job_id = s.next_job_id /\ DOMAIN r.tubes = DOMAIN s.tubes /\ r.tube_order = s.tube_order
      /\ r.tubes[t].job_ref_ct = n
      /\ \A u \in DOMAIN s.tubes :
           /\ SameJobSets(r.tubes[u], s.tubes[u])
           /\ r.tubes[u].using_ct = s.tubes[u].using_ct
           /\ r.tubes[u].waiting_conns = s.tubes[u].waiting_conns
           /\ Indexed(r.tubes[u])
           /\ u # t => r.tubes[u].job_ref_ct = s.tubes[u].job_ref_ct
  <2> DEFINE hand == {id}
  <2>1. Sound(s, hand) /\ t \in DOMAIN s.tubes /\ n \in Nat
    BY <1>1, <1>3, ZenonT(60)
  <2>2. f \in [DOMAIN f -> JobType] /\ DOMAIN f \subseteq Nat
    BY <1>2, Zenon
  <2> HIDE DEF hand
  <2> QED BY ONLY <2>1, <2>2, JobFiled, SMTT(30)
<1> HIDE DEF r
<1>6. TubesRerefed(s, r)
  <2>2. \A u \in DOMAIN s.tubes \ {t} : JobsOf(r, u) = JobsOf(s, u)
    BY <1>2, <1>4, SMTT(30) DEF JobsOf
  <2>3. JobsOf(r, t) = JobsOf(s, t) \ {id}
    BY <1>2, <1>4, ZenonT(60) DEF JobsOf
  <2> QED BY <1>1, <1>3, <1>4, <2>2, <2>3, ZenonT(60) DEF TubesRerefed
<1>7. JobsChanged(s, r, {id}, {})
  <2>1. TubesLive(r)
    BY <1>2, <1>4, ZenonT(60) DEF Sound, Filed, TubesLive
  <2> QED BY <1>2, <1>4, <1>5, <2>1, ZenonT(60) DEF JobsChanged
<1>8. IdsFresh(r)
  BY <1>2, <1>4, SMTT(30) DEF Sound, IdsFresh
<1>9. Sound(r, {})
  BY <1>4, <1>6, <1>7, <1>8, JobsChangedSound, ZenonT(60)
<1> QED BY <1>2, <1>4, <1>9, ZenonT(60) DEF r, f, n

\* What a put leaves of the duties: its own pending id is gone.
PutKeeps(s, r, c) ==
    /\ DOMAIN r.conns = DOMAIN s.conns
    /\ \A d \in DOMAIN s.conns : /\ r.conns[d].waiting = s.conns[d].waiting
                                 /\ r.conns[d].owed = s.conns[d].owed
                                 /\ d # c => r.conns[d].pending_put = s.conns[d].pending_put
    /\ r.conns[c].pending_put = None
    /\ r.next_job_id >= s.next_job_id

\* The put in progress is over.
LEMMA PendingTaken ==
    ASSUME NEW s, Sound(s, {}), NEW c \in DOMAIN s.conns
    PROVE  LET r == take_pending(s, c)
           IN  /\ Sound(r, {}) /\ PutKeeps(s, r, c) /\ r.jobs = s.jobs /\ r.tubes = s.tubes
               /\ r.conns[c].use_tube = s.conns[c].use_tube
               /\ put_id(s, c) \in 1..(r.next_job_id - 1) /\ put_id(s, c) \notin DOMAIN s.jobs
               /\ \A d \in DOMAIN r.conns : r.conns[d].pending_put # put_id(s, c)
<1> DEFINE r == take_pending(s, c)
           C == [s.conns[c] EXCEPT !.pending_put = None]
<1>1. PICK n \in {s.next_job_id, s.next_job_id + 1} :
               /\ Became(s, r, {}, c, C, n)
               /\ put_id(s, c) \in 1..(n - 1) /\ put_id(s, c) \notin DOMAIN s.jobs
               /\ \A d \in DOMAIN s.conns : d # c => s.conns[d].pending_put # put_id(s, c)
  BY TakePending, ZenonT(60)
<1>2. /\ C.pending_put = None /\ C.owed = s.conns[c].owed /\ C.waiting = s.conns[c].waiting
      /\ C.use_tube = s.conns[c].use_tube
  BY SoundRecords, ZenonT(60) DEF ConnType
<1>3. n >= s.next_job_id /\ put_id(s, c) \in Nat
  BY <1>1, SMTT(30) DEF Sound, EngineType
<1> HIDE DEF C, r
<1>4. /\ Sound(r, {}) /\ r.jobs = s.jobs /\ r.tubes = s.tubes /\ r.next_job_id = n
      /\ DOMAIN r.conns = DOMAIN s.conns /\ r.conns[c] = C
      /\ \A d \in DOMAIN s.conns : d # c => r.conns[d] = s.conns[d]
  BY <1>1, Zenon DEF Became
<1>5. None # put_id(s, c)
  BY <1>3, ConstantsAssumption, ZenonT(60)
<1> QED BY <1>1, <1>2, <1>3, <1>4, <1>5, ZenonT(30) DEF PutKeeps, r

\* put files the new job in the connection's tube.
LEMMA PutSound ==
    ASSUME Laws, NEW s, Sound(s, {}), NEW c \in DOMAIN s.conns, NEW pri \in Nat, NEW delay \in Nat,
           NEW ttr \in Nat, NEW at \in Nat
    PROVE  LET r == cmd_put(s, c, pri, delay, ttr, at)
           IN  /\ Sound(r, {}) /\ PutKeeps(s, r, c)
               /\ DOMAIN r.jobs = DOMAIN s.jobs \cup {put_id(s, c)}
<1> DEFINE id == put_id(s, c)
           t == s.conns[c].use_tube
           j == [tube |-> t, pri |-> pri, ttr |-> IF ttr = 0 THEN 1 ELSE ttr,
                 state |-> "ready", reserver |-> None, deadline_at |-> 0]
           s1 == take_pending(s, c)
           s2 == job_filed(s1, with_entry(s1.jobs, id, j), t, s1.tubes[t].job_ref_ct + 1)
           s3 == enqueue(s2, t, id, delay, at)
           r == journal_put(s3, id)
<1>1. cmd_put(s, c, pri, delay, ttr, at) = r
  BY Zenon DEF cmd_put, job_filed
<1>2. /\ Sound(s1, {}) /\ PutKeeps(s, s1, c) /\ s1.jobs = s.jobs /\ s1.tubes = s.tubes
      /\ id \in 1..(s1.next_job_id - 1) /\ id \notin DOMAIN s.jobs
      /\ \A d \in DOMAIN s1.conns : s1.conns[d].pending_put # id
  BY PendingTaken, ZenonT(60)
<1>3. t \in DOMAIN s1.tubes
  BY <1>2, ZenonT(60) DEF Sound, RefsSound
<1>4. j \in JobType /\ j.tube = t
  <2>1. t \in TubeNames
    BY <1>2, <1>3, SoundRecords, ZenonT(60)
  <2> QED BY <2>1, ZenonT(60) DEF JobType, States
<1> HIDE DEF s1, id, t, j
<1>5. /\ Sound(s2, {id}) /\ s2.conns = s1.conns /\ s2.next_job_id = s1.next_job_id
      /\ DOMAIN s2.jobs = DOMAIN s1.jobs \cup {id} /\ s2.jobs[id] = j
  <2>1. id \in 1..(s1.next_job_id - 1) /\ id \notin DOMAIN s1.jobs
    BY <1>2, ZenonT(60)
  <2>2. Sound(s1, {}) /\ \A d \in DOMAIN s1.conns : s1.conns[d].pending_put # id
    BY <1>2, Zenon
  <2> QED BY <1>3, <1>4, <2>1, <2>2, NewJob, SMTT(60)
<1> HIDE DEF s2
<1>6. Sound(s3, {}) /\ KeepsRest(s2, s3) /\ s3.conns = s2.conns
  <2>1. id \in DOMAIN s2.jobs /\ t = s2.jobs[id].tube
    BY <1>4, <1>5, ZenonT(60)
  <2>2. Sound(s2, {id})
    BY <1>5, ZenonT(60)
  <2>3. /\ Sound(enqueue(s2, t, id, delay, at), {}) /\ KeepsRest(s2, enqueue(s2, t, id, delay, at))
        /\ enqueue(s2, t, id, delay, at).conns = s2.conns
    BY <2>1, <2>2, EnqueueSound, SMTT(30)
  <2> QED BY <2>3, Zenon DEF s3
<1> HIDE DEF s3
<1>7. id \in Nat /\ id \in DOMAIN s3.jobs
  BY <1>5, <1>6, SoundRecords, ZenonT(30) DEF KeepsRest
<1>8. Sound(r, {}) /\ SameCore(s3, r)
  BY <1>6, <1>7, JournalCalls, ZenonT(60)
<1> HIDE DEF r
<1>9. /\ r.conns = s1.conns /\ r.next_job_id = s1.next_job_id
      /\ DOMAIN r.jobs = DOMAIN s.jobs \cup {id}
  BY <1>2, <1>5, <1>6, <1>8, ZenonT(60) DEF SameCore, KeepsRest
<1> QED BY <1>1, <1>2, <1>8, <1>9, ZenonT(60) DEF PutKeeps, id

\* A put that is refused ends there too.
LEMMA PutRejectedSound ==
    ASSUME NEW s, Sound(s, {}), NEW c \in DOMAIN s.conns, NEW why
    PROVE  LET r == put_rejected(s, c, why)
           IN  Sound(r, {}) /\ PutKeeps(s, r, c) /\ r.jobs = s.jobs
<1> DEFINE C == [s.conns[c] EXCEPT !.pending_put = None]
           n == IF /\ s.conns[c].pending_put = None
                   /\ why \in {"expected_crlf", "out_of_memory"}
                THEN s.next_job_id + 1 ELSE s.next_job_id
           x == become(s, c, C, n)
<1>1. put_rejected(s, c, why) = reply(accept(x, c), c)
  BY ZenonT(60) DEF put_rejected, allocate_id, become, Sound, EngineType
<1>2. n \in {s.next_job_id, s.next_job_id + 1} /\ n >= s.next_job_id
  BY SMTT(30) DEF Sound, EngineType
<1> HIDE DEF n
<1>3. Became(s, x, {}, c, C, n)
  BY <1>2, SetPending, Zenon
<1>4. C.pending_put = None /\ C.owed = s.conns[c].owed /\ C.waiting = s.conns[c].waiting /\ C.owed \in Int
  BY SoundRecords, ZenonT(60) DEF ConnType
<1> HIDE DEF C, x
<1> DEFINE y == accept(x, c)
           z == reply(y, c)
<1>5. c \in DOMAIN x.conns /\ Sound(x, {})
  BY <1>3, ZenonT(60) DEF Became
<1>6. /\ Sound(y, {}) /\ y.jobs = x.jobs /\ y.next_job_id = x.next_job_id /\ OthersSame(x, y, c)
      /\ y.conns[c].pending_put = x.conns[c].pending_put
      /\ y.conns[c].waiting = x.conns[c].waiting /\ y.conns[c].owed = x.conns[c].owed + 1
  BY <1>5, ReplySound, SMTT(30)
<1> HIDE DEF y
<1>7. c \in DOMAIN y.conns
  BY <1>5, <1>6, ZenonT(60) DEF OthersSame
<1>8. /\ Sound(z, {}) /\ z.jobs = y.jobs /\ z.next_job_id = y.next_job_id /\ OthersSame(y, z, c)
      /\ z.conns[c].pending_put = y.conns[c].pending_put
      /\ z.conns[c].waiting = y.conns[c].waiting /\ z.conns[c].owed = y.conns[c].owed - 1
  <2>1. Sound(y, {}) /\ c \in DOMAIN y.conns /\ z \in {reply(y, c), accept(y, c)}
    BY <1>6, <1>7, ZenonT(60)
  <2>2. Sound(z, {}) /\ z.conns[c].owed = y.conns[c].owed - 1
    BY ONLY <2>1, ReplySound, ZenonT(60)
  <2> HIDE DEF z
  <2> QED BY ONLY <2>1, <2>2, ReplySound, SMTT(30)
<1> HIDE DEF z
<1>9. PutKeeps(s, z, c) /\ z.jobs = s.jobs
  <2>1. /\ x.jobs = s.jobs /\ x.conns[c] = C /\ x.next_job_id = n
        /\ OthersSame(s, x, c)
    BY <1>3, Zenon DEF Became, OthersSame
  <2>2. /\ z.jobs = s.jobs /\ z.next_job_id = n /\ OthersSame(s, z, c)
        /\ z.conns[c].pending_put = C.pending_put /\ z.conns[c].waiting = C.waiting
    BY <1>6, <1>8, <2>1, ZenonT(60) DEF OthersSame
  <2>3. z.conns[c].owed = C.owed
    BY <1>4, <1>6, <1>8, <2>1, SMTT(30)
  <2> QED BY <1>2, <1>4, <2>2, <2>3, ZenonT(60) DEF PutKeeps, OthersSame
<1> QED BY <1>1, <1>8, <1>9, ZenonT(60) DEF z, y

\* The jobs a connection holds are reserved by it.
HeldBy(s, c, id) ==
    id \in DOMAIN s.jobs /\ s.jobs[id].state = "reserved" /\ s.jobs[id].reserver = c

\* What disconnect and conn_timeout give back is held by the connection.
LEMMA HeldJobs ==
    ASSUME Laws, NEW s, Sound(s, {}), NEW c \in DOMAIN s.conns
    PROVE  /\ s.conns[c].reserved # <<>> => HeldBy(s, c, Head(s.conns[c].reserved))
           /\ s.conns[c].reserved_by_deadline # {} =>
                HeldBy(s, c, soonest_reserved(s.conns[c])[2])
<1> DEFINE cs == s.conns[c]
<1>1. /\ \A id \in Range(cs.reserved) : HeldBy(s, c, id)
      /\ \A e \in cs.reserved_by_deadline : HeldBy(s, c, e[2])
  <2>1. ConnHolds(s, {}, c)
    BY FiledIsPlaced, ZenonT(60) DEF Sound, Placed
  <2> QED BY <2>1, ZenonT(60) DEF ConnHolds, HeldBy
<1>2. cs.reserved \in Seq(Nat) /\ cs.reserved_by_deadline \in SUBSET (Nat \X Nat)
  <2>1. cs \in ConnType
    BY SoundRecords, ZenonT(60)
  <2> HIDE DEF cs
  <2> QED BY <2>1, Zenon DEF ConnType
<1> HIDE DEF cs
<1>3. ASSUME cs.reserved # <<>> PROVE HeldBy(s, c, Head(cs.reserved))
  <2>1. Head(cs.reserved) \in Range(cs.reserved)
    BY <1>2, <1>3, SMTT(30) DEF Range
  <2> QED BY <1>1, <2>1, ZenonT(60)
<1>4. ASSUME cs.reserved_by_deadline # {} PROVE HeldBy(s, c, soonest_reserved(cs)[2])
  <2>1. soonest_reserved(cs) \in cs.reserved_by_deadline
    BY <1>2, <1>4, FirstIsLeast, ZenonT(60) DEF soonest_reserved
  <2> QED BY <1>1, <2>1, ZenonT(60)
<1> QED BY <1>3, <1>4, ZenonT(60) DEF cs

\* The first buried job of a tube, which kick takes, is a buried job of it.
LEMMA BuriedHead ==
    ASSUME NEW s, Sound(s, {}), NEW t \in DOMAIN s.tubes, s.tubes[t].buried # <<>>
    PROVE  JobIn(s, t, Head(s.tubes[t].buried), "buried")
<1> DEFINE q == s.tubes[t].buried
<1>1. q \in Seq(Nat)
  BY SoundRecords, ZenonT(60)
<1>2. Head(q) \in Range(q)
  BY <1>1, SMTT(30) DEF Range
<1>3. TubeHolds(s, {}, t)
  BY FiledIsPlaced, ZenonT(60) DEF Sound, Placed
<1> QED BY <1>2, <1>3, ZenonT(60) DEF TubeHolds, JobIn

\* The tube tick takes a due job from has a delayed job.
LEMMA SoonestDelayed ==
    ASSUME Laws, NEW s, Sound(s, {}), delayed_tubes(s) # {}
    PROVE  LET t == soonest_delayed_tube(s)
           IN  t \in DOMAIN s.tubes /\ JobIn(s, t, first(s.tubes[t].delayed)[2], "delayed")
<1> DEFINE Key(t) == <<s.tubes[t].delay_head, position(s.tube_order, t)>>
           S == {Key(t) : t \in delayed_tubes(s)}
           v == soonest_delayed_tube(s)
<1>1. ASSUME NEW t \in delayed_tubes(s) PROVE Key(t) \in Nat \X Nat
  <2>1. t \in DOMAIN s.tubes /\ s.tubes[t].delay_head # None
    BY Zenon DEF delayed_tubes
  <2>2. s.tubes[t].delay_head \in Nat
    <3>1. s.tubes[t] \in TubeType
      BY <2>1, SoundRecords, ZenonT(60)
    <3>2. s.tubes[t].delay_head \in OptionalNat
      BY ONLY <3>1, ZenonT(30) DEF TubeType
    <3> QED BY <2>1, <3>2, Zenon DEF OptionalNat
  <2>3. /\ s.tube_order \in Seq(TubeNames) /\ IsInjective(s.tube_order)
        /\ t \in Range(s.tube_order)
    BY <2>1, ZenonT(30) DEF Sound, EngineType, RefsSound
  <2>4. position(s.tube_order, t) \in 1..Len(s.tube_order)
    BY <2>3, PositionFound, ZenonT(30)
  <2> QED BY <2>2, <2>3, <2>4, SMTT(30)
<1> HIDE DEF Key
<1>2. S \in SUBSET (Nat \X Nat) /\ S # {}
  BY <1>1, Zenon
<1>3. first(S) \in S /\ \A q \in S : ~PairLess(q, first(S))
  BY <1>2, FirstIsLeast, Zenon
<1>4. PICK t \in delayed_tubes(s) : Key(t) = first(S)
  BY <1>3, Zenon
<1>5. \E w \in delayed_tubes(s) : \A u \in delayed_tubes(s) : ~PairLess(Key(u), Key(w))
  BY <1>3, <1>4, Zenon
<1>6. v = CHOOSE w \in delayed_tubes(s) : \A u \in delayed_tubes(s) : ~PairLess(Key(u), Key(w))
  BY Zenon DEF soonest_delayed_tube, Key
<1>7. v \in delayed_tubes(s)
  BY <1>5, <1>6, ZenonT(60)
<1> HIDE DEF v
<1>8. v \in DOMAIN s.tubes /\ s.tubes[v].delay_head # None
  BY <1>7, ZenonT(60) DEF delayed_tubes
<1>9. s.tubes[v].delayed # {}
  BY <1>8, SoundRecords, ZenonT(60) DEF Indexed, DelayHeadExact
<1> QED BY <1>8, <1>9, FirstQueued, ZenonT(60) DEF v
-----------------------------------------------------------------------------
(* Tubes and connections that come and go.                                 *)


\* A new tube is empty and nothing refers to it.
LEMMA NewTubeType ==
    /\ NewTube \in TubeType /\ Indexed(NewTube)
    /\ NewTube.ready = {} /\ NewTube.delayed = {} /\ NewTube.buried = <<>>
    /\ NewTube.waiting_conns.items = <<>> /\ NewTube.using_ct = 0 /\ NewTube.job_ref_ct = 0
<1>1. MsEmpty \in MsType /\ MsEmpty.items = <<>>
  BY SMTT(30) DEF MsEmpty, MsType
<1> QED BY <1>1, SMTT(30) DEF NewTube, TubeType, Indexed, DispatchableExact, DelayHeadExact, MsEmpty, OptionalNat

\* The tubes change and the jobs, the connections and the ids do not.
TubesChanged(s, r) ==
    EngineType(r) /\ r.jobs = s.jobs /\ r.conns = s.conns /\ r.next_job_id = s.next_job_id

\* Whoever needs a tube finds it, and every tube that is not the same as before is empty.
LEMMA TubesChangedSound ==
    ASSUME Laws, NEW s, NEW r, NEW hand, Sound(s, hand), TubesChanged(s, r),
           DefaultTube \in DOMAIN r.tubes,
           IsInjective(r.tube_order), Range(r.tube_order) = DOMAIN r.tubes,
           \A c \in DOMAIN s.conns : s.conns[c].use_tube \in DOMAIN r.tubes,
           \A k \in DOMAIN s.jobs : s.jobs[k].tube \in DOMAIN r.tubes,
           \A t \in DOMAIN r.tubes :
               (t \in DOMAIN s.tubes /\ r.tubes[t] = s.tubes[t])
               \/ (t \notin DOMAIN s.tubes /\ r.tubes[t] = NewTube)
    PROVE  Sound(r, hand)
<1> USE DEF TubesChanged
<1>1. ASSUME NEW w, NEW x, NEW p \in Nat, NEW k \in Nat
      PROVE  Contains(r, w, x, p, k) <=> Contains(s, w, x, p, k)
  <2>1. CASE w \in {"ready", "delayed", "buried"}
    <3>1. Contains(s, w, x, p, k) => x \in DOMAIN r.tubes
      <4>1. Contains(s, w, x, p, k) => k \in DOMAIN s.jobs /\ Place(s.jobs[k], w, x, p)
        BY ZenonT(60) DEF Sound, Filed, Exact, Belongs
      <4> QED BY <2>1, <4>1, ZenonT(60) DEF Place
    <3>2. CASE x \in DOMAIN r.tubes /\ x \in DOMAIN s.tubes
      BY <2>1, <3>2, ZenonT(60) DEF Contains
    <3>3. CASE x \in DOMAIN r.tubes /\ x \notin DOMAIN s.tubes
      <4>1. r.tubes[x] = NewTube
        BY <3>3, ZenonT(60)
      <4> QED BY <2>1, <3>3, <4>1, NewTubeType, EmptyList, ZenonT(30) DEF Contains
    <3>4. CASE x \notin DOMAIN r.tubes
      BY <2>1, <3>1, <3>4, ZenonT(30) DEF Contains
    <3> QED BY <3>2, <3>3, <3>4, ZenonT(60)
  <2>2. CASE w \notin {"ready", "delayed", "buried"}
    BY <2>2, ZenonT(60) DEF Contains
  <2> QED BY <2>1, <2>2, ZenonT(60)
<1>2. ListsOnce(r)
  BY NewTubeType, EmptyList, ZenonT(30) DEF Sound, Filed, ListsOnce
<1>3. Filed(r, hand)
  <2>1. TubesLive(r) /\ r.jobs = s.jobs /\ Filed(s, hand)
    BY ZenonT(60) DEF Sound, TubesLive
  <2> QED BY ONLY <1>1, <1>2, <2>1, LeftAlone, ZenonT(30)
<1>4. WaitersSound(r)
  <2>1. \A t, c : Waiter(s, t, c) => Waiter(r, t, c)
    BY ZenonT(60) DEF Waiter
  <2> QED BY <2>1, NewTubeType, EmptyList, ZenonT(30) DEF Sound, WaitersSound
<1>5. RefsSound(r)
  <2>1. \A t : Users(r, t) = Users(s, t) /\ JobsOf(r, t) = JobsOf(s, t)
    BY ZenonT(60) DEF Users, JobsOf
  <2>2. RefsSound(s) /\ TubesLive(s)
    BY Zenon DEF Sound, Filed
  <2>3. ASSUME NEW t \in DOMAIN r.tubes
        PROVE  /\ r.tubes[t].using_ct = Cardinality(Users(s, t))
               /\ r.tubes[t].job_ref_ct = Cardinality(JobsOf(s, t))
    <3>1. CASE t \in DOMAIN s.tubes
      BY <2>2, <3>1, ZenonT(60) DEF RefsSound
    <3>2. CASE t \notin DOMAIN s.tubes
      <4>1. Users(s, t) = {} /\ JobsOf(s, t) = {}
        BY <2>2, <3>2, SMTT(30) DEF RefsSound, TubesLive, Users, JobsOf
      <4> QED BY <3>2, <4>1, NewTubeType, CountNone, ZenonT(30)
    <3> QED BY <3>1, <3>2, ZenonT(60)
  <2> QED BY <2>1, <2>2, <2>3, SMTT(30) DEF RefsSound
<1>6. IdsFresh(r)
  BY ZenonT(60) DEF Sound, IdsFresh
<1> QED BY <1>3, <1>4, <1>5, <1>6, ZenonT(30) DEF Sound

\* find_or_make_tube: the tube is there afterwards.
LEMMA FindOrMake ==
    ASSUME Laws, NEW s, NEW hand, Sound(s, hand), NEW t \in TubeNames
    PROVE  LET r == find_or_make_tube(s, t)
           IN  /\ Sound(r, hand) /\ r.jobs = s.jobs /\ r.conns = s.conns
               /\ r.next_job_id = s.next_job_id
               /\ DOMAIN r.tubes = DOMAIN s.tubes \cup {t}
<1> DEFINE r == find_or_make_tube(s, t)
<1>1. CASE t \in DOMAIN s.tubes
  BY <1>1, ZenonT(60) DEF find_or_make_tube
<1>2. CASE t \notin DOMAIN s.tubes
  <2> DEFINE f == with_entry(s.tubes, t, NewTube)
             q == Append(s.tube_order, t)
  <2>1. r = [s EXCEPT !.tubes = f, !.tube_order = q]
    BY <1>2, ZenonT(60) DEF find_or_make_tube
  <2>2. /\ DOMAIN f = DOMAIN s.tubes \cup {t} /\ f[t] = NewTube
        /\ \A u \in DOMAIN s.tubes : f[u] = s.tubes[u]
        /\ f \in [DOMAIN f -> TubeType] /\ DOMAIN f \subseteq TubeNames
    BY <1>2, NewTubeType, ZenonT(30) DEF with_entry, Sound, EngineType
  <2>3. q \in Seq(TubeNames) /\ IsInjective(q) /\ Range(q) = DOMAIN f
    <3>1. /\ s.tube_order \in Seq(TubeNames) /\ IsInjective(s.tube_order)
          /\ Range(s.tube_order) = DOMAIN s.tubes
      BY ZenonT(60) DEF Sound, EngineType, RefsSound
    <3> HIDE DEF f
    <3> QED BY <1>2, <2>2, <3>1, AppendNew, SMTT(30)
  <2> HIDE DEF r, f, q
  <2>4. /\ r.jobs = s.jobs /\ r.conns = s.conns /\ r.next_job_id = s.next_job_id
        /\ r.tubes = f /\ r.tube_order = q
    BY <2>1, ZenonT(60) DEF Sound, EngineType
  <2>5. EngineType(r)
    BY <2>1, <2>2, <2>3, ZenonT(60) DEF Sound, EngineType
  <2>6. TubesChanged(s, r)
    BY <2>4, <2>5, ZenonT(60) DEF TubesChanged
  <2>7. Sound(r, hand)
    <3>1. /\ DefaultTube \in DOMAIN s.tubes
          /\ \A c \in DOMAIN s.conns : s.conns[c].use_tube \in DOMAIN s.tubes
          /\ \A k \in DOMAIN s.jobs : s.jobs[k].tube \in DOMAIN s.tubes
      BY ZenonT(60) DEF Sound, RefsSound, Filed, TubesLive
    <3> QED BY <1>2, <2>2, <2>3, <2>4, <2>6, <3>1, TubesChangedSound, ZenonT(60)
  <2> QED BY <2>2, <2>4, <2>7, ZenonT(60) DEF r
<1> QED BY <1>1, <1>2, ZenonT(60)

\* A tube without references has no users and no jobs.
LEMMA Orphan ==
    ASSUME Laws, NEW s, NEW hand, Sound(s, hand), NEW t \in DOMAIN s.tubes, refs(s.tubes[t]) = 0
    PROVE  Users(s, t) = {} /\ JobsOf(s, t) = {}
<1>1. s.tubes[t] \in TubeType
  BY SoundRecords, ZenonT(60)
<1>2. s.tubes[t].using_ct = 0 /\ s.tubes[t].job_ref_ct = 0
  BY <1>1, SMTT(30) DEF refs, TubeType
<1>3. /\ IsFiniteSet(DOMAIN s.jobs) /\ IsFiniteSet(DOMAIN s.conns)
      /\ Cardinality(Users(s, t)) = 0 /\ Cardinality(JobsOf(s, t)) = 0
  BY <1>2, ZenonT(60) DEF Sound, RefsSound
<1>4. Users(s, t) \in SUBSET DOMAIN s.conns /\ JobsOf(s, t) \in SUBSET DOMAIN s.jobs
  BY Zenon DEF Users, JobsOf
<1>5. IsFiniteSet(Users(s, t)) /\ IsFiniteSet(JobsOf(s, t))
  BY <1>3, <1>4, CountPart, ZenonT(60)
<1> QED BY <1>3, <1>5, CountNone, ZenonT(60)

\* gc_tube_if_orphan removes a tube nobody needs, or nothing.
LEMMA GcSound ==
    ASSUME Laws, NEW s, NEW hand, Sound(s, hand), NEW t
    PROVE  LET r == gc_tube_if_orphan(s, t)
           IN  /\ Sound(r, hand) /\ r.jobs = s.jobs /\ r.conns = s.conns
               /\ r.next_job_id = s.next_job_id
<1> DEFINE r == gc_tube_if_orphan(s, t)
<1>1. CASE t = DefaultTube \/ refs(s.tubes[t]) # 0
  BY <1>1, Zenon DEF gc_tube_if_orphan
<1>2. CASE ~(t = DefaultTube \/ refs(s.tubes[t]) # 0)
  <2> DEFINE f == without_entry(s.tubes, t)
             q == list_swap_remove(s.tube_order, t)
  <2>1. r = [s EXCEPT !.tubes = f, !.tube_order = q]
    BY <1>2, ZenonT(60) DEF gc_tube_if_orphan
  <2>2. /\ DOMAIN f = DOMAIN s.tubes \ {t}
        /\ \A u \in DOMAIN f : f[u] = s.tubes[u]
        /\ f \in [DOMAIN f -> TubeType] /\ DOMAIN f \subseteq TubeNames
    BY ZenonT(60) DEF without_entry, Restrict, Sound, EngineType
  <2>3. q \in Seq(TubeNames) /\ IsInjective(q) /\ Range(q) = DOMAIN f
    <3>1. /\ s.tube_order \in Seq(TubeNames) /\ IsInjective(s.tube_order)
          /\ Range(s.tube_order) = DOMAIN s.tubes
      BY ZenonT(60) DEF Sound, EngineType, RefsSound
    <3> HIDE DEF f
    <3> QED BY <2>2, <3>1, ListSwapRemove, SMTT(30)
  <2> HIDE DEF r, f, q
  <2>4. /\ r.jobs = s.jobs /\ r.conns = s.conns /\ r.next_job_id = s.next_job_id
        /\ r.tubes = f /\ r.tube_order = q
    BY <2>1, ZenonT(60) DEF Sound, EngineType
  <2>5. EngineType(r)
    BY <2>1, <2>2, <2>3, ZenonT(60) DEF Sound, EngineType
  <2>6. TubesChanged(s, r)
    BY <2>4, <2>5, ZenonT(60) DEF TubesChanged
  <2>7. Sound(r, hand)
    <3>1. /\ DefaultTube \in DOMAIN s.tubes
          /\ \A c \in DOMAIN s.conns : s.conns[c].use_tube \in DOMAIN s.tubes
          /\ \A k \in DOMAIN s.jobs : s.jobs[k].tube \in DOMAIN s.tubes
      BY ZenonT(60) DEF Sound, RefsSound, Filed, TubesLive
    <3>2. /\ \A c \in DOMAIN s.conns : s.conns[c].use_tube # t
          /\ \A k \in DOMAIN s.jobs : s.jobs[k].tube # t
      <4>1. CASE t \in DOMAIN s.tubes
        <5>1. Users(s, t) = {} /\ JobsOf(s, t) = {}
          BY <1>2, <4>1, Orphan, ZenonT(60)
        <5> QED BY <5>1, ZenonT(60) DEF Users, JobsOf
      <4>2. CASE t \notin DOMAIN s.tubes
        BY <3>1, <4>2, ZenonT(60)
      <4> QED BY <4>1, <4>2, ZenonT(60)
    <3> QED BY <1>2, <2>2, <2>3, <2>4, <2>6, <3>1, <3>2, TubesChangedSound, ZenonT(60)
  <2> QED BY <2>4, <2>7, ZenonT(60) DEF r
<1> QED BY <1>1, <1>2, ZenonT(60)

\* drop_watch: one watcher less, and the tube may be collected.
LEMMA DropWatch ==
    ASSUME Laws, NEW s, NEW hand, Sound(s, hand), NEW t
    PROVE  LET r == drop_watch(s, t)
           IN  /\ Sound(r, hand) /\ r.jobs = s.jobs /\ r.conns = s.conns
               /\ r.next_job_id = s.next_job_id
<1> DEFINE n == saturating_sub(s.tubes[t].watching_ct, 1)
           q == set_watching(s, t, n)
<1>1. drop_watch(s, t) = gc_tube_if_orphan(q, t)
  BY Zenon DEF drop_watch, set_watching
<1>2. /\ Sound(q, hand) /\ q.jobs = s.jobs /\ q.conns = s.conns
      /\ q.next_job_id = s.next_job_id
  <2>1. CASE t \in DOMAIN s.tubes
    <3>1. s.tubes[t] \in TubeType
      BY <2>1, SoundRecords, ZenonT(60)
    <3>2. s.tubes[t].watching_ct \in Nat
      BY <3>1, ZenonT(60) DEF TubeType
    <3>3. n \in Nat
      BY <3>2, SaturatingSub, ZenonT(60)
    <3> HIDE DEF n
    <3> QED BY <2>1, <3>3, SetWatching, ZenonT(30) DEF TubesOnly
  <2>2. CASE t \notin DOMAIN s.tubes
    <3>1. q = s
      BY <2>2, ZenonT(30) DEF Sound, EngineType, set_watching
    <3> HIDE DEF q
    <3> QED BY <3>1, ZenonT(60)
  <2> QED BY <2>1, <2>2, ZenonT(60)
<1> HIDE DEF q
<1> QED BY <1>1, <1>2, GcSound, SMTT(30)

\* A new list of watched tubes changes no duty.
LEMMA WatchDuties ==
    ASSUME NEW s, NEW r, NEW c \in DOMAIN s.conns, NEW q, Sound(s, {}),
           Became(s, r, {}, c, [s.conns[c] EXCEPT !.watch = q], s.next_job_id)
    PROVE  SameDuties(s, r)
<1> DEFINE C == [s.conns[c] EXCEPT !.watch = q]
<1>1. C.waiting = s.conns[c].waiting /\ C.owed = s.conns[c].owed /\ C.pending_put = s.conns[c].pending_put
  BY SoundRecords, ZenonT(60) DEF ConnType
<1> HIDE DEF C
<1>2. Became(s, r, {}, c, C, s.next_job_id)
  BY Zenon DEF C
<1> QED BY <1>1, <1>2, ZenonT(60) DEF Became, SameDuties

\* cmd_watch makes the tube if it is new and counts one more watcher.
LEMMA WatchSound ==
    ASSUME Laws, NEW s, Sound(s, {}), NEW c \in DOMAIN s.conns, ~s.conns[c].waiting, NEW t \in TubeNames
    PROVE  Sound(cmd_watch(s, c, t), {}) /\ SameDuties(s, cmd_watch(s, c, t))
<1>1. CASE t \in Range(s.conns[c].watch)
  BY <1>1, ZenonT(60) DEF cmd_watch, SameDuties
<1>2. CASE t \notin Range(s.conns[c].watch)
  <2> DEFINE s1 == find_or_make_tube(s, t)
             n == s1.tubes[t].watching_ct + 1
             s2 == set_watching(s1, t, n)
             q == Append(s1.conns[c].watch, t)
             r == [s2 EXCEPT !.conns[c].watch = q]
  <2>1. /\ Sound(s1, {}) /\ s1.jobs = s.jobs /\ s1.conns = s.conns
        /\ s1.next_job_id = s.next_job_id /\ t \in DOMAIN s1.tubes
    BY FindOrMake, ZenonT(60)
  <2>2. cmd_watch(s, c, t) = [s1 EXCEPT !.conns[c].watch = q, !.tubes[t].watching_ct = n]
    BY <1>2, ZenonT(60) DEF cmd_watch
  <2> HIDE DEF s1
  <2>3. cmd_watch(s, c, t) = r
    BY <2>1, <2>2, ZenonT(60) DEF set_watching, Sound, EngineType
  <2>4. n \in Nat
    <3>1. s1.tubes[t] \in TubeType
      BY <2>1, SoundRecords, ZenonT(60)
    <3>2. s1.tubes[t].watching_ct \in Nat
      BY ONLY <3>1, ZenonT(60) DEF TubeType
    <3> QED BY <3>2, SMTT(30)
  <2>5. q \in Seq(TubeNames)
    <3>1. s1.conns[c] \in ConnType
      BY <2>1, SoundRecords, ZenonT(60)
    <3> QED BY <3>1, SMTT(30) DEF ConnType
  <2> HIDE DEF n, q
  <2>6. TubesOnly(s1, s2, {})
    BY <2>1, <2>4, SetWatching, ZenonT(60)
  <2> HIDE DEF s2
  <2>7. /\ Sound(s2, {}) /\ s2.jobs = s.jobs /\ s2.conns = s.conns
        /\ s2.next_job_id = s.next_job_id /\ c \in DOMAIN s2.conns /\ ~s2.conns[c].waiting
    BY <2>1, <2>6, ZenonT(60) DEF TubesOnly
  <2>8. Became(s2, r, {}, c, [s2.conns[c] EXCEPT !.watch = q], s2.next_job_id)
    BY <2>5, <2>7, SetWatch, ZenonT(60)
  <2> HIDE DEF r
  <2>9. SameDuties(s2, r) /\ Sound(r, {})
    BY <2>7, <2>8, WatchDuties, ZenonT(60) DEF Became
  <2> QED BY <2>3, <2>7, <2>9, ZenonT(60) DEF SameDuties
<1> QED BY <1>1, <1>2, ZenonT(60)

\* cmd_ignore counts one watcher less, and the tube may go.
LEMMA IgnoreSound ==
    ASSUME Laws, NEW s, Sound(s, {}), NEW c \in DOMAIN s.conns, ~s.conns[c].waiting, NEW t
    PROVE  Sound(cmd_ignore(s, c, t), {}) /\ SameDuties(s, cmd_ignore(s, c, t))
<1> DEFINE q == list_swap_remove(s.conns[c].watch, t)
           r == [s EXCEPT !.conns[c].watch = q]
<1>1. cmd_ignore(s, c, t) = drop_watch(r, t)
  BY Zenon DEF cmd_ignore
<1>2. q \in Seq(TubeNames)
  <2>1. s.conns[c] \in ConnType
    BY SoundRecords, ZenonT(60)
  <2>2. s.conns[c].watch \in Seq(TubeNames)
    BY <2>1, ZenonT(60) DEF ConnType
  <2> QED BY <2>2, SwapRemoveType, ZenonT(60)
<1> HIDE DEF q
<1>3. Became(s, r, {}, c, [s.conns[c] EXCEPT !.watch = q], s.next_job_id)
  BY <1>2, SetWatch, ZenonT(60)
<1> HIDE DEF r
<1>4. SameDuties(s, r) /\ Sound(r, {})
  BY <1>3, WatchDuties, ZenonT(30) DEF Became
<1>5. LET x == drop_watch(r, t)
      IN  Sound(x, {}) /\ x.jobs = r.jobs /\ x.conns = r.conns /\ x.next_job_id = r.next_job_id
  BY <1>4, DropWatch, ZenonT(60)
<1> QED BY <1>1, <1>4, <1>5, ZenonT(30) DEF SameDuties

\* A new connection uses the default tube and holds nothing.
LEMMA NewConnType ==
    /\ NewConn \in ConnType /\ NewConn.use_tube = DefaultTube /\ NewConn.reserved = <<>>
    /\ NewConn.reserved_by_deadline = {} /\ ~NewConn.waiting /\ ~HasPending(NewConn)
    /\ NewConn.owed = 0 /\ NewConn.pending_put = None
<1>1. DefaultTube \in TubeNames
  BY ConstantsAssumption, ZenonT(60)
<1>2. <<DefaultTube>> \in Seq(TubeNames)
  BY <1>1, SMTT(30)
<1> QED BY <1>1, <1>2, SMTT(30) DEF NewConn, ConnType, OptionalNat, HasPending

\* The tubes keep their jobs and waiters, and count the users there are now.
TubesRecounted(s, r) ==
    /\ DOMAIN r.tubes = DOMAIN s.tubes
    /\ \A t \in DOMAIN s.tubes :
         /\ SameJobSets(r.tubes[t], s.tubes[t])
         /\ r.tubes[t].job_ref_ct = s.tubes[t].job_ref_ct
         /\ r.tubes[t].waiting_conns = s.tubes[t].waiting_conns
         /\ Indexed(r.tubes[t])
         /\ r.tubes[t].using_ct = Cardinality(Users(r, t))

\* Who stays keeps its jobs, its wait and its put; who comes has none; who
\* goes holds no job and does not wait.
PeopleChanged(s, r) ==
    /\ IsFiniteSet(DOMAIN r.conns)
    /\ \A d \in DOMAIN r.conns :
         /\ r.conns[d].use_tube \in DOMAIN s.tubes
         /\ d \in DOMAIN s.conns =>
              /\ SameHeld(r.conns[d], s.conns[d])
              /\ r.conns[d].pending_put = s.conns[d].pending_put
              /\ r.conns[d].waiting = s.conns[d].waiting
              /\ r.conns[d].watch = s.conns[d].watch
         /\ d \notin DOMAIN s.conns => r.conns[d] = NewConn
    /\ \A d \in DOMAIN s.conns \ DOMAIN r.conns :
         s.conns[d].reserved = <<>> /\ ~s.conns[d].waiting

\* Connections that come, go or use another tube keep the engine sound, if
\* the counts of the tubes follow.
LEMMA PeopleChangedSound ==
    ASSUME NEW s, NEW r, NEW hand, Sound(s, hand), EngineType(r), r.jobs = s.jobs,
           r.next_job_id = s.next_job_id, r.tube_order = s.tube_order,
           TubesRecounted(s, r), PeopleChanged(s, r)
    PROVE  Sound(r, hand)
<1>1. ASSUME NEW d \in DOMAIN s.conns \ DOMAIN r.conns, NEW w, NEW p \in Nat, NEW k \in Nat,
             w \in {"reserved", "due"}
      PROVE  ~Contains(s, w, d, p, k)
  <2> SUFFICES ASSUME Contains(s, w, d, p, k) PROVE FALSE
    BY ZenonT(60)
  <2>1. k \in DOMAIN s.jobs \ hand /\ Place(s.jobs[k], w, d, p)
    BY Zenon DEF Sound, Filed, Exact, Belongs
  <2>2. Place(s.jobs[k], "reserved", d, 0)
    BY <1>1, <2>1, ZenonT(60) DEF Place
  <2>3. Contains(s, "reserved", d, 0, k)
    BY <2>1, <2>2, ZenonT(60) DEF Sound, Filed, Exact, Belongs
  <2> QED BY <2>3, EmptyList, ZenonT(60) DEF Contains, PeopleChanged
<1>2. ASSUME NEW w, NEW x, NEW p \in Nat, NEW k \in Nat
      PROVE  Contains(r, w, x, p, k) <=> Contains(s, w, x, p, k)
  <2>1. CASE w \in {"ready", "delayed", "buried"}
    BY <2>1, Zenon DEF Contains, TubesRecounted, SameJobSets
  <2>2. CASE w \in {"reserved", "due"}
    <3>1. CASE x \in DOMAIN r.conns /\ x \in DOMAIN s.conns
      BY <2>2, <3>1, ZenonT(60) DEF Contains, PeopleChanged, SameHeld
    <3>2. CASE x \in DOMAIN r.conns /\ x \notin DOMAIN s.conns
      <4>1. r.conns[x] = NewConn
        BY <3>2, ZenonT(60) DEF PeopleChanged
      <4> QED BY <2>2, <3>2, <4>1, NewConnType, EmptyList, ZenonT(30) DEF Contains
    <3>3. CASE x \notin DOMAIN r.conns
      BY <1>1, <2>2, <3>3, ZenonT(30) DEF Contains
    <3> QED BY <3>1, <3>2, <3>3, ZenonT(60)
  <2>3. CASE w \notin {"ready", "delayed", "buried", "reserved", "due"}
    BY <2>3, ZenonT(60) DEF Contains
  <2> QED BY <2>1, <2>2, <2>3, ZenonT(60)
<1>3. ListsOnce(r)
  BY NewConnType, EmptyList, ZenonT(60)
     DEF Sound, Filed, ListsOnce, TubesRecounted, PeopleChanged, SameJobSets, SameHeld
<1>4. Filed(r, hand)
  <2>1. TubesLive(r) /\ Filed(s, hand)
    BY ZenonT(60) DEF Sound, Filed, TubesLive, TubesRecounted
  <2> QED BY <1>2, <1>3, <2>1, LeftAlone, ZenonT(60)
<1>5. WaitersSound(r)
  <2>1. ASSUME NEW t, NEW c, Waiter(s, t, c) PROVE Waiter(r, t, c)
    BY <2>1, ZenonT(60) DEF Waiter, PeopleChanged
  <2> QED BY <2>1, ZenonT(60) DEF Sound, WaitersSound, TubesRecounted
<1>6. RefsSound(r)
  <2>1. \A t : JobsOf(r, t) = JobsOf(s, t)
    BY ZenonT(60) DEF JobsOf
  <2> QED BY <2>1, ZenonT(60) DEF Sound, RefsSound, TubesRecounted, PeopleChanged
<1>7. IdsFresh(r)
  <2>1. ASSUME NEW d \in DOMAIN r.conns, HasPending(r.conns[d])
        PROVE  d \in DOMAIN s.conns /\ HasPending(s.conns[d])
               /\ r.conns[d].pending_put = s.conns[d].pending_put
    BY <2>1, NewConnType, ZenonT(60) DEF PeopleChanged, HasPending
  <2>2. ASSUME NEW d \in DOMAIN r.conns, NEW e \in DOMAIN r.conns \ {d}, HasPending(r.conns[d])
        PROVE  r.conns[e].pending_put # r.conns[d].pending_put
    <3>1. CASE HasPending(r.conns[e])
      BY <2>1, <2>2, <3>1, ZenonT(30) DEF Sound, IdsFresh
    <3>2. CASE ~HasPending(r.conns[e])
      BY <2>2, <3>2, ZenonT(60) DEF HasPending
    <3> QED BY <3>1, <3>2, ZenonT(60)
  <2> QED BY <2>1, <2>2, ZenonT(60) DEF Sound, IdsFresh
<1> QED BY <1>4, <1>5, <1>6, <1>7, ZenonT(30) DEF Sound

\* A new connection uses and watches the default tube.
LEMMA ConnectSound ==
    ASSUME Laws, NEW s, Sound(s, {}), NEW c \in ConnIds, c \notin DOMAIN s.conns
    PROVE  LET r == connect(s, c)
           IN  /\ Sound(r, {}) /\ r.jobs = s.jobs /\ r.next_job_id = s.next_job_id
               /\ DOMAIN r.conns = DOMAIN s.conns \cup {c} /\ r.conns[c] = NewConn
               /\ \A d \in DOMAIN s.conns : r.conns[d] = s.conns[d]
<1> DEFINE r == connect(s, c)
           ts == s.tubes[DefaultTube]
           T == joined(ts)
           f == with_entry(s.conns, c, NewConn)
<1>1. r = [s EXCEPT !.tubes[DefaultTube] = T, !.conns = f]
  BY ZenonT(60) DEF connect
<1>2. /\ DefaultTube \in DOMAIN s.tubes /\ ts \in TubeType /\ Indexed(ts)
      /\ \A d \in DOMAIN s.conns : s.conns[d].use_tube \in DOMAIN s.tubes
  BY SoundRecords, ZenonT(30) DEF Sound, RefsSound
<1>3. /\ DOMAIN f = DOMAIN s.conns \cup {c} /\ f[c] = NewConn
      /\ \A d \in DOMAIN s.conns : f[d] = s.conns[d]
      /\ f \in [DOMAIN f -> ConnType] /\ DOMAIN f \subseteq ConnIds
  BY NewConnType, ZenonT(60) DEF with_entry, Sound, EngineType
<1> HIDE DEF r, ts, f
<1>4. /\ T \in TubeType /\ SameJobSets(T, ts) /\ T.job_ref_ct = ts.job_ref_ct /\ Indexed(T)
      /\ T.waiting_conns = ts.waiting_conns /\ T.using_ct = ts.using_ct + 1
  <2>1. ts.using_ct \in Nat /\ ts.watching_ct \in Nat
    BY <1>2, ZenonT(60) DEF TubeType
  <2>2. ts.using_ct + 1 \in Nat /\ ts.watching_ct + 1 \in Nat
    BY <2>1, SMTT(30)
  <2> DEFINE a == ts.using_ct + 1
             b == ts.watching_ct + 1
  <2>3. T = [ts EXCEPT !.using_ct = a, !.watching_ct = b]
    BY Zenon DEF joined
  <2>4. a \in Nat /\ b \in Nat /\ a = ts.using_ct + 1
    BY <2>2, ZenonT(60)
  <2> HIDE DEF T, a, b
  <2> QED BY <1>2, <2>3, <2>4, ZenonT(60) DEF TubeType, SameJobSets, Indexed, DispatchableExact, DelayHeadExact
<1> HIDE DEF T
<1>5. /\ r.jobs = s.jobs /\ r.next_job_id = s.next_job_id /\ r.conns = f /\ r.tube_order = s.tube_order
      /\ r.tubes = [s.tubes EXCEPT ![DefaultTube] = T]
  BY <1>1, ZenonT(60) DEF Sound, EngineType
<1>6. EngineType(r)
  BY <1>1, <1>2, <1>3, <1>4, ZenonT(60) DEF Sound, EngineType
<1>7. /\ DOMAIN r.tubes = DOMAIN s.tubes /\ r.tubes[DefaultTube] = T
      /\ \A t \in DOMAIN s.tubes : t # DefaultTube => r.tubes[t] = s.tubes[t]
  BY <1>2, <1>5, ZenonT(60)
<1>8. IsFiniteSet(DOMAIN s.conns) /\ IsFiniteSet(DOMAIN f)
  BY <1>3, CountMore, SMTT(30) DEF Sound, RefsSound
<1>9. ASSUME NEW t \in DOMAIN s.tubes
      PROVE  /\ SameJobSets(r.tubes[t], s.tubes[t])
             /\ r.tubes[t].job_ref_ct = s.tubes[t].job_ref_ct
             /\ r.tubes[t].waiting_conns = s.tubes[t].waiting_conns
             /\ Indexed(r.tubes[t])
             /\ r.tubes[t].using_ct = Cardinality(Users(r, t))
  <2>1. s.tubes[t].using_ct = Cardinality(Users(s, t))
    BY ZenonT(60) DEF Sound, RefsSound
  <2>2. CASE t = DefaultTube
    <3>1. Users(r, t) = Users(s, t) \cup {c} /\ c \notin Users(s, t)
      BY <1>3, <1>5, <2>2, NewConnType, SMTT(30) DEF Users
    <3>2. Users(s, t) \in SUBSET DOMAIN s.conns
      BY ZenonT(60) DEF Users
    <3>3. IsFiniteSet(Users(s, t))
      BY <1>8, <3>2, CountPart, ZenonT(60)
    <3>4. Cardinality(Users(r, t)) = Cardinality(Users(s, t)) + 1
      BY <3>1, <3>3, CountMore, ZenonT(60)
    <3> QED BY <1>4, <1>7, <2>1, <2>2, <3>4, ZenonT(60) DEF ts
  <2>3. CASE t # DefaultTube
    <3>1. Users(r, t) = Users(s, t)
      BY <1>3, <1>5, <2>3, NewConnType, ZenonT(30) DEF Users
    <3>2. Indexed(s.tubes[t])
      BY SoundRecords, ZenonT(60)
    <3> QED BY <1>7, <2>1, <2>3, <3>1, <3>2, ZenonT(60) DEF SameJobSets
  <2> QED BY <2>2, <2>3, ZenonT(60)
<1>10. TubesRecounted(s, r)
  BY <1>7, <1>9, ZenonT(60) DEF TubesRecounted
<1>11. PeopleChanged(s, r)
  BY <1>2, <1>3, <1>5, <1>8, NewConnType, ZenonT(30) DEF PeopleChanged, SameHeld
<1>12. Sound(r, {})
  BY <1>5, <1>6, <1>10, <1>11, PeopleChangedSound, ZenonT(30)
<1> QED BY <1>3, <1>5, <1>12, ZenonT(30) DEF r

\* A tube's record with another count of users.
LEMMA UsingField ==
    ASSUME NEW ts \in TubeType, Indexed(ts), NEW n \in Nat
    PROVE  LET T == [ts EXCEPT !.using_ct = n]
           IN  /\ T \in TubeType /\ Indexed(T) /\ SameJobSets(T, ts) /\ T.using_ct = n
               /\ T.job_ref_ct = ts.job_ref_ct /\ T.waiting_conns = ts.waiting_conns
  BY ZenonT(30) DEF TubeType, Indexed, DispatchableExact, DelayHeadExact, SameJobSets

\* The saturating decrement of the count of users is exact.
LEMMA UserLeaves ==
    ASSUME Laws, NEW s, NEW hand, Sound(s, hand), NEW c \in DOMAIN s.conns, NEW t,
           t = s.conns[c].use_tube
    PROVE  /\ t \in DOMAIN s.tubes
           /\ saturating_sub(s.tubes[t].using_ct, 1) \in Nat
           /\ saturating_sub(s.tubes[t].using_ct, 1) = Cardinality(Users(s, t) \ {c})
<1> DEFINE U == Users(s, t)
           n == s.tubes[t].using_ct
<1>1. t \in DOMAIN s.tubes /\ n = Cardinality(U) /\ IsFiniteSet(DOMAIN s.conns)
  BY ZenonT(60) DEF Sound, RefsSound
<1>2. U \in SUBSET DOMAIN s.conns /\ c \in U
  BY Zenon DEF Users
<1>3. IsFiniteSet(U)
  BY <1>1, <1>2, CountPart, ZenonT(60)
<1>4. Cardinality(U) \in Nat /\ Cardinality(U \ {c}) = Cardinality(U) - 1
  BY <1>2, <1>3, CountType, CountFewer, ZenonT(60)
<1>5. Cardinality(U \ {c}) \in Nat
  BY <1>3, CountFewer, CountType, ZenonT(60)
<1> HIDE DEF U, n
<1>6. n \in Nat /\ Cardinality(U \ {c}) = n - 1 /\ n - 1 \in Nat
  BY <1>1, <1>4, <1>5, ZenonT(60)
<1>7. saturating_sub(n, 1) = n - 1
  BY <1>6, SMTT(30) DEF saturating_sub
<1> QED BY <1>1, <1>6, <1>7, ZenonT(60) DEF U, n

\* Another record for tube t, and other connections.
tube_and_conns(s, t, B, g) == [s EXCEPT !.tubes[t] = B, !.conns = g]

tubes_and_conns(s, old, A, t, B, g) ==
    [s EXCEPT !.tubes = [[s.tubes EXCEPT ![old] = A] EXCEPT ![t] = B], !.conns = g]

\* Collecting a tube commutes with what happens to the connections and to
\* another tube.
LEMMA GcCommutes ==
    ASSUME NEW s, EngineType(s), NEW old \in DOMAIN s.tubes, NEW A,
           NEW t \in DOMAIN s.tubes, t # old, NEW B, NEW g
    PROVE  LET x == gc_tube_if_orphan(tube_set(s, old, A), old)
           IN  /\ tube_and_conns(x, t, B, g)
                    = gc_tube_if_orphan(tubes_and_conns(s, old, A, t, B, g), old)
               /\ x.tubes[t] = s.tubes[t] /\ x.conns = s.conns
<1> USE DEF tube_and_conns, tubes_and_conns, tube_set
<1> DEFINE y == [s EXCEPT !.tubes[old] = A]
           x == gc_tube_if_orphan(y, old)
           F == [s.tubes EXCEPT ![old] = A]
           G == [F EXCEPT ![t] = B]
           m == [s EXCEPT !.tubes = G, !.conns = g]
<1>1. /\ y = [s EXCEPT !.tubes = F] /\ F[old] = A /\ F[t] = s.tubes[t] /\ G[old] = A
      /\ DOMAIN F = DOMAIN s.tubes /\ DOMAIN G = DOMAIN s.tubes
      /\ \A u \in DOMAIN s.tubes : u # t => G[u] = F[u]
      /\ G[t] = B
  BY Zenon
<1>2. G = [F EXCEPT ![t] = B]
  BY Zenon
<1> HIDE DEF F, G, y
<1>3. /\ y.tubes = F /\ y.conns = s.conns /\ y.tube_order = s.tube_order
      /\ m.tubes = G /\ m.tube_order = s.tube_order
  BY <1>1, Zenon DEF EngineType
<1>4. CASE old = DefaultTube \/ refs(A) # 0
  <2>1. x = y /\ gc_tube_if_orphan(m, old) = m
    BY <1>1, <1>3, <1>4, ZenonT(60) DEF gc_tube_if_orphan
  <2>2. [y EXCEPT !.tubes[t] = B, !.conns = g] = m
    BY <1>1, <1>2, ZenonT(60) DEF EngineType
  <2> HIDE DEF x, m
  <2>3. [x EXCEPT !.tubes[t] = B, !.conns = g] = gc_tube_if_orphan(m, old)
    BY <2>1, <2>2, ZenonT(60)
  <2> QED BY <1>1, <1>3, <2>1, <2>3, ZenonT(60) DEF x, y, m, G, F
<1>5. CASE ~(old = DefaultTube \/ refs(A) # 0)
  <2> DEFINE q == list_swap_remove(s.tube_order, old)
             H == without_entry(F, old)
             K == without_entry(G, old)
  <2>1. x = [y EXCEPT !.tubes = H, !.tube_order = q]
    BY <1>1, <1>3, <1>5, ZenonT(60) DEF gc_tube_if_orphan
  <2>2. gc_tube_if_orphan(m, old) = [m EXCEPT !.tubes = K, !.tube_order = q]
    BY <1>1, <1>3, <1>5, ZenonT(60) DEF gc_tube_if_orphan
  <2>3. K = [H EXCEPT ![t] = B] /\ H[t] = s.tubes[t]
    BY <1>1, <1>2, ZenonT(60) DEF without_entry, Restrict
  <2> HIDE DEF q, H, K, x
  <2>4. x = [s EXCEPT !.tubes = H, !.tube_order = q]
    BY <1>1, <2>1, ZenonT(60) DEF EngineType
  <2>5. [x EXCEPT !.tubes[t] = B, !.conns = g]
          = [s EXCEPT !.tubes = [H EXCEPT ![t] = B], !.tube_order = q, !.conns = g]
    BY <2>4, ZenonT(60) DEF EngineType
  <2>6. [m EXCEPT !.tubes = K, !.tube_order = q]
          = [s EXCEPT !.tubes = K, !.tube_order = q, !.conns = g]
    BY Zenon DEF EngineType
  <2>7. [x EXCEPT !.tubes[t] = B, !.conns = g] = gc_tube_if_orphan(m, old)
    BY <2>2, <2>3, <2>5, <2>6, ZenonT(30)
  <2>8. x.tubes[t] = s.tubes[t] /\ x.conns = s.conns
    BY <2>3, <2>4, ZenonT(60) DEF EngineType
  <2> QED BY <2>7, <2>8, ZenonT(60) DEF x, y, m, G, F
<1> QED BY <1>4, <1>5, ZenonT(60)

\* use: the old tube loses a user and goes if that was its last reference, the
\* new one gains a user.
LEMMA UseSound ==
    ASSUME Laws, NEW s, Sound(s, {}), NEW c \in DOMAIN s.conns, NEW t \in TubeNames
    PROVE  Sound(cmd_use(s, c, t), {}) /\ SameDuties(s, cmd_use(s, c, t))
<1> DEFINE old == s.conns[c].use_tube
           s0 == find_or_make_tube(s, t)
<1>1. CASE t = old
  BY <1>1, ZenonT(60) DEF cmd_use, SameDuties
<1>2. CASE t # old
  <2> DEFINE A == [s0.tubes[old] EXCEPT !.using_ct = saturating_sub(s0.tubes[old].using_ct, 1)]
             B == [s0.tubes[t] EXCEPT !.using_ct = s0.tubes[t].using_ct + 1]
             C == [s0.conns[c] EXCEPT !.use_tube = t]
             g == [s0.conns EXCEPT ![c] = C]
             y == [s0 EXCEPT !.tubes[old] = A]
             x == gc_tube_if_orphan(y, old)
             F == [[s0.tubes EXCEPT ![old] = A] EXCEPT ![t] = B]
             m == [s0 EXCEPT !.tubes = F, !.conns = g]
  <2>1. /\ Sound(s0, {}) /\ s0.conns = s.conns /\ s0.jobs = s.jobs
        /\ s0.next_job_id = s.next_job_id /\ DOMAIN s0.tubes = DOMAIN s.tubes \cup {t}
    BY FindOrMake, ZenonT(60)
  <2>2. cmd_use(s, c, t) = [drop_use(s0, old) EXCEPT !.tubes[t].using_ct = @ + 1,
                                                    !.conns[c].use_tube = t]
    BY <1>2, ZenonT(60) DEF cmd_use
  <2>3. drop_use(s0, old) = x
    BY Zenon DEF drop_use
  <2> DEFINE n == saturating_sub(s0.tubes[old].using_ct, 1)
             k == s0.tubes[t].using_ct + 1
  <2>4. /\ old \in DOMAIN s0.tubes /\ n \in Nat /\ n = Cardinality(Users(s0, old) \ {c})
    BY <2>1, UserLeaves, ZenonT(60)
  <2> HIDE DEF s0, old
  <2>5. /\ s0.tubes[old] \in TubeType /\ Indexed(s0.tubes[old])
        /\ s0.tubes[t] \in TubeType /\ Indexed(s0.tubes[t])
        /\ s0.conns[c] \in ConnType /\ t \in DOMAIN s0.tubes /\ EngineType(s0)
    BY <2>1, <2>4, SoundRecords, ZenonT(30) DEF Sound
  <2>6. k \in Nat
    <3>1. s0.tubes[t].using_ct \in Nat
      BY ONLY <2>5, ZenonT(60) DEF TubeType
    <3> QED BY ONLY <3>1, SMTT(30)
  <2> HIDE DEF n, k
  <2>7. A = [s0.tubes[old] EXCEPT !.using_ct = n] /\ B = [s0.tubes[t] EXCEPT !.using_ct = k]
    BY Zenon DEF n, k
  <2> HIDE DEF A, B
  <2>8. /\ A \in TubeType /\ Indexed(A) /\ SameJobSets(A, s0.tubes[old]) /\ A.using_ct = n
        /\ A.job_ref_ct = s0.tubes[old].job_ref_ct
        /\ A.waiting_conns = s0.tubes[old].waiting_conns
    BY <2>4, <2>5, <2>7, UsingField, ZenonT(30)
  <2>9. /\ B \in TubeType /\ Indexed(B) /\ SameJobSets(B, s0.tubes[t]) /\ B.using_ct = k
        /\ B.job_ref_ct = s0.tubes[t].job_ref_ct
        /\ B.waiting_conns = s0.tubes[t].waiting_conns
    BY <2>5, <2>6, <2>7, UsingField, ZenonT(30)
  <2>10. cmd_use(s, c, t) = gc_tube_if_orphan(m, old)
    <3>1. y = tube_set(s0, old, A) /\ m = tubes_and_conns(s0, old, A, t, B, g)
      BY ZenonT(60) DEF tube_set, tubes_and_conns
    <3> HIDE DEF y, m, g
    <3>2. /\ tube_and_conns(x, t, B, g) = gc_tube_if_orphan(m, old)
          /\ x.tubes[t] = s0.tubes[t] /\ x.conns = s0.conns
      BY <1>2, <2>4, <2>5, <3>1, GcCommutes, SMTT(30)
    <3> HIDE DEF x
    <3>3. [x EXCEPT !.tubes[t].using_ct = @ + 1, !.conns[c].use_tube = t]
            = tube_and_conns(x, t, B, g)
      <4>1. [x.tubes EXCEPT ![t].using_ct = @ + 1] = [x.tubes EXCEPT ![t] = B]
        BY <3>2, <2>7, ZenonT(60) DEF k
      <4>2. [x.conns EXCEPT ![c].use_tube = t] = g
        BY <3>2, ZenonT(60) DEF g
      <4>3. [x EXCEPT !.tubes[t].using_ct = @ + 1, !.conns[c].use_tube = t]
              = [x EXCEPT !.tubes = [x.tubes EXCEPT ![t].using_ct = @ + 1],
                          !.conns = [x.conns EXCEPT ![c].use_tube = t]]
        BY Zenon
      <4>4. [x EXCEPT !.tubes[t] = B, !.conns = g]
              = [x EXCEPT !.tubes = [x.tubes EXCEPT ![t] = B], !.conns = g]
        BY Zenon
      <4> QED BY <4>1, <4>2, <4>3, <4>4, ZenonT(60) DEF tube_and_conns
    <3> QED BY <2>2, <2>3, <3>2, <3>3, ZenonT(30)
  <2>11. /\ m.tube_order = s0.tube_order /\ m.jobs = s0.jobs /\ m.next_job_id = s0.next_job_id /\ m.tubes = F /\ m.conns = g
         /\ EngineType(m)
    <3>1. C \in ConnType
      BY <2>5, ZenonT(60) DEF ConnType
    <3> HIDE DEF C
    <3>2. /\ g \in [DOMAIN s0.conns -> ConnType] /\ DOMAIN g = DOMAIN s0.conns
          /\ F \in [DOMAIN s0.tubes -> TubeType] /\ DOMAIN F = DOMAIN s0.tubes
      BY <2>5, <2>8, <2>9, <3>1, ZenonT(60) DEF EngineType
    <3> HIDE DEF g, F
    <3> QED BY <2>5, <3>2, ZenonT(60) DEF EngineType
  <2> HIDE DEF m
  <2>12. \A d \in DOMAIN s0.conns \ {c} : g[d] = s0.conns[d]
    BY Zenon
  <2>13. /\ DOMAIN g = DOMAIN s0.conns /\ g[c] = C /\ C.use_tube = t /\ SameHeld(C, s0.conns[c])
         /\ C.pending_put = s0.conns[c].pending_put /\ C.waiting = s0.conns[c].waiting
         /\ C.watch = s0.conns[c].watch /\ C.owed = s0.conns[c].owed
         /\ c \in DOMAIN s0.conns
    BY <2>1, <2>5, ZenonT(30) DEF ConnType, SameHeld, EngineType
  <2>14. /\ DOMAIN F = DOMAIN s0.tubes /\ F[old] = A /\ F[t] = B
         /\ \A u \in DOMAIN s0.tubes \ {old, t} : F[u] = s0.tubes[u]
    BY <1>2, <2>4, <2>5, ZenonT(30)
  <2> HIDE DEF g, F, C
  <2>15. IsFiniteSet(DOMAIN s0.conns) /\ \A u \in DOMAIN s0.tubes :
              /\ IsFiniteSet(Users(s0, u)) /\ s0.tubes[u].using_ct = Cardinality(Users(s0, u))
    <3>1. \A u : Users(s0, u) \in SUBSET DOMAIN s0.conns
      BY ZenonT(60) DEF Users
    <3> QED BY <2>1, <3>1, CountPart, ZenonT(60) DEF Sound, RefsSound
  <2>16. s0.conns[c].use_tube = old
    BY <2>1, Zenon DEF old
  <2>17. TubesRecounted(s0, m)
    <3>1. \A u \in DOMAIN s0.tubes \ {old, t} : Users(m, u) = Users(s0, u)
      BY <2>11, <2>12, <2>13, <2>16, SMTT(30) DEF Users
    <3>2. Users(m, old) = Users(s0, old) \ {c}
      BY <1>2, <2>11, <2>12, <2>13, ZenonT(30) DEF Users
    <3>3. Users(m, t) = Users(s0, t) \cup {c} /\ c \notin Users(s0, t)
      BY <1>2, <2>11, <2>12, <2>13, <2>16, SMTT(30) DEF Users
    <3>4. Cardinality(Users(m, t)) = k
      BY <2>5, <2>15, <3>3, CountMore, ZenonT(30) DEF k
    <3>5. \A u \in DOMAIN s0.tubes : Indexed(s0.tubes[u])
      BY <2>1, SoundRecords, ZenonT(30)
    <3>6. \A u \in DOMAIN s0.tubes :
             /\ SameJobSets(m.tubes[u], s0.tubes[u])
             /\ m.tubes[u].job_ref_ct = s0.tubes[u].job_ref_ct
             /\ m.tubes[u].waiting_conns = s0.tubes[u].waiting_conns
             /\ Indexed(m.tubes[u])
      BY <2>8, <2>9, <2>11, <2>14, <3>5, ZenonT(30) DEF SameJobSets
    <3>7. \A u \in DOMAIN s0.tubes : m.tubes[u].using_ct = Cardinality(Users(m, u))
      BY <2>4, <2>8, <2>9, <2>11, <2>14, <2>15, <3>1, <3>2, <3>4, ZenonT(60)
    <3> QED BY <2>11, <2>14, <3>6, <3>7, ZenonT(30) DEF TubesRecounted
  <2>18. PeopleChanged(s0, m)
    <3>1. \A d \in DOMAIN s0.conns : s0.conns[d].use_tube \in DOMAIN s0.tubes
      BY <2>1, ZenonT(30) DEF Sound, RefsSound
    <3> QED BY <2>5, <2>11, <2>12, <2>13, <2>15, <3>1, ZenonT(60) DEF PeopleChanged, SameHeld
  <2>19. Sound(m, {})
    BY <2>1, <2>11, <2>17, <2>18, PeopleChangedSound, ZenonT(30)
  <2>20. SameDuties(s, m)
    BY <2>1, <2>11, <2>12, <2>13, ZenonT(30) DEF SameDuties
  <2> QED BY <2>10, <2>19, <2>20, GcSound, SMTT(30) DEF SameDuties
<1> QED BY <1>1, <1>2, ZenonT(60)

\* The engine record with other connections.
conns_set(s, g) == [s EXCEPT !.conns = g]

\* Collecting a tube commutes with a change of the connections alone.
LEMMA GcConns ==
    ASSUME NEW s, EngineType(s), NEW old \in DOMAIN s.tubes, NEW A, NEW g
    PROVE  LET x == gc_tube_if_orphan(tube_set(s, old, A), old)
           IN  /\ conns_set(x, g) = gc_tube_if_orphan(tube_and_conns(s, old, A, g), old)
               /\ x.conns = s.conns
<1> DEFINE F == [s.tubes EXCEPT ![old] = A]
           y == tube_set(s, old, A)
           m == tube_and_conns(s, old, A, g)
           x == gc_tube_if_orphan(y, old)
<1>1. /\ y = [s EXCEPT !.tubes = F] /\ m = [s EXCEPT !.tubes = F, !.conns = g] /\ F[old] = A
  BY Zenon DEF tube_set, tube_and_conns
<1> HIDE DEF F, y, m
<1>2. /\ y.tubes = F /\ y.conns = s.conns /\ y.tube_order = s.tube_order
      /\ m.tubes = F /\ m.tube_order = s.tube_order /\ m = [y EXCEPT !.conns = g]
  BY <1>1, ZenonT(60) DEF EngineType
<1>3. CASE old = DefaultTube \/ refs(A) # 0
  <2>1. x = y /\ gc_tube_if_orphan(m, old) = m
    BY <1>1, <1>2, <1>3, ZenonT(30) DEF gc_tube_if_orphan
  <2> QED BY <1>2, <2>1, ZenonT(60) DEF conns_set, y, m
<1>4. CASE ~(old = DefaultTube \/ refs(A) # 0)
  <2> DEFINE q == list_swap_remove(s.tube_order, old)
             H == without_entry(F, old)
  <2>1. x = [y EXCEPT !.tubes = H, !.tube_order = q]
    BY <1>1, <1>2, <1>4, ZenonT(30) DEF gc_tube_if_orphan
  <2>2. gc_tube_if_orphan(m, old) = [m EXCEPT !.tubes = H, !.tube_order = q]
    BY <1>1, <1>2, <1>4, ZenonT(30) DEF gc_tube_if_orphan
  <2> HIDE DEF q, H, x
  <2>3. conns_set(x, g) = [m EXCEPT !.tubes = H, !.tube_order = q] /\ x.conns = s.conns
    BY <1>1, <2>1, ZenonT(60) DEF EngineType, conns_set
  <2> QED BY <2>2, <2>3, ZenonT(60) DEF x, y, m
<1> QED BY <1>3, <1>4, ZenonT(60)

\* The end of a disconnect: a connection that holds no job and does not wait
\* is forgotten, and its tube loses a user.
LEMMA ForgetSound ==
    ASSUME Laws, NEW s, Sound(s, {}), NEW c \in DOMAIN s.conns,
           s.conns[c].reserved = <<>>, ~s.conns[c].waiting
    PROVE  LET r == forget_conn(s, c)
           IN  /\ Sound(r, {}) /\ r.jobs = s.jobs /\ r.next_job_id = s.next_job_id
               /\ DOMAIN r.conns = DOMAIN s.conns \ {c}
               /\ \A d \in DOMAIN s.conns \ {c} : r.conns[d] = s.conns[d]
<1> DEFINE old == s.conns[c].use_tube
           n == saturating_sub(s.tubes[old].using_ct, 1)
           A == [s.tubes[old] EXCEPT !.using_ct = n]
           g == without_entry(s.conns, c)
           y == tube_set(s, old, A)
           x == gc_tube_if_orphan(y, old)
           m == tube_and_conns(s, old, A, g)
<1>1. old \in DOMAIN s.tubes /\ n \in Nat /\ n = Cardinality(Users(s, old) \ {c})
  BY UserLeaves, ZenonT(60)
<1>2. /\ s.tubes[old] \in TubeType /\ Indexed(s.tubes[old]) /\ EngineType(s)
  BY <1>1, SoundRecords, ZenonT(60) DEF Sound
<1>3. drop_use(s, old) = x
  BY Zenon DEF drop_use, tube_set
<1>4. forget_conn(s, c) = [x EXCEPT !.conns = without_entry(@, c)]
  BY <1>3, ZenonT(60) DEF forget_conn
<1>5. /\ DOMAIN g = DOMAIN s.conns \ {c} /\ \A d \in DOMAIN s.conns \ {c} : g[d] = s.conns[d]
      /\ g \in [DOMAIN g -> ConnType] /\ DOMAIN g \subseteq ConnIds
  BY <1>2, ZenonT(60) DEF without_entry, Restrict, EngineType
<1> HIDE DEF old, n, y
<1>6. /\ A \in TubeType /\ Indexed(A) /\ SameJobSets(A, s.tubes[old]) /\ A.using_ct = n
      /\ A.job_ref_ct = s.tubes[old].job_ref_ct
      /\ A.waiting_conns = s.tubes[old].waiting_conns
  BY <1>1, <1>2, UsingField, ZenonT(30)
<1> HIDE DEF A
<1>7. forget_conn(s, c) = gc_tube_if_orphan(m, old)
  <2>1. conns_set(x, g) = gc_tube_if_orphan(m, old) /\ x.conns = s.conns
    BY <1>1, <1>2, GcConns, ZenonT(30) DEF y
  <2> HIDE DEF x, m
  <2> QED BY <1>4, <2>1, ZenonT(60) DEF conns_set
<1> HIDE DEF g, x
<1>8. /\ m.jobs = s.jobs /\ m.next_job_id = s.next_job_id /\ m.conns = g /\ m.tube_order = s.tube_order
      /\ m.tubes = [s.tubes EXCEPT ![old] = A] /\ EngineType(m)
  <2> DEFINE F == [s.tubes EXCEPT ![old] = A]
  <2>1. F \in [DOMAIN s.tubes -> TubeType] /\ DOMAIN F = DOMAIN s.tubes
    BY <1>2, <1>6, ZenonT(60) DEF EngineType
  <2>2. m = [s EXCEPT !.tubes = F, !.conns = g]
    BY Zenon DEF tube_and_conns
  <2> HIDE DEF F, m
  <2>3. m.jobs = s.jobs /\ m.next_job_id = s.next_job_id /\ m.conns = g /\ m.tubes = F /\ m.tube_order = s.tube_order
    BY <1>2, <2>2, ZenonT(60) DEF EngineType
  <2>4. EngineType(m)
    BY <1>2, <1>5, <2>1, <2>2, ZenonT(60) DEF EngineType
  <2> QED BY <2>3, <2>4, ZenonT(60) DEF F
<1> HIDE DEF m
<1>9. /\ DOMAIN m.tubes = DOMAIN s.tubes /\ m.tubes[old] = A
      /\ \A u \in DOMAIN s.tubes \ {old} : m.tubes[u] = s.tubes[u]
  BY <1>1, <1>2, <1>8, ZenonT(60) DEF EngineType
<1>10. TubesRecounted(s, m)
  <2>1. \A u \in DOMAIN s.tubes \ {old} : Users(m, u) = Users(s, u)
    BY <1>5, <1>8, SMTT(30) DEF Users, old
  <2>2. Users(m, old) = Users(s, old) \ {c}
    BY <1>5, <1>8, ZenonT(60) DEF Users
  <2>3. \A u \in DOMAIN s.tubes : /\ Indexed(s.tubes[u])
                                  /\ s.tubes[u].using_ct = Cardinality(Users(s, u))
    BY SoundRecords, ZenonT(30) DEF Sound, RefsSound
  <2> QED BY <1>1, <1>6, <1>9, <2>1, <2>2, <2>3, ZenonT(60) DEF TubesRecounted, SameJobSets
<1>11. PeopleChanged(s, m)
  <2>1. \A d \in DOMAIN s.conns : s.conns[d].use_tube \in DOMAIN s.tubes
    BY ZenonT(30) DEF Sound, RefsSound
  <2>2. IsFiniteSet(DOMAIN g)
    <3>1. IsFiniteSet(DOMAIN s.conns) /\ DOMAIN g \subseteq DOMAIN s.conns
      BY <1>5, ZenonT(30) DEF Sound, RefsSound
    <3> QED BY <3>1, CountPart, ZenonT(60)
  <2> QED BY <1>5, <1>8, <2>1, <2>2, ZenonT(30) DEF PeopleChanged, SameHeld
<1>12. Sound(m, {})
  BY <1>8, <1>10, <1>11, PeopleChangedSound, ZenonT(60)
<1> QED BY <1>5, <1>7, <1>8, <1>12, GcSound, SMTT(30)
=============================================================================
