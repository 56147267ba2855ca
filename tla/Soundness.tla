------------------------------ MODULE Soundness -----------------------------
(***************************************************************************)
(* What it means for the engine record to be sound between two updates:    *)
(* every job in its one place, waiters registered only where they wait,    *)
(* the reference counts that keep tubes alive, ids never shared. The       *)
(* proofs carry these predicates through every helper and every call of    *)
(* the engine.                                                             *)
(*                                                                         *)
(* Contains and Belongs put the five kinds of containers under one roof: a *)
(* place is a kind w, the tube or connection x it is in, and the key p the *)
(* job is filed under there.                                               *)
(***************************************************************************)
EXTENDS EngineTypes

\* The fields of a tube record in three groups: its sets of jobs,
SameJobSets(r, ts) == r.ready = ts.ready /\ r.delayed = ts.delayed /\ r.buried = ts.buried

\* the counts of what refers to it, and its index entries.
SameRefs(r, ts) ==
    /\ r.using_ct = ts.using_ct
    /\ r.watching_ct = ts.watching_ct
    /\ r.job_ref_ct = ts.job_ref_ct

\* A tube is in the index of servable tubes exactly when it has a waiter and a
\* ready job, and its entry in delay_heads is its first delayed job.
DispatchableExact(ts) == ts.dispatchable <=> ts.waiting_conns.items # <<>> /\ ts.ready # {}

\* The cached head of the delayed set is its first deadline.
DelayHeadExact(ts) ==
    ts.delay_head = IF ts.delayed = {} THEN None ELSE first(ts.delayed)[1]

\* Both index entries of a tube are exact.
Indexed(ts) == DispatchableExact(ts) /\ DelayHeadExact(ts)

\* What a connection uses, watches, puts and is owed,
SameRole(r, cs) ==
    /\ r.use_tube = cs.use_tube
    /\ r.watch = cs.watch
    /\ r.pending_put = cs.pending_put
    /\ r.owed = cs.owed

\* and the jobs it holds.
SameHeld(r, cs) ==
    r.reserved = cs.reserved /\ r.reserved_by_deadline = cs.reserved_by_deadline

\* What the proofs about the engine use of the library's theorems: a set of
\* naturals has a least element, and finite sets can be counted.  The proofs
\* carry these laws as a hypothesis, which EngineProofs discharges (LawsHold),
\* so that only that module needs the library's theorem modules.
Laws ==
    /\ \A T \in SUBSET Nat : T # {} => \E x \in T : \A y \in T : x <= y
    /\ IsFiniteSet({}) /\ Cardinality({}) = 0
    /\ \A S : IsFiniteSet(S) =>
          /\ Cardinality(S) \in Nat /\ (Cardinality(S) = 0 <=> S = {})
          /\ \A T \in SUBSET S : IsFiniteSet(T)
          /\ \A x : /\ IsFiniteSet(S \cup {x}) /\ IsFiniteSet(S \ {x})
                    /\ x \notin S => Cardinality(S \cup {x}) = Cardinality(S) + 1
                    /\ x \in S => Cardinality(S \ {x}) = Cardinality(S) - 1

\* The container of kind w of tube or connection x has job k under key p.
Contains(s, w, x, p, k) ==
    \/ w = "ready" /\ x \in DOMAIN s.tubes /\ <<p, k>> \in s.tubes[x].ready
    \/ w = "delayed" /\ x \in DOMAIN s.tubes /\ <<p, k>> \in s.tubes[x].delayed
    \/ w = "buried" /\ x \in DOMAIN s.tubes /\ k \in Range(s.tubes[x].buried) /\ p = 0
    \/ w = "reserved" /\ x \in DOMAIN s.conns /\ k \in Range(s.conns[x].reserved) /\ p = 0
    \/ w = "due" /\ x \in DOMAIN s.conns /\ <<p, k>> \in s.conns[x].reserved_by_deadline

\* The places of a job, by its record.
Place(j, w, x, p) ==
    \/ w = "ready" /\ j.state = "ready" /\ x = j.tube /\ p = j.pri
    \/ w = "delayed" /\ j.state = "delayed" /\ x = j.tube /\ p = j.deadline_at
    \/ w = "buried" /\ j.state = "buried" /\ x = j.tube /\ p = 0
    \/ w = "reserved" /\ j.state = "reserved" /\ x = j.reserver /\ p = 0
    \/ w = "due" /\ j.state = "reserved" /\ x = j.reserver /\ p = j.deadline_at

\* Job k, unless it is in hand, has its place there.
Belongs(s, hand, w, x, p, k) == k \in DOMAIN s.jobs \ hand /\ Place(s.jobs[k], w, x, p)

\* The containers hold exactly the jobs whose place they are.
Exact(s, hand) ==
    \A w, x : \A p \in Nat, k \in Nat :
        Contains(s, w, x, p, k) <=> Belongs(s, hand, w, x, p, k)

\* The tube of every job exists.
TubesLive(s) == \A k \in DOMAIN s.jobs : s.jobs[k].tube \in DOMAIN s.tubes

\* A job that is not reserved has no holder.
Unheld(s, hand) ==
    \A k \in DOMAIN s.jobs \ hand : s.jobs[k].state # "reserved" => s.jobs[k].reserver = None

\* No job is twice in a list.
ListsOnce(s) ==
    /\ \A t \in DOMAIN s.tubes : IsInjective(s.tubes[t].buried)
    /\ \A c \in DOMAIN s.conns : IsInjective(s.conns[c].reserved)

\* Every job that is not in hand is in its place and nowhere else.
Filed(s, hand) == Exact(s, hand) /\ TubesLive(s) /\ Unheld(s, hand) /\ ListsOnce(s)

\* Jobs other than id, and everything about id that no move changes.
OthersKept(s, r, id) ==
    /\ DOMAIN r.jobs = DOMAIN s.jobs
    /\ DOMAIN r.tubes = DOMAIN s.tubes
    /\ DOMAIN r.conns = DOMAIN s.conns
    /\ \A k \in DOMAIN s.jobs : k # id => r.jobs[k] = s.jobs[k]
    /\ r.jobs[id].tube = s.jobs[id].tube

\* What the moves of a job leave alone.
KeepsRest(s, r) ==
    /\ DOMAIN r.jobs = DOMAIN s.jobs
    /\ DOMAIN r.tubes = DOMAIN s.tubes
    /\ DOMAIN r.conns = DOMAIN s.conns
    /\ r.next_job_id = s.next_job_id /\ r.tube_order = s.tube_order
    /\ \A k \in DOMAIN s.jobs : r.jobs[k].tube = s.jobs[k].tube
    /\ \A t \in DOMAIN s.tubes : /\ SameRefs(r.tubes[t], s.tubes[t])
                                 /\ r.tubes[t].waiting_conns = s.tubes[t].waiting_conns
                                 /\ Indexed(s.tubes[t]) => Indexed(r.tubes[t])
    /\ \A c \in DOMAIN s.conns : /\ SameRole(r.conns[c], s.conns[c])
                                 /\ r.conns[c].waiting = s.conns[c].waiting

\* Connection c waits for a job of tube t.
Waiter(s, t, c) ==
    c \in DOMAIN s.conns /\ s.conns[c].waiting /\ t \in Range(s.conns[c].watch)

\* Only waiting connections are registered with a tube, once each.
WaitersSound(s) ==
    \A t \in DOMAIN s.tubes :
        /\ Indexed(s.tubes[t])
        /\ IsInjective(s.tubes[t].waiting_conns.items)
        /\ \A c \in Range(s.tubes[t].waiting_conns.items) : Waiter(s, t, c)

\* The connections that use tube t,
Users(s, t) == {c \in DOMAIN s.conns : s.conns[c].use_tube = t}

\* and the jobs that belong to it.
JobsOf(s, t) == {k \in DOMAIN s.jobs : s.jobs[k].tube = t}

\* The counts that keep a tube alive say what refers to it.
RefsSound(s) ==
    /\ IsFiniteSet(DOMAIN s.jobs) /\ IsFiniteSet(DOMAIN s.conns)
    /\ DefaultTube \in DOMAIN s.tubes
    /\ IsInjective(s.tube_order) /\ Range(s.tube_order) = DOMAIN s.tubes
    /\ \A c \in DOMAIN s.conns : s.conns[c].use_tube \in DOMAIN s.tubes
    /\ \A t \in DOMAIN s.tubes : /\ s.tubes[t].using_ct = Cardinality(Users(s, t))
                                 /\ s.tubes[t].job_ref_ct = Cardinality(JobsOf(s, t))

\* The engine record between two updates, while the jobs of `hand` are in
\* no container.
Sound(s, hand) ==
    EngineType(s) /\ Filed(s, hand) /\ WaitersSound(s) /\ RefsSound(s) /\ IdsFresh(s)

\* What jobs, tubes, connections and the id counter say is all that matters.
SameCore(s, r) ==
    /\ r.jobs = s.jobs /\ r.tubes = s.tubes /\ r.conns = s.conns
    /\ r.next_job_id = s.next_job_id /\ r.tube_order = s.tube_order

\* Nothing but connection c changed among the connections.
OthersSame(s, r, c) ==
    /\ DOMAIN r.conns = DOMAIN s.conns
    /\ \A d \in DOMAIN s.conns : d # c => r.conns[d] = s.conns[d]

\* Job id is in tube t, in the given state.
JobIn(s, t, id, state) ==
    id \in DOMAIN s.jobs /\ s.jobs[id].state = state /\ s.jobs[id].tube = t

\* Nothing of what the connections owe or await changes, and no job comes or goes.
SameDuties(s, r) ==
    /\ DOMAIN r.jobs = DOMAIN s.jobs /\ r.next_job_id = s.next_job_id
    /\ DOMAIN r.conns = DOMAIN s.conns
    /\ \A c \in DOMAIN s.conns : /\ r.conns[c].waiting = s.conns[c].waiting
                                 /\ r.conns[c].owed = s.conns[c].owed
                                 /\ r.conns[c].pending_put = s.conns[c].pending_put
=============================================================================
