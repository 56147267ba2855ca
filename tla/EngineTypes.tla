---------------------------- MODULE EngineTypes ----------------------------
(***************************************************************************)
(* The types of the engine's records, and where its jobs are.              *)
(***************************************************************************)
EXTENDS EngineState

OptionalNat == Nat \cup {None}

JobType == [tube : TubeNames, pri : Nat, ttr : Nat, state : States,
            reserver : ConnIds \cup {None}, deadline_at : Nat]

MsType == [items : Seq(ConnIds), last : Nat]

TubeType == [ready : SUBSET (Nat \X Nat), delayed : SUBSET (Nat \X Nat),
             buried : Seq(Nat), waiting_conns : MsType,
             using_ct : Nat, watching_ct : Nat, job_ref_ct : Nat, urgent_ct : Nat,
             buried_ct : Nat, reserved_ct : Nat, waiting_ct : Nat,
             unpause_at : OptionalNat, delay_head : OptionalNat, dispatchable : BOOLEAN]

ConnType == [use_tube : TubeNames, watch : Seq(TubeNames), waiting : BOOLEAN,
             wait_deadline : OptionalNat, reserved : Seq(Nat),
             reserved_by_deadline : SUBSET (Nat \X Nat),
             pending_put : OptionalNat \cup {TooBig}, tick_key : OptionalNat,
             owed : Int]

RecordType == [pri : Nat, ttr : Nat, state : States, deadline_at : Nat]

JournalType ==
    [op : {"put"}, id : Nat, record : RecordType, tube : TubeNames]
    \cup [op : {"update"}, id : Nat, record : RecordType]
    \cup [op : {"delete"}, id : Nat]

EngineType(s) ==
    /\ s \in [next_job_id : Nat, jobs : [DOMAIN s.jobs -> JobType],
              tubes : [DOMAIN s.tubes -> TubeType], tube_order : Seq(TubeNames),
              conns : [DOMAIN s.conns -> ConnType], draining : BOOLEAN,
              ready_ct : Nat, urgent_ct : Nat, delayed_ct : Nat, reserved_ct : Nat,
              buried_ct : Nat, waiting_ct : Nat, journal : Seq(JournalType)]
    /\ DOMAIN s.jobs \subseteq Nat
    /\ DOMAIN s.tubes \subseteq TubeNames
    /\ DOMAIN s.conns \subseteq ConnIds

-----------------------------------------------------------------------------
(* Where jobs are.  `hand` holds the jobs that an operation has taken out  *)
(* of one container and not yet put into another.                          *)

\* Job id is where its state says, under the key the code looks it up by.
InPlace(s, id) ==
    LET j == s.jobs[id]
    IN  /\ j.state = "ready" => <<j.pri, id>> \in s.tubes[j.tube].ready
        /\ j.state = "delayed" => <<j.deadline_at, id>> \in s.tubes[j.tube].delayed
        /\ j.state = "buried" => id \in Range(s.tubes[j.tube].buried)
        /\ j.state # "reserved" => j.reserver = None
        /\ j.state = "reserved" =>
             /\ j.reserver \in DOMAIN s.conns
             /\ id \in Range(s.conns[j.reserver].reserved)
             /\ <<j.deadline_at, id>> \in s.conns[j.reserver].reserved_by_deadline

\* Tube t holds only jobs of its own that belong there, each once.
TubeHolds(s, hand, t) ==
    LET Queued(id, state) == /\ id \in DOMAIN s.jobs \ hand
                             /\ s.jobs[id].tube = t
                             /\ s.jobs[id].state = state
    IN  /\ \A e \in s.tubes[t].ready : Queued(e[2], "ready") /\ s.jobs[e[2]].pri = e[1]
        /\ \A e \in s.tubes[t].delayed :
             Queued(e[2], "delayed") /\ s.jobs[e[2]].deadline_at = e[1]
        /\ \A id \in Range(s.tubes[t].buried) : Queued(id, "buried")
        /\ IsInjective(s.tubes[t].buried)

\* Connection c holds only jobs it has reserved, each once.
ConnHolds(s, hand, c) ==
    LET Reserved(id) == /\ id \in DOMAIN s.jobs \ hand
                        /\ s.jobs[id].state = "reserved"
                        /\ s.jobs[id].reserver = c
    IN  /\ \A id \in Range(s.conns[c].reserved) : Reserved(id)
        /\ \A e \in s.conns[c].reserved_by_deadline :
             Reserved(e[2]) /\ s.jobs[e[2]].deadline_at = e[1]
        /\ IsInjective(s.conns[c].reserved)

Placed(s, hand) ==
    /\ \A id \in DOMAIN s.jobs : s.jobs[id].tube \in DOMAIN s.tubes
    /\ \A id \in DOMAIN s.jobs \ hand : InPlace(s, id)
    /\ \A t \in DOMAIN s.tubes : TubeHolds(s, hand, t)
    /\ \A c \in DOMAIN s.conns : ConnHolds(s, hand, c)
-----------------------------------------------------------------------------
\* A put of the connection has its id and waits for its body.
HasPending(cs) == cs.pending_put \notin {None, TooBig}

\* Every id in use is below the next one, and a put in progress shares its id
\* with no job and no other put.
IdsFresh(s) ==
    /\ s.next_job_id > 0
    /\ DOMAIN s.jobs \subseteq 1..(s.next_job_id - 1)
    /\ \A c \in DOMAIN s.conns : HasPending(s.conns[c]) =>
         /\ s.conns[c].pending_put \in 1..(s.next_job_id - 1)
         /\ s.conns[c].pending_put \notin DOMAIN s.jobs
         /\ \A d \in DOMAIN s.conns \ {c} : s.conns[d].pending_put # s.conns[c].pending_put
=============================================================================
