---------------------------- MODULE EngineProofs ----------------------------
(***************************************************************************)
(* The safety theorems of the job engine, for any number of connections,   *)
(* tubes, jobs and argument values.                                        *)
(*                                                                         *)
(* None of the theorems below is inductive by itself: a job found by its   *)
(* index entry must exist, a tube must live while a job names it, and a    *)
(* disconnect must still hold the jobs it has yet to give back. The        *)
(* inductive invariant is IInv of module EngineSoundness, and for the      *)
(* waiters, counts and timers IInv with Attended.                          *)
(***************************************************************************)
EXTENDS CallProofs, AttendedProofs, FiniteSetTheorems, NaturalsInduction, WellFoundedInduction

\* The laws of least elements and of counting that the modules below carry as
\* a hypothesis are theorems of the library.
LEMMA LawsHold == Laws
<1>1. ASSUME NEW T \in SUBSET Nat, T # {}
      PROVE  \E x \in T : \A y \in T : x <= y
  <2> DEFINE R == {ss \in Nat \X Nat : ss[1] < ss[2]}
  <2>1. IsWellFoundedOn(R, Nat)
    BY NatLessThanWellFounded, ZenonT(30) DEF OpToRel
  <2> HIDE DEF R
  <2>2. PICK x \in T : \A y \in T : ~(<<y, x>> \in R)
    BY <1>1, <2>1, WFMin, ZenonT(60)
  <2>3. \A y \in T : ~(y < x)
    BY <2>2, ZenonT(60) DEF R
  <2> QED
    BY <2>3, SMTT(30)
<1>2. IsFiniteSet({}) /\ Cardinality({}) = 0
  BY FS_EmptySet, ZenonT(30)
<1>3. ASSUME NEW S, IsFiniteSet(S)
      PROVE  /\ Cardinality(S) \in Nat /\ (Cardinality(S) = 0 <=> S = {})
             /\ \A T \in SUBSET S : IsFiniteSet(T)
             /\ \A x : /\ IsFiniteSet(S \cup {x}) /\ IsFiniteSet(S \ {x})
                       /\ x \notin S => Cardinality(S \cup {x}) = Cardinality(S) + 1
                       /\ x \in S => Cardinality(S \ {x}) = Cardinality(S) - 1
  BY <1>3, FS_EmptySet, FS_CardinalityType, FS_Subset, FS_AddElement, FS_RemoveElement, ZenonT(30)
<1> QED BY <1>1, <1>2, <1>3, ZenonT(60) DEF Laws

\* Each tube the connection watched loses a watcher and may be collected.
LEMMA DisconnectWatchKeeps ==
    ASSUME Laws, IInv, DisconnectWatch
    PROVE  IInv'
<1> DEFINE r == drop_watch(eng, Head(call.watch))
           g == [call EXCEPT !.watch = Tail(call.watch)]
<1>1. /\ call.fn = "unwatch" /\ call.watch # <<>>
      /\ eng' = r /\ call' = g /\ pq' = FALSE /\ now' = now
      /\ Sound(eng, {}) /\ FrameSound(eng, call)
  BY ZenonT(30) DEF DisconnectWatch, Goto, IInv
<1>2. Sound(r, {}) /\ r.conns = eng.conns
  BY <1>1, DropWatch, ZenonT(30)
<1> HIDE DEF r
<1>3. call \in CallType /\ call.watch \in Seq(TubeNames)
  BY <1>1, ZenonT(30) DEF FrameSound, CallType
<1>4. Tail(call.watch) \in Seq(TubeNames)
  BY <1>1, <1>3, SMTT(30)
<1>5. g \in CallType /\ g.fn = "unwatch" /\ g.conn = call.conn
  BY <1>1, <1>3, <1>4, ZenonT(60) DEF CallType
<1> HIDE DEF g
<1>6. FrameSound(r, g)
  BY <1>1, <1>2, <1>5, ZenonT(30) DEF FrameSound, OwnCalls
<1>7. \A d : /\ Leaving(call, d) => Leaving(g, d)
             /\ Answering(call, d) <=> Answering(g, d)
  BY <1>1, <1>5, ZenonT(30) DEF Leaving, Answering
<1> QED BY <1>1, <1>2, <1>6, <1>7, OwedKept, Stepping, ZenonT(60)

\* The connection is forgotten with whatever it was owed.
LEMMA DisconnectEndKeeps ==
    ASSUME Laws, IInv, DisconnectEnd
    PROVE  IInv'
<1> DEFINE c == call.conn
           r == forget_conn(eng, c)
<1>1. /\ call.fn = "unwatch" /\ Return(r)
      /\ Sound(eng, {}) /\ FrameSound(eng, call) /\ DutiesSound(eng, call)
  BY ZenonT(30) DEF DisconnectEnd, IInv
<1>2. c \in DOMAIN eng.conns /\ eng.conns[c].reserved = <<>> /\ ~eng.conns[c].waiting
  BY <1>1, ZenonT(30) DEF FrameSound, OwnCalls
<1>3. /\ Sound(r, {}) /\ DOMAIN r.conns = DOMAIN eng.conns \ {c}
      /\ \A d \in DOMAIN eng.conns \ {c} : r.conns[d] = eng.conns[d]
  BY <1>1, <1>2, ForgetSound, ZenonT(30)
<1> HIDE DEF r
<1>4. OtherWaitersKept(eng, r, c) /\ DOMAIN r.conns \subseteq ConnIds /\ c \notin DOMAIN r.conns
  BY <1>3, ZenonT(30) DEF OtherWaitersKept, SameDuty, Sound, EngineType
<1>5. DutiesSound(r, NoCall)
  BY <1>1, <1>4, EmptyFrame, OthersDuty, ZenonT(30)
<1> QED BY <1>1, <1>3, <1>5, EmptyFrame, ZenonT(60) DEF IInv, Return

\* A new engine satisfies the invariant: it has the default tube only.
LEMMA InitSound == Init => IInv
<1> SUFFICES ASSUME Init PROVE IInv
  BY ZenonT(30)
<1> DEFINE s == NewEngine
<1>1. eng = s /\ call = NoCall /\ pq = FALSE /\ now = 0
  BY ZenonT(30) DEF Init
<1>2. /\ s.next_job_id = 1 /\ DOMAIN s.jobs = {} /\ DOMAIN s.conns = {}
      /\ DOMAIN s.tubes = {DefaultTube} /\ s.tubes[DefaultTube] = NewTube
      /\ s.tube_order = <<DefaultTube>>
  BY ZenonT(30) DEF NewEngine
<1>3. EngineType(s)
  BY NewTubeType, ConstantsAssumption, SMTT(30) DEF EngineType, NewEngine
<1> HIDE DEF s
<1>4. Filed(s, {})
  <2>1. Exact(s, {}) /\ Unheld(s, {})
    BY <1>2, NewTubeType, EmptyList, SMTT(30) DEF Exact, Unheld, Contains, Belongs
  <2>2. ListsOnce(s) /\ TubesLive(s)
    BY <1>2, NewTubeType, EmptyList, ZenonT(30) DEF ListsOnce, TubesLive
  <2> QED BY <2>1, <2>2, ZenonT(30) DEF Filed
<1>5. WaitersSound(s)
  BY <1>2, NewTubeType, EmptyList, ZenonT(30) DEF WaitersSound
<1>6. RefsSound(s)
  <2>1. \A t : Users(s, t) = {} /\ JobsOf(s, t) = {}
    BY <1>2, ZenonT(30) DEF Users, JobsOf
  <2>2. IsInjective(s.tube_order) /\ Range(s.tube_order) = {DefaultTube}
    BY <1>2, SMTT(30) DEF IsInjective, Range
  <2>3. IsFiniteSet({}) /\ Cardinality({}) = 0
    BY CountNone, LawsHold, ZenonT(30)
  <2>4. NewTube.using_ct = 0 /\ NewTube.job_ref_ct = 0
    BY NewTubeType, ZenonT(30)
  <2> QED BY ONLY <1>2, <2>1, <2>2, <2>3, <2>4, ZenonT(30) DEF RefsSound
<1>7. IdsFresh(s)
  BY <1>2, SMTT(30) DEF IdsFresh
<1>8. Sound(s, {})
  BY <1>3, <1>4, <1>5, <1>6, <1>7, ZenonT(30) DEF Sound
<1>9. DutiesSound(s, NoCall)
  BY <1>2, ZenonT(30) DEF DutiesSound
<1>10. FrameSound(s, NoCall)
  BY EmptyFrame, ZenonT(30)
<1> QED BY ONLY <1>1, <1>8, <1>9, <1>10, ZenonT(60) DEF IInv

\* Every command and event of a connection keeps the invariant.
LEMMA ConnStepKeeps ==
    ASSUME Laws, IInv, NEW c \in ConnIds, ConnStep(c)
    PROVE  IInv'
<1>0. 0 \in Nat /\ JobIds \subseteq Nat /\ TRUE \in BOOLEAN /\ FALSE \in BOOLEAN
  BY BoundsAssumption, SMTT(30) DEF JobIds
<1>1. CASE Connect(c) \/ Disconnect(c) \/ HalfClose(c)
  BY <1>1, ConnectKeeps, DisconnectKeeps, HalfCloseKeeps, ZenonT(30)
<1>2. CASE \E b \in BOOLEAN : PutStarted(c, b)
  BY <1>2, PutStartedKeeps, ZenonT(30)
<1>3. CASE \E pri \in Pris, delay \in Delays, ttr \in Ttrs : Put(c, pri, delay, ttr)
  BY <1>3, PutDone, ZenonT(30)
<1>4. CASE \E why \in PutRejectionKinds : PutRejected(c, why)
  BY <1>4, PutRejectedKeeps, ZenonT(30)
<1>5. CASE \E t \in TubeNames : Use(c, t) \/ Watch(c, t) \/ Ignore(c, t)
  BY <1>0, <1>5, TubeCommandsKeep, ZenonT(30)
<1>6. CASE \E t \in TubeNames, delay \in Pauses : PauseTube(c, t, delay)
  BY <1>6, BoundsAssumption, TubeCommandsKeep, ZenonT(30)
<1>7. CASE \E timeout \in Timeouts : Reserve(c, timeout)
  BY <1>7, ReserveKeeps, ZenonT(30)
<1>8. CASE \E id \in JobIds : ReserveJob(c, id) \/ Touch(c, id) \/ Delete(c, id)
  BY <1>0, <1>8, JobCommandsKeep, ZenonT(30)
<1>9. CASE \E id \in JobIds, pri \in Pris : Bury(c, id, pri)
  BY <1>0, <1>9, BoundsAssumption, JobCommandsKeep, ZenonT(30)
<1>10. CASE \E id \in JobIds : KickJob(c, id)
  BY <1>0, <1>10, JobReadyKeeps, ZenonT(30)
<1>11. CASE \E id \in JobIds, pri \in Pris, delay \in Delays : Release(c, id, pri, delay)
  BY <1>0, <1>11, BoundsAssumption, JobReadyKeeps, ZenonT(60)
<1>12. CASE \E n \in Kicks : Kick(c, n)
  BY <1>12, BoundsAssumption, KickKeeps, ZenonT(30)
<1>13. \/ PutStarted(c, TRUE) \/ PutStarted(c, FALSE)
       \/ \E why \in PutRejectionKinds : PutRejected(c, why)
       \/ \E pri \in Pris, delay \in Delays, ttr \in Ttrs : Put(c, pri, delay, ttr)
       \/ Connect(c) \/ Disconnect(c) \/ HalfClose(c)
       \/ \E t \in TubeNames : Use(c, t) \/ Watch(c, t) \/ Ignore(c, t)
       \/ \E t \in TubeNames, delay \in Pauses : PauseTube(c, t, delay)
       \/ \E timeout \in Timeouts : Reserve(c, timeout)
       \/ \E id \in JobIds : ReserveJob(c, id) \/ Touch(c, id) \/ Delete(c, id)
       \/ \E id \in JobIds, pri \in Pris : Bury(c, id, pri)
       \/ \E id \in JobIds : KickJob(c, id)
       \/ \E id \in JobIds, pri \in Pris, delay \in Delays : Release(c, id, pri, delay)
       \/ \E n \in Kicks : Kick(c, n)
  BY ONLY ConnStep(c), ZenonT(60) DEF ConnStep
<1>14. CASE PutStarted(c, TRUE) \/ PutStarted(c, FALSE)
  BY <1>0, <1>2, <1>14, ZenonT(60)
<1> QED
  BY ONLY <1>1, <1>3, <1>4, <1>5, <1>6, <1>7, <1>8, <1>9, <1>10, <1>11, <1>12, <1>13, <1>14, ZenonT(60)

\* Every step of a running call keeps the invariant.
LEMMA CallStepKeeps ==
    ASSUME Laws, IInv, CallStep
    PROVE  IInv'
<1>1. CASE DisconnectJob \/ DisconnectJobsDone \/ DisconnectWatch \/ DisconnectEnd
  BY <1>1, DisconnectJobKeeps, DisconnectJobsDoneKeeps, DisconnectWatchKeeps, DisconnectEndKeeps, ZenonT(30)
<1>2. CASE ReserveNow \/ KickNext
  BY <1>2, ReserveNowKeeps, KickNextKeeps, ZenonT(30)
<1>3. CASE KickEnd \/ Reply
  BY <1>3, AnswerKeeps, ZenonT(30) DEF KickEnd, Reply
<1>4. CASE Assign \/ AssignEnd
  BY <1>4, AssignKeeps, AssignEndKeeps, ZenonT(30)
<1>5. CASE EndCall \/ TickEnd
  <2>1. Sound(eng, {}) /\ Return(eng) /\ SameOwed(eng, eng)
        /\ call.fn \notin {"reply", "kick", "disconnect", "unwatch"}
    BY <1>5, OwedKept, ZenonT(30) DEF EndCall, TickEnd, IInv
  <2> QED BY <2>1, Ending, ZenonT(30)
<1>6. CASE TickDelayed \/ TimeoutJob \/ TimeoutWait
  BY <1>6, TickDelayedKeeps, TimeoutJobKeeps, TimeoutWaitKeeps, ZenonT(30)
<1>7. CASE TickPauses \/ TickConn
  BY <1>7, TickStepsKeep, ZenonT(30)
<1> QED
  BY ONLY CallStep, <1>1, <1>2, <1>3, <1>4, <1>5, <1>6, <1>7, ZenonT(30) DEF CallStep

\* The invariant is inductive.
LEMMA StepSound == IInv /\ [Next]_vars => IInv'
<1> SUFFICES ASSUME IInv, [Next]_vars PROVE IInv'
  BY ZenonT(30)
<1>1. CASE \E c \in ConnIds : ConnStep(c)
  BY <1>1, ConnStepKeeps, LawsHold, ZenonT(30)
<1>2. CASE Drain \/ Tick
  BY <1>2, DrainKeeps, TickStepsKeep, LawsHold, ZenonT(30)
<1>3. CASE CallStep
  BY <1>3, CallStepKeeps, LawsHold, ZenonT(30)
<1>4. CASE Advance
  <2>1. eng' = eng /\ call' = call /\ pq' = pq /\ now' \in Nat
    BY <1>4, BoundsAssumption, SMTT(30) DEF Advance, IInv
  <2> QED BY <2>1, ZenonT(30) DEF IInv
<1>5. CASE UNCHANGED vars
  BY <1>5, ZenonT(30) DEF vars, IInv
<1> QED
  BY ONLY [Next]_vars, <1>1, <1>2, <1>3, <1>4, <1>5, ZenonT(30) DEF Next

\* The engine never leaves its inductive invariant.
THEOREM EngineSound == Spec => []IInv
BY InitSound, StepSound, PTL DEF Spec

\* Type correctness of the engine record, the frame and the clock.
THEOREM TypeCorrect == Spec => []TypeOK
<1>1. IInv => TypeOK
  BY ZenonT(30) DEF IInv, TypeOK, Sound, FrameSound
<1> QED BY <1>1, EngineSound, PTL

\* Every job of the engine is at every moment in exactly the one container its
\* state names, of a live tube or of the live connection that holds it: no
\* command, timeout or disconnect loses a job or leaves it in two places.
THEOREM JobsPlaced == Spec => []JobPlacement
<1>1. IInv => JobPlacement
  BY FiledIsPlaced, ZenonT(60) DEF IInv, JobPlacement, Sound
<1> QED BY <1>1, EngineSound, PTL

\* Every command is answered exactly once: a connection that is not leaving is
\* owed one reply while it waits or its own call runs, and none otherwise.
THEOREM RepliesCounted == Spec => []RepliesOwed
<1>1. IInv => RepliesOwed
  BY ZenonT(30) DEF IInv, DutiesSound, Duty, Leaving, Answering, RepliesOwed, Conns
<1> QED BY <1>1, EngineSound, PTL

\* However the puts of several connections overlap, no two share an id and no
\* put's id is a job's.
THEOREM IdsUnique == Spec => []PendingIdsFresh
<1>1. IInv => PendingIdsFresh
  BY ZenonT(30) DEF IInv, PendingIdsFresh, Sound
<1> QED BY <1>1, EngineSound, PTL
-----------------------------------------------------------------------------
(* Watches, waits and timers.                                              *)

\* What kick and process_queue pick is there.
LEMMA ChosenHolds == IInv => Chosen(eng, now)
<1> SUFFICES ASSUME IInv PROVE Chosen(eng, now)
  BY ZenonT(30)
<1> DEFINE r == clear_expired_pauses(eng, now)
           t == best_tube(r)
<1>1. Sound(eng, {}) /\ Laws
  BY LawsHold, ZenonT(30) DEF IInv
<1>2. ASSUME NEW u \in DOMAIN eng.tubes
      PROVE  /\ eng.tubes[u].buried # <<>> => JobIn(eng, u, Head(eng.tubes[u].buried), "buried")
             /\ eng.tubes[u].delayed # {} => JobIn(eng, u, first(eng.tubes[u].delayed)[2], "delayed")
  BY <1>1, BuriedHead, FirstQueued, ZenonT(30)
<1>3. Sound(r, {})
  BY <1>1, ClearPauses, ZenonT(30) DEF TubesOnly
<1> HIDE DEF r
<1>4. ASSUME serving(r) # {}
      PROVE  /\ t \in DOMAIN r.tubes /\ r.tubes[t].waiting_conns.items # <<>>
             /\ ms_taken(r.tubes[t].waiting_conns) \in DOMAIN r.conns
  <2>1. t \in DOMAIN r.tubes /\ r.tubes[t].dispatchable
    BY <1>1, <1>3, <1>4, BestTube, ZenonT(30) DEF serving
  <2> HIDE DEF t
  <2>2. r.tubes[t].waiting_conns.items # <<>>
    BY <1>3, <2>1, SoundRecords, ZenonT(30) DEF Indexed, DispatchableExact
  <2> QED BY <1>3, <2>1, <2>2, TakeWaiterSound, ZenonT(30)
<1> QED BY <1>2, <1>3, <1>4, ZenonT(30) DEF Chosen, r

\* Watches, waits and timers stay in step with the rest of the engine.
THEOREM EngineAttended == Spec => []Attended
<1>1. Init => Attended
  BY InitAttended, LawsHold, ZenonT(30)
<1>2. IInv /\ Attended /\ [Next]_vars => Attended'
  BY ChosenHolds, LawsHold, StepAttended, ZenonT(30)
<1> QED BY <1>1, <1>2, InitSound, StepSound, PTL DEF Spec

\* A connection is registered with a tube exactly while it waits and watches
\* it, once, however its wait began or ends.
THEOREM WaitersExact == Spec => []WaitersRegistered
BY ListsExact, EngineSound, EngineAttended, PTL

\* Every tube is "default" or referred to, the three reference counts are
\* exact also while a disconnect drops its watches, and no use or watch
\* outlives its tube.
THEOREM TubesAlive == Spec => []TubesReferenced
BY CountsExact, EngineSound, EngineAttended, PTL
\* The cached index entries are what the data says: no tube that could be
\* served is missing from `dispatchable`, and no delay, time to run or wait
\* has lost its timer.
THEOREM TimersExact == Spec => []IndexesExact
BY EntriesExact, EngineSound, EngineAttended, PTL

\* Between calls no ready job and no connection waiting for its tube exist
\* together, unless the tube is paused: process_queue ran to its end in every
\* call that could have brought them together.
THEOREM JobsServed == Spec => []NothingToAssign
<1>1. IInv /\ Attended => NothingToAssign
  <2> SUFFICES ASSUME IInv, Attended, Idle, NEW id \in Jobs, NEW c \in Conns,
                      eng.jobs[id].state = "ready", eng.conns[c].waiting,
                      eng.jobs[id].tube \in Range(eng.conns[c].watch)
               PROVE  eng.tubes[eng.jobs[id].tube].unpause_at # None
    BY ZenonT(30) DEF NothingToAssign
  <2> DEFINE t == eng.jobs[id].tube
  <2>1. Sound(eng, {}) /\ t \in DOMAIN eng.tubes
    BY AtRest, ZenonT(30) DEF IInv, Jobs
  <2>2. eng.tubes[t].ready # {}
    <3>1. Placed(eng, {})
      BY <2>1, FiledIsPlaced, ZenonT(30) DEF Sound
    <3>2. InPlace(eng, id)
      BY <3>1, ZenonT(30) DEF Placed, Jobs
    <3> QED BY <3>2, ZenonT(60) DEF InPlace
  <2>3. eng.tubes[t].waiting_conns.items # <<>>
    <3>1. c \in Range(eng.tubes[t].waiting_conns.items)
      BY <2>1, ZenonT(30) DEF Attended, Registered, Conns
    <3> QED BY <3>1, EmptyList, ZenonT(30)
  <2>4. Wanting(eng) = {}
    BY AtRest, ZenonT(30) DEF Attended
  <2> QED BY <2>1, <2>2, <2>3, <2>4, ZenonT(60) DEF Wanting
<1> QED BY <1>1, EngineSound, EngineAttended, PTL
=============================================================================
