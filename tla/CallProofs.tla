----------------------------- MODULE CallProofs -----------------------------
(***************************************************************************)
(* The steps of the job engine's calls keep its inductive invariant IInv   *)
(* (module EngineSoundness).                                               *)
(***************************************************************************)
EXTENDS EngineSoundness, JobProofs

\* A connection is owed and awaits the same.
SameDuty(C, cs) ==
    C.waiting = cs.waiting /\ C.owed = cs.owed /\ C.pending_put = cs.pending_put

\* The connections of r, except perhaps c, were there before and are owed the
\* same.
OtherWaitersKept(s, r, c) ==
    \A d \in DOMAIN r.conns : d # c => d \in DOMAIN s.conns /\ SameDuty(r.conns[d], s.conns[d])

\* Every connection is owed and awaits the same.
SameOwed(s, r) ==
    /\ DOMAIN r.conns = DOMAIN s.conns
    /\ \A c \in DOMAIN s.conns : SameDuty(r.conns[c], s.conns[c])

\* A call for connection c changes what c is owed and nothing of the others.
LEMMA OthersDuty ==
    ASSUME NEW s, NEW r, NEW f, NEW g, NEW c, DOMAIN r.conns \subseteq ConnIds,
           DutiesSound(s, f), OtherWaitersKept(s, r, c), f.conn \in {c, None}, g.conn \in {c, None},
           c \in DOMAIN r.conns => Duty(g, c, r.conns[c])
    PROVE  DutiesSound(r, g)
<1> SUFFICES ASSUME NEW d \in DOMAIN r.conns, d # c
             PROVE  Duty(g, d, r.conns[d])
  BY Zenon DEF DutiesSound
<1>1. d # None
  BY ConstantsAssumption, Zenon
<1>2. Duty(f, d, s.conns[d]) /\ SameDuty(r.conns[d], s.conns[d])
  BY Zenon DEF DutiesSound, OtherWaitersKept
<1>3. ~Leaving(f, d) /\ ~Leaving(g, d) /\ ~Answering(f, d) /\ ~Answering(g, d)
  BY <1>1, Zenon DEF Leaving, Answering
<1> QED BY <1>2, <1>3, ZenonT(30) DEF Duty, SameDuty

\* A step that answers nobody changes no duty.
LEMMA AllDuty ==
    ASSUME NEW s, NEW r, NEW f, NEW g, DutiesSound(s, f), SameOwed(s, r),
           \A c \in DOMAIN s.conns : /\ Leaving(f, c) => Leaving(g, c)
                                     /\ Answering(f, c) <=> Answering(g, c)
    PROVE  DutiesSound(r, g)
BY Zenon DEF DutiesSound, SameOwed, SameDuty, Duty

\* Equal connections, kept roles and kept duties are owed the same.
LEMMA OwedKept ==
    ASSUME NEW s, NEW r
    PROVE  /\ r.conns = s.conns => SameOwed(s, r)
           /\ KeepsRest(s, r) => SameOwed(s, r)
           /\ SameDuties(s, r) => SameOwed(s, r)
BY ZenonT(60) DEF SameOwed, SameDuty, KeepsRest, SameRole, SameDuties

\* Between calls a connection is owed a reply exactly while it waits.
LEMMA IdleDuty ==
    ASSUME IInv, Idle, NEW c \in DOMAIN eng.conns
    PROVE  /\ eng.conns[c].owed = IF eng.conns[c].waiting THEN 1 ELSE 0
           /\ eng.conns[c].waiting => eng.conns[c].pending_put = None
<1>1. Duty(NoCall, c, eng.conns[c])
  BY Zenon DEF IInv, DutiesSound, Idle
<1> QED BY <1>1, ZenonT(60) DEF Duty, Leaving, Answering, NoCall

\* No call is running in the empty frame, and nothing follows from it.
LEMMA EmptyFrame ==
    /\ NoCall \in CallType
    /\ \A s : FrameSound(s, NoCall)
    /\ NoCall.conn = None /\ NoCall.fn = "none"
    /\ \A c : ~Leaving(NoCall, c) /\ ~Answering(NoCall, c)
<1>1. NoCall \in CallType
  BY DEF NoCall, CallType
<1>2. NoCall.conn = None /\ NoCall.fn = "none"
  BY Zenon DEF NoCall
<1> QED BY <1>1, <1>2, ZenonT(60) DEF FrameSound, OwnCalls, Leaving, Answering

\* A call of connection c begins and ends.
LEMMA Returning ==
    ASSUME IInv, Idle, NEW r, Sound(r, {}), Return(r), NEW c, OtherWaitersKept(eng, r, c),
           c \in DOMAIN r.conns => Duty(NoCall, c, r.conns[c])
    PROVE  IInv'
<1>1. eng' = r /\ call' = NoCall /\ pq' = FALSE /\ now' = now
  BY Zenon DEF Return
<1>2. DutiesSound(r, NoCall)
  <2>1. DutiesSound(eng, NoCall) /\ DOMAIN r.conns \subseteq ConnIds
    BY Zenon DEF IInv, Idle, Sound, EngineType
  <2> QED BY <2>1, EmptyFrame, OthersDuty, ZenonT(30)
<1> QED BY <1>1, <1>2, EmptyFrame, ZenonT(60) DEF IInv

\* A call that answers at once and changes no duty begins and ends.
LEMMA ReturningSame ==
    ASSUME IInv, Idle, NEW r, Sound(r, {}), Return(r), SameOwed(eng, r)
    PROVE  IInv'
<1>1. eng' = r /\ call' = NoCall /\ pq' = FALSE /\ now' = now
  BY Zenon DEF Return
<1>2. DutiesSound(r, NoCall)
  <2>1. DutiesSound(eng, NoCall)
    BY Zenon DEF IInv, Idle
  <2> QED BY <2>1, AllDuty, ZenonT(30)
<1> QED BY <1>1, <1>2, EmptyFrame, ZenonT(60) DEF IInv

\* The running call ends without answering.
LEMMA Ending ==
    ASSUME IInv, NEW r, Sound(r, {}), Return(r), SameOwed(eng, r),
           call.fn \notin {"reply", "kick", "disconnect", "unwatch"}
    PROVE  IInv'
<1>1. eng' = r /\ call' = NoCall /\ pq' = FALSE /\ now' = now
  BY Zenon DEF Return
<1>2. DutiesSound(r, NoCall)
  <2>1. DutiesSound(eng, call)
    BY Zenon DEF IInv
  <2>2. \A c : ~Leaving(call, c) /\ ~Answering(call, c)
    BY ZenonT(60) DEF Leaving, Answering
  <2> QED BY <2>1, <2>2, EmptyFrame, AllDuty, ZenonT(30)
<1> QED BY <1>1, <1>2, EmptyFrame, ZenonT(60) DEF IInv

\* A call of c is accepted, leaves x and continues with process_queue before
\* it answers.
LEMMA Accepting ==
    ASSUME IInv, Idle, NEW x, Sound(x, {}), NEW c \in DOMAIN x.conns, OtherWaitersKept(eng, x, c),
           x.conns[c].owed = 0, ~x.conns[c].waiting, Continue(accept(x, c), ReplyTo(c))
    PROVE  IInv'
<1> DEFINE r == accept(x, c)
           f == ReplyTo(c)
<1>1. eng' = r /\ call' = f /\ pq' = TRUE /\ now' = now
  BY Zenon DEF Continue
<1>2. /\ Sound(r, {}) /\ OthersSame(x, r, c)
      /\ r.conns[c].waiting = x.conns[c].waiting
      /\ r.conns[c].owed = x.conns[c].owed + 1
  BY ReplySound, ZenonT(60)
<1>3. f.fn = "reply" /\ f.conn = c /\ f \in CallType
  <2>1. c \in ConnIds
    BY SoundRecords, ZenonT(60)
  <2> QED BY ONLY <2>1, EmptyFrame, Zenon DEF ReplyTo, CallType
<1> HIDE DEF r, f
<1>4. DOMAIN r.conns = DOMAIN x.conns /\ DOMAIN r.conns \subseteq ConnIds
  BY <1>2, ZenonT(60) DEF OthersSame, Sound, EngineType
<1>5. FrameSound(r, f)
  BY <1>2, <1>3, <1>4, ZenonT(30) DEF FrameSound
<1>6. DutiesSound(r, f)
  <2>1. DutiesSound(eng, NoCall)
    BY Zenon DEF IInv, Idle
  <2>2. OtherWaitersKept(eng, r, c)
    BY <1>2, <1>4, ZenonT(60) DEF OtherWaitersKept, OthersSame
  <2>3. Duty(f, c, r.conns[c])
    BY <1>2, <1>3, SMTT(30) DEF Duty, Answering
  <2> QED BY <1>3, <1>4, <2>1, <2>2, <2>3, EmptyFrame, OthersDuty, ZenonT(30)
<1> QED BY <1>1, <1>2, <1>5, <1>6, ZenonT(30) DEF IInv

\* A reply given at once leaves what is owed as it was.
LEMMA AcceptReply ==
    ASSUME NEW s, Sound(s, {}), NEW c \in DOMAIN s.conns
    PROVE  LET r == reply(accept(s, c), c) IN Sound(r, {}) /\ SameOwed(s, r)
<1> DEFINE x == accept(s, c)
           r == reply(x, c)
<1>1. s.conns[c].owed \in Int
  BY SoundRecords, ZenonT(60) DEF ConnType
<1>2. /\ Sound(x, {}) /\ OthersSame(s, x, c)
      /\ x.conns[c].pending_put = s.conns[c].pending_put
      /\ x.conns[c].waiting = s.conns[c].waiting /\ x.conns[c].owed = s.conns[c].owed + 1
  BY ReplySound, SMTT(30)
<1> HIDE DEF x
<1>3. c \in DOMAIN x.conns
  BY <1>2, ZenonT(60) DEF OthersSame
<1>4. /\ Sound(r, {}) /\ OthersSame(x, r, c)
      /\ r.conns[c].pending_put = x.conns[c].pending_put
      /\ r.conns[c].waiting = x.conns[c].waiting /\ r.conns[c].owed = x.conns[c].owed - 1
  BY <1>2, <1>3, ReplySound, SMTT(30)
<1> HIDE DEF r
<1>5. SameOwed(s, r)
  BY <1>1, <1>2, <1>4, SMTT(30) DEF SameOwed, SameDuty, OthersSame
<1> QED BY <1>4, <1>5, ZenonT(60) DEF r, x

\* A waiting connection is answered and its call is over.
LEMMA EndWaitReturns ==
    ASSUME Laws, IInv, NEW c \in DOMAIN eng.conns, eng.conns[c].waiting,
           Return(reply(do_remove_waiting_conn(eng, c), c)),
           call = NoCall \/ (call.fn = "reserve_now" /\ call.conn = c)
    PROVE  IInv'
<1> DEFINE r == reply(do_remove_waiting_conn(eng, c), c)
<1>1. Return(r) /\ Sound(eng, {}) /\ DutiesSound(eng, call)
  BY Zenon DEF IInv
<1>2. /\ Sound(r, {}) /\ OthersSame(eng, r, c) /\ ~r.conns[c].waiting
      /\ r.conns[c].owed = eng.conns[c].owed - 1
  BY <1>1, EndWait, ZenonT(60)
<1> HIDE DEF r
<1>3. ~Leaving(call, c) /\ ~Answering(call, c) /\ call.conn \in {c, None}
  BY EmptyFrame, ZenonT(60) DEF Leaving, Answering
<1>4. eng.conns[c].owed = 1
  BY <1>1, <1>3, ZenonT(60) DEF DutiesSound, Duty
<1>5. Duty(NoCall, c, r.conns[c])
  BY <1>2, <1>4, EmptyFrame, SMTT(30) DEF Duty
<1>6. OtherWaitersKept(eng, r, c) /\ DOMAIN r.conns \subseteq ConnIds
  BY <1>2, ZenonT(30) DEF OtherWaitersKept, SameDuty, OthersSame, Sound, EngineType
<1>7. DutiesSound(r, NoCall)
  BY <1>1, <1>3, <1>5, <1>6, EmptyFrame, OthersDuty, ZenonT(30)
<1> QED BY <1>1, <1>2, <1>7, EmptyFrame, ZenonT(60) DEF IInv, Return

\* A half-close ends a wait with a reply.
LEMMA HalfCloseKeeps ==
    ASSUME Laws, IInv, NEW c \in ConnIds, HalfClose(c)
    PROVE  IInv'
BY EndWaitReturns, ZenonT(60) DEF HalfClose, Live, Idle

\* A disconnect ends the wait first, then gives the jobs back.
LEMMA DisconnectKeeps ==
    ASSUME Laws, IInv, NEW c \in ConnIds, Disconnect(c)
    PROVE  IInv'
<1> DEFINE r == do_remove_waiting_conn(eng, c)
           f == [NoCall EXCEPT !.fn = "disconnect", !.conn = c, !.jobs = eng.conns[c].reserved]
<1>1. /\ Idle /\ c \in DOMAIN eng.conns /\ Sound(eng, {})
      /\ eng' = r /\ call' = f /\ pq' = FALSE /\ now' = now
  BY Zenon DEF Disconnect, Goto, Live, IInv
<1>2. PICK C : /\ Sound(r, {}) /\ Waited(eng, r, c, C)
               /\ SameHeld(C, eng.conns[c]) /\ ~C.waiting
  BY <1>1, RemoveWaiting, ZenonT(60)
<1>3. eng.conns[c].reserved \in Seq(Nat)
  BY <1>1, SoundRecords, ZenonT(60)
<1>4. f.fn = "disconnect" /\ f.conn = c /\ f.jobs = eng.conns[c].reserved /\ f \in CallType
  BY ONLY <1>3, EmptyFrame, c \in ConnIds, ZenonT(60) DEF CallType
<1> HIDE DEF r, f
<1>5. c \in DOMAIN r.conns /\ r.conns[c].reserved = eng.conns[c].reserved /\ ~r.conns[c].waiting
  BY <1>1, <1>2, ZenonT(60) DEF Waited, OthersSame, SameHeld
<1>6. FrameSound(r, f)
  BY <1>4, <1>5, ZenonT(60) DEF FrameSound
<1>7. DutiesSound(r, f)
  <2>1. DutiesSound(eng, NoCall) /\ DOMAIN r.conns \subseteq ConnIds
    BY <1>1, <1>2, ZenonT(30) DEF IInv, Idle, Sound, EngineType
  <2>2. OtherWaitersKept(eng, r, c)
    BY <1>2, ZenonT(60) DEF OtherWaitersKept, SameDuty, Waited, OthersSame
  <2>3. Duty(f, c, r.conns[c])
    BY <1>4, <1>5, ZenonT(60) DEF Duty, Leaving
  <2> QED BY <1>4, <2>1, <2>2, <2>3, EmptyFrame, OthersDuty, ZenonT(30)
<1> QED BY <1>1, <1>2, <1>6, <1>7, ZenonT(60) DEF IInv

\* Drain only sets a flag.
LEMMA DrainKeeps ==
    ASSUME IInv, Drain
    PROVE  IInv'
<1> DEFINE r == [eng EXCEPT !.draining = TRUE]
<1>1. Idle /\ Return(r) /\ Sound(eng, {})
  BY ZenonT(60) DEF Drain, IInv
<1>2. SameCore(eng, r)
  BY <1>1, ZenonT(60) DEF SameCore, Sound, EngineType
<1>3. EngineType(r)
  BY <1>1, <1>2, ZenonT(60) DEF Sound, EngineType
<1> HIDE DEF r
<1>4. Sound(r, {}) /\ SameOwed(eng, r)
  BY <1>1, <1>2, <1>3, CoreKept, OwedKept, ZenonT(30)
<1> QED BY <1>1, <1>4, ReturningSame, ZenonT(60)

\* A client that may send is not waiting.
LEMMA Sender ==
    ASSUME IInv, NEW c, MaySend(c)
    PROVE  /\ Idle /\ c \in DOMAIN eng.conns /\ Sound(eng, {}) /\ ~eng.conns[c].waiting
           /\ eng.conns[c].owed = 0 /\ eng.conns[c].pending_put = None
<1>1. Idle /\ c \in DOMAIN eng.conns /\ eng.conns[c].owed = 0 /\ eng.conns[c].pending_put = None
  BY ZenonT(60) DEF MaySend, Live
<1> QED BY <1>1, IdleDuty, SMTT(30) DEF IInv

\* The header and the refusal of a put, and the body of a put while draining.
LEMMA PutEndsKeep ==
    ASSUME IInv, Idle, NEW c \in DOMAIN eng.conns, NEW r, Sound(r, {}), PutKeeps(eng, r, c), Return(r)
    PROVE  IInv'
<1>1. OtherWaitersKept(eng, r, c)
  BY ZenonT(60) DEF PutKeeps, OtherWaitersKept, SameDuty
<1>2. Duty(NoCall, c, r.conns[c])
  <2>1. /\ eng.conns[c].owed = IF eng.conns[c].waiting THEN 1 ELSE 0
        /\ r.conns[c].waiting = eng.conns[c].waiting /\ r.conns[c].owed = eng.conns[c].owed
        /\ r.conns[c].pending_put = None
    BY IdleDuty, ZenonT(60) DEF PutKeeps
  <2> QED BY <2>1, EmptyFrame, ZenonT(60) DEF Duty
<1> QED BY <1>1, <1>2, Returning, ZenonT(60)

\* put_started reserves the next id for the connection.
LEMMA PutStartedKeeps ==
    ASSUME IInv, NEW c \in ConnIds, NEW too_big \in BOOLEAN, PutStarted(c, too_big)
    PROVE  IInv'
<1> DEFINE r == put_started(eng, c, too_big)
<1>1. /\ Idle /\ c \in DOMAIN eng.conns /\ Sound(eng, {}) /\ ~eng.conns[c].waiting
      /\ eng.conns[c].owed = 0 /\ Return(r)
  BY Sender, ZenonT(60) DEF PutStarted
<1>2. PICK p \in Nat \cup {TooBig}, n \in {eng.next_job_id, eng.next_job_id + 1} :
         Became(eng, r, {}, c, [eng.conns[c] EXCEPT !.pending_put = p], n)
  BY <1>1, PutStartedSound, SMTT(30)
<1> HIDE DEF r
<1> DEFINE C == [eng.conns[c] EXCEPT !.pending_put = p]
<1>3. C.waiting = eng.conns[c].waiting /\ C.owed = eng.conns[c].owed
  BY <1>1, SoundRecords, ZenonT(60) DEF ConnType
<1> HIDE DEF C
<1>4. Sound(r, {}) /\ OthersSame(eng, r, c) /\ r.conns[c] = C
  BY <1>2, ZenonT(60) DEF Became, OthersSame, C
<1>5. OtherWaitersKept(eng, r, c)
  BY <1>4, ZenonT(60) DEF OthersSame, OtherWaitersKept, SameDuty
<1>6. Duty(NoCall, c, r.conns[c])
  BY <1>1, <1>3, <1>4, EmptyFrame, ZenonT(60) DEF Duty
<1> QED BY <1>1, <1>4, <1>5, <1>6, Returning, ZenonT(30)

\* put_rejected answers the put and gives its id up.
LEMMA PutRejectedKeeps ==
    ASSUME IInv, NEW c \in ConnIds, NEW why, PutRejected(c, why)
    PROVE  IInv'
<1> DEFINE r == put_rejected(eng, c, why)
<1>1. Idle /\ c \in DOMAIN eng.conns /\ Sound(eng, {}) /\ Return(r)
  BY ZenonT(60) DEF PutRejected, Live, IInv
<1>2. Sound(r, {}) /\ PutKeeps(eng, r, c)
  BY <1>1, PutRejectedSound, ZenonT(60)
<1> HIDE DEF r
<1> QED BY <1>1, <1>2, PutEndsKeep, ZenonT(60)

\* cmd_put makes the job and, when it is ready, lets the queue run.
LEMMA PutDone ==
    ASSUME Laws, IInv, NEW c \in ConnIds, NEW pri \in Pris, NEW delay \in Delays, NEW ttr \in Ttrs,
           Put(c, pri, delay, ttr)
    PROVE  IInv'
<1>1. /\ Idle /\ c \in DOMAIN eng.conns /\ Sound(eng, {}) /\ eng.conns[c].pending_put # None
      /\ now \in Nat
  BY Zenon DEF Put, Live, IInv
<1>2. ~eng.conns[c].waiting /\ eng.conns[c].owed = 0
  BY <1>1, IdleDuty, ZenonT(60)
<1>3. CASE eng.draining
  <2> DEFINE x == take_pending(eng, c)
             r == reply(accept(x, c), c)
  <2>1. Return(r)
    BY <1>3, ZenonT(60) DEF Put
  <2>2. Sound(x, {}) /\ PutKeeps(eng, x, c)
    BY <1>1, PendingTaken, ZenonT(60)
  <2> HIDE DEF x
  <2>3. c \in DOMAIN x.conns
    BY <1>1, <2>2, ZenonT(60) DEF PutKeeps
  <2>4. Sound(r, {}) /\ SameOwed(x, r)
    BY <2>2, <2>3, AcceptReply, ZenonT(60)
  <2> HIDE DEF r
  <2>5. OtherWaitersKept(eng, r, c) /\ r.conns[c].pending_put = None
        /\ r.conns[c].waiting = eng.conns[c].waiting /\ r.conns[c].owed = eng.conns[c].owed
    BY <1>1, <2>2, <2>4, ZenonT(60) DEF PutKeeps, SameOwed, SameDuty, OtherWaitersKept
  <2>6. Duty(NoCall, c, r.conns[c])
    BY <1>2, <2>5, EmptyFrame, ZenonT(60) DEF Duty
  <2> QED BY <1>1, <2>1, <2>4, <2>5, <2>6, Returning, ZenonT(30)
<1>4. CASE ~eng.draining
  <2> DEFINE x == cmd_put(eng, c, pri, delay, ttr, now)
  <2>1. Continue(accept(x, c), ReplyTo(c))
    BY <1>4, ZenonT(60) DEF Put
  <2>2. Sound(x, {}) /\ PutKeeps(eng, x, c)
    BY <1>1, PutSound, BoundsAssumption, ZenonT(60)
  <2> HIDE DEF x
  <2>3. /\ c \in DOMAIN x.conns /\ OtherWaitersKept(eng, x, c)
        /\ x.conns[c].owed = 0 /\ ~x.conns[c].waiting
    BY <1>1, <1>2, <2>2, ZenonT(60) DEF PutKeeps, OtherWaitersKept, SameDuty
  <2> QED BY <1>1, <2>1, <2>2, <2>3, Accepting, ZenonT(30)
<1> QED BY <1>3, <1>4, ZenonT(60)

\* The commands on one job that may hand it to a waiting connection first.
LEMMA JobReadyKeeps ==
    ASSUME Laws, IInv, NEW c \in ConnIds, NEW id \in Nat, NEW pri \in Nat, NEW delay \in Nat,
           Release(c, id, pri, delay) \/ KickJob(c, id)
    PROVE  IInv'
<1>1. /\ Idle /\ c \in DOMAIN eng.conns /\ Sound(eng, {}) /\ now \in Nat /\ id \in DOMAIN eng.jobs
      /\ ~eng.conns[c].waiting /\ eng.conns[c].owed = 0
  BY Sender, ZenonT(60) DEF Release, KickJob, Holds, IInv
<1>2. ASSUME NEW x, Sound(x, {}), KeepsRest(eng, x), Continue(accept(x, c), ReplyTo(c))
      PROVE  IInv'
  <2>1. SameOwed(eng, x)
    BY <1>2, OwedKept, ZenonT(60)
  <2>2. /\ c \in DOMAIN x.conns /\ OtherWaitersKept(eng, x, c)
        /\ x.conns[c].owed = 0 /\ ~x.conns[c].waiting
    BY <1>1, <2>1, ZenonT(60) DEF SameOwed, SameDuty, OtherWaitersKept
  <2> QED BY <1>1, <1>2, <2>2, Accepting, ZenonT(30)
<1>3. CASE Release(c, id, pri, delay)
  <2> DEFINE x == cmd_release(eng, c, id, pri, delay, now)
  <2>1. /\ eng.jobs[id].state = "reserved" /\ c = eng.jobs[id].reserver
        /\ Continue(accept(x, c), ReplyTo(c))
    BY <1>3, ZenonT(60) DEF Release, Holds
  <2>2. Sound(x, {}) /\ KeepsRest(eng, x)
    BY <1>1, <2>1, ReleaseSound, ZenonT(60)
  <2> HIDE DEF x
  <2> QED BY <1>2, <2>1, <2>2, ZenonT(30)
<1>4. CASE KickJob(c, id)
  <2> DEFINE x == kick_to_ready(eng, id)
  <2>1. eng.jobs[id].state # "reserved" /\ Continue(accept(x, c), ReplyTo(c))
    BY <1>4, ZenonT(60) DEF KickJob
  <2>2. Sound(x, {}) /\ KeepsRest(eng, x)
    BY <1>1, <2>1, KickSound, ZenonT(60)
  <2> HIDE DEF x
  <2> QED BY <1>2, <2>1, <2>2, ZenonT(60)
<1> QED BY <1>3, <1>4, ZenonT(60)

\* kick is owed its reply from the first job it moves to the last.
LEMMA KickKeeps ==
    ASSUME IInv, NEW c \in ConnIds, NEW n \in Nat, Kick(c, n)
    PROVE  IInv'
<1> DEFINE r == accept(eng, c)
           t == eng.conns[c].use_tube
           f == [NoCall EXCEPT !.fn = "kick", !.conn = c, !.tube = t, !.n = n,
                               !.buried = eng.tubes[t].buried # <<>>]
<1>1. /\ Idle /\ c \in DOMAIN eng.conns /\ Sound(eng, {})
      /\ ~eng.conns[c].waiting /\ eng.conns[c].owed = 0
      /\ eng' = r /\ call' = f /\ pq' = FALSE /\ now' = now
  BY Sender, ZenonT(60) DEF Kick, Goto
<1>2. /\ Sound(r, {}) /\ OthersSame(eng, r, c)
      /\ r.conns[c].waiting = eng.conns[c].waiting
      /\ r.conns[c].use_tube = eng.conns[c].use_tube
      /\ r.conns[c].owed = eng.conns[c].owed + 1
  <2>1. Sound(eng, {}) /\ c \in DOMAIN eng.conns
    BY <1>1, Zenon
  <2> QED BY ONLY <2>1, ReplySound, SMTT(30)
<1>3. t \in TubeNames
  BY <1>1, SoundRecords, ZenonT(60) DEF Sound, RefsSound
<1> DEFINE b == eng.tubes[t].buried # <<>>
<1>4. f.fn = "kick" /\ f.conn = c /\ f.tube = t /\ f \in CallType
  <2>1. b \in BOOLEAN
    BY ZenonT(60)
  <2> HIDE DEF b
  <2>2. f = [NoCall EXCEPT !.fn = "kick", !.conn = c, !.tube = t, !.n = n, !.buried = b]
    BY ZenonT(60) DEF b
  <2> HIDE DEF f, t
  <2> QED BY ONLY <1>3, <2>1, <2>2, EmptyFrame, c \in ConnIds, n \in Nat, ZenonT(60) DEF CallType
<1> HIDE DEF r, f
<1>5. c \in DOMAIN r.conns /\ DOMAIN r.conns \subseteq ConnIds
  BY <1>1, <1>2, ZenonT(30) DEF OthersSame, Sound, EngineType
<1>6. FrameSound(r, f)
  BY <1>1, <1>2, <1>4, <1>5, ZenonT(30) DEF FrameSound
<1>7. DutiesSound(r, f)
  <2>1. DutiesSound(eng, NoCall)
    BY <1>1, ZenonT(60) DEF IInv, Idle
  <2>2. OtherWaitersKept(eng, r, c)
    BY <1>2, ZenonT(60) DEF OtherWaitersKept, SameDuty, OthersSame
  <2>3. Duty(f, c, r.conns[c])
    BY <1>1, <1>2, <1>4, SMTT(30) DEF Duty, Answering
  <2> QED BY <1>4, <1>5, <2>1, <2>2, <2>3, EmptyFrame, OthersDuty, ZenonT(30)
<1> QED BY <1>1, <1>2, <1>6, <1>7, ZenonT(60) DEF IInv

\* reserve makes the connection wait, and it is owed the reply.
LEMMA ReserveKeeps ==
    ASSUME Laws, IInv, NEW c \in ConnIds, NEW timeout \in Timeouts, Reserve(c, timeout)
    PROVE  IInv'
<1> DEFINE x == accept(eng, c)
           w == IF timeout = None THEN None ELSE now + timeout * NanosPerSec
           r == enqueue_waiting_conn(x, c, w)
           f == IF timeout = 0 THEN [NoCall EXCEPT !.fn = "reserve_now", !.conn = c]
                ELSE [NoCall EXCEPT !.fn = "end"]
<1>1. /\ Idle /\ c \in DOMAIN eng.conns /\ Sound(eng, {}) /\ now \in Nat
      /\ ~eng.conns[c].waiting /\ eng.conns[c].owed = 0 /\ eng.conns[c].pending_put = None
      /\ eng' = r /\ call' = f /\ pq' = TRUE /\ now' = now
  BY Sender, ZenonT(60) DEF Reserve, Continue, IInv
<1>2. /\ Sound(x, {}) /\ OthersSame(eng, x, c)
      /\ ~x.conns[c].waiting /\ x.conns[c].pending_put = None /\ x.conns[c].owed = 1
  <2>1. Sound(eng, {}) /\ c \in DOMAIN eng.conns /\ ~eng.conns[c].waiting
        /\ eng.conns[c].owed = 0 /\ eng.conns[c].pending_put = None
    BY <1>1, Zenon
  <2> QED BY ONLY <2>1, ReplySound, SMTT(30)
<1> HIDE DEF x
<1>3. w \in OptionalNat
  <2>1. CASE timeout = None
    BY <2>1, ZenonT(60) DEF OptionalNat
  <2>2. CASE timeout # None
    <3>1. timeout \in Nat /\ NanosPerSec \in Nat
      BY <2>2, BoundsAssumption, ConstantsAssumption, ZenonT(60)
    <3> QED BY <1>1, <2>2, <3>1, SMTT(30) DEF OptionalNat
  <2> QED BY <2>1, <2>2, ZenonT(60)
<1> HIDE DEF w
<1>4. PICK C : /\ Sound(r, {}) /\ Waited(x, r, c, C) /\ SameRole(C, x.conns[c]) /\ C.waiting
  <2>1. c \in DOMAIN x.conns
    BY <1>1, <1>2, ZenonT(30) DEF OthersSame
  <2> QED BY <1>2, <1>3, <2>1, EnqueueWaiting, ZenonT(30)
<1>5. f \in CallType /\ f.fn \in {"reserve_now", "end"} /\ f.conn \in {c, None}
      /\ (f.fn = "reserve_now" => f.conn = c)
  BY ONLY EmptyFrame, c \in ConnIds, ZenonT(60) DEF CallType
<1> HIDE DEF r, f
<1>6. /\ c \in DOMAIN r.conns /\ DOMAIN r.conns \subseteq ConnIds /\ OtherWaitersKept(eng, r, c)
      /\ r.conns[c].waiting /\ r.conns[c].pending_put = None /\ r.conns[c].owed = 1
  BY <1>1, <1>2, <1>4, ZenonT(30)
     DEF Waited, OthersSame, OtherWaitersKept, SameDuty, SameRole, Sound, EngineType
<1>7. FrameSound(r, f)
  BY <1>5, <1>6, ZenonT(60) DEF FrameSound, OwnCalls
<1>8. DutiesSound(r, f)
  <2>1. DutiesSound(eng, NoCall)
    BY <1>1, ZenonT(60) DEF IInv, Idle
  <2>2. Duty(f, c, r.conns[c])
    BY <1>5, <1>6, ZenonT(30) DEF Duty
  <2> QED BY <1>5, <1>6, <2>1, <2>2, EmptyFrame, OthersDuty, ZenonT(30)
<1> QED BY <1>1, <1>4, <1>7, <1>8, ZenonT(30) DEF IInv

\* The call goes on in frame g, which works for the same connection in the
\* same way.
LEMMA Stepping ==
    ASSUME IInv, NEW r, Sound(r, {}), SameOwed(eng, r), NEW g, FrameSound(r, g),
           \A c \in DOMAIN eng.conns : /\ Leaving(call, c) => Leaving(g, c)
                                       /\ Answering(call, c) <=> Answering(g, c),
           eng' = r, call' = g, pq' \in BOOLEAN, now' = now
    PROVE  IInv'
<1>1. DutiesSound(r, g)
  BY AllDuty, ZenonT(60) DEF IInv
<1> QED BY <1>1, ZenonT(60) DEF IInv

\* Nothing of a frame changes while the connections keep their roles.
LEMMA FrameKept ==
    ASSUME NEW s, NEW r, NEW f, FrameSound(s, f), DOMAIN r.conns = DOMAIN s.conns,
           f.fn \in {"reply", "kick", "disconnect", "unwatch"} =>
             /\ r.conns[f.conn].waiting = s.conns[f.conn].waiting
             /\ r.conns[f.conn].reserved = s.conns[f.conn].reserved
             /\ r.conns[f.conn].use_tube = s.conns[f.conn].use_tube
    PROVE  FrameSound(r, f)
BY ZenonT(60) DEF FrameSound

\* process_queue gives a job to a waiting connection, which is never the one
\* whose call is running and has to be answered or ended.
LEMMA AssignKeeps ==
    ASSUME Laws, IInv, Assign
    PROVE  IInv'
<1> DEFINE s == clear_expired_pauses(eng, now)
           r == assign_best(s, now)
<1>1. /\ serving(s) # {} /\ eng' = r /\ call' = call /\ pq' = pq /\ now' = now
      /\ Sound(eng, {}) /\ FrameSound(eng, call) /\ DutiesSound(eng, call) /\ now \in Nat
  BY ZenonT(60) DEF Assign, IInv
<1>2. Sound(s, {}) /\ s.conns = eng.conns
  BY <1>1, ClearPauses, ZenonT(30) DEF TubesOnly
<1> HIDE DEF s
<1>3. Sound(r, {})
  BY <1>1, <1>2, AssignBest, ZenonT(30)
<1>4. PICK c : Answered(s, r, c) /\ s.conns[c].waiting
  BY <1>1, <1>2, AssignBest, ZenonT(30)
<1> HIDE DEF r
<1>5. /\ c \in DOMAIN eng.conns /\ OthersSame(eng, r, c) /\ eng.conns[c].waiting
      /\ r.conns[c].owed = eng.conns[c].owed - 1 /\ ~r.conns[c].waiting
  BY <1>2, <1>4, ZenonT(30) DEF Answered, OthersSame
<1>6. ~Leaving(call, c) /\ ~Answering(call, c)
  BY <1>1, <1>5, ZenonT(30) DEF Leaving, Answering, FrameSound
<1>7. FrameSound(r, call)
  <2>1. call.fn \in {"reply", "kick", "disconnect", "unwatch"} =>
          call.conn \in DOMAIN eng.conns /\ call.conn # c
    BY <1>1, <1>5, ZenonT(30) DEF FrameSound, OwnCalls
  <2> QED BY <1>1, <1>5, <2>1, FrameKept, ZenonT(30) DEF OthersSame
<1>8. DutiesSound(r, call)
  <2> SUFFICES ASSUME NEW d \in DOMAIN r.conns PROVE Duty(call, d, r.conns[d])
    BY ZenonT(60) DEF DutiesSound
  <2>1. d \in DOMAIN eng.conns /\ Duty(call, d, eng.conns[d])
    BY <1>1, <1>5, ZenonT(30) DEF DutiesSound, OthersSame
  <2>2. CASE d = c
    BY <1>5, <1>6, <2>1, <2>2, SMTT(30) DEF Duty
  <2>3. CASE d # c
    BY <1>5, <2>1, <2>3, ZenonT(30) DEF OthersSame
  <2> QED BY <2>2, <2>3, ZenonT(30)
<1> QED BY <1>1, <1>3, <1>7, <1>8, ZenonT(30) DEF IInv

\* The last round of process_queue only ends pauses.
LEMMA AssignEndKeeps ==
    ASSUME IInv, AssignEnd
    PROVE  IInv'
<1> DEFINE r == clear_expired_pauses(eng, now)
<1>1. /\ eng' = r /\ call' = call /\ pq' = FALSE /\ now' = now
      /\ Sound(eng, {}) /\ FrameSound(eng, call)
  BY Zenon DEF AssignEnd, IInv
<1>2. Sound(r, {}) /\ r.conns = eng.conns
  BY <1>1, ClearPauses, ZenonT(30) DEF TubesOnly
<1> HIDE DEF r
<1>3. SameOwed(eng, r) /\ FrameSound(r, call)
  BY <1>1, <1>2, OwedKept, FrameKept, ZenonT(30)
<1> QED BY <1>1, <1>2, <1>3, Stepping, ZenonT(60)

\* disconnect gives back the oldest job and goes on with the rest.
LEMMA DisconnectJobKeeps ==
    ASSUME Laws, IInv, DisconnectJob
    PROVE  IInv'
<1> DEFINE c == call.conn
           id == Head(call.jobs)
           r == give_back(eng, c, id)
           g == [call EXCEPT !.jobs = Tail(call.jobs)]
<1>1. /\ call.fn = "disconnect" /\ call.jobs # <<>>
      /\ eng' = r /\ call' = g /\ pq' = TRUE /\ now' = now
      /\ Sound(eng, {}) /\ FrameSound(eng, call)
  BY Zenon DEF DisconnectJob, Continue, IInv
<1>2. /\ c \in DOMAIN eng.conns /\ call.jobs = eng.conns[c].reserved /\ ~eng.conns[c].waiting
      /\ call \in CallType
  BY <1>1, ZenonT(60) DEF FrameSound, OwnCalls
<1>3. HeldBy(eng, c, id)
  BY <1>1, <1>2, HeldJobs, ZenonT(30)
<1>4. /\ Sound(r, {}) /\ KeepsRest(eng, r)
      /\ r.conns[c].reserved = list_remove(eng.conns[c].reserved, id)
  BY <1>1, <1>3, GiveBack, ZenonT(30) DEF HeldBy
<1>5. r.conns[c].reserved = Tail(call.jobs) /\ Tail(call.jobs) \in Seq(Nat)
  <2>1. eng.conns[c].reserved \in Seq(Nat) /\ IsInjective(eng.conns[c].reserved)
    BY <1>1, <1>2, SoundRecords, ZenonT(30)
  <2> DEFINE q == call.jobs
  <2>2. q \in Seq(Nat) /\ IsInjective(q) /\ q # <<>> /\ r.conns[c].reserved = list_remove(q, Head(q))
    BY <1>1, <1>2, <1>4, <2>1, ZenonT(60)
  <2> HIDE DEF q, r
  <2>3. list_remove(q, Head(q)) = Tail(q)
    BY ONLY <2>2, RemoveHead, ZenonT(60)
  <2>4. Tail(q) \in Seq(Nat)
    BY ONLY <2>2, SMTT(30)
  <2> QED BY <2>2, <2>3, <2>4, ZenonT(30) DEF q
<1>6. g \in CallType /\ g.fn = "disconnect" /\ g.conn = c /\ g.jobs = Tail(call.jobs)
  BY <1>1, <1>2, <1>5, ZenonT(30) DEF CallType
<1> HIDE DEF r, g, id
<1>7. FrameSound(r, g)
  <2>1. c \in DOMAIN r.conns /\ r.conns[c].waiting = eng.conns[c].waiting
    BY <1>2, <1>4, ZenonT(30) DEF KeepsRest
  <2> QED BY <1>2, <1>5, <1>6, <2>1, ZenonT(30) DEF FrameSound
<1> HIDE DEF c
<1>8. \A d : /\ Leaving(call, d) => Leaving(g, d)
             /\ Answering(call, d) <=> Answering(g, d)
  BY <1>1, <1>6, ZenonT(60) DEF Leaving, Answering, c
<1> QED BY <1>1, <1>4, <1>7, <1>8, OwedKept, Stepping, ZenonT(30)

\* The order ms_clear deletes in is a list of the same tubes.
LEMMA DeleteOrder ==
    ASSUME NEW q \in Seq(TubeNames)
    PROVE  delete_order(q) \in Seq(TubeNames)
<1>1. Len(q) \in Nat /\ \A k \in 1..Len(q) : q[k] \in TubeNames
  BY SMTT(30)
<1>2. ASSUME NEW k \in 1..Len(q)
      PROVE  (IF k = 1 THEN q[1] ELSE q[Len(q) - k + 2]) \in TubeNames
  <2>1. CASE k = 1
    BY <1>1, <2>1, ZenonT(60)
  <2>2. CASE k # 1
    <3>1. Len(q) - k + 2 \in 1..Len(q)
      BY <1>1, <2>2, SMTT(30)
    <3> QED BY <1>1, <2>2, <3>1, ZenonT(30)
  <2> QED BY <2>1, <2>2, ZenonT(60)
<1> QED BY <1>1, <1>2, SMTT(30) DEF delete_order

\* With its jobs given back, the connection drops its watch list.
LEMMA DisconnectJobsDoneKeeps ==
    ASSUME IInv, DisconnectJobsDone
    PROVE  IInv'
<1> DEFINE c == call.conn
           r == [eng EXCEPT !.conns[c].watch = <<>>]
           w == delete_order(eng.conns[c].watch)
           g == [call EXCEPT !.fn = "unwatch", !.watch = w]
<1>1. /\ call.fn = "disconnect" /\ call.jobs = <<>>
      /\ eng' = r /\ call' = g /\ pq' = FALSE /\ now' = now
      /\ Sound(eng, {}) /\ FrameSound(eng, call)
  BY ZenonT(60) DEF DisconnectJobsDone, Goto, IInv
<1>2. /\ c \in DOMAIN eng.conns /\ eng.conns[c].reserved = <<>> /\ ~eng.conns[c].waiting
      /\ call \in CallType
  BY <1>1, ZenonT(60) DEF FrameSound, OwnCalls
<1>3. eng.conns[c] \in ConnType /\ eng.conns[c].watch \in Seq(TubeNames)
  BY <1>1, <1>2, SoundRecords, ZenonT(30) DEF ConnType
<1>4. w \in Seq(TubeNames)
  BY <1>3, DeleteOrder, ZenonT(30)
<1> HIDE DEF w
<1>5. g \in CallType /\ g.fn = "unwatch" /\ g.conn = c
  BY <1>1, <1>2, <1>4, ZenonT(60) DEF CallType
<1> DEFINE C == [eng.conns[c] EXCEPT !.watch = <<>>]
<1>6. /\ C.reserved = eng.conns[c].reserved /\ C.waiting = eng.conns[c].waiting
      /\ C.owed = eng.conns[c].owed /\ C.pending_put = eng.conns[c].pending_put
  BY ONLY <1>3, ZenonT(60) DEF ConnType
<1>7. Became(eng, r, {}, c, C, eng.next_job_id)
  <2>1. <<>> \in Seq(TubeNames)
    BY SMTT(30)
  <2> QED BY <1>1, <1>2, <2>1, SetWatch, ZenonT(60)
<1> HIDE DEF C, r, g
<1>8. /\ Sound(r, {}) /\ DOMAIN r.conns = DOMAIN eng.conns /\ r.conns[c] = C
      /\ \A d \in DOMAIN eng.conns : d # c => r.conns[d] = eng.conns[d]
  BY <1>7, ZenonT(60) DEF Became
<1>9. SameOwed(eng, r)
  BY <1>2, <1>6, <1>8, ZenonT(60) DEF SameOwed, SameDuty
<1>10. FrameSound(r, g)
  BY <1>2, <1>5, <1>6, <1>8, ZenonT(30) DEF FrameSound
<1>11. \A d : /\ Leaving(call, d) => Leaving(g, d)
              /\ Answering(call, d) <=> Answering(g, d)
  BY <1>1, <1>5, ZenonT(60) DEF Leaving, Answering
<1> QED BY <1>1, <1>8, <1>9, <1>10, <1>11, Stepping, ZenonT(60)

\* The command that was accepted is answered at the end of its call.
LEMMA AnswerKeeps ==
    ASSUME IInv, call.fn \in {"reply", "kick"}, Return(reply(eng, call.conn))
    PROVE  IInv'
<1> DEFINE c == call.conn
           r == reply(eng, c)
<1>1. Sound(eng, {}) /\ FrameSound(eng, call) /\ DutiesSound(eng, call) /\ Return(r)
  BY ZenonT(60) DEF IInv
<1>2. c \in DOMAIN eng.conns /\ ~eng.conns[c].waiting
  BY <1>1, ZenonT(60) DEF FrameSound, OwnCalls
<1>3. eng.conns[c].owed = 1
  BY <1>1, <1>2, ZenonT(30) DEF DutiesSound, Duty, Leaving, Answering
<1>4. /\ Sound(r, {}) /\ OthersSame(eng, r, c)
      /\ r.conns[c].waiting = eng.conns[c].waiting
      /\ r.conns[c].owed = eng.conns[c].owed - 1
  <2>1. Sound(eng, {}) /\ c \in DOMAIN eng.conns /\ r \in {reply(eng, c), accept(eng, c)}
    BY <1>1, <1>2, ZenonT(60)
  <2>2. Sound(r, {}) /\ r.conns[c].owed = eng.conns[c].owed - 1
    BY ONLY <2>1, ReplySound, SMTT(30)
  <2> HIDE DEF r
  <2> QED BY ONLY <2>1, <2>2, ReplySound, SMTT(30)
<1> HIDE DEF r
<1>5. OtherWaitersKept(eng, r, c) /\ DOMAIN r.conns \subseteq ConnIds
  BY <1>4, ZenonT(60) DEF OtherWaitersKept, SameDuty, OthersSame, Sound, EngineType
<1>6. Duty(NoCall, c, r.conns[c])
  <2>1. r.conns[c].owed = 0 /\ ~r.conns[c].waiting
    BY <1>2, <1>3, <1>4, SMTT(30)
  <2> QED BY <2>1, EmptyFrame, ZenonT(60) DEF Duty
<1>7. DutiesSound(r, NoCall)
  BY <1>1, <1>5, <1>6, EmptyFrame, OthersDuty, ZenonT(30)
<1> QED BY <1>1, <1>4, <1>7, EmptyFrame, ZenonT(60) DEF IInv, Return

\* reserve-with-timeout 0 answers a connection process_queue did not serve.
LEMMA ReserveNowKeeps ==
    ASSUME Laws, IInv, ReserveNow
    PROVE  IInv'
<1>1. /\ call.fn = "reserve_now" /\ Sound(eng, {}) /\ call.conn \in DOMAIN eng.conns
  BY ZenonT(60) DEF ReserveNow, IInv, FrameSound, OwnCalls
<1>2. CASE eng.conns[call.conn].waiting
  BY <1>1, <1>2, EndWaitReturns, ZenonT(60) DEF ReserveNow
<1>3. CASE ~eng.conns[call.conn].waiting
  BY <1>1, <1>3, Ending, OwedKept, ZenonT(30) DEF ReserveNow
<1> QED BY <1>2, <1>3, ZenonT(60)

\* kick moves the first buried or delayed job of the tube its client uses.
LEMMA KickNextKeeps ==
    ASSUME Laws, IInv, KickNext
    PROVE  IInv'
<1> DEFINE t == call.tube
           ts == eng.tubes[t]
           id == IF call.buried THEN Head(ts.buried) ELSE first(ts.delayed)[2]
           r == kick_to_ready(eng, id)
           g == [call EXCEPT !.n = call.n - 1]
<1>1. /\ call.fn = "kick" /\ call.n > 0 /\ KickSource
      /\ eng' = r /\ call' = g /\ pq' = TRUE /\ now' = now
      /\ Sound(eng, {}) /\ FrameSound(eng, call)
  BY ZenonT(60) DEF KickNext, Continue, IInv
<1>2. /\ call \in CallType /\ call.conn \in DOMAIN eng.conns
      /\ t = eng.conns[call.conn].use_tube
  BY <1>1, ZenonT(60) DEF FrameSound, OwnCalls
<1>3. t \in DOMAIN eng.tubes
  BY <1>1, <1>2, ZenonT(60) DEF Sound, RefsSound
<1>4. id \in DOMAIN eng.jobs /\ eng.jobs[id].state # "reserved"
  <2>1. CASE call.buried
    <3>1. ts.buried # <<>>
      BY <1>1, <2>1, ZenonT(60) DEF KickSource
    <3> QED BY <1>1, <1>3, <2>1, <3>1, BuriedHead, ZenonT(60) DEF JobIn
  <2>2. CASE ~call.buried
    <3>1. ts.delayed # {}
      BY <1>1, <2>2, ZenonT(60) DEF KickSource
    <3> QED BY <1>1, <1>3, <2>2, <3>1, FirstQueued, ZenonT(60) DEF JobIn
  <2> QED BY <2>1, <2>2, ZenonT(60)
<1> HIDE DEF id
<1>5. Sound(r, {}) /\ r.conns = eng.conns
  BY <1>1, <1>4, KickSound, ZenonT(30)
<1>6. g \in CallType /\ g.fn = "kick" /\ g.conn = call.conn /\ g.tube = call.tube
  <2>1. call.n - 1 \in Nat
    BY <1>1, <1>2, SMTT(30) DEF CallType
  <2> QED BY <1>1, <1>2, <2>1, ZenonT(60) DEF CallType
<1> HIDE DEF r, g
<1>7. FrameSound(r, g)
  BY <1>1, <1>5, <1>6, ZenonT(60) DEF FrameSound, OwnCalls
<1>8. \A d : /\ Leaving(call, d) => Leaving(g, d)
             /\ Answering(call, d) <=> Answering(g, d)
  BY <1>1, <1>6, ZenonT(60) DEF Leaving, Answering
<1> QED BY <1>1, <1>5, <1>7, <1>8, OwedKept, Stepping, ZenonT(30)

\* The frames of tick say nothing about a connection.
LEMMA TickFrame ==
    ASSUME NEW s, NEW g, g \in CallType, g.fn \in {"tick_delayed", "tick_conns", "end", "none"}
    PROVE  FrameSound(s, g) /\ \A d : ~Leaving(g, d) /\ ~Answering(g, d)
BY ZenonT(60) DEF FrameSound, OwnCalls, Leaving, Answering

\* Between the parts of a tick nothing changes but the frame.
LEMMA TickStepsKeep ==
    ASSUME Laws, IInv, Tick \/ TickPauses \/ TickConn
    PROVE  IInv'
<1>1. Sound(eng, {}) /\ call \in CallType /\ SameOwed(eng, eng)
  BY OwedKept, ZenonT(60) DEF IInv, FrameSound
<1>2. CASE Tick
  <2> DEFINE g == [NoCall EXCEPT !.fn = "tick_delayed"]
  <2>1. eng' = eng /\ call = NoCall /\ call' = g /\ pq' = FALSE /\ now' = now
    BY <1>2, ZenonT(60) DEF Tick, Goto, Idle
  <2>2. g \in CallType /\ g.fn = "tick_delayed"
    BY ONLY EmptyFrame, ZenonT(60) DEF CallType
  <2> HIDE DEF g
  <2> QED BY <1>1, <2>1, <2>2, EmptyFrame, TickFrame, Stepping, ZenonT(60)
<1>3. CASE TickPauses
  <2> DEFINE g == [call EXCEPT !.fn = "tick_conns"]
  <2>1. call.fn = "tick_delayed" /\ eng' = eng /\ call' = g /\ pq' \in BOOLEAN /\ now' = now
    BY <1>3, ZenonT(60) DEF TickPauses
  <2>2. g \in CallType /\ g.fn = "tick_conns"
    BY <1>1, ZenonT(60) DEF CallType
  <2> HIDE DEF g
  <2> QED BY <1>1, <2>1, <2>2, TickFrame, Stepping, ZenonT(30)
<1>4. CASE TickConn
  <2> DEFINE S == {<<eng.conns[d].tick_key, d>> : d \in ConnsDue}
             c == first(S)[2]
             p == call.processed \cup {c}
             g == [call EXCEPT !.fn = "conn_timeout", !.conn = c, !.processed = p]
  <2>1. /\ call.fn = "tick_conns" /\ ConnsDue # {}
        /\ eng' = eng /\ call' = g /\ pq' = FALSE /\ now' = now
    BY <1>4, ZenonT(60) DEF TickConn, Goto
  <2>2. c \in DOMAIN eng.conns
    <3>1. ASSUME NEW d \in ConnsDue
          PROVE  <<eng.conns[d].tick_key, d>> \in Nat \X Nat /\ d \in DOMAIN eng.conns
      <4>1. d \in DOMAIN eng.conns /\ eng.conns[d].tick_key # None
        BY Zenon DEF ConnsDue
      <4>2. d \in ConnIds /\ eng.conns[d] \in ConnType
        BY <1>1, <4>1, SoundRecords, ZenonT(30)
      <4>3. eng.conns[d].tick_key \in OptionalNat
        BY ONLY <4>2, ZenonT(60) DEF ConnType
      <4> QED BY <4>1, <4>2, <4>3, ConstantsAssumption, ZenonT(60) DEF OptionalNat
    <3>2. S \in SUBSET (Nat \X Nat) /\ S # {}
      BY <2>1, <3>1, ZenonT(60)
    <3>3. first(S) \in S
      BY <3>2, FirstIsLeast, ZenonT(60)
    <3> QED BY <3>1, <3>3, SMTT(30)
  <2>3. c \in ConnIds
    BY <1>1, <2>2, SoundRecords, ZenonT(30)
  <2> HIDE DEF c
  <2>4. g \in CallType /\ g.fn = "conn_timeout" /\ g.conn = c
    BY <1>1, <2>3, ZenonT(60) DEF CallType
  <2> HIDE DEF g
  <2>5. FrameSound(eng, g) /\ \A d : ~Leaving(g, d) /\ ~Answering(g, d)
    BY <2>2, <2>4, ZenonT(60) DEF FrameSound, OwnCalls, Leaving, Answering
  <2> QED BY <1>1, <2>1, <2>5, TickFrame, Stepping, ZenonT(60)
<1> QED BY <1>2, <1>3, <1>4, ZenonT(30)

\* tick makes a delayed job that is due ready.
LEMMA TickDelayedKeeps ==
    ASSUME Laws, IInv, TickDelayed
    PROVE  IInv'
<1> DEFINE t == soonest_delayed_tube(eng)
           id == first(eng.tubes[t].delayed)[2]
           x == remove_delayed(eng, t, id)
           r == insert_ready(x, t, id)
           hand == {id}
<1>1. /\ call.fn = "tick_delayed" /\ delayed_tubes(eng) # {}
      /\ eng' = r /\ call' = call /\ pq' = TRUE /\ now' = now
      /\ Sound(eng, {}) /\ FrameSound(eng, call)
  BY ZenonT(60) DEF TickDelayed, DelayedDue, Continue, IInv
<1>2. JobIn(eng, t, id, "delayed")
  BY <1>1, SoonestDelayed, ZenonT(60)
<1> HIDE DEF t, id
<1>3. Sound(x, hand) /\ x.conns = eng.conns /\ x.jobs = eng.jobs
  BY <1>1, <1>2, RemoveDelayed, ZenonT(30) DEF JobIn
<1> HIDE DEF x
<1>4. Sound(r, {}) /\ r.conns = x.conns
  BY <1>2, <1>3, InsertReady, ZenonT(30) DEF JobIn
<1> HIDE DEF r, hand
<1>5. SameOwed(eng, r) /\ FrameSound(r, call)
  BY <1>1, <1>3, <1>4, OwedKept, FrameKept, ZenonT(30)
<1> QED BY <1>1, <1>4, <1>5, Stepping, ZenonT(30)

\* A reservation past its deadline is given back.
LEMMA TimeoutJobKeeps ==
    ASSUME Laws, IInv, TimeoutJob
    PROVE  IInv'
<1> DEFINE c == call.conn
           id == soonest_reserved(eng.conns[c])[2]
           r == give_back(eng, c, id)
<1>1. /\ call.fn = "conn_timeout" /\ eng.conns[c].reserved_by_deadline # {}
      /\ eng' = r /\ call' = call /\ pq' = TRUE /\ now' = now
      /\ Sound(eng, {}) /\ FrameSound(eng, call)
  BY ZenonT(60) DEF TimeoutJob, Overdue, Continue, IInv
<1>2. c \in DOMAIN eng.conns
  BY <1>1, ZenonT(60) DEF FrameSound, OwnCalls
<1>3. HeldBy(eng, c, id)
  BY <1>1, <1>2, HeldJobs, ZenonT(60)
<1> HIDE DEF id
<1>4. Sound(r, {}) /\ KeepsRest(eng, r)
  BY <1>1, <1>3, GiveBack, ZenonT(60) DEF HeldBy
<1> HIDE DEF r
<1>5. SameOwed(eng, r) /\ FrameSound(r, call)
  BY <1>1, <1>4, OwedKept, FrameKept, ZenonT(60) DEF KeepsRest
<1> QED BY <1>1, <1>4, <1>5, Stepping, ZenonT(30)

\* A wait that is over is answered, and the tick goes on.
LEMMA TimeoutWaitKeeps ==
    ASSUME Laws, IInv, TimeoutWait
    PROVE  IInv'
<1> DEFINE c == call.conn
           g == [call EXCEPT !.fn = "tick_conns", !.conn = None]
           over == wait_over(eng, c, now)
           r == reply(do_remove_waiting_conn(eng, c), c)
<1>1. /\ call.fn = "conn_timeout"
      /\ eng' = IF over THEN r ELSE eng
      /\ call' = g /\ pq' = FALSE /\ now' = now
      /\ Sound(eng, {}) /\ FrameSound(eng, call) /\ DutiesSound(eng, call)
  BY ZenonT(60) DEF TimeoutWait, Goto, IInv
<1>2. c \in DOMAIN eng.conns /\ call \in CallType
  BY <1>1, ZenonT(60) DEF FrameSound, OwnCalls
<1>3. g \in CallType /\ g.fn = "tick_conns" /\ g.conn = None
  BY <1>2, ZenonT(60) DEF CallType
<1> HIDE DEF g
<1>4. \A d : /\ ~Leaving(call, d) /\ ~Answering(call, d)
             /\ ~Leaving(g, d) /\ ~Answering(g, d)
  BY <1>1, <1>3, ZenonT(60) DEF Leaving, Answering
<1>5. CASE over
  <2>1. eng.conns[c].waiting
    BY <1>5, ZenonT(60) DEF wait_over
  <2>2. /\ Sound(r, {}) /\ OthersSame(eng, r, c) /\ ~r.conns[c].waiting
        /\ r.conns[c].owed = eng.conns[c].owed - 1
    BY <1>1, <1>2, EndWait, ZenonT(60)
  <2> HIDE DEF r, over
  <2>3. eng.conns[c].owed = 1
    BY <1>1, <1>2, <1>4, <2>1, ZenonT(30) DEF DutiesSound, Duty
  <2>4. Duty(g, c, r.conns[c])
    BY <1>4, <2>2, <2>3, SMTT(30) DEF Duty
  <2>5. OtherWaitersKept(eng, r, c) /\ DOMAIN r.conns \subseteq ConnIds
    BY <2>2, ZenonT(30) DEF OtherWaitersKept, SameDuty, OthersSame, Sound, EngineType
  <2>6. DutiesSound(r, g)
    BY <1>1, <1>3, <2>4, <2>5, OthersDuty, ZenonT(30)
  <2>7. FrameSound(r, g)
    BY <1>3, TickFrame, ZenonT(60)
  <2> QED BY <1>1, <1>5, <2>2, <2>6, <2>7, ZenonT(60) DEF IInv
<1>6. CASE ~over
  <2>1. SameOwed(eng, eng) /\ FrameSound(eng, g)
    BY <1>3, OwedKept, TickFrame, ZenonT(60)
  <2> HIDE DEF over
  <2> QED BY <1>1, <1>4, <1>6, <2>1, Stepping, ZenonT(60)
<1> QED BY <1>5, <1>6, ZenonT(60)

\* delete: the job leaves its container, then the engine, and its tube may go.
LEMMA DeleteSound ==
    ASSUME Laws, NEW s, Sound(s, {}), NEW c, NEW id \in DOMAIN s.jobs,
           s.jobs[id].state = "reserved" => s.jobs[id].reserver = c
    PROVE  Sound(cmd_delete(s, c, id), {}) /\ SameOwed(s, cmd_delete(s, c, id))
<1> DEFINE t == s.jobs[id].tube
           s1 == IF s.jobs[id].state = "reserved" THEN do_unreserve(s, c, id)
                 ELSE remove_queued(s, id)
           s2 == job_filed(s1, without_entry(s1.jobs, id), t,
                           saturating_sub(s1.tubes[t].job_ref_ct, 1))
           s3 == journal_delete(s2, id)
           r == gc_tube_if_orphan(s3, t)
           hand == {id}
<1>1. cmd_delete(s, c, id) = r
  BY ZenonT(30) DEF cmd_delete, job_filed
<1>2. Sound(s1, hand) /\ KeepsRest(s, s1)
  <2>1. CASE s.jobs[id].state = "reserved"
    BY <2>1, DoUnreserve, ZenonT(30)
  <2>2. CASE s.jobs[id].state # "reserved"
    BY <2>2, RemoveQueued, ZenonT(30)
  <2> QED BY <2>1, <2>2, ZenonT(30)
<1> HIDE DEF s1
<1>3. id \in DOMAIN s1.jobs /\ t = s1.jobs[id].tube /\ id \in Nat
  BY <1>2, SoundRecords, ZenonT(30) DEF KeepsRest
<1> HIDE DEF t
<1>4. Sound(s2, {}) /\ s2.conns = s1.conns
  <2>1. Sound(s1, {id})
    BY <1>2, ZenonT(30)
  <2>2. id \in DOMAIN s1.jobs /\ t = s1.jobs[id].tube
    BY <1>3, ZenonT(60)
  <2>3. Sound(job_filed(s1, without_entry(s1.jobs, id), t,
                        saturating_sub(s1.tubes[t].job_ref_ct, 1)), {})
    BY ONLY Laws, <2>1, <2>2, DropJob, ZenonT(30)
  <2>4. job_filed(s1, without_entry(s1.jobs, id), t,
                  saturating_sub(s1.tubes[t].job_ref_ct, 1)).conns = s1.conns
    BY DEF job_filed
  <2> QED BY <2>3, <2>4, ZenonT(60)
<1> HIDE DEF s2, hand
<1>5. Sound(s3, {}) /\ SameCore(s2, s3)
  BY <1>3, <1>4, JournalCalls, ZenonT(30)
<1> HIDE DEF s3
<1>6. Sound(r, {}) /\ r.conns = s3.conns
  BY <1>5, GcSound, ZenonT(30)
<1> HIDE DEF r
<1>7. SameOwed(s, s1) /\ r.conns = s1.conns
  BY <1>2, <1>4, <1>5, <1>6, OwedKept, ZenonT(30) DEF SameCore
<1> QED BY <1>1, <1>6, <1>7, ZenonT(30) DEF SameOwed

\* Connections come, half-close and begin to leave.
LEMMA ConnectKeeps ==
    ASSUME Laws, IInv, NEW c \in ConnIds, Connect(c)
    PROVE  IInv'
<1> DEFINE r == connect(eng, c)
<1>1. Idle /\ c \notin DOMAIN eng.conns /\ Return(r) /\ Sound(eng, {})
  BY ZenonT(30) DEF Connect, Live, IInv
<1>2. /\ Sound(r, {}) /\ DOMAIN r.conns = DOMAIN eng.conns \cup {c} /\ r.conns[c] = NewConn
      /\ \A d \in DOMAIN eng.conns : r.conns[d] = eng.conns[d]
  BY <1>1, ConnectSound, ZenonT(30)
<1> HIDE DEF r
<1>3. OtherWaitersKept(eng, r, c)
  BY <1>2, ZenonT(30) DEF OtherWaitersKept, SameDuty
<1>4. Duty(NoCall, c, r.conns[c])
  BY <1>2, NewConnType, EmptyFrame, ZenonT(30) DEF Duty
<1> QED BY <1>1, <1>2, <1>3, <1>4, Returning, ZenonT(30)

\* The commands on tubes.
LEMMA TubeCommandsKeep ==
    ASSUME Laws, IInv, NEW c \in ConnIds, NEW t \in TubeNames, NEW delay \in Nat,
           Use(c, t) \/ Watch(c, t) \/ Ignore(c, t) \/ PauseTube(c, t, delay)
    PROVE  IInv'
<1>1. /\ Idle /\ c \in DOMAIN eng.conns /\ Sound(eng, {}) /\ ~eng.conns[c].waiting /\ now \in Nat
  BY Sender, ZenonT(30) DEF Use, Watch, Ignore, PauseTube, IInv
<1>2. CASE Use(c, t)
  BY <1>1, <1>2, UseSound, OwedKept, ReturningSame, ZenonT(30) DEF Use
<1>3. CASE Watch(c, t)
  BY <1>1, <1>3, WatchSound, OwedKept, ReturningSame, ZenonT(30) DEF Watch
<1>4. CASE Ignore(c, t)
  BY <1>1, <1>4, IgnoreSound, OwedKept, ReturningSame, ZenonT(30) DEF Ignore
<1>5. CASE PauseTube(c, t, delay)
  <2>1. t \in DOMAIN eng.tubes /\ delay \in Nat /\ Return(cmd_pause_tube(eng, t, delay, now))
    BY <1>5, ZenonT(30) DEF PauseTube
  <2>2. TubesOnly(eng, cmd_pause_tube(eng, t, delay, now), {})
    BY <1>1, <2>1, PauseTubeSound, ZenonT(60)
  <2> QED BY <1>1, <2>1, <2>2, OwedKept, ReturningSame, ZenonT(30) DEF TubesOnly
<1> QED BY <1>2, <1>3, <1>4, <1>5, ZenonT(30)

\* The commands on one job that answer at once.
LEMMA JobCommandsKeep ==
    ASSUME Laws, IInv, NEW c \in ConnIds, NEW id \in Nat, NEW pri \in Nat,
           ReserveJob(c, id) \/ Touch(c, id) \/ Delete(c, id) \/ Bury(c, id, pri)
    PROVE  IInv'
<1>1. Idle /\ c \in DOMAIN eng.conns /\ Sound(eng, {}) /\ now \in Nat /\ id \in DOMAIN eng.jobs
  BY Sender, ZenonT(30) DEF ReserveJob, Touch, Delete, Bury, Holds, IInv
<1>2. CASE ReserveJob(c, id)
  <2> DEFINE x == remove_queued(eng, id)
             r == do_reserve(x, c, id, now)
             hand == {id}
  <2>1. eng.jobs[id].state # "reserved" /\ Return(r)
    BY <1>2, ZenonT(30) DEF ReserveJob
  <2>2. Sound(x, hand) /\ x.conns = eng.conns /\ x.jobs = eng.jobs
    BY <1>1, <2>1, RemoveQueued, ZenonT(30)
  <2> HIDE DEF x
  <2>3. Sound(r, {}) /\ KeepsRest(x, r)
    BY <1>1, <2>2, DoReserve, ZenonT(30)
  <2> HIDE DEF r, hand
  <2>4. SameOwed(eng, r)
    BY <2>2, <2>3, OwedKept, ZenonT(30) DEF SameOwed
  <2> QED BY <1>1, <2>1, <2>3, <2>4, ReturningSame, ZenonT(30)
<1>3. CASE Touch(c, id)
  <2> DEFINE r == cmd_touch(eng, c, id, now)
  <2>1. eng.jobs[id].state = "reserved" /\ c = eng.jobs[id].reserver /\ Return(r)
    BY <1>3, ZenonT(30) DEF Touch, Holds
  <2>2. Sound(r, {}) /\ KeepsRest(eng, r)
    BY <1>1, <2>1, TouchSound, ZenonT(30)
  <2> HIDE DEF r
  <2> QED BY <1>1, <2>1, <2>2, OwedKept, ReturningSame, ZenonT(30)
<1>4. CASE Delete(c, id)
  <2> DEFINE r == cmd_delete(eng, c, id)
  <2>1. (eng.jobs[id].state = "reserved" => eng.jobs[id].reserver = c) /\ Return(r)
    BY <1>4, ZenonT(30) DEF Delete
  <2>2. Sound(r, {}) /\ SameOwed(eng, r)
    BY <1>1, <2>1, DeleteSound, ZenonT(30)
  <2> HIDE DEF r
  <2> QED BY <1>1, <2>1, <2>2, ReturningSame, ZenonT(30)
<1>5. CASE Bury(c, id, pri)
  <2> DEFINE r == cmd_bury(eng, c, id, pri)
  <2>1. eng.jobs[id].state = "reserved" /\ c = eng.jobs[id].reserver /\ Return(r)
    BY <1>5, ZenonT(30) DEF Bury, Holds
  <2>2. 0 \in Nat
    BY ZenonT(30)
  <2>3. Sound(r, {}) /\ KeepsRest(eng, r)
    BY <1>1, <2>1, <2>2, ReleaseSound, ZenonT(30)
  <2> HIDE DEF r
  <2> QED BY <1>1, <2>1, <2>3, OwedKept, ReturningSame, Zenon
<1> QED BY <1>2, <1>3, <1>4, <1>5, ZenonT(30)
=============================================================================
