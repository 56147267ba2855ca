----------------------------- MODULE StateProofs ----------------------------
(***************************************************************************)
(* What the operators of EngineState do to one job, tube or connection     *)
(* record: the type of the result, the fields that change and the groups   *)
(* of fields that do not.                                                  *)
(*                                                                         *)
(* Then the helpers of EngineState that move a job from one place to       *)
(* another keep the engine record sound.                                   *)
(***************************************************************************)
EXTENDS ListProofs

\* BTreeSet::first of a set of pairs is its least element.
LEMMA FirstIsLeast ==
    ASSUME Laws, NEW S \in SUBSET (Nat \X Nat), S # {}
    PROVE  first(S) \in S /\ \A q \in S : ~PairLess(q, first(S))
<1> DEFINE A == {p[1] : p \in S}
<1>1. A \in SUBSET Nat /\ A # {}
  BY Zenon
<1>2. PICK a \in A : \A b \in A : a <= b
  BY <1>1, NatMin, Zenon
<1> DEFINE B == {p[2] : p \in {q \in S : q[1] = a}}
<1>3. B \in SUBSET Nat /\ B # {}
  BY Zenon
<1>4. PICK k \in B : \A l \in B : k <= l
  BY <1>3, NatMin, Zenon
<1>5. PICK p \in S : p[1] = a /\ p[2] = k
  BY Zenon
<1>6. \A q \in S : ~PairLess(q, p)
  <2> TAKE q \in S
  <2>1. a \in Nat /\ k \in Nat /\ q[1] \in Nat /\ q[2] \in Nat
    BY <1>1, <1>3, Zenon
  <2>2. a <= q[1]
    BY <1>2, Zenon
  <2>3. q[1] = a => k <= q[2]
    BY <1>4, Zenon
  <2> HIDE DEF A, B
  <2> QED
    BY <1>5, <2>1, <2>2, <2>3 DEF PairLess
<1> QED
  BY <1>6, Zenon DEF first

\* A job that is put into a tube keeps its tube, priority and time to run.
LEMMA Queued ==
    ASSUME NEW j \in JobType, NEW state \in States, NEW deadline \in Nat
    PROVE  LET r == queued(j, state, deadline)
           IN  /\ r \in JobType
               /\ r.tube = j.tube /\ r.pri = j.pri /\ r.ttr = j.ttr
               /\ r.state = state /\ r.reserver = None /\ r.deadline_at = deadline
  BY Zenon DEF JobType, queued

\* So does a job that a connection reserves.
LEMMA Held ==
    ASSUME NEW j \in JobType, NEW c \in ConnIds, NEW deadline \in Nat
    PROVE  LET r == held(j, c, deadline)
           IN  /\ r \in JobType
               /\ r.tube = j.tube /\ r.pri = j.pri /\ r.ttr = j.ttr
               /\ r.state = "reserved" /\ r.reserver = c /\ r.deadline_at = deadline
  BY Zenon DEF JobType, held, States

\* refresh_dispatchable makes the index entry exact and changes nothing else.
LEMMA RefreshDispatchable ==
    ASSUME NEW ts \in TubeType
    PROVE  LET r == refresh_dispatchable(ts)
           IN  /\ r \in TubeType /\ (DelayHeadExact(ts) => Indexed(r))
               /\ SameJobSets(r, ts) /\ SameRefs(r, ts)
               /\ r.waiting_conns = ts.waiting_conns
<1> DEFINE b == ts.waiting_conns.items # <<>> /\ ts.ready # {}
           r == [ts EXCEPT !.dispatchable = b]
<1>1. refresh_dispatchable(ts) = r /\ b \in BOOLEAN
  BY Zenon DEF refresh_dispatchable
<1>2. r \in TubeType /\ SameJobSets(r, ts) /\ SameRefs(r, ts)
      /\ r.waiting_conns = ts.waiting_conns /\ r.delay_head = ts.delay_head
  BY <1>1, Zenon DEF TubeType, SameJobSets, SameRefs
<1>3. r.dispatchable = b
  BY Zenon DEF TubeType
<1> HIDE DEF r
<1>4. DispatchableExact(r)
  BY <1>2, <1>3, Zenon DEF DispatchableExact, SameJobSets
<1>5. DelayHeadExact(ts) => DelayHeadExact(r)
  BY <1>2, Zenon DEF DelayHeadExact, SameJobSets
<1> QED BY <1>1, <1>2, <1>4, <1>5, Zenon DEF Indexed

\* refresh_delay_head makes the cached head exact and changes nothing else.
LEMMA RefreshDelayHead ==
    ASSUME Laws, NEW ts \in TubeType
    PROVE  LET r == refresh_delay_head(ts)
           IN  /\ r \in TubeType /\ (DispatchableExact(ts) => Indexed(r))
               /\ SameJobSets(r, ts) /\ SameRefs(r, ts)
               /\ r.waiting_conns = ts.waiting_conns
<1> DEFINE h == IF ts.delayed = {} THEN None ELSE first(ts.delayed)[1]
<1>1. h \in OptionalNat
  <2>1. ts.delayed \in SUBSET (Nat \X Nat)
    BY Zenon DEF TubeType
  <2>2. CASE ts.delayed = {}
    BY <2>2, Zenon DEF OptionalNat
  <2>3. CASE ts.delayed # {}
    <3>1. first(ts.delayed) \in Nat \X Nat
      BY <2>1, <2>3, FirstIsLeast, Zenon
    <3> QED
      BY <2>3, <3>1, Zenon DEF OptionalNat
  <2> QED
    BY <2>2, <2>3, Zenon
<1>2. refresh_delay_head(ts) = [ts EXCEPT !.delay_head = h]
  BY Zenon DEF refresh_delay_head
<1> HIDE DEF h
<1>3. LET r == refresh_delay_head(ts)
      IN  /\ r \in TubeType /\ SameJobSets(r, ts) /\ SameRefs(r, ts)
          /\ r.waiting_conns = ts.waiting_conns /\ r.delay_head = h
          /\ (DispatchableExact(ts) => DispatchableExact(r))
  BY <1>1, <1>2, ZenonT(60) DEF TubeType, SameJobSets, SameRefs, DispatchableExact
<1> QED
  BY <1>3, Zenon DEF Indexed, DelayHeadExact, SameJobSets, h

\* The urgent gauges move by 0 or 1.
LEMMA Urgent ==
    ASSUME NEW pri
    PROVE  urgent(pri) \in Nat
  BY Zenon DEF urgent

\* A job is added to the ready set of a tube (insert_ready).
LEMMA AddReady ==
    ASSUME NEW ts \in TubeType, Indexed(ts), NEW pri \in Nat, NEW id \in Nat
    PROVE  LET r == add_ready(ts, pri, id)
           IN  /\ r \in TubeType /\ Indexed(r) /\ SameRefs(r, ts)
               /\ r.ready = ts.ready \cup {<<pri, id>>}
               /\ r.delayed = ts.delayed /\ r.buried = ts.buried
               /\ r.waiting_conns = ts.waiting_conns
<1> DEFINE R == ts.ready \cup {<<pri, id>>}
           u == ts.urgent_ct + urgent(pri)
           m == [ts EXCEPT !.ready = R, !.urgent_ct = u]
<1>1. R \in SUBSET (Nat \X Nat) /\ u \in Nat
  <2>1. ts.ready \in SUBSET (Nat \X Nat) /\ ts.urgent_ct \in Nat
    BY ONLY ts \in TubeType, Zenon DEF TubeType
  <2> QED BY <2>1, Urgent
<1>2. add_ready(ts, pri, id) = refresh_dispatchable(m)
  BY Zenon DEF add_ready
<1> HIDE DEF R, u
<1>3. m \in TubeType
  BY <1>1, Zenon DEF TubeType
<1>4. /\ m.ready = R /\ m.delayed = ts.delayed /\ m.buried = ts.buried
      /\ m.waiting_conns = ts.waiting_conns /\ SameRefs(m, ts) /\ DelayHeadExact(m)
  BY Zenon DEF TubeType, SameRefs, Indexed, DelayHeadExact
<1> HIDE DEF m
<1> QED
  BY <1>2, <1>3, <1>4, RefreshDispatchable, ZenonT(30) DEF R, SameJobSets, SameRefs

\* A job is taken from the ready set of a tube (remove_ready).
LEMMA DropReady ==
    ASSUME NEW ts \in TubeType, Indexed(ts), NEW pri \in Nat, NEW id \in Nat
    PROVE  LET r == drop_ready(ts, pri, id)
           IN  /\ r \in TubeType /\ Indexed(r) /\ SameRefs(r, ts)
               /\ r.ready = ts.ready \ {<<pri, id>>}
               /\ r.delayed = ts.delayed /\ r.buried = ts.buried
               /\ r.waiting_conns = ts.waiting_conns
<1> DEFINE R == ts.ready \ {<<pri, id>>}
           u == saturating_sub(ts.urgent_ct, urgent(pri))
           m == [ts EXCEPT !.ready = R, !.urgent_ct = u]
<1>1. R \in SUBSET (Nat \X Nat)
  BY Zenon DEF TubeType
<1>2. u \in Nat
  <2>1. ts.urgent_ct \in Nat
    BY Zenon DEF TubeType
  <2> QED
    BY <2>1, Urgent, SaturatingSub, Zenon
<1>3. drop_ready(ts, pri, id) = refresh_dispatchable(m)
  BY Zenon DEF drop_ready
<1> HIDE DEF R, u
<1>4. m \in TubeType
  BY <1>1, <1>2, Zenon DEF TubeType
<1>5. /\ m.ready = R /\ m.delayed = ts.delayed /\ m.buried = ts.buried
      /\ m.waiting_conns = ts.waiting_conns /\ SameRefs(m, ts) /\ DelayHeadExact(m)
  BY Zenon DEF TubeType, SameRefs, Indexed, DelayHeadExact
<1> HIDE DEF m
<1> QED
  BY <1>3, <1>4, <1>5, RefreshDispatchable, ZenonT(30) DEF R, SameJobSets, SameRefs

\* A job is added to the delayed set of a tube (insert_delayed).
LEMMA AddDelayed ==
    ASSUME Laws, NEW ts \in TubeType, Indexed(ts), NEW deadline \in Nat, NEW id \in Nat
    PROVE  LET r == add_delayed(ts, deadline, id)
           IN  /\ r \in TubeType /\ Indexed(r) /\ SameRefs(r, ts)
               /\ r.delayed = ts.delayed \cup {<<deadline, id>>}
               /\ r.ready = ts.ready /\ r.buried = ts.buried
               /\ r.waiting_conns = ts.waiting_conns
<1> DEFINE D == ts.delayed \cup {<<deadline, id>>}
           m == [ts EXCEPT !.delayed = D]
<1>1. D \in SUBSET (Nat \X Nat)
  BY SMTT(30) DEF TubeType
<1>2. add_delayed(ts, deadline, id) = refresh_delay_head(m)
  BY Zenon DEF add_delayed
<1> HIDE DEF D
<1>3. m \in TubeType
  BY <1>1, Zenon DEF TubeType
<1>4. /\ m.delayed = D /\ m.ready = ts.ready /\ m.buried = ts.buried
      /\ m.waiting_conns = ts.waiting_conns /\ SameRefs(m, ts) /\ DispatchableExact(m)
  BY Zenon DEF TubeType, SameRefs, Indexed, DispatchableExact
<1> HIDE DEF m
<1> QED
  BY <1>2, <1>3, <1>4, RefreshDelayHead, ZenonT(30) DEF D, SameJobSets, SameRefs

\* A job is taken from the delayed set of a tube (remove_delayed).
LEMMA DropDelayed ==
    ASSUME Laws, NEW ts \in TubeType, Indexed(ts), NEW deadline \in Nat, NEW id \in Nat
    PROVE  LET r == drop_delayed(ts, deadline, id)
           IN  /\ r \in TubeType /\ Indexed(r) /\ SameRefs(r, ts)
               /\ r.delayed = ts.delayed \ {<<deadline, id>>}
               /\ r.ready = ts.ready /\ r.buried = ts.buried
               /\ r.waiting_conns = ts.waiting_conns
<1> DEFINE D == ts.delayed \ {<<deadline, id>>}
           m == [ts EXCEPT !.delayed = D]
<1>1. D \in SUBSET (Nat \X Nat)
  BY Zenon DEF TubeType
<1>2. drop_delayed(ts, deadline, id) = refresh_delay_head(m)
  BY Zenon DEF drop_delayed
<1> HIDE DEF D
<1>3. m \in TubeType
  BY <1>1, Zenon DEF TubeType
<1>4. /\ m.delayed = D /\ m.ready = ts.ready /\ m.buried = ts.buried
      /\ m.waiting_conns = ts.waiting_conns /\ SameRefs(m, ts) /\ DispatchableExact(m)
  BY Zenon DEF TubeType, SameRefs, Indexed, DispatchableExact
<1> HIDE DEF m
<1> QED
  BY <1>2, <1>3, <1>4, RefreshDelayHead DEF D, SameJobSets, SameRefs

\* A job is added to the buried list of a tube (insert_buried).
LEMMA AddBuried ==
    ASSUME NEW ts \in TubeType, Indexed(ts), NEW id \in Nat
    PROVE  LET r == add_buried(ts, id)
           IN  /\ r \in TubeType /\ Indexed(r) /\ SameRefs(r, ts)
               /\ r.buried = Append(ts.buried, id)
               /\ r.ready = ts.ready /\ r.delayed = ts.delayed
               /\ r.waiting_conns = ts.waiting_conns
<1> DEFINE B == Append(ts.buried, id)
           n == ts.buried_ct + 1
<1>1. B \in Seq(Nat) /\ n \in Nat
  BY DEF TubeType
<1>2. add_buried(ts, id) = [ts EXCEPT !.buried = B, !.buried_ct = n]
  BY Zenon DEF add_buried
<1> HIDE DEF B, n
<1>3. add_buried(ts, id) \in TubeType
  BY <1>1, <1>2, Zenon DEF TubeType
<1> QED
  BY <1>2, <1>3, Zenon DEF TubeType, B, SameRefs, Indexed, DispatchableExact, DelayHeadExact

\* A job is taken from the buried list of a tube (remove_buried).
LEMMA DropBuried ==
    ASSUME NEW ts \in TubeType, Indexed(ts), IsInjective(ts.buried), NEW id \in Nat
    PROVE  LET r == drop_buried(ts, id)
           IN  /\ r \in TubeType /\ Indexed(r) /\ SameRefs(r, ts)
               /\ r.buried = list_remove(ts.buried, id)
               /\ r.ready = ts.ready /\ r.delayed = ts.delayed
               /\ r.waiting_conns = ts.waiting_conns
<1> DEFINE B == list_remove(ts.buried, id)
           n == saturating_sub(ts.buried_ct, 1)
<1>1. ts.buried \in Seq(Nat) /\ ts.buried_ct \in Nat
  BY Zenon DEF TubeType
<1>2. B \in Seq(Nat) /\ n \in Nat
  BY <1>1, ListRemove, SaturatingSub, Zenon
<1>3. drop_buried(ts, id) = [ts EXCEPT !.buried = B, !.buried_ct = n]
  BY Zenon DEF drop_buried
<1> HIDE DEF B, n
<1>4. drop_buried(ts, id) \in TubeType
  BY <1>2, <1>3, ZenonT(60) DEF TubeType
<1> QED
  BY <1>3, <1>4, Zenon DEF TubeType, B, SameRefs, Indexed, DispatchableExact, DelayHeadExact

\* A tube's count of reserved jobs is no part of its indexes.
LEMMA CountReserved ==
    ASSUME NEW ts \in TubeType, Indexed(ts), NEW n \in Nat
    PROVE  LET r == count_reserved(ts, n)
           IN  /\ r \in TubeType /\ Indexed(r) /\ SameRefs(r, ts)
               /\ SameJobSets(r, ts) /\ r.waiting_conns = ts.waiting_conns
  BY Zenon DEF count_reserved, TubeType, SameRefs, SameJobSets, Indexed, DispatchableExact, DelayHeadExact

\* A connection is registered with a tube it waits for.
LEMMA AddWaiter ==
    ASSUME NEW ts \in TubeType, Indexed(ts), NEW c \in ConnIds
    PROVE  LET r == add_waiter(ts, c)
           IN  /\ r \in TubeType /\ Indexed(r) /\ SameRefs(r, ts) /\ SameJobSets(r, ts)
               /\ r.waiting_conns.items = Append(ts.waiting_conns.items, c)
<1> DEFINE q == ts.waiting_conns
           w == ms_append(q, c)
           n == ts.waiting_ct + 1
           m == [ts EXCEPT !.waiting_conns = w, !.waiting_ct = n]
<1>1. q \in MsType /\ n \in Nat
  BY DEF TubeType
<1>2. w \in MsType /\ w.items = Append(q.items, c)
  <2> HIDE DEF q
  <2>1. Append(q.items, c) \in Seq(ConnIds)
    BY <1>1 DEF MsType
  <2> QED
    BY <1>1, <2>1, Zenon DEF MsType, ms_append
<1>3. add_waiter(ts, c) = refresh_dispatchable(m)
  BY Zenon DEF add_waiter
<1> HIDE DEF w, n
<1>4. m \in TubeType
  BY <1>1, <1>2, Zenon DEF TubeType
<1>5. m.waiting_conns = w /\ SameRefs(m, ts) /\ SameJobSets(m, ts) /\ DelayHeadExact(m)
  BY Zenon DEF TubeType, SameRefs, SameJobSets, Indexed, DelayHeadExact
<1> HIDE DEF m
<1> QED
  BY <1>2, <1>3, <1>4, <1>5, RefreshDispatchable, SMTT(30) DEF SameJobSets, SameRefs

\* A registration is withdrawn, wherever it is in the list.
LEMMA DropWaiter ==
    ASSUME NEW ts \in TubeType, Indexed(ts), NEW c, IsInjective(ts.waiting_conns.items)
    PROVE  LET r == drop_waiter(ts, c)
           IN  /\ r \in TubeType /\ Indexed(r) /\ SameRefs(r, ts) /\ SameJobSets(r, ts)
               /\ Range(r.waiting_conns.items) = Range(ts.waiting_conns.items) \ {c}
               /\ IsInjective(r.waiting_conns.items)
<1> DEFINE q == ts.waiting_conns
           w == ms_remove(q, c)
           n == saturating_sub(ts.waiting_ct, 1)
           m == [ts EXCEPT !.waiting_conns = w, !.waiting_ct = n]
<1>1. q \in MsType /\ ts.waiting_ct \in Nat
  BY Zenon DEF TubeType
<1>2. n \in Nat
  BY <1>1, SaturatingSub, Zenon
<1>3. w \in MsType /\ Range(w.items) = Range(q.items) \ {c} /\ IsInjective(w.items)
  <2> DEFINE L == list_swap_remove(q.items, c)
  <2>1. L \in Seq(ConnIds) /\ Range(L) = Range(q.items) \ {c} /\ IsInjective(L)
    <3>1. q.items \in Seq(ConnIds)
      BY <1>1, Zenon DEF MsType
    <3> QED
      BY <3>1, ListSwapRemove, Zenon
  <2>2. w = [q EXCEPT !.items = L]
    BY Zenon DEF ms_remove
  <2> HIDE DEF L, q, w
  <2>3. w \in MsType /\ w.items = L
    BY <1>1, <2>1, <2>2, Zenon DEF MsType
  <2> QED
    BY <2>1, <2>3, Zenon
<1>4. drop_waiter(ts, c) = refresh_dispatchable(m)
  BY Zenon DEF drop_waiter
<1> HIDE DEF w, n
<1>5. m \in TubeType
  BY <1>2, <1>3, Zenon DEF TubeType
<1>6. m.waiting_conns = w /\ SameRefs(m, ts) /\ SameJobSets(m, ts) /\ DelayHeadExact(m)
  BY Zenon DEF TubeType, SameRefs, SameJobSets, Indexed, DelayHeadExact
<1> HIDE DEF m
<1> QED
  BY <1>3, <1>4, <1>5, <1>6, RefreshDispatchable, ZenonT(30) DEF SameJobSets, SameRefs

\* Ms::take returns one of the items and removes it.
LEMMA TakeWaiter ==
    ASSUME NEW ts \in TubeType, Indexed(ts), IsInjective(ts.waiting_conns.items),
           ts.waiting_conns.items # <<>>
    PROVE  LET r == take_waiter(ts)
               c == ms_taken(ts.waiting_conns)
           IN  /\ r \in TubeType /\ Indexed(r) /\ SameRefs(r, ts) /\ SameJobSets(r, ts)
               /\ c \in Range(ts.waiting_conns.items)
               /\ Range(r.waiting_conns.items) = Range(ts.waiting_conns.items) \ {c}
               /\ IsInjective(r.waiting_conns.items)
<1> DEFINE q == ts.waiting_conns
           w == ms_take(q)
           i == ms_cursor(q) + 1
           m == [ts EXCEPT !.waiting_conns = w]
<1>1. q \in MsType /\ q.items \in Seq(ConnIds) /\ q.last \in Nat
  BY Zenon DEF TubeType, MsType
<1>2. i \in 1..Len(q.items) /\ i \in Nat
  <2> HIDE DEF q
  <2>1. Len(q.items) \in Nat \ {0}
    BY <1>1 DEF q
  <2>2. q.last % Len(q.items) \in 0..(Len(q.items) - 1)
    BY <1>1, <2>1
  <2> QED
    BY <2>1, <2>2 DEF ms_cursor
<1>3. ms_taken(q) = q.items[i] /\ q.items[i] \in Range(q.items)
  <2> HIDE DEF q, i
  <2>1. DOMAIN q.items = 1..Len(q.items)
    BY <1>1
  <2> QED
    BY <1>2, <2>1, Zenon DEF ms_taken, Range, i
<1>4. w \in MsType /\ Range(w.items) = Range(q.items) \ {q.items[i]} /\ IsInjective(w.items)
  <2> DEFINE L == swap_remove(q.items, i)
  <2>1. L \in Seq(ConnIds) /\ Range(L) = Range(q.items) \ {q.items[i]} /\ IsInjective(L)
    <3> HIDE DEF i
    <3> QED
      BY <1>1, <1>2, SwapRemove, Zenon
  <2>2. w = [items |-> L, last |-> i]
    BY Zenon DEF ms_take
  <2> HIDE DEF L, q, w, i
  <2>3. w \in MsType /\ w.items = L
    BY <1>2, <2>1, <2>2, Zenon DEF MsType
  <2> QED
    BY <2>1, <2>3, Zenon
<1>5. take_waiter(ts) = refresh_dispatchable(m)
  BY Zenon DEF take_waiter
<1> HIDE DEF w, i
<1>6. m \in TubeType
  BY <1>4, Zenon DEF TubeType
<1>7. m.waiting_conns = w /\ SameRefs(m, ts) /\ SameJobSets(m, ts) /\ DelayHeadExact(m)
  BY Zenon DEF TubeType, SameRefs, SameJobSets, Indexed, DelayHeadExact
<1> HIDE DEF m
<1> QED
  BY <1>3, <1>4, <1>5, <1>6, <1>7, RefreshDispatchable, ZenonT(30) DEF SameJobSets, SameRefs

\* conn_tickat is a time, or None when nothing is due.
LEMMA ConnTickat ==
    ASSUME Laws, NEW cs \in ConnType
    PROVE  conn_tickat(cs) \in OptionalNat
<1> DEFINE margin == IF cs.waiting THEN SAFETY_MARGIN ELSE 0
           D1 == IF cs.reserved_by_deadline = {} THEN {}
                 ELSE {saturating_sub(soonest_reserved(cs)[1], margin)}
           D2 == IF cs.waiting /\ cs.wait_deadline # None THEN {cs.wait_deadline} ELSE {}
           due == D1 \cup D2
<1>1. margin \in Nat
  BY ConstantsAssumption, Zenon DEF SAFETY_MARGIN
<1>2. D1 \in SUBSET Nat
  <2>1. CASE cs.reserved_by_deadline # {}
    <3>1. cs.reserved_by_deadline \in SUBSET (Nat \X Nat)
      BY Zenon DEF ConnType
    <3>2. soonest_reserved(cs) \in Nat \X Nat
      BY <2>1, <3>1, FirstIsLeast, Zenon DEF soonest_reserved
    <3> HIDE DEF margin
    <3>3. saturating_sub(soonest_reserved(cs)[1], margin) \in Nat
      BY <1>1, <3>2, SaturatingSub, Zenon
    <3> QED
      BY <2>1, <3>3, Zenon
  <2> QED
    BY <2>1, Zenon
<1>3. D2 \in SUBSET Nat
  BY Zenon DEF ConnType, OptionalNat
<1>4. conn_tickat(cs) = IF due = {} THEN None ELSE CHOOSE d \in due : \A e \in due : d <= e
  BY Zenon DEF conn_tickat
<1>5. due \in SUBSET Nat
  BY <1>2, <1>3, Zenon
<1> HIDE DEF due
<1>6. CASE due # {}
  BY <1>4, <1>5, <1>6, NatMin, Zenon DEF OptionalNat
<1> QED
  BY <1>4, <1>6, Zenon DEF OptionalNat

\* refresh_conn_tick changes a connection's timer entry only.
LEMMA RefreshConnTick ==
    ASSUME Laws, NEW cs \in ConnType
    PROVE  LET r == refresh_conn_tick(cs)
           IN  /\ r \in ConnType /\ SameRole(r, cs) /\ SameHeld(r, cs)
               /\ r.waiting = cs.waiting /\ r.wait_deadline = cs.wait_deadline
<1>1. conn_tickat(cs) \in OptionalNat
  BY ConnTickat, Zenon
<1>2. refresh_conn_tick(cs) = [cs EXCEPT !.tick_key = conn_tickat(cs)]
  BY Zenon DEF refresh_conn_tick
<1> QED
  BY <1>1, <1>2, Zenon DEF ConnType, SameRole, SameHeld

\* A reservation is added to its holder and to its deadlines.
LEMMA Hold ==
    ASSUME Laws, NEW cs \in ConnType, NEW deadline \in Nat, NEW id \in Nat
    PROVE  LET r == hold(cs, deadline, id)
           IN  /\ r \in ConnType /\ SameRole(r, cs)
               /\ r.reserved = Append(cs.reserved, id)
               /\ r.reserved_by_deadline = cs.reserved_by_deadline \cup {<<deadline, id>>}
               /\ r.waiting = cs.waiting /\ r.wait_deadline = cs.wait_deadline
<1> DEFINE q == Append(cs.reserved, id)
           D == cs.reserved_by_deadline \cup {<<deadline, id>>}
           m == [cs EXCEPT !.reserved = q, !.reserved_by_deadline = D]
<1>1. q \in Seq(Nat)
  BY DEF ConnType
<1>2. D \in SUBSET (Nat \X Nat)
  BY DEF ConnType
<1>3. hold(cs, deadline, id) = refresh_conn_tick(m)
  BY Zenon DEF hold
<1> HIDE DEF q, D
<1>4. m \in ConnType
  BY <1>1, <1>2, Zenon DEF ConnType
<1>5. /\ m.reserved = q /\ m.reserved_by_deadline = D /\ SameRole(m, cs)
      /\ m.waiting = cs.waiting /\ m.wait_deadline = cs.wait_deadline
  BY Zenon DEF ConnType, SameRole
<1> HIDE DEF m
<1> QED
  BY <1>3, <1>4, <1>5, RefreshConnTick DEF q, D, SameRole, SameHeld

\* A reservation is taken from its holder and from its deadlines.
LEMMA Unhold ==
    ASSUME Laws, NEW cs \in ConnType, IsInjective(cs.reserved), NEW deadline \in Nat, NEW id \in Nat
    PROVE  LET r == unhold(cs, deadline, id)
           IN  /\ r \in ConnType /\ SameRole(r, cs)
               /\ r.reserved = list_remove(cs.reserved, id)
               /\ r.reserved_by_deadline = cs.reserved_by_deadline \ {<<deadline, id>>}
               /\ r.waiting = cs.waiting /\ r.wait_deadline = cs.wait_deadline
<1> DEFINE q == list_remove(cs.reserved, id)
           D == cs.reserved_by_deadline \ {<<deadline, id>>}
           m == [cs EXCEPT !.reserved = q, !.reserved_by_deadline = D]
<1>1. cs.reserved \in Seq(Nat)
  BY Zenon DEF ConnType
<1>2. q \in Seq(Nat)
  BY <1>1, ListRemove, Zenon
<1>3. D \in SUBSET (Nat \X Nat)
  BY Zenon DEF ConnType
<1>4. unhold(cs, deadline, id) = refresh_conn_tick(m)
  BY Zenon DEF unhold
<1> HIDE DEF q, D
<1>5. m \in ConnType
  BY <1>2, <1>3, Zenon DEF ConnType
<1>6. /\ m.reserved = q /\ m.reserved_by_deadline = D /\ SameRole(m, cs)
      /\ m.waiting = cs.waiting /\ m.wait_deadline = cs.wait_deadline
  BY Zenon DEF ConnType, SameRole
<1> HIDE DEF m
<1> QED
  BY <1>4, <1>5, <1>6, RefreshConnTick DEF q, D, SameRole, SameHeld

\* A connection begins or ends to wait.
LEMMA SetWait ==
    ASSUME Laws, NEW cs \in ConnType, NEW waiting \in BOOLEAN, NEW wait_deadline \in OptionalNat
    PROVE  LET r == set_wait(cs, waiting, wait_deadline)
           IN  /\ r \in ConnType /\ SameRole(r, cs) /\ SameHeld(r, cs)
               /\ r.waiting = waiting /\ r.wait_deadline = wait_deadline
<1> DEFINE m == [cs EXCEPT !.waiting = waiting, !.wait_deadline = wait_deadline]
<1>1. set_wait(cs, waiting, wait_deadline) = refresh_conn_tick(m)
  BY Zenon DEF set_wait
<1>2. m \in ConnType
  BY Zenon DEF ConnType
<1>3. /\ SameRole(m, cs) /\ SameHeld(m, cs)
      /\ m.waiting = waiting /\ m.wait_deadline = wait_deadline
  BY Zenon DEF ConnType, SameRole, SameHeld
<1> HIDE DEF m
<1> QED
  BY <1>1, <1>2, <1>3, RefreshConnTick DEF SameRole, SameHeld

\* An update that leaves the containers and the jobs' records alone.
LEMMA LeftAlone ==
    ASSUME NEW s, NEW r, NEW hand, Filed(s, hand), r.jobs = s.jobs,
           TubesLive(r), ListsOnce(r),
           \A w, x : \A p \in Nat, k \in Nat :
               Contains(r, w, x, p, k) <=> Contains(s, w, x, p, k)
    PROVE  Filed(r, hand)
<1>1. Exact(r, hand)
  <2> SUFFICES ASSUME NEW w, NEW x, NEW p \in Nat, NEW k \in Nat
               PROVE  Contains(r, w, x, p, k) <=> Belongs(r, hand, w, x, p, k)
    BY Zenon DEF Exact
  <2>1. Contains(s, w, x, p, k) <=> Belongs(s, hand, w, x, p, k)
    BY Zenon DEF Filed, Exact
  <2>2. Belongs(s, hand, w, x, p, k) <=> Belongs(r, hand, w, x, p, k)
    BY Zenon DEF Belongs
  <2> QED BY <2>1, <2>2, Zenon
<1>2. Unheld(r, hand)
  BY Zenon DEF Filed, Unheld
<1> QED BY <1>1, <1>2, Zenon DEF Filed

\* Filed is Placed, the invariant of the engine, container by container.
LEMMA FiledIsPlaced ==
    ASSUME NEW s, NEW hand, EngineType(s), Filed(s, hand)
    PROVE  Placed(s, hand)
<1>1. ASSUME NEW k \in DOMAIN s.jobs \ hand PROVE InPlace(s, k)
  <2>1. /\ k \in Nat /\ s.jobs[k].pri \in Nat /\ s.jobs[k].deadline_at \in Nat
        /\ s.jobs[k].tube \in DOMAIN s.tubes
    BY Zenon DEF EngineType, JobType, Filed, TubesLive
  <2>2. ASSUME NEW w, NEW x, NEW p \in Nat, Place(s.jobs[k], w, x, p)
        PROVE  Contains(s, w, x, p, k)
    BY <2>1, <2>2, Zenon DEF Filed, Exact, Belongs
  <2>3. s.jobs[k].state = "ready" => <<s.jobs[k].pri, k>> \in s.tubes[s.jobs[k].tube].ready
    <3>1. s.jobs[k].state = "ready" => Place(s.jobs[k], "ready", s.jobs[k].tube, s.jobs[k].pri)
      BY Zenon DEF Place
    <3> QED BY <2>1, <2>2, <3>1, Zenon DEF Contains
  <2>4. s.jobs[k].state = "delayed" =>
            <<s.jobs[k].deadline_at, k>> \in s.tubes[s.jobs[k].tube].delayed
    <3>1. s.jobs[k].state = "delayed" =>
              Place(s.jobs[k], "delayed", s.jobs[k].tube, s.jobs[k].deadline_at)
      BY Zenon DEF Place
    <3> QED BY <2>1, <2>2, <3>1, Zenon DEF Contains
  <2>5. s.jobs[k].state = "buried" => k \in Range(s.tubes[s.jobs[k].tube].buried)
    <3>1. s.jobs[k].state = "buried" => Place(s.jobs[k], "buried", s.jobs[k].tube, 0)
      BY Zenon DEF Place
    <3> QED BY <2>1, <2>2, <3>1, Zenon DEF Contains
  <2>6. s.jobs[k].state = "reserved" =>
            /\ s.jobs[k].reserver \in DOMAIN s.conns
            /\ k \in Range(s.conns[s.jobs[k].reserver].reserved)
            /\ <<s.jobs[k].deadline_at, k>> \in s.conns[s.jobs[k].reserver].reserved_by_deadline
    <3>1. s.jobs[k].state = "reserved" =>
              /\ Place(s.jobs[k], "reserved", s.jobs[k].reserver, 0)
              /\ Place(s.jobs[k], "due", s.jobs[k].reserver, s.jobs[k].deadline_at)
      BY Zenon DEF Place
    <3> QED BY <2>1, <2>2, <3>1, Zenon DEF Contains
  <2>7. s.jobs[k].state # "reserved" => s.jobs[k].reserver = None
    BY Zenon DEF Filed, Unheld
  <2> QED BY <2>3, <2>4, <2>5, <2>6, <2>7, Zenon DEF InPlace
<1>2. ASSUME NEW t \in DOMAIN s.tubes PROVE TubeHolds(s, hand, t)
  <2>1. s.tubes[t].ready \in SUBSET (Nat \X Nat) /\ s.tubes[t].delayed \in SUBSET (Nat \X Nat)
        /\ s.tubes[t].buried \in Seq(Nat)
    BY Zenon DEF EngineType, TubeType
  <2>2. ASSUME NEW w, NEW x, NEW p \in Nat, NEW k \in Nat, Contains(s, w, x, p, k)
        PROVE  k \in DOMAIN s.jobs \ hand /\ Place(s.jobs[k], w, x, p)
    BY <2>2, Zenon DEF Filed, Exact, Belongs
  <2>3. ASSUME NEW e \in s.tubes[t].ready
        PROVE  /\ e[2] \in DOMAIN s.jobs \ hand /\ s.jobs[e[2]].tube = t
               /\ s.jobs[e[2]].state = "ready" /\ s.jobs[e[2]].pri = e[1]
    <3>1. e = <<e[1], e[2]>> /\ e[1] \in Nat /\ e[2] \in Nat
      BY <2>1
    <3>2. Contains(s, "ready", t, e[1], e[2])
      BY <3>1, Zenon DEF Contains
    <3> QED BY <2>2, <3>1, <3>2 DEF Place
  <2>4. ASSUME NEW e \in s.tubes[t].delayed
        PROVE  /\ e[2] \in DOMAIN s.jobs \ hand /\ s.jobs[e[2]].tube = t
               /\ s.jobs[e[2]].state = "delayed" /\ s.jobs[e[2]].deadline_at = e[1]
    <3>1. e = <<e[1], e[2]>> /\ e[1] \in Nat /\ e[2] \in Nat
      BY <2>1
    <3>2. Contains(s, "delayed", t, e[1], e[2])
      BY <3>1, Zenon DEF Contains
    <3> QED BY <2>2, <3>1, <3>2 DEF Place
  <2>5. ASSUME NEW k \in Range(s.tubes[t].buried)
        PROVE  /\ k \in DOMAIN s.jobs \ hand /\ s.jobs[k].tube = t
               /\ s.jobs[k].state = "buried"
    <3>1. k \in Nat
      BY <2>1 DEF Range
    <3>2. Contains(s, "buried", t, 0, k)
      BY <3>1, Zenon DEF Contains
    <3> QED BY <2>2, <3>1, <3>2, SMTT(30) DEF Place
  <2> QED BY <2>3, <2>4, <2>5, Zenon DEF TubeHolds, Filed, ListsOnce
<1>3. ASSUME NEW c \in DOMAIN s.conns PROVE ConnHolds(s, hand, c)
  <2>1. s.conns[c].reserved_by_deadline \in SUBSET (Nat \X Nat)
        /\ s.conns[c].reserved \in Seq(Nat)
    BY Zenon DEF EngineType, ConnType
  <2>2. ASSUME NEW w, NEW x, NEW p \in Nat, NEW k \in Nat, Contains(s, w, x, p, k)
        PROVE  k \in DOMAIN s.jobs \ hand /\ Place(s.jobs[k], w, x, p)
    BY <2>2, Zenon DEF Filed, Exact, Belongs
  <2>3. ASSUME NEW k \in Range(s.conns[c].reserved)
        PROVE  /\ k \in DOMAIN s.jobs \ hand
               /\ s.jobs[k].state = "reserved" /\ s.jobs[k].reserver = c
    <3>1. k \in Nat
      BY <2>1 DEF Range
    <3>2. Contains(s, "reserved", c, 0, k)
      BY <3>1, Zenon DEF Contains
    <3> QED BY <2>2, <3>1, <3>2 DEF Place
  <2>4. ASSUME NEW e \in s.conns[c].reserved_by_deadline
        PROVE  /\ e[2] \in DOMAIN s.jobs \ hand /\ s.jobs[e[2]].state = "reserved"
               /\ s.jobs[e[2]].reserver = c /\ s.jobs[e[2]].deadline_at = e[1]
    <3>1. e = <<e[1], e[2]>> /\ e[1] \in Nat /\ e[2] \in Nat
      BY <2>1
    <3>2. Contains(s, "due", c, e[1], e[2])
      BY <3>1, Zenon DEF Contains
    <3> QED BY <2>2, <3>1, <3>2, SMTT(30) DEF Place
  <2> QED BY <2>3, <2>4, Zenon DEF ConnHolds, Filed, ListsOnce
<1> QED BY <1>1, <1>2, <1>3, Zenon DEF Placed, Filed, TubesLive

\* What a move of a job leaves alone stays sound.
LEMMA RestKept ==
    ASSUME NEW s, NEW r, KeepsRest(s, r)
    PROVE  /\ WaitersSound(s) => WaitersSound(r)
           /\ RefsSound(s) => RefsSound(r)
           /\ IdsFresh(s) => IdsFresh(r)
<1>1. ASSUME WaitersSound(s) PROVE WaitersSound(r)
  <2>1. \A t, c : Waiter(s, t, c) => Waiter(r, t, c)
    BY Zenon DEF Waiter, KeepsRest, SameRole
  <2> QED BY <1>1, <2>1, Zenon DEF WaitersSound, KeepsRest
<1>2. ASSUME RefsSound(s) PROVE RefsSound(r)
  <2>1. \A t : Users(r, t) = Users(s, t)
    BY Zenon DEF KeepsRest, SameRole, Users
  <2>2. \A t : JobsOf(r, t) = JobsOf(s, t)
    BY Zenon DEF KeepsRest, JobsOf
  <2> QED BY <1>2, <2>1, <2>2, Zenon DEF RefsSound, KeepsRest, SameRefs, SameRole
<1>3. ASSUME IdsFresh(s) PROVE IdsFresh(r)
  <2>1. \A c \in DOMAIN s.conns : r.conns[c].pending_put = s.conns[c].pending_put
        /\ (HasPending(r.conns[c]) <=> HasPending(s.conns[c]))
    BY Zenon DEF KeepsRest, SameRole, HasPending
  <2> QED BY <1>3, <2>1, ZenonT(30) DEF IdsFresh, KeepsRest
<1> QED BY <1>1, <1>2, <1>3, Zenon

\* What is sound but for the places of the jobs stays so in a move.
LEMMA SoundMove ==
    ASSUME NEW s, NEW hand, NEW r, NEW hand2, Sound(s, hand), EngineType(r),
           Filed(r, hand2), KeepsRest(s, r)
    PROVE  Sound(r, hand2)
  BY RestKept, Zenon DEF Sound

\* What two moves in a row leave alone.
LEMMA KeepsTrans ==
    ASSUME NEW s, NEW r, NEW q, KeepsRest(s, r), KeepsRest(r, q)
    PROVE  KeepsRest(s, q)
  BY DEF KeepsRest, SameRefs, SameRole
-----------------------------------------------------------------------------
(* Jobs that move from one place to another.                               *)


\* Taking job id out of its places leaves every other job where it was.
LEMMA TakeOut ==
    ASSUME NEW s, NEW r, NEW id \in DOMAIN s.jobs, Filed(s, {}), OthersKept(s, r, id), ListsOnce(r),
           \A w, x : \A p \in Nat, k \in Nat :
               Contains(r, w, x, p, k) <=> Contains(s, w, x, p, k) /\ k # id
    PROVE  Filed(r, {id})
<1>1. Exact(r, {id})
  <2> SUFFICES ASSUME NEW w, NEW x, NEW p \in Nat, NEW k \in Nat
               PROVE  Contains(r, w, x, p, k) <=> Belongs(r, {id}, w, x, p, k)
    BY Zenon DEF Exact
  <2>1. Contains(s, w, x, p, k) <=> Belongs(s, {}, w, x, p, k)
    BY Zenon DEF Filed, Exact
  <2>2. k # id => (Belongs(s, {}, w, x, p, k) <=> Belongs(r, {id}, w, x, p, k))
    BY Zenon DEF Belongs, OthersKept
  <2>3. k = id => ~Belongs(r, {id}, w, x, p, k)
    BY Zenon DEF Belongs
  <2> QED BY <2>1, <2>2, <2>3, Zenon
<1>2. TubesLive(r)
  BY Zenon DEF Filed, TubesLive, OthersKept
<1>3. Unheld(r, {id})
  BY Zenon DEF Filed, Unheld, OthersKept
<1> QED BY <1>1, <1>2, <1>3, Zenon DEF Filed

\* Filing job id, which is nowhere, where its new record says.
LEMMA PutIn ==
    ASSUME NEW s, NEW r, NEW id \in DOMAIN s.jobs, Filed(s, {id}), OthersKept(s, r, id), ListsOnce(r),
           r.jobs[id].state # "reserved" => r.jobs[id].reserver = None,
           \A w, x : \A p \in Nat, k \in Nat :
               Contains(r, w, x, p, k) <=>
                   Contains(s, w, x, p, k) \/ (k = id /\ Place(r.jobs[id], w, x, p))
    PROVE  Filed(r, {})
<1>1. Exact(r, {})
  <2> SUFFICES ASSUME NEW w, NEW x, NEW p \in Nat, NEW k \in Nat
               PROVE  Contains(r, w, x, p, k) <=> Belongs(r, {}, w, x, p, k)
    BY Zenon DEF Exact
  <2>1. Contains(s, w, x, p, k) <=> Belongs(s, {id}, w, x, p, k)
    BY Zenon DEF Filed, Exact
  <2>2. k # id => (Belongs(s, {id}, w, x, p, k) <=> Belongs(r, {}, w, x, p, k))
    BY Zenon DEF Belongs, OthersKept
  <2>3. k = id => (Belongs(r, {}, w, x, p, k) <=> Place(r.jobs[id], w, x, p)) /\ ~Belongs(s, {id}, w, x, p, k)
    BY Zenon DEF Belongs, OthersKept
  <2> QED BY <2>1, <2>2, <2>3, Zenon
<1>2. TubesLive(r)
  BY Zenon DEF Filed, TubesLive, OthersKept
<1>3. Unheld(r, {})
  BY Zenon DEF Filed, Unheld, OthersKept
<1> QED BY <1>1, <1>2, <1>3, Zenon DEF Filed

\* One tube record becomes T and one job record J.
TubeMoved(s, r, id, t, J, T) ==
    /\ id \in DOMAIN s.jobs /\ t \in DOMAIN s.tubes
    /\ r.jobs = [s.jobs EXCEPT ![id] = J]
    /\ r.tubes = [s.tubes EXCEPT ![t] = T]
    /\ r.conns = s.conns
    /\ r.next_job_id = s.next_job_id /\ r.tube_order = s.tube_order
    /\ J.tube = s.jobs[id].tube
    /\ SameRefs(T, s.tubes[t]) /\ Indexed(T)
    /\ T.waiting_conns = s.tubes[t].waiting_conns

\* A job moves within its tube: what stays as it was.
LEMMA TubeMove ==
    ASSUME NEW s, NEW r, NEW id, NEW t, NEW J, NEW T, TubeMoved(s, r, id, t, J, T)
    PROVE  /\ KeepsRest(s, r)
           /\ OthersKept(s, r, id)
           /\ IsInjective(T.buried) /\ ListsOnce(s) => ListsOnce(r)
           /\ r.jobs[id] = J /\ r.tubes[t] = T
           /\ \A u \in DOMAIN s.tubes : u # t => r.tubes[u] = s.tubes[u]
           /\ DOMAIN r.tubes = DOMAIN s.tubes /\ r.conns = s.conns
           /\ id \in DOMAIN s.jobs /\ t \in DOMAIN s.tubes /\ J.tube = s.jobs[id].tube
<1> USE DEF TubeMoved
<1>1. r.jobs[id] = J /\ DOMAIN r.jobs = DOMAIN s.jobs /\ r.tubes[t] = T /\ DOMAIN r.tubes = DOMAIN s.tubes
      /\ (\A k \in DOMAIN s.jobs : k # id => r.jobs[k] = s.jobs[k])
      /\ (\A u \in DOMAIN s.tubes : u # t => r.tubes[u] = s.tubes[u])
  BY Zenon
<1>2. \A u \in DOMAIN s.tubes :
          /\ SameRefs(r.tubes[u], s.tubes[u])
          /\ r.tubes[u].waiting_conns = s.tubes[u].waiting_conns
          /\ Indexed(s.tubes[u]) => Indexed(r.tubes[u])
  <2>1. \A u \in DOMAIN s.tubes : SameRefs(s.tubes[u], s.tubes[u])
    BY Zenon DEF SameRefs
  <2> QED BY <1>1, <2>1, Zenon
<1>3. \A c \in DOMAIN s.conns : SameRole(r.conns[c], s.conns[c]) /\ r.conns[c].waiting = s.conns[c].waiting
  BY Zenon DEF SameRole
<1>4. ASSUME NEW k \in DOMAIN s.jobs PROVE r.jobs[k].tube = s.jobs[k].tube
  <2>1. CASE k = id
    BY <1>1, <2>1, Zenon
  <2>2. CASE k # id
    BY <1>1, <2>2, Zenon
  <2> QED BY <2>1, <2>2, Zenon
<1>5. KeepsRest(s, r)
  BY <1>1, <1>2, <1>3, <1>4, Zenon DEF KeepsRest
<1>6. OthersKept(s, r, id)
  BY <1>1, Zenon DEF OthersKept
<1>7. IsInjective(T.buried) /\ ListsOnce(s) => ListsOnce(r)
  BY <1>1, Zenon DEF ListsOnce
<1> QED BY <1>1, <1>5, <1>6, <1>7, Zenon

\* The job sets of T are those of ts and, in the set its state names, job id.
Gains(T, ts, J, id) ==
    /\ \A p, k \in Nat : <<p, k>> \in T.ready <=>
           <<p, k>> \in ts.ready \/ (k = id /\ J.state = "ready" /\ p = J.pri)
    /\ \A p, k \in Nat : <<p, k>> \in T.delayed <=>
           <<p, k>> \in ts.delayed \/ (k = id /\ J.state = "delayed" /\ p = J.deadline_at)
    /\ \A k \in Nat : k \in Range(T.buried) <=>
           k \in Range(ts.buried) \/ (k = id /\ J.state = "buried")
    /\ IsInjective(T.buried)

\* A tube takes in job id, which is in hand.
LEMMA TubeTakesIn ==
    ASSUME NEW s, NEW r, NEW id, NEW t, NEW J, NEW T,
           Filed(s, {id}), TubeMoved(s, r, id, t, J, T), Gains(T, s.tubes[t], J, id),
           t = s.jobs[id].tube, J.reserver = None, J.state # "reserved"
    PROVE  Filed(r, {}) /\ KeepsRest(s, r)
<1>1. /\ r.jobs[id] = J /\ r.tubes[t] = T 
      /\ \A u \in DOMAIN s.tubes : u # t => r.tubes[u] = s.tubes[u]
      /\ DOMAIN r.tubes = DOMAIN s.tubes /\ r.conns = s.conns
      /\ KeepsRest(s, r) /\ OthersKept(s, r, id) /\ id \in DOMAIN s.jobs /\ J.tube = t
      /\ t \in DOMAIN s.tubes
  BY ONLY TubeMoved(s, r, id, t, J, T), TubeMove, t = s.jobs[id].tube
<1>2. ListsOnce(r)
  <2>1. ListsOnce(s) /\ IsInjective(T.buried)
    BY Zenon DEF Filed, Gains
  <2> QED BY ONLY <2>1, TubeMoved(s, r, id, t, J, T), TubeMove, Zenon
<1>3. ASSUME NEW w, NEW x, NEW p \in Nat, NEW k \in Nat
      PROVE  Contains(r, w, x, p, k) <=> Contains(s, w, x, p, k) \/ (k = id /\ Place(J, w, x, p))
  <2>1. CASE x # t
    <3>1. ~Place(J, w, x, p)
      BY <1>1, <2>1, Zenon DEF Place
    <3> QED BY <1>1, <2>1, <3>1, ZenonT(30) DEF Contains
  <2>2. CASE x = t /\ w = "ready"
    BY <1>1, <2>2, Zenon DEF Contains, Place, Gains
  <2>3. CASE x = t /\ w = "delayed"
    BY <1>1, <2>3, Zenon DEF Contains, Place, Gains
  <2>4. CASE x = t /\ w = "buried"
    BY <1>1, <2>4, Zenon DEF Contains, Place, Gains
  <2>5. CASE w \notin {"ready", "delayed", "buried"}
    BY <1>1, <2>5, Zenon DEF Contains, Place
  <2> QED BY <2>1, <2>2, <2>3, <2>4, <2>5, Zenon
<1>4. Filed(r, {})
  BY <1>1, <1>2, <1>3, PutIn, ZenonT(60)
<1> QED BY <1>1, <1>4, Zenon

\* The job sets of T are those of ts without job id, filed under record J.
Loses(T, ts, J, id) ==
    /\ \A p, k \in Nat : <<p, k>> \in T.ready <=>
           <<p, k>> \in ts.ready /\ ~(k = id /\ J.state = "ready" /\ p = J.pri)
    /\ \A p, k \in Nat : <<p, k>> \in T.delayed <=>
           <<p, k>> \in ts.delayed /\ ~(k = id /\ J.state = "delayed" /\ p = J.deadline_at)
    /\ \A k \in Nat : k \in Range(T.buried) <=>
           k \in Range(ts.buried) /\ ~(k = id /\ J.state = "buried")
    /\ IsInjective(T.buried)

\* A tube gives out job id, which it holds.
LEMMA TubeGivesOut ==
    ASSUME NEW s, NEW r, NEW id, NEW t, NEW J, NEW T,
           Filed(s, {}), TubeMoved(s, r, id, t, J, T), Loses(T, s.tubes[t], J, id),
           J = s.jobs[id], t = J.tube, J.state # "reserved"
    PROVE  Filed(r, {id}) /\ KeepsRest(s, r)
<1>1. /\ r.tubes[t] = T
      /\ \A u \in DOMAIN s.tubes : u # t => r.tubes[u] = s.tubes[u]
      /\ DOMAIN r.tubes = DOMAIN s.tubes /\ r.conns = s.conns
      /\ KeepsRest(s, r) /\ OthersKept(s, r, id) /\ id \in DOMAIN s.jobs
      /\ t \in DOMAIN s.tubes
  BY ONLY TubeMoved(s, r, id, t, J, T), TubeMove, SMTT(30)
<1>2. ListsOnce(r)
  <2>1. ListsOnce(s) /\ IsInjective(T.buried)
    BY Zenon DEF Filed, Loses
  <2> QED BY ONLY <2>1, TubeMoved(s, r, id, t, J, T), TubeMove, Zenon
<1>3. ASSUME NEW w, NEW x, NEW p \in Nat, NEW k \in Nat
      PROVE  Contains(r, w, x, p, k) <=> Contains(s, w, x, p, k) /\ k # id
  <2>1. k = id /\ Contains(s, w, x, p, k) => x = t /\ Place(J, w, x, p)
    <3>1. k = id /\ Contains(s, w, x, p, k) => Place(J, w, x, p)
      BY Zenon DEF Filed, Exact, Belongs
    <3> QED BY <3>1, Zenon DEF Place
  <2>2. CASE x # t
    BY <1>1, <2>1, <2>2, Zenon DEF Contains
  <2>3. CASE x = t /\ w = "ready"
    BY <1>1, <2>1, <2>3, Zenon DEF Contains, Place, Loses
  <2>4. CASE x = t /\ w = "delayed"
    BY <1>1, <2>1, <2>4, Zenon DEF Contains, Place, Loses
  <2>5. CASE x = t /\ w = "buried"
    BY <1>1, <2>1, <2>5, Zenon DEF Contains, Place, Loses
  <2>6. CASE w \notin {"ready", "delayed", "buried"}
    <3>1. ~Place(J, w, x, p)
      BY <2>6, Zenon DEF Place
    <3> QED BY <1>1, <2>1, <2>6, <3>1, ZenonT(30) DEF Contains
  <2> QED BY <2>2, <2>3, <2>4, <2>5, <2>6, Zenon
<1>4. Filed(r, {id})
  BY <1>1, <1>2, <1>3, TakeOut, Zenon
<1> QED BY <1>1, <1>4, Zenon

\* The tubes keep their job sets, their waiters and their references.
TubesKept(s, r) ==
    /\ DOMAIN r.tubes = DOMAIN s.tubes
    /\ \A t \in DOMAIN s.tubes : /\ SameRefs(r.tubes[t], s.tubes[t])
                                 /\ SameJobSets(r.tubes[t], s.tubes[t])
                                 /\ r.tubes[t].waiting_conns = s.tubes[t].waiting_conns
                                 /\ Indexed(s.tubes[t]) => Indexed(r.tubes[t])

\* One connection record becomes C and one job record J.
ConnMoved(s, r, id, c, J, C) ==
    /\ id \in DOMAIN s.jobs /\ c \in DOMAIN s.conns
    /\ r.jobs = [s.jobs EXCEPT ![id] = J]
    /\ r.conns = [s.conns EXCEPT ![c] = C]
    /\ TubesKept(s, r)
    /\ r.next_job_id = s.next_job_id /\ r.tube_order = s.tube_order
    /\ J.tube = s.jobs[id].tube
    /\ SameRole(C, s.conns[c]) /\ C.waiting = s.conns[c].waiting

\* A job moves within the connection that holds it: what stays as it was.
LEMMA ConnMove ==
    ASSUME NEW s, NEW r, NEW id, NEW c, NEW J, NEW C, ConnMoved(s, r, id, c, J, C)
    PROVE  /\ KeepsRest(s, r)
           /\ OthersKept(s, r, id)
           /\ IsInjective(C.reserved) /\ ListsOnce(s) => ListsOnce(r)
           /\ r.jobs[id] = J /\ r.conns[c] = C
           /\ \A d \in DOMAIN s.conns : d # c => r.conns[d] = s.conns[d]
           /\ DOMAIN r.tubes = DOMAIN s.tubes /\ DOMAIN r.conns = DOMAIN s.conns
           /\ id \in DOMAIN s.jobs /\ c \in DOMAIN s.conns
           /\ \A t \in DOMAIN s.tubes : SameJobSets(r.tubes[t], s.tubes[t])
<1> USE DEF ConnMoved, TubesKept
<1>1. r.jobs[id] = J /\ DOMAIN r.jobs = DOMAIN s.jobs /\ r.conns[c] = C /\ DOMAIN r.conns = DOMAIN s.conns
      /\ (\A k \in DOMAIN s.jobs : k # id => r.jobs[k] = s.jobs[k])
      /\ (\A d \in DOMAIN s.conns : d # c => r.conns[d] = s.conns[d])
  BY Zenon
<1>2. \A d \in DOMAIN s.conns : SameRole(r.conns[d], s.conns[d]) /\ r.conns[d].waiting = s.conns[d].waiting
  <2>1. \A d \in DOMAIN s.conns : SameRole(s.conns[d], s.conns[d])
    BY Zenon DEF SameRole
  <2> QED BY <1>1, <2>1, Zenon
<1>3. ASSUME NEW k \in DOMAIN s.jobs PROVE r.jobs[k].tube = s.jobs[k].tube
  <2>1. CASE k = id
    BY <1>1, <2>1, Zenon
  <2>2. CASE k # id
    BY <1>1, <2>2, Zenon
  <2> QED BY <2>1, <2>2, Zenon
<1>4. KeepsRest(s, r)
  BY <1>1, <1>2, <1>3, ZenonT(30) DEF KeepsRest
<1>5. OthersKept(s, r, id)
  BY <1>1, Zenon DEF OthersKept
<1>6. IsInjective(C.reserved) /\ ListsOnce(s) => ListsOnce(r)
  BY <1>1, ZenonT(60) DEF ListsOnce, SameJobSets
<1> QED BY <1>1, <1>4, <1>5, <1>6, Zenon

\* C holds what cs holds and job id, filed under record J.
ConnGains(C, cs, J, id) ==
    /\ \A k \in Nat : k \in Range(C.reserved) <=> k \in Range(cs.reserved) \/ k = id
    /\ \A p, k \in Nat : <<p, k>> \in C.reserved_by_deadline <=>
           <<p, k>> \in cs.reserved_by_deadline \/ (k = id /\ p = J.deadline_at)
    /\ IsInjective(C.reserved)

\* C holds what cs holds without job id, filed under record J.
ConnLoses(C, cs, J, id) ==
    /\ \A k \in Nat : k \in Range(C.reserved) <=> k \in Range(cs.reserved) /\ k # id
    /\ \A p, k \in Nat : <<p, k>> \in C.reserved_by_deadline <=>
           <<p, k>> \in cs.reserved_by_deadline /\ ~(k = id /\ p = J.deadline_at)
    /\ IsInjective(C.reserved)

\* Connection c takes job id, which is in hand.
LEMMA ConnTakesIn ==
    ASSUME NEW s, NEW r, NEW id, NEW c, NEW J, NEW C,
           Filed(s, {id}), ConnMoved(s, r, id, c, J, C), ConnGains(C, s.conns[c], J, id),
           J.state = "reserved", J.reserver = c
    PROVE  Filed(r, {}) /\ KeepsRest(s, r)
<1>1. /\ r.jobs[id] = J /\ r.conns[c] = C
      /\ \A d \in DOMAIN s.conns : d # c => r.conns[d] = s.conns[d]
      /\ DOMAIN r.tubes = DOMAIN s.tubes /\ DOMAIN r.conns = DOMAIN s.conns
      /\ KeepsRest(s, r) /\ OthersKept(s, r, id) /\ id \in DOMAIN s.jobs
      /\ c \in DOMAIN s.conns
      /\ \A t \in DOMAIN s.tubes : SameJobSets(r.tubes[t], s.tubes[t])
  BY ONLY ConnMoved(s, r, id, c, J, C), ConnMove
<1>2. ListsOnce(r)
  <2>1. ListsOnce(s) /\ IsInjective(C.reserved)
    BY Zenon DEF Filed, ConnGains
  <2> QED BY ONLY <2>1, ConnMoved(s, r, id, c, J, C), ConnMove, Zenon
<1>3. ASSUME NEW w, NEW x, NEW p \in Nat, NEW k \in Nat
      PROVE  Contains(r, w, x, p, k) <=> Contains(s, w, x, p, k) \/ (k = id /\ Place(J, w, x, p))
  <2>1. CASE w \in {"ready", "delayed", "buried"}
    <3>1. ~Place(J, w, x, p)
      BY <2>1, Zenon DEF Place
    <3> QED BY <1>1, <2>1, <3>1, Zenon DEF Contains, SameJobSets
  <2>2. CASE x # c /\ w \notin {"ready", "delayed", "buried"}
    BY <1>1, <2>2, ZenonT(30) DEF Contains, Place
  <2>3. CASE x = c /\ w = "reserved"
    BY <1>1, <2>3, Zenon DEF Contains, Place, ConnGains
  <2>4. CASE x = c /\ w = "due"
    BY <1>1, <2>4, Zenon DEF Contains, Place, ConnGains
  <2>5. CASE w \notin {"ready", "delayed", "buried", "reserved", "due"}
    BY <1>1, <2>5, Zenon DEF Contains, Place
  <2> QED BY <2>1, <2>2, <2>3, <2>4, <2>5, Zenon
<1>4. Filed(r, {})
  BY <1>1, <1>2, <1>3, PutIn, Zenon
<1> QED BY <1>1, <1>4, Zenon

\* Connection c gives up job id, which it holds.
LEMMA ConnGivesOut ==
    ASSUME NEW s, NEW r, NEW id, NEW c, NEW J, NEW C,
           Filed(s, {}), ConnMoved(s, r, id, c, J, C), ConnLoses(C, s.conns[c], s.jobs[id], id),
           s.jobs[id].state = "reserved", s.jobs[id].reserver = c
    PROVE  Filed(r, {id}) /\ KeepsRest(s, r)
<1>1. /\ r.conns[c] = C
      /\ \A d \in DOMAIN s.conns : d # c => r.conns[d] = s.conns[d]
      /\ DOMAIN r.tubes = DOMAIN s.tubes /\ DOMAIN r.conns = DOMAIN s.conns
      /\ KeepsRest(s, r) /\ OthersKept(s, r, id) /\ id \in DOMAIN s.jobs
      /\ c \in DOMAIN s.conns
      /\ \A t \in DOMAIN s.tubes : SameJobSets(r.tubes[t], s.tubes[t])
  BY ONLY ConnMoved(s, r, id, c, J, C), ConnMove, SMTT(30)
<1>2. ListsOnce(r)
  <2>1. ListsOnce(s) /\ IsInjective(C.reserved)
    BY Zenon DEF Filed, ConnLoses
  <2> QED BY ONLY <2>1, ConnMoved(s, r, id, c, J, C), ConnMove, Zenon
<1>3. ASSUME NEW w, NEW x, NEW p \in Nat, NEW k \in Nat
      PROVE  Contains(r, w, x, p, k) <=> Contains(s, w, x, p, k) /\ k # id
  <2>1. k = id /\ Contains(s, w, x, p, k) => Place(s.jobs[id], w, x, p)
    BY Zenon DEF Filed, Exact, Belongs
  <2>2. CASE w \in {"ready", "delayed", "buried"}
    <3>1. ~Place(s.jobs[id], w, x, p)
      BY <2>2, Zenon DEF Place
    <3> QED BY <1>1, <2>1, <2>2, <3>1, Zenon DEF Contains, SameJobSets
  <2>3. CASE x # c /\ w \notin {"ready", "delayed", "buried"}
    <3>1. ~Place(s.jobs[id], w, x, p)
      BY <2>3, Zenon DEF Place
    <3> QED BY <1>1, <2>1, <2>3, <3>1, Zenon DEF Contains
  <2>4. CASE x = c /\ w = "reserved"
    BY <1>1, <2>1, <2>4, Zenon DEF Contains, Place, ConnLoses
  <2>5. CASE x = c /\ w = "due"
    BY <1>1, <2>1, <2>5, Zenon DEF Contains, Place, ConnLoses
  <2>6. CASE w \notin {"ready", "delayed", "buried", "reserved", "due"}
    BY <1>1, <2>6, Zenon DEF Contains
  <2> QED BY <2>2, <2>3, <2>4, <2>5, <2>6, Zenon
<1>4. Filed(r, {id})
  BY <1>1, <1>2, <1>3, TakeOut, Zenon
<1> QED BY <1>1, <1>4, Zenon

\* insert_ready files the job in hand in its tube's ready set.
LEMMA InsertReady ==
    ASSUME NEW s, NEW id \in DOMAIN s.jobs, Sound(s, {id}), NEW t, t = s.jobs[id].tube
    PROVE  LET r == insert_ready(s, t, id)
           IN  Sound(r, {}) /\ KeepsRest(s, r) /\ r.conns = s.conns
<1> DEFINE r == insert_ready(s, t, id)
           j == s.jobs[id]
           ts == s.tubes[t]
           J == queued(j, "ready", 0)
           T == add_ready(ts, j.pri, id)
           a == s.ready_ct + 1
           b == s.urgent_ct + urgent(j.pri)
<1>1. /\ id \in Nat /\ j \in JobType /\ j.pri \in Nat /\ t \in DOMAIN s.tubes
      /\ ts \in TubeType /\ Indexed(ts)
      /\ ts.buried \in Seq(Nat) /\ IsInjective(ts.buried)
  BY SoundRecords, Zenon
<1> HIDE DEF j, ts
<1>2. /\ J \in JobType /\ J.tube = j.tube /\ J.pri = j.pri
      /\ J.state = "ready" /\ J.reserver = None /\ J.deadline_at = 0
  <2>1. "ready" \in States /\ 0 \in Nat
    BY Zenon DEF States
  <2> QED BY ONLY <1>1, <2>1, Queued
<1>3. /\ T \in TubeType /\ Indexed(T) /\ SameRefs(T, ts)
      /\ T.ready = ts.ready \cup {<<j.pri, id>>}
      /\ T.delayed = ts.delayed /\ T.buried = ts.buried
      /\ T.waiting_conns = ts.waiting_conns
  BY ONLY <1>1, AddReady, Zenon
<1>4. a \in Nat /\ b \in Nat
  BY Urgent, SMTT(30) DEF Sound, EngineType
<1>5. r = [s EXCEPT !.jobs[id] = J, !.tubes[t] = T, !.ready_ct = a, !.urgent_ct = b]
  BY Zenon DEF insert_ready, j, ts
<1> HIDE DEF J, T, a, b, r
<1>6. /\ r.jobs = [s.jobs EXCEPT ![id] = J] /\ r.tubes = [s.tubes EXCEPT ![t] = T]
      /\ r.conns = s.conns /\ r.next_job_id = s.next_job_id /\ r.tube_order = s.tube_order
  BY <1>5, Zenon DEF Sound, EngineType
<1>7. EngineType(r)
  BY <1>1, <1>2, <1>3, <1>4, <1>5, ZenonT(60) DEF Sound, EngineType
<1>8. TubeMoved(s, r, id, t, J, T)
  BY <1>1, <1>2, <1>3, <1>6, Zenon DEF TubeMoved, j, ts
<1>9. Gains(T, s.tubes[t], J, id)
  BY <1>1, <1>2, <1>3, Zenon DEF Gains, ts
<1>10. Filed(r, {}) /\ KeepsRest(s, r)
  BY <1>2, <1>8, <1>9, TubeTakesIn, Zenon DEF Sound, j
<1> QED BY <1>6, <1>7, <1>10, SoundMove, Zenon DEF r

\* insert_delayed files the job in hand in its tube's delayed set.
LEMMA InsertDelayed ==
    ASSUME Laws, NEW s, NEW id \in DOMAIN s.jobs, Sound(s, {id}), NEW t, t = s.jobs[id].tube,
           NEW deadline \in Nat
    PROVE  LET r == insert_delayed(s, t, id, deadline)
           IN  Sound(r, {}) /\ KeepsRest(s, r) /\ r.conns = s.conns
<1> DEFINE r == insert_delayed(s, t, id, deadline)
           j == s.jobs[id]
           ts == s.tubes[t]
           J == queued(j, "delayed", deadline)
           T == add_delayed(ts, deadline, id)
           a == s.delayed_ct + 1
<1>1. /\ id \in Nat /\ j \in JobType /\ j.pri \in Nat /\ t \in DOMAIN s.tubes
      /\ ts \in TubeType /\ Indexed(ts)
      /\ ts.buried \in Seq(Nat) /\ IsInjective(ts.buried)
  BY SoundRecords, Zenon
<1> HIDE DEF j, ts
<1>2. /\ J \in JobType /\ J.tube = j.tube /\ J.pri = j.pri
      /\ J.state = "delayed" /\ J.reserver = None /\ J.deadline_at = deadline
  <2>1. "delayed" \in States /\ deadline \in Nat
    BY Zenon DEF States
  <2> QED BY ONLY <1>1, <2>1, Queued
<1>3. /\ T \in TubeType /\ Indexed(T) /\ SameRefs(T, ts)
      /\ T.delayed = ts.delayed \cup {<<deadline, id>>}
      /\ T.ready = ts.ready /\ T.buried = ts.buried
      /\ T.waiting_conns = ts.waiting_conns
  BY ONLY Laws, <1>1, deadline \in Nat, AddDelayed, Zenon
<1>4. a \in Nat
  BY SMTT(30) DEF Sound, EngineType
<1>5. r = [s EXCEPT !.jobs[id] = J, !.tubes[t] = T, !.delayed_ct = a]
  BY Zenon DEF insert_delayed, j, ts
<1> HIDE DEF J, T, a, r
<1>6. /\ r.jobs = [s.jobs EXCEPT ![id] = J] /\ r.tubes = [s.tubes EXCEPT ![t] = T]
      /\ r.conns = s.conns /\ r.next_job_id = s.next_job_id /\ r.tube_order = s.tube_order
  BY <1>5, Zenon DEF Sound, EngineType
<1>7. EngineType(r)
  BY <1>1, <1>2, <1>3, <1>4, <1>5, ZenonT(60) DEF Sound, EngineType
<1>8. TubeMoved(s, r, id, t, J, T)
  BY <1>1, <1>2, <1>3, <1>6, Zenon DEF TubeMoved, j, ts
<1>9. Gains(T, s.tubes[t], J, id)
  BY <1>1, <1>2, <1>3, Zenon DEF Gains, ts
<1>10. Filed(r, {}) /\ KeepsRest(s, r)
  BY <1>2, <1>8, <1>9, TubeTakesIn, ZenonT(60) DEF Sound, j
<1> QED BY <1>6, <1>7, <1>10, SoundMove, Zenon DEF r

\* insert_buried files the job in hand at the end of its tube's buried list.
LEMMA InsertBuried ==
    ASSUME NEW s, NEW id \in DOMAIN s.jobs, Sound(s, {id}), NEW t, t = s.jobs[id].tube
    PROVE  LET r == insert_buried(s, t, id)
           IN  Sound(r, {}) /\ KeepsRest(s, r) /\ r.conns = s.conns
<1> DEFINE r == insert_buried(s, t, id)
           j == s.jobs[id]
           ts == s.tubes[t]
           J == queued(j, "buried", 0)
           T == add_buried(ts, id)
           a == s.buried_ct + 1
<1>1. /\ id \in Nat /\ j \in JobType /\ j.pri \in Nat /\ t \in DOMAIN s.tubes
      /\ ts \in TubeType /\ Indexed(ts)
      /\ ts.buried \in Seq(Nat) /\ IsInjective(ts.buried)
  BY SoundRecords, Zenon
<1> HIDE DEF j, ts
<1>2. /\ J \in JobType /\ J.tube = j.tube /\ J.pri = j.pri
      /\ J.state = "buried" /\ J.reserver = None /\ J.deadline_at = 0
  <2>1. "buried" \in States /\ 0 \in Nat
    BY Zenon DEF States
  <2> QED BY ONLY <1>1, <2>1, Queued, SMTT(30)
<1>3. /\ T \in TubeType /\ Indexed(T) /\ SameRefs(T, ts)
      /\ T.buried = Append(ts.buried, id)
      /\ T.ready = ts.ready /\ T.delayed = ts.delayed
      /\ T.waiting_conns = ts.waiting_conns
  BY ONLY <1>1, AddBuried, Zenon
<1>4. a \in Nat
  BY SMTT(30) DEF Sound, EngineType
<1>5. r = [s EXCEPT !.jobs[id] = J, !.tubes[t] = T, !.buried_ct = a]
  BY Zenon DEF insert_buried, j, ts
<1> HIDE DEF J, T, a, r
<1>6. /\ r.jobs = [s.jobs EXCEPT ![id] = J] /\ r.tubes = [s.tubes EXCEPT ![t] = T]
      /\ r.conns = s.conns /\ r.next_job_id = s.next_job_id /\ r.tube_order = s.tube_order
  BY <1>5, Zenon DEF Sound, EngineType
<1>7. EngineType(r)
  BY <1>1, <1>2, <1>3, <1>4, <1>5, ZenonT(60) DEF Sound, EngineType
<1>8. TubeMoved(s, r, id, t, J, T)
  BY <1>1, <1>2, <1>3, <1>6, Zenon DEF TubeMoved, j, ts
<1>9. Gains(T, s.tubes[t], J, id)
  <2>1. id \notin Range(ts.buried)
    <3>1. Contains(s, "buried", t, 0, id) => Belongs(s, {id}, "buried", t, 0, id)
      BY <1>1, Zenon DEF Sound, Filed, Exact
    <3> QED BY <1>1, <3>1, Zenon DEF Contains, Belongs, ts
  <2>2. IsInjective(T.buried) /\ Range(T.buried) = Range(ts.buried) \cup {id}
    BY ONLY <1>1, <1>3, <2>1, AppendNew, SMTT(30)
  <2> QED BY <1>2, <1>3, <2>2, Zenon DEF Gains, ts
<1>10. Filed(r, {}) /\ KeepsRest(s, r)
  BY <1>2, <1>8, <1>9, TubeTakesIn, Zenon DEF Sound, j
<1> QED BY <1>6, <1>7, <1>10, SoundMove, Zenon DEF r

\* remove_ready takes a ready job into hand.
LEMMA RemoveReady ==
    ASSUME NEW s, NEW id \in DOMAIN s.jobs, Sound(s, {}), NEW t, t = s.jobs[id].tube,
           s.jobs[id].state = "ready"
    PROVE  LET r == remove_ready(s, t, id)
           IN  Sound(r, {id}) /\ KeepsRest(s, r) /\ r.conns = s.conns /\ r.jobs = s.jobs
<1> DEFINE r == remove_ready(s, t, id)
           j == s.jobs[id]
           ts == s.tubes[t]
           T == drop_ready(ts, j.pri, id)
           a == saturating_sub(s.ready_ct, 1)
           b == saturating_sub(s.urgent_ct, urgent(j.pri))
<1>1. /\ id \in Nat /\ j.pri \in Nat /\ j.deadline_at \in Nat /\ t \in DOMAIN s.tubes
      /\ ts \in TubeType /\ Indexed(ts)
      /\ ts.buried \in Seq(Nat) /\ IsInjective(ts.buried)
  BY SoundRecords, Zenon
<1>2. j.state = "ready"
  BY Zenon
<1> HIDE DEF j, ts
<1>3. /\ T \in TubeType /\ Indexed(T) /\ SameRefs(T, ts)
      /\ T.ready = ts.ready \ {<<j.pri, id>>}
      /\ T.delayed = ts.delayed /\ T.buried = ts.buried
      /\ T.waiting_conns = ts.waiting_conns
  BY ONLY <1>1, DropReady, ZenonT(60)
<1>4. a \in Nat /\ b \in Nat
  BY Urgent, SaturatingSub, Zenon DEF Sound, EngineType
<1>5. r = [s EXCEPT !.tubes[t] = T, !.ready_ct = a, !.urgent_ct = b]
  BY Zenon DEF remove_ready, j, ts
<1> HIDE DEF T, a, b, r
<1>6. /\ r.jobs = s.jobs /\ r.tubes = [s.tubes EXCEPT ![t] = T]
      /\ r.conns = s.conns /\ r.next_job_id = s.next_job_id /\ r.tube_order = s.tube_order
      /\ s.jobs = [s.jobs EXCEPT ![id] = j]
  BY <1>5, Zenon DEF Sound, EngineType, j
<1>7. EngineType(r)
  BY <1>1, <1>3, <1>4, <1>5, Zenon DEF Sound, EngineType
<1>8. TubeMoved(s, r, id, t, j, T)
  BY <1>1, <1>3, <1>6, Zenon DEF TubeMoved, j, ts
<1>9. Loses(T, s.tubes[t], j, id)
  BY <1>1, <1>2, <1>3, Zenon DEF Loses, ts
<1>10. Filed(r, {id}) /\ KeepsRest(s, r)
  <2>1. j.state # "reserved"
    BY Zenon DEF j
  <2> QED BY <1>8, <1>9, <2>1, TubeGivesOut, Zenon DEF Sound, j
<1> QED BY <1>6, <1>7, <1>10, SoundMove, Zenon DEF r

\* remove_delayed takes a delayed job into hand.
LEMMA RemoveDelayed ==
    ASSUME Laws, NEW s, NEW id \in DOMAIN s.jobs, Sound(s, {}), NEW t, t = s.jobs[id].tube,
           s.jobs[id].state = "delayed"
    PROVE  LET r == remove_delayed(s, t, id)
           IN  Sound(r, {id}) /\ KeepsRest(s, r) /\ r.conns = s.conns /\ r.jobs = s.jobs
<1> DEFINE r == remove_delayed(s, t, id)
           j == s.jobs[id]
           ts == s.tubes[t]
           T == drop_delayed(ts, j.deadline_at, id)
           a == saturating_sub(s.delayed_ct, 1)
<1>1. /\ id \in Nat /\ j.pri \in Nat /\ j.deadline_at \in Nat /\ t \in DOMAIN s.tubes
      /\ ts \in TubeType /\ Indexed(ts)
      /\ ts.buried \in Seq(Nat) /\ IsInjective(ts.buried)
  BY SoundRecords, Zenon
<1>2. j.state = "delayed"
  BY Zenon
<1> HIDE DEF j, ts
<1>3. /\ T \in TubeType /\ Indexed(T) /\ SameRefs(T, ts)
      /\ T.delayed = ts.delayed \ {<<j.deadline_at, id>>}
      /\ T.ready = ts.ready /\ T.buried = ts.buried
      /\ T.waiting_conns = ts.waiting_conns
  BY ONLY Laws, <1>1, DropDelayed, ZenonT(60)
<1>4. a \in Nat
  BY SaturatingSub, Zenon DEF Sound, EngineType
<1>5. r = [s EXCEPT !.tubes[t] = T, !.delayed_ct = a]
  BY Zenon DEF remove_delayed, j, ts
<1> HIDE DEF T, a, r
<1>6. /\ r.jobs = s.jobs /\ r.tubes = [s.tubes EXCEPT ![t] = T]
      /\ r.conns = s.conns /\ r.next_job_id = s.next_job_id /\ r.tube_order = s.tube_order
      /\ s.jobs = [s.jobs EXCEPT ![id] = j]
  BY <1>5, Zenon DEF Sound, EngineType, j
<1>7. EngineType(r)
  BY <1>1, <1>3, <1>4, <1>5, Zenon DEF Sound, EngineType
<1>8. TubeMoved(s, r, id, t, j, T)
  BY <1>1, <1>3, <1>6, Zenon DEF TubeMoved, j, ts
<1>9. Loses(T, s.tubes[t], j, id)
  BY <1>1, <1>2, <1>3, Zenon DEF Loses, ts
<1>10. Filed(r, {id}) /\ KeepsRest(s, r)
  <2>1. j.state # "reserved"
    BY Zenon DEF j
  <2> QED BY <1>8, <1>9, <2>1, TubeGivesOut, Zenon DEF Sound, j
<1> QED BY <1>6, <1>7, <1>10, SoundMove, Zenon DEF r

\* remove_buried takes a buried job into hand.
LEMMA RemoveBuried ==
    ASSUME NEW s, NEW id \in DOMAIN s.jobs, Sound(s, {}), NEW t, t = s.jobs[id].tube,
           s.jobs[id].state = "buried"
    PROVE  LET r == remove_buried(s, t, id)
           IN  Sound(r, {id}) /\ KeepsRest(s, r) /\ r.conns = s.conns /\ r.jobs = s.jobs
<1> DEFINE r == remove_buried(s, t, id)
           j == s.jobs[id]
           ts == s.tubes[t]
           T == drop_buried(ts, id)
           a == saturating_sub(s.buried_ct, 1)
<1>1. /\ id \in Nat /\ j.pri \in Nat /\ j.deadline_at \in Nat /\ t \in DOMAIN s.tubes
      /\ ts \in TubeType /\ Indexed(ts)
      /\ ts.buried \in Seq(Nat) /\ IsInjective(ts.buried)
  BY SoundRecords, Zenon
<1>2. j.state = "buried"
  BY Zenon
<1> HIDE DEF j, ts
<1>3. /\ T \in TubeType /\ Indexed(T) /\ SameRefs(T, ts)
      /\ T.buried = list_remove(ts.buried, id)
      /\ T.ready = ts.ready /\ T.delayed = ts.delayed
      /\ T.waiting_conns = ts.waiting_conns
  BY ONLY <1>1, DropBuried, Zenon
<1>4. a \in Nat
  BY SaturatingSub, Zenon DEF Sound, EngineType
<1>5. r = [s EXCEPT !.tubes[t] = T, !.buried_ct = a]
  BY Zenon DEF remove_buried, j, ts
<1> HIDE DEF T, a, r
<1>6. /\ r.jobs = s.jobs /\ r.tubes = [s.tubes EXCEPT ![t] = T]
      /\ r.conns = s.conns /\ r.next_job_id = s.next_job_id /\ r.tube_order = s.tube_order
      /\ s.jobs = [s.jobs EXCEPT ![id] = j]
  BY <1>5, Zenon DEF Sound, EngineType, j
<1>7. EngineType(r)
  BY <1>1, <1>3, <1>4, <1>5, Zenon DEF Sound, EngineType
<1>8. TubeMoved(s, r, id, t, j, T)
  BY <1>1, <1>3, <1>6, Zenon DEF TubeMoved, j, ts
<1>9. Loses(T, s.tubes[t], j, id)
  <2>1. IsInjective(T.buried) /\ Range(T.buried) = Range(ts.buried) \ {id}
    BY ONLY <1>1, <1>3, ListRemove, SMTT(30)
  <2> QED BY <1>2, <1>3, <2>1, Zenon DEF Loses, ts
<1>10. Filed(r, {id}) /\ KeepsRest(s, r)
  <2>1. j.state # "reserved"
    BY Zenon DEF j
  <2> QED BY <1>8, <1>9, <2>1, TubeGivesOut, Zenon DEF Sound, j
<1> QED BY <1>6, <1>7, <1>10, SoundMove, Zenon DEF r

\* Replacing tube t by a record that differs in its reserved count only.
LEMMA TubesCounted ==
    ASSUME NEW s, NEW hand, Sound(s, hand), NEW r, NEW t \in DOMAIN s.tubes, NEW n \in Nat,
           r.tubes = [s.tubes EXCEPT ![t] = count_reserved(s.tubes[t], n)]
    PROVE  TubesKept(s, r)
<1> DEFINE ts == s.tubes[t]
           T == count_reserved(ts, n)
<1>1. ts \in TubeType /\ Indexed(ts)
  BY SoundRecords, Zenon
<1>2. r.tubes = [s.tubes EXCEPT ![t] = T]
  BY Zenon
<1> HIDE DEF ts
<1>3. /\ Indexed(T) /\ SameRefs(T, ts) /\ SameJobSets(T, ts)
      /\ T.waiting_conns = ts.waiting_conns
  BY ONLY <1>1, n \in Nat, CountReserved, Zenon
<1> HIDE DEF T
<1>4. ASSUME NEW u \in DOMAIN s.tubes
      PROVE  /\ SameRefs(r.tubes[u], s.tubes[u]) /\ SameJobSets(r.tubes[u], s.tubes[u])
             /\ r.tubes[u].waiting_conns = s.tubes[u].waiting_conns
             /\ Indexed(s.tubes[u]) => Indexed(r.tubes[u])
  <2>1. CASE u = t
    <3>1. r.tubes[u] = T
      BY <1>2, <2>1, Zenon
    <3> QED BY ONLY <1>3, <2>1, <3>1, Zenon DEF ts
  <2>2. CASE u # t
    <3>1. r.tubes[u] = s.tubes[u]
      BY <1>2, <2>2, Zenon
    <3> QED BY ONLY <3>1, Zenon DEF SameRefs, SameJobSets
  <2> QED BY <2>1, <2>2, Zenon
<1>5. DOMAIN r.tubes = DOMAIN s.tubes
  BY <1>2, Zenon
<1> QED BY <1>4, <1>5, Zenon DEF TubesKept

\* do_reserve gives the job in hand to a connection.
LEMMA DoReserve ==
    ASSUME Laws, NEW s, NEW id \in DOMAIN s.jobs, Sound(s, {id}), NEW c \in DOMAIN s.conns, NEW at \in Nat
    PROVE  LET r == do_reserve(s, c, id, at)
           IN  /\ Sound(r, {}) /\ KeepsRest(s, r)
               /\ \A d \in DOMAIN s.conns : d # c => r.conns[d] = s.conns[d]
<1> DEFINE r == do_reserve(s, c, id, at)
           j == s.jobs[id]
           t == j.tube
           cs == s.conns[c]
           deadline == at + j.ttr * NanosPerSec
           J == held(j, c, deadline)
           C == hold(cs, deadline, id)
           n == s.tubes[t].reserved_ct + 1
           T == count_reserved(s.tubes[t], n)
           a == s.reserved_ct + 1
<1>1. /\ id \in Nat /\ j \in JobType /\ j.ttr \in Nat /\ t \in DOMAIN s.tubes
      /\ s.tubes[t] \in TubeType /\ Indexed(s.tubes[t]) /\ c \in ConnIds /\ cs \in ConnType
      /\ cs.reserved \in Seq(Nat) /\ IsInjective(cs.reserved)
  BY SoundRecords, Zenon
<1>2. id \notin Range(cs.reserved)
  <2>1. Contains(s, "reserved", c, 0, id) => Belongs(s, {id}, "reserved", c, 0, id)
    BY <1>1, ZenonT(60) DEF Sound, Filed, Exact
  <2> QED BY <1>1, <2>1, Zenon DEF Contains, Belongs
<1>3. deadline \in Nat /\ a \in Nat /\ n \in Nat
  <2>1. j.ttr * NanosPerSec \in Nat
    BY <1>1, ConstantsAssumption
  <2>2. s.reserved_ct \in Nat
    BY Zenon DEF Sound, EngineType
  <2>3. s.tubes[t].reserved_ct \in Nat
    BY <1>1, Zenon DEF TubeType
  <2> QED BY <2>1, <2>2, <2>3, SMTT(30)
<1>4. r = [s EXCEPT !.jobs[id] = J, !.conns[c] = C, !.tubes[t] = T, !.reserved_ct = a]
  BY Zenon DEF do_reserve
<1>5. T \in TubeType
  BY ONLY <1>1, <1>3, CountReserved, ZenonT(60)
<1> HIDE DEF r, T, n, a, t, j, cs, deadline
<1>6. /\ J \in JobType /\ J.tube = j.tube
      /\ J.state = "reserved" /\ J.reserver = c /\ J.deadline_at = deadline
  <2>1. j \in JobType /\ c \in ConnIds /\ deadline \in Nat
    BY <1>1, <1>3, Zenon
  <2> QED BY ONLY <2>1, Held
<1>7. /\ C \in ConnType /\ SameRole(C, cs) /\ C.reserved = Append(cs.reserved, id)
      /\ C.reserved_by_deadline = cs.reserved_by_deadline \cup {<<deadline, id>>}
      /\ C.waiting = cs.waiting
  <2>1. cs \in ConnType /\ id \in Nat /\ deadline \in Nat
    BY <1>1, <1>3, Zenon
  <2> QED BY ONLY Laws, <2>1, Hold, ZenonT(60)
<1> HIDE DEF J, C
<1>8. /\ r.jobs = [s.jobs EXCEPT ![id] = J] /\ r.tubes = [s.tubes EXCEPT ![t] = T]
      /\ r.conns = [s.conns EXCEPT ![c] = C] /\ r.next_job_id = s.next_job_id /\ r.tube_order = s.tube_order
  BY <1>4, Zenon DEF Sound, EngineType
<1>9. EngineType(r)
  BY <1>1, <1>3, <1>4, <1>5, <1>6, <1>7, ZenonT(60) DEF Sound, EngineType
<1>10. TubesKept(s, r)
  <2>1. r.tubes = [s.tubes EXCEPT ![t] = count_reserved(s.tubes[t], n)]
    BY ONLY <1>8, Zenon DEF T
  <2> QED BY ONLY Sound(s, {id}), <1>1, <1>3, <2>1, TubesCounted, Zenon
<1>11. ConnMoved(s, r, id, c, J, C)
  BY <1>6, <1>7, <1>8, <1>10, Zenon DEF ConnMoved, j, cs
<1>12. ConnGains(C, s.conns[c], J, id)
  <2>1. IsInjective(C.reserved) /\ Range(C.reserved) = Range(cs.reserved) \cup {id}
    BY ONLY <1>1, <1>2, <1>7, AppendNew, SMTT(30)
  <2> QED BY <1>6, <1>7, <2>1, Zenon DEF cs, ConnGains
<1>13. Filed(r, {}) /\ KeepsRest(s, r)
  BY <1>6, <1>11, <1>12, ConnTakesIn, Zenon DEF Sound
<1>14. Sound(r, {})
  BY <1>9, <1>13, SoundMove, Zenon
<1>15. \A d \in DOMAIN s.conns : d # c => r.conns[d] = s.conns[d]
  BY ONLY <1>8, Zenon
<1> QED BY <1>13, <1>14, <1>15, Zenon DEF r

\* do_unreserve takes a job out of its holder's reservations into hand.
LEMMA DoUnreserve ==
    ASSUME Laws, NEW s, NEW id \in DOMAIN s.jobs, Sound(s, {}), NEW c,
           s.jobs[id].state = "reserved", s.jobs[id].reserver = c
    PROVE  LET r == do_unreserve(s, c, id)
           IN  /\ Sound(r, {id}) /\ KeepsRest(s, r) /\ c \in DOMAIN s.conns
               /\ r.conns[c].reserved = list_remove(s.conns[c].reserved, id)
<1> DEFINE r == do_unreserve(s, c, id)
           j == s.jobs[id]
           t == j.tube
           cs == s.conns[c]
           J == [j EXCEPT !.reserver = None]
           C == unhold(cs, j.deadline_at, id)
           n == saturating_sub(s.tubes[t].reserved_ct, 1)
           T == count_reserved(s.tubes[t], n)
           a == saturating_sub(s.reserved_ct, 1)
<1>1. c \in DOMAIN s.conns
  <2>1. id \in Nat
    BY SoundRecords, Zenon
  <2>2. Place(j, "reserved", c, 0)
    BY Zenon DEF Place
  <2>3. Belongs(s, {}, "reserved", c, 0, id)
    BY <2>2, Zenon DEF Belongs
  <2> QED BY <2>1, <2>3, Zenon DEF Sound, Filed, Exact, Contains
<1>2. /\ id \in Nat /\ j \in JobType /\ j.deadline_at \in Nat /\ t \in DOMAIN s.tubes
      /\ s.tubes[t] \in TubeType /\ Indexed(s.tubes[t]) /\ cs \in ConnType
      /\ cs.reserved \in Seq(Nat) /\ IsInjective(cs.reserved)
  BY <1>1, SoundRecords, Zenon
<1>3. a \in Nat /\ n \in Nat
  <2>1. s.reserved_ct \in Nat
    BY Zenon DEF Sound, EngineType
  <2>2. s.tubes[t].reserved_ct \in Nat
    BY <1>2, Zenon DEF TubeType
  <2> QED BY <2>1, <2>2, SaturatingSub, Zenon
<1>4. r = [s EXCEPT !.jobs[id] = J, !.conns[c] = C, !.tubes[t] = T, !.reserved_ct = a]
  BY Zenon DEF do_unreserve
<1>5. T \in TubeType
  BY ONLY <1>2, <1>3, CountReserved, Zenon
<1> HIDE DEF r, T, n, a, t, j, cs
<1>6. J \in JobType /\ J.tube = j.tube
  BY ONLY <1>2, Zenon DEF JobType
<1>7. /\ C \in ConnType /\ SameRole(C, cs) /\ C.reserved = list_remove(cs.reserved, id)
      /\ C.reserved_by_deadline = cs.reserved_by_deadline \ {<<j.deadline_at, id>>}
      /\ C.waiting = cs.waiting
  BY ONLY Laws, <1>2, Unhold, ZenonT(60)
<1> HIDE DEF J, C
<1>8. /\ r.jobs = [s.jobs EXCEPT ![id] = J] /\ r.tubes = [s.tubes EXCEPT ![t] = T]
      /\ r.conns = [s.conns EXCEPT ![c] = C] /\ r.next_job_id = s.next_job_id /\ r.tube_order = s.tube_order
  BY <1>4, Zenon DEF Sound, EngineType
<1>9. EngineType(r)
  BY <1>1, <1>2, <1>3, <1>4, <1>5, <1>6, <1>7, ZenonT(60) DEF Sound, EngineType
<1>10. TubesKept(s, r)
  <2>1. r.tubes = [s.tubes EXCEPT ![t] = count_reserved(s.tubes[t], n)]
    BY ONLY <1>8, Zenon DEF T
  <2> QED BY ONLY Sound(s, {}), <1>2, <1>3, <2>1, TubesCounted, Zenon
<1>11. ConnMoved(s, r, id, c, J, C)
  BY <1>1, <1>6, <1>7, <1>8, <1>10, Zenon DEF ConnMoved, j, cs
<1>12. ConnLoses(C, s.conns[c], s.jobs[id], id)
  <2>1. IsInjective(C.reserved) /\ Range(C.reserved) = Range(cs.reserved) \ {id}
    BY ONLY <1>2, <1>7, ListRemove, SMTT(30)
  <2> QED BY <1>7, <2>1, Zenon DEF cs, j, ConnLoses
<1>13. Filed(r, {id}) /\ KeepsRest(s, r)
  BY <1>11, <1>12, ConnGivesOut, Zenon DEF Sound
<1>14. r.conns[c].reserved = list_remove(s.conns[c].reserved, id)
  BY <1>1, <1>7, <1>8, Zenon DEF cs
<1> QED BY <1>1, <1>9, <1>13, <1>14, SoundMove, Zenon DEF r

\* remove_queued takes a job that is not reserved into hand.
LEMMA RemoveQueued ==
    ASSUME Laws, NEW s, NEW id \in DOMAIN s.jobs, Sound(s, {}), s.jobs[id].state # "reserved"
    PROVE  LET r == remove_queued(s, id)
           IN  Sound(r, {id}) /\ KeepsRest(s, r) /\ r.conns = s.conns /\ r.jobs = s.jobs
<1>1. s.jobs[id].state \in {"ready", "delayed", "buried"}
  <2>1. s.jobs[id] \in JobType
    BY SoundRecords, Zenon
  <2> QED BY <2>1, Zenon DEF JobType, States
<1>2. CASE s.jobs[id].state = "ready"
  <2>1. remove_queued(s, id) = remove_ready(s, s.jobs[id].tube, id)
    BY <1>2, Zenon DEF remove_queued
  <2> QED BY <1>2, <2>1, RemoveReady, SMTT(30)
<1>3. CASE s.jobs[id].state = "delayed"
  <2>1. remove_queued(s, id) = remove_delayed(s, s.jobs[id].tube, id)
    BY <1>3, Zenon DEF remove_queued
  <2> QED BY <1>3, <2>1, RemoveDelayed, SMTT(30)
<1>4. CASE s.jobs[id].state = "buried"
  <2>1. remove_queued(s, id) = remove_buried(s, s.jobs[id].tube, id)
    BY <1>4, Zenon DEF remove_queued
  <2> QED BY <1>4, <2>1, RemoveBuried, SMTT(30)
<1> QED BY <1>1, <1>2, <1>3, <1>4, Zenon

\* The priority of a job in hand changes (release and bury set it).
LEMMA SetPri ==
    ASSUME NEW s, NEW id \in DOMAIN s.jobs, Sound(s, {id}), NEW pri \in Nat
    PROVE  LET r == [s EXCEPT !.jobs[id].pri = pri]
           IN  Sound(r, {id}) /\ KeepsRest(s, r) /\ r.conns = s.conns
<1> DEFINE r == [s EXCEPT !.jobs[id].pri = pri]
           j == s.jobs[id]
           J == [j EXCEPT !.pri = pri]
<1>1. j \in JobType
  BY SoundRecords, Zenon
<1>2. r = [s EXCEPT !.jobs[id] = J]
  BY Zenon
<1> HIDE DEF j, r
<1>3. J \in JobType /\ J.tube = j.tube
  BY <1>1, Zenon DEF JobType
<1> HIDE DEF J
<1>4. /\ r.jobs = [s.jobs EXCEPT ![id] = J] /\ r.tubes = s.tubes /\ r.conns = s.conns
      /\ r.next_job_id = s.next_job_id /\ r.tube_order = s.tube_order
  BY <1>2, Zenon DEF Sound, EngineType
<1>5. EngineType(r)
  BY <1>2, <1>3, Zenon DEF Sound, EngineType
<1>6. OthersKept(s, r, id)
  BY <1>3, <1>4, Zenon DEF OthersKept, j
<1>7. \A k \in DOMAIN s.jobs : r.jobs[k].tube = s.jobs[k].tube
  BY <1>6, Zenon DEF OthersKept
<1>8. KeepsRest(s, r)
  BY <1>4, <1>6, <1>7, ZenonT(60) DEF KeepsRest, OthersKept, SameRefs, SameRole
<1>9. Filed(r, {id})
  <2>1. ASSUME NEW w, NEW x, NEW p, NEW k
        PROVE  Contains(r, w, x, p, k) <=> Contains(s, w, x, p, k)
    BY ONLY <1>4, Zenon DEF Contains
  <2>2. ASSUME NEW w, NEW x, NEW p, NEW k
        PROVE  Belongs(r, {id}, w, x, p, k) <=> Belongs(s, {id}, w, x, p, k)
    <3>1. k \in DOMAIN s.jobs \ {id} => r.jobs[k] = s.jobs[k]
      BY <1>6, Zenon DEF OthersKept
    <3>2. DOMAIN r.jobs = DOMAIN s.jobs
      BY <1>6, Zenon DEF OthersKept
    <3> QED BY ONLY <3>1, <3>2, Zenon DEF Belongs
  <2>3. Exact(r, {id})
    BY <2>1, <2>2, Zenon DEF Sound, Filed, Exact
  <2>4. Unheld(r, {id})
    BY <1>6, Zenon DEF Sound, Filed, Unheld, OthersKept
  <2>5. TubesLive(r)
    BY <1>4, <1>6, <1>7, Zenon DEF Sound, Filed, TubesLive, OthersKept
  <2>6. ListsOnce(r)
    BY <1>4, Zenon DEF Sound, Filed, ListsOnce
  <2> QED BY <2>3, <2>4, <2>5, <2>6, Zenon DEF Filed
<1> QED BY <1>4, <1>5, <1>8, <1>9, SoundMove, Zenon DEF r
-----------------------------------------------------------------------------
(* Connections, their puts, their waits and their tubes: the updates that  *)
(* move no job.                                                            *)


\* Every tube and connection is still there with its jobs and its owners.
Quiet(s, r) ==
    /\ r.jobs = s.jobs /\ r.tube_order = s.tube_order
    /\ DOMAIN r.tubes = DOMAIN s.tubes
    /\ DOMAIN r.conns = DOMAIN s.conns
    /\ \A t \in DOMAIN s.tubes : /\ SameJobSets(r.tubes[t], s.tubes[t])
                                 /\ r.tubes[t].using_ct = s.tubes[t].using_ct
                                 /\ r.tubes[t].job_ref_ct = s.tubes[t].job_ref_ct
    /\ \A c \in DOMAIN s.conns : /\ SameHeld(r.conns[c], s.conns[c])
                                 /\ r.conns[c].use_tube = s.conns[c].use_tube

\* The puts in progress are the same.
SamePending(s, r) ==
    /\ r.next_job_id = s.next_job_id
    /\ \A c \in DOMAIN s.conns : r.conns[c].pending_put = s.conns[c].pending_put

\* A quiet update keeps the places of the jobs and the reference counts.
LEMMA QuietKeeps ==
    ASSUME NEW s, NEW r, NEW hand, Sound(s, hand), Quiet(s, r)
    PROVE  Filed(r, hand) /\ RefsSound(r) /\ (SamePending(s, r) => IdsFresh(r))
<1>1. ListsOnce(r)
  BY Zenon DEF Quiet, Sound, Filed, ListsOnce, SameJobSets, SameHeld
<1>2. ASSUME NEW w, NEW x, NEW p \in Nat, NEW k \in Nat
      PROVE  Contains(r, w, x, p, k) <=> Contains(s, w, x, p, k)
  <2>1. CASE w \in {"ready", "delayed", "buried"}
    BY <2>1, Zenon DEF Quiet, Contains, SameJobSets
  <2>2. CASE w \notin {"ready", "delayed", "buried"}
    BY <2>2, Zenon DEF Quiet, Contains, SameHeld
  <2> QED BY <2>1, <2>2, Zenon
<1>3. Filed(r, hand)
  <2>1. r.jobs = s.jobs /\ TubesLive(r) /\ Filed(s, hand)
    BY Zenon DEF Quiet, Sound, Filed, TubesLive
  <2> QED BY ONLY <1>1, <1>2, <2>1, LeftAlone, Zenon
<1>4. RefsSound(r)
  <2>1. \A t : Users(r, t) = Users(s, t) /\ JobsOf(r, t) = JobsOf(s, t)
    BY Zenon DEF Quiet, Users, JobsOf
  <2> QED BY <2>1, ZenonT(30) DEF Quiet, Sound, RefsSound
<1>5. ASSUME SamePending(s, r) PROVE IdsFresh(r)
  <2>1. /\ r.jobs = s.jobs /\ DOMAIN r.conns = DOMAIN s.conns /\ r.next_job_id = s.next_job_id
        /\ \A c \in DOMAIN s.conns : /\ r.conns[c].pending_put = s.conns[c].pending_put
                                     /\ HasPending(r.conns[c]) <=> HasPending(s.conns[c])
    BY <1>5, Zenon DEF Quiet, SamePending, HasPending
  <2> QED BY <2>1, ZenonT(30) DEF Sound, IdsFresh
<1> QED BY <1>3, <1>4, <1>5, Zenon

\* The record of one connection is replaced and nothing else moves.
LEMMA ConnEdit ==
    ASSUME NEW s, NEW r, NEW hand, Sound(s, hand), NEW c \in DOMAIN s.conns, NEW C,
           EngineType(r), r.jobs = s.jobs, r.tubes = s.tubes,
           r.tube_order = s.tube_order, r.conns = [s.conns EXCEPT ![c] = C],
           SameHeld(C, s.conns[c]), C.use_tube = s.conns[c].use_tube,
           ~s.conns[c].waiting \/ (C.waiting = s.conns[c].waiting /\ C.watch = s.conns[c].watch)
    PROVE  /\ Filed(r, hand) /\ RefsSound(r) /\ WaitersSound(r)
           /\ (SamePending(s, r) => Sound(r, hand))
<1>1. /\ r.conns[c] = C /\ DOMAIN r.conns = DOMAIN s.conns
      /\ \A d \in DOMAIN s.conns : d # c => r.conns[d] = s.conns[d]
  BY Zenon
<1>2. Quiet(s, r)
  <2>1. ASSUME NEW d \in DOMAIN s.conns
        PROVE  SameHeld(r.conns[d], s.conns[d]) /\ r.conns[d].use_tube = s.conns[d].use_tube
    <3>1. CASE d = c
      BY <1>1, <3>1, Zenon
    <3>2. CASE d # c
      BY <1>1, <3>2, Zenon DEF SameHeld
    <3> QED BY <3>1, <3>2, ZenonT(30)
  <2>2. \A t \in DOMAIN s.tubes : SameJobSets(r.tubes[t], s.tubes[t])
    BY Zenon DEF SameJobSets
  <2> QED BY <1>1, <2>1, <2>2, Zenon DEF Quiet
<1>3. Filed(r, hand) /\ RefsSound(r) /\ (SamePending(s, r) => IdsFresh(r))
  BY <1>2, QuietKeeps, Zenon
<1>4. WaitersSound(r)
  <2>1. ASSUME NEW t, NEW d, Waiter(s, t, d) PROVE Waiter(r, t, d)
    <3>1. CASE d = c
      BY <1>1, <2>1, <3>1, ZenonT(30) DEF Waiter
    <3>2. CASE d # c
      BY <1>1, <2>1, <3>2, ZenonT(60) DEF Waiter
    <3> QED BY <3>1, <3>2, Zenon
  <2> QED BY <2>1, Zenon DEF Sound, WaitersSound
<1> QED BY <1>3, <1>4, Zenon DEF Sound

\* Counting a reply owed or given changes nothing else.
LEMMA SetOwed ==
    ASSUME NEW s, NEW hand, Sound(s, hand), NEW c \in DOMAIN s.conns, NEW n \in Int
    PROVE  LET r == [s EXCEPT !.conns[c].owed = n]
           IN  /\ Sound(r, hand) /\ r.jobs = s.jobs /\ r.tubes = s.tubes
               /\ r.next_job_id = s.next_job_id /\ r.tube_order = s.tube_order
               /\ DOMAIN r.conns = DOMAIN s.conns
               /\ r.conns[c].owed = n
               /\ SameHeld(r.conns[c], s.conns[c])
               /\ r.conns[c].use_tube = s.conns[c].use_tube
               /\ r.conns[c].watch = s.conns[c].watch
               /\ r.conns[c].pending_put = s.conns[c].pending_put
               /\ r.conns[c].waiting = s.conns[c].waiting
               /\ \A d \in DOMAIN s.conns : d # c => r.conns[d] = s.conns[d]
<1> DEFINE r == [s EXCEPT !.conns[c].owed = n]
           cs == s.conns[c]
           C == [cs EXCEPT !.owed = n]
<1>1. cs \in ConnType
  BY SoundRecords, Zenon
<1>2. r = [s EXCEPT !.conns[c] = C]
  BY Zenon
<1> HIDE DEF cs, r
<1>3. /\ C \in ConnType /\ SameHeld(C, cs) /\ C.use_tube = cs.use_tube /\ C.watch = cs.watch
      /\ C.pending_put = cs.pending_put /\ C.waiting = cs.waiting /\ C.owed = n
  BY <1>1, Zenon DEF ConnType, SameHeld
<1> HIDE DEF C
<1>4. /\ r.jobs = s.jobs /\ r.tubes = s.tubes /\ r.conns = [s.conns EXCEPT ![c] = C]
      /\ r.next_job_id = s.next_job_id /\ r.tube_order = s.tube_order
  BY <1>2, Zenon DEF Sound, EngineType
<1>5. EngineType(r)
  BY <1>2, <1>3, Zenon DEF Sound, EngineType
<1>6. /\ r.conns[c] = C /\ DOMAIN r.conns = DOMAIN s.conns
      /\ \A d \in DOMAIN s.conns : d # c => r.conns[d] = s.conns[d]
  BY <1>4, Zenon
<1>7. SamePending(s, r)
  BY <1>3, <1>4, <1>6, Zenon DEF SamePending, cs
<1>8. Sound(r, hand)
  BY <1>3, <1>4, <1>5, <1>7, ConnEdit, ZenonT(60) DEF cs
<1> QED BY <1>3, <1>4, <1>6, <1>8, ZenonT(60) DEF r, cs

\* The journal and the statistics are no part of what must be sound.
LEMMA CoreKept ==
    ASSUME NEW s, NEW r, NEW hand, Sound(s, hand), SameCore(s, r), EngineType(r)
    PROVE  Sound(r, hand) /\ KeepsRest(s, r)
<1>1. Quiet(s, r)
  BY Zenon DEF SameCore, Quiet, SameJobSets, SameHeld
<1>2. SamePending(s, r)
  BY Zenon DEF SameCore, SamePending
<1>3. WaitersSound(r)
  <2>1. \A t, c : Waiter(s, t, c) => Waiter(r, t, c)
    BY Zenon DEF SameCore, Waiter
  <2> QED BY <2>1, Zenon DEF SameCore, Sound, WaitersSound
<1>4. KeepsRest(s, r)
  BY Zenon DEF SameCore, KeepsRest, SameRefs, SameRole
<1> QED BY <1>1, <1>2, <1>3, <1>4, QuietKeeps, ZenonT(60) DEF Sound

\* Connection c may become C and the next id n: the jobs it holds and the tube
\* it uses are the same, and a put in progress begins with the next id.
MayBecome(s, c, C, n) ==
    /\ c \in DOMAIN s.conns /\ C \in ConnType /\ n \in Nat /\ n >= s.next_job_id
    /\ SameHeld(C, s.conns[c]) /\ C.use_tube = s.conns[c].use_tube
    /\ \/ ~s.conns[c].waiting
       \/ C.waiting = s.conns[c].waiting /\ C.watch = s.conns[c].watch
    /\ \/ ~HasPending(C)
       \/ C.pending_put = s.conns[c].pending_put
       \/ C.pending_put = s.next_job_id /\ n = s.next_job_id + 1

\* The engine record in which connection c has become C and the next id n.
become(s, c, C, n) == [s EXCEPT !.conns[c] = C, !.next_job_id = n]

\* What becomes of the engine then.
Became(s, r, hand, c, C, n) ==
    /\ Sound(r, hand) /\ r.jobs = s.jobs /\ r.tubes = s.tubes /\ r.next_job_id = n
    /\ DOMAIN r.conns = DOMAIN s.conns /\ r.conns[c] = C
    /\ \A d \in DOMAIN s.conns : d # c => r.conns[d] = s.conns[d]

\* Replacing a connection by what it may become keeps the engine sound.
LEMMA ConnSet ==
    ASSUME NEW s, NEW hand, NEW c, NEW C, NEW n, Sound(s, hand), MayBecome(s, c, C, n)
    PROVE  Became(s, become(s, c, C, n), hand, c, C, n)
<1> USE DEF MayBecome
<1> DEFINE r == [s EXCEPT !.conns[c] = C, !.next_job_id = n]
           cs == s.conns[c]
<1>1. cs \in ConnType /\ s.next_job_id \in Nat
  BY SoundRecords, Zenon DEF Sound, EngineType
<1>2. /\ r.jobs = s.jobs /\ r.tubes = s.tubes /\ r.conns = [s.conns EXCEPT ![c] = C]
      /\ r.next_job_id = n /\ r.tube_order = s.tube_order
  BY Zenon DEF Sound, EngineType
<1>3. EngineType(r)
  BY Zenon DEF Sound, EngineType
<1> HIDE DEF r
<1>4. /\ r.conns[c] = C /\ DOMAIN r.conns = DOMAIN s.conns
      /\ \A d \in DOMAIN s.conns : d # c => r.conns[d] = s.conns[d]
  BY <1>2, Zenon
<1>5. Filed(r, hand) /\ RefsSound(r) /\ WaitersSound(r)
  BY <1>2, <1>3, ConnEdit, Zenon
<1>6. IdsFresh(r)
  <2>1. /\ IdsFresh(s) /\ s.next_job_id > 0 /\ DOMAIN s.jobs \subseteq 1..(s.next_job_id - 1)
        /\ \A d \in DOMAIN s.conns : HasPending(s.conns[d]) =>
             /\ s.conns[d].pending_put \in 1..(s.next_job_id - 1)
             /\ s.conns[d].pending_put \notin DOMAIN s.jobs
             /\ \A e \in DOMAIN s.conns \ {d} : s.conns[e].pending_put # s.conns[d].pending_put
    BY ZenonT(30) DEF Sound, IdsFresh
  <2>2. n > 0 /\ 1..(s.next_job_id - 1) \subseteq 1..(n - 1)
    BY <1>1, <2>1, SMTT(30)
  <2> DEFINE P(d) == r.conns[d].pending_put
  <2>3. ASSUME NEW d \in DOMAIN s.conns, HasPending(r.conns[d])
        PROVE  /\ r.conns[d].pending_put \in 1..(n - 1)
               /\ r.conns[d].pending_put \notin DOMAIN s.jobs
               /\ \A e \in DOMAIN s.conns \ {d} : r.conns[e].pending_put # r.conns[d].pending_put
    <3>1. CASE d # c /\ r.conns[c].pending_put = s.conns[c].pending_put
      <4>1. r.conns[d] = s.conns[d] /\ HasPending(s.conns[d])
        BY <1>4, <2>3, <3>1, Zenon
      <4>2. \A e \in DOMAIN s.conns : r.conns[e].pending_put = s.conns[e].pending_put
        BY <1>4, <3>1, Zenon
      <4> QED BY <2>1, <2>2, <4>1, <4>2, ZenonT(60)
    <3>2. CASE d # c /\ ~HasPending(C)
      <4>1. \A e \in DOMAIN s.conns \ {d} : r.conns[e].pending_put # r.conns[d].pending_put
        <5> SUFFICES ASSUME NEW e \in DOMAIN s.conns \ {d}
                     PROVE  r.conns[e].pending_put # r.conns[d].pending_put
          BY Zenon
        <5>1. CASE e = c
          BY <1>4, <2>3, <3>2, <5>1, Zenon DEF HasPending
        <5>2. CASE e # c
          BY <1>4, <2>1, <2>3, <3>2, <5>2, Zenon
        <5> QED BY <5>1, <5>2, Zenon
      <4> QED BY <1>4, <2>1, <2>2, <2>3, <3>2, <4>1, ZenonT(60)
    <3>3. CASE d # c /\ C.pending_put = s.next_job_id
      <4>1. r.conns[d] = s.conns[d] /\ s.conns[d].pending_put \in 1..(s.next_job_id - 1)
        BY <1>4, <2>1, <2>3, <3>3, ZenonT(30)
      <4>2. s.conns[d].pending_put # s.next_job_id
        BY <1>1, <4>1, SMTT(30)
      <4>3. \A e \in DOMAIN s.conns \ {d} : r.conns[e].pending_put # r.conns[d].pending_put
        <5> SUFFICES ASSUME NEW e \in DOMAIN s.conns \ {d}
                     PROVE  r.conns[e].pending_put # r.conns[d].pending_put
          BY Zenon
        <5>1. CASE e = c
          BY <1>4, <3>3, <4>1, <4>2, <5>1, ZenonT(60)
        <5>2. CASE e # c
          BY <1>4, <2>1, <2>3, <3>3, <5>2, ZenonT(60)
        <5> QED BY <5>1, <5>2, Zenon
      <4> QED BY <1>4, <2>1, <2>2, <2>3, <3>3, <4>1, <4>3, ZenonT(60)
    <3>4. CASE d = c /\ C.pending_put = s.conns[c].pending_put
      <4>1. HasPending(s.conns[c])
        BY <1>4, <2>3, <3>4, Zenon DEF HasPending
      <4> QED BY <1>4, <2>1, <2>2, <3>4, <4>1, ZenonT(60)
    <3>5. CASE d = c /\ C.pending_put = s.next_job_id /\ n = s.next_job_id + 1
      <4>0. s.next_job_id > 0 /\ DOMAIN s.jobs \subseteq 1..(s.next_job_id - 1)
        BY <2>1, Zenon
      <4>1. s.next_job_id \in 1..(n - 1) /\ s.next_job_id \notin DOMAIN s.jobs
        BY <1>1, <3>5, <4>0, SMTT(30)
      <4>2. \A e \in DOMAIN s.conns \ {c} : r.conns[e].pending_put # s.next_job_id
        <5> SUFFICES ASSUME NEW e \in DOMAIN s.conns \ {c}
                     PROVE  s.conns[e].pending_put # s.next_job_id
          BY <1>4, Zenon
        <5>1. CASE HasPending(s.conns[e])
          <6>1. s.conns[e].pending_put \in 1..(s.next_job_id - 1)
            BY <2>1, <5>1, Zenon
          <6> QED BY <1>1, <6>1
        <5>2. CASE ~HasPending(s.conns[e])
          BY <1>1, <5>2, ConstantsAssumption, Zenon DEF HasPending
        <5> QED BY <5>1, <5>2, Zenon
      <4> QED BY <1>4, <3>5, <4>1, <4>2, Zenon
    <3>6. CASE d = c /\ ~HasPending(C)
      BY <1>4, <2>3, <3>6, Zenon
    <3> QED BY <1>4, <3>1, <3>2, <3>3, <3>4, <3>5, <3>6, ZenonT(60)
  <2> QED BY <1>2, <1>4, <2>1, <2>2, <2>3, ZenonT(60) DEF IdsFresh
<1> QED BY <1>2, <1>3, <1>4, <1>5, <1>6, ZenonT(60) DEF Sound, Became, become, r

\* ConnSet without a new job id.
LEMMA ConnSame ==
    ASSUME NEW s, NEW hand, NEW c, NEW C, Sound(s, hand), MayBecome(s, c, C, s.next_job_id)
    PROVE  Became(s, [s EXCEPT !.conns[c] = C], hand, c, C, s.next_job_id)
<1>1. [s EXCEPT !.conns[c] = C] = become(s, c, C, s.next_job_id)
  BY Zenon DEF Sound, EngineType, become
<1> QED BY <1>1, ConnSet

\* A connection that does not wait may watch anything.
LEMMA SetWatch ==
    ASSUME NEW s, NEW hand, Sound(s, hand), NEW c \in DOMAIN s.conns,
           ~s.conns[c].waiting, NEW q \in Seq(TubeNames)
    PROVE  Became(s, [s EXCEPT !.conns[c].watch = q], hand, c,
                  [s.conns[c] EXCEPT !.watch = q], s.next_job_id)
<1> DEFINE cs == s.conns[c]
           C == [cs EXCEPT !.watch = q]
<1>1. cs \in ConnType /\ s.next_job_id \in Nat
  BY SoundRecords, Zenon DEF Sound, EngineType
<1>2. [s EXCEPT !.conns[c].watch = q] = [s EXCEPT !.conns[c] = C]
  BY Zenon
<1> HIDE DEF cs
<1>3. /\ C \in ConnType /\ SameHeld(C, cs) /\ C.use_tube = cs.use_tube
      /\ C.pending_put = cs.pending_put
  BY <1>1, Zenon DEF ConnType, SameHeld
<1> HIDE DEF C
<1>4. MayBecome(s, c, C, s.next_job_id)
  BY <1>1, <1>3, SMTT(30) DEF MayBecome, cs
<1> QED BY <1>2, <1>4, ConnSame, Zenon DEF C, cs

\* Giving a connection a put in progress, or taking it away.
LEMMA SetPending ==
    ASSUME NEW s, NEW hand, Sound(s, hand), NEW c \in DOMAIN s.conns,
           NEW p \in Nat \cup {None, TooBig}, NEW n \in {s.next_job_id, s.next_job_id + 1},
           p \notin {None, TooBig} => p = s.next_job_id /\ n = s.next_job_id + 1
    PROVE  LET C == [s.conns[c] EXCEPT !.pending_put = p]
           IN  Became(s, become(s, c, C, n), hand, c, C, n)
<1> DEFINE cs == s.conns[c]
           C == [cs EXCEPT !.pending_put = p]
<1>1. cs \in ConnType /\ s.next_job_id \in Nat /\ n \in Nat /\ n >= s.next_job_id
  BY SoundRecords, SMTT(30) DEF Sound, EngineType
<1> HIDE DEF cs
<1>2. /\ C \in ConnType /\ SameHeld(C, cs) /\ C.use_tube = cs.use_tube
      /\ C.waiting = cs.waiting /\ C.watch = cs.watch /\ C.pending_put = p
  BY <1>1, Zenon DEF ConnType, SameHeld, OptionalNat
<1> HIDE DEF C
<1>3. MayBecome(s, c, C, n)
  BY <1>1, <1>2, Zenon DEF MayBecome, HasPending, cs
<1> QED BY <1>3, ConnSet, Zenon DEF C, cs

\* put_started gives the connection the next id, or none when too big.
LEMMA PutStartedSound ==
    ASSUME NEW s, NEW hand, Sound(s, hand), NEW c \in DOMAIN s.conns, NEW too_big \in BOOLEAN
    PROVE  \E p \in Nat \cup {TooBig}, n \in {s.next_job_id, s.next_job_id + 1} :
               Became(s, put_started(s, c, too_big), hand, c,
                      [s.conns[c] EXCEPT !.pending_put = p], n)
<1> DEFINE n == s.next_job_id
<1>1. n \in Nat
  BY Zenon DEF Sound, EngineType
<1>2. CASE too_big
  <2>1. put_started(s, c, too_big) =
          become(s, c, [s.conns[c] EXCEPT !.pending_put = TooBig], n)
    BY <1>2, Zenon DEF put_started, Sound, EngineType, become
  <2> QED BY <2>1, SetPending, Zenon
<1>3. CASE ~too_big
  <2>1. put_started(s, c, too_big) =
          become(s, c, [s.conns[c] EXCEPT !.pending_put = n], n + 1)
    BY <1>3, Zenon DEF put_started, allocate_id, Sound, EngineType, become
  <2> QED BY <1>1, <2>1, SetPending, Zenon
<1> QED BY <1>2, <1>3, Zenon

\* The put ends: its id, or a fresh one, belongs to no job and no other put.
LEMMA TakePending ==
    ASSUME NEW s, NEW hand, Sound(s, hand), NEW c \in DOMAIN s.conns
    PROVE  \E n \in {s.next_job_id, s.next_job_id + 1} :
               /\ Became(s, take_pending(s, c), hand, c,
                         [s.conns[c] EXCEPT !.pending_put = None], n)
               /\ put_id(s, c) \in 1..(n - 1) /\ put_id(s, c) \notin DOMAIN s.jobs
               /\ \A d \in DOMAIN s.conns : d # c => s.conns[d].pending_put # put_id(s, c)
<1> DEFINE m == s.next_job_id
<1>1. /\ m \in Nat /\ m > 0 /\ DOMAIN s.jobs \subseteq 1..(m - 1)
      /\ \A d \in DOMAIN s.conns : HasPending(s.conns[d]) =>
           /\ s.conns[d].pending_put \in 1..(m - 1)
           /\ s.conns[d].pending_put \notin DOMAIN s.jobs
           /\ \A e \in DOMAIN s.conns \ {d} : s.conns[e].pending_put # s.conns[d].pending_put
  BY Zenon DEF Sound, EngineType, IdsFresh
<1>2. CASE HasPending(s.conns[c])
  <2>1. put_id(s, c) = s.conns[c].pending_put
    BY <1>2, Zenon DEF HasPending, put_id
  <2>2. take_pending(s, c) =
          become(s, c, [s.conns[c] EXCEPT !.pending_put = None], m)
    BY <1>2, Zenon DEF HasPending, take_pending, Sound, EngineType, become
  <2>3. Became(s, take_pending(s, c), hand, c, [s.conns[c] EXCEPT !.pending_put = None], m)
    BY <2>2, SetPending, Zenon
  <2> QED BY <1>1, <1>2, <2>1, <2>3, Zenon
<1>3. CASE ~HasPending(s.conns[c])
  <2>1. put_id(s, c) = m
    BY <1>3, Zenon DEF HasPending, put_id
  <2>2. take_pending(s, c) =
          become(s, c, [s.conns[c] EXCEPT !.pending_put = None], m + 1)
    BY <1>3, Zenon DEF HasPending, take_pending, allocate_id, Sound, EngineType, become
  <2>3. Became(s, take_pending(s, c), hand, c, [s.conns[c] EXCEPT !.pending_put = None], m + 1)
    BY <2>2, SetPending, Zenon
  <2>4. m \in 1..((m + 1) - 1) /\ m \notin DOMAIN s.jobs
    BY <1>1
  <2>5. ASSUME NEW d \in DOMAIN s.conns PROVE s.conns[d].pending_put # m
    <3>1. CASE HasPending(s.conns[d])
      BY <1>1, <3>1, SMTT(30)
    <3>2. CASE ~HasPending(s.conns[d])
      BY <1>1, <3>2, ConstantsAssumption, Zenon DEF HasPending
    <3> QED BY <3>1, <3>2, ZenonT(60)
  <2> QED BY <2>1, <2>3, <2>4, <2>5, Zenon
<1> QED BY <1>2, <1>3, Zenon

\* A tube's record may become T: its jobs and owners are the same, and its
\* waiters are waiters of engine r.
MayTurn(r, t, ts, T) ==
    /\ T \in TubeType /\ SameJobSets(T, ts)
    /\ T.using_ct = ts.using_ct /\ T.job_ref_ct = ts.job_ref_ct
    /\ Indexed(T) /\ IsInjective(T.waiting_conns.items)
    /\ \A c \in Range(T.waiting_conns.items) : Waiter(r, t, c)

\* The tubes turn, and connection c starts or stops waiting.
Turned(s, r, c, C, f) ==
    /\ c \in DOMAIN s.conns /\ C \in ConnType
    /\ SameRole(C, s.conns[c]) /\ SameHeld(C, s.conns[c])
    /\ DOMAIN f = DOMAIN s.tubes
    /\ \A t \in DOMAIN s.tubes : MayTurn(r, t, s.tubes[t], f[t])
    /\ f = [t \in DOMAIN s.tubes |-> f[t]]

\* The engine record in which connection c begins or ends to wait.
turn(s, c, C, f, n) == [s EXCEPT !.conns[c] = C, !.tubes = f, !.waiting_ct = n]

\* What a wait that begins or ends leaves of the engine.
Waited(s, r, c, C) ==
    /\ r.jobs = s.jobs /\ DOMAIN r.tubes = DOMAIN s.tubes /\ r.next_job_id = s.next_job_id
    /\ OthersSame(s, r, c) /\ r.conns[c] = C

\* A wait that begins or ends with its registrations keeps the engine sound.
LEMMA TurnKeeps ==
    ASSUME NEW s, NEW hand, NEW c, NEW C, NEW f, NEW n \in Nat, Sound(s, hand),
           Turned(s, turn(s, c, C, f, n), c, C, f)
    PROVE  Sound(turn(s, c, C, f, n), hand) /\ Waited(s, turn(s, c, C, f, n), c, C)
<1> DEFINE r == turn(s, c, C, f, n)
<1> USE DEF Turned
<1>1. /\ r.jobs = s.jobs /\ r.tubes = f /\ r.conns = [s.conns EXCEPT ![c] = C]
      /\ r.next_job_id = s.next_job_id /\ r.tube_order = s.tube_order
  BY Zenon DEF Sound, EngineType, turn
<1>2. f \in [DOMAIN s.tubes -> TubeType]
  BY Zenon DEF MayTurn
<1>3. EngineType(r)
  BY <1>2, Zenon DEF Sound, EngineType, turn
<1> HIDE DEF r
<1>4. /\ r.conns[c] = C /\ DOMAIN r.conns = DOMAIN s.conns
      /\ \A d \in DOMAIN s.conns : d # c => r.conns[d] = s.conns[d]
  BY <1>1, Zenon
<1>5. Quiet(s, r)
  <2>1. ASSUME NEW d \in DOMAIN s.conns
        PROVE  SameHeld(r.conns[d], s.conns[d]) /\ r.conns[d].use_tube = s.conns[d].use_tube
    <3>1. CASE d = c
      BY <1>4, <3>1, Zenon DEF SameRole
    <3>2. CASE d # c
      BY <1>4, <3>2, Zenon DEF SameHeld
    <3> QED BY <3>1, <3>2, Zenon
  <2> QED BY <1>1, <1>4, <2>1, Zenon DEF Quiet, MayTurn
<1>6. SamePending(s, r)
  BY <1>1, <1>4, Zenon DEF SamePending, SameRole
<1>7. Filed(r, hand) /\ RefsSound(r) /\ IdsFresh(r)
  BY <1>5, <1>6, QuietKeeps, Zenon
<1>8. WaitersSound(r)
  BY <1>1, Zenon DEF WaitersSound, MayTurn, r
<1> QED BY <1>1, <1>3, <1>4, <1>7, <1>8, ZenonT(60) DEF Sound, Waited, OthersSame, r

\* do_remove_waiting_conn: the connection waits nowhere afterwards.
LEMMA RemoveWaiting ==
    ASSUME Laws, NEW s, NEW hand, Sound(s, hand), NEW c \in DOMAIN s.conns
    PROVE  \E C : /\ Sound(do_remove_waiting_conn(s, c), hand)
                  /\ Waited(s, do_remove_waiting_conn(s, c), c, C)
                  /\ SameRole(C, s.conns[c]) /\ SameHeld(C, s.conns[c]) /\ ~C.waiting
<1> DEFINE cs == s.conns[c]
           watched == Range(cs.watch)
           C == set_wait(cs, FALSE, None)
           n == saturating_sub(s.waiting_ct, 1)
           f == [t \in DOMAIN s.tubes |->
                   IF t \in watched THEN drop_waiter(s.tubes[t], c) ELSE s.tubes[t]]
           r == turn(s, c, C, f, n)
<1>1. CASE ~cs.waiting
  <2>1. do_remove_waiting_conn(s, c) = s
    BY <1>1, Zenon DEF do_remove_waiting_conn
  <2>2. Waited(s, s, c, cs) /\ SameRole(cs, cs) /\ SameHeld(cs, cs)
    BY Zenon DEF Waited, OthersSame, SameRole, SameHeld
  <2> QED BY <1>1, <2>1, <2>2, Zenon
<1>2. CASE cs.waiting
  <2>1. do_remove_waiting_conn(s, c) = r
    BY <1>2, Zenon DEF do_remove_waiting_conn, turn
  <2>2. cs \in ConnType /\ None \in OptionalNat
    BY SoundRecords, Zenon DEF OptionalNat
  <2>3. C \in ConnType /\ SameRole(C, cs) /\ SameHeld(C, cs) /\ C.waiting = FALSE
    BY <2>2, SetWait, Zenon
  <2>4. n \in Nat
    BY SaturatingSub, Zenon DEF Sound, EngineType
  <2>5. r.conns = [s.conns EXCEPT ![c] = C]
    BY Zenon DEF turn, Sound, EngineType
  <2> HIDE DEF C, n, r
  <2>6. /\ r.conns[c] = C /\ DOMAIN r.conns = DOMAIN s.conns
        /\ \A d \in DOMAIN s.conns : d # c => r.conns[d] = s.conns[d]
    BY <2>5, Zenon
  <2>7. ASSUME NEW t, NEW d, d # c, Waiter(s, t, d) PROVE Waiter(r, t, d)
    BY <2>6, <2>7, Zenon DEF Waiter
  <2>8. ASSUME NEW t \in DOMAIN s.tubes PROVE MayTurn(r, t, s.tubes[t], f[t])
    <3> DEFINE ts == s.tubes[t]
    <3>1. /\ ts \in TubeType /\ Indexed(ts) /\ IsInjective(ts.waiting_conns.items)
          /\ \A d \in Range(ts.waiting_conns.items) : Waiter(s, t, d)
      BY SoundRecords, Zenon DEF Sound, WaitersSound
    <3>2. CASE t \in watched
      <4> DEFINE T == drop_waiter(ts, c)
      <4>1. f[t] = T
        BY <3>2, Zenon
      <4>2. /\ T \in TubeType /\ Indexed(T) /\ SameRefs(T, ts) /\ SameJobSets(T, ts)
            /\ Range(T.waiting_conns.items) = Range(ts.waiting_conns.items) \ {c}
            /\ IsInjective(T.waiting_conns.items)
        BY <3>1, DropWaiter, Zenon
      <4> HIDE DEF T, f
      <4> QED BY <2>7, <3>1, <4>1, <4>2, Zenon DEF MayTurn, SameRefs
    <3>3. CASE t \notin watched
      <4>1. f[t] = ts
        BY <3>3, Zenon
      <4>2. \A d \in Range(ts.waiting_conns.items) : d # c
        BY <3>1, <3>3, ZenonT(30) DEF Waiter
      <4> QED BY <2>7, <3>1, <4>1, <4>2, Zenon DEF MayTurn, SameJobSets
    <3> QED BY <3>2, <3>3, Zenon
  <2>9. Turned(s, r, c, C, f)
    BY <2>3, <2>8, Zenon DEF Turned
  <2> HIDE DEF f
  <2>10. Sound(r, hand) /\ Waited(s, r, c, C)
    BY <2>4, <2>9, TurnKeeps, Zenon DEF r
  <2> QED BY <2>1, <2>3, <2>10, Zenon
<1> QED BY <1>1, <1>2, Zenon

\* enqueue_waiting_conn of a connection that does not wait yet.
LEMMA EnqueueWaiting ==
    ASSUME Laws, NEW s, NEW hand, Sound(s, hand), NEW c \in DOMAIN s.conns, ~s.conns[c].waiting,
           NEW wait_deadline \in OptionalNat
    PROVE  \E C : /\ Sound(enqueue_waiting_conn(s, c, wait_deadline), hand)
                  /\ Waited(s, enqueue_waiting_conn(s, c, wait_deadline), c, C)
                  /\ SameRole(C, s.conns[c]) /\ SameHeld(C, s.conns[c]) /\ C.waiting
<1> DEFINE cs == s.conns[c]
           watched == Range(cs.watch)
           C == set_wait(cs, TRUE, wait_deadline)
           n == s.waiting_ct + 1
           f == [t \in DOMAIN s.tubes |->
                   IF t \in watched THEN add_waiter(s.tubes[t], c) ELSE s.tubes[t]]
           r == turn(s, c, C, f, n)
<1>1. enqueue_waiting_conn(s, c, wait_deadline) = r
  BY Zenon DEF enqueue_waiting_conn, turn
<1>2. cs \in ConnType /\ c \in ConnIds
  BY SoundRecords, Zenon
<1>3. C \in ConnType /\ SameRole(C, cs) /\ SameHeld(C, cs) /\ C.waiting = TRUE
  BY <1>2, SetWait, Zenon
<1>4. n \in Nat
  BY DEF Sound, EngineType
<1>5. r.conns = [s.conns EXCEPT ![c] = C]
  BY Zenon DEF turn, Sound, EngineType
<1> HIDE DEF C, n, r
<1>6. /\ r.conns[c] = C /\ DOMAIN r.conns = DOMAIN s.conns
      /\ \A d \in DOMAIN s.conns : d # c => r.conns[d] = s.conns[d]
  BY <1>5, Zenon
<1>7. ASSUME NEW t, NEW d, Waiter(s, t, d) PROVE d # c /\ Waiter(r, t, d)
  BY <1>6, <1>7, Zenon DEF Waiter
<1>8. ASSUME NEW t \in watched PROVE Waiter(r, t, c)
  BY <1>3, <1>6, Zenon DEF Waiter, SameRole
<1>9. ASSUME NEW t \in DOMAIN s.tubes PROVE MayTurn(r, t, s.tubes[t], f[t])
  <2> DEFINE ts == s.tubes[t]
             q == ts.waiting_conns.items
  <2>1. /\ ts \in TubeType /\ Indexed(ts) /\ IsInjective(q)
        /\ \A d \in Range(q) : Waiter(s, t, d)
    BY SoundRecords, Zenon DEF Sound, WaitersSound
  <2>2. CASE t \in watched
    <3> DEFINE T == add_waiter(ts, c)
    <3>1. f[t] = T
      BY <2>2, Zenon
    <3>2. /\ T \in TubeType /\ Indexed(T) /\ SameRefs(T, ts) /\ SameJobSets(T, ts)
          /\ T.waiting_conns.items = Append(q, c)
      BY <1>2, <2>1, AddWaiter, Zenon
    <3>3. q \in Seq(ConnIds) /\ c \notin Range(q)
      BY <1>7, <2>1, Zenon DEF TubeType, MsType
    <3> HIDE DEF T, f, q
    <3>4. IsInjective(Append(q, c)) /\ Range(Append(q, c)) = Range(q) \cup {c}
      BY <1>2, <2>1, <3>3, AppendNew, SMTT(30)
    <3> QED BY <1>7, <1>8, <2>1, <2>2, <3>1, <3>2, <3>4, ZenonT(60) DEF MayTurn, SameRefs
  <2>3. CASE t \notin watched
    <3>1. f[t] = ts
      BY <2>3, Zenon
    <3> QED BY <1>7, <2>1, <3>1, Zenon DEF MayTurn, SameJobSets
  <2> QED BY <2>2, <2>3, Zenon
<1>10. Turned(s, r, c, C, f)
  BY <1>3, <1>9, Zenon DEF Turned
<1> HIDE DEF f
<1>11. Sound(r, hand) /\ Waited(s, r, c, C)
  BY <1>4, <1>10, TurnKeeps, Zenon DEF r
<1> QED BY <1>1, <1>3, <1>11, Zenon

\* The engine record with other tubes, or another record for one tube.
retube(s, f) == [s EXCEPT !.tubes = f]

\* The tubes turn and everything else stays.
LEMMA RetubeKeeps ==
    ASSUME NEW s, NEW hand, NEW f, Sound(s, hand),
           f = [t \in DOMAIN s.tubes |-> f[t]], DOMAIN f = DOMAIN s.tubes,
           \A t \in DOMAIN s.tubes : MayTurn(s, t, s.tubes[t], f[t])
    PROVE  /\ Sound(retube(s, f), hand)
           /\ retube(s, f).jobs = s.jobs /\ retube(s, f).conns = s.conns
           /\ retube(s, f).next_job_id = s.next_job_id /\ retube(s, f).tubes = f
<1> DEFINE r == retube(s, f)
<1>1. /\ r.jobs = s.jobs /\ r.tubes = f /\ r.conns = s.conns /\ r.next_job_id = s.next_job_id /\ r.tube_order = s.tube_order
  BY Zenon DEF Sound, EngineType, retube
<1>2. f \in [DOMAIN s.tubes -> TubeType]
  BY Zenon DEF MayTurn
<1>3. EngineType(r)
  BY <1>2, Zenon DEF Sound, EngineType, retube
<1> HIDE DEF r
<1>4. Quiet(s, r) /\ SamePending(s, r)
  BY <1>1, Zenon DEF Quiet, SamePending, MayTurn, SameHeld
<1>5. Filed(r, hand) /\ RefsSound(r) /\ IdsFresh(r)
  BY <1>4, QuietKeeps, Zenon
<1>6. \A t, c : Waiter(s, t, c) => Waiter(r, t, c)
  BY <1>1, Zenon DEF Waiter
<1>7. WaitersSound(r)
  BY <1>1, <1>6, ZenonT(60) DEF WaitersSound, MayTurn
<1> QED BY <1>1, <1>3, <1>5, <1>7, ZenonT(60) DEF Sound, r

\* What an update of the tubes leaves of the engine.
TubesOnly(s, r, hand) ==
    /\ Sound(r, hand) /\ r.jobs = s.jobs /\ r.conns = s.conns
    /\ r.next_job_id = s.next_job_id /\ DOMAIN r.tubes = DOMAIN s.tubes

tube_set(s, t, T) == [s EXCEPT !.tubes[t] = T]

\* One tube becomes T.
LEMMA TubeSet ==
    ASSUME NEW s, NEW hand, NEW t \in DOMAIN s.tubes, NEW T, Sound(s, hand),
           MayTurn(s, t, s.tubes[t], T)
    PROVE  TubesOnly(s, tube_set(s, t, T), hand)
<1> DEFINE f == [s.tubes EXCEPT ![t] = T]
<1>1. s.tubes = [u \in DOMAIN s.tubes |-> s.tubes[u]]
  BY Zenon DEF Sound, EngineType
<1>2. /\ f[t] = T /\ \A u \in DOMAIN s.tubes : u # t => f[u] = s.tubes[u]
      /\ DOMAIN f = DOMAIN s.tubes
  BY Zenon
<1>3. f = [u \in DOMAIN s.tubes |-> f[u]]
  BY <1>1, Zenon
<1> HIDE DEF f
<1>4. ASSUME NEW u \in DOMAIN s.tubes PROVE MayTurn(s, u, s.tubes[u], f[u])
  <2>1. MayTurn(s, u, s.tubes[u], s.tubes[u])
    BY SoundRecords, Zenon DEF MayTurn, SameJobSets, Sound, WaitersSound
  <2>2. CASE u = t
    BY <1>2, <2>2, ZenonT(30)
  <2>3. CASE u # t
    BY <1>2, <2>1, <2>3, Zenon
  <2> QED BY <2>2, <2>3, Zenon
<1>5. tube_set(s, t, T) = retube(s, f)
  BY Zenon DEF tube_set, retube, f
<1> QED BY <1>2, <1>3, <1>4, <1>5, RetubeKeeps, SMTT(30) DEF TubesOnly

\* A tube record whose pause or count of watchers changes.
LEMMA TubeFields ==
    ASSUME NEW s, NEW hand, NEW t \in DOMAIN s.tubes, Sound(s, hand),
           NEW u \in OptionalNat, NEW n \in Nat
    PROVE  /\ MayTurn(s, t, s.tubes[t], s.tubes[t])
           /\ MayTurn(s, t, s.tubes[t], [s.tubes[t] EXCEPT !.unpause_at = u])
           /\ MayTurn(s, t, s.tubes[t], [s.tubes[t] EXCEPT !.watching_ct = n])
<1> DEFINE ts == s.tubes[t]
           A == [ts EXCEPT !.unpause_at = u]
           B == [ts EXCEPT !.watching_ct = n]
<1>1. /\ ts \in TubeType /\ Indexed(ts) /\ IsInjective(ts.waiting_conns.items)
      /\ \A c \in Range(ts.waiting_conns.items) : Waiter(s, t, c)
  BY SoundRecords, Zenon DEF Sound, WaitersSound
<1> HIDE DEF ts
<1>2. /\ A \in TubeType /\ SameJobSets(A, ts) /\ A.using_ct = ts.using_ct
      /\ A.job_ref_ct = ts.job_ref_ct /\ Indexed(A) /\ A.waiting_conns = ts.waiting_conns
  BY <1>1, Zenon DEF TubeType, SameJobSets, Indexed, DispatchableExact, DelayHeadExact
<1>3. /\ B \in TubeType /\ SameJobSets(B, ts) /\ B.using_ct = ts.using_ct
      /\ B.job_ref_ct = ts.job_ref_ct /\ Indexed(B) /\ B.waiting_conns = ts.waiting_conns
  BY <1>1, ZenonT(30) DEF TubeType, SameJobSets, Indexed, DispatchableExact, DelayHeadExact
<1> HIDE DEF A, B
<1>4. MayTurn(s, t, ts, ts) /\ MayTurn(s, t, ts, A) /\ MayTurn(s, t, ts, B)
  BY <1>1, <1>2, <1>3, ZenonT(60) DEF MayTurn, SameJobSets
<1> QED BY <1>4, Zenon DEF A, B, ts

\* Ending the pauses that are over touches neither jobs nor waiters.
LEMMA ClearPauses ==
    ASSUME NEW s, NEW hand, NEW at, Sound(s, hand)
    PROVE  TubesOnly(s, clear_expired_pauses(s, at), hand)
<1> DEFINE Expired(ts) == ts.unpause_at # None /\ ts.unpause_at <= at
           f == [t \in DOMAIN s.tubes |->
                   IF Expired(s.tubes[t]) THEN [s.tubes[t] EXCEPT !.unpause_at = None]
                   ELSE s.tubes[t]]
<1>1. clear_expired_pauses(s, at) = retube(s, f)
  BY Zenon DEF clear_expired_pauses, retube
<1>2. None \in OptionalNat /\ 0 \in Nat
  BY Zenon DEF OptionalNat
<1>3. \A t \in DOMAIN s.tubes : MayTurn(s, t, s.tubes[t], f[t])
  BY <1>2, TubeFields, Zenon
<1>4. f = [t \in DOMAIN s.tubes |-> f[t]] /\ DOMAIN f = DOMAIN s.tubes
  BY Zenon
<1> HIDE DEF f
<1> QED BY <1>1, <1>3, <1>4, RetubeKeeps, SMTT(30) DEF TubesOnly

\* cmd_pause_tube.
LEMMA PauseTubeSound ==
    ASSUME NEW s, NEW hand, NEW t \in DOMAIN s.tubes, NEW delay \in Nat, NEW at \in Nat,
           Sound(s, hand)
    PROVE  TubesOnly(s, cmd_pause_tube(s, t, delay, at), hand)
<1> DEFINE u == at + (IF delay = 0 THEN 1 ELSE delay * NanosPerSec)
           T == [s.tubes[t] EXCEPT !.unpause_at = u]
<1>1. cmd_pause_tube(s, t, delay, at) = tube_set(s, t, T)
  BY Zenon DEF cmd_pause_tube, tube_set
<1>2. NanosPerSec \in Nat
  BY ConstantsAssumption, Zenon
<1>3. u \in OptionalNat /\ 0 \in Nat
  BY <1>2 DEF OptionalNat
<1> HIDE DEF u
<1>4. MayTurn(s, t, s.tubes[t], T)
  BY <1>3, TubeFields, Zenon
<1> HIDE DEF T
<1> QED BY <1>1, <1>4, TubeSet, Zenon

\* The engine record with another count of watchers of tube t.
set_watching(s, t, n) == [s EXCEPT !.tubes[t].watching_ct = n]

\* The count of a tube's watchers changes.
LEMMA SetWatching ==
    ASSUME NEW s, NEW hand, NEW t \in DOMAIN s.tubes, NEW n \in Nat, Sound(s, hand)
    PROVE  TubesOnly(s, set_watching(s, t, n), hand)
<1> DEFINE T == [s.tubes[t] EXCEPT !.watching_ct = n]
           r == set_watching(s, t, n)
<1>1. r = tube_set(s, t, T)
  BY Zenon DEF tube_set, set_watching
<1>2. None \in OptionalNat
  BY Zenon DEF OptionalNat
<1>3. MayTurn(s, t, s.tubes[t], T)
  BY <1>2, TubeFields, Zenon
<1> HIDE DEF T, r
<1>4. TubesOnly(s, r, hand)
  BY <1>1, <1>3, TubeSet, Zenon
<1> QED BY <1>4, Zenon DEF r

\* The round-robin takes one of the tube's waiters out of its list.
LEMMA TakeWaiterSound ==
    ASSUME NEW s, NEW hand, NEW t \in DOMAIN s.tubes, Sound(s, hand),
           s.tubes[t].waiting_conns.items # <<>>
    PROVE  LET r == [s EXCEPT !.tubes[t] = take_waiter(@)]
               c == ms_taken(s.tubes[t].waiting_conns)
           IN  /\ TubesOnly(s, r, hand)
               /\ c \in DOMAIN s.conns /\ s.conns[c].waiting
<1> DEFINE ts == s.tubes[t]
           T == take_waiter(ts)
           c == ms_taken(ts.waiting_conns)
           r == [s EXCEPT !.tubes[t] = take_waiter(@)]
<1>1. r = tube_set(s, t, T)
  BY Zenon DEF tube_set
<1>2. /\ ts \in TubeType /\ Indexed(ts) /\ IsInjective(ts.waiting_conns.items)
      /\ ts.waiting_conns.items # <<>>
      /\ \A d \in Range(ts.waiting_conns.items) : Waiter(s, t, d)
  BY SoundRecords, Zenon DEF Sound, WaitersSound
<1> HIDE DEF ts, r
<1>3. /\ T \in TubeType /\ Indexed(T) /\ SameRefs(T, ts) /\ SameJobSets(T, ts)
      /\ c \in Range(ts.waiting_conns.items)
      /\ Range(T.waiting_conns.items) = Range(ts.waiting_conns.items) \ {c}
      /\ IsInjective(T.waiting_conns.items)
  BY <1>2, TakeWaiter, Zenon
<1> HIDE DEF T, c
<1>4. MayTurn(s, t, ts, T)
  BY <1>2, <1>3, Zenon DEF MayTurn, SameRefs
<1>5. c \in DOMAIN s.conns /\ s.conns[c].waiting
  BY <1>2, <1>3, Zenon DEF Waiter
<1>6. TubesOnly(s, r, hand)
  BY <1>1, <1>4, TubeSet, Zenon DEF ts
<1> QED BY <1>5, <1>6, Zenon DEF r, ts, c

\* A reply counts down what the connection is owed.
LEMMA ReplySound ==
    ASSUME NEW s, NEW hand, Sound(s, hand), NEW c \in DOMAIN s.conns
    PROVE  /\ Sound(reply(s, c), hand) /\ Sound(accept(s, c), hand)
           /\ \A r \in {reply(s, c), accept(s, c)} :
                /\ r.jobs = s.jobs /\ r.tubes = s.tubes /\ r.next_job_id = s.next_job_id
                /\ OthersSame(s, r, c) /\ SameHeld(r.conns[c], s.conns[c])
                /\ r.conns[c].use_tube = s.conns[c].use_tube
                /\ r.conns[c].watch = s.conns[c].watch
                /\ r.conns[c].pending_put = s.conns[c].pending_put
                /\ r.conns[c].waiting = s.conns[c].waiting
           /\ reply(s, c).conns[c].owed = s.conns[c].owed - 1
           /\ accept(s, c).conns[c].owed = s.conns[c].owed + 1
<1> DEFINE set(n) == [s EXCEPT !.conns[c].owed = n]
           Good(r) == /\ Sound(r, hand)
                      /\ r.jobs = s.jobs /\ r.tubes = s.tubes /\ r.next_job_id = s.next_job_id
                      /\ OthersSame(s, r, c) /\ SameHeld(r.conns[c], s.conns[c])
                      /\ r.conns[c].use_tube = s.conns[c].use_tube
                      /\ r.conns[c].watch = s.conns[c].watch
                      /\ r.conns[c].pending_put = s.conns[c].pending_put
                      /\ r.conns[c].waiting = s.conns[c].waiting
<1>1. ASSUME NEW n \in Int PROVE Good(set(n)) /\ set(n).conns[c].owed = n
  BY SetOwed, SMTT(30) DEF OthersSame
<1>2. s.conns[c].owed \in Int
  <2>1. s.conns[c] \in ConnType
    BY SoundRecords, Zenon
  <2> QED BY <2>1, Zenon DEF ConnType
<1> DEFINE less == s.conns[c].owed - 1
           more == s.conns[c].owed + 1
<1>3. reply(s, c) = set(less) /\ accept(s, c) = set(more)
  BY Zenon DEF reply, accept
<1>4. less \in Int /\ more \in Int
  BY <1>2
<1> HIDE DEF set, less, more
<1>5. Good(reply(s, c)) /\ reply(s, c).conns[c].owed = less
  BY <1>1, <1>3, <1>4, ZenonT(60)
<1>6. Good(accept(s, c)) /\ accept(s, c).conns[c].owed = more
  BY <1>1, <1>3, <1>4, ZenonT(60)
<1> QED BY <1>5, <1>6, ZenonT(60) DEF less, more

\* A wait is over and the connection is answered.
LEMMA EndWait ==
    ASSUME Laws, NEW s, Sound(s, {}), NEW c \in DOMAIN s.conns
    PROVE  LET r == reply(do_remove_waiting_conn(s, c), c)
           IN  /\ Sound(r, {}) /\ OthersSame(s, r, c) /\ ~r.conns[c].waiting
               /\ r.conns[c].owed = s.conns[c].owed - 1
<1> DEFINE x == do_remove_waiting_conn(s, c)
           r == reply(x, c)
<1>1. PICK C : /\ Sound(x, {}) /\ Waited(s, x, c, C)
               /\ SameRole(C, s.conns[c]) /\ ~C.waiting
  BY RemoveWaiting, Zenon
<1> HIDE DEF x
<1>2. c \in DOMAIN x.conns /\ OthersSame(s, x, c) /\ ~x.conns[c].waiting
      /\ x.conns[c].owed = s.conns[c].owed
  BY <1>1, Zenon DEF Waited, OthersSame, SameRole
<1>3. /\ Sound(r, {}) /\ OthersSame(x, r, c) /\ r.conns[c].waiting = x.conns[c].waiting
      /\ r.conns[c].owed = x.conns[c].owed - 1
  BY <1>1, <1>2, ReplySound, ZenonT(30)
<1> HIDE DEF r
<1> QED BY <1>2, <1>3, Zenon DEF OthersSame, r, x
=============================================================================
