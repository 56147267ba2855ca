---------------------------- MODULE ForwardProofs ---------------------------
(***************************************************************************)
(* Forwarding keeps its promise: the theorems about module Forward, for    *)
(* any number of nodes, connections and inputs.                            *)
(*                                                                         *)
(* First every step of module Forward keeps what its inductive invariant   *)
(* says of the inputs: their types, their numbers and their order. Then a  *)
(* connection that closes, and the refinement of module Sessions.          *)
(***************************************************************************)
EXTENDS Forward, TLAPS, FiniteSetTheorems

-----------------------------------------------------------------------------
(* Types. *)

\* Queues of anything: adding at the end, taking from the front.
LEMMA QueueFacts ==
    ASSUME NEW S, NEW s \in Seq(S)
    PROVE  /\ \A e \in S : Append(s, e) \in Seq(S)
           /\ s # <<>> => Head(s) \in S /\ Tail(s) \in Seq(S)
OBVIOUS

\* A function of queues with one of them extended.
LEMMA QueuesFacts ==
    ASSUME NEW D, NEW S, NEW f \in [D -> Seq(S)], NEW d \in D, NEW e \in S
    PROVE  [f EXCEPT ![d] = Append(@, e)] \in [D -> Seq(S)]
<1>1. f[d] \in Seq(S)
  BY Zenon
<1>2. Append(f[d], e) \in Seq(S)
  BY <1>1, QueueFacts, Zenon
<1> QED
  BY <1>2, Zenon

\* The elements of a sequence over S are in S.
LEMMA ElementFacts ==
    ASSUME NEW S, NEW s \in Seq(S), NEW k \in 1..Len(s)
    PROVE  s[k] \in S
OBVIOUS

\* What the proofs use of the library's theorems about finite sets.  They
\* carry it as a hypothesis, which CountingHolds discharges.
Counting ==
    /\ IsFiniteSet({})
    /\ \A S : IsFiniteSet(S) =>
          /\ Cardinality(S) \in Nat
          /\ \A T \in SUBSET S : IsFiniteSet(T)
          /\ \A T : IsFiniteSet(T) => IsFiniteSet(S \cup T)
          /\ \A x : IsFiniteSet(S \cup {x})
          /\ \A f : IsFiniteSet({f[x] : x \in S})

\* The forward queue and its parts are finite: an empty queue,
LEMMA NoneFinite ==
    ASSUME Counting
    PROVE  IsFiniteSet({})
BY Zenon DEF Counting
\* its size,
LEMMA SizeType ==
    ASSUME Counting, NEW S, IsFiniteSet(S)
    PROVE  Cardinality(S) \in Nat
BY Zenon DEF Counting
\* a part of it (prune, applied),
LEMMA PartFinite ==
    ASSUME Counting, NEW S, IsFiniteSet(S), NEW T \in SUBSET S
    PROVE  IsFiniteSet(T)
BY Zenon DEF Counting
\* two parts together (send_next),
LEMMA UnionFinite ==
    ASSUME Counting, NEW S, IsFiniteSet(S), NEW T, IsFiniteSet(T)
    PROVE  IsFiniteSet(S \cup T)
BY Zenon DEF Counting
\* one more item (push),
LEMMA MoreFinite ==
    ASSUME Counting, NEW S, NEW x, IsFiniteSet(S)
    PROVE  IsFiniteSet(S \cup {x})
BY Zenon DEF Counting
\* and a set every element of which is the image of an element of a finite
\* set (the passes in use).
LEMMA ImageFinite ==
    ASSUME Counting, NEW S, IsFiniteSet(S), NEW f, NEW T, \A t \in T : \E x \in S : t = f[x]
    PROVE  IsFiniteSet(T)
<1> DEFINE I == {f[x] : x \in S}
<1>1. IsFiniteSet(I)
  BY DEF Counting
<1>2. T \in SUBSET I
  BY Zenon
<1> QED
  BY <1>1, <1>2, PartFinite, Zenon

\* Renumbering the passes of a rewound queue keeps it a finite set of items
\* (ForwardQueue::rewind).
LEMMA RewoundType ==
    ASSUME Counting, NEW q, q \subseteq QueueItem, IsFiniteSet(q), Rewound(q)
    PROVE  /\ cursor' \in Nat /\ pass' \in Nat
           /\ queue' \subseteq QueueItem /\ IsFiniteSet(queue')
<1> DEFINE live == {f \in q : f.sends > 0}
           used == {e.pass : e \in live}
           rank(p) == Cardinality({u \in used : u < p})
           move == [e \in q |-> [e EXCEPT !.pass = IF e.sends > 0 THEN rank(@) ELSE 0]]
           passOf == [e \in live |-> e.pass]
<1>1. IsFiniteSet(live)
  BY PartFinite, Zenon
<1>2. IsFiniteSet(used)
  <2>1. \A t \in used : \E e \in live : t = passOf[e]
    BY Zenon
  <2> HIDE DEF used, live, passOf
  <2> QED BY <1>1, <2>1, ImageFinite, Zenon
<1>3. \A p : rank(p) \in Nat
  BY <1>2, PartFinite, SizeType, Zenon
<1>4. queue' = {move[e] : e \in q} /\ cursor' = 0 /\ pass' = Cardinality(used)
  BY Zenon DEF Rewound
<1>5. IsFiniteSet(queue')
  <2>1. \A t \in queue' : \E e \in q : t = move[e]
    BY <1>4, Zenon
  <2> HIDE DEF move
  <2> QED BY <2>1, ImageFinite, Zenon
<1>6. \A e \in q : move[e] \in QueueItem
  BY <1>3, Zenon DEF QueueItem
<1> QED
  BY <1>2, <1>4, <1>5, <1>6, SizeType, Zenon

\* A queued item whose marks change is a queued item.
LEMMA MarkedType ==
    ASSUME NEW e \in QueueItem, NEW n \in 0..2, NEW p \in Nat
    PROVE  [e EXCEPT !.sends = n, !.pass = p] \in QueueItem
BY Zenon DEF QueueItem

\* So does marking items as sent (ForwardQueue::send_next).
LEMMA SendNextType ==
    ASSUME Counting, QueueType, NEW batch \in SUBSET queue, SendNext(batch)
    PROVE  /\ cursor' \in Nat
           /\ queue' \subseteq QueueItem /\ IsFiniteSet(queue')
<1> DEFINE mark == [e \in batch |-> [e EXCEPT !.sends = IF @ = 0 THEN 1 ELSE 2,
                                             !.pass = pass]]
           marked == {mark[e] : e \in batch}
<1>1. queue' = (queue \ batch) \cup marked /\ cursor' \in {e.at + 1 : e \in batch}
  BY Zenon DEF SendNext
<1>2. ASSUME NEW e \in batch
      PROVE  mark[e] \in QueueItem /\ e.at + 1 \in Nat
  <2>1. e \in QueueItem /\ pass \in Nat
    BY Zenon DEF QueueType
  <2> DEFINE n == IF e.sends = 0 THEN 1 ELSE 2
  <2>2. n \in 0..2 /\ mark[e] = [e EXCEPT !.sends = n, !.pass = pass]
    OBVIOUS
  <2>3. e.at + 1 \in Nat
    BY <2>1 DEF QueueItem
  <2> HIDE DEF n, mark
  <2> QED
    BY <2>1, <2>2, <2>3, MarkedType, ZenonT(60)
<1>3. IsFiniteSet(batch) /\ IsFiniteSet(queue \ batch)
  BY PartFinite, Zenon DEF QueueType
<1>4. IsFiniteSet(marked)
  <2>1. \A t \in marked : \E e \in batch : t = mark[e]
    BY Zenon
  <2> HIDE DEF mark, marked
  <2> QED BY <1>3, <2>1, ImageFinite, Zenon
<1>5. IsFiniteSet((queue \ batch) \cup marked)
  BY <1>3, <1>4, UnionFinite, Zenon
<1> QED
  BY <1>1, <1>2, <1>5, Zenon DEF QueueType

\* So does queueing an item (Actor::push).
LEMMA PushType ==
    ASSUME Counting, QueueType, SentType, NEW c \in Conns, NEW seq \in Nat,
           NEW input \in Inputs, push(c, seq, input)
    PROVE  /\ QueueType'
           /\ sent' \in [Conns -> Seq(Inputs)] /\ arrivals' \in Nat
<1> DEFINE new == [conn |-> c, seq |-> seq, input |-> input,
                   at |-> arrivals, sends |-> 0, pass |-> 0]
<1>1. queue' = queue \cup {new} /\ new \in QueueItem
  BY DEF push, SentType, QueueItem
<1>2. IsFiniteSet(queue')
  BY <1>1, MoreFinite, Zenon DEF QueueType
<1>3. QueueType'
  BY <1>1, <1>2, Zenon DEF push, QueueType
<1> QED
  BY <1>3 DEF push, SentType

\* What is sent of items is items (the contents of a batch).
LEMMA ContentType ==
    ASSUME QueueType, NEW batch \in SUBSET queue
    PROVE  {Content(e) : e \in batch} \in SUBSET Item
BY DEF QueueType, QueueItem, Item, Content

\* A budget stays a budget.
LEMMA SpendType ==
    ASSUME budget \in [Kinds -> Nat], NEW kinds, Spend(kinds)
    PROVE  budget' \in [Kinds -> Nat]
<1> SUFFICES ASSUME NEW k \in Kinds
             PROVE  (IF k \in kinds THEN budget[k] - 1 ELSE budget[k]) \in Nat
  BY Zenon DEF Spend
<1>1. budget[k] \in Nat /\ (k \in kinds => budget[k] > 0)
  BY Zenon DEF Spend
<1> QED
  BY <1>1

\* The inputs of the actor and the connection tasks.
LEMMA InputsFacts ==
    /\ {"Connect", "Disconnect", "PutRejected"} \subseteq Inputs
    /\ Commands \subseteq Inputs
    /\ Me \in Nodes /\ Peers \subseteq Nodes /\ Conns \subseteq Nat
BY NodesAssumption, ConnsAssumption, Zenon DEF Inputs, Peers

-----------------------------------------------------------------------------
(* Which steps touch what. *)

Gives == \E c \in Conns :
    Connect(c) \/ Disconnect(c) \/ \E input \in Commands : Command(c, input)
Hears == \E recently \in BOOLEAN : on_event(recently)
Ticks == \E stalled, cut_off, done \in BOOLEAN : on_tick(stalled, cut_off, done)
Carries == \E r \in net : forward(r) \/ \E served \in BOOLEAN : Lose(r, served)
Proposes == \E n \in Nodes : propose(n)

\* A step changes a variable only if it is one of the actions listed with it.
Frame ==
    /\ Gives \/ UNCHANGED <<sent, seqs, arrivals, task>>
    /\ Gives \/ Hears \/ Ticks \/ Shutdown \/ (\E c \in Conns : closed(c))
       \/ UNCHANGED fired
    /\ \/ Gives \/ Hears \/ Ticks \/ on_view_change \/ on_forward_result
       \/ PumpLeading \/ PumpForward \/ UNCHANGED <<queue, cursor, pass>>
    /\ \/ Ticks \/ Shutdown \/ on_view_change \/ on_forward_result \/ PumpForward
       \/ UNCHANGED <<seen, hint, inflight, isolated, stage>>
    /\ \/ Carries \/ on_view_change \/ on_forward_result \/ PumpForward
       \/ UNCHANGED <<net, answer>>
    /\ Carries \/ Proposes \/ PumpLeading \/ UNCHANGED prop
    /\ (\E n \in Nodes : LearnView(n) \/ Elect(n)) \/ UNCHANGED <<view, lead>>
    /\ Proposes \/ Commit \/ (\E n \in Nodes : Elect(n))
       \/ (\E up_to \in Conns : DropNode(up_to)) \/ UNCHANGED tail
    /\ Commit \/ ApplyConn \/ ApplyDropNode \/ UNCHANGED pend
    /\ ApplyConn \/ ApplyDropNode \/ UNCHANGED <<next_seq, highest, fed>>
    /\ Hears \/ ApplyConn \/ UNCHANGED events
    /\ ApplyConn \/ ApplyDropNode \/ EndInstall \/ (\E c \in Conns : closed(c))
       \/ UNCHANGED closing
    /\ BeginInstall \/ EndInstall \/ UNCHANGED <<installing, install>>
    /\ (\E kinds \in SUBSET Kinds : Spend(kinds)) \/ UNCHANGED budget

\* Every step of Forward is framed so.
LEMMA Framed ==
    ASSUME [Next]_vars
    PROVE  Frame
<1> USE DEF actorVars, sendVars, modeVars, netVars, raftVars, stateVars,
            sinkVars, snapVars
<1>1. ASSUME NEW c \in Conns, Connect(c)
      PROVE  Frame
  <2>1. (\E kinds \in SUBSET Kinds : Spend(kinds)) \/ UNCHANGED budget
    BY <1>1, Zenon DEF Connect, Kinds
  <2> QED
    BY <1>1, <2>1, Zenon DEF Connect, Frame, Gives
<1>2. ASSUME NEW c \in Conns, Disconnect(c)
      PROVE  Frame
  BY <1>2, Zenon DEF Disconnect, Frame, Gives
<1>3. ASSUME NEW c \in Conns, NEW input \in Commands, Command(c, input)
      PROVE  Frame
  <2>1. (\E kinds \in SUBSET Kinds : Spend(kinds)) \/ UNCHANGED budget
    BY <1>3, Zenon DEF Command, Kinds
  <2> QED
    BY <1>3, <2>1, Zenon DEF Command, Frame, Gives
<1>4. ASSUME Shutdown
      PROVE  Frame
  <2>1. (\E kinds \in SUBSET Kinds : Spend(kinds)) \/ UNCHANGED budget
    BY <1>4, Zenon DEF Shutdown, Kinds
  <2> QED
    BY <1>4, <2>1, Zenon DEF Shutdown, Frame
<1>5. ASSUME NEW recently \in BOOLEAN, on_event(recently)
      PROVE  Frame
  BY <1>5, Zenon DEF on_event, Frame, Hears
<1>6. ASSUME on_view_change
      PROVE  Frame
  BY <1>6, Zenon DEF on_view_change, Frame
<1>7. ASSUME on_forward_result
      PROVE  Frame
  BY <1>7, Zenon DEF on_forward_result, Frame
<1>8. ASSUME PumpLeading
      PROVE  Frame
  BY <1>8, Zenon DEF PumpLeading, Frame
<1>9. ASSUME PumpForward
      PROVE  Frame
  <2>1. (\E kinds \in SUBSET Kinds : Spend(kinds)) \/ UNCHANGED budget
    BY <1>9, Zenon DEF PumpForward, Kinds
  <2> QED
    BY <1>9, <2>1, Zenon DEF PumpForward, Frame
<1>10. ASSUME NEW stalled \in BOOLEAN, NEW cut_off \in BOOLEAN, NEW done \in
              BOOLEAN, on_tick(stalled, cut_off, done)
      PROVE  Frame
  <2>1. (\E kinds \in SUBSET Kinds : Spend(kinds)) \/ UNCHANGED budget
    BY <1>10, Zenon DEF on_tick, Kinds
  <2> QED
    BY <1>10, <2>1, Zenon DEF on_tick, Frame, Ticks
<1>11. ASSUME NEW r \in net, forward(r)
      PROVE  Frame
  BY <1>11, Zenon DEF forward, Frame, Carries
<1>12. ASSUME NEW r \in net, NEW served \in BOOLEAN, Lose(r, served)
      PROVE  Frame
  <2>1. (\E kinds \in SUBSET Kinds : Spend(kinds)) \/ UNCHANGED budget
    BY <1>12, Zenon DEF Lose, Kinds
  <2> QED
    BY <1>12, <2>1, Zenon DEF Lose, Frame, Carries
<1>13. ASSUME NEW n \in Nodes, propose(n)
      PROVE  Frame
  BY <1>13, Zenon DEF propose, Frame, Proposes
<1>14. ASSUME NEW n \in Nodes, Elect(n)
      PROVE  Frame
  <2>1. (\E kinds \in SUBSET Kinds : Spend(kinds)) \/ UNCHANGED budget
    BY <1>14, Zenon DEF Elect, Kinds
  <2> QED
    BY <1>14, <2>1, Zenon DEF Elect, Frame
<1>15. ASSUME NEW n \in Nodes, LearnView(n)
      PROVE  Frame
  BY <1>15, Zenon DEF LearnView, Frame
<1>16. ASSUME NEW up_to \in Conns, DropNode(up_to)
      PROVE  Frame
  <2>1. (\E kinds \in SUBSET Kinds : Spend(kinds)) \/ UNCHANGED budget
    BY <1>16, Zenon DEF DropNode, Kinds
  <2> QED
    BY <1>16, <2>1, Zenon DEF DropNode, Frame
<1>17. ASSUME Commit
      PROVE  Frame
  BY <1>17, Zenon DEF Commit, Frame
<1>18. ASSUME ApplyConn
      PROVE  Frame
  BY <1>18, Zenon DEF ApplyConn, Frame
<1>19. ASSUME ApplyDropNode
      PROVE  Frame
  BY <1>19, Zenon DEF ApplyDropNode, Frame
<1>20. ASSUME BeginInstall
      PROVE  Frame
  <2>1. (\E kinds \in SUBSET Kinds : Spend(kinds)) \/ UNCHANGED budget
    BY <1>20, Zenon DEF BeginInstall, Kinds
  <2> QED
    BY <1>20, <2>1, Zenon DEF BeginInstall, Frame
<1>21. ASSUME EndInstall
      PROVE  Frame
  BY <1>21, Zenon DEF EndInstall, Frame
<1>22. ASSUME NEW c \in Conns, closed(c)
      PROVE  Frame
  BY <1>22, Zenon DEF closed, Frame
<1>23. CASE UNCHANGED vars
  BY <1>23, Zenon DEF vars, Frame
<1> QED
  BY <1>1, <1>2, <1>3, <1>4, <1>5, <1>6, <1>7, <1>8, <1>9, <1>10, <1>11,
     <1>12, <1>13, <1>14, <1>15, <1>16, <1>17, <1>18, <1>19, <1>20, <1>21,
     <1>22, <1>23, ZenonT(60) DEF Next

\* Every step of Forward keeps the variables in their types: the connection
\* tasks and their closers,
LEMMA TaskTypeStep ==
    ASSUME TypeOK, [Next]_vars
    PROVE  TaskType'
<1> USE DEF TypeOK, TaskType
<1>1. CASE Gives
  BY <1>1, ZenonT(60) DEF Gives, Connect, Disconnect, Command
<1>2. CASE Hears
  <2>1. fired' \subseteq fired \cup Conns
    BY <1>2, Zenon DEF Hears, on_event, close, orphans
  <2> QED
    BY <1>2, <2>1, Zenon DEF Hears, on_event
<1>3. CASE Ticks
  BY <1>3, Zenon DEF Ticks, on_tick, close, orphans
<1>4. CASE Shutdown
  BY <1>4, Zenon DEF Shutdown, close
<1>5. CASE \E c \in Conns : closed(c)
  BY <1>5, Zenon DEF closed, close
<1>6. CASE UNCHANGED <<sent, seqs, arrivals, task>> /\ UNCHANGED fired
  BY <1>6, Zenon
<1> QED
  BY <1>1, <1>2, <1>3, <1>4, <1>5, <1>6, Framed, Zenon DEF Frame

\* the forward queue and what it was given,
LEMMA QueueTypeStep ==
    ASSUME Counting, TypeOK, [Next]_vars
    PROVE  QueueType' /\ SentType'
<1> USE DEF TypeOK
<1>1. ASSUME ~Gives
      PROVE  SentType'
  BY <1>1, Framed, Zenon DEF Frame, SentType
<1>2. ASSUME NEW c \in Conns, Connect(c)
      PROVE  QueueType' /\ SentType'
  <2>1. CASE isolated \/ stage = "stopping"
    BY <1>2, <2>1, Zenon DEF Connect, actorVars, QueueType, SentType
  <2>2. CASE ~(isolated \/ stage = "stopping")
    <3>1. push(c, 1, "Connect") /\ seqs' = [seqs EXCEPT ![c] = 2]
      BY <1>2, <2>2, Zenon DEF Connect
    <3>2. QueueType' /\ sent' \in [Conns -> Seq(Inputs)] /\ arrivals' \in Nat
      BY <3>1, InputsFacts, PushType, Zenon
    <3> QED
      BY <3>1, <3>2, Zenon DEF SentType
  <2> QED
    BY <2>1, <2>2, Zenon
<1>3. ASSUME NEW c \in Conns, Disconnect(c)
      PROVE  QueueType' /\ SentType'
  <2>1. CASE seqs[c] = 0 \/ gone(c)
    BY <1>3, <2>1, Zenon DEF Disconnect, QueueType, SentType
  <2>2. CASE ~(seqs[c] = 0 \/ gone(c))
    <3>1. push(c, seqs[c], "Disconnect") /\ seqs' = [seqs EXCEPT ![c] = 0]
      BY <1>3, <2>2, Zenon DEF Disconnect
    <3>2. QueueType' /\ sent' \in [Conns -> Seq(Inputs)] /\ arrivals' \in Nat
      BY <3>1, InputsFacts, PushType, Zenon DEF SentType
    <3> QED
      BY <3>1, <3>2, Zenon DEF SentType
  <2> QED
    BY <2>1, <2>2, Zenon
<1>4. ASSUME NEW c \in Conns, NEW input \in Commands, Command(c, input)
      PROVE  QueueType' /\ SentType'
  <2> DEFINE given == IF input = "Put" /\ full THEN "PutRejected" ELSE input
  <2>0. given \in Inputs
    BY InputsFacts, Zenon
  <2>1. push(c, seqs[c], given) /\ seqs' = [seqs EXCEPT ![c] = @ + 1]
    BY <1>4, Zenon DEF Command
  <2> HIDE DEF given
  <2>2. QueueType' /\ sent' \in [Conns -> Seq(Inputs)] /\ arrivals' \in Nat
    BY <2>0, <2>1, PushType, Zenon DEF SentType
  <2>3. seqs' \in [Conns -> Nat]
    BY <2>1 DEF SentType
  <2> QED
    BY <2>2, <2>3, Zenon DEF SentType
<1>5. ASSUME Hears
      PROVE  QueueType'
  <2>1. PICK recently \in BOOLEAN : on_event(recently)
    BY <1>5, Zenon DEF Hears
  <2> DEFINE found == {e \in queue : e.conn = Head(events).conn
                                  /\ e.seq = Head(events).seq}
             rest == queue \ found
             kept == {e \in rest : ~prunable(e)}
  <2>2. /\ rest \subseteq QueueItem /\ IsFiniteSet(rest)
        /\ kept \subseteq QueueItem /\ IsFiniteSet(kept)
    BY PartFinite, Zenon DEF QueueType
  <2>3. Rewound(kept) \/ (queue' = rest /\ UNCHANGED <<cursor, pass>>)
    BY <2>1, Zenon DEF on_event
  <2> HIDE DEF rest, kept
  <2> QED
    BY <2>2, <2>3, RewoundType, Zenon DEF QueueType
<1>6. ASSUME Ticks
      PROVE  QueueType'
  <2> DEFINE kept == {e \in queue : ~prunable(e)}
  <2>1. kept \subseteq QueueItem /\ IsFiniteSet(kept)
    BY PartFinite, Zenon DEF QueueType
  <2>2. Rewound(kept) \/ UNCHANGED <<queue, cursor, pass>>
    BY <1>6, Zenon DEF Ticks, on_tick
  <2> HIDE DEF kept
  <2> QED
    BY <2>1, <2>2, RewoundType, Zenon DEF QueueType
<1>7. ASSUME on_view_change \/ on_forward_result
      PROVE  QueueType'
  <2>1. Rewound(queue) \/ UNCHANGED <<queue, cursor, pass>>
    BY <1>7, Zenon DEF on_view_change, on_forward_result
  <2> QED
    BY <2>1, RewoundType, Zenon DEF QueueType
<1>8. ASSUME PumpLeading \/ PumpForward
      PROVE  QueueType'
  <2>1. \E batch \in SUBSET queue :
          SendNext(batch) \/ UNCHANGED <<queue, cursor>>
    BY <1>8, Zenon DEF PumpLeading, PumpForward, Unsent, FirstOf
  <2>2. UNCHANGED pass
    BY <1>8, Zenon DEF PumpLeading, PumpForward
  <2> QED
    BY <2>1, <2>2, SendNextType, Zenon DEF QueueType
<1>9. ASSUME UNCHANGED <<queue, cursor, pass>>
      PROVE  QueueType'
  BY <1>9, Zenon DEF QueueType
<1> QED
  BY <1>1, <1>2, <1>3, <1>4, <1>5, <1>6, <1>7, <1>8, <1>9, Framed, ZenonT(60) DEF Frame, Gives

\* the actor's modes and the forwards on their way,
LEMMA NetTypeStep ==
    ASSUME TypeOK, [Next]_vars
    PROVE  ModeType' /\ NetType'
<1> USE DEF TypeOK
<1> DEFINE Request == [to : Peers, awaited : BOOLEAN, items : SUBSET Item]
<1>1. CASE Ticks
  BY <1>1, ZenonT(60) DEF Ticks, on_tick, ModeType, NetType, sendVars, netVars
<1>2. CASE Shutdown
  BY <1>2, Zenon DEF Shutdown, ModeType, NetType, sendVars, netVars
<1>3. CASE on_view_change
  <2>1. \A r \in Request : [r EXCEPT !.awaited = FALSE] \in Request
    BY Zenon
  <2>2. net' = {[r EXCEPT !.awaited = FALSE] : r \in net} /\ net \subseteq Request
    BY <1>3, Zenon DEF on_view_change, NetType
  <2>3. net' \subseteq Request
    BY <2>1, <2>2
  <2>4. NetType'
    BY <1>3, <2>3, Zenon DEF on_view_change, NetType
  <2> QED
    BY <1>3, <2>4, InputsFacts, Zenon DEF on_view_change, ModeType, RaftType, modeVars
<1>4. CASE on_forward_result
  <2>1. \A a \in answer : a.leader \in Nodes \cup {None}
    BY Zenon DEF NetType
  <2>2. hint' \in Nodes \cup {None} /\ inflight' = FALSE /\ answer' = {}
    BY <1>4, <2>1, Zenon DEF on_forward_result, ModeType
  <2> QED
    BY <1>4, <2>2, Zenon DEF on_forward_result, ModeType, NetType, modeVars
<1>5. CASE PumpForward
  <2> DEFINE batch == FirstOf(Unsent, MAX_BATCH_ITEMS)
             new == [to |-> Target, awaited |-> TRUE,
                     items |-> {Content(e) : e \in batch}]
  <2>1. batch \in SUBSET queue
    BY Zenon DEF Unsent, FirstOf
  <2>2. {Content(e) : e \in batch} \in SUBSET Item
    BY <2>1, ContentType, Zenon
  <2>3. Target \in Peers /\ net' = net \cup {new} /\ answer' = answer
    BY <1>5, Zenon DEF PumpForward
  <2>4. new \in Request
    BY <2>2, <2>3, Zenon
  <2>5. NetType'
    BY <2>3, <2>4, Zenon DEF NetType
  <2> QED
    BY <1>5, <2>5, Zenon DEF PumpForward, ModeType, modeVars
<1>6. CASE Carries
  <2>1. PICK r \in net : forward(r) \/ \E served \in BOOLEAN : Lose(r, served)
    BY <1>6, Zenon DEF Carries
  <2>2. r \in Request /\ view[r.to].leader \in Nodes
    BY InputsFacts, Zenon DEF NetType, RaftType, View
  <2>3. /\ net' = net \ {r}
        /\ \E kind \in {"Accepted", "NotLeader", "Failed"},
              leader \in Nodes \cup {None} : Answer(r, kind, leader)
    BY <2>1, <2>2, Zenon DEF forward, Lose
  <2>4. NetType'
    BY <2>2, <2>3 DEF Answer, NetType
  <2> QED
    BY <2>1, <2>4, Zenon DEF forward, Lose, ModeType, sendVars, modeVars
<1>7. CASE UNCHANGED <<seen, hint, inflight, isolated, stage>> /\ UNCHANGED <<net, answer>>
  BY <1>7, Zenon DEF ModeType, NetType
<1> QED
  BY <1>1, <1>2, <1>3, <1>4, <1>5, <1>6, <1>7, Framed, Zenon DEF Frame

\* The entries that carry items of S.
EntryOf(S) == [op : {"Conn"}, item : S, term : Nat]
              \cup [op : {"DropNode"}, up_to : Nat, term : Nat]
\* Requests, proposers and logs hold items of S only.
Copied(S) ==
    /\ \A r \in net : r.items \subseteq S
    /\ prop \in [Nodes -> Seq(SUBSET S)] /\ tail \in [Nodes -> Seq(EntryOf(S))]
    /\ pend \in Seq(EntryOf(S))

\* What a request carries, a proposer proposes and a log commits is a copy of
\* what stood in the queue: nothing on the way makes an item up.
LEMMA CopiedStep ==
    ASSUME TypeOK, [Next]_vars, NEW S \in SUBSET Item, Copied(S),
           \A e \in queue : Content(e) \in S
    PROVE  /\ \A r \in net' : r.items \subseteq S
           /\ prop' \in [Nodes -> Seq(SUBSET S)] /\ tail' \in [Nodes -> Seq(EntryOf(S))]
           /\ pend' \in Seq(EntryOf(S))
<1> USE DEF TypeOK
<1>0. /\ \A r \in net : r.items \subseteq S
      /\ prop \in [Nodes -> Seq(SUBSET S)] /\ tail \in [Nodes -> Seq(EntryOf(S))]
      /\ pend \in Seq(EntryOf(S))
  BY Zenon DEF Copied
<1>1. \A r \in net' : r.items \subseteq S
  <2>0. \A r \in net : r \in [to : Peers, awaited : BOOLEAN, items : SUBSET Item]
    BY Zenon DEF NetType
  <2>1. CASE Carries
    BY <1>0, <2>1, Zenon DEF Carries, forward, Lose
  <2>2. CASE on_view_change
    <3>1. net' = {[r EXCEPT !.awaited = FALSE] : r \in net}
      BY <2>2, Zenon DEF on_view_change
    <3> QED
      BY <1>0, <2>0, <3>1, Zenon
  <2>3. CASE on_forward_result
    BY <1>0, <2>3, Zenon DEF on_forward_result
  <2>4. CASE PumpForward
    <3> DEFINE batch == FirstOf(Unsent, MAX_BATCH_ITEMS)
               items == {Content(e) : e \in batch}
    <3>1. items \subseteq S
      BY Zenon DEF Unsent, FirstOf
    <3>2. net' = net \cup {[to |-> Target, awaited |-> TRUE, items |-> items]}
      BY <2>4, Zenon DEF PumpForward
    <3> HIDE DEF items
    <3> QED
      BY <1>0, <3>1, <3>2, SMTT(30)
  <2> QED
    BY <1>0, <2>1, <2>2, <2>3, <2>4, Framed, Zenon DEF Frame
<1>2. prop' \in [Nodes -> Seq(SUBSET S)]
  <2>1. CASE Carries
    <3>1. PICK r \in net : forward(r) \/ \E served \in BOOLEAN : Lose(r, served)
      BY <2>1, Zenon DEF Carries
    <3>2. r.to \in Nodes /\ r.items \in SUBSET S
      BY <1>0, InputsFacts, Zenon DEF NetType
    <3>3. prop' = prop \/ prop' = [prop EXCEPT ![r.to] = Append(@, r.items)]
      BY <3>1, Zenon DEF forward, Lose
    <3>4. [prop EXCEPT ![r.to] = Append(@, r.items)] \in [Nodes -> Seq(SUBSET S)]
      BY <1>0, <3>2, QueuesFacts, Zenon
    <3> QED
      BY <1>0, <3>3, <3>4, Zenon
  <2>2. CASE PumpLeading
    <3> DEFINE batch == {Content(e) : e \in Unsent}
    <3>1. batch \in SUBSET S
      BY Zenon DEF Unsent
    <3>2. prop' = [prop EXCEPT ![Me] = Append(@, batch)]
      BY <2>2, Zenon DEF PumpLeading
    <3> HIDE DEF batch
    <3> QED
      BY <1>0, <3>1, <3>2, InputsFacts, QueuesFacts, Zenon
  <2>3. CASE Proposes
    <3>1. PICK n \in Nodes : propose(n)
      BY <2>3, Zenon DEF Proposes
    <3>2. PICK i \in Head(prop[n]) :
            prop' = [prop EXCEPT ![n] =
                       IF Head(@) = {i} THEN Tail(@)
                       ELSE <<Head(@) \ {i}>> \o Tail(@)]
      BY <3>1, Zenon DEF propose
    <3>3. /\ prop[n] \in Seq(SUBSET S) /\ prop[n] # <<>>
          /\ Head(prop[n]) \in SUBSET S /\ Tail(prop[n]) \in Seq(SUBSET S)
      BY <1>0, <3>1 DEF propose
    <3>4. <<Head(prop[n]) \ {i}>> \o Tail(prop[n]) \in Seq(SUBSET S)
      BY <3>3
    <3> QED
      BY <1>0, <3>2, <3>3, <3>4, Zenon
  <2> QED
    BY <1>0, <2>1, <2>2, <2>3, Framed, ZenonT(30) DEF Frame
<1>3. tail' \in [Nodes -> Seq(EntryOf(S))]
  <2>0. lead.leader \in Nodes /\ lead.term \in Nat
    BY Zenon DEF RaftType, View
  <2>1. CASE Proposes
    <3>1. PICK n \in Nodes : propose(n)
      BY <2>1, Zenon DEF Proposes
    <3>2. PICK i \in Head(prop[n]) :
            tail' = IF view[n].leader = n
                    THEN [tail EXCEPT ![n] = Append(@,
                            [op |-> "Conn", item |-> i, term |-> TermOf(n)])]
                    ELSE tail
      BY <3>1, Zenon DEF propose
    <3> DEFINE new == [op |-> "Conn", item |-> i, term |-> TermOf(n)]
    <3>3. Head(prop[n]) \in SUBSET S
      BY <1>0, <3>1 DEF propose
    <3>4. new \in EntryOf(S)
      BY <3>3, Zenon DEF EntryOf, TermOf, RaftType, View
    <3>5. tail' = tail \/ tail' = [tail EXCEPT ![n] = Append(@, new)]
      BY <3>2, Zenon
    <3> HIDE DEF new
    <3>6. [tail EXCEPT ![n] = Append(@, new)] \in [Nodes -> Seq(EntryOf(S))]
      BY <1>0, <3>4, QueuesFacts, Zenon
    <3> QED
      BY <1>0, <3>5, <3>6, Zenon
  <2>2. CASE Commit
    <3>1. \A n \in Nodes : tail[n] # <<>> => Tail(tail[n]) \in Seq(EntryOf(S))
      BY <1>0
    <3> QED
      BY <2>2, <3>1 DEF Commit
  <2>3. ASSUME NEW n \in Nodes, Elect(n)
        PROVE  tail' \in [Nodes -> Seq(EntryOf(S))]
    <3>1. PICK m \in Nodes : \E k \in 0..Len(tail[m]) :
            tail' = [tail EXCEPT ![n] = SubSeq(tail[m], 1, k)]
      BY <2>3, Zenon DEF Elect
    <3>2. \A k \in 0..Len(tail[m]) : SubSeq(tail[m], 1, k) \in Seq(EntryOf(S))
      BY <1>0
    <3> QED
      BY <1>0, <3>1, <3>2, Zenon
  <2>4. ASSUME NEW up_to \in Conns, DropNode(up_to)
        PROVE  tail' \in [Nodes -> Seq(EntryOf(S))]
    <3> DEFINE new == [op |-> "DropNode", up_to |-> up_to, term |-> lead.term]
    <3>1. new \in EntryOf(S)
      BY <2>0, InputsFacts, Zenon DEF EntryOf
    <3>2. tail' = [tail EXCEPT ![lead.leader] = Append(@, new)]
      BY <2>4, Zenon DEF DropNode
    <3> HIDE DEF new
    <3> QED
      BY <1>0, <2>0, <3>1, <3>2, QueuesFacts, SMTT(30)
  <2> QED
    BY <1>0, <2>1, <2>2, <2>3, <2>4, Framed, Zenon DEF Frame
<1>4. pend' \in Seq(EntryOf(S))
  <2>1. CASE Commit
    <3>1. Head(tail[lead.leader]) \in EntryOf(S)
      BY <1>0, <2>1 DEF Commit, RaftType, View
    <3> QED
      BY <1>0, <2>1, <3>1, QueueFacts, ZenonT(30) DEF Commit
  <2>2. CASE ApplyConn \/ ApplyDropNode
    <3>1. pend # <<>> /\ pend' = Tail(pend)
      BY <2>2, Zenon DEF ApplyConn, ApplyDropNode
    <3> QED
      BY <1>0, <3>1, QueueFacts, Zenon
  <2> QED
    BY <1>0, <2>1, <2>2, Framed, Zenon DEF Frame
<1> QED
  BY <1>1, <1>2, <1>3, <1>4, Zenon

\* So the proposers' queues, the logs and the views keep their types,
LEMMA RaftTypeStep ==
    ASSUME TypeOK, [Next]_vars
    PROVE  RaftType' /\ pend' \in Seq(Entry)
<1> USE DEF TypeOK
<1>1. Copied(Item) /\ \A e \in queue : Content(e) \in Item
  <2>1. EntryOf(Item) = Entry
    BY Zenon DEF EntryOf, Entry
  <2>2. \A r \in net : r.items \subseteq Item
    BY Zenon DEF NetType
  <2>3. {Content(e) : e \in queue} \in SUBSET Item
    BY ContentType, Zenon
  <2>4. Copied(Item)
    BY <2>1, <2>2, Zenon DEF Copied, RaftType, StateType
  <2> QED
    BY <2>3, <2>4, Zenon
<1>2. /\ prop' \in [Nodes -> Seq(SUBSET Item)] /\ tail' \in [Nodes -> Seq(Entry)]
      /\ pend' \in Seq(Entry)
  <2>1. EntryOf(Item) = Entry
    BY Zenon DEF EntryOf, Entry
  <2> QED
    BY <1>1, <2>1, CopiedStep, Zenon
<1>3. view' \in [Nodes -> View] /\ lead' \in View
  <2>1. ASSUME NEW n \in Nodes, LearnView(n)
        PROVE  view' \in [Nodes -> View] /\ lead' \in View
    BY <2>1, Zenon DEF LearnView, RaftType
  <2>2. ASSUME NEW n \in Nodes, Elect(n)
        PROVE  view' \in [Nodes -> View] /\ lead' \in View
    <3>1. lead.term + 1 \in Nat
      BY DEF RaftType, View
    <3>2. lead' = [leader |-> n, term |-> lead.term + 1] /\ view' = view
      BY <2>2, Zenon DEF Elect
    <3> QED
      BY <3>1, <3>2, Zenon DEF RaftType, View
  <2> QED
    BY <2>1, <2>2, Framed, Zenon DEF Frame, RaftType
<1> QED
  BY <1>2, <1>3, Zenon DEF RaftType

\* the applied state, its events and the budget.
LEMMA StateTypeStep ==
    ASSUME TypeOK, [Next]_vars
    PROVE  StateType' /\ SinkType' /\ budget' \in [Kinds -> Nat]
<1> USE DEF TypeOK
<1>1. pend' \in Seq(Entry)
  BY RaftTypeStep, Zenon
<1>2. ASSUME ApplyConn
      PROVE  /\ next_seq' \in [Conns -> Nat] /\ highest' \in Nat
             /\ fed' \in [Conns -> Seq(Inputs)]
             /\ events' \in Seq([conn : Conns, seq : Nat]) /\ closing' \subseteq Conns
  <2> DEFINE i == Head(pend).item
  <2>1. i \in Item
    BY <1>2 DEF ApplyConn, StateType, Entry
  <2>2. apply_conn(i) \/ UNCHANGED <<stateVars, sinkVars>>
    BY <1>2, Zenon DEF ApplyConn
  <2> HIDE DEF i
  <2>3. i.conn \in Conns /\ i.seq \in Nat /\ i.input \in Inputs /\ i.conn \in Nat
    BY <2>1, InputsFacts, Zenon DEF Item
  <2>4. CASE apply_conn(i)
    <3>1. next_seq' \in [Conns -> Nat]
      BY <2>3, <2>4, SMTT(30) DEF apply_conn, StateType
    <3>2. highest' \in Nat /\ fed' \in [Conns -> Seq(Inputs)]
      BY <2>3, <2>4 DEF apply_conn, StateType
    <3>3. events' \in Seq([conn : Conns, seq : Nat])
      <4> DEFINE new == [conn |-> i.conn, seq |-> i.seq]
      <4>1. new \in [conn : Conns, seq : Nat]
        BY <2>3, Zenon
      <4>2. events' = events \/ events' = Append(events, new)
        BY <2>4, Zenon DEF apply_conn, sinkVars
      <4> HIDE DEF new
      <4>3. events \in Seq([conn : Conns, seq : Nat])
        BY Zenon DEF SinkType
      <4>4. Append(events, new) \in Seq([conn : Conns, seq : Nat])
        BY <4>1, <4>3, QueueFacts, Zenon
      <4> QED
        BY <4>2, <4>3, <4>4, Zenon
    <3>4. closing' \subseteq Conns
      BY <2>3, <2>4, Zenon DEF apply_conn, sinkVars, SinkType
    <3> QED
      BY <3>1, <3>2, <3>3, <3>4, Zenon
  <2>5. CASE UNCHANGED <<stateVars, sinkVars>>
    BY <2>5, Zenon DEF stateVars, sinkVars, StateType, SinkType
  <2> QED
    BY <2>2, <2>4, <2>5, Zenon
<1>3. next_seq' \in [Conns -> Nat] /\ highest' \in Nat /\ fed' \in [Conns -> Seq(Inputs)]
  <2>1. CASE ApplyDropNode
    BY <2>1, Zenon DEF ApplyDropNode, StateType
  <2> QED
    BY <1>2, <2>1, Framed, Zenon DEF Frame, StateType
<1>4. events' \in Seq([conn : Conns, seq : Nat])
  <2>1. CASE Hears
    <3>1. events # <<>> /\ events' = Tail(events)
      BY <2>1, Zenon DEF Hears, on_event
    <3> QED
      BY <3>1, QueueFacts, Zenon DEF SinkType
  <2> QED
    BY <1>2, <2>1, Framed, Zenon DEF Frame, SinkType
<1>5. closing' \subseteq Conns
  <2>1. CASE ApplyDropNode
    BY <2>1, Zenon DEF ApplyDropNode, Connected, SinkType
  <2>2. CASE EndInstall
    BY <2>2, Zenon DEF EndInstall, Connected, SinkType
  <2>3. CASE \E c \in Conns : closed(c)
    BY <2>3, Zenon DEF closed, SinkType
  <2> QED
    BY <1>2, <2>1, <2>2, <2>3, Framed, Zenon DEF Frame, SinkType
<1>6. installing' \in BOOLEAN /\ install' \subseteq Conns
  BY Framed, Zenon DEF Frame, BeginInstall, EndInstall, Connected, SinkType
<1>7. budget' \in [Kinds -> Nat]
  BY Framed, SpendType, Zenon DEF Frame
<1> QED
  BY <1>1, <1>3, <1>4, <1>5, <1>6, <1>7, Zenon DEF StateType, SinkType

\* All together.
LEMMA TypeStep ==
    ASSUME Counting, TypeOK, [Next]_vars
    PROVE  TypeOK'
BY TaskTypeStep, QueueTypeStep, NetTypeStep, RaftTypeStep, StateTypeStep, Zenon DEF TypeOK

-----------------------------------------------------------------------------
(* The inductive invariant. *)

\* A copy of an input that its connection really gave, under its number.
Genuine(i) == i.seq \in 1..Len(sent[i.conn]) /\ sent[i.conn][i.seq] = i.input

\* Every copy on its way is one: in the queue, in a request, with a proposer,
\* in a log, committed.
Real == {i \in Item : Genuine(i)}
Unaltered == Copied(Real) /\ \A e \in queue : Genuine(e) /\ e.at < arrivals

\* A connection gives Connect first and only first, and nothing after
\* Disconnect; the actor numbers what it gives without a gap.
Numbered ==
    \A c \in Conns :
        /\ \A k \in 1..Len(sent[c]) : sent[c][k] = "Connect" <=> k = 1
        /\ seqs[c] # 0 =>
              /\ seqs[c] = Len(sent[c]) + 1 /\ sent[c] # <<>>
              /\ \A k \in 1..Len(sent[c]) : sent[c][k] # "Disconnect"
        /\ task[c] = "none" => sent[c] = <<>> /\ seqs[c] = 0

\* The state machine counts what it takes of a connection, and has taken
\* nothing of one above the highest connected so far.
InStep ==
    \A c \in Conns :
        /\ next_seq[c] # 0 =>
              next_seq[c] = Len(fed[c]) + 1 /\ fed[c] # <<>> /\ c <= highest
        /\ c > highest => fed[c] = <<>>
        /\ Len(fed[c]) <= Len(sent[c])

\* Only what was taken is reported as applied.
Reported ==
    \A k \in 1..Len(events) : events[k].seq <= Len(fed[events[k].conn])

\* A step that is not a connection's keeps what connections gave; one that is
\* adds to it.  Either way a genuine copy stays genuine.
LEMMA StaysGenuine ==
    ASSUME TypeOK, [Next]_vars, NEW i, i.conn \in Conns, Genuine(i)
    PROVE  Genuine(i)'
<1>1. CASE UNCHANGED sent
  BY <1>1, Zenon DEF Genuine
<1>2. ASSUME NEW c \in Conns, NEW seq, NEW input, push(c, seq, input)
      PROVE  Genuine(i)'
  <2>1. sent' = [sent EXCEPT ![c] = Append(@, input)]
    BY <1>2, Zenon DEF push
  <2>2. sent \in [Conns -> Seq(Inputs)]
    BY Zenon DEF TypeOK, SentType
  <2>3. CASE i.conn = c
    <3>1. sent'[c] = Append(sent[c], input) /\ sent[c] \in Seq(Inputs)
      BY <2>1, <2>2, Zenon
    <3>2. i.seq \in 1..Len(sent[c]) /\ sent[c][i.seq] = i.input
      BY <2>3, Zenon DEF Genuine
    <3>3. i.seq \in 1..Len(sent'[c]) /\ sent'[c][i.seq] = sent[c][i.seq]
      BY <3>1, <3>2
    <3> QED
      BY <2>3, <3>2, <3>3, Zenon DEF Genuine
  <2>4. CASE i.conn # c
    BY <2>1, <2>2, <2>4, Zenon DEF Genuine
  <2> QED
    BY <2>3, <2>4, Zenon
<1>3. CASE Gives
  <2>1. PICK c \in Conns :
          Connect(c) \/ Disconnect(c) \/ \E input \in Commands : Command(c, input)
    BY <1>3, Zenon DEF Gives
  <2>2. CASE Connect(c)
    <3>1. UNCHANGED sent \/ push(c, 1, "Connect")
      BY <2>2, Zenon DEF Connect, actorVars
    <3> QED
      BY <1>1, <1>2, <3>1, Zenon
  <2>3. CASE Disconnect(c)
    <3>1. UNCHANGED sent \/ push(c, seqs[c], "Disconnect")
      BY <2>3, Zenon DEF Disconnect
    <3> QED
      BY <1>1, <1>2, <3>1, Zenon
  <2>4. ASSUME NEW input \in Commands, Command(c, input)
        PROVE  Genuine(i)'
    BY <1>2, <2>4, Zenon DEF Command
  <2> QED
    BY <2>1, <2>2, <2>3, <2>4, Zenon
<1> QED
  BY <1>1, <1>3, Framed, Zenon DEF Frame

\* An item of the queue that leaves it for good: it can no longer apply, or
\* it is the one reported as applied.
Settled(e) ==
    \/ prunable(e)
    \/ /\ events # <<>>
       /\ e.conn = Head(events).conn /\ e.seq = Head(events).seq
\* The queue holds the items q, perhaps marked differently.
Same(e, f) == e.conn = f.conn /\ e.seq = f.seq /\ e.input = f.input /\ e.at = f.at
Holds(q) ==
    \E mark \in [q -> QueueItem] :
        queue' = {mark[e] : e \in q} /\ \A e \in q : Same(mark[e], e)

\* Rewinding and sending change marks only (ForwardQueue::rewind, send_next).
LEMMA MarksOnly ==
    ASSUME Counting
    PROVE  /\ \A q \in SUBSET QueueItem :
                IsFiniteSet(q) /\ pass \in Nat /\ Rewound(q) => Holds(q)
           /\ \A batch \in SUBSET queue :
                queue \subseteq QueueItem /\ pass \in Nat /\ SendNext(batch) => Holds(queue)
<1>1. ASSUME NEW e \in QueueItem, NEW n \in 0..2, NEW p \in Nat
      PROVE  /\ Same([e EXCEPT !.sends = n, !.pass = p], e)
             /\ [e EXCEPT !.sends = n, !.pass = p] \in QueueItem
  BY Zenon DEF QueueItem, Same
<1>2. ASSUME NEW q \in SUBSET QueueItem, IsFiniteSet(q), Rewound(q)
      PROVE  Holds(q)
  <2> DEFINE used == {e.pass : e \in {f \in q : f.sends > 0}}
             rank(p) == Cardinality({u \in used : u < p})
             new(e) == IF e.sends > 0 THEN rank(e.pass) ELSE 0
             mark == [e \in q |-> [e EXCEPT !.pass = new(e)]]
  <2>1. queue' = {[e EXCEPT !.pass = new(e)] : e \in q}
    BY <1>2, Zenon DEF Rewound
  <2> HIDE DEF new
  <2>2. queue' \subseteq QueueItem
    BY <1>2, RewoundType, Zenon
  <2>3. \A e \in q : Same([e EXCEPT !.pass = new(e)], e)
    BY Zenon DEF QueueItem, Same
  <2>4. \A e \in q : [e EXCEPT !.pass = new(e)] \in QueueItem
    BY <2>1, <2>2, Zenon
  <2>5. \A e \in q : Same(mark[e], e) /\ mark[e] \in QueueItem
    BY <2>3, <2>4, Zenon
  <2>6. mark \in [q -> QueueItem]
    BY <2>5, Zenon
  <2>7. queue' = {mark[e] : e \in q}
    BY <2>1, Zenon
  <2> HIDE DEF mark
  <2> QED
    BY <2>5, <2>6, <2>7, Zenon DEF Holds
<1>3. ASSUME NEW batch \in SUBSET queue, queue \subseteq QueueItem, pass \in Nat,
             SendNext(batch)
      PROVE  Holds(queue)
  <2> DEFINE new(e) == IF e.sends = 0 THEN 1 ELSE 2
             sending(e) == [e EXCEPT !.sends = new(e), !.pass = pass]
             mark == [e \in queue |-> IF e \in batch THEN sending(e) ELSE e]
  <2>1. queue' = (queue \ batch) \cup {sending(e) : e \in batch}
    BY <1>3, Zenon DEF SendNext
  <2>2. \A e \in queue : new(e) \in 0..2
    OBVIOUS
  <2> HIDE DEF new
  <2>3. \A e \in queue : Same(sending(e), e) /\ sending(e) \in QueueItem
    BY <1>1, <1>3, <2>2, Zenon
  <2> HIDE DEF sending
  <2>4. \A e \in queue : Same(mark[e], e) /\ mark[e] \in QueueItem
    BY <1>3, <2>3, Zenon DEF Same
  <2>5. mark \in [queue -> QueueItem]
    BY <2>4, Zenon
  <2>6. queue' = {mark[e] : e \in queue}
    BY <2>1, Zenon
  <2> HIDE DEF mark
  <2> QED
    BY <2>4, <2>5, <2>6, Zenon DEF Holds
<1> QED
  BY <1>2, <1>3, Zenon

\* Unless a connection gives an input, the queue loses settled items only.
LEMMA QueueMoves ==
    ASSUME Counting, TypeOK, [Next]_vars, ~Gives
    PROVE  \E q \in SUBSET queue : Holds(q) /\ \A e \in queue \ q : Settled(e)
<1>0. queue \subseteq QueueItem /\ IsFiniteSet(queue) /\ pass \in Nat
  BY Zenon DEF TypeOK, QueueType
<1>a. ASSUME NEW q \in SUBSET queue
      PROVE  IsFiniteSet(q) /\ q \in SUBSET QueueItem
  BY <1>0, PartFinite, Zenon
<1>b. ASSUME NEW q \in SUBSET queue, queue' = q
      PROVE  Holds(q)
  <2>1. [e \in q |-> e] \in [q -> QueueItem]
    BY <1>a, Zenon
  <2> QED
    BY <1>b, <2>1, Zenon DEF Holds, Same
<1>1. CASE Holds(queue)
  BY <1>1, Zenon
<1>2. CASE UNCHANGED queue
  BY <1>1, <1>2, <1>b, Zenon
<1>3. CASE Hears
  <2>1. PICK recently \in BOOLEAN : on_event(recently)
    BY <1>3, Zenon DEF Hears
  <2> DEFINE found == {e \in queue : e.conn = Head(events).conn
                                  /\ e.seq = Head(events).seq}
             rest == queue \ found
             kept == {e \in rest : ~prunable(e)}
  <2>2. \A e \in queue \ kept : Settled(e)
    BY <2>1, Zenon DEF on_event, Settled
  <2>3. \A e \in queue \ rest : Settled(e)
    BY <2>1, Zenon DEF on_event, Settled
  <2>4. Rewound(kept) \/ queue' = rest
    BY <2>1, Zenon DEF on_event
  <2>5. kept \in SUBSET queue /\ rest \in SUBSET queue
    BY Zenon
  <2> HIDE DEF kept, rest
  <2>6. Holds(kept) \/ Holds(rest)
    BY <1>0, <1>a, <1>b, <2>4, <2>5, MarksOnly, ZenonT(60)
  <2> QED
    BY <2>2, <2>3, <2>5, <2>6, Zenon
<1>4. CASE Ticks
  <2> DEFINE kept == {e \in queue : ~prunable(e)}
  <2>1. Rewound(kept) \/ UNCHANGED queue
    BY <1>4, Zenon DEF Ticks, on_tick
  <2>2. \A e \in queue \ kept : Settled(e)
    BY Zenon DEF Settled
  <2>3. kept \in SUBSET queue
    BY Zenon
  <2> HIDE DEF kept
  <2> QED
    BY <1>0, <1>a, <1>2, <2>1, <2>2, <2>3, MarksOnly, ZenonT(60)
<1>5. CASE on_view_change \/ on_forward_result
  <2>1. Rewound(queue) \/ UNCHANGED queue
    BY <1>5, Zenon DEF on_view_change, on_forward_result
  <2> QED
    BY <1>0, <1>1, <1>2, <2>1, MarksOnly, Zenon
<1>6. CASE PumpLeading \/ PumpForward
  <2>1. \E batch \in SUBSET queue : SendNext(batch) \/ UNCHANGED queue
    BY <1>6, Zenon DEF PumpLeading, PumpForward, Unsent, FirstOf
  <2> QED
    BY <1>0, <1>1, <1>2, <2>1, MarksOnly, ZenonT(60)
<1> QED
  BY <1>2, <1>3, <1>4, <1>5, <1>6, Framed, ZenonT(60) DEF Frame

\* What a connection's step does: nothing is queued and the connection is not
\* held, or its next input is queued (Actor::on_message).
Queues(c, input) ==
    /\ push(c, Len(sent[c]) + 1, input)
    /\ input = "Connect" <=> sent[c] = <<>>
    /\ seqs'[c] = IF input = "Disconnect" THEN 0 ELSE Len(sent[c]) + 2
    /\ sent[c] # <<>> => seqs[c] # 0
LEMMA Given ==
    ASSUME TypeOK, Numbered, Gives
    PROVE  \E c \in Conns :
             /\ task'[c] # "none"
             /\ \A d \in Conns \ {c} : task'[d] = task[d] /\ seqs'[d] = seqs[d]
             /\ \/ UNCHANGED <<sent, queue, arrivals>> /\ seqs'[c] = 0
                \/ \E input \in Inputs : Queues(c, input)
<1>0. /\ task \in [Conns -> {"none", "open", "ended"}] /\ seqs \in [Conns -> Nat]
      /\ sent \in [Conns -> Seq(Inputs)]
  BY Zenon DEF TypeOK, TaskType, SentType
<1>1. PICK c \in Conns :
        Connect(c) \/ Disconnect(c) \/ \E input \in Commands : Command(c, input)
  BY Zenon DEF Gives
<1>2. CASE Connect(c)
  <2>1. task[c] = "none" /\ task' = [task EXCEPT ![c] = "open"]
    BY <1>2, Zenon DEF Connect
  <2>2. sent[c] = <<>> /\ seqs[c] = 0
    BY <2>1, Zenon DEF Numbered
  <2>3. CASE UNCHANGED actorVars
    BY <1>0, <2>1, <2>2, <2>3, Zenon DEF actorVars
  <2>4. CASE seqs' = [seqs EXCEPT ![c] = 2] /\ push(c, 1, "Connect")
    <3>1. Queues(c, "Connect")
      BY <1>0, <2>2, <2>4, SMTT(30) DEF Queues
    <3> QED
      BY <1>0, <2>1, <2>4, <3>1, InputsFacts, ZenonT(60)
  <2> QED
    BY <1>2, <2>3, <2>4, ZenonT(60) DEF Connect
<1>3. CASE Disconnect(c)
  <2>1. task' = [task EXCEPT ![c] = "ended"] /\ seqs' = [seqs EXCEPT ![c] = 0]
    BY <1>3, Zenon DEF Disconnect
  <2>2. CASE UNCHANGED <<sent, queue, arrivals>>
    BY <1>0, <2>1, <2>2, Zenon
  <2>3. CASE seqs[c] # 0 /\ push(c, seqs[c], "Disconnect")
    <3>1. seqs[c] = Len(sent[c]) + 1 /\ sent[c] # <<>>
      BY <2>3, Zenon DEF Numbered
    <3>2. Queues(c, "Disconnect")
      BY <1>0, <2>1, <2>3, <3>1, ZenonT(60) DEF Queues
    <3> QED
      BY <1>0, <2>1, <3>2, InputsFacts, Zenon
  <2> QED
    BY <1>3, <2>2, <2>3, Zenon DEF Disconnect
<1>4. ASSUME NEW input \in Commands, Command(c, input)
      PROVE  /\ task'[c] # "none"
             /\ \A d \in Conns \ {c} : task'[d] = task[d] /\ seqs'[d] = seqs[d]
             /\ \E given \in Inputs : Queues(c, given)
  <2> DEFINE given == IF input = "Put" /\ full THEN "PutRejected" ELSE input
  <2>1. given \in Inputs /\ given # "Connect" /\ given # "Disconnect"
    BY InputsFacts, CommandsAssumption, Zenon
  <2>2. /\ push(c, seqs[c], given) /\ seqs' = [seqs EXCEPT ![c] = @ + 1]
        /\ task[c] = "open" /\ task' = task /\ seqs[c] # 0
    BY <1>4, Zenon DEF Command
  <2> HIDE DEF given
  <2>3. seqs[c] = Len(sent[c]) + 1 /\ sent[c] # <<>>
    BY <2>2, Zenon DEF Numbered
  <2>4. Len(sent[c]) \in Nat /\ seqs'[c] = Len(sent[c]) + 2
    BY <1>0, <2>2, <2>3, SMTT(30)
  <2>5. Queues(c, given)
    BY <2>1, <2>2, <2>3, <2>4, ZenonT(60) DEF Queues
  <2> QED
    BY <1>0, <2>1, <2>2, <2>5, ZenonT(60)
<1> QED
  BY <1>1, <1>2, <1>3, <1>4, ZenonT(60)

\* Connections number what they give.
LEMMA NumberedStep ==
    ASSUME TypeOK, Numbered, [Next]_vars
    PROVE  Numbered'
<1>1. CASE ~Gives
  <2>1. UNCHANGED <<sent, seqs, task>>
    BY <1>1, Framed, Zenon DEF Frame
  <2> QED
    BY <2>1, Zenon DEF Numbered
<1>2. CASE Gives
  <2>0. sent \in [Conns -> Seq(Inputs)]
    BY Zenon DEF TypeOK, SentType
  <2>1. PICK c \in Conns :
          /\ task'[c] # "none"
          /\ \A d \in Conns \ {c} : task'[d] = task[d] /\ seqs'[d] = seqs[d]
          /\ \/ UNCHANGED <<sent, queue, arrivals>> /\ seqs'[c] = 0
             \/ \E input \in Inputs : Queues(c, input)
    BY <1>2, Given, Zenon
  <2>2. CASE UNCHANGED <<sent, queue, arrivals>> /\ seqs'[c] = 0
    BY <2>1, <2>2, ZenonT(60) DEF Numbered
  <2>3. ASSUME NEW input \in Inputs, Queues(c, input)
        PROVE  Numbered'
    <3>1. sent' = [sent EXCEPT ![c] = Append(@, input)]
      BY <2>3, Zenon DEF Queues, push
    <3>2. /\ sent'[c] = Append(sent[c], input) /\ sent[c] \in Seq(Inputs)
          /\ Len(sent'[c]) = Len(sent[c]) + 1 /\ Len(sent[c]) \in Nat
          /\ sent'[c][Len(sent[c]) + 1] = input /\ sent'[c] # <<>>
          /\ \A k \in 1..Len(sent[c]) : sent'[c][k] = sent[c][k]
      BY <2>0, <3>1, SMTT(30)
    <3>3. \A d \in Conns \ {c} : sent'[d] = sent[d]
      BY <2>0, <3>1, ZenonT(60)
    <3>4. \A k \in 1..Len(sent'[c]) : sent'[c][k] = "Connect" <=> k = 1
      <4> SUFFICES ASSUME NEW k \in 1..Len(sent'[c])
                   PROVE  sent'[c][k] = "Connect" <=> k = 1
        BY Zenon
      <4>1. CASE k \in 1..Len(sent[c])
        BY <3>2, <4>1, ZenonT(60) DEF Numbered
      <4>2. CASE k = Len(sent[c]) + 1
        <5>1. sent[c] = <<>> <=> Len(sent[c]) = 0
          BY <3>2, SMTT(30)
        <5> QED
          BY <2>3, <3>2, <4>2, <5>1, SMTT(30) DEF Queues
      <4> QED
        BY <3>2, <4>1, <4>2, SMTT(30)
    <3>5. seqs'[c] # 0 =>
            /\ seqs'[c] = Len(sent'[c]) + 1 /\ sent'[c] # <<>>
            /\ \A k \in 1..Len(sent'[c]) : sent'[c][k] # "Disconnect"
      <4>1. ASSUME input # "Disconnect", NEW k \in 1..Len(sent'[c])
            PROVE  sent'[c][k] # "Disconnect"
        <5>1. CASE k \in 1..Len(sent[c])
          <6>1. sent[c] # <<>>
            BY <3>2, <5>1
          <6>2. seqs[c] # 0
            BY <2>3, <6>1, Zenon DEF Queues
          <6> QED
            BY <3>2, <5>1, <6>2, ZenonT(20) DEF Numbered
        <5>2. CASE k = Len(sent[c]) + 1
          BY <3>2, <4>1, <5>2, Zenon
        <5> QED
          BY <3>2, <5>1, <5>2, SMTT(30)
      <4> QED
        BY <2>3, <3>2, <4>1, SMTT(30) DEF Queues
    <3> QED
      BY <2>1, <3>3, <3>4, <3>5, SMTT(30) DEF Numbered
  <2> QED
    BY <2>1, <2>2, <2>3, Zenon
<1> QED
  BY <1>1, <1>2, Zenon
\* Copies that say what their connection gave go on saying so, for a
\* connection only adds to what it gave; and nothing on the way alters one.
LEMMA UnalteredStep ==
    ASSUME Counting, TypeOK, Unaltered, Numbered, [Next]_vars
    PROVE  Unaltered'
<1>0. Real \subseteq Real'
  <2> SUFFICES ASSUME NEW i \in Item, Genuine(i)
               PROVE  Genuine(i)'
    BY Zenon DEF Real
  <2>1. i.conn \in Conns
    BY Zenon DEF Item
  <2> QED
    BY <2>1, StaysGenuine, Zenon
<1>1. Copied(Real)'
  <2>1. \A e \in queue : Content(e) \in Real
    <3> SUFFICES ASSUME NEW e \in queue
                 PROVE  Content(e) \in Item /\ Genuine(Content(e))
      BY Zenon DEF Real
    <3>1. e \in QueueItem /\ Genuine(e)
      BY Zenon DEF TypeOK, QueueType, Unaltered
    <3> QED
      BY <3>1, Zenon DEF QueueItem, Item, Content, Genuine
  <2>2. Real \in SUBSET Item /\ Copied(Real)
    BY Zenon DEF Real, Unaltered
  <2> HIDE DEF Real
  <2>3. /\ \A r \in net' : r.items \subseteq Real
        /\ prop' \in [Nodes -> Seq(SUBSET Real)]
        /\ tail' \in [Nodes -> Seq(EntryOf(Real))]
        /\ pend' \in Seq(EntryOf(Real))
    BY <2>1, <2>2, CopiedStep, Zenon
  <2>4. EntryOf(Real) \subseteq EntryOf(Real') /\ SUBSET Real \subseteq SUBSET Real'
    BY <1>0, Zenon DEF EntryOf
  <2>5. EntryOf(Real)' = EntryOf(Real')
    BY Zenon DEF EntryOf
  <2>6. \A S, T : S \subseteq T => Seq(S) \subseteq Seq(T)
    OBVIOUS
  <2>7. /\ prop' \in [Nodes -> Seq(SUBSET Real')]
        /\ tail' \in [Nodes -> Seq(EntryOf(Real'))]
        /\ pend' \in Seq(EntryOf(Real'))
    BY <2>3, <2>4, <2>6, Zenon
  <2> QED
    BY <1>0, <2>3, <2>5, <2>7, ZenonT(60) DEF Copied
<1>2. \A e \in queue' : Genuine(e)' /\ e.at < arrivals'
  <2>0. queue \subseteq QueueItem /\ arrivals \in Nat /\ sent \in [Conns -> Seq(Inputs)]
    BY Zenon DEF TypeOK, QueueType, SentType
  <2>1. \A e \in queue : Genuine(e)' /\ e.at < arrivals
    <3> SUFFICES ASSUME NEW e \in queue
                 PROVE  Genuine(e)'
      BY Zenon DEF Unaltered
    <3>1. e.conn \in Conns /\ Genuine(e)
      BY <2>0, Zenon DEF QueueItem, Unaltered
    <3> QED
      BY <3>1, StaysGenuine, Zenon
  <2>2. CASE Gives
    <3>1. PICK c \in Conns : \/ UNCHANGED <<sent, queue, arrivals>>
                            \/ \E input \in Inputs : Queues(c, input)
      BY <2>2, Given, Zenon
    <3>2. CASE UNCHANGED <<sent, queue, arrivals>>
      BY <2>1, <3>2, Zenon
    <3>3. ASSUME NEW input \in Inputs, Queues(c, input)
          PROVE  \A e \in queue' : Genuine(e)' /\ e.at < arrivals'
      <4>0. PICK new : new = [conn |-> c, seq |-> Len(sent[c]) + 1, input |-> input,
                              at |-> arrivals, sends |-> 0, pass |-> 0]
        BY Zenon
      <4>1. /\ queue' = queue \cup {new} /\ arrivals' = arrivals + 1
            /\ sent'[c] = Append(sent[c], input)
        BY <2>0, <3>3, <4>0, ZenonT(60) DEF Queues, push
      <4>2. /\ sent[c] \in Seq(Inputs)
            /\ Len(sent[c]) + 1 \in 1..Len(sent'[c])
            /\ sent'[c][Len(sent[c]) + 1] = input
        BY <2>0, <4>1, SMTT(30)
      <4>3. Genuine(new)' /\ new.at < arrivals'
        BY <2>0, <4>0, <4>1, <4>2, SMTT(30) DEF Genuine
      <4>4. \A e \in queue : e.at < arrivals'
        BY <2>0, <2>1, <4>1, SMTT(30) DEF QueueItem
      <4> QED
        BY <2>1, <4>1, <4>3, <4>4, Zenon
    <3> QED
      BY <3>1, <3>2, <3>3, Zenon
  <2>3. CASE ~Gives
    <3>1. PICK q \in SUBSET queue : Holds(q)
      BY <2>3, QueueMoves, Zenon
    <3>2. UNCHANGED <<sent, arrivals>>
      BY <2>3, Framed, Zenon DEF Frame
    <3> SUFFICES ASSUME NEW e \in queue'
                 PROVE  Genuine(e) /\ e.at < arrivals
      BY <3>2, Zenon DEF Genuine
    <3>3. PICK f \in q : Same(e, f)
      BY <3>1, Zenon DEF Holds
    <3>4. Genuine(f) /\ f.at < arrivals
      BY <3>1, Zenon DEF Unaltered
    <3> QED
      BY <3>3, <3>4, Zenon DEF Same, Genuine
  <2> QED
    BY <2>2, <2>3, Zenon
<1> QED
  BY <1>1, <1>2, Zenon DEF Unaltered

\* The state machine takes the next input of c (apply_conn).
Takes(c) ==
    LET k == Len(fed[c]) + 1
        input == sent[c][k]
    IN  /\ k \in 1..Len(sent[c]) /\ ~gone(c)
        /\ k = 1 <=> c > highest
        /\ k # 1 => next_seq[c] = k
        /\ fed' = [fed EXCEPT ![c] = Append(@, input)]
        /\ next_seq' = [next_seq EXCEPT ![c] = IF input = "Disconnect" THEN 0 ELSE k + 1]
        /\ highest' = IF k = 1 THEN c ELSE highest
        /\ IF installing THEN UNCHANGED sinkVars
           ELSE /\ events' = Append(events, [conn |-> c, seq |-> k])
                /\ closing' = IF input = "Disconnect" THEN closing \cup {c} ELSE closing

\* An entry is ignored, or it is the next input of its connection: the rule
\* of apply_conn accepts nothing else.
LEMMA Taken ==
    ASSUME TypeOK, Unaltered, Numbered, InStep, ApplyConn
    PROVE  UNCHANGED <<stateVars, sinkVars>> \/ \E c \in Conns : Takes(c)
<1> DEFINE i == Head(pend).item
<1>1. i \in Real
  <2>1. pend \in Seq(EntryOf(Real)) /\ pend # <<>> /\ Head(pend).op = "Conn"
    BY Zenon DEF Unaltered, Copied, ApplyConn
  <2>2. Head(pend) \in EntryOf(Real)
    BY <2>1
  <2> HIDE DEF Real
  <2> QED
    BY <2>1, <2>2, Zenon DEF EntryOf
<1>2. CASE UNCHANGED <<stateVars, sinkVars>>
  BY <1>2, Zenon
<1>3. CASE InTurn(i) /\ apply_conn(i)
  <2> HIDE DEF i
  <2>1. PICK c \in Conns : c = i.conn
    BY <1>1, Zenon DEF Real, Item
  <2> DEFINE k == Len(fed[c]) + 1
  <2>2. i.seq \in 1..Len(sent[c]) /\ sent[c][i.seq] = i.input /\ i.seq \in Nat
    BY <1>1, <2>1, Zenon DEF Real, Genuine, Item
  <2>3. i.input = "Connect" <=> i.seq = 1
    BY <2>2, ZenonT(60) DEF Numbered
  <2>4. /\ fed[c] \in Seq(Inputs) /\ next_seq[c] \in Nat /\ highest \in Nat /\ c \in Nat
        /\ Len(fed[c]) \in Nat /\ (fed[c] = <<>> <=> Len(fed[c]) = 0)
    BY InputsFacts DEF TypeOK, StateType
  <2>5. CASE i.seq = 1
    <3>1. next_seq[c] = 0 /\ c > highest
      BY <1>3, <2>1, <2>3, <2>5, ZenonT(60) DEF InTurn
    <3>2. k = 1
      BY <2>4, <3>1, SMTT(30) DEF InStep
    <3>3. sent[c][k] = "Connect" /\ k \in 1..Len(sent[c]) /\ k = i.seq
      BY <2>2, <2>3, <2>5, <3>2, ZenonT(60)
    <3>4. ~gone(c)
      BY <2>4, <3>1 DEF gone
    <3> QED
      BY <1>3, <2>1, <2>2, <2>3, <3>1, <3>2, <3>3, <3>4, ZenonT(60) DEF Takes, apply_conn
  <2>6. CASE i.seq # 1
    <3>1. next_seq[c] = i.seq /\ next_seq[c] # 0
      BY <1>3, <2>1, <2>2, <2>3, <2>6, SMTT(30) DEF InTurn
    <3>2. k = i.seq /\ c <= highest
      BY <3>1, Zenon DEF InStep
    <3>3. sent[c][k] = i.input /\ k \in 1..Len(sent[c]) /\ i.input # "Connect"
      BY <2>2, <2>3, <2>6, <3>2, ZenonT(60)
    <3>4. ~gone(c) /\ ~(c > highest)
      BY <2>4, <3>1, <3>2, SMTT(30) DEF gone
    <3> QED
      BY <1>3, <2>1, <2>6, <3>1, <3>2, <3>3, <3>4, ZenonT(60) DEF Takes, apply_conn
  <2> QED
    BY <2>5, <2>6, Zenon
<1> QED
  BY <1>2, <1>3, Zenon DEF ApplyConn

\* The state machine's counters follow what it has taken.
LEMMA InStepStep ==
    ASSUME TypeOK, Unaltered, Numbered, InStep, [Next]_vars
    PROVE  InStep'
<1>0. /\ fed \in [Conns -> Seq(Inputs)] /\ next_seq \in [Conns -> Nat]
      /\ highest \in Nat /\ sent \in [Conns -> Seq(Inputs)] /\ Conns \subseteq Nat
  BY InputsFacts, Zenon DEF TypeOK, StateType, SentType
<1>1. CASE UNCHANGED <<stateVars, sent>>
  BY <1>1, Zenon DEF InStep, stateVars
<1>2. CASE Gives
  <2>1. UNCHANGED stateVars
    BY <1>2, Zenon DEF Gives, Connect, Disconnect, Command, stateVars
  <2>2. PICK c \in Conns : \/ UNCHANGED sent
                          \/ \E input \in Inputs : Queues(c, input)
    BY <1>2, Given, Zenon
  <2>3. ASSUME NEW input \in Inputs, Queues(c, input)
        PROVE  InStep'
    <3>1. sent' = [sent EXCEPT ![c] = Append(@, input)]
      BY <2>3, Zenon DEF Queues, push
    <3>2. \A d \in Conns : Len(sent'[d]) >= Len(sent[d]) /\ Len(fed[d]) \in Nat
      BY <1>0, <3>1, SMTT(30)
    <3>3. \A d \in Conns : Len(fed[d]) <= Len(sent'[d])
      BY <1>0, <3>2, SMTT(30) DEF InStep
    <3> QED
      BY <2>1, <3>3, Zenon DEF InStep, stateVars
  <2> QED
    BY <1>1, <2>1, <2>2, <2>3, ZenonT(60)
<1>3. ASSUME NEW c \in Conns, Takes(c), sent' = sent
      PROVE  InStep'
  <2> DEFINE k == Len(fed[c]) + 1
             input == sent[c][k]
  <2>1. /\ k \in 1..Len(sent[c]) /\ (k = 1 <=> c > highest)
        /\ fed' = [fed EXCEPT ![c] = Append(@, input)]
        /\ next_seq' = [next_seq EXCEPT ![c] = IF input = "Disconnect" THEN 0 ELSE k + 1]
        /\ highest' = IF k = 1 THEN c ELSE highest
    BY <1>3, Zenon DEF Takes
  <2> HIDE DEF input
  <2>2. /\ fed'[c] = Append(fed[c], input) /\ Len(fed'[c]) = k /\ fed'[c] # <<>>
        /\ next_seq'[c] # 0 => next_seq'[c] = k + 1
        /\ k \in Nat
    BY <1>0, <2>1, SMTT(30)
  <2>3. \A d \in Conns \ {c} : fed'[d] = fed[d] /\ next_seq'[d] = next_seq[d]
    BY <1>0, <2>1, Zenon
  <2>4. highest' >= highest /\ c <= highest'
    BY <1>0, <2>1, SMTT(30)
  <2>5. \A d \in Conns \ {c} :
          /\ next_seq'[d] # 0 =>
                next_seq'[d] = Len(fed'[d]) + 1 /\ fed'[d] # <<>> /\ d <= highest'
          /\ d > highest' => fed'[d] = <<>>
          /\ Len(fed'[d]) <= Len(sent'[d])
    BY <1>0, <1>3, <2>1, <2>3, <2>4, SMTT(30) DEF InStep
  <2>6. /\ next_seq'[c] # 0 =>
              next_seq'[c] = Len(fed'[c]) + 1 /\ fed'[c] # <<>> /\ c <= highest'
        /\ c > highest' => fed'[c] = <<>>
        /\ Len(fed'[c]) <= Len(sent'[c])
    <3>1. ~(c > highest')
      BY <1>0, <2>1
    <3> QED
      BY <1>3, <2>1, <2>2, <2>4, <3>1, SMTT(30)
  <2> QED
    BY <2>5, <2>6, Zenon DEF InStep
<1>4. CASE ApplyConn
  <2>1. sent' = sent
    BY <1>4, Zenon DEF ApplyConn, actorVars
  <2> QED
    BY <1>1, <1>3, <1>4, <2>1, Taken, ZenonT(60)
<1>5. CASE ApplyDropNode
  <2>1. UNCHANGED <<highest, fed, sent>>
    BY <1>5, Zenon DEF ApplyDropNode, actorVars
  <2>2. \A c \in Conns : next_seq'[c] # 0 => next_seq'[c] = next_seq[c]
    BY <1>0, <1>5, Zenon DEF ApplyDropNode
  <2> QED
    BY <2>1, <2>2, Zenon DEF InStep
<1> QED
  BY <1>1, <1>2, <1>4, <1>5, Framed, ZenonT(60) DEF Frame, stateVars

\* What was taken stays taken, and a connection that is over stays over
\* (numbers are not reused: highest_local only grows).
LEMMA OnlyForward ==
    ASSUME TypeOK, Unaltered, Numbered, InStep, [Next]_vars, NEW d \in Conns
    PROVE  Len(fed'[d]) >= Len(fed[d]) /\ (gone(d) => gone(d)')
<1>0. /\ fed \in [Conns -> Seq(Inputs)] /\ next_seq \in [Conns -> Nat]
      /\ highest \in Nat /\ Conns \subseteq Nat /\ Len(fed[d]) \in Nat
  BY InputsFacts DEF TypeOK, StateType
<1>1. CASE UNCHANGED stateVars
  BY <1>0, <1>1, SMTT(30) DEF gone, stateVars
<1>2. ASSUME NEW c \in Conns, Takes(c)
      PROVE  Len(fed'[d]) >= Len(fed[d]) /\ (gone(d) => gone(d)')
  <2> DEFINE k == Len(fed[c]) + 1
             input == sent[c][k]
  <2>1. /\ k \in 1..Len(sent[c]) /\ (k = 1 <=> c > highest) /\ ~gone(c)
        /\ fed' = [fed EXCEPT ![c] = Append(@, input)]
        /\ next_seq' = [next_seq EXCEPT ![c] = IF input = "Disconnect" THEN 0 ELSE k + 1]
        /\ highest' = IF k = 1 THEN c ELSE highest
    BY <1>2, Zenon DEF Takes
  <2> HIDE DEF input
  <2>2. highest' >= highest /\ highest' \in Nat
    BY <1>0, <2>1, SMTT(30)
  <2>3. CASE d = c
    BY <1>0, <2>1, <2>3, SMTT(30)
  <2>4. CASE d # c
    BY <1>0, <2>1, <2>2, <2>4, SMTT(30) DEF gone
  <2> QED
    BY <2>3, <2>4, Zenon
<1>3. CASE ApplyConn
  BY <1>1, <1>2, <1>3, Taken, ZenonT(60)
<1>4. CASE ApplyDropNode
  <2>1. UNCHANGED <<highest, fed>>
    BY <1>4, Zenon DEF ApplyDropNode
  <2>2. next_seq'[d] = 0 \/ next_seq'[d] = next_seq[d]
    BY <1>0, <1>4, ZenonT(60) DEF ApplyDropNode
  <2>3. gone(d) => gone(d)'
    BY <2>1, <2>2, Zenon DEF gone
  <2> QED
    BY <1>0, <2>1, <2>3, SMTT(30)
<1> QED
  BY <1>1, <1>3, <1>4, Framed, ZenonT(60) DEF Frame, stateVars

\* An Applied event is sent only for what was taken.
LEMMA ReportedStep ==
    ASSUME Counting, TypeOK, Unaltered, Numbered, InStep, Reported, [Next]_vars
    PROVE  Reported'
<1>0. /\ events \in Seq([conn : Conns, seq : Nat])
      /\ fed \in [Conns -> Seq(Inputs)] /\ fed' \in [Conns -> Seq(Inputs)]
  BY TypeStep, Zenon DEF TypeOK, StateType, SinkType
<1>1. \A d \in Conns : Len(fed'[d]) >= Len(fed[d])
                       /\ Len(fed'[d]) \in Nat /\ Len(fed[d]) \in Nat
  BY <1>0, OnlyForward, SMTT(30)
<1>2. \A k \in 1..Len(events) : events[k].seq <= Len(fed'[events[k].conn])
  <2> SUFFICES ASSUME NEW k \in 1..Len(events)
               PROVE  events[k].seq <= Len(fed'[events[k].conn])
    BY Zenon
  <2>1. events[k] \in [conn : Conns, seq : Nat]
    BY <1>0, ElementFacts, Zenon
  <2>2. events[k].conn \in Conns /\ events[k].seq \in Nat
    BY <2>1, Zenon
  <2> QED
    BY <1>1, <2>2, SMTT(30) DEF Reported
<1>3. CASE UNCHANGED events
  BY <1>2, <1>3, Zenon DEF Reported
<1>4. CASE Hears
  <2>1. events # <<>> /\ events' = Tail(events)
    BY <1>4, Zenon DEF Hears, on_event
  <2>2. \A k \in 1..Len(events') : events'[k] = events[k + 1] /\ k + 1 \in 1..Len(events)
    BY <1>0, <2>1, SMTT(30)
  <2> QED
    BY <1>2, <2>2, Zenon DEF Reported
<1>5. ASSUME NEW c \in Conns, Takes(c)
      PROVE  Reported'
  <2> DEFINE new == [conn |-> c, seq |-> Len(fed[c]) + 1]
  <2>1. CASE installing
    BY <1>3, <1>5, <2>1, Zenon DEF Takes, sinkVars
  <2>2. CASE ~installing
    <3>1. /\ events' = Append(events, new)
          /\ fed' = [fed EXCEPT ![c] = Append(@, sent[c][Len(fed[c]) + 1])]
      BY <1>5, <2>2, Zenon DEF Takes
    <3>2. new.seq <= Len(fed'[new.conn])
      BY <1>0, <3>1, SMTT(30)
    <3> HIDE DEF new
    <3>3. /\ Len(events') = Len(events) + 1 /\ events'[Len(events) + 1] = new
          /\ \A k \in 1..Len(events) : events'[k] = events[k]
          /\ Len(events) \in Nat
      BY <1>0, <3>1, SMTT(30)
    <3>4. ASSUME NEW k \in 1..Len(events')
          PROVE  events'[k].seq <= Len(fed'[events'[k].conn])
      <4>1. k \in 1..Len(events) \/ k = Len(events) + 1
        BY <3>3
      <4> QED
        BY <1>2, <3>2, <3>3, <4>1, ZenonT(60)
    <3> QED
      BY <3>4, Zenon DEF Reported
  <2> QED
    BY <2>1, <2>2, Zenon
<1>6. CASE ApplyConn
  <2>1. UNCHANGED <<stateVars, sinkVars>> => UNCHANGED events
    BY Zenon DEF sinkVars
  <2> QED
    BY <1>3, <1>5, <1>6, <2>1, Taken, ZenonT(60)
<1> QED
  BY <1>3, <1>4, <1>6, Framed, ZenonT(60) DEF Frame

\* What leaves the queue was applied, or its connection is over: prune and
\* the Applied events settle nothing else.
LEMMA SettledTaken ==
    ASSUME TypeOK, InStep, Reported, NEW e \in QueueItem, Settled(e)
    PROVE  e.seq <= Len(fed[e.conn]) \/ gone(e.conn)
<1>0. /\ e.conn \in Conns /\ e.seq \in Nat
      /\ next_seq[e.conn] \in Nat /\ fed[e.conn] \in Seq(Inputs) /\ highest \in Nat
  BY Zenon DEF TypeOK, StateType, QueueItem
<1>1. CASE prunable(e)
  BY <1>0, <1>1 DEF prunable, gone, InStep
<1>2. CASE events # <<>> /\ e.conn = Head(events).conn /\ e.seq = Head(events).seq
  <2>1. Head(events) = events[1] /\ 1 \in 1..Len(events)
    BY <1>2, SMTT(30) DEF TypeOK, SinkType
  <2> QED
    BY <1>2, <2>1, ZenonT(60) DEF Reported
<1> QED
  BY <1>1, <1>2, Zenon DEF Settled

\* No step forgets an input.
LEMMA ForgottenStep ==
    ASSUME Counting, TypeOK, Unaltered, Numbered, InStep, Reported, NothingForgotten,
           [Next]_vars
    PROVE  NothingForgotten'
<1>0. /\ sent \in [Conns -> Seq(Inputs)] /\ fed \in [Conns -> Seq(Inputs)]
      /\ queue \subseteq QueueItem
  BY Zenon DEF TypeOK, SentType, StateType, QueueType
<1> DEFINE Remembered(c, k) ==
             \/ k <= Len(fed[c]) \/ gone(c)
             \/ \E e \in queue : e.conn = c /\ e.seq = k /\ e.input = sent[c][k]
<1>1. \A c \in Conns : \A k \in 1..Len(sent[c]) : Remembered(c, k)
  BY ZenonT(60) DEF NothingForgotten, Over
<1>2. ASSUME NEW c \in Conns, NEW k \in Nat, k <= Len(fed[c]) \/ gone(c)
      PROVE  k <= Len(fed'[c]) \/ gone(c)'
  <2>1. Len(fed[c]) \in Nat /\ Len(fed'[c]) \in Nat
    BY TypeStep, SMTT(30) DEF TypeOK, StateType
  <2> QED
    BY <1>2, <2>1, OnlyForward
<1>3. SUFFICES ASSUME NEW c \in Conns, NEW k \in 1..Len(sent'[c])
               PROVE  \/ k <= Len(fed'[c]) \/ gone(c)'
                      \/ \E e \in queue' : e.conn = c /\ e.seq = k
                                           /\ e.input = sent'[c][k]
  BY DEF NothingForgotten, Over
<1>4. CASE ~Gives
  <2>1. sent' = sent
    BY <1>4, Framed, Zenon DEF Frame
  <2>2. CASE k <= Len(fed[c]) \/ gone(c)
    BY <1>2, <2>2
  <2>3. ASSUME NEW e \in queue, e.conn = c, e.seq = k, e.input = sent[c][k]
        PROVE  \/ k <= Len(fed'[c]) \/ gone(c)'
               \/ \E f \in queue' : f.conn = c /\ f.seq = k /\ f.input = sent'[c][k]
    <3>1. PICK q \in SUBSET queue : Holds(q) /\ \A f \in queue \ q : Settled(f)
      BY <1>4, QueueMoves, Zenon
    <3>2. CASE e \in q
      <4>1. PICK f \in queue' : Same(f, e)
        BY <3>1, <3>2, ZenonT(60) DEF Holds
      <4> QED
        BY <2>1, <2>3, <4>1, Zenon DEF Same
    <3>3. CASE e \notin q
      <4>1. Settled(e) /\ e \in QueueItem
        BY <1>0, <3>1, <3>3, ZenonT(60)
      <4>2. e.seq <= Len(fed[e.conn]) \/ gone(e.conn)
        BY <4>1, SettledTaken, Zenon
      <4> QED
        BY <1>0, <1>2, <2>3, <4>2, SMTT(30)
    <3> QED
      BY <3>2, <3>3, Zenon
  <2> QED
    BY <1>1, <2>1, <2>2, <2>3, ZenonT(60)
<1>5. CASE Gives
  <2>1. PICK d \in Conns : \/ UNCHANGED <<sent, queue>>
                          \/ \E input \in Inputs : Queues(d, input)
    BY <1>5, Given, ZenonT(60)
  <2>2. CASE UNCHANGED <<sent, queue>>
    BY <1>1, <1>2, <2>2, SMTT(30)
  <2>3. ASSUME NEW input \in Inputs, Queues(d, input)
        PROVE  \/ k <= Len(fed'[c]) \/ gone(c)'
               \/ \E f \in queue' : f.conn = c /\ f.seq = k /\ f.input = sent'[c][k]
    <3>1. PICK new : new = [conn |-> d, seq |-> Len(sent[d]) + 1, input |-> input,
                            at |-> arrivals, sends |-> 0, pass |-> 0]
      BY Zenon
    <3>2. queue' = queue \cup {new} /\ sent' = [sent EXCEPT ![d] = Append(@, input)]
      BY <2>3, <3>1, ZenonT(60) DEF Queues, push
    <3>3. CASE k \in 1..Len(sent[c]) /\ sent'[c][k] = sent[c][k]
      BY <1>1, <1>2, <3>2, <3>3, SMTT(30)
    <3>4. CASE ~(k \in 1..Len(sent[c]) /\ sent'[c][k] = sent[c][k])
      <4>1. d = c /\ k = Len(sent[c]) + 1 /\ sent'[c][k] = input
        BY <1>0, <3>2, <3>4, SMTT(30)
      <4> QED
        BY <3>1, <3>2, <4>1, SMTT(30)
    <3> QED
      BY <3>3, <3>4, Zenon
  <2> QED
    BY <2>1, <2>2, <2>3, ZenonT(60)
<1> QED
  BY <1>4, <1>5, Zenon

\* The queue stays in the order of the sequence numbers: new items are
\* numbered and appended after the others, and marking moves none.
LEMMA OrderStep ==
    ASSUME Counting, TypeOK, Unaltered, Numbered, QueueInOrder, [Next]_vars
    PROVE  QueueInOrder'
<1>0. /\ sent \in [Conns -> Seq(Inputs)] /\ arrivals \in Nat
      /\ queue \subseteq QueueItem
  BY Zenon DEF TypeOK, SentType, QueueType
<1>1. CASE ~Gives
  <2>1. PICK q \in SUBSET queue : Holds(q)
    BY <1>1, QueueMoves, Zenon
  <2>2. PICK mark \in [q -> QueueItem] :
          queue' = {mark[e] : e \in q} /\ \A e \in q : Same(mark[e], e)
    BY <2>1, ZenonT(60) DEF Holds
  <2> SUFFICES ASSUME NEW e \in q, NEW f \in q, mark[e].conn = mark[f].conn
               PROVE  /\ mark[e].seq < mark[f].seq <=> mark[e].at < mark[f].at
                      /\ mark[e].seq = mark[f].seq => mark[e] = mark[f]
    BY <2>2, SMTT(30) DEF QueueInOrder
  <2>3. /\ e.seq < f.seq <=> e.at < f.at
        /\ e.seq = f.seq => e = f
    BY <2>1, <2>2, SMTT(30) DEF QueueInOrder, Same
  <2> QED
    BY <2>2, <2>3, Zenon DEF Same
<1>2. CASE Gives
  <2>1. PICK d \in Conns : \/ UNCHANGED <<sent, queue>>
                          \/ \E input \in Inputs : Queues(d, input)
    BY <1>2, Given, Zenon
  <2>2. CASE UNCHANGED <<sent, queue>>
    BY <2>2, Zenon DEF QueueInOrder
  <2>3. ASSUME NEW input \in Inputs, Queues(d, input)
        PROVE  QueueInOrder'
    <3>1. PICK new : new = [conn |-> d, seq |-> Len(sent[d]) + 1, input |-> input,
                            at |-> arrivals, sends |-> 0, pass |-> 0]
      BY Zenon
    <3>2. queue' = queue \cup {new}
      BY <2>3, <3>1, Zenon DEF Queues, push
    <3>3. \A e \in queue : e.at < new.at /\ e.at \in Nat /\ new.at \in Nat
      BY <1>0, <3>1, ZenonT(60) DEF Unaltered, QueueItem
    <3>4. \A e \in queue : e.conn = new.conn =>
             e.seq < new.seq /\ e.seq \in Nat /\ new.seq \in Nat
      BY <1>0, <3>1, SMTT(30) DEF Unaltered, Genuine, QueueItem
    <3> SUFFICES ASSUME NEW e \in queue', NEW f \in queue', e.conn = f.conn
                 PROVE  /\ e.seq < f.seq <=> e.at < f.at
                        /\ e.seq = f.seq => e = f
      BY Zenon DEF QueueInOrder
    <3>5. CASE e \in queue /\ f \in queue
      BY <3>5, Zenon DEF QueueInOrder
    <3>6. CASE e \in queue /\ f = new
      BY <3>3, <3>4, <3>6, SMTT(30)
    <3>7. CASE e = new /\ f \in queue
      BY <3>3, <3>4, <3>7, SMTT(30)
    <3>8. CASE e = new /\ f = new
      BY <1>0, <3>1, <3>8, SMTT(30)
    <3> QED
      BY <3>2, <3>5, <3>6, <3>7, <3>8, ZenonT(60)
  <2> QED
    BY <2>1, <2>2, <2>3, Zenon
<1> QED
  BY <1>1, <1>2, Zenon

-----------------------------------------------------------------------------
(* Counting. *)

\* The facts about finite sets that the module below carries as a hypothesis
\* are theorems of the library.
LEMMA CountingHolds == Counting
<1>1. ASSUME NEW S, IsFiniteSet(S), NEW f
      PROVE  IsFiniteSet({f[x] : x \in S})
  <2> DEFINE I == {f[x] : x \in S}
             g == [x \in S |-> f[x]]
  <2>1. g \in Surjection(S, I)
    BY Zenon DEF Surjection
  <2> QED
    BY <1>1, <2>1, FS_Surjection, ZenonT(60)
<1>2. ASSUME NEW S, IsFiniteSet(S), NEW T \in SUBSET S
      PROVE  IsFiniteSet(T)
  BY <1>2, FS_Subset, Zenon
<1>3. ASSUME NEW S, IsFiniteSet(S), NEW T, IsFiniteSet(T)
      PROVE  IsFiniteSet(S \cup T)
  BY <1>3, FS_Union, Zenon
<1>4. ASSUME NEW S, IsFiniteSet(S), NEW x
      PROVE  Cardinality(S) \in Nat /\ IsFiniteSet(S \cup {x})
  BY <1>4, FS_CardinalityType, FS_AddElement, Zenon
<1>5. IsFiniteSet({})
  BY FS_EmptySet, Zenon
<1> QED
  BY <1>1, <1>2, <1>3, <1>4, <1>5, ZenonT(60) DEF Counting

-----------------------------------------------------------------------------
(* Closing. *)

\* The Connect of c waits in the queue, and no event will take it out.
Unreported(c) ==
    /\ \E e \in queue : e.conn = c /\ e.seq = 1
    /\ \A k \in 1..Len(events) : ~(events[k].conn = c /\ events[k].seq = 1)
Held(c) == task[c] = "open" /\ seqs[c] # 0
Doomed(c) == c \in fired \cup closing \cup install \/ Unreported(c)
\* What makes GoneWillClose inductive.  A connection that was refused was
\* never reported, so its Connect stays queued; one that a snapshot brings
\* in was connected by entries that report nothing, so its Connect does too.
Closes ==
    /\ ~installing => install = {}
    /\ \A c \in Conns : Held(c) =>
          /\ gone(c) => Doomed(c)
          /\ installing /\ next_seq[c] # 0 /\ c \notin install => Unreported(c)

\* A connection of which the state has taken nothing waits with its Connect.
LEMMA Waits ==
    ASSUME TypeOK, Numbered, Reported, NothingForgotten,
           NEW c \in Conns, Held(c), fed[c] = <<>>, ~gone(c)
    PROVE  Unreported(c)
<1>0. /\ sent[c] \in Seq(Inputs) /\ events \in Seq([conn : Conns, seq : Nat])
      /\ Len(fed[c]) = 0
  BY Zenon DEF TypeOK, SentType, SinkType
<1>1. 1 \in 1..Len(sent[c])
  BY <1>0, SMTT(30) DEF Numbered, Held
<1>2. \E e \in queue : e.conn = c /\ e.seq = 1
  BY <1>0, <1>1, SMTT(30) DEF NothingForgotten, Over
<1> QED
  BY <1>0, <1>2, SMTT(30) DEF Unreported, Reported

\* Who was held before a step that is not a connection's is held after it, and
\* conversely.
LEMMA HeldKept ==
    ASSUME [Next]_vars, ~Gives
    PROVE  \A c \in Conns : Held(c)' <=> Held(c)
BY Framed, Zenon DEF Frame, Held

\* Taking an input leaves every held connection that is over on the way to
\* being closed.
LEMMA TakesCloses ==
    ASSUME TypeOK, Numbered, InStep, Reported, NothingForgotten, Closes,
           [Next]_vars, ~Gives, UNCHANGED <<queue, fired, install, installing>>,
           NEW c \in Conns, Takes(c)
    PROVE  Closes'
<1>0. /\ fed \in [Conns -> Seq(Inputs)] /\ next_seq \in [Conns -> Nat]
      /\ highest \in Nat /\ Conns \subseteq Nat
      /\ events \in Seq([conn : Conns, seq : Nat])
  BY InputsFacts, ZenonT(60) DEF TypeOK, StateType, SinkType
<1> DEFINE k == Len(fed[c]) + 1
           input == sent[c][k]
<1>1. /\ ~gone(c) /\ (k = 1 <=> c > highest) /\ (k # 1 => next_seq[c] = k) /\ k \in Nat
      /\ next_seq' = [next_seq EXCEPT ![c] = IF input = "Disconnect" THEN 0 ELSE k + 1]
      /\ highest' = IF k = 1 THEN c ELSE highest
      /\ installing => UNCHANGED sinkVars
      /\ ~installing => /\ events' = Append(events, [conn |-> c, seq |-> k])
                        /\ closing' = IF input = "Disconnect" THEN closing \cup {c}
                                                              ELSE closing
  BY <1>0, SMTT(30) DEF Takes
<1> HIDE DEF input
<1>2. \A d \in Conns \ {c} : Unreported(d) => Unreported(d)'
  <2> SUFFICES ASSUME NEW d \in Conns \ {c}, Unreported(d)
               PROVE  \A j \in 1..Len(events') :
                         ~(events'[j].conn = d /\ events'[j].seq = 1)
    BY Zenon DEF Unreported
  <2>1. CASE installing
    BY <1>1, <2>1, Zenon DEF sinkVars, Unreported
  <2>2. CASE ~installing
    <3>1. PICK new : new = [conn |-> c, seq |-> k] /\ events' = Append(events, new)
      BY <1>1, <2>2, Zenon
    <3>2. new.conn = c
      BY <3>1, ZenonT(60)
    <3>3. /\ Len(events') = Len(events) + 1 /\ events'[Len(events) + 1] = new
          /\ \A j \in 1..Len(events) : events'[j] = events[j]
          /\ Len(events) \in Nat
      BY <1>0, <3>1, SMTT(30)
    <3>4. \A j \in 1..Len(events') : j \in 1..Len(events) \/ j = Len(events) + 1
      BY <3>3
    <3> QED
      BY <3>2, <3>3, <3>4, ZenonT(60) DEF Unreported
  <2> QED
    BY <2>1, <2>2, Zenon
<1>3. closing \subseteq closing'
  BY <1>1, Zenon DEF sinkVars
<1>4. ASSUME NEW d \in Conns \ {c}, Held(d)
      PROVE  /\ gone(d)' => Doomed(d)'
             /\ installing' /\ next_seq'[d] # 0 /\ d \notin install' => Unreported(d)'
  <2>1. next_seq'[d] = next_seq[d]
    BY <1>0, <1>1, ZenonT(60)
  <2>2. installing' /\ next_seq'[d] # 0 /\ d \notin install' => Unreported(d)'
    BY <1>2, <1>4, <2>1, Zenon DEF Closes
  <2>3. CASE gone(d)
    BY <1>2, <1>3, <1>4, <2>2, <2>3, ZenonT(60) DEF Closes, Doomed
  <2>4. CASE ~gone(d) /\ gone(d)'
    <3>1. d > highest /\ d \in Nat
      BY <1>0, <1>1, <2>1, <2>4, SMTT(30) DEF gone
    <3>2. fed[d] = <<>>
      BY <3>1, Zenon DEF InStep
    <3>3. Unreported(d)
      BY <1>4, <2>4, <3>2, Waits, ZenonT(60)
    <3> QED
      BY <1>2, <2>2, <3>3, ZenonT(60) DEF Doomed
  <2> QED
    BY <2>2, <2>3, <2>4, ZenonT(60)
<1>5. ASSUME Held(c)
      PROVE  /\ gone(c)' => Doomed(c)'
             /\ installing' /\ next_seq'[c] # 0 /\ c \notin install' => Unreported(c)'
  <2>1. CASE installing
    <3>1. c \in install \/ Unreported(c)
      <4>1. CASE k = 1
        <5>1. fed[c] = <<>>
          BY <1>0, <1>1, <4>1, SMTT(30)
        <5> QED
          BY <1>1, <1>5, <5>1, Waits, ZenonT(60)
      <4>2. CASE k # 1
        BY <1>0, <1>1, <1>5, <2>1, <4>2, SMTT(30) DEF Closes
      <4> QED
        BY <4>1, <4>2, Zenon
    <3>2. Unreported(c) => Unreported(c)'
      BY <1>1, <2>1, Zenon DEF Unreported, sinkVars
    <3> QED
      BY <3>1, <3>2, Zenon DEF Doomed
  <2>2. CASE ~installing
    <3>1. gone(c)' => input = "Disconnect"
      BY <1>0, <1>1, SMTT(30) DEF gone
    <3> QED
      BY <1>1, <2>2, <3>1, ZenonT(60) DEF Doomed
  <2> QED
    BY <2>1, <2>2, Zenon
<1>6. ~installing' => install' = {}
  BY Zenon DEF Closes
<1> QED
  BY <1>4, <1>5, <1>6, HeldKept, ZenonT(60) DEF Closes

\* Marks aside, a queue that loses no Connect of c keeps c waiting.
LEMMA StaysUnreported ==
    ASSUME NEW c \in Conns, Unreported(c), NEW q \in SUBSET queue, Holds(q),
           \A e \in queue : e.conn = c /\ e.seq = 1 => e \in q,
           events' = events \/ (events # <<>> /\ events' = Tail(events)),
           events \in Seq([conn : Conns, seq : Nat])
    PROVE  Unreported(c)'
<1>1. PICK e \in queue : e.conn = c /\ e.seq = 1
  BY Zenon DEF Unreported
<1>2. PICK f \in queue' : Same(f, e)
  BY <1>1, Zenon DEF Holds
<1>3. \A k \in 1..Len(events') : \E j \in 1..Len(events) : events'[k] = events[j]
  <2>1. CASE events' = events
    BY <2>1, Zenon
  <2>2. CASE events # <<>> /\ events' = Tail(events)
    <3>1. \A k \in 1..Len(events') :
            events'[k] = events[k + 1] /\ k + 1 \in 1..Len(events)
      BY <2>2
    <3> QED
      BY <3>1, Zenon
  <2> QED
    BY <2>1, <2>2, Zenon
<1>4. \A k \in 1..Len(events') : ~(events'[k].conn = c /\ events'[k].seq = 1)
  BY <1>3, Zenon DEF Unreported
<1> QED
  BY <1>1, <1>2, <1>4, Zenon DEF Unreported, Same

\* A step that takes a waiting Connect out of the queue although its
\* connection is over fires the closer (Actor::prune), and none does while a
\* snapshot is installed.
LEMMA WaitStays ==
    ASSUME Counting, TypeOK, [Next]_vars, ~Gives, ~ApplyConn,
           NEW c \in Conns, Held(c), Unreported(c)
    PROVE  Unreported(c)' \/ (~installing /\ (gone(c) => c \in fired'))
<1>0. /\ events \in Seq([conn : Conns, seq : Nat]) /\ queue \subseteq QueueItem
      /\ IsFiniteSet(queue) /\ pass \in Nat
  BY Zenon DEF TypeOK, SinkType, QueueType
<1>1. CASE UNCHANGED events /\ Holds(queue)
  BY <1>0, <1>1, StaysUnreported, ZenonT(60)
<1>2. CASE UNCHANGED <<events, queue>>
  BY <1>2, Zenon DEF Unreported
<1>3. CASE Hears
  <2>1. PICK recently \in BOOLEAN : on_event(recently)
    BY <1>3, Zenon DEF Hears
  <2> DEFINE found == {e \in queue : e.conn = Head(events).conn
                                  /\ e.seq = Head(events).seq}
             rest == queue \ found
             kept == {e \in rest : ~prunable(e)}
  <2>2. /\ ~installing /\ events # <<>> /\ events' = Tail(events)
        /\ \/ Rewound(kept) /\ close(orphans(rest))
           \/ queue' = rest
    BY <2>1, ZenonT(60) DEF on_event, Alive
  <2>3. Head(events) = events[1] /\ 1 \in 1..Len(events)
    BY <1>0, <2>2, SMTT(30)
  <2>4. \A e \in queue : e.conn = c /\ e.seq = 1 => e \in rest
    BY <2>3, Zenon DEF Unreported
  <2>5. PICK e \in rest : e.conn = c /\ e.seq = 1
    BY <2>4, Zenon DEF Unreported
  <2> HIDE DEF rest
  <2>6. CASE close(orphans(rest))
    BY <2>2, <2>5, <2>6, ZenonT(60) DEF close, orphans, Held
  <2>7. CASE queue' = rest
    <3>1. \A k \in 1..Len(events') : events'[k] = events[k + 1] /\ k + 1 \in 1..Len(events)
      BY <1>0, <2>2, SMTT(30)
    <3> QED
      BY <2>5, <2>7, <3>1, ZenonT(60) DEF Unreported
  <2> QED
    BY <2>2, <2>6, <2>7, ZenonT(60)
<1>4. CASE Ticks
  <2>1. PICK stalled, cut_off, done \in BOOLEAN : on_tick(stalled, cut_off, done)
    BY <1>4, Zenon DEF Ticks
  <2>2. ~installing /\ events' = events
    BY <2>1, Zenon DEF on_tick, Alive, sinkVars
  <2>3. CASE stalled
    <3>1. gone(c) => c \in orphans(queue)
      BY Zenon DEF orphans, Held, Unreported
    <3>2. orphans(queue) \subseteq {d \in Conns : seqs[d] # 0}
      BY Zenon DEF orphans
    <3>3. \A d \in orphans(queue) : task[d] = "open" => d \in fired'
      BY <2>1, <2>3, Zenon DEF on_tick, close
    <3> QED
      BY <2>2, <3>1, <3>3, ZenonT(60) DEF Held
  <2>4. CASE ~stalled
    BY <1>2, <2>1, <2>2, <2>4, ZenonT(60) DEF on_tick
  <2> QED
    BY <2>3, <2>4, Zenon
<1>5. CASE on_view_change \/ on_forward_result
  <2>1. (Rewound(queue) \/ UNCHANGED queue) /\ UNCHANGED events
    BY <1>5, Zenon DEF on_view_change, on_forward_result, sinkVars
  <2> QED
    BY <1>0, <1>1, <1>2, <2>1, MarksOnly, ZenonT(60)
<1>6. CASE PumpLeading \/ PumpForward
  <2>1. \E batch \in SUBSET queue : SendNext(batch) \/ UNCHANGED queue
    BY <1>6, Zenon DEF PumpLeading, PumpForward, Unsent, FirstOf
  <2>2. UNCHANGED events
    BY <1>6, Zenon DEF PumpLeading, PumpForward, sinkVars
  <2> QED
    BY <1>0, <1>1, <1>2, <2>1, <2>2, MarksOnly, ZenonT(60)
<1> QED
  BY <1>2, <1>3, <1>4, <1>5, <1>6, Framed, ZenonT(60) DEF Frame

\* No step leaves a held connection that is over unattended.
LEMMA ClosesStep ==
    ASSUME Counting, TypeOK, Unaltered, Numbered, InStep, Reported, NothingForgotten,
           Closes, [Next]_vars
    PROVE  Closes'
<1>0. next_seq \in [Conns -> Nat] /\ highest \in Nat
  BY Zenon DEF TypeOK, StateType
<1>a. ~installing' => install' = {}
  BY Framed, ZenonT(30) DEF Frame, BeginInstall, EndInstall, Closes
<1>1. CASE Gives
  <2>1. UNCHANGED <<stateVars, snapVars, sinkVars>>
    BY <1>1, Zenon DEF Gives, Connect, Disconnect, Command
  <2>2. ASSUME NEW c \in Conns, Held(c)'
        PROVE  (c \in fired => c \in fired') /\ (task[c] = "open" \/ sent[c] = <<>>)
    <3>0. task \in [Conns -> {"none", "open", "ended"}]
      BY Zenon DEF TypeOK, TaskType
    <3>1. PICK d \in Conns :
            Connect(d) \/ Disconnect(d) \/ \E input \in Commands : Command(d, input)
      BY <1>1, Zenon DEF Gives
    <3>2. CASE Connect(d)
      <4>1. task[d] = "none" /\ task' = [task EXCEPT ![d] = "open"] /\ fired \subseteq fired'
        BY <3>2, Zenon DEF Connect
      <4> QED
        BY <2>2, <3>0, <4>1, ZenonT(60) DEF Numbered, Held
    <3>3. CASE Disconnect(d)
      <4>1. task' = [task EXCEPT ![d] = "ended"] /\ fired' = fired \ {d}
        BY <3>3, Zenon DEF Disconnect
      <4> QED
        BY <2>2, <3>0, <4>1, ZenonT(60) DEF Held
    <3>4. CASE \E input \in Commands : Command(d, input)
      BY <2>2, <3>4, Zenon DEF Command, Held
    <3> QED
      BY <3>1, <3>2, <3>3, <3>4, ZenonT(60)
  <2>3. PICK d \in Conns :
          /\ \A c \in Conns \ {d} : task'[c] = task[c] /\ seqs'[c] = seqs[c]
          /\ \/ UNCHANGED <<sent, queue, arrivals>> /\ seqs'[d] = 0
             \/ \E input \in Inputs : Queues(d, input)
    BY <1>1, Given, Zenon
  <2>4. queue \subseteq queue'
    BY <2>3, Zenon DEF Queues, push
  <2>5. \A c \in Conns : Unreported(c) => Unreported(c)'
    BY <2>1, <2>4, Zenon DEF Unreported, sinkVars
  <2>6. ASSUME NEW c \in Conns, Held(c)'
        PROVE  Held(c) \/ Unreported(c)'
    <3>1. CASE c # d
      BY <2>3, <2>6, <3>1, Zenon DEF Held
    <3>2. CASE c = d /\ sent[c] # <<>>
      <4>1. seqs[c] # 0
        BY <2>3, <2>6, <3>2, ZenonT(60) DEF Queues, Held
      <4> QED
        BY <2>2, <2>6, <3>2, <4>1, ZenonT(60) DEF Held
    <3>3. CASE c = d /\ sent[c] = <<>>
      <4>1. PICK input \in Inputs : Queues(c, input)
        BY <2>3, <2>6, <3>3, ZenonT(60) DEF Held
      <4>2. Len(sent[c]) = 0 /\ Len(fed[c]) \in Nat
        BY <3>3, SMTT(30) DEF TypeOK, SentType, StateType
      <4>3. \E e \in queue' : e.conn = c /\ e.seq = 1
        <5>1. PICK new : new = [conn |-> c, seq |-> Len(sent[c]) + 1, input |-> input,
                                at |-> arrivals, sends |-> 0, pass |-> 0]
          BY Zenon
        <5>2. new \in queue'
          BY <4>1, <5>1, ZenonT(60) DEF Queues, push
        <5> QED
          BY <4>2, <5>1, <5>2, SMTT(30)
      <4>4. ASSUME NEW k \in 1..Len(events), events[k].conn = c, events[k].seq = 1
            PROVE  FALSE
        BY <4>2, <4>4, SMTT(30) DEF Reported, InStep
      <4> QED
        BY <2>1, <4>3, <4>4, Zenon DEF Unreported, sinkVars
    <3> QED
      BY <3>1, <3>2, <3>3, ZenonT(60)
  <2>7. ASSUME NEW c \in Conns, Held(c)'
        PROVE  /\ gone(c)' => Doomed(c)'
               /\ installing' /\ next_seq'[c] # 0 /\ c \notin install' => Unreported(c)'
    <3>1. gone(c)' <=> gone(c)
      BY <2>1, Zenon DEF gone, stateVars
    <3>2. CASE Held(c)
      BY <2>1, <2>2, <2>5, <2>7, <3>1, <3>2, ZenonT(60)
         DEF Closes, Doomed, stateVars, snapVars, sinkVars
    <3> QED
      BY <2>6, <2>7, <3>2, ZenonT(60) DEF Doomed
  <2> QED
    BY <1>a, <2>7, Zenon DEF Closes
<1>2. CASE ApplyConn
  <2>1. /\ UNCHANGED <<queue, fired, install, installing>>
    BY <1>2, ZenonT(60) DEF ApplyConn, actorVars, snapVars
  <2>2. ~Gives
    BY <1>2 DEF ApplyConn, Gives, Connect, Disconnect, Command
  <2>3. CASE UNCHANGED <<stateVars, sinkVars>>
    <3>1. \A c \in Conns : (gone(c)' <=> gone(c)) /\ (Unreported(c)' <=> Unreported(c))
      BY <2>1, <2>3, Zenon DEF gone, Unreported, stateVars, sinkVars
    <3> QED
      BY <2>1, <2>2, <2>3, <3>1, HeldKept, ZenonT(60) DEF Closes, Doomed, stateVars, sinkVars
  <2> QED
    BY <1>2, <2>1, <2>2, <2>3, Taken, TakesCloses, ZenonT(60)
<1>3. CASE ~Gives /\ ~ApplyConn
  <2> SUFFICES ASSUME NEW c \in Conns, Held(c)
               PROVE  /\ gone(c)' => Doomed(c)'
                      /\ installing' /\ next_seq'[c] # 0 /\ c \notin install'
                            => Unreported(c)'
    BY <1>a, <1>3, HeldKept, Zenon DEF Closes
  <2>1. /\ gone(c) => Doomed(c)
        /\ installing /\ next_seq[c] # 0 /\ c \notin install => Unreported(c)
    BY Zenon DEF Closes
  <2>2. Unreported(c) => Unreported(c)' \/ (~installing /\ (gone(c) => c \in fired'))
    BY <1>3, WaitStays, Zenon
  <2>3. fired \subseteq fired'
    BY <1>3, Framed, ZenonT(60) DEF Frame, Hears, on_event, Ticks, on_tick, Shutdown, closed, close
  <2>4. CASE UNCHANGED <<stateVars, installing, install, closing>>
    <3>1. gone(c)' <=> gone(c)
      BY <2>4, Zenon DEF gone, stateVars
    <3> QED
      BY <2>1, <2>2, <2>3, <2>4, <3>1, ZenonT(60) DEF Doomed, stateVars
  <2>5. ASSUME NEW d \in Conns, closed(d)
        PROVE  /\ gone(c)' => Doomed(c)'
               /\ installing' /\ next_seq'[c] # 0 /\ c \notin install' => Unreported(c)'
    <3>1. /\ closing' = closing \ {d} /\ UNCHANGED <<stateVars, snapVars, events, queue>>
          /\ fired' = fired \cup {e \in {d} : task[e] = "open"}
      BY <2>5, Zenon DEF closed, close, actorVars
    <3>2. (gone(c)' <=> gone(c)) /\ (Unreported(c)' <=> Unreported(c))
      BY <3>1, Zenon DEF gone, stateVars, Unreported
    <3>3. task[c] = "open"
      BY Zenon DEF Held
    <3> QED
      BY <2>1, <3>1, <3>2, <3>3, ZenonT(60) DEF Doomed, snapVars, stateVars
  <2>6. CASE BeginInstall
    <3>1. /\ UNCHANGED <<stateVars, fired, closing, events, queue>>
          /\ install' = Connected /\ ~installing
      BY <2>6, Zenon DEF BeginInstall, actorVars, sinkVars
    <3>2. (gone(c)' <=> gone(c)) /\ (Unreported(c)' <=> Unreported(c))
      BY <3>1, Zenon DEF gone, stateVars, Unreported
    <3>3. next_seq[c] # 0 => c \in install'
      BY <3>1, Zenon DEF Connected
    <3> QED
      BY <2>1, <3>1, <3>2, <3>3, ZenonT(60) DEF Doomed, stateVars, Closes
  <2>7. CASE EndInstall
    <3>1. /\ UNCHANGED <<stateVars, fired, events, queue>>
          /\ installing' = FALSE
          /\ closing' = closing \cup install \cup Connected
      BY <2>7, Zenon DEF EndInstall, actorVars
    <3>2. (gone(c)' <=> gone(c)) /\ (Unreported(c)' <=> Unreported(c))
      BY <3>1, Zenon DEF gone, stateVars, Unreported
    <3> QED
      BY <2>1, <3>1, <3>2, ZenonT(60) DEF Doomed
  <2>8. CASE ApplyDropNode
    <3> DEFINE dropped == {d \in Connected : d <= Head(pend).up_to}
    <3>1. /\ UNCHANGED <<highest, fired, events, queue, install, installing>>
          /\ next_seq'[c] = IF c \in dropped THEN 0 ELSE next_seq[c]
          /\ closing' = IF installing THEN closing ELSE closing \cup dropped
      BY <2>8, Zenon DEF ApplyDropNode, actorVars, snapVars
    <3>2. Unreported(c)' <=> Unreported(c)
      BY <3>1, Zenon DEF Unreported
    <3>3. CASE c \in dropped
      <4>1. next_seq[c] # 0 /\ next_seq'[c] = 0
        BY <3>1, <3>3, ZenonT(60) DEF Connected
      <4> HIDE DEF dropped
      <4> QED
        BY <2>1, <3>1, <3>2, <3>3, <4>1, ZenonT(60) DEF Doomed
    <3>4. CASE c \notin dropped
      <4> HIDE DEF dropped
      <4>1. next_seq'[c] = next_seq[c] /\ closing \subseteq closing'
        BY <3>1, <3>4, Zenon
      <4>2. gone(c)' <=> gone(c)
        BY <3>1, <4>1, Zenon DEF gone
      <4> QED
        BY <2>1, <3>1, <3>2, <4>1, <4>2, ZenonT(60) DEF Doomed
    <3> QED
      BY <3>3, <3>4, Zenon
  <2> QED
    BY <1>3, <2>4, <2>5, <2>6, <2>7, <2>8, Framed, ZenonT(60) DEF Frame, stateVars
<1> QED
  BY <1>1, <1>2, <1>3, ZenonT(60)

-----------------------------------------------------------------------------
(* The inductive invariant. *)

IInv ==
    /\ TypeOK /\ Unaltered /\ Numbered /\ InStep /\ Reported
    /\ NothingForgotten /\ QueueInOrder /\ Closes

\* A step of Forward is a step of Sessions or changes nothing of it.
LEMMA SessionStep ==
    ASSUME IInv, [Next]_vars
    PROVE  [Promise!Next]_<<sent, fed, Over>>
<1>0. TypeOK /\ Unaltered /\ Numbered /\ InStep
  BY Zenon DEF IInv
<1>1. \A d \in Conns : gone(d) => gone(d)'
  BY <1>0, OnlyForward, Zenon
<1>2. Over' = Over \cup Over' /\ Over' \in SUBSET Conns
  BY <1>1, Zenon DEF Over
<1>3. CASE UNCHANGED <<sent, fed>>
  <2>1. Promise!End(Over')
    BY <1>2, <1>3, ZenonT(60) DEF Promise!End
  <2> QED
    BY <1>2, <2>1, Zenon DEF Promise!Next
<1>4. CASE Gives
  <2>1. UNCHANGED stateVars
    BY <1>4, Zenon DEF Gives, Connect, Disconnect, Command
  <2>2. PICK c \in Conns : \/ UNCHANGED sent
                          \/ \E input \in Inputs : Queues(c, input)
    BY <1>0, <1>4, Given, Zenon
  <2>3. UNCHANGED <<fed, Over>>
    BY <2>1, Zenon DEF stateVars, Over, gone
  <2>4. ASSUME NEW input \in Inputs, Queues(c, input)
        PROVE  Promise!Give(c, input)
    BY <2>3, <2>4, Zenon DEF Promise!Give, Queues, push
  <2> QED
    BY <1>3, <2>2, <2>3, <2>4, ZenonT(60) DEF Promise!Next
<1>5. CASE ApplyConn
  <2>1. sent' = sent
    BY <1>5, Zenon DEF ApplyConn, actorVars
  <2>2. CASE UNCHANGED <<stateVars, sinkVars>>
    BY <1>3, <2>1, <2>2, ZenonT(60) DEF stateVars
  <2>3. ASSUME NEW c \in Conns, Takes(c)
        PROVE  Promise!Take(c, Over')
    <3> DEFINE k == Len(fed[c]) + 1
    <3>0. /\ fed[c] \in Seq(Inputs) /\ sent[c] \in Seq(Inputs) /\ highest \in Nat
          /\ next_seq \in [Conns -> Nat] /\ c \in Nat
      BY <1>0, InputsFacts, Zenon DEF TypeOK, StateType, SentType
    <3>1. /\ k \in 1..Len(sent[c]) /\ ~gone(c) /\ (k = 1 <=> c > highest)
          /\ fed' = [fed EXCEPT ![c] = Append(@, sent[c][k])]
          /\ next_seq' = [next_seq EXCEPT ![c] =
                             IF sent[c][k] = "Disconnect" THEN 0 ELSE k + 1]
          /\ highest' = IF k = 1 THEN c ELSE highest
      BY <2>3, ZenonT(60) DEF Takes
    <3>2. Len(fed[c]) < Len(sent[c]) /\ c \notin Over
      BY <3>0, <3>1, SMTT(30) DEF Over
    <3>3. gone(c)' <=> sent[c][k] = "Disconnect"
      <4>1. c <= highest'
        BY <3>0, <3>1, SMTT(30)
      <4>2. next_seq'[c] = 0 <=> sent[c][k] = "Disconnect"
        BY <3>0, <3>1, SMTT(30)
      <4> QED
        BY <4>1, <4>2, ZenonT(60) DEF gone
    <3>4. c \in Over' <=> sent[c][k] = "Disconnect"
      BY <3>3, ZenonT(60) DEF Over
    <3> QED
      BY <1>2, <2>1, <3>1, <3>2, <3>4, ZenonT(60) DEF Promise!Take
  <2> QED
    BY <1>0, <1>2, <1>5, <2>2, <2>3, Taken, ZenonT(60) DEF Promise!Next
<1>6. CASE ApplyDropNode
  BY <1>3, <1>6, ZenonT(60) DEF ApplyDropNode, actorVars
<1> QED
  BY <1>3, <1>4, <1>5, <1>6, Framed, ZenonT(60) DEF Frame

\* It holds at first,
LEMMA IInvInit ==
    ASSUME Init
    PROVE  IInv
<1>1. lead \in [leader : Nodes, term : {1}] /\ budget \in [Kinds -> Nat]
  BY BoundsAssumption, Zenon DEF Init
<1>2. lead \in View
  BY <1>1, SMTT(30) DEF View
<1>3. TaskType /\ QueueType /\ SentType
  BY NoneFinite, CountingHolds, SMTT(30) DEF Init, TaskType, QueueType, SentType
<1>4. ModeType /\ NetType
  BY <1>2, Zenon DEF Init, ModeType, NetType
<1>5. RaftType
  <2>1. \A S : <<>> \in Seq(S)
    OBVIOUS
  <2> QED
    BY <1>2, <2>1, ZenonT(60) DEF Init, RaftType
<1>a. StateType
  <2>1. \A S : <<>> \in Seq(S)
    OBVIOUS
  <2> QED
    BY <2>1, Zenon DEF Init, StateType
<1>b. SinkType
  <2>1. \A S : <<>> \in Seq(S)
    OBVIOUS
  <2> QED
    BY <2>1, Zenon DEF Init, SinkType
<1>6. TypeOK
  BY <1>1, <1>3, <1>4, <1>5, <1>a, <1>b, ZenonT(60) DEF TypeOK
<1>7. Unaltered
  BY SMTT(30) DEF Init, Unaltered, Copied
<1>8. Numbered /\ InStep /\ Reported
  BY SMTT(30) DEF Init, Numbered, InStep, Reported
<1>9. NothingForgotten /\ QueueInOrder
  BY DEF Init, NothingForgotten, QueueInOrder
<1>10. Closes
  BY Zenon DEF Init, Closes, Held
<1> QED
  BY <1>6, <1>7, <1>8, <1>9, <1>10, ZenonT(60) DEF IInv

\* and every step keeps it.
LEMMA IInvStep ==
    ASSUME IInv, [Next]_vars
    PROVE  IInv'
BY CountingHolds, TypeStep, UnalteredStep, NumberedStep, InStepStep, ReportedStep, ForgottenStep,
   OrderStep, ClosesStep, ZenonT(60) DEF IInv

\* The inductive invariant holds whatever the network, the leaders and the
\* snapshots do.
THEOREM ForwardInvariant == Spec => []IInv
BY IInvInit, IInvStep, PTL DEF Spec

\* The actor, the proposers, the logs and the state keep their types
\* whatever is lost, resent or dropped, for any number of nodes.
THEOREM ForwardTyped == Spec => []TypeOK
<1>1. IInv => TypeOK
  BY ZenonT(60) DEF IInv
<1> QED
  BY <1>1, ForwardInvariant, PTL

\* No input a connection gave is forgotten before it was applied or its
\* connection is over (ForwardQueue::applied, Actor::prune).
THEOREM InputsKept == Spec => []NothingForgotten
<1>1. IInv => NothingForgotten
  BY ZenonT(60) DEF IInv
<1> QED
  BY <1>1, ForwardInvariant, PTL

\* The forward queue holds the inputs of a connection in order and once.
THEOREM InputsOrdered == Spec => []QueueInOrder
<1>1. IInv => QueueInOrder
  BY ZenonT(60) DEF IInv
<1> QED
  BY <1>1, ForwardInvariant, PTL

\* A connection that the state dropped or refused is on the way to being
\* closed by the node that holds its socket.
THEOREM OrphansAttended == Spec => []GoneWillClose
<1>1. IInv => GoneWillClose
  BY Zenon DEF IInv, Closes, Held, Doomed, Unreported, GoneWillClose
<1> QED
  BY <1>1, ForwardInvariant, PTL

\* Forwarding implements what Sessions promises to the connections of a node:
\* their inputs are applied in order, each once and unchanged, and none after
\* a connection is over, whatever the network, the leaders and the snapshots
\* do.
THEOREM ForwardsExactlyOnce == Spec => ExactlyOnce
<1>1. ASSUME Init
      PROVE  Promise!Init
  <2>1. sent = [c \in Conns |-> <<>>] /\ fed = [c \in Conns |-> <<>>] /\ highest = 0
    BY <1>1, Zenon DEF Init
  <2>2. \A c \in Conns : ~(c <= 0)
    BY ConnsAssumption
  <2>3. Over = {}
    BY <2>1, <2>2, ZenonT(60) DEF Over, gone
  <2> QED
    BY <2>1, <2>3, Zenon DEF Promise!Init
<1>2. IInv /\ [Next]_vars => [Promise!Next]_(Promise!vars)
  BY SessionStep, Zenon DEF Promise!vars
<1> QED
  BY <1>1, <1>2, ForwardInvariant, PTL DEF Spec, ExactlyOnce, Promise!Spec
=============================================================================
