------------------------------ MODULE Forward -------------------------------
(***************************************************************************)
(* How a cluster node gets the inputs of its client connections into the   *)
(* replicated state: the cluster actor of the node Me with its forward     *)
(* queue, the forward handlers and proposers of all nodes, and the rule by *)
(* which Me's copy of the state machine accepts or ignores an input.       *)
(*                                                                         *)
(* The Raft library is external.  It is modelled by what this code sees of *)
(* it: at most one leader per term; every node's view of it, which lags;   *)
(* entries appended by a node that believes it leads, uncommitted ones     *)
(* lost or revived by a later leader; one sequence of committed entries.   *)
(*                                                                         *)
(* Batches (a forward request, a submission to the proposer) are sets of   *)
(* items; an item carries its arrival number `at`, which orders it.  A log *)
(* entry with several items is modelled as consecutive entries of one.     *)
(***************************************************************************)
EXTENDS Integers, Sequences, FiniteSets

CONSTANTS
    Conns,               \* Me's client connections, by local number
    Nodes, Me,           \* the members, and the node modelled in full
    None,                \* no node
    Commands,            \* inputs other than Connect and Disconnect
    MAX_QUEUE_ITEMS,     \* forward queue bound
    MAX_BATCH_ITEMS,     \* most items of a forward request
    MaxLag,              \* bound: committed entries and events not yet handled
    Budgets              \* bounds: how often each of Kinds may happen

\* What is counted: connections, commands, forwards without items, lost
\* requests, early stall timeouts, elections, drops of the node, snapshots,
\* isolation and shutdown.
Kinds == {"connect", "command", "ping", "loss", "stall", "election", "drop",
          "snapshot", "cut", "stop"}

ASSUME ConnsAssumption == Conns \subseteq Nat \ {0}
ASSUME NodesAssumption == Me \in Nodes /\ None \notin Nodes
ASSUME CommandsAssumption == {"Connect", "Disconnect"} \cap Commands = {}
ASSUME BoundsAssumption ==
    /\ MAX_QUEUE_ITEMS \in Nat /\ MAX_BATCH_ITEMS \in Nat \ {0}
    /\ MaxLag \in Nat \ {0}
    /\ Budgets \subseteq [Kinds -> Nat]

VARIABLES
    task,      \* connection task of each connection: "none", "open", "ended"
    fired,     \* connections whose closer was fired
    sent,      \* history: the inputs queued for each connection
    seqs,      \* next sequence number of a held connection, 0: not held
    queue,     \* unapplied items: [conn, seq, input, at, sends, pass]
    arrivals,  \* number of items queued so far
    cursor,    \* arrival number from which items are unsent in this pass
    pass,      \* number of the running pass
    seen,      \* the view the actor acts on
    hint,      \* a leader named in a NotLeader answer
    inflight,  \* whether a forward is awaited
    isolated,  \* cut off from every leader
    stage      \* "run", "stopping", "done"

VARIABLES
    net,       \* forward requests on their way: [to, items, awaited]
    answer,    \* the answers to the awaited forward: at most one
    prop,      \* proposer queue of each node
    view,      \* each node's [leader, term]
    lead,      \* the real one
    tail,      \* uncommitted log entries of each node
    pend,      \* committed entries Me has not applied
    next_seq,  \* Me's state: next sequence number, 0: not connected
    highest,   \* Me's state: highest local number connected so far
    fed,       \* history: the inputs Me's engine was given
    events,    \* Applied events for the actor
    closing,   \* Closed events being dispatched
    installing, \* a snapshot is taking the place of entries
    install,   \* connections of the state it replaces
    budget     \* how often each kind may still happen

actorVars == <<sent, seqs, queue, arrivals, cursor, pass>>
sendVars == <<seen, hint, inflight>>
modeVars == <<isolated, stage>>
netVars == <<net, answer>>
raftVars == <<prop, view, lead, tail>>
stateVars == <<next_seq, highest, fed>>
sinkVars == <<events, closing>>
snapVars == <<install, installing>>
vars == <<task, fired, actorVars, sendVars, modeVars, netVars, raftVars, pend,
          stateVars, sinkVars, snapVars, budget>>

Peers == Nodes \ {Me}
Inputs == Commands \cup {"Connect", "Disconnect", "PutRejected"}

\* Clients are accepted once a leader is known.
Init ==
    /\ task = [c \in Conns |-> "none"] /\ fired = {}
    /\ sent = [c \in Conns |-> <<>>] /\ seqs = [c \in Conns |-> 0]
    /\ queue = {} /\ arrivals = 0 /\ cursor = 0 /\ pass = 0
    /\ lead \in [leader : Nodes, term : {1}]
    /\ view = [n \in Nodes |-> lead] /\ seen = lead
    /\ hint = None /\ inflight = FALSE
    /\ isolated = FALSE /\ stage = "run"
    /\ net = {} /\ answer = {}
    /\ prop = [n \in Nodes |-> <<>>] /\ tail = [n \in Nodes |-> <<>>]
    /\ pend = <<>>
    /\ next_seq = [c \in Conns |-> 0] /\ highest = 0
    /\ fed = [c \in Conns |-> <<>>]
    /\ events = <<>> /\ closing = {}
    /\ install = {} /\ installing = FALSE
    /\ budget \in Budgets

Spend(kinds) ==
    /\ \A k \in kinds : budget[k] > 0
    /\ budget' = [k \in Kinds |-> IF k \in kinds THEN budget[k] - 1 ELSE budget[k]]

-----------------------------------------------------------------------------
(* The forward queue. *)

full == Cardinality(queue) >= MAX_QUEUE_ITEMS
Unsent == {e \in queue : e.at >= cursor}
\* The first n items of a batch, in arrival order.
FirstOf(items, n) ==
    {e \in items : Cardinality({f \in items : f.at < e.at}) < n}
\* What is sent of an entry of the queue.
Content(e) == [conn |-> e.conn, seq |-> e.seq, input |-> e.input, at |-> e.at]

push(c, seq, input) ==
    /\ queue' = queue \cup {[conn |-> c, seq |-> seq, input |-> input,
                             at |-> arrivals, sends |-> 0, pass |-> 0]}
    /\ arrivals' = arrivals + 1
    /\ sent' = [sent EXCEPT ![c] = Append(@, input)]
    /\ UNCHANGED <<cursor, pass>>

\* Mutant of Rewound: it goes back by a batch.
RewoundByBatch(q) ==
    /\ cursor' = cursor - MAX_BATCH_ITEMS
    /\ pass' = pass + 1 /\ queue' = q

\* Mutant of Rewound: what was sent stays sent.
RewoundNot(q) == queue' = q /\ UNCHANGED <<cursor, pass>>

\* Every rewind starts a new pass.  Passes are only compared for equality:
\* the ones still in use are renumbered.
Rewound(q) ==
    LET used == {e.pass : e \in {f \in q : f.sends > 0}}
        rank(p) == Cardinality({u \in used : u < p})
    IN  /\ cursor' = 0
        /\ pass' = Cardinality(used)
        /\ queue' = {[e EXCEPT !.pass = IF e.sends > 0 THEN rank(@) ELSE 0] :
                        e \in q}

\* Marks a batch of unsent items as sent in the running pass.
SendNext(batch) ==
    /\ queue' = (queue \ batch) \cup
                {[e EXCEPT !.sends = IF @ = 0 THEN 1 ELSE 2, !.pass = pass] :
                    e \in batch}
    /\ cursor' \in {e.at + 1 : e \in batch}
    /\ \A e \in batch : e.at < cursor'

\* An item sent once was applied while one sent before it in the same pass
\* was not.
dropped_before(e) ==
    e.sends = 1 /\ \E f \in queue : f.at < e.at /\ f.sends > 0 /\ f.pass = e.pass

\* The state has settled c's Connect and no longer has c.
gone(c) == c <= highest /\ next_seq[c] = 0

\* Mutant of prunable: it takes the next number for the last one applied.
prunableNext(e) ==
    /\ e.conn <= highest
    /\ next_seq[e.conn] # 0 => next_seq[e.conn] >= e.seq
\* The state has applied the item, or has settled it otherwise.
prunable(e) ==
    /\ e.conn <= highest
    /\ next_seq[e.conn] # 0 => next_seq[e.conn] - 1 >= e.seq
\* Mutant of orphans: they are sought among what a prune leaves.
orphansLeft(q) ==
    {c \in Conns : seqs[c] # 0 /\ gone(c) /\ \E e \in q : e.conn = c /\ ~prunable(e)}
orphans(q) == {c \in Conns : seqs[c] # 0 /\ gone(c) /\ \E e \in q : e.conn = c}

-----------------------------------------------------------------------------
(* The actor: messages of the connection tasks. *)

\* The actor has not stopped.  (Nothing reads the state while a snapshot
\* replaces it, see BeginInstall.)
Alive == stage # "done" /\ ~installing
close(cs) == fired' = fired \cup {c \in cs : task[c] = "open"}

\* Numbers are drawn before the message is sent, so connections may
\* announce themselves in any order of their numbers.
Connect(c) ==
    /\ Alive /\ task[c] = "none" /\ Spend({"connect"})
    /\ task' = [task EXCEPT ![c] = "open"]
    /\ IF isolated \/ stage = "stopping"
         THEN fired' = fired \cup {c} /\ UNCHANGED actorVars
         ELSE /\ seqs' = [seqs EXCEPT ![c] = 2]
              /\ push(c, 1, "Connect")
              /\ UNCHANGED fired
    /\ UNCHANGED <<sendVars, modeVars, netVars, raftVars, pend, stateVars,
                   sinkVars, snapVars>>

\* Mutant of Command: a rejected put takes no number.
CommandUnnumbered(c, input) ==
    LET refused == input = "Put" /\ full
    IN  /\ Alive /\ task[c] = "open" /\ seqs[c] # 0 /\ Spend({"command"})
        /\ seqs' = [seqs EXCEPT ![c] = IF refused THEN @ ELSE @ + 1]
        /\ push(c, seqs[c], IF refused THEN "PutRejected" ELSE input)
        /\ UNCHANGED <<task, fired, sendVars, modeVars, netVars, raftVars, pend,
                       stateVars, sinkVars, snapVars>>

\* A put that meets a full queue is replaced by its rejection.
Command(c, input) ==
    /\ Alive /\ task[c] = "open" /\ seqs[c] # 0 /\ Spend({"command"})
    /\ seqs' = [seqs EXCEPT ![c] = @ + 1]
    /\ push(c, seqs[c], IF input = "Put" /\ full THEN "PutRejected" ELSE input)
    /\ UNCHANGED <<task, fired, sendVars, modeVars, netVars, raftVars, pend,
                   stateVars, sinkVars, snapVars>>

\* The task ends, because its client left or its closer fired, and its guard
\* sends Disconnect.
Disconnect(c) ==
    /\ Alive /\ task[c] = "open"
    /\ task' = [task EXCEPT ![c] = "ended"]
    /\ fired' = fired \ {c}
    /\ seqs' = [seqs EXCEPT ![c] = 0]
    /\ IF seqs[c] = 0 \/ gone(c)
         THEN UNCHANGED <<sent, queue, arrivals, cursor, pass>>
         ELSE push(c, seqs[c], "Disconnect")
    /\ UNCHANGED <<sendVars, modeVars, netVars, raftVars, pend, stateVars,
                   sinkVars, snapVars, budget>>

Shutdown ==
    /\ stage = "run" /\ Spend({"stop"})
    /\ stage' = "stopping"
    /\ close(Conns)
    /\ UNCHANGED <<task, actorVars, sendVars, isolated, netVars, raftVars, pend,
                   stateVars, sinkVars, snapVars>>

-----------------------------------------------------------------------------
(* The actor: events, views, answers, sending, ticks. *)

\* An Applied event removes its item; one that reveals a drop prunes and
\* rewinds, unless such a resend has just been made.
on_event(recently) ==
    /\ Alive /\ events # <<>>
    /\ events' = Tail(events)
    /\ LET found == {e \in queue : e.conn = Head(events).conn
                                  /\ e.seq = Head(events).seq}
           rest == queue \ found
       IN  IF ~recently /\ \E e \in found : dropped_before(e)
             THEN /\ Rewound({e \in rest : ~prunable(e)})
                  /\ close(orphans(rest))
             ELSE queue' = rest /\ UNCHANGED <<cursor, pass, fired>>
    /\ UNCHANGED <<task, sent, seqs, arrivals, sendVars, modeVars, netVars,
                   raftVars, pend, stateVars, closing, snapVars, budget>>

\* A new view abandons the forward in flight.
on_view_change ==
    /\ Alive /\ view[Me] # seen
    /\ seen' = view[Me] /\ hint' = None /\ inflight' = FALSE
    /\ Rewound(queue)
    /\ net' = {[r EXCEPT !.awaited = FALSE] : r \in net}
    /\ answer' = {}
    /\ UNCHANGED <<task, fired, sent, seqs, arrivals, modeVars, raftVars, pend,
                   stateVars, sinkVars, snapVars, budget>>

on_forward_result ==
    /\ Alive
    /\ \E a \in answer :
         /\ answer' = {}
         /\ inflight' = FALSE
         /\ IF a.kind = "Accepted"
              THEN UNCHANGED <<hint, queue, cursor, pass>>
              ELSE /\ hint' = IF a.leader \in {Me, a.from} THEN None ELSE a.leader
                   /\ Rewound(queue)
    /\ UNCHANGED <<task, fired, sent, seqs, arrivals, seen, modeVars, net,
                   raftVars, pend, stateVars, sinkVars, snapVars, budget>>

\* The leader hands everything unsent to its own proposer.
PumpLeading ==
    /\ Alive /\ ~inflight /\ Unsent # {} /\ view[Me].leader = Me
    /\ SendNext(Unsent)
    /\ prop' = [prop EXCEPT ![Me] = Append(@, {Content(e) : e \in Unsent})]
    /\ UNCHANGED <<task, fired, sent, seqs, arrivals, pass, sendVars, modeVars,
                   netVars, view, lead, tail, pend, stateVars, sinkVars,
                   snapVars, budget>>

\* The leader to forward to.
Target == IF hint # None THEN hint ELSE view[Me].leader

\* Other nodes forward one batch at a time; with nothing unsent it is a ping.
PumpForward ==
    /\ Alive /\ ~inflight /\ Target \in Peers
    /\ (Unsent # {} => view[Me].leader # Me)
    /\ inflight' = TRUE
    /\ LET batch == FirstOf(Unsent, MAX_BATCH_ITEMS)
       IN  /\ net' = net \cup {[to |-> Target, awaited |-> TRUE,
                                items |-> {Content(e) : e \in batch}]}
           /\ IF batch = {}
                THEN Spend({"ping"}) /\ UNCHANGED <<queue, cursor>>
                ELSE SendNext(batch) /\ UNCHANGED budget
    /\ UNCHANGED <<task, fired, sent, seqs, arrivals, pass, seen, hint, modeVars,
                   answer, raftVars, pend, stateVars, sinkVars, snapVars>>

\* Nothing is on its way, no node misses an election: what is still
\* unapplied was lost.
Quiet ==
    /\ \A n \in Nodes : view[n] = lead
    /\ net = {} /\ answer = {} /\ \A n \in Nodes : prop[n] = <<>>
    /\ tail[lead.leader] = <<>>
    /\ pend = <<>> /\ events = <<>> /\ ~installing

\* The stall timeout is longer than an input takes to be applied: it expires
\* when nothing is on its way, or early as a fault.  Losing touch with the
\* leader for node_timeout is a fault; finding it again is not.
on_tick(stalled, cut_off, done) ==
    /\ Alive
    /\ stalled => \E e \in queue : e.at < cursor
    /\ done => stage = "stopping"
    /\ (stage = "stopping" /\ queue = {} /\ \A c \in Conns : seqs[c] = 0) => done
    /\ Spend((IF stalled /\ ~Quiet THEN {"stall"} ELSE {})
             \cup (IF cut_off /\ ~isolated THEN {"cut"} ELSE {}))
    /\ IF stalled THEN Rewound({e \in queue : ~prunable(e)})
                  ELSE UNCHANGED <<queue, cursor, pass>>
    /\ isolated' = cut_off
    /\ close((IF stalled THEN orphans(queue) ELSE {})
             \cup (IF cut_off /\ ~isolated THEN Conns ELSE {}))
    /\ stage' = IF done THEN "done" ELSE stage
    /\ UNCHANGED <<task, sent, seqs, arrivals, sendVars, netVars, raftVars, pend,
                   stateVars, sinkVars, snapVars>>

-----------------------------------------------------------------------------
(* The other side of a forward, and the proposers. *)

Answer(r, kind, leader) ==
    answer' = IF r.awaited THEN {[from |-> r.to, kind |-> kind, leader |-> leader]}
                           ELSE answer

\* The handler hands the items to its proposer and answers at once.
forward(r) ==
    /\ net' = net \ {r}
    /\ IF view[r.to].leader = r.to
         THEN /\ prop' = IF r.items = {} THEN prop
                         ELSE [prop EXCEPT ![r.to] = Append(@, r.items)]
              /\ Answer(r, "Accepted", None)
         ELSE Answer(r, "NotLeader", view[r.to].leader) /\ UNCHANGED prop
    /\ UNCHANGED <<task, fired, actorVars, sendVars, modeVars, view, lead, tail,
                   pend, stateVars, sinkVars, snapVars, budget>>

\* The request, or only its answer, is lost.
Lose(r, served) ==
    /\ Spend({"loss"})
    /\ net' = net \ {r}
    /\ served => r.awaited /\ view[r.to].leader = r.to /\ r.items # {}
    /\ prop' = IF served THEN [prop EXCEPT ![r.to] = Append(@, r.items)] ELSE prop
    /\ Answer(r, "Failed", None)
    /\ UNCHANGED <<task, fired, actorVars, sendVars, modeVars, view, lead, tail,
                   pend, stateVars, sinkVars, snapVars>>

\* The term in which n believes it leads.
TermOf(n) == IF lead.leader = n THEN lead.term ELSE view[n].term

\* The proposer proposes whether or not its node still leads.
propose(n) ==
    /\ prop[n] # <<>>
    /\ \E i \in Head(prop[n]) :
         /\ \A j \in Head(prop[n]) : i.at <= j.at
         /\ prop' = [prop EXCEPT ![n] =
                       IF Head(@) = {i} THEN Tail(@)
                       ELSE <<Head(@) \ {i}>> \o Tail(@)]
         /\ tail' = IF view[n].leader = n
                    THEN [tail EXCEPT ![n] = Append(@,
                            [op |-> "Conn", item |-> i, term |-> TermOf(n)])]
                    ELSE tail
    /\ UNCHANGED <<task, fired, actorVars, sendVars, modeVars, netVars, view,
                   lead, pend, stateVars, sinkVars, snapVars, budget>>

\* The leader drops the node (unheard of, removed, or rejoining).
DropNode(up_to) ==
    /\ Spend({"drop"})
    /\ tail' = [tail EXCEPT ![lead.leader] = Append(@,
                   [op |-> "DropNode", up_to |-> up_to, term |-> lead.term])]
    /\ UNCHANGED <<task, fired, actorVars, sendVars, modeVars, netVars, prop,
                   view, lead, pend, stateVars, sinkVars, snapVars>>

-----------------------------------------------------------------------------
(* Raft (external). *)

\* A new leader starts from some of the entries that were not committed.
Elect(n) ==
    /\ Spend({"election"})
    /\ lead' = [leader |-> n, term |-> lead.term + 1]
    /\ \E m \in Nodes : \E k \in 0..Len(tail[m]) :
         tail' = [tail EXCEPT ![n] = SubSeq(tail[m], 1, k)]
    /\ UNCHANGED <<task, fired, actorVars, sendVars, modeVars, netVars, prop,
                   view, pend, stateVars, sinkVars, snapVars>>

LearnView(n) ==
    /\ view[n] # lead
    /\ view' = [view EXCEPT ![n] = lead]
    /\ UNCHANGED <<task, fired, actorVars, sendVars, modeVars, netVars, prop,
                   lead, tail, pend, stateVars, sinkVars, snapVars, budget>>

\* The next entry of the leader is committed; other nodes have it or lose
\* what they have in its place.
Commit ==
    /\ tail[lead.leader] # <<>> /\ Len(pend) < MaxLag
    /\ LET e == Head(tail[lead.leader])
       IN  /\ pend' = Append(pend, e)
           /\ tail' = [n \in Nodes |->
                 IF tail[n] # <<>> /\ Head(tail[n]) = e THEN Tail(tail[n]) ELSE <<>>]
    /\ UNCHANGED <<task, fired, actorVars, sendVars, modeVars, netVars, prop,
                   view, lead, stateVars, sinkVars, snapVars, budget>>

-----------------------------------------------------------------------------
(* Me's state machine: applying entries, and installing a snapshot in their *)
(* place, which reports nothing but closes the connections of both states.  *)

Connected == {c \in Conns : next_seq[c] # 0}

\* Mutant of InTurn: a Connect is not held against the highest number.
InTurnAgain(i) ==
    IF i.input = "Connect" THEN i.seq = 1 /\ next_seq[i.conn] = 0
                           ELSE next_seq[i.conn] = i.seq

\* Whether an input is next for its connection, and not a duplicate.
InTurn(i) ==
    IF i.input = "Connect"
    THEN i.seq = 1 /\ next_seq[i.conn] = 0 /\ i.conn > highest
    ELSE next_seq[i.conn] = i.seq

apply_conn(i) ==
    /\ next_seq' = [next_seq EXCEPT ![i.conn] =
                       IF i.input = "Disconnect" THEN 0 ELSE i.seq + 1]
    /\ highest' = IF i.input = "Connect" THEN i.conn ELSE highest
    /\ fed' = [fed EXCEPT ![i.conn] = Append(@, i.input)]
    /\ IF installing THEN UNCHANGED sinkVars
       ELSE /\ events' = Append(events, [conn |-> i.conn, seq |-> i.seq])
            /\ closing' = IF i.input = "Disconnect" THEN closing \cup {i.conn}
                                                    ELSE closing

ApplyConn ==
    /\ pend # <<>> /\ Head(pend).op = "Conn" /\ Len(events) < MaxLag
    /\ pend' = Tail(pend)
    /\ IF InTurn(Head(pend).item) THEN apply_conn(Head(pend).item)
       ELSE UNCHANGED <<stateVars, sinkVars>>
    /\ UNCHANGED <<task, fired, actorVars, sendVars, modeVars, netVars, raftVars,
                   snapVars, budget>>

ApplyDropNode ==
    /\ pend # <<>> /\ Head(pend).op = "DropNode"
    /\ pend' = Tail(pend)
    /\ LET dropped == {c \in Connected : c <= Head(pend).up_to}
       IN  /\ next_seq' = [c \in Conns |-> IF c \in dropped THEN 0 ELSE next_seq[c]]
           /\ closing' = IF installing THEN closing ELSE closing \cup dropped
    /\ UNCHANGED <<task, fired, actorVars, sendVars, modeVars, netVars, raftVars,
                   highest, fed, events, snapVars, budget>>

\* A snapshot takes the place of the entries applied between these two
\* steps: the program swaps the state at once, so the actor waits meanwhile.
BeginInstall ==
    /\ ~installing /\ pend # <<>>
    /\ Spend({"snapshot"})
    /\ installing' = TRUE /\ install' = Connected
    /\ UNCHANGED <<task, fired, actorVars, sendVars, modeVars, netVars, raftVars,
                   pend, stateVars, sinkVars>>

\* Mutant of EndInstall: only the connections of the new state are closed.
EndInstallNew ==
    /\ installing
    /\ installing' = FALSE /\ install' = {}
    /\ closing' = closing \cup Connected
    /\ UNCHANGED <<task, fired, actorVars, sendVars, modeVars, netVars, raftVars,
                   pend, stateVars, events, budget>>

EndInstall ==
    /\ installing
    /\ installing' = FALSE /\ install' = {}
    /\ closing' = closing \cup install \cup Connected
    /\ UNCHANGED <<task, fired, actorVars, sendVars, modeVars, netVars, raftVars,
                   pend, stateVars, events, budget>>

\* A Closed event reaches the connection.
closed(c) ==
    /\ c \in closing
    /\ closing' = closing \ {c}
    /\ close({c})
    /\ UNCHANGED <<task, actorVars, sendVars, modeVars, netVars, raftVars, pend,
                   stateVars, events, snapVars, budget>>

-----------------------------------------------------------------------------

Next ==
    \/ \E c \in Conns : Connect(c) \/ Disconnect(c) \/ closed(c)
    \/ \E c \in Conns, input \in Commands : Command(c, input)
    \/ Shutdown
    \/ \E recently \in BOOLEAN : on_event(recently)
    \/ on_view_change \/ on_forward_result \/ PumpLeading \/ PumpForward
    \/ \E stalled, cut_off, done \in BOOLEAN : on_tick(stalled, cut_off, done)
    \/ \E r \in net : forward(r) \/ \E served \in BOOLEAN : Lose(r, served)
    \/ \E n \in Nodes : propose(n) \/ Elect(n) \/ LearnView(n)
    \/ \E up_to \in Conns : DropNode(up_to)
    \/ Commit \/ ApplyConn \/ ApplyDropNode \/ BeginInstall \/ EndInstall

Spec == Init /\ [][Next]_vars

\* The actor's select! loop serves every source that stays ready, its
\* interval ticks, a connection whose closer fired ends, and handlers,
\* proposers and the state machine are tasks of their own.  Raft commits and
\* tells every node of the leader while no election interferes.
Fairness ==
    /\ \A c \in Conns :
         WF_vars(closed(c)) /\ WF_vars(c \in fired /\ Disconnect(c))
    /\ WF_vars(\E recently \in BOOLEAN : on_event(recently)) /\ WF_vars(on_view_change)
    /\ WF_vars(on_forward_result) /\ WF_vars(PumpLeading)
    /\ WF_vars(Unsent # {} /\ PumpForward)
    /\ WF_vars(Quiet /\ on_tick(TRUE, FALSE, FALSE))
    /\ WF_vars(\E r \in net : forward(r))
    /\ \A n \in Nodes : WF_vars(propose(n)) /\ WF_vars(LearnView(n))
    /\ WF_vars(Commit) /\ WF_vars(ApplyConn) /\ WF_vars(ApplyDropNode)
    /\ WF_vars(EndInstall)

LiveSpec == Spec /\ Fairness

-----------------------------------------------------------------------------
(* Properties. *)

Item == [conn : Conns, seq : Nat, input : Inputs, at : Nat]
QueueItem == [conn : Conns, seq : Nat, input : Inputs, at : Nat,
              sends : 0..2, pass : Nat]
Entry == [op : {"Conn"}, item : Item, term : Nat]
         \cup [op : {"DropNode"}, up_to : Nat, term : Nat]
View == [leader : Nodes, term : Nat]

TaskType ==
    /\ task \in [Conns -> {"none", "open", "ended"}] /\ fired \subseteq Conns
QueueType ==
    /\ queue \subseteq QueueItem /\ IsFiniteSet(queue)
    /\ cursor \in Nat /\ pass \in Nat
SentType ==
    /\ sent \in [Conns -> Seq(Inputs)] /\ seqs \in [Conns -> Nat] /\ arrivals \in Nat
ModeType ==
    /\ seen \in View /\ hint \in Nodes \cup {None} /\ inflight \in BOOLEAN
    /\ isolated \in BOOLEAN /\ stage \in {"run", "stopping", "done"}
NetType ==
    /\ net \subseteq [to : Peers, awaited : BOOLEAN, items : SUBSET Item]
    /\ answer \subseteq [from : Peers, kind : {"Accepted", "NotLeader", "Failed"},
                        leader : Nodes \cup {None}]
RaftType ==
    /\ prop \in [Nodes -> Seq(SUBSET Item)] /\ tail \in [Nodes -> Seq(Entry)]
    /\ view \in [Nodes -> View] /\ lead \in View
StateType ==
    /\ pend \in Seq(Entry) /\ next_seq \in [Conns -> Nat] /\ highest \in Nat
    /\ fed \in [Conns -> Seq(Inputs)]
SinkType ==
    /\ events \in Seq([conn : Conns, seq : Nat]) /\ closing \subseteq Conns
    /\ installing \in BOOLEAN /\ install \subseteq Conns

\* The variables hold what the program's fields and queues hold.
TypeOK ==
    /\ TaskType /\ QueueType /\ SentType /\ ModeType /\ NetType /\ RaftType
    /\ StateType /\ SinkType /\ budget \in [Kinds -> Nat]

\* The connections that are over as far as Me's state knows.
Over == {c \in Conns : gone(c)}

\* Whatever is lost, resent, reordered or revived on the way, the engine is
\* given the inputs of a connection exactly as Sessions promises: in order,
\* each once, none after the connection is over.  (The acceptance rule of
\* apply_conn, and the copies the actor, handlers and proposers pass on.)
Promise == INSTANCE Sessions WITH got <- fed, over <- Over
ExactlyOnce == Promise!Spec

\* An input leaves the forward queue only once it was applied, or its
\* connection is over: neither prune, nor an Applied event, nor a skipped
\* Disconnect forgets one.
NothingForgotten ==
    \A c \in Conns : \A k \in 1..Len(sent[c]) :
        \/ k <= Len(fed[c]) \/ c \in Over
        \/ \E e \in queue : e.conn = c /\ e.seq = k /\ e.input = sent[c][k]

\* The inputs of a connection stand in the queue in the order of their
\* numbers and without a gap, so that one pass can apply them all: a resend
\* starts from the first input the state lacks.
QueueInOrder ==
    \A e, f \in queue : e.conn = f.conn =>
        /\ e.seq < f.seq <=> e.at < f.at
        /\ e.seq = f.seq => e = f

\* A connection of which this node still holds the socket and which the
\* state no longer has is on the way to being closed: its closer has fired
\* or will, or an item of it is queued, which the next stall finds orphaned.
GoneWillClose ==
    \A c \in Conns : (task[c] = "open" /\ seqs[c] # 0 /\ gone(c)) =>
        \/ c \in fired \/ c \in closing \/ c \in install
        \/ \E e \in queue : e.conn = c
\* Every queued input is applied in the end, or its connection is over, or
\* the node stops: whatever a loss, an election, a drop or a snapshot leaves
\* behind, the answer, the next view or the stall tick has it sent again.
InputsArrive ==
    \A c \in Conns : fed[c] # sent[c] ~>
        (fed[c] = sent[c] \/ c \in Over \/ stage = "done")

\* A connection that the state no longer has does not stay open: its client
\* would wait for replies that no one will give.
GoneIsClosed ==
    \A c \in Conns : (task[c] = "open" /\ seqs[c] # 0 /\ gone(c)) ~>
        (task[c] = "ended" \/ stage = "done")
=============================================================================
