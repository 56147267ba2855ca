------------------------------ MODULE Sessions ------------------------------
(***************************************************************************)
(* What forwarding promises to the client connections of a node: the       *)
(* replicated engine takes the inputs of a connection in the order the     *)
(* connection gave them, each once and unchanged, and after a connection   *)
(* is over (it disconnected, its node was dropped, or it was refused)      *)
(* nothing of it is ever taken again.  Module Forward implements this over *)
(* a network that loses requests and leaders that lose entries.            *)
(***************************************************************************)
EXTENDS Naturals, Sequences

CONSTANTS
    Conns,   \* the connections, by their local number
    Inputs   \* what a connection may give

VARIABLES
    sent,    \* what each connection gave so far
    got,     \* what the replicated engine took of it
    over     \* the connections that are over

vars == <<sent, got, over>>

Init ==
    /\ sent = [c \in Conns |-> <<>>]
    /\ got = [c \in Conns |-> <<>>]
    /\ over = {}

\* A connection gives an input, perhaps not knowing that it is over.
Give(c, input) ==
    /\ sent' = [sent EXCEPT ![c] = Append(@, input)]
    /\ UNCHANGED <<got, over>>

\* The engine takes the next input of c; a disconnect ends c, and connecting
\* may refuse others.
Take(c, ended) ==
    /\ c \notin over
    /\ Len(got[c]) < Len(sent[c])
    /\ got' = [got EXCEPT ![c] = Append(@, sent[c][Len(got[c]) + 1])]
    /\ over' = over \cup ended
    /\ c \in ended <=> sent[c][Len(got[c]) + 1] = "Disconnect"
    /\ UNCHANGED sent

\* Connections are ended without being asked.
End(ended) ==
    /\ over' = over \cup ended
    /\ UNCHANGED <<sent, got>>

Next ==
    \/ \E c \in Conns, input \in Inputs : Give(c, input)
    \/ \E c \in Conns, ended \in SUBSET Conns : Take(c, ended)
    \/ \E ended \in SUBSET Conns : End(ended)

Spec == Init /\ [][Next]_vars
=============================================================================
