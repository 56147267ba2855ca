----------------------------- MODULE MCForward ------------------------------
(***************************************************************************)
(* Small instances of Forward.                                             *)
(***************************************************************************)
EXTENDS Forward, TLC

CONSTANTS me, p, q

MCConns == 1..2

\* How often what may happen: some connections and commands, and each of the
\* others once.
Some(connects, commands, others) ==
    [k \in Kinds |-> CASE k = "connect" -> connects
                      [] k = "command" -> commands
                      [] OTHER -> IF k \in others THEN 1 ELSE 0]

\* Two connections and a command, and one or two connections that meet what
\* can go wrong together: a lost request or answer and an election, a lost
\* request and an early stall, a drop of the node and a snapshot or an early
\* stall, isolation and shutdown.
MCBudgets ==
    {Some(2, 1, {"ping"}), Some(1, 0, {"loss", "election"}),
     Some(1, 1, {"loss", "stall"}), Some(2, 0, {"drop", "snapshot"}),
     Some(1, 1, {"drop", "stall"}), Some(2, 0, {"cut", "stop"})}

\* One thing that goes wrong at a time; with two connections, the one with
\* the lower number may be refused.
MCLiveBudgets ==
    {Some(1, 1, {"loss"}), Some(1, 0, {"election"}), Some(1, 1, {"drop"}),
     Some(1, 1, {"snapshot"}), Some(1, 1, {"stall"}), Some(1, 1, {"cut"}),
     Some(1, 1, {"stop"}), Some(2, 0, {"drop"})}
=============================================================================
