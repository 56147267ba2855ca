------------------------------- MODULE MCConn -------------------------------
(* Instances of Conn for TLC. *)
EXTENDS Conn

CONSTANTS a, b

S(kd, fs) == [kind |-> kd, frames |-> fs]

\* One connection, every kind of frame in the orders that matter: errors
\* before and behind a command, a reserve pipelined behind the last one,
\* puts in their two parts, and tokens right, wrong, late and repeated.
MCScripts ==
    { S("plain", <<"err", "reserve", "reserve", "err", "quit">>),
      S("plain", <<"putstart", "cmd", "auth_ok", "putstart", "putrej">>),
      S("tls", <<"reserve", "err", "cmd", "quit">>),
      S("token", <<"auth_ok", "err", "reserve", "auth_bad", "cmd">>),
      S("token", <<"auth_ok", "auth_ok", "putstart", "putrej">>),
      S("token", <<"cmd", "auth_ok">>),
      S("token", <<"auth_bad", "auth_ok">>),
      S("token", <<"quit">>) }

Absent == S("absent", <<>>)
Alone(node) == {[clustered |-> node, script |-> (a :> s @@ b :> Absent)] : s \in MCScripts}

\* Two connections that compete for one permit.
Two == [clustered |-> FALSE,
        script |-> (a :> S("token", <<"auth_ok">>) @@ b :> S("token", <<"cmd">>))]

MCCasts == Alone(FALSE) \cup Alone(TRUE) \cup {Two}
MCClustered == Alone(TRUE)
=============================================================================
