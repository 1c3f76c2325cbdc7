---------------------------- MODULE MCNetSockets ----------------------------
(***************************************************************************)
(* Scenarios: writes before and after connecting, with end() and a second  *)
(* connect(); both ends writing, ending, pausing; destroy() at either end; *)
(* and a server that is closed.                                            *)
(***************************************************************************)
EXTENDS NetSockets

Writes(c, p) == [client |-> c, peer |-> p]
Client(op) == <<op, "client">>
Peer(op) == <<op, "peer">>

Cases ==
    {[writes |-> Writes(2, 0), connects |-> 2, calls |-> {Client("end")}, dns |-> TRUE],
     [writes |-> Writes(2, 1), connects |-> 1, calls |-> {Client("end"), Peer("end"), Client("pause")},
      dns |-> FALSE],
     [writes |-> Writes(1, 1), connects |-> 1, calls |-> {Client("destroy"), Peer("destroy"), Client("end")},
      dns |-> TRUE],
     [writes |-> Writes(1, 0), connects |-> 2, calls |-> {Client("destroy"), <<"close", "server">>},
      dns |-> TRUE]}
=============================================================================
