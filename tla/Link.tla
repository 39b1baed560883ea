-------------------------------- MODULE Link --------------------------------
(***************************************************************************)
(* What the connection (internal/bot/connect.go) promises to playback: a   *)
(* new pipeline is there before the loop that is to use it, a connection   *)
(* has one loop, and that loop is cancelled before there is a next         *)
(* connection.  Dialling, backoff and the signals to Run are hidden.       *)
(*                                                                         *)
(* Connection is shown to implement this module, and Reconnect builds on   *)
(* it.  A cancelled loop and the old pipeline may outlive the connection.  *)
(***************************************************************************)
EXTENDS Integers

CONSTANT MaxConnections   \* bound on the number of connections

Connections == 1..MaxConnections

VARIABLES
  audio,  \* b.audio: the pipeline of the newest connection, 0 is nil
  link,   \* what the handlers of the newest connection have done
  loop    \* loop[c]: the play loop started for connection c

Init ==
  /\ audio = 0
  /\ link = "down"
  /\ loop = [c \in Connections |-> "none"]

\* The Connect handler replaces the pipeline.
Install ==
  /\ link = "down" /\ audio < MaxConnections
  /\ audio' = audio + 1
  /\ link' = "installed"
  /\ UNCHANGED loop

Start ==
  /\ link = "installed"
  /\ link' = "up"
  /\ loop' = [loop EXCEPT ![audio] = "running"]
  /\ UNCHANGED audio

\* The Disconnect handler of that connection cancels its loop.
Stop ==
  /\ link = "up"
  /\ link' = "down"
  /\ loop' = [loop EXCEPT ![audio] = "cancelled"]
  /\ UNCHANGED audio

End(c) ==
  /\ loop[c] = "cancelled"
  /\ loop' = [loop EXCEPT ![c] = "ended"]
  /\ UNCHANGED <<audio, link>>

Next == Install \/ Start \/ Stop \/ \E c \in Connections : End(c)

Spec == Init /\ [][Next]_<<audio, link, loop>>
=============================================================================
