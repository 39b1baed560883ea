----------------------------- MODULE Connection -----------------------------
(***************************************************************************)
(* The connection of the bot (internal/bot/connect.go): Run on the main    *)
(* goroutine, one gumble read goroutine per connection, which runs the     *)
(* Connect and Disconnect handlers, and one play loop per connection.      *)
(*                                                                         *)
(* A connection is named by its number; the same number names its client,  *)
(* its audio pipeline and its loop.  0 is nil.  The length of the backoff  *)
(* is left out: the timer may fire at any time.                            *)
(***************************************************************************)
EXTENDS Integers

CONSTANTS
  MaxRetries,      \* maxRetries
  MaxConnections   \* bound on the number of connections that succeed

ASSUME ConnectionAssumption == MaxRetries \in Nat \ {0} /\ MaxConnections \in Nat

Connections == 1..MaxConnections

VARIABLES
  run,          \* where Run is
  failures,     \* local variable of Run
  cancelled,    \* ctx of main is cancelled (SIGINT, SIGTERM)
  disconnected, \* the channel of capacity 1 holds a signal
  made,         \* number of connections made so far
  reader,       \* reader[c]: step of the read goroutine of connection c
  client,       \* b.client
  audio,        \* b.audio
  cancelLoop,   \* b.cancelLoop
  loop          \* loop[c]: the play loop started for connection c

vars == <<run, failures, cancelled, disconnected, made, reader, client,
          audio, cancelLoop, loop>>

botVars == <<client, audio, cancelLoop, loop>>
runVars == <<run, failures, cancelled, made>>

Ended == {"returned", "gaveUp"}

Init ==
  /\ run = "firstDial"
  /\ failures = 0
  /\ cancelled = FALSE
  /\ disconnected = FALSE
  /\ made = 0
  /\ reader = [c \in Connections |-> "none"]
  /\ client = 0 /\ audio = 0 /\ cancelLoop = 0
  /\ loop = [c \in Connections |-> "none"]

-----------------------------------------------------------------------------
(* Run.  connect blocks in gumble.DialWithDialer, which returns once the   *)
(* Connect handlers have run.                                              *)

\* The server accepts and synchronises: the read goroutine of a new
\* connection is about to call the Connect handler.
Dial ==
  /\ run \in {"firstDial", "dial"}
  /\ made < MaxConnections
  /\ run' = "wait"
  /\ made' = made + 1
  /\ reader' = [reader EXCEPT ![made + 1] = "connect"]
  /\ UNCHANGED <<failures, cancelled, disconnected, botVars>>

\* The first failure is final, a later one is counted.
DialFails ==
  /\ run \in {"firstDial", "dial"}
  /\ \/ run = "firstDial" /\ run' = "returned" /\ UNCHANGED failures
     \/ run = "dial" /\ run' = "select" /\ failures' = failures + 1
  /\ UNCHANGED <<cancelled, disconnected, made, reader, botVars>>

\* DialWithDialer returns.  By now the connection may be lost again.
DialReturns ==
  /\ run = "wait"
  /\ reader[made] \notin {"connect", "installed"}
  /\ client' = made
  /\ failures' = 0
  /\ run' = "select"
  /\ UNCHANGED <<cancelled, disconnected, made, reader, audio, cancelLoop, loop>>

TakeSignal ==
  /\ run = "select" /\ disconnected
  /\ disconnected' = FALSE
  /\ run' = IF failures >= MaxRetries THEN "gaveUp" ELSE "backoff"
  /\ UNCHANGED <<failures, cancelled, made, reader, botVars>>

BackoffOver ==
  /\ run = "backoff"
  /\ run' = "dial"
  /\ UNCHANGED <<failures, cancelled, disconnected, made, reader, botVars>>

\* Mutant of SeeCancel: Run returns without Shutdown.
SeeCancelNoShutdown ==
  /\ cancelled
  /\ run \in {"select", "backoff"}
  /\ run' = "returned"
  /\ UNCHANGED <<failures, cancelled, disconnected, made, reader, botVars>>

\* ctx.Done in the outer select: Shutdown disconnects the client, whose read
\* goroutine runs the Disconnect handler.  ctx.Done during the backoff.
SeeCancel ==
  /\ cancelled
  /\ run \in {"select", "backoff"}
  /\ run' = "returned"
  /\ reader' = IF run = "select" /\ client # 0 /\ reader[client] = "up"
               THEN [reader EXCEPT ![client] = "lost"] ELSE reader
  /\ UNCHANGED <<failures, cancelled, disconnected, made, botVars>>

Run ==
  Dial \/ DialFails \/ DialReturns \/ TakeSignal \/ BackoffOver \/ SeeCancel

-----------------------------------------------------------------------------
(* The handlers.                                                           *)

\* The Connect handler publishes the client and a new pipeline together.
Install(c) ==
  /\ reader[c] = "connect"
  /\ reader' = [reader EXCEPT ![c] = "installed"]
  /\ client' = c
  /\ audio' = c
  /\ UNCHANGED <<runVars, disconnected, cancelLoop, loop>>

StartLoop(c) ==
  /\ reader[c] = "installed"
  /\ reader' = [reader EXCEPT ![c] = "up"]
  /\ cancelLoop' = c
  /\ loop' = [loop EXCEPT ![c] = "running"]
  /\ UNCHANGED <<runVars, disconnected, client, audio>>

\* The Disconnect handler first stops the loop that cancelLoop belongs to,
\* whichever that is.
StopLoop(c) ==
  /\ reader[c] = "lost"
  /\ reader' = [reader EXCEPT ![c] = "stopped"]
  /\ cancelLoop' = 0
  /\ loop' = IF cancelLoop = 0 THEN loop
             ELSE [loop EXCEPT ![cancelLoop] = "cancelled"]
  /\ UNCHANGED <<runVars, disconnected, client, audio>>

\* Mutant of Signal: the channel has no buffer, so that the signal is lost
\* unless Run waits for it.
SignalUnbuffered(c) ==
  /\ reader[c] = "stopped"
  /\ reader' = [reader EXCEPT ![c] = "gone"]
  /\ disconnected' = (disconnected \/ run = "select")
  /\ UNCHANGED <<runVars, botVars>>

\* The non-blocking send: a signal that is already there stands for both.
Signal(c) ==
  /\ reader[c] = "stopped"
  /\ reader' = [reader EXCEPT ![c] = "gone"]
  /\ disconnected' = TRUE
  /\ UNCHANGED <<runVars, botVars>>

\* Mutant of Handlers: the Disconnect handler signals Run before it stops the
\* loop.
HandlersSignalFirst(c) ==
  \/ Install(c) \/ StartLoop(c)
  \/ /\ reader[c] = "lost"
     /\ reader' = [reader EXCEPT ![c] = "stopped"]
     /\ disconnected' = TRUE
     /\ UNCHANGED <<runVars, botVars>>
  \/ /\ reader[c] = "stopped"
     /\ reader' = [reader EXCEPT ![c] = "gone"]
     /\ cancelLoop' = 0
     /\ loop' = IF cancelLoop = 0 THEN loop
                ELSE [loop EXCEPT ![cancelLoop] = "cancelled"]
     /\ UNCHANGED <<runVars, disconnected, client, audio>>

Handlers(c) == Install(c) \/ StartLoop(c) \/ StopLoop(c) \/ Signal(c)

-----------------------------------------------------------------------------
(* The environment and the loop.                                           *)

\* The network or the server ends a connection.
Lose(c) ==
  /\ reader[c] = "up"
  /\ reader' = [reader EXCEPT ![c] = "lost"]
  /\ UNCHANGED <<runVars, disconnected, botVars>>

Cancel ==
  /\ ~cancelled
  /\ cancelled' = TRUE
  /\ UNCHANGED <<run, failures, made, disconnected, reader, botVars>>

\* The loop sees its context cancelled.  It may have been resolving an item
\* for long, so that it can outlive the reconnection.
LoopEnds(c) ==
  /\ loop[c] = "cancelled"
  /\ loop' = [loop EXCEPT ![c] = "ended"]
  /\ UNCHANGED <<runVars, disconnected, reader, client, audio, cancelLoop>>

Next ==
  \/ Run
  \/ \E c \in Connections : Handlers(c) \/ Lose(c) \/ LoopEnds(c)
  \/ Cancel

Spec == Init /\ [][Next]_vars

(* Run, the handlers and the loops are goroutines that run on: a dial ends *)
(* (dialTimeout), the timer of the backoff fires.  A select whose ctx.Done *)
(* case is ready again and again takes it (Go picks a ready case at        *)
(* random): strong fairness of SeeCancel.  Nothing has to be lost, nobody  *)
(* has to cancel, the server need not accept.                              *)
Fairness ==
  /\ WF_vars(Dial \/ DialFails) /\ WF_vars(DialReturns)
  /\ WF_vars(TakeSignal) /\ WF_vars(BackoffOver) /\ SF_vars(SeeCancel)
  /\ \A c \in Connections : WF_vars(Handlers(c)) /\ WF_vars(LoopEnds(c))

FairSpec == Spec /\ Fairness

-----------------------------------------------------------------------------
TypeOK ==
  /\ run \in {"firstDial", "dial", "wait", "select", "backoff"} \cup Ended
  /\ failures \in 0..MaxRetries
  /\ {cancelled, disconnected} \subseteq BOOLEAN
  /\ made \in 0..MaxConnections
  /\ reader \in [Connections ->
                  {"none", "connect", "installed", "up", "lost", "stopped", "gone"}]
  /\ {client, audio} \subseteq 0..made
  /\ cancelLoop \in {0, made}
  /\ loop \in [Connections -> {"none", "running", "cancelled", "ended"}]

(* The loop of a connection lives exactly as long as the connection: while *)
(* it is up, its own loop runs, with its own client and its own pipeline,  *)
(* and no other loop runs; once the Disconnect handler has stopped the     *)
(* loop, none does.  A Disconnect handler that ran late would stop the     *)
(* loop of the next connection.                                            *)
LoopFollowsConnection ==
  \A c \in Connections :
    /\ reader[c] = "up" =>
         client = c /\ audio = c /\ cancelLoop = c /\ loop[c] = "running"
    /\ loop[c] = "running" => reader[c] \in {"up", "lost"}

(* What the handlers of the newest connection have done, as playback sees  *)
(* it.                                                                     *)
Abstracted ==
  CASE audio = 0                                       -> "down"
    [] audio # 0 /\ reader[audio] = "installed"        -> "installed"
    [] audio # 0 /\ reader[audio] \in {"up", "lost"}   -> "up"
    [] OTHER                                           -> "down"

L == INSTANCE Link WITH link <- Abstracted

(* The connection keeps the promises of Link to playback: its handlers     *)
(* replace the pipeline, start the loop and cancel it in turn, whatever    *)
(* Run, the network and signals do meanwhile.                              *)
ImplementsLink == L!Spec

(* A lost connection is noticed even while Run is busy: a dial follows, or *)
(* Run has ended.                                                          *)
LostConnectionIsRedialled ==
  \A c \in Connections :
    (reader[c] = "lost") ~> (run \in {"dial"} \cup Ended)

(* SIGINT and SIGTERM end Run, also during a backoff or a dial, and leave  *)
(* neither a connection nor a running loop behind.                         *)
CancelEndsRun ==
  cancelled ~> /\ run \in Ended
               /\ \A c \in Connections : reader[c] \in {"none", "gone"}
                                         /\ loop[c] \in {"none", "ended"}

-----------------------------------------------------------------------------
(* connect.go:45-46: Run goes on "until ctx is cancelled or the bot        *)
(* exhausts maxRetries consecutive failed reconnect attempts", so a failed *)
(* attempt is followed by another one, or by the end of Run.               *)
FailedAttemptIsRetried ==
  (run = "select" /\ failures > 0) ~> (run # "select")
=============================================================================
