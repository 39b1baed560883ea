-------------------------- MODULE ConnectionProofs --------------------------
(***************************************************************************)
(* Proofs about Connection, for any number of connections and retries: the *)
(* loop of a connection lives as long as the connection, and the handlers  *)
(* keep the promises of Link.                                              *)
(***************************************************************************)
EXTENDS Connection, TLAPS

ReaderSteps == {"none", "connect", "installed", "up", "lost", "stopped", "gone"}

Types ==
  /\ made \in 0..MaxConnections
  /\ {client, cancelLoop} \subseteq 0..made
  /\ reader \in [Connections -> ReaderSteps]
  /\ loop \in [Connections -> {"none", "running", "cancelled", "ended"}]

(* Only the read goroutine of the newest connection is alive.              *)
OneReader ==
  \A c \in Connections :
    /\ c < made => reader[c] = "gone"
    /\ c > made => reader[c] = "none"

(* Run dials again only after it took the signal of the newest connection, *)
(* which is the last thing the Disconnect handler does, and at that time   *)
(* no second signal is under way.                                          *)
DialsAfterSignal ==
  /\ run = "firstDial" => made = 0
  /\ disconnected \/ run \in {"backoff", "dial"} => made > 0 /\ reader[made] = "gone"
  /\ run \in {"backoff", "dial"} => ~disconnected

(* What the handlers have set up for the newest connection, step by step.  *)
HandlerState ==
  \A c \in Connections :
    /\ reader[c] \in {"installed", "up"} => client = c /\ audio = c
    /\ reader[c] \in {"up", "lost"} => cancelLoop = c /\ loop[c] = "running"
    /\ loop[c] = "running" => reader[c] \in {"up", "lost"}

Inv == Types /\ OneReader /\ DialsAfterSignal /\ HandlerState

USE DEF Connections

(* No connection has been made yet.                                        *)
LEMMA InvInit == Init => Inv
  BY ConnectionAssumption, SMT
  DEF Init, Inv, Types, ReaderSteps, OneReader, DialsAfterSignal, HandlerState

(* The newest connection is one of the bounded set.                        *)
LEMMA MadeIsConnection ==
  ASSUME Types
  PROVE  made \in Nat /\ (made > 0 => made \in Connections)
  BY ConnectionAssumption DEF Types

(* A step of Run.  Only Dial brings in a connection; the previous one has  *)
(* signalled by then.                                                      *)
LEMMA RunKeepsInv == Inv /\ Run => Inv'
<1> SUFFICES ASSUME Inv, Run PROVE Inv'
  OBVIOUS
<1>a. made \in Nat /\ (made > 0 => made \in Connections)
  BY MadeIsConnection DEF Inv
<1> USE ConnectionAssumption DEF Inv, Types, ReaderSteps
<1>1. CASE Dial
  <2>1. made + 1 \in Connections /\ made' = made + 1
    BY <1>1, <1>a DEF Dial
  <2>2. reader' = [reader EXCEPT ![made + 1] = "connect"]
    BY <1>1 DEF Dial
  <2>3. Types'
    BY <1>1, <2>1, <2>2, <1>a DEF Dial, botVars
  <2>4. OneReader'
    BY <1>1, <2>1, <2>2, <1>a DEF Dial, OneReader, DialsAfterSignal
  <2>5. DialsAfterSignal'
    BY <1>1, <1>a DEF Dial, DialsAfterSignal
  <2>6. HandlerState'
    BY <1>1, <2>1, <2>2, <1>a DEF Dial, botVars, OneReader, HandlerState
  <2> QED
    BY <2>3, <2>4, <2>5, <2>6
<1>2. CASE DialFails
  BY <1>2, <1>a DEF DialFails, botVars, OneReader, DialsAfterSignal, HandlerState
<1>3. CASE DialReturns
  <2>1. HandlerState'
    <3> SUFFICES ASSUME NEW c \in Connections,
                        reader[c] \in {"installed", "up"}
                 PROVE  client' = c
      BY <1>3 DEF DialReturns, HandlerState
    <3>1. c = made
      BY <1>a DEF OneReader
    <3> QED
      BY <3>1, <1>3 DEF DialReturns
  <2> QED
    BY <2>1, <1>3, <1>a DEF DialReturns, OneReader, DialsAfterSignal
<1>4. CASE TakeSignal
  BY <1>4, <1>a DEF TakeSignal, botVars, OneReader, DialsAfterSignal, HandlerState
<1>5. CASE BackoffOver
  BY <1>5, <1>a DEF BackoffOver, botVars, OneReader, DialsAfterSignal, HandlerState
<1>6. CASE SeeCancel
  <2>1. CASE reader' = reader
    BY <2>1, <1>6, <1>a DEF SeeCancel, botVars, OneReader, DialsAfterSignal, HandlerState
  <2>2. CASE reader' # reader
    <3>1. /\ client \in Connections /\ reader[client] = "up"
          /\ reader' = [reader EXCEPT ![client] = "lost"]
      BY <2>2, <1>6, <1>a DEF SeeCancel
    <3>2. client = made
      BY <3>1, <1>a DEF OneReader
    <3> QED
      BY <3>1, <3>2, <1>6, <1>a
      DEF SeeCancel, botVars, OneReader, DialsAfterSignal, HandlerState
  <2> QED
    BY <2>1, <2>2
<1> QED
  BY <1>1, <1>2, <1>3, <1>4, <1>5, <1>6 DEF Run

(* A step of the read goroutine of connection c, which is the newest one.  *)
LEMMA HandlersKeepInv ==
  ASSUME Inv, NEW c \in Connections, Handlers(c) \/ Lose(c) PROVE Inv'
<1>a. made \in Nat /\ (made > 0 => made \in Connections)
  BY MadeIsConnection DEF Inv
<1>b. c = made
  BY <1>a DEF Handlers, Install, StartLoop, StopLoop, Signal, Lose, Inv, OneReader
<1>c. ~disconnected /\ run \notin {"backoff", "dial"}
  BY <1>b DEF Handlers, Install, StartLoop, StopLoop, Signal, Lose, Inv, DialsAfterSignal
<1> USE ConnectionAssumption DEF Inv, Types, ReaderSteps
<1>1. CASE Install(c)
  BY <1>1, <1>a, <1>b, <1>c
  DEF Install, runVars, OneReader, DialsAfterSignal, HandlerState
<1>2. CASE StartLoop(c)
  BY <1>2, <1>a, <1>b, <1>c
  DEF StartLoop, runVars, OneReader, DialsAfterSignal, HandlerState
<1>3. CASE StopLoop(c)
  <2>1. cancelLoop = c
    BY <1>3 DEF StopLoop, HandlerState
  <2> QED
    BY <2>1, <1>3, <1>a, <1>b, <1>c
    DEF StopLoop, runVars, OneReader, DialsAfterSignal, HandlerState
<1>4. CASE Signal(c)
  BY <1>4, <1>a, <1>b, <1>c
  DEF Signal, runVars, botVars, OneReader, DialsAfterSignal, HandlerState
<1>5. CASE Lose(c)
  BY <1>5, <1>a, <1>b, <1>c
  DEF Lose, runVars, botVars, OneReader, DialsAfterSignal, HandlerState
<1> QED
  BY <1>1, <1>2, <1>3, <1>4, <1>5 DEF Handlers

(* A signal of main and the end of a loop disturb nothing.                 *)
LEMMA OthersKeepInv ==
  Inv /\ (Cancel \/ UNCHANGED vars \/ \E c \in Connections : LoopEnds(c)) => Inv'
<1> USE DEF Inv, Types, OneReader, DialsAfterSignal, HandlerState, botVars, runVars
<1>1. Inv /\ Cancel => Inv'
  BY DEF Cancel
<1>2. Inv /\ UNCHANGED vars => Inv'
  BY DEF vars
<1>3. ASSUME Inv, NEW c \in Connections, LoopEnds(c) PROVE Inv'
  BY <1>3 DEF LoopEnds
<1> QED
  BY <1>1, <1>2, <1>3

(* The invariant holds in every state.                                     *)
LEMMA Invariant == Spec => []Inv
<1>1. Inv /\ [Next]_vars => Inv'
  BY RunKeepsInv, HandlersKeepInv, OthersKeepInv DEF Next
<1> QED
  BY <1>1, InvInit, PTL DEF Spec

(* A connection that is up has its own loop, pipeline and client, and no   *)
(* loop runs without its connection.                                       *)
THEOREM LoopFollows == Spec => []LoopFollowsConnection
<1>1. Inv => LoopFollowsConnection
  BY DEF Inv, HandlerState, LoopFollowsConnection
<1> QED
  BY <1>1, Invariant, PTL

-----------------------------------------------------------------------------
(* What the bot keeps belongs to the newest connection, and Run never dials*)
(* with all its retries used up.                                           *)
NewestOnly ==
  /\ audio = IF made > 0 /\ reader[made] = "connect" THEN made - 1 ELSE made
  /\ cancelLoop = IF made > 0 /\ reader[made] \in {"up", "lost"} THEN made ELSE 0

RunTypes ==
  /\ run \in {"firstDial", "dial", "wait", "select", "backoff"} \cup Ended
  /\ failures \in 0..MaxRetries
  /\ run \in {"backoff", "dial"} => failures < MaxRetries

Flags == cancelled \in BOOLEAN /\ disconnected \in BOOLEAN

LEMMA RunTypesStep == RunTypes /\ [Next]_vars => RunTypes'
<1> SUFFICES ASSUME RunTypes, [Next]_vars PROVE RunTypes'
  OBVIOUS
<1> USE ConnectionAssumption DEF RunTypes, Ended
<1>1. CASE Dial BY <1>1 DEF Dial
<1>2. CASE DialFails BY <1>2 DEF DialFails
<1>3. CASE DialReturns BY <1>3 DEF DialReturns
<1>4. CASE TakeSignal BY <1>4 DEF TakeSignal
<1>5. CASE BackoffOver BY <1>5 DEF BackoffOver
<1>6. CASE SeeCancel BY <1>6 DEF SeeCancel
<1>7. CASE \E c \in Connections : Handlers(c) \/ Lose(c) \/ LoopEnds(c)
  BY <1>7 DEF Handlers, Install, StartLoop, StopLoop, Signal, Lose, LoopEnds, runVars
<1>8. CASE Cancel \/ UNCHANGED vars
  BY <1>8 DEF Cancel, vars
<1> QED
  BY <1>1, <1>2, <1>3, <1>4, <1>5, <1>6, <1>7, <1>8 DEF Next, Run

LEMMA FlagsStep == Flags /\ [Next]_vars => Flags'
<1> SUFFICES ASSUME Flags, [Next]_vars PROVE Flags'
  OBVIOUS
<1> USE DEF Flags
<1>1. CASE Run
  BY <1>1, Zenon
  DEF Run, Dial, DialFails, DialReturns, TakeSignal, BackoffOver, SeeCancel
<1>2. CASE \E c \in Connections : Handlers(c) \/ Lose(c) \/ LoopEnds(c)
  BY <1>2, Zenon
  DEF Handlers, Install, StartLoop, StopLoop, Signal, Lose, LoopEnds, runVars
<1>3. CASE Cancel \/ UNCHANGED vars
  BY <1>3, Zenon DEF Cancel, vars
<1> QED
  BY <1>1, <1>2, <1>3 DEF Next

(* The handlers that run are those of the newest connection.               *)
LEMMA HandlersOfNewest ==
  ASSUME Inv, NEW c \in Connections, Handlers(c) \/ Lose(c)
  PROVE  c = made
<1>a. made \in Nat /\ (made > 0 => made \in Connections)
  BY MadeIsConnection DEF Inv
<1> QED
  BY <1>a DEF Handlers, Install, StartLoop, StopLoop, Signal, Lose, Inv, OneReader

LEMMA RunKeepsNewest == Inv /\ NewestOnly /\ Run => NewestOnly'
<1> SUFFICES ASSUME Inv, NewestOnly, Run PROVE NewestOnly'
  OBVIOUS
<1>a. made \in Nat /\ (made > 0 => made \in Connections)
  BY MadeIsConnection DEF Inv
<1> USE DEF botVars
<1>1. CASE Dial
  <2>1. made' = made + 1 /\ reader'[made'] = "connect"
    BY <1>1, <1>a, ConnectionAssumption DEF Dial, Inv, Types
  <2>2. made > 0 => reader[made] = "gone"
    BY <1>1 DEF Dial, Inv, DialsAfterSignal
  <2> QED
    BY <1>1, <1>a, <2>1, <2>2 DEF Dial, NewestOnly
<1>2. CASE SeeCancel
  <2>1. CASE reader' = reader
    BY <2>1, <1>2 DEF SeeCancel, NewestOnly
  <2>2. CASE reader' # reader
    <3>1. /\ client \in Connections /\ reader[client] = "up"
          /\ reader' = [reader EXCEPT ![client] = "lost"]
      BY <2>2, <1>2, <1>a, ConnectionAssumption DEF SeeCancel, Inv, Types
    <3>2. client = made
      BY <3>1, <1>a DEF Inv, OneReader
    <3>3. reader'[made] = "lost"
      BY <3>1, <3>2 DEF Inv, Types
    <3> QED
      BY <3>1, <3>2, <3>3, <1>2 DEF SeeCancel, NewestOnly
  <2> QED
    BY <2>1, <2>2
<1>3. CASE DialFails \/ DialReturns \/ TakeSignal \/ BackoffOver
  BY <1>3 DEF DialFails, DialReturns, TakeSignal, BackoffOver, NewestOnly
<1> QED
  BY <1>1, <1>2, <1>3 DEF Run

LEMMA HandlersKeepNewest ==
  ASSUME Inv, NewestOnly, NEW c \in Connections, Handlers(c) \/ Lose(c)
  PROVE  NewestOnly'
<1>a. made \in Nat /\ made > 0 /\ c = made
  BY MadeIsConnection, HandlersOfNewest DEF Inv
<1>b. reader \in [Connections -> ReaderSteps]
  BY DEF Inv, Types
<1> USE DEF NewestOnly, botVars, runVars
<1>1. CASE Install(c) BY <1>1, <1>a, <1>b DEF Install
<1>2. CASE StartLoop(c) BY <1>2, <1>a, <1>b DEF StartLoop
<1>3. CASE StopLoop(c) BY <1>3, <1>a, <1>b DEF StopLoop
<1>4. CASE Signal(c) BY <1>4, <1>a, <1>b DEF Signal
<1>5. CASE Lose(c) BY <1>5, <1>a, <1>b DEF Lose
<1> QED
  BY <1>1, <1>2, <1>3, <1>4, <1>5 DEF Handlers

(* The whole invariant.                                                    *)
FullInv == Inv /\ RunTypes /\ Flags /\ NewestOnly

LEMMA FullInvariant == Spec => []FullInv
<1>1. Init => FullInv
  <2>1. Init => RunTypes
    BY ConnectionAssumption DEF Init, RunTypes, Ended
  <2>2. Init => Flags
    BY Zenon DEF Init, Flags
  <2>3. Init => NewestOnly
    BY DEF Init, NewestOnly
  <2> QED
    BY <2>1, <2>2, <2>3, InvInit DEF FullInv
<1>2. FullInv /\ [Next]_vars => FullInv'
  <2> SUFFICES ASSUME FullInv, [Next]_vars PROVE FullInv'
    OBVIOUS
  <2>1. Inv' /\ RunTypes' /\ Flags'
    BY RunKeepsInv, HandlersKeepInv, OthersKeepInv, RunTypesStep, FlagsStep
    DEF FullInv, Next
  <2>2. NewestOnly'
    <3>1. CASE Cancel \/ UNCHANGED vars \/ \E c \in Connections : LoopEnds(c)
      BY <3>1 DEF Cancel, vars, botVars, runVars, LoopEnds, FullInv, NewestOnly
    <3> QED
      BY <3>1, RunKeepsNewest, HandlersKeepNewest DEF FullInv, Next
  <2> QED
    BY <2>1, <2>2 DEF FullInv
<1> QED
  BY <1>1, <1>2, PTL DEF Spec

(* Every variable keeps its type; in particular Run never exceeds its      *)
(* retries, and what it has is never newer than what it has dialled.       *)
THEOREM Typed == Spec => []TypeOK
<1>1. ASSUME FullInv PROVE TypeOK
  <2>1. {cancelled, disconnected} \subseteq BOOLEAN
    BY <1>1 DEF FullInv, Flags
  <2>2. audio \in 0..made /\ cancelLoop \in {0, made}
    BY <1>1, ConnectionAssumption DEF FullInv, Inv, Types, NewestOnly
  <2> QED
    BY <1>1, <2>1, <2>2 DEF FullInv, Inv, Types, RunTypes, ReaderSteps, TypeOK
<1> QED
  BY <1>1, FullInvariant, PTL

-----------------------------------------------------------------------------
(* The refinement: the handlers are the steps of Link, all else stutters.  *)

linkVars == <<audio, Abstracted, loop>>

(* What Link sees follows from the newest connection.                      *)
LEMMA AbstractedByReader ==
  ASSUME FullInv
  PROVE  Abstracted = IF made = 0 THEN "down"
                      ELSE CASE reader[made] = "installed"      -> "installed"
                             [] reader[made] \in {"up", "lost"} -> "up"
                             [] OTHER                           -> "down"
<1>a. made \in Nat /\ (made > 0 => made \in Connections)
  BY MadeIsConnection DEF FullInv, Inv
<1>1. CASE made > 0 /\ reader[made] = "connect"
  <2>1. audio = made - 1
    BY <1>1 DEF FullInv, NewestOnly
  <2>2. audio = 0 \/ (audio \in Connections /\ audio < made)
    BY <2>1, <1>1, <1>a, ConnectionAssumption
  <2>3. audio = 0 \/ (audio \in Connections /\ reader[audio] = "gone")
    BY <2>2 DEF FullInv, Inv, OneReader
  <2> QED
    BY <2>3, <1>1, <1>a DEF Abstracted
<1>2. CASE ~(made > 0 /\ reader[made] = "connect")
  <2>1. audio = made
    BY <1>2 DEF FullInv, NewestOnly
  <2> QED
    BY <2>1, <1>2, <1>a DEF Abstracted
<1> QED
  BY <1>1, <1>2

(* Everything but the handlers and the end of a loop stutters.             *)
LEMMA RunStutters == FullInv /\ FullInv' /\ Run => UNCHANGED linkVars
<1> SUFFICES ASSUME FullInv, FullInv', Run PROVE UNCHANGED linkVars
  OBVIOUS
<1>a. made \in Nat /\ (made > 0 => made \in Connections)
  BY MadeIsConnection DEF FullInv, Inv
<1>1. audio' = audio /\ loop' = loop
  BY DEF Run, Dial, DialFails, DialReturns, TakeSignal, BackoffOver, SeeCancel, botVars
<1>2. CASE Dial
  <2>1. made > 0 => reader[made] = "gone"
    BY <1>2 DEF Dial, FullInv, Inv, DialsAfterSignal
  <2>2. made' = made + 1 /\ reader'[made'] = "connect"
    BY <1>2, <1>a, ConnectionAssumption DEF Dial, FullInv, Inv, Types
  <2>3. Abstracted = "down"
    BY <2>1, <1>a, AbstractedByReader
  <2>4. Abstracted' = "down"
    <3>1. audio' = made /\ made' # 0
      BY <1>1, <1>2, <2>1, <2>2, <1>a DEF FullInv, NewestOnly
    <3>2. made > 0 => reader'[made] = "gone"
      BY <1>2, <2>1, <1>a DEF Dial, FullInv, Inv, Types
    <3> QED
      BY <3>1, <3>2, <1>a DEF Abstracted
  <2> QED
    BY <1>1, <2>3, <2>4 DEF linkVars
<1>3. CASE SeeCancel /\ reader' # reader
  <2>1. /\ client \in Connections /\ reader[client] = "up"
        /\ reader' = [reader EXCEPT ![client] = "lost"]
    BY <1>3, <1>a, ConnectionAssumption DEF SeeCancel, FullInv, Inv, Types
  <2>2. client = made
    BY <2>1, <1>a DEF FullInv, Inv, OneReader
  <2>3. audio = made
    BY <2>1, <2>2, <1>a DEF FullInv, NewestOnly
  <2>4. reader'[audio] = "lost" /\ reader[audio] = "up" /\ audio # 0
    BY <2>1, <2>2, <2>3, <1>a DEF FullInv, Inv, Types
  <2> QED
    BY <1>1, <2>4 DEF linkVars, Abstracted
<1>4. CASE reader' = reader
  BY <1>1, <1>4 DEF linkVars, Abstracted
<1> QED
  BY <1>2, <1>3, <1>4 DEF Run, DialFails, DialReturns, TakeSignal, BackoffOver

(* A handler of connection c is a step of Link, or has nothing to do with  *)
(* playback.                                                               *)
LEMMA HandlersImplement ==
  ASSUME FullInv, NEW c \in Connections, Handlers(c) \/ Lose(c)
  PROVE  L!Next \/ UNCHANGED linkVars
<1>a. made \in Connections /\ c = made
  BY HandlersOfNewest DEF FullInv
<1>b. reader \in [Connections -> ReaderSteps]
  BY DEF FullInv, Inv, Types
<1>c. audio = IF reader[c] = "connect" THEN c - 1 ELSE c
  BY <1>a DEF FullInv, NewestOnly
<1>1. CASE Install(c)
  <2>1. Abstracted = "down"
    BY <1>1, <1>a, AbstractedByReader DEF Install
  <2>2. audio' = audio + 1 /\ audio < MaxConnections
    BY <1>1, <1>a, <1>c, ConnectionAssumption DEF Install
  <2>3. Abstracted' = "installed" /\ loop' = loop
    BY <1>1, <1>a, <1>b DEF Install, Abstracted
  <2> QED
    BY <2>1, <2>2, <2>3 DEF L!Next, L!Install
<1>2. CASE StartLoop(c)
  <2>1. Abstracted = "installed" /\ audio = c
    BY <1>2, <1>a, <1>c, AbstractedByReader DEF StartLoop
  <2>2. Abstracted' = "up"
    BY <1>2, <1>a, <1>b, <2>1 DEF StartLoop, Abstracted
  <2> QED
    BY <1>2, <2>1, <2>2 DEF StartLoop, L!Next, L!Start
<1>3. CASE StopLoop(c)
  <2>1. Abstracted = "up" /\ audio = c /\ cancelLoop = c
    BY <1>3, <1>a, <1>c, AbstractedByReader DEF StopLoop, FullInv, NewestOnly
  <2>2. Abstracted' = "down"
    BY <1>3, <1>a, <1>b, <2>1 DEF StopLoop, Abstracted
  <2> QED
    BY <1>3, <1>a, <2>1, <2>2 DEF StopLoop, L!Next, L!Stop
<1>4. CASE Signal(c)
  BY <1>4, <1>a, <1>b, <1>c DEF Signal, botVars, linkVars, Abstracted
<1>5. CASE Lose(c)
  BY <1>5, <1>a, <1>b, <1>c DEF Lose, botVars, linkVars, Abstracted
<1> QED
  BY <1>1, <1>2, <1>3, <1>4, <1>5 DEF Handlers

(* The connection implements Link: a new pipeline before its loop, one     *)
(* loop for a connection, that loop cancelled before the next connection.  *)
THEOREM ConnectionImplementsLink == Spec => ImplementsLink
<1>1. Init => L!Init
  BY DEF Init, L!Init, L!Connections, Abstracted
<1>2. FullInv /\ FullInv' /\ [Next]_vars => [L!Next]_linkVars
  <2> SUFFICES ASSUME FullInv, FullInv', [Next]_vars
               PROVE  L!Next \/ UNCHANGED linkVars
    BY DEF linkVars
  <2>1. CASE Run
    BY <2>1, RunStutters
  <2>2. ASSUME NEW c \in Connections, Handlers(c) \/ Lose(c)
        PROVE  L!Next \/ UNCHANGED linkVars
    BY <2>2, HandlersImplement
  <2>3. ASSUME NEW c \in Connections, LoopEnds(c)
        PROVE  L!Next \/ UNCHANGED linkVars
    <3>1. UNCHANGED <<audio, Abstracted>>
      BY <2>3 DEF LoopEnds, Abstracted
    <3> QED
      BY <2>3, <3>1 DEF LoopEnds, L!Next, L!End, L!Connections
  <2>4. CASE Cancel \/ UNCHANGED vars
    BY <2>4 DEF Cancel, vars, botVars, linkVars, Abstracted
  <2> QED
    BY <2>1, <2>2, <2>3, <2>4 DEF Next
<1> QED
  BY <1>1, <1>2, FullInvariant, PTL DEF Spec, ImplementsLink, L!Spec, linkVars
=============================================================================
