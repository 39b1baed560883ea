----------------------------- MODULE Dispatcher -----------------------------
(***************************************************************************)
(* Which command a typed word runs (internal/command/dispatcher.go), over  *)
(* the table that RegisterAll builds once (internal/command/registry.go).  *)
(* A word is what stands between the command symbol and the first blank.   *)
(***************************************************************************)
EXTENDS Integers, Sequences

CONSTANTS
  Words,         \* what users type, and the aliases
  Begins,        \* the pairs <<w, a>> of words such that a begins with w
  Registrations, \* the calls of Register in their order
  Admins         \* [bot] admin

ASSUME DispatcherAssumption ==
  /\ Begins \subseteq Words \X Words
  /\ \A w \in Words : <<w, w>> \in Begins
  /\ \A i \in DOMAIN Registrations : Registrations[i].aliases \subseteq Words

(* The keys of d.handlers. *)
Aliases == UNION {Registrations[i].aliases : i \in DOMAIN Registrations}

(* d.handlers[a] is the i-th entry: a later registration of an alias       *)
(* replaces an earlier one.                                                *)
Handles(i, a) ==
  /\ a \in Registrations[i].aliases
  /\ \A j \in DOMAIN Registrations :
       a \in Registrations[j].aliases => j <= i

(* The handler of an entry runs, behind the test for admins.               *)
Runs(i, user, command) ==
  /\ Registrations[i].command = command
  /\ Registrations[i].adminOnly => user \in Admins

Candidates(w) == {a \in Aliases : <<w, a>> \in Begins}

(* 1. Exact match, whatever else begins with the word.                     *)
Exact(user, w, command) ==
  \E i \in DOMAIN Registrations : Handles(i, w) /\ Runs(i, user, command)

\* Mutant of Abbreviated: the test for admins is forgotten on this path.
AbbreviatedUnchecked(user, w, command) ==
  /\ w \notin Aliases
  /\ \E i \in DOMAIN Registrations, a \in Aliases :
       /\ Candidates(w) = {a}
       /\ Handles(i, a)
       /\ Registrations[i].command = command

(* 2. Prefix match, if only one alias begins with the word.                *)
Abbreviated(user, w, command) ==
  /\ w \notin Aliases
  /\ \E i \in DOMAIN Registrations, a \in Aliases :
       /\ Candidates(w) = {a}
       /\ Handles(i, a)
       /\ Runs(i, user, command)

(* The word runs the command for the user.  An unknown or ambiguous word,  *)
(* a command for admins only, a private or a server message run nothing.   *)
Dispatch(user, w, command) == Exact(user, w, command) \/ Abbreviated(user, w, command)
=============================================================================
