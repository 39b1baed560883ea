------------------------------ MODULE Playlist ------------------------------
(***************************************************************************)
(* What the queue promises, with the order of the items abstracted away:   *)
(* every queued item is in exactly one of three places.  It was passed     *)
(* earlier in this lap (heard), it is the one to play (now), or it is      *)
(* still ahead in this lap (ahead).  Queue.tla is shown to implement it.   *)
(***************************************************************************)
EXTENDS FiniteSets

CONSTANTS Items, NoItem

VARIABLES heard, now, ahead

vars == <<heard, now, ahead>>

Queued == heard \cup ahead \cup ({now} \ {NoItem})

Init == heard = {} /\ now = NoItem /\ ahead = {}

\* A new item never disturbs what plays or was played: it becomes the current
\* item of an idle list, and otherwise comes up later in this lap.
Enqueue(x) ==
  /\ x \in Items \ Queued
  /\ IF now = NoItem
     THEN now' = x /\ UNCHANGED <<heard, ahead>>
     ELSE ahead' = ahead \cup {x} /\ UNCHANGED <<heard, now>>

\* An item placed before the current one is not due in this lap any more.
EnqueueBehind(x) ==
  /\ x \in Items \ Queued
  /\ now # NoItem
  /\ heard' = heard \cup {x}
  /\ UNCHANGED <<now, ahead>>

\* On to an item still ahead; the one that played has been heard.
Advance ==
  /\ now # NoItem
  /\ \E x \in ahead : now' = x /\ ahead' = ahead \ {x}
  /\ heard' = heard \cup {now}

\* The list becomes idle, at its end or because what is ahead is given up.
Finish ==
  /\ now # NoItem
  /\ now' = NoItem
  /\ heard' = Queued
  /\ ahead' = {}

\* A new lap starts only when nothing is ahead, takes in every item, and does
\* not open with the item that just played unless that is the only one.
Wrap ==
  /\ ahead = {}
  /\ heard' = {}
  /\ \E x \in Queued :
       /\ x = now => Queued = {x}
       /\ now' = x
       /\ ahead' = Queued \ {x}

\* The end of a track: the list is only left when nothing is ahead.
Forward == Advance \/ Wrap \/ (ahead = {} /\ Finish)

\* The user picks the item to play; the list keeps all its items.
Select ==
  /\ \E x \in Queued : \E past \in SUBSET (Queued \ {x}) :
       now' = x /\ heard' = past /\ ahead' = (Queued \ {x}) \ past

\* One item leaves the list.  If it was the current one the next takes its
\* place, or the list becomes idle.
Drop(x) ==
  \/ x \in heard /\ heard' = heard \ {x} /\ UNCHANGED <<now, ahead>>
  \/ x \in ahead /\ ahead' = ahead \ {x} /\ UNCHANGED <<heard, now>>
  \/ /\ x = now /\ x # NoItem
     /\ UNCHANGED heard
     /\ \/ \E y \in ahead : now' = y /\ ahead' = ahead \ {y}
        \/ ahead = {} /\ now' = NoItem /\ UNCHANGED ahead

Clear == heard' = {} /\ now' = NoItem /\ ahead' = {}

Next ==
  \/ \E x \in Items : Enqueue(x) \/ EnqueueBehind(x) \/ Drop(x)
  \/ Forward \/ Finish \/ Select \/ Clear

Spec == Init /\ [][Next]_vars
=============================================================================
