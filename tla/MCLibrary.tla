------------------------------ MODULE MCLibrary ------------------------------
(* Constants for TLC: a song from a file and one from a URL, and           *)
(* conditions on the type, on the id, and a sub-condition with an OR in it *)
(* that names the sentinel.  The sentinel's type is NULL.                  *)
EXTENDS Library

CONSTANTS f1, u1, i1, k1, t1, g1, g2, none

MCSongs == {f1, u1}
MCUrlSongs == {u1}
MCKeys == {k1}
MCTexts == {t1}
MCGoroutines == {g1, g2}

IsUrl == [r \in {f1, u1, i1} |->
            IF r = i1 THEN "null" ELSE IF r = u1 THEN "true" ELSE "false"]
IdIs(s) == [r \in {f1, u1, i1} |-> IF r = s THEN "true" ELSE "false"]
UrlOrInfo == Or(And(NoCondition, IsUrl), IdIs(i1))

MCConditions ==
  { And(NoCondition, IdIs(f1)),
    And(NoCondition, Sub({f1, u1, i1}, UrlOrInfo)),
    And(And(NoCondition, NotSub({f1, u1, i1}, And(NoCondition, IdIs(f1)))), IdIs(i1)) }
=============================================================================
