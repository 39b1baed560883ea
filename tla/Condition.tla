------------------------------ MODULE Condition ------------------------------
(***************************************************************************)
(* Conditions on the rows of the music table                               *)
(* (internal/database/condition.go) and what SQLite makes of them.  A      *)
(* condition is the sequence of its terms in the order they were added;    *)
(* the SQL text has no parentheses between them, so AND binds tighter than *)
(* OR.  A test gives every row a truth value of SQL, where NULL = x is     *)
(* neither true nor false.                                                 *)
(***************************************************************************)
EXTENDS Integers, Sequences

CONSTANT Info   \* the row id = 'info', which holds the schema version

Truth == {"true", "false", "null"}
Terms(rows) == [op : {"and", "or"}, test : [rows -> Truth]]

NoCondition == <<>>

\* append, with the operator left out before the first term.
Add(cond, op, test) ==
  Append(cond, [op |-> IF cond = <<>> THEN "and" ELSE op, test |-> test])

And(cond, test) == Add(cond, "and", test)   \* AndEqual, AndLike
Or(cond, test)  == Add(cond, "or", test)    \* OrEqual, OrLike

\* The terms between two ORs are one group; group i begins at term i.
GroupStarts(cond) == {i \in DOMAIN cond : i = 1 \/ cond[i].op = "or"}

Group(cond, i) ==
  {j \in DOMAIN cond : i <= j /\ \A k \in (i + 1)..j : cond[k].op = "and"}

\* Three-valued OR over the groups of three-valued ANDs; no terms mean "1".
Meaning(cond, row) ==
  LET IsTrue(i)  == \A j \in Group(cond, i) : cond[j].test[row] = "true"
      IsFalse(i) == \E j \in Group(cond, i) : cond[j].test[row] = "false"
  IN  IF cond = <<>> \/ (\E i \in GroupStarts(cond) : IsTrue(i)) THEN "true"
      ELSE IF \A i \in GroupStarts(cond) : IsFalse(i) THEN "false" ELSE "null"

Negation(v) == CASE v = "true" -> "false" [] v = "false" -> "true" [] OTHER -> v

\* A sub-condition is put in parentheses: it is a test like any other.
Sub(rows, cond)    == [r \in rows |-> Meaning(cond, r)]
NotSub(rows, cond) == [r \in rows |-> Negation(Meaning(cond, r))]

IsNotInfo(rows) == [r \in rows |-> IF r = Info THEN "false" ELSE "true"]

\* Mutant of Guarded: the sentinel is not excluded.
Unguarded(rows, cond) == cond

\* "WHERE id != 'info' AND " + cond.SQL(), one text without parentheses.
Guarded(rows, cond) == <<[op |-> "and", test |-> IsNotInfo(rows)]>> \o cond

Selected(rows, cond) == {r \in rows : Meaning(cond, r) = "true"}

-----------------------------------------------------------------------------
OnlyAnd(cond) == \A i \in DOMAIN cond : cond[i].op = "and"
=============================================================================
