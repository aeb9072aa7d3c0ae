---------------------------- MODULE MCCondition -----------------------------
(* Condition for TLC: texts that the three readings order differently, a    *)
(* column of each type, and single conditions of every kind.                *)
EXTENDS Condition

\* In the order of bytes.
Ordered ==
    <<"", "'')", "'2024-01-01')", "'A')", "10", "10)", "2", "2)", "2024-01-01", "99", "99)",
      "A", "a", "a)">>

Texts == {Ordered[i] : i \in DOMAIN Ordered}
Dates == {"2024-01-01"}
Whole == {"2", "10", "99"}

\* 99 stands for a number that is too large for an INT and not for a BIGINT;
\* of a text that starts with digits the number is what they say.
Numbers ==
    [t \in Texts |-> CASE t \in {"2", "2)"} -> 2 [] t \in {"10", "10)"} -> 10
                       [] t \in {"99", "99)"} -> 99 [] t = "2024-01-01" -> 2024
                       [] OTHER -> NoNumber]

Places == [t \in Texts |-> CHOOSE i \in DOMAIN Ordered : Ordered[i] = t]

Uppers == [t \in Texts |-> IF t = "a" THEN Places["A"] ELSE Places[t]]

Types == [i |-> "INT", l |-> "BIGINT", s |-> "STRING", d |-> "DATE"]

\* A value that is written without quotes, and one that is written in quotes.
Cond(c, op, v, closed) == [column |-> c, op |-> op, value |-> v, closed |-> closed]

Singles ==
    { Cond("i", "=", "2", "2)"), Cond("i", "=", "", "'')"), Cond("i", "!=", "99", "99)"),
      Cond("l", ">", "10", "10)"), Cond("s", "<=", "A", "'A')"),
      Cond("d", "=", "2024-01-01", "'2024-01-01')"), Cond("z", "=", "2", "2)") }

\* A parenthesis may open before a condition, and close behind it; NOT stands
\* before a condition without parentheses, or alone in them.
Plain == [open |-> FALSE, close |-> FALSE, negated |-> FALSE]

Marks ==
    { Plain, [Plain EXCEPT !.open = TRUE], [Plain EXCEPT !.close = TRUE],
      [open |-> TRUE, close |-> TRUE, negated |-> TRUE] }
=============================================================================
