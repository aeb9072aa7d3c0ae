------------------------------ MODULE MCTable ------------------------------
(* Table for TLC: a textual primary key and a UNIQUE number that may be     *)
(* empty; two numbers and a text with a comma as values.                    *)
EXTENDS Table

Id  == [name |-> "id",  type |-> "STRING", pk |-> TRUE,  unique |-> TRUE,  notNull |-> TRUE]
Tag == [name |-> "tag", type |-> "INT",    pk |-> FALSE, unique |-> TRUE,  notNull |-> FALSE]

MCColumnDef == {Id, Tag}

MCNumber == {<<"1">>, <<"2">>}

MCValue == MCNumber \cup {Empty, <<"2", "1">>}
=============================================================================
