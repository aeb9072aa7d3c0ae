------------------------------ MODULE IndexMap ------------------------------
(***************************************************************************)
(* What a caller of the B-tree index can count on: a map from keys to      *)
(* record ids in which an insertion overwrites nothing, and may push out   *)
(* one entry, be it an older one or the new one.  An index that was given  *)
(* a smaller order may also push out an entry before it looks for the key. *)
(***************************************************************************)
CONSTANTS Key, RecordId

VARIABLES entries, fits

vars == <<entries, fits>>

Init == entries = [k \in {} |-> RecordId] /\ fits = TRUE

\* No key, or one of the given ones.
AtMostOne(keys) == {{}} \cup {{k} : k \in keys}

\* The keys of the map, less what an insertion may push out before it looks for
\* its own.
KeysLeft(keys) == IF fits THEN {keys} ELSE {keys \ first : first \in AtMostOne(keys)}

\* An insertion of k: into the keys that are left, or refused because of them.
insert(k, before, after) ==
    \E left \in KeysLeft(DOMAIN before) :
        \/ /\ k \notin left
           /\ \E recordId \in RecordId : \E pushed \in AtMostOne(left \cup {k}) :
                after = [j \in (left \cup {k}) \ pushed |->
                            IF j = k THEN recordId ELSE before[j]]
        \/ /\ k \in left
           /\ after = [j \in left |-> before[j]]

Next ==
    \/ \E before \in {entries}, after \in {entries'} :
            /\ \E k \in Key : insert(k, before, after)
            /\ UNCHANGED fits
    \/ (fits' => fits) /\ UNCHANGED entries

Spec == Init /\ [][Next]_vars
=============================================================================
