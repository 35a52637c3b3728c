--------------------------- MODULE CompareArrays ---------------------------
(***************************************************************************)
(* comparable.CompareArrays (utils/comparable/arrays.go): two lists are     *)
(* turned into maps by Key and the maps compared.  The results are lists in *)
(* the random order of Go's maps, here sets.                                *)
(***************************************************************************)
EXTENDS Integers, Sequences

CONSTANTS Key(_), Equal(_, _)   \* Comparable

Keys(items) == {Key(items[i]) : i \in DOMAIN items}

\* Mutant: the first of several items with one key stays in the map.
BugKeyGen(items) ==
    [k \in Keys(items) |->
        items[CHOOSE i \in DOMAIN items :
                 Key(items[i]) = k /\ \A j \in 1..(i - 1) : Key(items[j]) # k]]

\* Of several items with one key the last one stays in the map.
keyGen(items) ==
    [k \in Keys(items) |->
        items[CHOOSE i \in DOMAIN items :
                 Key(items[i]) = k /\ \A j \in (i + 1)..Len(items) : Key(items[j]) # k]]

CompareArrays(oldSet, newSet) ==
    LET oldMap == keyGen(oldSet)
        newMap == keyGen(newSet)
        common == DOMAIN oldMap \cap DOMAIN newMap
    IN  [added   |-> {newMap[k] : k \in DOMAIN newMap \ DOMAIN oldMap},
         deleted |-> {oldMap[k] : k \in DOMAIN oldMap \ DOMAIN newMap},
         changed |-> {[old |-> oldMap[k], new |-> newMap[k]] :
                         k \in {k \in common : ~Equal(oldMap[k], newMap[k])}}]

IsChanged(diff) == diff.added # {} \/ diff.deleted # {} \/ diff.changed # {}
=============================================================================
