-------------------------------- MODULE ExcUiMC -------------------------------
(* Instances of ExcUi for TLC. *)
EXTENDS ExcUi

(* The lowest free addresses, which have been used before, or the highest.  *)
Nth(free, j) == CHOOSE a \in free : Cardinality({b \in free : b < a}) = j - 1
Ends(used, n) ==
    LET free == Addr \ used
        size == Cardinality(free)
    IN  IF n > size THEN {}
        ELSE {[j \in 1..n |-> Nth(free, j)], [j \in 1..n |-> Nth(free, size + 1 - j)]}

SomeAddr  == 1..8
SomeLists == {<<<<"sum">>>>,
              <<<<"sum">>, <<"base1", "parse1", "stack1">>>>,
              <<<<"sum">>, <<"base1">>, <<"parse1", "stack1">>>>}
=============================================================================
