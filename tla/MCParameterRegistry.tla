------------------------ MODULE MCParameterRegistry ------------------------
(* A small instance of ParameterRegistry for TLC: a number with an input,  *)
(* a choice with a page, enough parameters of the sketch to fill the       *)
(* array, and two that are never registered.                               *)
EXTENDS ParameterRegistry, TLC

CONSTANTS number, choice, plain, malformed, invalid

TestId == {number, choice, malformed, invalid} \cup plain
TestDefault == [id \in Id |-> IF id = invalid THEN Blank ELSE "fits"]

\* A long number is cut to one that is out of range.
TestAccepts == [id \in Id |->
    IF id = number THEN {"fits", "other", "long"}
    ELSE IF id = choice THEN {"fits", "other"} ELSE {"fits"}]
TestCut == [id \in Id |-> [v \in Value |->
    IF id = number /\ v = "long" THEN "short" ELSE v]]
TestOrder == [id \in Id |-> IF id = number THEN 1 ELSE 0]
TestPortal == [id \in Id |-> CASE id = number -> "input"
                               [] id = choice -> "select"
                               [] OTHER -> "none"]
TestEntity == [id \in Id |-> IF id \in {number, choice} THEN "typed"
                             ELSE "untyped"]
TestOptions == [id \in Id |-> IF id = choice THEN <<"fits", "other">> ELSE << >>]
TestRedefinitions == {<<number, "long">>}

Symmetry == Permutations(plain)
=============================================================================
