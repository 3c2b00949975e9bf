------------------------------ MODULE MCSection ------------------------------
(* An instance of Section for TLC: a disc of eight sectors with two bad
   ranges, one at each end. *)
EXTENDS Section

Hand(by, back, at) == [technique |-> by, reverse |-> back, speed |-> at]

SomeRanges == <<Span(0, 2), Span(4, 4)>>
SomeTiers == <<
    {Hand("bisect", FALSE, "max"), Hand("jump", FALSE, "max")},
    {Hand("linear", TRUE, "max")},
    {Hand("cacheprime", FALSE, "max"), Hand("oscillate", FALSE, "min"),
     Hand("speedsweep", FALSE, "max")}>>
SomeModes == {[flat |-> FALSE, reports |-> TRUE], [flat |-> FALSE, reports |-> FALSE],
              [flat |-> TRUE, reports |-> TRUE]}
=============================================================================
