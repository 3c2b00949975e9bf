------------------------------- MODULE MCSweep -------------------------------
(* Instances of Sweep for TLC: a disc of five sectors of four units. *)
EXTENDS Sweep

\* A new map, and two a foreign tool left: gaps, ranges that end inside
\* sectors, two untried ranges in one sector, lines out of order.
Foreign == {Run(6, 3, "NonTrimmed"), Run(0, 2, "Finished"), Run(11, 9, "Finished")}
Ragged == {Run(0, 5, "Finished"), Run(6, 1, "Finished"), Run(7, 5, "NonTried"),
           Run(12, 4, "NonScraped"), Run(16, 4, "Unreadable")}
SomeMapFiles == {Created, Foreign, Ragged}

\* Extents that share a sector and overlap, one of them past the disc's end.
Extents == {Range1(12, 4), Range1(4, 4), Range1(4, 6), Range1(21, 3)}
SomeScopes == {Whole, Extents}
SomeSkips == {{}, {Range1(8, 4)}}
=============================================================================
