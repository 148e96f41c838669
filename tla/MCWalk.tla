-------------------------------- MODULE MCWalk --------------------------------
(* AddressWalk over a dozen addresses, for TLC.                            *)
EXTENDS AddressWalk, TLC

\* A range at the bottom, one inside, and two adjacent ones at the top, as in
\* ReservedIPv4Ranges.
SmallRanges == {[start |-> 0, end |-> 1], [start |-> 4, end |-> 5],
                [start |-> 10, end |-> 10], [start |-> 11, end |-> 11]}

\* The halves of the hash, low and high, of the routable addresses 2, 3, 6, 7,
\* 8 and 9: every low value occurs, and both shards get some of each sample.
SmallLow  == [a \in 0..11 |-> <<0, 0, 0, 1, 0, 0, 2, 3, 1, 0, 0, 0>>[a + 1]]
SmallHigh == [a \in 0..11 |-> <<0, 0, 1, 0, 0, 0, 3, 2, 2, 0, 0, 0>>[a + 1]]

\* A --start that does not parse, and one in the middle.
SmallStarts == {Invalid, 3}
=============================================================================
