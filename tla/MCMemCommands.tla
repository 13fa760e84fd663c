--------------------------- MODULE MCMemCommands -----------------------------
(* The boards on which MemCommands is checked: the one of the repository,  *)
(* and ones with more ranks, with mirrored and with skipped ranks, at      *)
(* write latencies that take each of the three cases of the write test.    *)
EXTENDS MemCommands

Board(n, m, mirr, skip, vgs, w) ==
    [ranks |-> n, perModule |-> m, mirrored |-> mirr, skipped |-> skip,
     virtualGroups |-> vgs, wl |-> w]

BoardsDef ==
    {Board(1, 1, {}, {}, 1, w) : w \in {0, 1, 2, 8}}
    \cup {Board(2, 1, {}, {}, 2, 8), Board(2, 1, {1}, {0}, 1, 8),
          Board(2, 1, {0, 1}, {1}, 1, 8), Board(2, 2, {1}, {}, 1, 5),
          Board(4, 2, {1, 3}, {2}, 1, 8)}

Tinit == <<2, 1, 3>>
Treset == <<3, 2, 1>>
=============================================================================
