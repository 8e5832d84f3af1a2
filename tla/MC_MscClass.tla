---------------------------- MODULE MC_MscClass -----------------------------
(***************************************************************************)
(* Small instances of MscClass for TLC.                                    *)
(***************************************************************************)
EXTENDS MscClass, TLC

CONSTANTS d0, d1

MCData == {d0, d1}

DataSymmetry == Permutations(MCData)

(* Three blocks in lines of two, so that the last line is cut short and a  *)
(* read of three blocks streams: a pair across two lines, the whole card,  *)
(* and a pair past its end; and a write with a pair to leave behind.       *)
MCWideExtents  == {<<1, 2>>, <<0, 3>>, <<2, 2>>}
MCShortExtents == {<<0, 2>>, <<1, 1>>}

(* Two blocks in one line: an empty transfer, both, and one past the end.  *)
MCReplyExtents == {<<0, 0>>, <<0, 2>>, <<1, 2>>}

MCCacheOps  == MediaOps
MCAllOps    == AllOps
MCAllFaults == {"csd", "read", "write", "torn"}
MCNoFaults  == {}
=============================================================================
