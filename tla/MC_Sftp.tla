------------------------------ MODULE MC_Sftp -------------------------------
(***************************************************************************)
(* Small instances of Sftp for TLC.                                        *)
(***************************************************************************)
EXTENDS Sftp

CONSTANTS a, b, x, zero

MCOneName  == {a}
MCTwoNames == {a, b}
MCPayload  == {x}

MCCreates   == {"read", "write", "creat"}
MCFileFlags == {{"read"}, MCCreates, {"write", "append"}, {"write", "trunc"},
                {"write", "creat", "excl"}}

MCRequestFlags == {MCCreates, {"write", "append"}}
MCRequestKinds ==
    {"query", "open", "close", "read", "write", "oversized", "fsetstat"}

MCSessionKinds == {"open", "read", "write", "rename"}
=============================================================================
