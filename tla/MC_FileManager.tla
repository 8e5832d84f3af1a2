--------------------------- MODULE MC_FileManager ---------------------------
(***************************************************************************)
(* Small instances of FileManager for TLC.                                 *)
(***************************************************************************)
EXTENDS FileManager

CONSTANTS a, b, c

MCNames == {a, b, c}
MCTyped == {a, b}
MCContent == {1, 2}

File(data) == [Node("file") EXCEPT !.data = data]
Dir(items) == [Node("dir") EXCEPT !.items = items]

(* A directory with a file to copy next to a list of two pages, one that   *)
(* is too deep to be copied, and one that was never initialised.           *)
MCTrees ==
    { (<<>> :> Dir(<<a, b, c>>)) @@ (<<a>> :> Dir(<<b>>)) @@ (<<a, b>> :> File(<<1, 2>>))
        @@ (<<b>> :> Dir(<<>>)) @@ (<<c>> :> File(<<>>)),
      (<<>> :> Dir(<<a, b>>)) @@ (<<a>> :> Dir(<<a>>)) @@ (<<a, a>> :> Dir(<<b>>))
        @@ (<<a, a, b>> :> Dir(<<>>)) @@ (<<b>> :> Dir(<<>>)),
      (<<>> :> Dir(<<a, b>>)) @@ (<<a>> :> File(<<1>>)) @@ (<<b>> :> Node("broken")) }
=============================================================================
