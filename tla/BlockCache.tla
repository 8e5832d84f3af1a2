----------------------------- MODULE BlockCache -----------------------------
(***************************************************************************)
(* The read cache of the USB mass-storage class (struct BlockCache in      *)
(* src/src/msc.rs): CACHE_LINES least-recently-used lines for small reads  *)
(* and one more line, STREAM_LINE, for large reads and for all writes.     *)
(*                                                                         *)
(* A line is the function from the blocks it holds to their contents: its  *)
(* domain stands for the fields `start` and `len`, and the empty function  *)
(* for a line whose `valid` flag is false.                                 *)
(*                                                                         *)
(* `last_used` only ever serves to compare two LRU lines, so recency is    *)
(* the relation `older`, the pairs <<i, j>> with                           *)
(* lines[i].last_used < lines[j].last_used.                                *)
(***************************************************************************)
EXTENDS Integers, FiniteSets

CONSTANTS
    LineBlocks,   \* LINE_BLOCKS, blocks in a cache line
    CacheLines,   \* CACHE_LINES, number of LRU lines
    CardBlocks,   \* capacity of the card, in blocks
    Data          \* the contents a block may have

ASSUME CacheAssumption ==
    /\ LineBlocks \in Nat \ {0}
    /\ CacheLines \in Nat \ {0}
    /\ CardBlocks \in Nat \ {0}
    /\ Data # {}

Blocks == 0 .. CardBlocks - 1
LruLines == 0 .. CacheLines - 1
StreamLine == CacheLines
Slots == 0 .. CacheLines

EmptyLine == [b \in {} |-> {}]

(* The definitions named Wrong... are mutants: each is what the definition *)
(* that follows it would be with one plausible bug.  Nothing uses them.    *)

(* The blocks a line holds once it is filled for block b: from the aligned *)
(* start of b, cut short by the end of the card.                           *)
Span(b) == {x \in Blocks : x \div LineBlocks = b \div LineBlocks}

Extent == {{}} \cup {Span(b) : b \in Blocks}
Line == UNION {[E -> Data] : E \in Extent}

Holds(line, b) == b \in DOMAIN line

EmptyCache == [i \in Slots |-> EmptyLine]

(* `find`: the first line that holds the block, if one does.               *)
Hits(lines, b) ==
    {i \in Slots : /\ Holds(lines[i], b)
                   /\ \A j \in Slots : j < i => ~Holds(lines[j], b)}

(* What `find` and a fill do to `last_used`: line i becomes the newest.    *)
Touch(older, i) ==
    IF i = StreamLine THEN older
    ELSE {p \in older : p[1] # i} \cup ((LruLines \ {i}) \X {i})

(* `victim`, as the set of the one line it returns: the stream line for a  *)
(* large transfer, else the first invalid LRU line, else the first of the  *)
(* oldest ones.                                                            *)
Victims(lines, older, streaming) ==
    LET first(S) == {i \in S : \A j \in S : i <= j}
        invalid  == {i \in LruLines : DOMAIN lines[i] = {}}
        oldest   == {i \in LruLines : \A j \in LruLines : <<j, i>> \notin older}
    IN  IF streaming THEN {StreamLine}
        ELSE IF invalid # {} THEN first(invalid)
        ELSE first(oldest)

Invalidated(lines, i) == [lines EXCEPT ![i] = EmptyLine]

Filled(lines, i, b, card) == [lines EXCEPT ![i] = [x \in Span(b) |-> card[x]]]

WrongUpdateButLast(lines, written) ==
    [i \in Slots |->
        IF i = StreamLine THEN lines[i]
        ELSE [b \in DOMAIN lines[i] |->
                IF b \in DOMAIN written /\ b + 1 \in DOMAIN written
                THEN written[b] ELSE lines[i][b]]]

(* `update_from_stream`: every LRU line takes over the blocks just written.*)
UpdatedFromStream(lines, written) ==
    [i \in Slots |->
        IF i = StreamLine THEN lines[i]
        ELSE [b \in DOMAIN lines[i] |->
                IF b \in DOMAIN written THEN written[b] ELSE lines[i][b]]]
=============================================================================
