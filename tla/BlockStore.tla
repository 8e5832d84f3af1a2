----------------------------- MODULE BlockStore -----------------------------
(***************************************************************************)
(* What the USB disk promises its host: a block store that works on one    *)
(* command at a time, with no cache, no lines and no packets.  While a     *)
(* command is outstanding the store changes only as that command says, and *)
(* the answer to it tells how much of it was done.                         *)
(***************************************************************************)
EXTENDS Integers, Sequences

CONSTANTS Blocks, Data, Nothing

VARIABLES
    store,    \* the blocks
    doubt,    \* blocks a failed write may or may not have changed
    req,      \* the outstanding command, or Nothing
    moved,    \* its blocks sent by or delivered to the host so far
    answer    \* the status the host is about to see, or Nothing

storeVars == <<store, doubt, req, moved, answer>>

Addressed(k) == req.lba + k - 1

Init ==
    /\ store \in [Blocks -> Data] /\ doubt = {}
    /\ req = Nothing /\ moved = <<>> /\ answer = Nothing

Ask ==
    /\ req = Nothing /\ req' # Nothing /\ moved' = <<>>
    /\ UNCHANGED <<store, doubt, answer>>

Move ==
    /\ req # Nothing /\ req.op \in {"read", "write"}
    /\ Len(moved) < req.n
    /\ \E d \in Data : moved' = Append(moved, d)
    /\ UNCHANGED <<store, doubt, req, answer>>

(* A write stores some of the blocks the host has sent; one that fails     *)
(* leaves in doubt what it was storing.                                    *)
Store ==
    /\ req # Nothing /\ req.op = "write" /\ answer = Nothing
    /\ \E S \in SUBSET (1 .. Len(moved)) :
        /\ store' = [b \in Blocks |->
                        IF \E k \in S : b = Addressed(k)
                        THEN moved[b - req.lba + 1] ELSE store[b]]
        /\ doubt' \in {doubt \ {Addressed(k) : k \in S},
                       doubt \cup {Addressed(k) : k \in S}}
    /\ UNCHANGED <<req, moved, answer>>

(* Nobody waits: the owner changes the store, or a forgotten write ends.   *)
Unobserved ==
    /\ req = Nothing
    /\ store' \in [Blocks -> Data] /\ doubt' \in SUBSET Blocks
    /\ UNCHANGED <<req, moved, answer>>

(* The host is told that all but `residue` blocks were transferred.        *)
Answer(status, residue) ==
    /\ req # Nothing /\ answer = Nothing
    /\ answer' = [status |-> status, residue |-> residue]
    /\ status = "passed" => residue = 0
    /\ LET done == req.n - residue
           kept(k) == moved[k] = store[Addressed(k)]
       IN  /\ req.op = "read" =>
                /\ done = Len(moved)
                /\ \A k \in 1 .. done : kept(k) \/ Addressed(k) \in doubt
           /\ req.op = "write" =>
                /\ done <= Len(moved)
                /\ \A k \in 1 .. done : kept(k)
    /\ UNCHANGED <<store, doubt, req, moved>>

(* The host takes the answer, loses its device or resets it.               *)
Close ==
    /\ req # Nothing
    /\ req' = Nothing /\ moved' = <<>> /\ answer' = Nothing
    /\ UNCHANGED <<store, doubt>>

Next ==
    \/ Ask \/ Move \/ Store \/ Unobserved \/ Close
    \/ /\ req # Nothing
       /\ \E status \in {"passed", "failed", "phase_error"}, residue \in 0 .. req.n :
             Answer(status, residue)

Spec == Init /\ [][Next]_storeVars
=============================================================================
