---------------------------- MODULE SftpService -----------------------------
(***************************************************************************)
(* What an SFTP client may rely on, whatever the server does with files:   *)
(* every request gets one reply, replies come in the order of the          *)
(* requests, and the units a DATA reply announces all arrive before the    *)
(* next reply does.  Either side may end the session.                      *)
(***************************************************************************)
EXTENDS Naturals, Sequences

CONSTANTS Ids, MaxRead

VARIABLES
    asked,     \* the requests that have no reply yet, oldest first
    expects    \* units of a DATA reply still to come

serviceVars == <<asked, expects>>

Init == asked = <<>> /\ expects = 0

Ask ==
    /\ \E id \in Ids : asked' = Append(asked, id)
    /\ UNCHANGED expects

Answer ==
    /\ asked # <<>> /\ expects = 0
    /\ asked' = Tail(asked)
    /\ expects' \in 0 .. MaxRead

Deliver ==
    /\ expects' \in 0 .. expects /\ expects' # expects
    /\ UNCHANGED asked

HangUp == asked' = <<>> /\ expects' = 0

Next == Ask \/ Answer \/ Deliver \/ HangUp

Spec == Init /\ [][Next]_serviceVars
=============================================================================
