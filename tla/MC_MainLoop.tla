---------------------------- MODULE MC_MainLoop -----------------------------
(***************************************************************************)
(* Small instances of MainLoop for TLC.                                    *)
(***************************************************************************)
EXTENDS MainLoop

CONSTANTS n1, n2

(* One network, every screen, and a card that may be lost after USB.       *)
MCOneSsid    == {n1}
MCItems      == Items
MCUsbFaults  == {"mount", "load"}

(* Two networks, one of them open, and the screens that deal with them.    *)
MCTwoSsids   == {n1, n2}
MCOpen       == {n1}
MCWifiItems  == {"wifi", "about"}

MCNone       == {}
=============================================================================
