---------------------------- MODULE MC_Watchdog -----------------------------
(* The watchdog in ticks of 5 s: windows of 15 and 25 s, passes of up to   *)
(* 10 s, blocking steps of up to 20 s (the stall self-test).               *)
EXTENDS Watchdog

MCNormal    == 3
MCSlow      == 5
MCPassTime  == 2
MCBlockTime == 4

=============================================================================
