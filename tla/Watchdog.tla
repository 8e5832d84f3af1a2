------------------------------ MODULE Watchdog ------------------------------
(***************************************************************************)
(* The RTC watchdog (src/src/watchdog.rs) and the main loop that feeds it  *)
(* (src/src/main.rs): its two windows, its history of resets, and the      *)
(* console's WDT commands.                                                 *)
(*                                                                         *)
(* Time passes in ticks.  A pass of the loop takes some ticks of work that *)
(* does not block, and may hold steps that are meant to block (a radio     *)
(* step, the stall self-test), each under a SlowWindow guard.  Anything    *)
(* that never returns is a hang.                                           *)
(*                                                                         *)
(* The definitions named Wrong... are mutants: each is what the definition *)
(* that follows it would be with one plausible bug.  Nothing uses them.    *)
(***************************************************************************)
EXTENDS Integers

CONSTANTS
    Normal,     \* NORMAL_WINDOW, in ticks
    Slow,       \* SLOW_WINDOW
    PassTime,   \* bound: the work of one pass, without its blocking steps
    BlockTime,  \* bound: one blocking step
    MaxResets   \* where the count of watchdog resets saturates

(* What the two windows were chosen for: see the comments on them.         *)
ASSUME WindowAssumption ==
    /\ {Normal, Slow, PassTime, BlockTime, MaxResets} \subseteq Nat
    /\ PassTime < Normal
    /\ BlockTime < Slow

VARIABLES
    step,      \* what the processor does
    spent,     \* ticks this pass has worked
    blocked,   \* ticks this blocking step has taken
    armed,     \* Watchdog.armed
    window,    \* Watchdog.window
    enabled,   \* hardware: the counter of stage 0 runs
    hold,      \* hardware: the count at which it resets the chip
    counter,   \* hardware: the count
    cause,     \* hardware: why the chip was last reset
    retained,  \* HISTORY_MAGIC_WORD, PREVIOUS_CAUSE, WATCHDOG_RESETS
    shown,     \* Watchdog.previous_cause and Watchdog.watchdog_resets
    before,    \* history: the cause of the reset before that, since power-on
    bites,     \* history: resets by the watchdog since power-on
    missed     \* history: since power-on, a boot ended before it was recorded

program  == <<step, spent, blocked>>
driver   == <<armed, window>>
hardware == <<enabled, hold, counter>>
history  == <<cause, retained, shown, before, bites, missed>>
vars     == <<program, driver, hardware, history>>

Steps  == {"boot", "pass", "block", "hung"}
Resets == {"power_on", "usb_uart", "software"}
Causes == Resets \cup {"watchdog"}

Saturated(n) == IF n < MaxResets THEN n + 1 ELSE n

Blank == [magic |-> FALSE, previous |-> "none", resets |-> 0]

Init ==
    /\ step = "boot" /\ spent = 0 /\ blocked = 0
    /\ armed = FALSE /\ window = Normal
    /\ enabled = FALSE /\ hold = Normal /\ counter = 0
    /\ cause = "power_on" /\ retained = Blank
    /\ shown = [previous |-> "none", resets |-> 0]
    /\ before = "none" /\ bites = 0 /\ missed = FALSE

-----------------------------------------------------------------------------
(* The driver.                                                             *)

(* MUTANT: the hold register is written and the counter goes on. *)
WrongProgram(w) ==
    hold' = w /\ window' = w /\ UNCHANGED counter

(* program: writing the hold register alone leaves the counter running.    *)
Program(w) == hold' = w /\ counter' = 0 /\ window' = w

(* MUTANT: the counter is fed before it is enabled, and never enabled. *)
WrongArm ==
    armed' = TRUE /\ Program(Normal) /\ UNCHANGED enabled

Arm == enabled' = TRUE /\ Program(Normal) /\ armed' = TRUE

Disarm == enabled' = FALSE /\ armed' = FALSE /\ UNCHANGED <<hold, counter, window>>

(* MUTANT: the history is taken for blank at every boot. *)
WrongRecorded ==
    [previous |-> "none",
     resets |-> IF cause = "watchdog" THEN 1 ELSE 0]

(* record_boot: what it returns; with this boot's cause it keeps the count.*)
(* Memory that is not of this firmware counts as blank.                    *)
Recorded ==
    LET kept == IF retained.magic THEN retained ELSE Blank
    IN  [previous |-> kept.previous,
         resets |-> IF cause = "watchdog" THEN Saturated(kept.resets) ELSE kept.resets]

(* Everything is up: Watchdog::new, arm, and the loop begins.              *)
Boot ==
    /\ step = "boot"
    /\ step' = "pass" /\ spent' = 0 /\ blocked' = 0
    /\ retained' = [magic |-> TRUE, previous |-> cause, resets |-> Recorded.resets]
    /\ shown' = Recorded
    /\ Arm
    /\ UNCHANGED <<cause, before, bites, missed>>

(* The loop begins its next pass.                                          *)
Feed ==
    /\ step = "pass"
    /\ spent' = 0
    /\ counter' = IF armed THEN 0 ELSE counter
    /\ UNCHANGED <<step, blocked, driver, enabled, hold, history>>

SlowBegins ==
    /\ step = "pass"
    /\ step' = "block" /\ blocked' = 0
    /\ IF armed THEN Program(Slow) ELSE UNCHANGED <<hold, counter, window>>
    /\ UNCHANGED <<spent, armed, enabled, history>>

(* MUTANT: the guard is dropped without restoring the window. *)
WrongSlowEnds ==
    /\ step = "block"
    /\ step' = "pass"
    /\ UNCHANGED <<spent, blocked, driver, hardware, history>>

(* SlowWindow::drop.                                                       *)
SlowEnds ==
    /\ step = "block"
    /\ step' = "pass"
    /\ IF armed THEN Program(Normal) ELSE UNCHANGED <<hold, counter, window>>
    /\ UNCHANGED <<spent, blocked, armed, enabled, history>>

(* WDT ON and WDT OFF, handled in a pass and so never in a SlowWindow.     *)
WdtOn ==
    /\ step = "pass" /\ ~armed
    /\ Arm
    /\ UNCHANGED <<program, history>>

WdtOff ==
    /\ step = "pass"
    /\ Disarm
    /\ UNCHANGED <<program, history>>

-----------------------------------------------------------------------------
(* Hangs, time, and resets.                                                *)

(* A call that never returns, meant to block or not; WDT FREEZE is one.    *)
Hang ==
    /\ step \in {"pass", "block"}
    /\ step' = "hung"
    /\ UNCHANGED <<spent, blocked, driver, hardware, history>>

Counted == counter' = IF enabled /\ counter < hold THEN counter + 1 ELSE counter

Works ==
    /\ step = "pass" /\ spent < PassTime
    /\ spent' = spent + 1 /\ Counted
    /\ UNCHANGED <<step, blocked, driver, enabled, hold, history>>

Blocks ==
    /\ step = "block" /\ blocked < BlockTime
    /\ blocked' = blocked + 1 /\ Counted
    /\ UNCHANGED <<step, spent, driver, enabled, hold, history>>

Hangs ==
    /\ step = "hung" /\ enabled /\ counter < hold
    /\ Counted
    /\ UNCHANGED <<program, driver, enabled, hold, history>>

(* The chip starts again.  The boot loader turns the watchdog off, and the *)
(* start-up code zeroes the retained words after power-on only.            *)
Restarts(c) ==
    /\ step' = "boot" /\ spent' = 0 /\ blocked' = 0
    /\ enabled' = FALSE /\ counter' = 0 /\ hold' = Normal
    /\ armed' = FALSE /\ window' = Normal
    /\ cause' = c
    /\ before' = IF c = "power_on" THEN "none" ELSE cause
    /\ missed' = (c # "power_on" /\ (missed \/ step = "boot"))
    /\ retained' = IF c = "power_on" THEN Blank ELSE retained
    /\ UNCHANGED shown

(* The battery is switched, a terminal toggles the control lines, or the   *)
(* console's REBOOT resets the chip.                                       *)
Reset(c) ==
    /\ c = "software" => step = "pass"
    /\ Restarts(c)
    /\ bites' = IF c = "power_on" THEN 0 ELSE bites

Bite ==
    /\ enabled /\ counter >= hold
    /\ Restarts("watchdog")
    /\ bites' = Saturated(bites)

-----------------------------------------------------------------------------
Next ==
    \/ Boot \/ Feed \/ SlowBegins \/ SlowEnds \/ WdtOn \/ WdtOff
    \/ Hang \/ Works \/ Blocks \/ Hangs
    \/ Bite
    \/ \E c \in Resets : Reset(c)

Spec == Init /\ [][Next]_vars

(* Time passes for a program that hangs, and the hardware does its work.   *)
FairSpec == Spec /\ WF_vars(Hangs) /\ WF_vars(Bite)

-----------------------------------------------------------------------------
(* Type correctness: every variable keeps its shape.                       *)
TypeOK ==
    /\ step \in Steps /\ spent \in 0 .. PassTime /\ blocked \in 0 .. BlockTime
    /\ armed \in BOOLEAN /\ window \in {Normal, Slow}
    /\ enabled \in BOOLEAN /\ hold \in {Normal, Slow} /\ counter \in Nat
    /\ cause \in Causes /\ before \in Causes \cup {"none"}
    /\ retained \in [magic : BOOLEAN, previous : Causes \cup {"none"}, resets : 0 .. MaxResets]
    /\ shown \in [previous : Causes \cup {"none"}, resets : 0 .. MaxResets]
    /\ bites \in 0 .. MaxResets /\ missed \in BOOLEAN

(* Only a hang is ever reset: no run of passes, blocking steps and WDT     *)
(* commands lets the counter reach the window in force, be it that a long  *)
(* step ends and the window narrows around a counter that has run (the     *)
(* feed in program).                                                       *)
OnlyHangsAreReset == enabled /\ counter >= hold => step = "hung"

(* The wide window is in force in a blocking step and nowhere else, so     *)
(* that a hang of the loop is not given a blocking step's time; what       *)
(* STATUS reports as window_s is what the hardware has.                    *)
WindowFits ==
    enabled => /\ step = "pass" => hold = Normal
               /\ step = "block" => hold = Slow
               /\ window = hold

(* A hang is reset, unless WDT OFF has disarmed the watchdog.              *)
HangIsReset == (step = "hung" /\ armed) ~> step = "boot"

(* After any number of resets in any order, the history tells the cause of *)
(* the reset before the last one and the number of watchdog resets since   *)
(* power-on, unless a boot ended before it was recorded (record_boot runs  *)
(* when everything is up, and a reset before then leaves no trace).        *)
HistoryTells ==
    step # "boot" /\ ~missed => shown = [previous |-> before, resets |-> bites]

=============================================================================
