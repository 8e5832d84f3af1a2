--------------------------- MODULE WatchdogProofs ---------------------------
(***************************************************************************)
(* Proofs about Watchdog, for every two windows and every bound on a pass  *)
(* and on a blocking step that leaves them room.                           *)
(*                                                                         *)
(* OnlyHangsAreReset is not inductive: the count must be known to stay     *)
(* behind the time the program has taken, which program()'s feed and the   *)
(* agreement of the driver with the hardware keep up.  Nor is HistoryTells:*)
(* while the chip boots, it is a fact about what will be recorded.         *)
(***************************************************************************)
EXTENDS Watchdog, TLAPS

(* Types.                                                                  *)

LEMMA WindowTypes ==
    /\ Normal \in Nat /\ Slow \in Nat /\ MaxResets \in Nat
    /\ PassTime \in Nat /\ BlockTime \in Nat
    /\ PassTime < Normal /\ BlockTime < Slow
  BY WindowAssumption

USE WindowTypes

(* What record_boot works out has its types.                               *)
LEMMA RecordedType ==
    ASSUME TypeOK
    PROVE  Recorded \in [previous : Causes \cup {"none"}, resets : 0 .. MaxResets]
  BY DEF TypeOK, Recorded, Blank, Saturated

(* Type correctness, for every window and bound.                           *)
THEOREM TypesHold == Spec => []TypeOK
  <1>1. Init => TypeOK
    <2> SUFFICES ASSUME Init PROVE TypeOK
      OBVIOUS
    <2>1. cause \in Causes /\ before \in Causes \cup {"none"}
      BY DEF Init, Causes, Resets
    <2>2. /\ retained \in [magic : BOOLEAN, previous : Causes \cup {"none"},
                           resets : 0 .. MaxResets]
          /\ shown \in [previous : Causes \cup {"none"}, resets : 0 .. MaxResets]
      BY DEF Init, Blank
    <2>3. spent \in 0 .. PassTime /\ blocked \in 0 .. BlockTime /\ counter \in Nat
          /\ bites \in 0 .. MaxResets
      BY DEF Init
    <2>4. /\ step \in Steps /\ window \in {Normal, Slow} /\ hold \in {Normal, Slow}
          /\ armed \in BOOLEAN /\ enabled \in BOOLEAN /\ missed \in BOOLEAN
      BY Zenon DEF Init, Steps
    <2> QED
      BY <2>1, <2>2, <2>3, <2>4, Zenon DEF TypeOK
  <1>2. TypeOK /\ [Next]_vars => TypeOK'
    <2> SUFFICES ASSUME TypeOK, [Next]_vars PROVE TypeOK'
      OBVIOUS
    <2>1. CASE Boot
      <3>1. retained' \in [magic : BOOLEAN, previous : Causes \cup {"none"},
                           resets : 0 .. MaxResets]
        BY <2>1, RecordedType DEF Boot, TypeOK
      <3>2. shown' \in [previous : Causes \cup {"none"}, resets : 0 .. MaxResets]
        BY <2>1, RecordedType DEF Boot
      <3>3. UNCHANGED <<cause, before, bites, missed>>
        BY <2>1 DEF Boot
      <3>4. /\ step' \in Steps /\ spent' \in 0 .. PassTime /\ blocked' \in 0 .. BlockTime
            /\ armed' \in BOOLEAN /\ window' \in {Normal, Slow}
            /\ enabled' \in BOOLEAN /\ hold' \in {Normal, Slow} /\ counter' \in Nat
        BY <2>1 DEF Boot, Arm, Program, Steps
      <3> QED
        BY <3>1, <3>2, <3>3, <3>4 DEF TypeOK
    <2>2. CASE Feed \/ SlowBegins \/ SlowEnds \/ WdtOn \/ WdtOff \/ Hang
      <3>1. UNCHANGED history
        BY <2>2 DEF Feed, SlowBegins, SlowEnds, WdtOn, WdtOff, Hang
      <3>2. 0 \in 0 .. PassTime /\ 0 \in 0 .. BlockTime /\ 0 \in Nat
        OBVIOUS
      <3>3. spent' \in {spent, 0} /\ blocked' \in {blocked, 0} /\ counter' \in {counter, 0}
        BY <2>2, Zenon
        DEF Feed, SlowBegins, SlowEnds, WdtOn, WdtOff, Hang, Arm, Disarm, Program,
            program, driver, hardware
      <3>4. /\ step' \in Steps /\ window' \in {Normal, Slow} /\ hold' \in {Normal, Slow}
            /\ armed' \in BOOLEAN /\ enabled' \in BOOLEAN
        BY <2>2, Zenon
        DEF Feed, SlowBegins, SlowEnds, WdtOn, WdtOff, Hang, Arm, Disarm, Program,
            TypeOK, Steps, program, driver, hardware
      <3> QED
        BY <3>1, <3>2, <3>3, <3>4, Zenon DEF history, TypeOK
    <2>3. CASE Works \/ Blocks \/ Hangs
      BY <2>3 DEF Works, Blocks, Hangs, Counted, TypeOK, program, driver, history
    <2>4. ASSUME NEW c \in Causes, Restarts(c), bites' \in 0 .. MaxResets PROVE TypeOK'
      <3>1. /\ retained' \in [magic : BOOLEAN, previous : Causes \cup {"none"},
                              resets : 0 .. MaxResets]
            /\ before' \in Causes \cup {"none"} /\ missed' \in BOOLEAN
        BY <2>4 DEF Restarts, TypeOK, Blank
      <3>2. spent' \in 0 .. PassTime /\ blocked' \in 0 .. BlockTime /\ counter' \in Nat
        BY <2>4 DEF Restarts
      <3>3. /\ step' \in Steps /\ window' \in {Normal, Slow} /\ hold' \in {Normal, Slow}
            /\ armed' \in BOOLEAN /\ enabled' \in BOOLEAN /\ cause' \in Causes
            /\ shown' = shown
        BY <2>4, Zenon DEF Restarts, Steps
      <3> QED
        BY <2>4, <3>1, <3>2, <3>3, Zenon DEF TypeOK
    <2>5. CASE Bite
      BY <2>4, <2>5 DEF Bite, Saturated, Causes, TypeOK
    <2>6. CASE \E c \in Resets : Reset(c)
      BY <2>4, <2>6 DEF Reset, Causes, TypeOK
    <2>7. CASE UNCHANGED vars
      BY <2>7 DEF vars, program, driver, hardware, history, TypeOK
    <2> QED
      BY <2>1, <2>2, <2>3, <2>5, <2>6, <2>7 DEF Next
  <1> QED
    BY <1>1, <1>2, PTL DEF Spec

(* The windows.                                                            *)

(* The driver and the hardware agree, and the count is behind the time     *)
(* that the loop, or its blocking step, has taken.                         *)
CountIsBehind ==
    /\ armed = enabled
    /\ WindowFits
    /\ enabled /\ step = "pass" => counter <= spent
    /\ enabled /\ step = "block" => counter <= blocked
    /\ step = "boot" => ~enabled

LEMMA CountStaysBehind == Spec => []CountIsBehind
  <1>1. Init => CountIsBehind
    BY DEF Init, CountIsBehind, WindowFits
  <1>2. TypeOK /\ CountIsBehind /\ [Next]_vars => CountIsBehind'
    <2> SUFFICES ASSUME TypeOK, CountIsBehind, [Next]_vars PROVE CountIsBehind'
      OBVIOUS
    <2> USE DEF TypeOK, CountIsBehind, WindowFits
    <2>1. CASE Boot \/ WdtOn
      <3>1. Arm /\ step' = "pass"
        BY <2>1, Zenon DEF Boot, WdtOn, program
      <3>2. armed' = enabled' /\ hold' = Normal /\ window' = hold'
        BY <3>1, Zenon DEF Arm, Program
      <3>3. counter' <= spent'
        BY <2>1, <3>1 DEF Boot, WdtOn, Arm, Program, program
      <3>4. step' # "boot" /\ step' # "block"
        BY <3>1
      <3> QED
        BY <3>2, <3>3, <3>4, Zenon
    <2>2. CASE Feed \/ SlowBegins \/ SlowEnds
      <3>1. armed' = enabled'
        BY <2>2 DEF Feed, SlowBegins, SlowEnds, driver
      <3>2. CASE ~enabled
        <4>1. ~enabled' /\ step' # "boot"
          BY <2>2, <3>2 DEF Feed, SlowBegins, SlowEnds
        <4> QED
          BY <3>1, <4>1, Zenon
      <3>3. CASE enabled
        <4>1. counter' = 0 /\ window' = hold' /\ step' \in {"pass", "block"}
          BY <2>2, <3>3 DEF Feed, SlowBegins, SlowEnds, Program, driver
        <4>2. /\ step' = "pass" => hold' = Normal
              /\ step' = "block" => hold' = Slow
          BY <2>2, <3>3 DEF Feed, SlowBegins, SlowEnds, Program, driver
        <4>3. /\ step' = "pass" => counter' <= spent'
              /\ step' = "block" => counter' <= blocked'
          BY <2>2, <4>1 DEF Feed, SlowBegins, SlowEnds
        <4>4. step' # "boot"
          BY <4>1
        <4> QED
          BY <3>1, <4>1, <4>2, <4>3, <4>4, Zenon
      <3> QED
        BY <3>2, <3>3, Zenon
    <2>3. CASE WdtOff
      <3>1. ~enabled' /\ ~armed' /\ armed' = enabled'
        BY <2>3, Zenon DEF WdtOff, Disarm
      <3>2. step' # "boot"
        BY <2>3 DEF WdtOff, program
      <3> QED
        BY <3>1, <3>2, Zenon
    <2>4. CASE Hang
      BY <2>4 DEF Hang, driver, hardware
    <2>5. CASE Works \/ Blocks \/ Hangs
      BY <2>5 DEF Works, Blocks, Hangs, Counted, program, driver
    <2>6. CASE Bite \/ \E c \in Resets : Reset(c)
      BY <2>6 DEF Bite, Reset, Restarts
    <2>7. CASE UNCHANGED vars
      BY <2>7 DEF vars, program, driver, hardware
    <2> QED
      BY <2>1, <2>2, <2>3, <2>4, <2>5, <2>6, <2>7 DEF Next
  <1> QED
    BY <1>1, <1>2, TypesHold, PTL DEF Spec

(* No pass and no blocking step is ever mistaken for a hang, whatever the  *)
(* windows, as long as a pass's own work stays under NORMAL_WINDOW and one *)
(* blocking step under SLOW_WINDOW (feed, program, SlowWindow::drop).      *)
THEOREM HangsOnly == Spec => []OnlyHangsAreReset
  <1>1. TypeOK /\ CountIsBehind => OnlyHangsAreReset
    BY DEF TypeOK, CountIsBehind, WindowFits, OnlyHangsAreReset, Steps
  <1> QED
    BY <1>1, TypesHold, CountStaysBehind, PTL

(* The wide window ends with its guard on every path, and window_secs is   *)
(* what the hardware has.                                                  *)
THEOREM WindowsFit == Spec => []WindowFits
  <1>1. CountIsBehind => WindowFits
    BY DEF CountIsBehind
  <1> QED
    BY <1>1, CountStaysBehind, PTL

(* The history.                                                            *)

(* What record_boot will find while the chip boots, and what it has left   *)
(* after that.                                                             *)
HistoryIsKept ==
    ~missed =>
        IF step = "boot"
        THEN Recorded.previous = before /\ Recorded.resets = bites
        ELSE /\ retained = [magic |-> TRUE, previous |-> cause, resets |-> bites]
             /\ shown = [previous |-> before, resets |-> bites]

LEMMA HistoryStays == Spec => []HistoryIsKept
  <1>1. Init => HistoryIsKept
    BY DEF Init, HistoryIsKept, Recorded, Blank
  <1>2. TypeOK /\ HistoryIsKept /\ [Next]_vars => HistoryIsKept'
    <2> SUFFICES ASSUME TypeOK, HistoryIsKept, [Next]_vars PROVE HistoryIsKept'
      OBVIOUS
    <2>1. CASE Boot
      <3>1. ~missed => Recorded.previous = before /\ Recorded.resets = bites
        BY <2>1 DEF Boot, HistoryIsKept
      <3>2. Recorded = [previous |-> Recorded.previous, resets |-> Recorded.resets]
        BY DEF Recorded
      <3>3. step' # "boot"
        BY <2>1 DEF Boot
      <3> QED
        BY <2>1, <3>1, <3>2, <3>3, Zenon DEF Boot, HistoryIsKept
    <2>2. CASE Feed \/ SlowBegins \/ SlowEnds \/ WdtOn \/ WdtOff \/ Hang
                \/ Works \/ Blocks \/ Hangs
      <3>1. UNCHANGED history /\ (step = "boot") = (step' = "boot") /\ step # "boot"
        BY <2>2 DEF Feed, SlowBegins, SlowEnds, WdtOn, WdtOff, Hang, Works, Blocks, Hangs,
                    program
      <3> QED
        BY <3>1 DEF history, HistoryIsKept
    <2>3. ASSUME NEW c \in Causes, Restarts(c), step # "boot", c # "power_on",
                 bites' = IF c = "watchdog" THEN Saturated(bites) ELSE bites
          PROVE  HistoryIsKept'
      <3>1. ~missed => /\ retained' = [magic |-> TRUE, previous |-> cause, resets |-> bites]
                       /\ cause' = c /\ before' = cause /\ step' = "boot"
        BY <2>3 DEF Restarts, HistoryIsKept
      <3>2. missed' = missed
        BY <2>3 DEF Restarts, TypeOK
      <3> QED
        BY <2>3, <3>1, <3>2 DEF HistoryIsKept, Recorded, Saturated
    <2>4. ASSUME NEW c \in Causes, Restarts(c), step = "boot", c # "power_on"
          PROVE  HistoryIsKept'
      BY <2>4 DEF Restarts, HistoryIsKept
    <2>5. CASE Bite
      BY <2>3, <2>4, <2>5 DEF Bite, Causes
    <2>6. CASE \E c \in Resets : Reset(c)
      <3> PICK c \in Resets : Reset(c)
        BY <2>6
      <3>1. CASE c = "power_on"
        BY <3>1 DEF Reset, Restarts, HistoryIsKept, Recorded, Blank
      <3>2. CASE c # "power_on"
        BY <2>3, <2>4, <3>2 DEF Reset, Causes, Resets
      <3> QED
        BY <3>1, <3>2
    <2>7. CASE UNCHANGED vars
      BY <2>7 DEF vars, program, history, HistoryIsKept, Recorded
    <2> QED
      BY <2>1, <2>2, <2>5, <2>6, <2>7 DEF Next
  <1> QED
    BY <1>1, <1>2, TypesHold, PTL DEF Spec

(* Whatever resets the chip, and however often, the history is right about *)
(* it from power-on, as long as every boot got as far as record_boot.      *)
THEOREM HistoryIsRight == Spec => []HistoryTells
  <1>1. HistoryIsKept => HistoryTells
    BY DEF HistoryIsKept, HistoryTells
  <1> QED
    BY <1>1, HistoryStays, PTL

=============================================================================
