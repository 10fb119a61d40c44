-------------------------- MODULE PowerAwareProofs --------------------------
(***************************************************************************)
(* What is proved of PowerAware, for every length of the counter, every    *)
(* set of timeouts and every bound:                                        *)
(*   - the state keeps its type, and every turn frees what it allocated;   *)
(*   - where the tick source wraps at the counter's own modulus, the idle  *)
(*     time that decides about sleep is the time since the newest          *)
(*     activity, unless an update overwrote that or a handler came between *)
(*     the reads.                                                          *)
(***************************************************************************)
EXTENDS PowerAware, TLAPS

(* Where the first context can be allocated, where both, and where none.   *)
NoContext ==
    \/ main.at \in {"top", "check", "compare", "subtract", "wrap", "decide",
                    "delay"}
    \/ main.op = "init" /\ main.at \in {"battery", "before", "work"}
    \/ main.op = "auto" /\ main.at \in {"after", "asleep"}

HeapInv ==
    /\ heap \subseteq {"ctx", "ctx2"}
    /\ "ctx2" \in heap => main.at \in {"verify", "stuck"}
    /\ NoContext => heap = {}

(* Only an operation that began checks the battery, works and counts as    *)
(* activity.                                                               *)
OpInv ==
    /\ main.at \in {"battery", "before", "work", "touch", "store"} =>
           main.op \in {"init", "encrypt"}
    /\ main.at \in {"after", "asleep", "returned"} => main.op # "none"
    /\ main.at = "returned" => main.op # "auto"

Rest == OpInv /\ HeapInv

LInv == TypeOK /\ Rest

-----------------------------------------------------------------------------
(* How the main loop moves.                                                *)

(* It goes to a place and changes nothing else.                            *)
Moved(place) ==
    /\ main' \in Mains /\ main'.at = place
    /\ main'.op = main.op /\ main'.ok = main.ok /\ main'.calm = main.calm
    /\ main'.current = main.current /\ main'.seen = main.seen
    /\ main'.result = main.result

LEMMA GotoMoves ==
    ASSUME NEW place \in Places, main \in Mains, Goto(place)
    PROVE  Moved(place)
  BY DEF Goto, Mains, Moved

LEMMA SayMoves ==
    ASSUME NEW place \in Places, main \in Mains, Say(place)
    PROVE  Moved(place) \/ Moved("stuck")
  BY GotoMoves DEF Say, Places

LEMMA BeginMoves ==
    ASSUME NEW op \in {"init", "encrypt"}, Begin(op)
    PROVE  /\ main' \in Mains /\ main'.at = "battery" /\ main'.op = op
  <1>1. Start \in Mains
    BY TimeAssumption DEF Start, Mains, Places
  <1>2. main' = [Start EXCEPT !.at = "battery", !.op = op]
    BY DEF Begin
  <1> HIDE DEF Start
  <1> QED
    BY <1>1, <1>2 DEF Mains, Places

-----------------------------------------------------------------------------
(* The invariant.                                                          *)
LEMMA InitLInv == Init => LInv
  <1> SUFFICES ASSUME Init PROVE LInv
    OBVIOUS
  <1> USE DEF Init, Start
  <1>1. TypeOK
    <2>1. main \in Mains
      BY TimeAssumption DEF Mains, Places
    <2>2. stale \in BOOLEAN
      BY Zenon DEF Init
    <2> QED
      BY <2>1, <2>2, TimeAssumption DEF TypeOK
  <1>2. Rest
    BY DEF Rest, OpInv, HeapInv, At
  <1> QED
    BY <1>1, <1>2 DEF LInv

LEMMA BeginTestL == LInv /\ BeginTest => LInv'
  <1> SUFFICES ASSUME LInv, BeginTest PROVE LInv'
    OBVIOUS
  <1>1. TypeOK /\ Rest
    BY DEF LInv
  <1>2. \/ main' \in Mains /\ main'.at = "battery" /\ main'.op = "init"
        \/ Moved("stuck")
    BY <1>1, GotoMoves, BeginMoves DEF BeginTest, TypeOK, Places
  <1>3. TypeOK'
    BY <1>1, <1>2, TimeAssumption DEF TypeOK, BeginTest, build, clock, Moved
  <1>4. Rest'
    BY <1>1, <1>2 DEF Rest, OpInv, HeapInv, NoContext,
       At, BeginTest, Moved
  <1> QED
    BY <1>3, <1>4 DEF LInv

LEMMA BatteryMoves ==
    ASSUME main \in Mains, CheckBattery
    PROVE  Moved("before") \/ Moved("failed") \/ Moved("stuck")
  <1>1. \A v \in Int : on_low_battery(v) \in {"abort", "continue"}
    BY DEF on_low_battery, stm32l4_low_battery_handler,
           nrf52_low_battery_handler
  <1>2. \/ Goto("stuck")
        \/ \E said \in {"nothing", "abort", "continue"} :
              main' = [main EXCEPT !.said = said,
                         !.at = IF Goes(said) THEN "before" ELSE "failed"]
    <2>1. PICK voltage \in Voltages :
             LET low == voltage \in 1 .. 1999
                 said == IF low THEN on_low_battery(voltage) ELSE "nothing"
             IN  \/ main' = [main EXCEPT !.said = said,
                               !.at = IF Goes(said) THEN "before" ELSE "failed"]
                 \/ low /\ ~uart /\ Goto("stuck")
      BY DEF CheckBattery
    <2> DEFINE said == IF voltage \in 1 .. 1999 THEN on_low_battery(voltage)
                       ELSE "nothing"
    <2>2. voltage \in Int
      BY DEF Voltages
    <2>3. said \in {"nothing", "abort", "continue"}
      BY <1>1, <2>2
    <2>4. \/ main' = [main EXCEPT !.said = said,
                        !.at = IF Goes(said) THEN "before" ELSE "failed"]
          \/ Goto("stuck")
      BY <2>1
    <2> HIDE DEF said
    <2> QED
      BY <2>3, <2>4
  <1>3. CASE Goto("stuck")
    BY <1>3, GotoMoves DEF Places
  <1>4. ASSUME NEW said \in {"nothing", "abort", "continue"},
               main' = [main EXCEPT !.said = said,
                          !.at = IF Goes(said) THEN "before" ELSE "failed"]
        PROVE  Moved("before") \/ Moved("failed")
    <2>1. CASE Goes(said)
      BY <1>4, <2>1 DEF Moved, Mains, Places
    <2>2. CASE ~Goes(said)
      BY <1>4, <2>2 DEF Moved, Mains, Places
    <2> QED
      BY <2>1, <2>2
  <1> QED
    BY <1>2, <1>3, <1>4

LEMMA CheckBatteryL == LInv /\ CheckBattery => LInv'
  <1> SUFFICES ASSUME LInv, CheckBattery PROVE LInv'
    OBVIOUS
  <1>1. TypeOK /\ Rest
    BY DEF LInv
  <1>2. Moved("before") \/ Moved("failed") \/ Moved("stuck")
    BY <1>1, BatteryMoves DEF TypeOK
  <1>3. TypeOK'
    BY <1>1, <1>2, TimeAssumption DEF TypeOK, CheckBattery, build, clock, Moved
  <1>4. Rest'
    BY <1>1, <1>2 DEF Rest, OpInv, HeapInv, NoContext,
       At, CheckBattery, Moved
  <1> QED
    BY <1>3, <1>4 DEF LInv

LEMMA CallBeforeL == LInv /\ CallBefore => LInv'
  <1> SUFFICES ASSUME LInv, CallBefore PROVE LInv'
    OBVIOUS
  <1>1. TypeOK /\ Rest
    BY DEF LInv
  <1>2. Moved("work")
    BY <1>1, GotoMoves DEF CallBefore, TypeOK, Places
  <1>3. TypeOK'
    BY <1>1, <1>2, TimeAssumption DEF TypeOK, CallBefore, build, clock, Moved,
       nrf52_wakeup_handler,
       stm32l4_wakeup_handler
  <1>4. Rest'
    BY <1>1, <1>2 DEF Rest, OpInv, HeapInv, NoContext,
       At, CallBefore, Moved, nrf52_wakeup_handler,
       stm32l4_wakeup_handler
  <1> QED
    BY <1>3, <1>4 DEF LInv

LEMMA InitWorkL == LInv /\ InitWork => LInv'
  <1> SUFFICES ASSUME LInv, InitWork PROVE LInv'
    OBVIOUS
  <1>1. TypeOK /\ Rest
    BY DEF LInv
  <1>2. \/ Moved("failed")
        \/ main' \in Mains /\ main'.at = "touch" /\ main'.op = "init"
    <2>1. main \in Mains /\ main.op = "init"
      BY <1>1 DEF TypeOK, InitWork
    <2>2. CASE staticOnly
      <3>1. Goto("failed")
        BY <2>2 DEF InitWork
      <3> QED
        BY <2>1, <2>2, <3>1, GotoMoves DEF Places
    <2>3. CASE ~staticOnly
      <3>1. PICK ok \in BOOLEAN :
               main' = [main EXCEPT !.at = "touch", !.ok = ok]
        BY <2>3 DEF InitWork
      <3> QED
        BY <2>1, <3>1 DEF Places, Mains
    <2> QED
      BY <2>2, <2>3
  <1>3. TypeOK'
    <2>1. main' \in Mains
      BY <1>2 DEF Moved
    <2>2. heap' \subseteq {"ctx", "ctx2"}
      BY <1>1 DEF TypeOK, InitWork
    <2>3. clock' = clock
      BY DEF InitWork
    <2> QED
      BY <1>1, <2>1, <2>2, <2>3 DEF TypeOK, InitWork, build, clock
  <1>4. Rest'
    BY <1>1, <1>2 DEF Rest, OpInv, HeapInv, NoContext,
       At, InitWork, Moved
  <1> QED
    BY <1>3, <1>4 DEF LInv

LEMMA EncryptWorkL == LInv /\ EncryptWork => LInv'
  <1> SUFFICES ASSUME LInv, EncryptWork PROVE LInv'
    OBVIOUS
  <1>1. TypeOK /\ Rest
    BY DEF LInv
  <1>2. main' \in Mains /\ main'.at = "touch" /\ main'.op = "encrypt"
    BY <1>1 DEF EncryptWork, TypeOK, Places, Mains, At
  <1>3. TypeOK'
    BY <1>1, <1>2, TimeAssumption DEF TypeOK, EncryptWork, build, clock
  <1>4. Rest'
    BY <1>1, <1>2 DEF Rest, OpInv, HeapInv, NoContext,
       At, EncryptWork
  <1> QED
    BY <1>3, <1>4 DEF LInv

LEMMA ReadActivityL == LInv /\ ReadActivity => LInv'
  <1> SUFFICES ASSUME LInv, ReadActivity PROVE LInv'
    OBVIOUS
  <1>1. TypeOK /\ Rest
    BY DEF LInv
  <1>2. main' \in Mains /\ main'.at = "store" /\ main'.op = main.op
    BY <1>1 DEF ReadActivity, TypeOK, Places, Mains
  <1>3. TypeOK'
    BY <1>1, <1>2, TimeAssumption DEF TypeOK, ReadActivity, build
  <1>4. Rest'
    BY <1>1, <1>2 DEF Rest, OpInv, HeapInv, NoContext, At, ReadActivity
  <1> QED
    BY <1>3, <1>4 DEF LInv

LEMMA StoreActivityL == LInv /\ StoreActivity => LInv'
  <1> SUFFICES ASSUME LInv, StoreActivity PROVE LInv'
    OBVIOUS
  <1>1. TypeOK /\ Rest
    BY DEF LInv
  <1>2. Moved("after")
    BY <1>1, GotoMoves DEF StoreActivity, TypeOK, Places
  <1>3. main.current \in 0 .. TickMod - 1 /\ main.calm \in BOOLEAN
    BY <1>1 DEF TypeOK, Mains
  <1>4. TypeOK'
    BY <1>1, <1>2, <1>3, TimeAssumption
       DEF TypeOK, StoreActivity, build, Moved
  <1>5. Rest'
    BY <1>1, <1>2 DEF Rest, OpInv, HeapInv, NoContext, At, StoreActivity, Moved
  <1> QED
    BY <1>4, <1>5 DEF LInv

LEMMA CallAfterL == LInv /\ CallAfter => LInv'
  <1> SUFFICES ASSUME LInv, CallAfter PROVE LInv'
    OBVIOUS
  <1>1. TypeOK /\ Rest
    BY DEF LInv
  <1>2. Moved("asleep") \/ Moved("stuck")
    BY <1>1, SayMoves DEF CallAfter, TypeOK, Places
  <1>3. TypeOK'
    BY <1>1, <1>2, TimeAssumption DEF TypeOK, CallAfter, build, clock, Moved
  <1>4. Rest'
    BY <1>1, <1>2 DEF Rest, OpInv, HeapInv, NoContext,
       At, CallAfter, Moved
  <1> QED
    BY <1>3, <1>4 DEF LInv

LEMMA WakeL == LInv /\ Wake => LInv'
  <1> SUFFICES ASSUME LInv, Wake PROVE LInv'
    OBVIOUS
  <1>1. TypeOK /\ Rest
    BY DEF LInv
  <1>2. \/ Moved("delay") /\ main.op = "auto"
        \/ Moved("returned") /\ main.op # "auto"
        \/ Moved("failed") /\ main.op # "auto"
    <2>1. main \in Mains
      BY <1>1 DEF TypeOK
    <2>2. CASE main.op = "auto"
      <3>1. Goto("delay")
        BY <2>2 DEF Wake
      <3> QED
        BY <2>1, <2>2, <3>1, GotoMoves DEF Places
    <2>3. CASE main.op # "auto" /\ main.ok
      BY <2>1, <2>3, GotoMoves DEF Wake, Places
    <2>4. CASE main.op # "auto" /\ ~main.ok
      BY <2>1, <2>4, GotoMoves DEF Wake, Places
    <2> QED
      BY <2>2, <2>3, <2>4
  <1>3. TypeOK'
    BY <1>1, <1>2, TimeAssumption DEF TypeOK, Wake, build, clock, Moved
  <1>4. Rest'
    BY <1>1, <1>2 DEF Rest, OpInv, HeapInv, NoContext,
       At, Wake, Moved
  <1> QED
    BY <1>3, <1>4 DEF LInv

LEMMA BeginEncryptL == LInv /\ BeginEncrypt => LInv'
  <1> SUFFICES ASSUME LInv, BeginEncrypt PROVE LInv'
    OBVIOUS
  <1>1. TypeOK /\ Rest
    BY DEF LInv
  <1>2. main' \in Mains /\ main'.at = "battery" /\ main'.op = "encrypt"
    BY <1>1, BeginMoves DEF BeginEncrypt
  <1>3. TypeOK'
    BY <1>1, <1>2, TimeAssumption DEF TypeOK, BeginEncrypt, build, clock
  <1>4. Rest'
    BY <1>1, <1>2 DEF Rest, OpInv, HeapInv, NoContext,
       At, BeginEncrypt
  <1> QED
    BY <1>3, <1>4 DEF LInv

LEMMA FailL == LInv /\ Fail => LInv'
  <1> SUFFICES ASSUME LInv, Fail PROVE LInv'
    OBVIOUS
  <1>1. TypeOK /\ Rest
    BY DEF LInv
  <1>2. Moved("check") \/ Moved("stuck")
    BY <1>1, SayMoves DEF Fail, TypeOK, Places
  <1>3. TypeOK'
    BY <1>1, <1>2, TimeAssumption DEF TypeOK, Fail, build, clock, Moved
  <1>4. Rest'
    BY <1>1, <1>2 DEF Rest, OpInv, HeapInv, NoContext,
       At, Fail, Moved
  <1> QED
    BY <1>3, <1>4 DEF LInv

LEMMA DecryptL == LInv /\ Decrypt => LInv'
  <1> SUFFICES ASSUME LInv, Decrypt PROVE LInv'
    OBVIOUS
  <1>1. TypeOK /\ Rest
    BY DEF LInv
  <1>2. Moved("verify") \/ Moved("stuck")
    BY <1>1, SayMoves DEF Decrypt, TypeOK, Places
  <1>3. TypeOK'
    BY <1>1, <1>2, TimeAssumption DEF TypeOK, Decrypt, build, clock, Moved
  <1>4. Rest'
    BY <1>1, <1>2 DEF Rest, OpInv, HeapInv, NoContext,
       At, Decrypt, Moved
  <1> QED
    BY <1>3, <1>4 DEF LInv

LEMMA VerifyL == LInv /\ Verify => LInv'
  <1> SUFFICES ASSUME LInv, Verify PROVE LInv'
    OBVIOUS
  <1>1. TypeOK /\ Rest
    BY DEF LInv
  <1>2. Moved("check") \/ Moved("stuck")
    BY <1>1, SayMoves DEF Verify, TypeOK, Places
  <1>3. TypeOK'
    BY <1>1, <1>2, TimeAssumption DEF TypeOK, Verify, build, clock, Moved
  <1>4. Rest'
    BY <1>1, <1>2 DEF Rest, OpInv, HeapInv, NoContext,
       At, Verify, Moved
  <1> QED
    BY <1>3, <1>4 DEF LInv

LEMMA ReadTickL == LInv /\ ReadTick => LInv'
  <1> SUFFICES ASSUME LInv, ReadTick PROVE LInv'
    OBVIOUS
  <1>1. TypeOK /\ Rest
    BY DEF LInv
  <1>2. main' \in Mains /\ main'.at = "compare" /\ main'.op = main.op
    BY <1>1 DEF ReadTick, TypeOK, Places, Mains
  <1>3. TypeOK'
    BY <1>1, <1>2, TimeAssumption DEF TypeOK, ReadTick, build, clock
  <1>4. Rest'
    BY <1>1, <1>2 DEF Rest, OpInv, HeapInv, NoContext,
       At, ReadTick
  <1> QED
    BY <1>3, <1>4 DEF LInv

LEMMA NoAutoSleepL == LInv /\ NoAutoSleep => LInv'
  <1> SUFFICES ASSUME LInv, NoAutoSleep PROVE LInv'
    OBVIOUS
  <1>1. TypeOK /\ Rest
    BY DEF LInv
  <1>2. Moved("delay")
    BY <1>1, GotoMoves DEF NoAutoSleep, TypeOK, Places
  <1>3. TypeOK'
    BY <1>1, <1>2, TimeAssumption DEF TypeOK, NoAutoSleep, build, clock, Moved
  <1>4. Rest'
    BY <1>1, <1>2 DEF Rest, OpInv, HeapInv, NoContext,
       At, NoAutoSleep, Moved
  <1> QED
    BY <1>3, <1>4 DEF LInv

LEMMA CompareL == LInv /\ Compare => LInv'
  <1> SUFFICES ASSUME LInv, Compare PROVE LInv'
    OBVIOUS
  <1>1. TypeOK /\ Rest
    BY DEF LInv
  <1>2. Moved("subtract") \/ Moved("wrap")
    BY <1>1, GotoMoves DEF Compare, TypeOK, Places
  <1>3. TypeOK'
    BY <1>1, <1>2, TimeAssumption DEF TypeOK, Compare, build, clock, Moved
  <1>4. Rest'
    BY <1>1, <1>2 DEF Rest, OpInv, HeapInv, NoContext,
       At, Compare, Moved
  <1> QED
    BY <1>3, <1>4 DEF LInv

LEMMA IdleTimeIsCounter == TypeOK => IdleTime \in 0 .. Width - 1
  BY TimeAssumption DEF TypeOK, Mains, IdleTime

LEMMA SubtractL == LInv /\ Subtract => LInv'
  <1> SUFFICES ASSUME LInv, Subtract PROVE LInv'
    OBVIOUS
  <1>1. TypeOK /\ Rest
    BY DEF LInv
  <1>2. main' \in Mains /\ main'.at = "decide" /\ main'.op = main.op
    BY <1>1, IdleTimeIsCounter DEF Subtract, TypeOK, Places, Mains
  <1>3. TypeOK'
    BY <1>1, <1>2, TimeAssumption DEF TypeOK, Subtract, build, clock
  <1>4. Rest'
    BY <1>1, <1>2 DEF Rest, OpInv, HeapInv, NoContext,
       At, Subtract
  <1> QED
    BY <1>3, <1>4 DEF LInv

LEMMA DecideL == LInv /\ Decide => LInv'
  <1> SUFFICES ASSUME LInv, Decide PROVE LInv'
    OBVIOUS
  <1>1. TypeOK /\ Rest
    BY DEF LInv
  <1>2. \/ Moved("delay") \/ Moved("stuck")
        \/ main' \in Mains /\ main'.at = "after" /\ main'.op = "auto"
    <2>1. main \in Mains
      BY <1>1 DEF TypeOK
    <2>2. \/ Goto("delay") \/ Goto("stuck")
          \/ main' = [main EXCEPT !.at = "after", !.op = "auto"]
      BY DEF Decide
    <2>3. CASE Goto("delay")
      BY <2>1, <2>3, GotoMoves DEF Places
    <2>5. CASE Goto("stuck")
      BY <2>1, <2>5, GotoMoves DEF Places
    <2>4. CASE main' = [main EXCEPT !.at = "after", !.op = "auto"]
      BY <2>1, <2>4 DEF Places, Mains
    <2> QED
      BY <2>2, <2>3, <2>4, <2>5
  <1>3. TypeOK'
    BY <1>1, <1>2, TimeAssumption DEF TypeOK, Decide, build, clock, Moved
  <1>4. Rest'
    BY <1>1, <1>2 DEF Rest, OpInv, HeapInv, NoContext,
       At, Decide, Moved
  <1> QED
    BY <1>3, <1>4 DEF LInv

LEMMA EndDelayL == LInv /\ EndDelay => LInv'
  <1> SUFFICES ASSUME LInv, EndDelay PROVE LInv'
    OBVIOUS
  <1>1. TypeOK /\ Rest
    BY DEF LInv
  <1>2. main' \in Mains /\ main'.at = "top"
    BY <1>1, TimeAssumption DEF EndDelay, Start, Places, Mains
  <1>3. TypeOK'
    BY <1>1, <1>2, TimeAssumption DEF TypeOK, EndDelay, build, clock
  <1>4. Rest'
    BY <1>1, <1>2 DEF Rest, OpInv, HeapInv, NoContext,
       At, EndDelay
  <1> QED
    BY <1>3, <1>4 DEF LInv

LEMMA TickL == LInv /\ Tick => LInv'
  <1> SUFFICES ASSUME LInv, Tick PROVE LInv'
    OBVIOUS
  <1>1. TypeOK /\ Rest
    BY DEF LInv
  <1>2. main' = main
    BY <1>1 DEF Tick
  <1>3. TypeOK'
    BY <1>1, <1>2, TimeAssumption DEF TypeOK, Tick, build, clock
  <1>4. Rest'
    BY <1>1, <1>2 DEF Rest, OpInv, HeapInv, NoContext,
       At, Tick
  <1> QED
    BY <1>3, <1>4 DEF LInv

LEMMA HandlerTouchesL == LInv /\ HandlerTouches => LInv'
  <1> SUFFICES ASSUME LInv, HandlerTouches PROVE LInv'
    OBVIOUS
  <1>1. TypeOK /\ Rest
    BY DEF LInv
  <1>2. main' \in Mains /\ main'.at = main.at /\ main'.op = main.op
    BY <1>1 DEF HandlerTouches, TypeOK, Mains
  <1>3. TypeOK'
    <2>1. stale' \in BOOLEAN
      BY Zenon DEF HandlerTouches, Touch
    <2> QED
      BY <1>1, <1>2, <2>1, TimeAssumption
         DEF TypeOK, HandlerTouches, build, Touch
  <1>4. Rest'
    BY <1>1, <1>2 DEF Rest, OpInv, HeapInv, NoContext,
       At, HandlerTouches, Touch
  <1> QED
    BY <1>3, <1>4 DEF LInv

LEMMA StutterL == LInv /\ UNCHANGED vars => LInv'
  BY DEF LInv, TypeOK, Rest, OpInv, HeapInv, NoContext,
       At, vars

LEMMA NextL == LInv /\ [Next]_vars => LInv'
  BY BeginTestL, CheckBatteryL, CallBeforeL, InitWorkL, EncryptWorkL,
     ReadActivityL, StoreActivityL, CallAfterL, WakeL, BeginEncryptL, FailL, DecryptL, VerifyL, ReadTickL,
     NoAutoSleepL, CompareL, SubtractL, DecideL, EndDelayL, TickL,
     HandlerTouchesL, StutterL
     DEF Next, Main

LEMMA InductiveL == Spec => []LInv
  BY InitLInv, NextL, PTL DEF Spec

(* The state keeps its type.                                               *)
THEOREM TypeCorrect == Spec => []TypeOK
  <1>1. LInv => TypeOK
    BY DEF LInv
  <1> QED
    BY <1>1, InductiveL, PTL

(* Whatever fails, a turn of the main loop frees what it allocated.        *)
THEOREM TurnsFree == Spec => []NoLeak
  <1>1. LInv => NoLeak
    BY DEF LInv, Rest, HeapInv, NoContext, NoLeak, At
  <1> QED
    BY <1>1, InductiveL, PTL

-----------------------------------------------------------------------------
(* The idle time.                                                          *)

LEMMA SmallMod ==
    /\ \A x \in 0 .. Width - 1 : x % Width = x
    /\ Width % Width = 0
  BY TimeAssumption

(* t is d after l on a counter that wraps.                                 *)
After(t, l, d) == t = l + d \/ t = l + d - Width

Computing == main.at \in {"compare", "subtract", "wrap", "decide"}

(* The time of the last activity and the idle time make up the tick,       *)
(* unless a newer activity was overwritten.  What an update is about to    *)
(* store, with no handler since it was read, is as good; and while the     *)
(* idle time is computed, the same holds of what was read.                 *)
ClockInv ==
    /\ ~stale => After(tick, lastTick, idle)
    /\ main.calm /\ main.at = "store" => After(tick, main.current, idle)
    /\ main.calm /\ Computing => After(main.current, lastTick, main.seen)
    /\ main.calm /\ main.at = "subtract" => main.current >= lastTick
    /\ main.calm /\ main.at = "wrap" => main.current < lastTick
    /\ IdleIsExact

LEMMA InitClock == Init => ClockInv
  BY TimeAssumption
     DEF Init, Start, ClockInv, Computing, After, IdleIsExact, At

(* A step that reads and writes no time keeps the invariant.               *)
Elsewhere == ~Computing' /\ main'.at # "store" /\ UNCHANGED clock

LEMMA LeavesComputing ==
    ASSUME TypeOK, ClockInv, Elsewhere
    PROVE  ClockInv'
  BY TimeAssumption
     DEF TypeOK, ClockInv, Computing, After, IdleIsExact, At, clock,
         Elsewhere

LEMMA OtherSteps ==
    ASSUME TypeOK,
           \/ BeginTest \/ CheckBattery \/ CallBefore \/ InitWork
           \/ EncryptWork \/ CallAfter \/ Wake \/ BeginEncrypt \/ Fail
           \/ Decrypt \/ Verify \/ NoAutoSleep \/ EndDelay
    PROVE  Elsewhere
  <1> main \in Mains
    BY DEF TypeOK
  <1>1. CASE BeginTest
    BY <1>1, GotoMoves, BeginMoves
       DEF BeginTest, Elsewhere, Computing, Places, Moved, clock
  <1>2. CASE CheckBattery
    <2>1. Moved("before") \/ Moved("failed") \/ Moved("stuck")
      BY <1>2, BatteryMoves
    <2>2. UNCHANGED clock
      BY <1>2 DEF CheckBattery
    <2> QED
      BY <2>1, <2>2 DEF Elsewhere, Computing, Moved
  <1>3. CASE CallBefore
    BY <1>3, GotoMoves
       DEF CallBefore, Elsewhere, Computing, Places, Moved, clock
  <1>4. CASE InitWork
    BY <1>4 DEF InitWork, Elsewhere, Computing, Mains, Places, Goto, clock
  <1>5. CASE EncryptWork
    BY <1>5 DEF EncryptWork, Elsewhere, Computing, Mains, clock
  <1>6. CASE CallAfter
    BY <1>6, SayMoves DEF CallAfter, Elsewhere, Computing, Places, Moved, clock
  <1>7. CASE Wake
    BY <1>7 DEF Wake, Elsewhere, Computing, Mains, Goto, clock
  <1>8. CASE BeginEncrypt
    BY <1>8, BeginMoves DEF BeginEncrypt, Elsewhere, Computing, clock
  <1>9. CASE Fail
    BY <1>9, SayMoves DEF Fail, Elsewhere, Computing, Places, Moved, clock
  <1>10. CASE Decrypt
    BY <1>10, SayMoves DEF Decrypt, Elsewhere, Computing, Places, Moved, clock
  <1>11. CASE Verify
    BY <1>11, SayMoves DEF Verify, Elsewhere, Computing, Places, Moved, clock
  <1>12. CASE NoAutoSleep
    BY <1>12, GotoMoves
       DEF NoAutoSleep, Elsewhere, Computing, Places, Moved, clock
  <1>13. CASE EndDelay
    BY <1>13 DEF EndDelay, Elsewhere, Computing, Start, clock
  <1> QED
    BY <1>1, <1>2, <1>3, <1>4, <1>5, <1>6, <1>7, <1>8, <1>9, <1>10, <1>11,
       <1>12, <1>13

LEMMA ReadActivityClock ==
    ASSUME TypeOK, ClockInv, ReadActivity
    PROVE  ClockInv'
  BY TimeAssumption
     DEF TypeOK, Mains, ClockInv, Computing, After, IdleIsExact, At,
         ReadActivity

LEMMA StoreActivityClock ==
    ASSUME TypeOK, ClockInv, StoreActivity
    PROVE  ClockInv'
  BY TimeAssumption
     DEF TypeOK, Mains, ClockInv, Computing, After, IdleIsExact, At, Goto,
         StoreActivity

LEMMA ReadTickClock == TypeOK /\ ClockInv /\ ReadTick => ClockInv'
  <1> SUFFICES ASSUME TypeOK, ClockInv, ReadTick PROVE ClockInv'
    OBVIOUS
  <1>1. /\ main'.at = "compare" /\ main'.current = tick
        /\ main'.seen = idle /\ UNCHANGED clock
    BY DEF ReadTick, TypeOK, Mains
  <1>2. main'.calm <=> ~stale
    <2>1. main' = [main EXCEPT !.at = "compare", !.current = tick,
                               !.seen = idle, !.calm = ~stale]
      BY DEF ReadTick
    <2>2. main \in Mains
      BY DEF TypeOK
    <2> QED
      BY <2>1, <2>2, Zenon DEF Mains
  <1> QED
    BY <1>1, <1>2 DEF ClockInv, Computing, After, IdleIsExact, At, clock

LEMMA CompareClock == TypeOK /\ ClockInv /\ Compare => ClockInv'
  BY TimeAssumption
     DEF TypeOK, Mains, ClockInv, Computing, After, IdleIsExact, At, Compare,
         Goto, clock

LEMMA SubtractClock == TypeOK /\ ClockInv /\ Subtract => ClockInv'
  <1> SUFFICES ASSUME TypeOK, ClockInv, Subtract PROVE ClockInv'
    OBVIOUS
  <1>1. main.calm => IdleTime = main.seen
    BY TimeAssumption, SmallMod
       DEF TypeOK, Mains, ClockInv, Computing, After, At, Subtract, IdleTime
  <1> QED
    BY <1>1, SMTT(60)
       DEF TypeOK, Mains, ClockInv, Computing, After, IdleIsExact, At,
           Subtract, clock

LEMMA DecideClock == TypeOK /\ ClockInv /\ Decide => ClockInv'
  BY LeavesComputing
     DEF TypeOK, Mains, Elsewhere, Computing, Decide, Goto, clock

LEMMA TickClock ==
    ASSUME TickMod = Width, TypeOK, ClockInv, Tick
    PROVE  ClockInv'
  <1>1. (tick + 1) % Width = IF tick + 1 = Width THEN 0 ELSE tick + 1
    BY TimeAssumption, SmallMod DEF TypeOK
  <1> QED
    BY <1>1, TimeAssumption
       DEF TypeOK, Mains, ClockInv, Computing, After, IdleIsExact, At, Tick

LEMMA HandlerTouchesClock == TypeOK /\ ClockInv /\ HandlerTouches => ClockInv'
  BY TimeAssumption
     DEF TypeOK, Mains, ClockInv, Computing, After, IdleIsExact, At, Touch,
         HandlerTouches

LEMMA NextClock ==
    ASSUME TickMod = Width, TypeOK, ClockInv, [Next]_vars
    PROVE  ClockInv'
  <1>1. CASE UNCHANGED vars
    BY <1>1 DEF ClockInv, Computing, After, IdleIsExact, At, vars
  <1>2. CASE Next
    BY <1>2, OtherSteps, LeavesComputing, ReadActivityClock, StoreActivityClock,
       ReadTickClock, CompareClock,
       SubtractClock, DecideClock, TickClock, HandlerTouchesClock
       DEF Next, Main
  <1> QED
    BY <1>1, <1>2

(* Where the tick source wraps at the modulus of the counter, the idle     *)
(* time that decides is the time since the newest activity: unless an      *)
(* update stored an older tick over a handler's, or a handler came between *)
(* the reads of the idle time (arcfour_power.c:172-182).                   *)
THEOREM IdleTimeExact ==
    ASSUME TickMod = Width
    PROVE  Spec => []IdleIsExact
  <1>1. TypeOK /\ ClockInv /\ [Next]_vars => ClockInv'
    BY NextClock
  <1>2. ClockInv => IdleIsExact
    BY DEF ClockInv
  <1> QED
    BY <1>1, <1>2, InitClock, TypeCorrect, PTL DEF Spec

=============================================================================
