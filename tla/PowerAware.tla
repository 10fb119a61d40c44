----------------------------- MODULE PowerAware -----------------------------
(***************************************************************************)
(* The power-aware API of arcfour_power.c under the main loop of its two   *)
(* examples (examples/arm/stm32l4_power_example.c and                      *)
(* nrf52_power_example.c): each turn initializes a context, encrypts,      *)
(* verifies, asks whether to sleep, and waits.  The callbacks switch the   *)
(* peripherals on and off; interrupt handlers may reset the idle timer.    *)
(*                                                                         *)
(* The cipher is left out: what is in memory of it is which contexts are   *)
(* allocated.  The battery may show any voltage whenever it is read, as a  *)
(* platform that overrides arcfour_get_battery_voltage has it (the default *)
(* is 0, not supported).                                                   *)
(***************************************************************************)
EXTENDS Integers

CONSTANTS
    Width,      \* the counters' modulus, 2^32 in the code
    TickMod,    \* the modulus of the tick source
    Timeouts,   \* the values of timeout_ms; 0 disables auto-sleep
    MaxIdle,    \* bound: the idle time up to which time passes
    MaxTouches  \* bound: the calls of arcfour_update_last_activity by handlers

ASSUME TimeAssumption ==
    /\ Width \in Nat \ {0} /\ TickMod \in 1 .. Width
    /\ MaxIdle \in 0 .. Width - 1 /\ MaxTouches \in Nat
    /\ Timeouts \subseteq Nat

VARIABLES
    prog,       \* the program
    timeout,    \* timeout_ms of its hooks
    staticOnly, \* ARCFOUR_STATIC_ONLY
    tick,       \* what get_tick_ms returns
    lastTick,   \* last_activity_ms
    idle,       \* history: the time since the newest activity
    stale,      \* history: last_activity_ms is of an older activity
    touches,    \* the calls by handlers that are left
    uart,       \* the UART is on
    heap,       \* the contexts that are allocated
    main        \* where the main loop is

vars == <<prog, timeout, staticOnly, tick, lastTick, idle, stale, touches, uart,
          heap, main>>

build == <<prog, timeout, staticOnly>>

clock == <<tick, lastTick, idle, stale, touches>>

(* main.op is the operation under way, main.said what the low-battery      *)
(* handler returned to it; current is the tick that an update of the last  *)
(* activity or a computation of the idle time has read, calm that no       *)
(* handler came since; seen and result belong to the idle time.            *)
Start == [at |-> "top", op |-> "none", said |-> "nothing", ok |-> FALSE,
          current |-> 0, seen |-> 0, calm |-> FALSE, result |-> 0]

At(place) == main.at = place

Goto(place) == main' = [main EXCEPT !.at = place]

-----------------------------------------------------------------------------
(* Time and handlers.                                                      *)

Tick ==
    /\ idle < MaxIdle
    /\ tick' = (tick + 1) % TickMod
    /\ idle' = idle + 1
    /\ UNCHANGED <<build, lastTick, stale, touches, uart, heap, main>>

(* arcfour_update_last_activity, with nothing in between its two accesses: *)
(* the main loop does not preempt a handler.                               *)
Touch == lastTick' = tick /\ idle' = 0 /\ stale' = FALSE /\ UNCHANGED tick

HandlerTouches ==
    /\ touches > 0
    /\ Touch
    /\ touches' = touches - 1
    /\ main' = [main EXCEPT !.calm = FALSE]
    /\ UNCHANGED <<build, uart, heap>>

-----------------------------------------------------------------------------
(* The callbacks of the two programs, and their output.                    *)

(* Output while the UART is off is lost or waits for ever.                 *)
Say(place) ==
    \/ Goto(place)
    \/ ~uart /\ Goto("stuck")

stm32l4_low_battery_handler(voltage) ==
    IF voltage < 2000 THEN "abort" ELSE "continue"

nrf52_low_battery_handler(voltage) ==
    IF voltage < 1800 THEN "abort" ELSE "continue"

on_low_battery(voltage) ==
    IF prog = "stm32l4" THEN stm32l4_low_battery_handler(voltage)
    ELSE nrf52_low_battery_handler(voltage)

(* The operation goes on if nothing is said, or if the handler returns 0.  *)
Goes(said) == said \in {"nothing", "abort"}

(* 0 is "not supported"; the others are below either handler's limit,      *)
(* between the two, and fine.                                              *)
Voltages == {0, 1700, 1900, 3000}

CheckBattery ==
    /\ At("battery")
    /\ \E voltage \in Voltages :
          LET low == voltage \in 1 .. 1999
              said == IF low THEN on_low_battery(voltage) ELSE "nothing"
          IN  \/ main' = [main EXCEPT !.said = said,
                             !.at = IF Goes(said) THEN "before" ELSE "failed"]
              \/ low /\ ~uart /\ Goto("stuck")
    /\ UNCHANGED <<build, clock, uart, heap>>

(* stm32l4_wakeup_handler and nrf52_wakeup_handler: both return 0.         *)
stm32l4_wakeup_handler == uart' = TRUE

nrf52_wakeup_handler == uart' = TRUE

CallBefore ==
    /\ At("before")
    /\ IF prog = "stm32l4" THEN stm32l4_wakeup_handler
       ELSE nrf52_wakeup_handler
    /\ Goto("work")
    /\ UNCHANGED <<build, clock, heap>>

(* stm32l4_sleep_handler and nrf52_sleep_handler, up to the interrupt that *)
(* ends the sleep.                                                         *)
CallAfter ==
    /\ At("after")
    /\ Say("asleep")
    /\ uart' = FALSE
    /\ UNCHANGED <<build, clock, heap>>

(* To the operation's caller, or to the main loop's wait.                  *)
Wake ==
    /\ At("asleep")
    /\ Goto(CASE main.op = "auto" -> "delay"
              [] main.op # "auto" /\ main.ok -> "returned"
              [] OTHER -> "failed")
    /\ UNCHANGED <<build, clock, uart, heap>>

-----------------------------------------------------------------------------
(* What the operations do between the callbacks.                           *)

(* arcfour_init may return NULL.  A static-only build gives up here, after *)
(* the first callback and before the second.                               *)
InitWork ==
    /\ At("work") /\ main.op = "init"
    /\ IF staticOnly
       THEN Goto("failed") /\ UNCHANGED <<clock, heap>>
       ELSE \E ok \in BOOLEAN :
                /\ heap' = IF ok THEN heap \cup {"ctx"} ELSE heap
                /\ main' = [main EXCEPT !.at = "touch", !.ok = ok]
                /\ UNCHANGED clock
    /\ UNCHANGED <<build, uart>>

EncryptWork ==
    /\ At("work") /\ main.op = "encrypt"
    /\ main' = [main EXCEPT !.at = "touch", !.ok = TRUE]
    /\ UNCHANGED <<build, clock, uart, heap>>

(* arcfour_update_last_activity: the tick is read, and then stored.  What  *)
(* a handler stored in between is newer, and is overwritten.               *)
ReadActivity ==
    /\ At("touch")
    /\ main' = [main EXCEPT !.at = "store", !.current = tick, !.calm = TRUE]
    /\ idle' = 0 /\ stale' = TRUE
    /\ UNCHANGED <<build, tick, lastTick, touches, uart, heap>>

StoreActivity ==
    /\ At("store")
    /\ lastTick' = main.current /\ stale' = ~main.calm
    /\ Goto("after")
    /\ UNCHANGED <<build, tick, idle, touches, uart, heap>>

-----------------------------------------------------------------------------
(* power_aware_encryption_test and main.                                   *)

Begin(op) == main' = [Start EXCEPT !.at = "battery", !.op = op]

BeginTest ==
    /\ At("top")
    /\ \/ Begin("init")
       \/ ~uart /\ Goto("stuck")
    /\ UNCHANGED <<build, clock, uart, heap>>

BeginEncrypt ==
    /\ At("returned") /\ main.op = "init"
    /\ Begin("encrypt")
    /\ UNCHANGED <<build, clock, uart, heap>>

(* Mutant: the failing test keeps its context.                             *)
FailWithoutUninit ==
    /\ At("failed")
    /\ Say("check")
    /\ UNCHANGED <<build, clock, uart, heap>>

(* Mutant: a refused operation counts as activity.                         *)
FailTouches ==
    /\ At("failed")
    /\ Say("check")
    /\ heap' = IF main'.at = "check" THEN heap \ {"ctx"} ELSE heap
    /\ Touch
    /\ UNCHANGED <<build, touches, uart>>

Fail ==
    /\ At("failed")
    /\ Say("check")
    /\ heap' = IF main'.at = "check" THEN heap \ {"ctx"} ELSE heap
    /\ UNCHANGED <<build, clock, uart>>

(* The second context comes from the heap and may be NULL, which decrypts  *)
(* nothing.                                                                *)
Decrypt ==
    /\ At("returned") /\ main.op = "encrypt"
    /\ Say("verify")
    /\ heap' \in IF main'.at = "stuck" THEN {heap}
                 ELSE {heap, heap \cup {"ctx2"}}
    /\ UNCHANGED <<build, clock, uart>>

Verify ==
    /\ At("verify")
    /\ Say("check")
    /\ heap' = IF main'.at = "check" THEN heap \ {"ctx", "ctx2"} ELSE heap
    /\ UNCHANGED <<build, clock, uart>>

(* arcfour_get_idle_time_ms, which reads the time of the last activity     *)
(* once to compare and once to subtract.                                   *)
ReadTick ==
    /\ At("check") /\ timeout # 0
    /\ main' = [main EXCEPT !.at = "compare", !.current = tick,
                            !.seen = idle, !.calm = ~stale]
    /\ UNCHANGED <<build, clock, uart, heap>>

NoAutoSleep ==
    /\ At("check") /\ timeout = 0
    /\ Goto("delay")
    /\ UNCHANGED <<build, clock, uart, heap>>

Compare ==
    /\ At("compare")
    /\ Goto(IF main.current >= lastTick THEN "subtract" ELSE "wrap")
    /\ UNCHANGED <<build, clock, uart, heap>>

(* Mutant: UINT32_MAX instead of 2^32.                                     *)
IdleTimeShort ==
    IF At("wrap") THEN (Width - 1 - lastTick + main.current) % Width
    ELSE (main.current - lastTick) % Width

IdleTime ==
    IF At("wrap") THEN (Width - 1 - lastTick + main.current + 1) % Width
    ELSE (main.current - lastTick) % Width

Subtract ==
    /\ At("wrap") \/ At("subtract")
    /\ main' = [main EXCEPT !.at = "decide", !.result = IdleTime]
    /\ UNCHANGED <<build, clock, uart, heap>>

Decide ==
    /\ At("decide")
    /\ IF main.result < timeout THEN Goto("delay")
       ELSE \/ main' = [main EXCEPT !.at = "after", !.op = "auto"]
            \/ ~uart /\ Goto("stuck")
    /\ UNCHANGED <<build, clock, uart, heap>>

EndDelay ==
    /\ At("delay")
    /\ main' = Start
    /\ UNCHANGED <<build, clock, uart, heap>>

Main ==
    \/ BeginTest \/ CheckBattery \/ CallBefore \/ InitWork \/ EncryptWork
    \/ ReadActivity \/ StoreActivity
    \/ CallAfter \/ Wake \/ BeginEncrypt \/ Fail \/ Decrypt \/ Verify
    \/ ReadTick \/ NoAutoSleep \/ Compare \/ Subtract \/ Decide \/ EndDelay

Init ==
    /\ prog \in {"stm32l4", "nrf52"} /\ timeout \in Timeouts
    /\ staticOnly \in BOOLEAN
    /\ tick = 0 /\ lastTick = 0 /\ idle = 0 /\ stale = FALSE
    /\ touches = MaxTouches
    /\ uart = TRUE /\ heap = {} /\ main = Start

Next == Tick \/ HandlerTouches \/ Main

Spec == Init /\ [][Next]_vars

(* Time passes, and the processor runs.                                    *)
FairSpec == Spec /\ WF_vars(Tick) /\ WF_vars(Main)

-----------------------------------------------------------------------------
Places ==
    {"top", "battery", "before", "work", "touch", "store", "after", "asleep",
     "returned", "failed", "verify", "check", "compare", "subtract", "wrap",
     "decide", "delay", "stuck"}

Mains ==
    [at : Places, op : {"none", "init", "encrypt", "auto"},
     said : {"nothing", "abort", "continue"}, ok : BOOLEAN,
     current : 0 .. TickMod - 1, seen : 0 .. MaxIdle, calm : BOOLEAN,
     result : 0 .. Width - 1]

TypeOK ==
    /\ prog \in {"stm32l4", "nrf52"} /\ timeout \in Timeouts
    /\ staticOnly \in BOOLEAN
    /\ tick \in 0 .. TickMod - 1 /\ lastTick \in 0 .. TickMod - 1
    /\ idle \in 0 .. MaxIdle /\ stale \in BOOLEAN
    /\ touches \in 0 .. MaxTouches
    /\ uart \in BOOLEAN /\ heap \subseteq {"ctx", "ctx2"}
    /\ main \in Mains

(* Also across the wrap of the counter, the idle time that decides about   *)
(* sleep is the time that had passed since the newest activity when the    *)
(* tick was read: unless a handler came between the reads, or an update    *)
(* under way had put an older time over a handler's                        *)
(* (arcfour_power.c:172-182).                                              *)
IdleIsExact == At("decide") /\ main.calm => main.result = main.seen

(* Every way through a turn of the loop frees what it allocated            *)
(* (stm32l4_power_example.c:337-378, nrf52_power_example.c:128-168).       *)
NoLeak == At("top") \/ At("delay") => heap = {}

(* Again and again the device sleeps (or hangs in its output): when every  *)
(* operation is refused for its battery, or cannot be done in a static     *)
(* build, the idle timer is what remains (arcfour_power.c:149-160,         *)
(* stm32l4_power_example.c:403-415).                                       *)
AlwaysSleepsAgain ==
    timeout \in 1 .. MaxIdle => []<>(At("asleep") \/ At("stuck"))

(* include/arcfour_power.h:38, of on_low_battery ("Return 0 to abort       *)
(* operation, non-zero to continue with reduced performance").             *)
HandlerDecides == At("failed") => main.said # "continue"
=============================================================================
