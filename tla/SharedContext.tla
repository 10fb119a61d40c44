--------------------------- MODULE SharedContext ---------------------------
(***************************************************************************)
(* One context that tasks and interrupt handlers share: the encrypting     *)
(* functions of arcfour_isr.c and arm/arcfour_isr_arm.c under preemption.  *)
(*                                                                         *)
(* Prio has the numbers of the hardware: 0 is the most urgent, and Thread  *)
(* is less urgent than every handler.  A handler runs to its end before    *)
(* what it preempted goes on.  Tasks are switched by the least urgent      *)
(* interrupt, which any mask holds back.                                   *)
(*                                                                         *)
(* A round of the generator is one step per statement of rc4_byte, and the *)
(* load of i apart; i and j stay in registers between.  A finer grain only *)
(* adds ways to tear a round that nobody protects.                         *)
(***************************************************************************)
EXTENDS Rc4

CONSTANTS
    Actor,      \* tasks and interrupt handlers
    Prio,       \* Prio[a]: 0 .. 15 for a handler, Thread for a task
    Calls,      \* Calls[a]: the modes in which a uses the context
    Threshold,  \* Threshold[a]: the priority argument that a passes
    Keys,       \* the keys in use
    Discard,    \* the bytes that arcfour_init_isr discards
    Lengths,    \* the lengths of messages
    MaxPos,     \* bound: no call goes past this many bytes after a start
    Port        \* which macros are compiled in

Thread == 16

Modes == {"isr", "priority", "timeout", "byte", "plain", "init"}

ASSUME ActorAssumption ==
    /\ Prio \in [Actor -> 0 .. Thread]
    /\ Threshold \in [Actor -> 0 .. 15]

ASSUME KeysAssumption == \A key \in Keys : key \in Seq(Byte) /\ Len(key) > 0

ASSUME PortAssumption == Port \in {"m4", "m33", "m0", "none"}

VARIABLES
    gen,          \* the fields S, i and j of the context
    initialized,  \* its flag
    primask,      \* PRIMASK: 1 holds every interrupt back
    basepri,      \* BASEPRI: holds Prio >= basepri back, 0 holds nothing
    saved,        \* saved[a]: the mask that a has pushed
    task,         \* the task that has the processor
    pc,           \* pc[a]: the next step of the call a is in, or "idle"
    local,        \* local[a]: its arguments, loop counter and registers
    base,         \* history: the S-box when i and j were last set to zero
    pos,          \* history: rounds completed since then
    out           \* history: the last keystream byte delivered

vars == <<gen, initialized, primask, basepri, saved, task, pc, local,
          base, pos, out>>

masks == <<primask, basepri, saved>>
context == <<gen, initialized, base, pos, out>>

NoByte == -1

NoCall == [mode |-> "isr", n |-> 0, k |-> 0, i |-> 0, j |-> 0,
           from |-> 0, key |-> <<>>]

Tasks == {a \in Actor : Prio[a] = Thread}

Init ==
    /\ gen = Started(Zeros) /\ initialized = 0
    /\ primask = 0 /\ basepri = 0
    /\ saved = [a \in Actor |-> 0]
    /\ task \in Tasks
    /\ pc = [a \in Actor |-> "idle"]
    /\ local = [a \in Actor |-> NoCall]
    /\ base = Zeros /\ pos = 0 /\ out = NoByte

-----------------------------------------------------------------------------
(* The processor.                                                          *)

Active(a) == pc[a] # "idle"

HeldBack(p) == primask = 1 \/ (basepri # 0 /\ p >= basepri)

(* A handler starts when no mask and no handler holds it back, and goes on *)
(* when those that preempted it have ended.                                *)
Runs(a) ==
    IF a \in Tasks
    THEN a = task /\ \A b \in Actor \ Tasks : ~Active(b)
    ELSE /\ Active(a) \/ ~HeldBack(Prio[a])
         /\ \A b \in Actor \ (Tasks \cup {a}) : Active(b) => Prio[b] > Prio[a]

At(a, label) == Runs(a) /\ pc[a] = label

Goto(a, label) == pc' = [pc EXCEPT ![a] = label]

Switch(t) ==
    /\ t \in Tasks \ {task}
    /\ Runs(task) /\ ~HeldBack(15)
    /\ task' = t
    /\ UNCHANGED <<context, masks, pc, local>>

-----------------------------------------------------------------------------
(* The sections: which register a call masks with, and how it lets go.     *)

MasksWithBasepri(a) == Port = "m4" /\ local[a].mode = "priority"

(* Mutant: the priority is not shifted into the bits BASEPRI implements.   *)
PushMaskUnshifted(a) ==
    IF MasksWithBasepri(a)
    THEN /\ saved' = [saved EXCEPT ![a] = basepri]
         /\ basepri' = Threshold[a] \div 16
         /\ UNCHANGED primask
    ELSE /\ saved' = [saved EXCEPT ![a] = primask]
         /\ primask' = IF Port = "none" THEN primask ELSE 1
         /\ UNCHANGED basepri

PushMask(a) ==
    IF MasksWithBasepri(a)
    THEN /\ saved' = [saved EXCEPT ![a] = basepri]
         /\ basepri' = Threshold[a]
         /\ UNCHANGED primask
    ELSE /\ saved' = [saved EXCEPT ![a] = primask]
         /\ primask' = IF Port = "none" THEN primask ELSE 1
         /\ UNCHANGED basepri

PopMask(a) ==
    /\ saved' = [saved EXCEPT ![a] = 0]
    /\ IF MasksWithBasepri(a)
       THEN basepri' = saved[a] /\ UNCHANGED primask
       ELSE /\ primask' = CASE Port \in {"m4", "m33"} -> saved[a]
                            [] Port = "m0" -> 0
                            [] Port = "none" -> primask
            /\ UNCHANGED basepri

Enter(a) ==
    /\ At(a, "enter")
    /\ PushMask(a)
    /\ Goto(a, IF local[a].mode = "init" THEN "key" ELSE "test")
    /\ UNCHANGED <<context, task, local>>

Exit(a) ==
    /\ At(a, "exit")
    /\ PopMask(a)
    /\ Goto(a, "idle")
    /\ local' = [local EXCEPT ![a] = NoCall]
    /\ UNCHANGED <<context, task>>

(* The way out of a call: a plain one has no section to leave.             *)
Leave(a) ==
    IF local[a].mode = "plain"
    THEN Goto(a, "idle") /\ local' = [local EXCEPT ![a] = NoCall]
    ELSE Goto(a, "exit") /\ UNCHANGED local

-----------------------------------------------------------------------------
(* Encrypting: arcfour_encrypt_isr, _isr_priority, _isr_timeout, _byte_isr *)
(* and arcfour_encrypt_no_critical, which process_pending calls.  The      *)
(* timeout and byte variants, of the M4 and M33 only, do not test the      *)
(* flag, so it is for their caller to have keyed the context.              *)
BeginEncrypt(a, mode, n) ==
    /\ At(a, "idle") /\ mode \in Calls[a] \ {"init"}
    /\ mode \in {"timeout", "byte"} => initialized = 1 /\ Port \in {"m4", "m33"}
    /\ mode = "byte" => n = 1
    /\ pos + n <= MaxPos
    /\ local' = [local EXCEPT ![a] = [NoCall EXCEPT !.mode = mode, !.n = n]]
    /\ Goto(a, IF mode = "plain" THEN "test" ELSE "enter")
    /\ UNCHANGED <<context, masks, task>>

Test(a) ==
    /\ At(a, "test")
    /\ IF initialized = 0 /\ local[a].mode \notin {"timeout", "byte"}
       THEN Leave(a)
       ELSE /\ Goto(a, "load")
            /\ local' = [local EXCEPT ![a].from = pos]
    /\ UNCHANGED <<context, masks, task>>

LoadI(a) ==
    /\ At(a, "load")
    /\ IF local[a].k = local[a].n THEN Leave(a)
       ELSE /\ local' = [local EXCEPT ![a].i = (gen.i + 1) % N]
            /\ Goto(a, "i")
    /\ UNCHANGED <<context, masks, task>>

(* Mutant: the timeout returns without leaving the section.                *)
TimeOutMasked(a) ==
    /\ At(a, "load")
    /\ local[a].mode = "timeout" /\ local[a].k < local[a].n
    /\ Goto(a, "idle") /\ local' = [local EXCEPT ![a] = NoCall]
    /\ UNCHANGED <<context, masks, task>>

(* The cycle counter has gone past max_cycles: return -1 between two bytes. *)
TimeOut(a) ==
    /\ At(a, "load")
    /\ local[a].mode = "timeout" /\ local[a].k < local[a].n
    /\ Leave(a)
    /\ UNCHANGED <<context, masks, task>>

StoreI(a) ==
    /\ At(a, "i")
    /\ gen' = [gen EXCEPT !.i = local[a].i]
    /\ Goto(a, "j")
    /\ UNCHANGED <<initialized, base, pos, out, masks, task, local>>

(* Mutant: j stays in a register and is not stored back.                   *)
StoreJInRegister(a) ==
    LET j == (gen.j + gen.S[local[a].i]) % N
    IN  /\ At(a, "j")
        /\ local' = [local EXCEPT ![a].j = j]
        /\ Goto(a, "swap")
        /\ UNCHANGED <<gen, initialized, base, pos, out, masks, task>>

StoreJ(a) ==
    LET j == (gen.j + gen.S[local[a].i]) % N
    IN  /\ At(a, "j")
        /\ gen' = [gen EXCEPT !.j = j]
        /\ local' = [local EXCEPT ![a].j = j]
        /\ Goto(a, "swap")
        /\ UNCHANGED <<initialized, base, pos, out, masks, task>>

SwapBytes(a) ==
    /\ At(a, "swap")
    /\ gen' = [gen EXCEPT !.S = Swap(@, local[a].i, local[a].j)]
    /\ Goto(a, "out")
    /\ UNCHANGED <<initialized, base, pos, out, masks, task, local>>

(* Mutant: the section is left between the bytes of a message.             *)
DeliverUnmasking(a) ==
    /\ At(a, "out")
    /\ out' = OutByte([gen EXCEPT !.i = local[a].i, !.j = local[a].j])
    /\ pos' = pos + 1
    /\ local' = [local EXCEPT ![a].k = @ + 1]
    /\ PopMask(a)
    /\ Goto(a, "load")
    /\ UNCHANGED <<gen, initialized, base, task>>

Deliver(a) ==
    /\ At(a, "out")
    /\ out' = OutByte([gen EXCEPT !.i = local[a].i, !.j = local[a].j])
    /\ pos' = pos + 1
    /\ local' = [local EXCEPT ![a].k = @ + 1]
    /\ Goto(a, "load")
    /\ UNCHANGED <<gen, initialized, base, masks, task>>

-----------------------------------------------------------------------------
(* arcfour_init_isr: the flag of a context in use stays set throughout.    *)

BeginInit(a, key) ==
    /\ At(a, "idle") /\ "init" \in Calls[a]
    /\ local' = [local EXCEPT ![a] = [NoCall EXCEPT !.mode = "init",
                                                    !.n = Discard, !.key = key]]
    /\ Goto(a, "enter")
    /\ UNCHANGED <<context, masks, task>>

Ksa(a) ==
    /\ At(a, "key")
    /\ gen' = Started(KeyedSBox(local[a].key))
    /\ base' = KeyedSBox(local[a].key) /\ pos' = 0
    /\ Goto(a, "discard")
    /\ UNCHANGED <<initialized, out, masks, task, local>>

DiscardRound(a) ==
    /\ At(a, "discard") /\ local[a].k < local[a].n
    /\ gen' = NextGen(gen) /\ pos' = pos + 1
    /\ local' = [local EXCEPT ![a].k = @ + 1]
    /\ UNCHANGED <<initialized, base, out, masks, task, pc>>

SetFlag(a) ==
    /\ At(a, "discard") /\ local[a].k = local[a].n
    /\ initialized' = 1
    /\ Goto(a, "exit")
    /\ UNCHANGED <<gen, base, pos, out, masks, task, local>>

-----------------------------------------------------------------------------
Begin(a) ==
    \/ \E mode \in Modes, n \in Lengths : BeginEncrypt(a, mode, n)
    \/ \E key \in Keys : BeginInit(a, key)

Continue(a) ==
    \/ Enter(a) \/ Exit(a) \/ Test(a) \/ LoadI(a) \/ TimeOut(a)
    \/ StoreI(a) \/ StoreJ(a) \/ SwapBytes(a) \/ Deliver(a)
    \/ Ksa(a) \/ DiscardRound(a) \/ SetFlag(a)

Next ==
    \/ \E a \in Actor : Begin(a) \/ Continue(a)
    \/ \E t \in Tasks : Switch(t)

Spec == Init /\ [][Next]_vars

-----------------------------------------------------------------------------
(* Working on the context, between its first load and its last store.      *)
Inside(a) == pc[a] \in {"load", "i", "j", "swap", "out", "key", "discard"}

(* No actor works on the context while another is in the middle of it: the *)
(* "Critical section protection for shared context access" of arcfour_isr.h *)
(* line 8, over every mixture of the protected calls.                      *)
OneAtATime == \A a, b \in Actor : Inside(a) /\ Inside(b) => a = b

(* The bytes of a message are consecutive bytes of the stream: whoever     *)
(* preempts an encryption takes no byte out of its middle, and a receiver  *)
(* that decrypts message by message stays in step (arcfour_isr.c:122-127). *)
MessagesWhole ==
    \A a \in Actor :
        pc[a] \in {"load", "i", "j", "swap", "out"} =>
            pos = local[a].from + local[a].k

(* When nobody is in a call the processor is open again: the calls restore *)
(* both mask registers, on the timeout path too, in whatever order they    *)
(* nested (arcfour_port.h:62-124, arcfour_isr_arm.c:83-86).                *)
MasksReturn ==
    (\A a \in Actor : ~Active(a)) => primask = 0 /\ basepri = 0

(***************************************************************************)
(* Refinement: however the calls preempt one another, what leaves the      *)
(* context is one stream, each byte once, as if every round were atomic.   *)
(***************************************************************************)
Keying == \E a \in Actor : pc[a] = "discard"

Mode == IF Keying THEN "busy" ELSE IF initialized = 1 THEN "on" ELSE "off"

Stream == INSTANCE Rc4Stream WITH
    Ctx <- {"shared"},
    mode <- [c \in {"shared"} |-> Mode],
    start <- [c \in {"shared"} |-> base],
    pos <- [c \in {"shared"} |-> IF Mode = "on" THEN pos ELSE 0],
    out <- [c \in {"shared"} |-> out]

(* No round of the shared context is torn by a preempting one.             *)
SharedStream == Stream!StreamSpec
=============================================================================
