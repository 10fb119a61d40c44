---------------------------- MODULE PendingQueue ----------------------------
(***************************************************************************)
(* The deferred request queue of arcfour_isr.c under preemption, with the  *)
(* critical section macros of arcfour_port.h.                              *)
(*                                                                         *)
(* An actor is a task or an interrupt handler.  Each step is one access to *)
(* the shared queue or one critical section macro.  A handler runs to its  *)
(* end before anything of a lower level resumes; actors of the same level  *)
(* are tasks that the scheduler switches between.  Interrupts, the         *)
(* scheduler's included, are held back while PRIMASK is set.               *)
(***************************************************************************)
EXTENDS Integers, Sequences

CONSTANTS
    Actor,      \* tasks and interrupt handlers
    Level,      \* Level[a]: the priority at which a runs, 0 for tasks
    May,        \* May[a]: what a calls, a subset of Services
    Request,    \* the requests
    NoRequest,  \* the all-zero request of .bss
    Max,        \* ARCFOUR_MAX_PENDING_REQUESTS
    Port,       \* which critical section macros are compiled in
    MaxDepth    \* bound: how deep an application nests its own sections

Services == {"request", "process", "clear", "count", "section"}

ASSUME MaxAssumption == Max \in Nat /\ Max > 1

ASSUME LevelAssumption == Level \in [Actor -> Nat]

ASSUME PortAssumption == Port \in {"save", "enable", "none"}

ASSUME DepthAssumption == MaxDepth \in Nat

ASSUME RequestAssumption == NoRequest \notin Request

VARIABLES
    slots,      \* g_pending_queue
    head,       \* g_queue_head: where the next request is written
    tail,       \* g_queue_tail: where the next request is read
    primask,    \* the PRIMASK register: 1 holds interrupts back
    saved,      \* saved[a]: the PRIMASK values a has pushed, one per section
    pc,         \* pc[a]: the next step of the call a is in, or "idle"
    local,      \* local[a]: current_head, current_tail and req of that call
    ret         \* ret[a]: what the last request or count of a returned

NoLocals == [head |-> 0, tail |-> 0, req |-> NoRequest]

vars == <<slots, head, tail, primask, saved, pc, local, ret>>

Slot == 0 .. Max - 1

(* Mutant: the wrap is missing.                                            *)
AfterUnwrapped(k) == k + 1

After(k) == (k + 1) % Max

(* Where a call goes on once it is in, and once it has left, its section.  *)
EnterTo == [r_enter |-> "r_head", p_enter |-> "p_take",
            c_enter |-> "c_tail", n_enter |-> "n_head"]

ExitTo == [r_exit |-> "idle", p_exit |-> "p_run",
           c_exit |-> "idle", n_exit |-> "idle"]

InSection == {"r_head", "r_tail", "r_write", "r_publish", "r_exit",
              "p_take", "p_advance", "p_exit", "c_tail", "c_head", "c_exit",
              "n_head", "n_tail", "n_exit"}

OutOfSection == {"idle", "r_enter", "p_test", "p_enter", "p_run", "c_enter",
                 "n_enter"}

Init ==
    /\ slots = [k \in Slot |-> NoRequest]
    /\ head = 0 /\ tail = 0
    /\ primask = 0
    /\ saved = [a \in Actor |-> <<>>]
    /\ pc = [a \in Actor |-> "idle"]
    /\ local = [a \in Actor |-> NoLocals]
    /\ ret = [a \in Actor |-> 0]

-----------------------------------------------------------------------------
(* Who may take a step.                                                    *)

Active(a) == pc[a] # "idle" \/ saved[a] # <<>>

Runs(a) ==
    /\ primask = 1 => saved[a] # <<>>
    /\ \A b \in Actor : Level[b] > Level[a] => ~Active(b)

At(a, label) == Runs(a) /\ pc[a] = label

Goto(a, label) == pc' = [pc EXCEPT ![a] = label]

(* The locals of a call, or of a loop iteration, do not outlive it.        *)
Drop(a) == local' = [local EXCEPT ![a] = NoLocals]

(* Mutants: an entry that does not mask, an exit that always enables.      *)
EnterUnmasked(a) ==
    /\ saved' = [saved EXCEPT ![a] = Append(@, primask)]
    /\ UNCHANGED primask

ExitEnabling(a) ==
    /\ saved' = [saved EXCEPT ![a] = SubSeq(@, 1, Len(@) - 1)]
    /\ primask' = 0

(* The macros.  "save" is Cortex-M4 and M33, "enable" is Cortex-M0, "none" *)
(* is every other build; saved only counts the sections in the last two.   *)
EnterCritical(a) ==
    /\ saved' = [saved EXCEPT ![a] = Append(@, primask)]
    /\ primask' = IF Port = "none" THEN primask ELSE 1

ExitCritical(a) ==
    LET top == Len(saved[a])
    IN  /\ saved' = [saved EXCEPT ![a] = SubSeq(@, 1, top - 1)]
        /\ primask' = CASE Port = "save" -> saved[a][top]
                        [] Port = "enable" -> 0
                        [] Port = "none" -> primask

Enter(a) ==
    /\ Runs(a) /\ pc[a] \in DOMAIN EnterTo
    /\ EnterCritical(a)
    /\ Goto(a, EnterTo[pc[a]])
    /\ UNCHANGED <<slots, head, tail, local, ret>>

Exit(a) ==
    /\ Runs(a) /\ pc[a] \in DOMAIN ExitTo
    /\ ExitCritical(a)
    /\ Goto(a, ExitTo[pc[a]])
    /\ IF ExitTo[pc[a]] = "idle" THEN Drop(a) ELSE UNCHANGED local
    /\ UNCHANGED <<slots, head, tail, ret>>

(* A section of the application, around calls of the queue or around       *)
(* nothing: the macros are public and nest.                                *)
OpenSection(a) ==
    /\ "section" \in May[a] /\ At(a, "idle")
    /\ Len(saved[a]) < MaxDepth
    /\ EnterCritical(a)
    /\ UNCHANGED <<slots, head, tail, pc, local, ret>>

CloseSection(a) ==
    /\ At(a, "idle") /\ saved[a] # <<>>
    /\ ExitCritical(a)
    /\ UNCHANGED <<slots, head, tail, pc, local, ret>>

Invoke(a, service, label) ==
    /\ service \in May[a] /\ At(a, "idle")
    /\ Goto(a, label)
    /\ UNCHANGED <<slots, head, tail, primask, saved, ret>>

-----------------------------------------------------------------------------
(* arcfour_request_encrypt; arcfour_request_decrypt only calls it.         *)

BeginRequest(a, r) ==
    /\ Invoke(a, "request", "r_enter")
    /\ local' = [local EXCEPT ![a].req = r]

(* The first load of a request and of a count.                             *)
ReadHead(a) ==
    /\ \/ At(a, "r_head") /\ Goto(a, "r_tail")
       \/ At(a, "n_head") /\ Goto(a, "n_tail")
    /\ local' = [local EXCEPT ![a].head = head]
    /\ UNCHANGED <<slots, head, tail, primask, saved, ret>>

RequestTest(a) ==
    /\ At(a, "r_tail")
    /\ IF After(local[a].head) = tail
       THEN Goto(a, "r_exit") /\ ret' = [ret EXCEPT ![a] = -1]
       ELSE Goto(a, "r_write") /\ UNCHANGED ret
    /\ UNCHANGED <<slots, head, tail, primask, saved, local>>

RequestWrite(a) ==
    /\ At(a, "r_write")
    /\ slots' = [slots EXCEPT ![local[a].head] = local[a].req]
    /\ Goto(a, "r_publish")
    /\ UNCHANGED <<head, tail, primask, saved, local, ret>>

RequestPublish(a) ==
    /\ At(a, "r_publish")
    /\ head' = After(local[a].head)
    /\ ret' = [ret EXCEPT ![a] = 0]
    /\ Goto(a, "r_exit")
    /\ UNCHANGED <<slots, tail, primask, saved, local>>

-----------------------------------------------------------------------------
(* arcfour_process_pending.                                                *)

BeginProcess(a) ==
    /\ Invoke(a, "process", "p_test")
    /\ UNCHANGED local

(* Mutant: a single waiting request is taken for none.                     *)
ProcessTestLeavesOne(a) ==
    /\ At(a, "p_test")
    /\ Goto(a, IF After(tail) # head /\ tail # head THEN "p_enter" ELSE "idle")
    /\ UNCHANGED <<slots, head, tail, primask, saved, local, ret>>

(* The loop test is outside the section and is not repeated inside it.     *)
ProcessTest(a) ==
    /\ At(a, "p_test")
    /\ Goto(a, IF tail # head THEN "p_enter" ELSE "idle")
    /\ UNCHANGED <<slots, head, tail, primask, saved, local, ret>>

ProcessTake(a) ==
    /\ At(a, "p_take")
    /\ local' = [local EXCEPT ![a].tail = tail, ![a].req = slots[tail]]
    /\ Goto(a, "p_advance")
    /\ UNCHANGED <<slots, head, tail, primask, saved, ret>>

ProcessAdvance(a) ==
    /\ At(a, "p_advance")
    /\ tail' = After(local[a].tail)
    /\ Goto(a, "p_exit")
    /\ UNCHANGED <<slots, head, primask, saved, local, ret>>

(* arcfour_encrypt_no_critical on the copy, outside the section.           *)
ProcessRun(a) ==
    /\ At(a, "p_run")
    /\ Goto(a, "p_test")
    /\ Drop(a)
    /\ UNCHANGED <<slots, head, tail, primask, saved, ret>>

-----------------------------------------------------------------------------
(* arcfour_clear_pending: two stores, g_queue_tail first.                  *)

BeginClear(a) ==
    /\ Invoke(a, "clear", "c_enter")
    /\ UNCHANGED local

ClearTail(a) ==
    /\ At(a, "c_tail")
    /\ tail' = 0
    /\ Goto(a, "c_head")
    /\ UNCHANGED <<slots, head, primask, saved, local, ret>>

ClearHead(a) ==
    /\ At(a, "c_head")
    /\ head' = 0
    /\ Goto(a, "c_exit")
    /\ UNCHANGED <<slots, tail, primask, saved, local, ret>>

(* Mutant: a wrapped ring is counted the wrong way round.                  *)
CountUnwrapped(h, t) == IF h >= t THEN h - t ELSE t - h

(* arcfour_get_pending_count.                                              *)
PendingCount(h, t) ==
    IF h >= t THEN h - t
    ELSE IF Max - t <= Max - h THEN (Max - t) + h ELSE Max

BeginCount(a) ==
    /\ Invoke(a, "count", "n_enter")
    /\ UNCHANGED local

CountRead(a) ==
    /\ At(a, "n_tail")
    /\ ret' = [ret EXCEPT ![a] = PendingCount(local[a].head, tail)]
    /\ Goto(a, "n_exit")
    /\ UNCHANGED <<slots, head, tail, primask, saved, local>>

-----------------------------------------------------------------------------
Begin(a) ==
    \/ \E r \in Request : BeginRequest(a, r)
    \/ BeginProcess(a) \/ BeginClear(a) \/ BeginCount(a) \/ OpenSection(a)

Continue(a) ==
    \/ Enter(a) \/ Exit(a) \/ CloseSection(a)
    \/ ReadHead(a) \/ RequestTest(a) \/ RequestWrite(a) \/ RequestPublish(a)
    \/ ProcessTest(a) \/ ProcessTake(a) \/ ProcessAdvance(a) \/ ProcessRun(a)
    \/ ClearTail(a) \/ ClearHead(a) \/ CountRead(a)

Next == \E a \in Actor : Begin(a) \/ Continue(a)

Spec == Init /\ [][Next]_vars

(* Interrupts leave the processor some time, so whoever is in a call goes  *)
(* on, again and again if others can come in between; an application       *)
(* leaves the sections it opens; and the main loop calls process_pending   *)
(* for ever.                                                               *)
Preemptible(a) == \E b \in Actor \ {a} : Level[b] >= Level[a]

Opener(a) == "section" \in May[a]

Consumer(a) == "process" \in May[a]

FairSpec ==
    /\ Spec
    /\ \A a \in Actor : IF Preemptible(a) THEN SF_vars(Continue(a))
                       ELSE WF_vars(Continue(a))
    /\ \A a \in Actor : Opener(a) => SF_vars(CloseSection(a))
    /\ \A a \in Actor : Consumer(a) => SF_vars(BeginProcess(a))

-----------------------------------------------------------------------------
TypeOK ==
    /\ slots \in [Slot -> Request \cup {NoRequest}]
    /\ head \in Slot /\ tail \in Slot
    /\ primask \in {0, 1}
    /\ saved \in [Actor -> Seq({0, 1})]
    /\ pc \in [Actor -> InSection \cup OutOfSection]
    /\ local \in [Actor -> [head : Slot, tail : Slot,
                            req : Request \cup {NoRequest}]]
    /\ ret \in [Actor -> Int]

(* Two actors are never inside critical sections at once, however deeply   *)
(* handlers preempt one another and sections nest (arcfour_port.h:65-75).  *)
MutualExclusion ==
    \A a, b \in Actor : saved[a] # <<>> /\ saved[b] # <<>> => a = b

(* Interrupts are held back exactly while somebody is in a section: an     *)
(* inner exit does not open an outer section, and the last one does not    *)
(* leave the processor deaf (arcfour_port.h:65-75).                        *)
MaskedWhileInside ==
    primask = 1 <=> \E a \in Actor : saved[a] # <<>>

(* The requests between tail and head, oldest first.                       *)
Pending ==
    [k \in 1 .. (head - tail) % Max |-> slots[(tail + k - 1) % Max]]

(* Every accepted request reaches a consumer, or a clear, even if others   *)
(* keep coming and calls keep being preempted (arcfour_isr.c:203-222).     *)
EveryRequestServed ==
    \A r \in Request :
        (\E k \in DOMAIN Pending : Pending[k] = r)
            ~> \E a \in Actor : \/ pc[a] = "p_run" /\ local[a].req = r
                              \/ pc[a] = "c_head"

(***************************************************************************)
(* Refinement: a clear takes effect with its first store, a request with   *)
(* the store to head, a take with the store to tail.                       *)
(***************************************************************************)
Queue == INSTANCE DeferredQueue WITH
    Capacity <- Max - 1,
    queue <- IF \E a \in Actor : pc[a] = "c_head" THEN <<>> ELSE Pending,
    hand <- [a \in Actor |-> IF pc[a] \in {"p_exit", "p_run"}
                             THEN local[a].req ELSE NoRequest],
    ret <- ret

(* The ring of slots is a FIFO: nothing is lost, repeated or reordered,    *)
(* and nothing is refused, counted or taken wrongly.                       *)
QueueRefinement == Queue!QueueSpec
=============================================================================
