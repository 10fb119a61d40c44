------------------------------ MODULE RtosIsr ------------------------------
(***************************************************************************)
(* The RTOS example (examples/arm/rtos_isr_example.c): a handler defers    *)
(* the blocks that arrive to the queue of arcfour_isr.c, a task woken by a *)
(* binary semaphore processes them, and an application task and a fast     *)
(* handler share another context.  The bare-metal build processes the      *)
(* queue from its main loop.  The queue is the one that DeferredQueue      *)
(* promises and PendingQueue implements.                                   *)
(*                                                                         *)
(* The peer encrypts block n with the n-th piece of its keystream, so that *)
(* a half block is decrypted when its data and its keystream have one      *)
(* number.                                                                 *)
(***************************************************************************)
EXTENDS Integers, Sequences

CONSTANTS
    Capacity,   \* how many requests may wait
    MaxBlocks,  \* bound: the blocks that arrive
    MaxTurns,   \* bound: the turns of vAppTask
    MaxFast,    \* bound: the calls of encrypt_byte_fast_isr
    MsgLen      \* the bytes that vAppTask encrypts

ASSUME BoundsAssumption ==
    /\ Capacity \in Nat \ {0} /\ MaxBlocks \in Nat
    /\ MaxTurns \in Nat /\ MaxFast \in Nat /\ MsgLen \in Nat \ {0}

VARIABLES
    mode,       \* "rtos" or "bare"
    received,   \* DataReceivedISR's received_buffer: its two halves
    output,     \* its output_buffer, which every request writes
    arrived,    \* the blocks that have arrived
    lost,       \* history: a block was dropped because the queue was full
    queue, hand, ret,   \* the deferred queue
    semaphore,  \* g_pending_semaphore is given
    task,       \* who processes: "blocked", "drain" or "work"
    served,     \* the pieces of keystream g_decryption_ctx has delivered
    encPos,     \* the position of g_encryption_ctx
    fast,       \* calls of encrypt_byte_fast_isr that are left
    app         \* vAppTask

qvars == <<queue, hand, ret>>
buffers == <<received, output, arrived, lost>>
crypto == <<semaphore, task, served>>
appVars == <<encPos, fast, app>>
vars == <<mode, buffers, qvars, crypto, appVars>>

Blocks == 1 .. MaxBlocks

NoRequest == 0

Q == INSTANCE DeferredQueue WITH Actor <- {"isr", "task"}, Request <- Blocks

Half == {1, 2}

(* crypto_init, and main's choice of who processes.                        *)
Init ==
    /\ mode \in {"rtos", "bare"}
    /\ received = [h \in Half |-> 0]
    /\ output = [h \in Half |-> [data |-> 0, key |-> 0]]
    /\ arrived = 0 /\ lost = FALSE
    /\ Q!QueueInit
    /\ semaphore = FALSE
    /\ task = IF mode = "rtos" THEN "blocked" ELSE "drain"
    /\ served = 0
    /\ encPos = 0 /\ fast = MaxFast
    /\ app = [at |-> "encrypt", from |-> 0, calm |-> TRUE, same |-> FALSE,
              turns |-> 0]

-----------------------------------------------------------------------------
(* The handler reads the block into its static buffer, defers it and gives *)
(* the semaphore; a block that finds the queue full is dropped.            *)
DataReceivedISR ==
    /\ arrived < MaxBlocks
    /\ arrived' = arrived + 1
    /\ received' = [h \in Half |-> arrived']
    /\ \/ /\ Q!Accept("isr", arrived')
          /\ semaphore' = (semaphore \/ mode = "rtos")
          /\ UNCHANGED lost
       \/ /\ Q!Refuse("isr")
          /\ lost' = TRUE
          /\ UNCHANGED semaphore
    /\ UNCHANGED <<mode, output, task, served, appVars>>

TakeSemaphore ==
    /\ task = "blocked" /\ semaphore
    /\ semaphore' = FALSE /\ task' = "drain"
    /\ UNCHANGED <<mode, buffers, qvars, served, appVars>>

(* arcfour_process_pending: the task takes the oldest request, or, finding *)
(* none, waits for the semaphore again.                                    *)
(* Mutant: the request that is taken stays in the queue.                   *)
TakeAndKeep ==
    /\ task = "drain" /\ queue # <<>>
    /\ hand' = [hand EXCEPT !["task"] = Head(queue)]
    /\ task' = "work"
    /\ UNCHANGED <<mode, buffers, queue, ret, semaphore, served, appVars>>

TakeRequest ==
    /\ task = "drain"
    /\ Q!Take("task")
    /\ task' = "work"
    /\ UNCHANGED <<mode, buffers, semaphore, served, appVars>>

(* Mutant: the main loop of the bare build processes the queue once.       *)
ReturnForGood ==
    /\ task = "drain" /\ queue = <<>>
    /\ task' = "blocked"
    /\ UNCHANGED <<mode, buffers, qvars, semaphore, served, appVars>>

Return ==
    /\ task = "drain" /\ queue = <<>> /\ mode = "rtos"
    /\ task' = "blocked"
    /\ UNCHANGED <<mode, buffers, qvars, semaphore, served, appVars>>

(* The request is processed outside the critical section: the handler may  *)
(* come in, and write the buffer, between the halves.                      *)
Process(h) ==
    /\ task = "work" /\ hand["task"] # NoRequest
    /\ output[h].key # served + 1
    /\ h = 2 => output[1].key = served + 1
    /\ output' = [output EXCEPT ![h] = [data |-> received[h],
                                        key |-> served + 1]]
    /\ UNCHANGED <<mode, received, arrived, lost, qvars, crypto, appVars>>

(* Mutant: a request of half a block's length.                             *)
ProcessedHalf == task = "work" /\ output[1].key = served + 1

Processed == task = "work" /\ output[2].key = served + 1

(* Mutant: one request for each semaphore.                                 *)
FinishAndWait ==
    /\ Processed
    /\ Q!Finish("task")
    /\ served' = served + 1
    /\ task' = IF mode = "rtos" THEN "blocked" ELSE "drain"
    /\ UNCHANGED <<mode, buffers, semaphore, appVars>>

(* Mutant: the keystream of the request is not used up.                    *)
FinishWithoutRounds ==
    /\ Processed
    /\ Q!Finish("task")
    /\ task' = "drain"
    /\ UNCHANGED <<mode, buffers, semaphore, served, appVars>>

Finish ==
    /\ Processed
    /\ Q!Finish("task")
    /\ served' = served + 1
    /\ task' = "drain"
    /\ UNCHANGED <<mode, buffers, semaphore, appVars>>

arcfour_process_pending ==
    TakeRequest \/ Return \/ (\E h \in Half : Process(h)) \/ Finish

vCryptoTask == TakeSemaphore \/ arcfour_process_pending

-----------------------------------------------------------------------------
(* vAppTask, which runs when the crypto task waits; each call is one       *)
(* critical section.                                                       *)

AppRuns(place) ==
    /\ mode = "rtos" /\ task = "blocked" /\ ~semaphore
    /\ app.at = place

AppEncrypts ==
    /\ AppRuns("encrypt") /\ app.turns < MaxTurns
    /\ app' = [app EXCEPT !.at = "init", !.from = encPos, !.turns = @ + 1]
    /\ encPos' = encPos + MsgLen
    /\ UNCHANGED <<mode, buffers, qvars, crypto, fast>>

(* Mutant: the context goes on where it is.                                *)
AppGoesOn ==
    /\ AppRuns("init")
    /\ app' = [app EXCEPT !.at = "decrypt", !.calm = TRUE]
    /\ UNCHANGED <<mode, buffers, qvars, crypto, fast, encPos>>

AppInits ==
    /\ AppRuns("init")
    /\ app' = [app EXCEPT !.at = "decrypt", !.calm = TRUE]
    /\ encPos' = 0
    /\ UNCHANGED <<mode, buffers, qvars, crypto, fast>>

AppDecrypts ==
    /\ AppRuns("decrypt")
    /\ app' = [app EXCEPT !.at = "verified", !.same = (app.from = encPos)]
    /\ encPos' = encPos + MsgLen
    /\ UNCHANGED <<mode, buffers, qvars, crypto, fast>>

AppDelays ==
    /\ AppRuns("verified")
    /\ app' = [app EXCEPT !.at = "encrypt"]
    /\ UNCHANGED <<mode, buffers, qvars, crypto, fast, encPos>>

vAppTask == AppEncrypts \/ AppInits \/ AppDecrypts \/ AppDelays

(* One round on the context of the application task, from a handler.       *)
encrypt_byte_fast_isr ==
    /\ fast > 0
    /\ fast' = fast - 1
    /\ encPos' = encPos + 1
    /\ app' = [app EXCEPT !.calm = FALSE]
    /\ UNCHANGED <<mode, buffers, qvars, crypto>>

Next == \/ DataReceivedISR \/ vCryptoTask \/ vAppTask \/ encrypt_byte_fast_isr

Spec == Init /\ [][Next]_vars

(* The task of the higher priority, or the main loop, runs.                *)
FairSpec == Spec /\ WF_vars(vCryptoTask)

-----------------------------------------------------------------------------
TypeOK ==
    /\ arrived \in 0 .. MaxBlocks /\ served \in Nat
    /\ received \in [Half -> 0 .. MaxBlocks]
    /\ output \in [Half -> [data : 0 .. MaxBlocks, key : Nat]]
    /\ queue \in Seq(Blocks)
    /\ hand \in [{"isr", "task"} -> 0 .. MaxBlocks]
    /\ lost \in BOOLEAN /\ semaphore \in BOOLEAN
    /\ task \in {"blocked", "drain", "work"}
    /\ encPos \in Nat

(* A binary semaphore counts to one, and the handler may give it while the *)
(* task is still draining: still no request waits behind a task that has   *)
(* gone to sleep (rtos_isr_example.c:68-95, 137-152).                      *)
NoLostWakeup ==
    mode = "rtos" /\ queue # <<>> => semaphore \/ task # "blocked"

(* As long as the queue never was full, the request being processed is     *)
(* decrypted with the keystream its block was encrypted with: requests are *)
(* taken once each and in the order of arrival, although the context moves *)
(* on only when they are processed (arcfour_isr.c:173-222).                *)
KeystreamInStep == hand["task"] # NoRequest /\ ~lost => hand["task"] = served + 1

(* All blocks go through one static buffer: a half that is processed comes *)
(* out decrypted exactly if its request is the last that waited and no     *)
(* block ever found the queue full.  With another one behind it, the       *)
(* buffer holds newer data than the keystream is for                       *)
(* (rtos_isr_example.c:70-78, arcfour_isr.c:203-222).                      *)
DecryptedIffNewest ==
    [][\A h \in Half : Process(h) =>
          (output'[h].data = output'[h].key <=> ~lost /\ queue = <<>>)]_vars

(* Nothing is left to wake the crypto task for: then vAppTask runs; and    *)
(* between two empty passes of the bare loop.                              *)
CaughtUp == IF mode = "rtos" THEN task = "blocked" /\ ~semaphore
            ELSE task = "drain" /\ queue = <<>>

(* Whatever was overwritten on the way, once the task has caught up, the   *)
(* newest block is in the output and decrypted in both halves, if none was *)
(* dropped (rtos_isr_example.c:68-95, 137-152).                            *)
LastBlockDecrypted ==
    CaughtUp /\ ~lost /\ arrived > 0 =>
        \A h \in Half : output[h] = [data |-> arrived, key |-> arrived]

(* The verification of vAppTask succeeds in the turn whose encryption      *)
(* began at the start of the stream, which is the first at most, and fails *)
(* in every other, unless the fast handler moved the context in between    *)
(* (rtos_isr_example.c:157-179).                                           *)
VerifiesOnlyFreshStream ==
    app.at = "verified" /\ app.calm =>
        (app.same <=> app.turns = 1 /\ app.from = 0)

Waiting(n) == \E k \in DOMAIN queue : queue[k] = n

(* Every request that was accepted is processed (rtos_isr_example.c:68-95, *)
(* 137-152, 227-230).                                                      *)
EveryRequestRuns ==
    \A n \in Blocks : Waiting(n) ~> ~Waiting(n) /\ hand["task"] # n
=============================================================================
