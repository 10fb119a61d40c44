---------------------------- MODULE RtosIsrProofs ----------------------------
(***************************************************************************)
(* What is proved of RtosIsr, for every capacity of the queue and every    *)
(* number of blocks.  No request waits behind a task that sleeps, and as   *)
(* long as no block was dropped the context stands where the next block    *)
(* needs it: the numbers of the requests that wait follow each other, from *)
(* the one in hand to the last that arrived (IInv).  The buffer holds the  *)
(* newest block, so that a half comes out decrypted exactly if nothing     *)
(* waits behind it and nothing was dropped (BInv), and no half is stamped  *)
(* ahead of the request in hand, so that the newest block is decrypted in  *)
(* both halves once the task has caught up (DInv).  And the application's  *)
(* verification succeeds in its first turn only (AppInv).                  *)
(***************************************************************************)
EXTENDS RtosIsr, TLAPS

(* The task is at work when it has a request in hand.                      *)
AtWork == task = "work" <=> hand["task"] # NoRequest

(* The one in hand counts as not yet served.                               *)
InHand == IF task = "work" THEN 1 ELSE 0

(* Served, in hand and waiting make up what has arrived, in order.         *)
InOrder ==
    ~lost => /\ served + InHand + Len(queue) = arrived
             /\ \A k \in 1 .. Len(queue) : queue[k] = served + InHand + k
             /\ task = "work" => hand["task"] = served + 1

IInv == TypeOK /\ AtWork /\ InOrder /\ NoLostWakeup

-----------------------------------------------------------------------------
LEMMA InitIInv == Init => IInv
  <1> SUFFICES ASSUME Init PROVE IInv
    OBVIOUS
  <1> USE DEF Init, Q!QueueInit
  <1>1. TypeOK
    <2>1. /\ queue \in Seq(Blocks)
          /\ hand \in [{"isr", "task"} -> 0 .. MaxBlocks]
          /\ received \in [Half -> 0 .. MaxBlocks]
          /\ output \in [Half -> [data : 0 .. MaxBlocks, key : Nat]]
      BY BoundsAssumption DEF NoRequest
    <2>2. /\ arrived = 0 /\ served = 0 /\ encPos = 0
          /\ lost = FALSE /\ semaphore = FALSE
      OBVIOUS
    <2>3. task \in {"blocked", "drain", "work"}
      OBVIOUS
    <2> QED
      <3> HIDE DEF Init, Q!QueueInit
      <3>1. /\ arrived \in 0 .. MaxBlocks /\ served \in Nat /\ encPos \in Nat
        BY <2>2, BoundsAssumption
      <3>2. lost \in BOOLEAN /\ semaphore \in BOOLEAN
        BY <2>2
      <3> QED
        BY <2>1, <2>3, <3>1, <3>2 DEF TypeOK
  <1>2. AtWork /\ InOrder /\ NoLostWakeup
    BY DEF AtWork, InOrder, InHand, NoLostWakeup, NoRequest
  <1> QED
    BY <1>1, <1>2 DEF IInv

(* A block arrives.                                                        *)
LEMMA ArrivalTypes == TypeOK /\ DataReceivedISR => TypeOK'
  <1> SUFFICES ASSUME TypeOK, DataReceivedISR PROVE TypeOK'
    OBVIOUS
  <1>1. arrived' \in 0 .. MaxBlocks /\ arrived' \in Blocks
    BY BoundsAssumption DEF TypeOK, DataReceivedISR, Blocks
  <1>2. received' \in [Half -> 0 .. MaxBlocks]
    BY <1>1 DEF DataReceivedISR
  <1>3. queue' \in Seq(Blocks) /\ hand' = hand
    <2>1. CASE Q!Accept("isr", arrived')
      BY <1>1, <2>1 DEF TypeOK, Q!Accept
    <2>2. CASE Q!Refuse("isr")
      BY <2>2 DEF TypeOK, Q!Refuse
    <2> QED
      BY <2>1, <2>2 DEF DataReceivedISR
  <1>4. lost' \in BOOLEAN /\ semaphore' \in BOOLEAN
    <2>1. CASE semaphore' = (semaphore \/ mode = "rtos") /\ lost' = lost
      BY <2>1, Zenon DEF TypeOK
    <2>2. CASE lost' = TRUE /\ semaphore' = semaphore
      BY <2>2 DEF TypeOK
    <2> QED
      BY <2>1, <2>2, Zenon DEF DataReceivedISR
  <1> QED
    BY <1>1, <1>2, <1>3, <1>4 DEF TypeOK, DataReceivedISR, appVars

LEMMA ArrivalOrder == TypeOK /\ InOrder /\ DataReceivedISR => InOrder'
  <1> SUFFICES ASSUME TypeOK, InOrder, DataReceivedISR, ~lost' PROVE InOrder'
    BY DEF InOrder
  <1>1. /\ Q!Accept("isr", arrived') /\ lost' = lost
        /\ arrived' = arrived + 1 /\ arrived' \in Blocks
        /\ UNCHANGED <<task, served>>
    BY BoundsAssumption DEF TypeOK, DataReceivedISR, Blocks
  <1>2. /\ queue' = Append(queue, arrived') /\ hand' = hand
        /\ queue \in Seq(Blocks)
    BY <1>1 DEF Q!Accept, TypeOK
  <1>3. /\ Len(queue) \in Nat /\ Len(queue') = Len(queue) + 1
        /\ \A k \in 1 .. Len(queue) : queue'[k] = queue[k]
        /\ queue'[Len(queue) + 1] = arrived'
    BY <1>1, <1>2
  <1>4. InHand' = InHand /\ InHand \in {0, 1}
    BY <1>1 DEF InHand
  <1>5. \A k \in 1 .. Len(queue') : queue'[k] = (served + InHand + k)'
    <2> SUFFICES ASSUME NEW k \in 1 .. Len(queue')
                 PROVE  queue'[k] = served' + InHand' + k
      OBVIOUS
    <2>1. CASE k \in 1 .. Len(queue)
      BY <1>1, <1>3, <1>4, <2>1 DEF InOrder
    <2>2. CASE k = Len(queue) + 1
      <3>1. served + InHand + Len(queue) = arrived /\ arrived \in Int
        BY <1>1 DEF InOrder, TypeOK
      <3>2. queue'[k] = arrived + 1 /\ served \in Int
        BY <1>1, <1>3, <2>2 DEF TypeOK
      <3> QED
        BY <1>1, <1>3, <1>4, <2>2, <3>1, <3>2
    <2> QED
      BY <1>3, <2>1, <2>2
  <1> QED
    BY <1>1, <1>2, <1>3, <1>4, <1>5 DEF InOrder, TypeOK

LEMMA ArrivalIInv == IInv /\ DataReceivedISR => IInv'
  <1> SUFFICES ASSUME IInv, DataReceivedISR PROVE IInv'
    OBVIOUS
  <1>1. TypeOK' /\ InOrder'
    BY ArrivalTypes, ArrivalOrder DEF IInv
  <1>2. UNCHANGED <<hand, task>>
    BY DEF DataReceivedISR, Q!Accept, Q!Refuse
  <1>3. NoLostWakeup'
    <2>1. CASE Q!Refuse("isr") /\ semaphore' = semaphore
      BY <1>2, <2>1 DEF IInv, NoLostWakeup, DataReceivedISR, Q!Refuse
    <2>2. CASE semaphore' = (semaphore \/ mode = "rtos")
      BY <2>2 DEF NoLostWakeup, DataReceivedISR
    <2> QED
      BY <2>1, <2>2, Zenon DEF DataReceivedISR
  <1> QED
    BY <1>1, <1>2, <1>3 DEF IInv, AtWork

(* The task.                                                               *)
LEMMA TakeSemaphoreIInv == IInv /\ TakeSemaphore => IInv'
  <1> SUFFICES ASSUME IInv, TakeSemaphore PROVE IInv'
    OBVIOUS
  <1> USE DEF IInv, TakeSemaphore, buffers, qvars, appVars
  <1>1. TypeOK'
    BY DEF TypeOK
  <1>2. AtWork' /\ NoLostWakeup'
    BY DEF AtWork, NoLostWakeup
  <1>3. InOrder'
    BY DEF InOrder, InHand
  <1> QED
    BY <1>1, <1>2, <1>3

LEMMA ReturnIInv == IInv /\ Return => IInv'
  BY DEF IInv, TypeOK, AtWork, InOrder, InHand, NoLostWakeup, Return,
         buffers, qvars, appVars

LEMMA TakeRequestIInv == IInv /\ TakeRequest => IInv'
  <1> SUFFICES ASSUME IInv, TakeRequest PROVE IInv'
    OBVIOUS
  <1>1. /\ queue \in Seq(Blocks) /\ queue # <<>> /\ queue' = Tail(queue)
        /\ hand' = [hand EXCEPT !["task"] = queue[1]]
        /\ hand \in [{"isr", "task"} -> 0 .. MaxBlocks]
        /\ task = "drain" /\ task' = "work"
        /\ UNCHANGED <<served, arrived, lost>>
    BY DEF IInv, TypeOK, TakeRequest, Q!Take, buffers
  <1>2. /\ Len(queue) \in Nat \ {0} /\ Len(queue') = Len(queue) - 1
        /\ queue' \in Seq(Blocks) /\ queue[1] \in Blocks
        /\ \A k \in 1 .. Len(queue) - 1 : queue'[k] = queue[k + 1]
    BY <1>1
  <1>3. /\ hand' \in [{"isr", "task"} -> 0 .. MaxBlocks]
        /\ hand'["task"] = queue[1] /\ queue[1] # NoRequest
    BY <1>1, <1>2, BoundsAssumption DEF Blocks, NoRequest
  <1>4. TypeOK'
    BY <1>1, <1>2, <1>3 DEF IInv, TypeOK, TakeRequest, buffers, appVars
  <1>5. AtWork'
    BY <1>1, <1>3 DEF AtWork
  <1>6. InOrder'
    <2> SUFFICES ASSUME ~lost'
                 PROVE  /\ served' + InHand' + Len(queue') = arrived'
                        /\ \A k \in 1 .. Len(queue') :
                               queue'[k] = served' + InHand' + k
                        /\ hand'["task"] = served' + 1
      BY DEF InOrder
    <2>1. /\ served + Len(queue) = arrived /\ served \in Int
          /\ \A k \in 1 .. Len(queue) : queue[k] = served + k
          /\ InHand' = 1
      <3>1. InHand = 0 /\ InHand' = 1
        BY <1>1 DEF InHand
      <3> QED
        BY <1>1, <3>1 DEF IInv, InOrder, TypeOK
    <2>2. \A k \in 1 .. Len(queue') : queue'[k] = served + (k + 1)
      BY <1>2, <2>1
    <2> QED
      BY <1>1, <1>2, <1>3, <2>1, <2>2
  <1>7. NoLostWakeup'
    BY <1>1 DEF NoLostWakeup
  <1> QED
    BY <1>4, <1>5, <1>6, <1>7 DEF IInv

LEMMA ProcessIInv ==
    ASSUME IInv, NEW h \in Half, Process(h)
    PROVE  IInv'
  <1>1. output' \in [Half -> [data : 0 .. MaxBlocks, key : Nat]]
    BY DEF IInv, TypeOK, Process
  <1> QED
    BY <1>1 DEF IInv, TypeOK, AtWork, InOrder, InHand, NoLostWakeup, Process,
                qvars, crypto, appVars

LEMMA FinishIInv == IInv /\ Finish => IInv'
  <1> SUFFICES ASSUME IInv, Finish PROVE IInv'
    OBVIOUS
  <1>1. /\ hand' = [hand EXCEPT !["task"] = NoRequest]
        /\ hand \in [{"isr", "task"} -> 0 .. MaxBlocks]
        /\ task = "work" /\ task' = "drain" /\ served' = served + 1
        /\ UNCHANGED <<queue, arrived, lost, semaphore, mode>>
    BY DEF IInv, TypeOK, Finish, Processed, Q!Finish, buffers
  <1>2. /\ hand' \in [{"isr", "task"} -> 0 .. MaxBlocks]
        /\ hand'["task"] = NoRequest
    BY <1>1, BoundsAssumption DEF NoRequest
  <1>3. TypeOK'
    BY <1>1, <1>2 DEF IInv, TypeOK, Finish, buffers, appVars
  <1>4. AtWork' /\ NoLostWakeup'
    BY <1>1, <1>2 DEF AtWork, NoLostWakeup
  <1>5. InOrder'
    BY <1>1 DEF IInv, TypeOK, InOrder, InHand
  <1> QED
    BY <1>3, <1>4, <1>5 DEF IInv

(* The application and the fast handler.                                   *)
LEMMA OthersIInv == IInv /\ (vAppTask \/ encrypt_byte_fast_isr) => IInv'
  <1> SUFFICES ASSUME IInv, vAppTask \/ encrypt_byte_fast_isr PROVE IInv'
    OBVIOUS
  <1>1. UNCHANGED <<mode, buffers, qvars, crypto>>
    BY DEF vAppTask, AppEncrypts, AppInits, AppDecrypts, AppDelays,
           encrypt_byte_fast_isr
  <1>2. encPos' \in Nat
    BY BoundsAssumption
       DEF IInv, TypeOK, vAppTask, AppEncrypts, AppInits, AppDecrypts,
           AppDelays, encrypt_byte_fast_isr
  <1> QED
    BY <1>1, <1>2 DEF IInv, TypeOK, AtWork, InOrder, InHand, NoLostWakeup,
                      buffers, qvars, crypto

LEMMA StutterIInv == IInv /\ UNCHANGED vars => IInv'
  BY DEF IInv, TypeOK, AtWork, InOrder, InHand, NoLostWakeup, vars, qvars,
         crypto, buffers, appVars

LEMMA NextIInv == IInv /\ [Next]_vars => IInv'
  BY ArrivalIInv, TakeSemaphoreIInv, ReturnIInv, TakeRequestIInv, ProcessIInv,
     FinishIInv, OthersIInv, StutterIInv
     DEF Next, vCryptoTask, arcfour_process_pending

LEMMA Inductive == Spec => []IInv
  BY InitIInv, NextIInv, PTL DEF Spec

-----------------------------------------------------------------------------
(* The state keeps its type.                                               *)
THEOREM TypeCorrect == Spec => []TypeOK
  <1>1. IInv => TypeOK
    BY DEF IInv
  <1> QED
    BY <1>1, Inductive, PTL

(* No request waits behind a task that sleeps.                             *)
THEOREM WakeupKept == Spec => []NoLostWakeup
  <1>1. IInv => NoLostWakeup
    BY DEF IInv
  <1> QED
    BY <1>1, Inductive, PTL

(* If no block was dropped, the context stands where the block needs it.   *)
THEOREM KeystreamFollows == Spec => []KeystreamInStep
  <1>1. IInv => KeystreamInStep
    BY DEF IInv, AtWork, InOrder, KeystreamInStep
  <1> QED
    BY <1>1, Inductive, PTL

-----------------------------------------------------------------------------
(* The buffer holds the newest block, and once a block was dropped, more   *)
(* have arrived than were and will be processed.                           *)
BInv ==
    /\ \A h \in Half : received[h] = arrived
    /\ lost => served + InHand + Len(queue) < arrived

LEMMA InitBInv == Init => BInv
  BY DEF Init, BInv

LEMMA NextBInv == IInv /\ BInv /\ [Next]_vars => BInv'
  <1> SUFFICES ASSUME IInv, BInv, [Next]_vars PROVE BInv'
    OBVIOUS
  <1>1. /\ served \in Nat /\ arrived \in Nat /\ queue \in Seq(Blocks)
        /\ Len(queue) \in Nat /\ InHand \in {0, 1}
    BY DEF IInv, TypeOK, InHand
  <1>2. CASE DataReceivedISR
    <2>1. /\ UNCHANGED <<task, served>> /\ arrived' = arrived + 1
          /\ received' = [h \in Half |-> arrived']
      BY <1>2 DEF DataReceivedISR
    <2>2. InHand' = InHand
      BY <2>1 DEF InHand
    <2>3. CASE Q!Accept("isr", arrived') /\ lost' = lost
      <3>1. Len(queue') = Len(queue) + 1
        BY <1>1, <2>3 DEF Q!Accept
      <3> QED
        BY <1>1, <2>1, <2>2, <2>3, <3>1 DEF BInv
    <2>4. CASE Q!Refuse("isr")
      <3>1. queue' = queue
        BY <2>4 DEF Q!Refuse
      <3>2. served + InHand + Len(queue) <= arrived
        BY <1>1 DEF BInv, IInv, InOrder
      <3> QED
        BY <1>1, <2>1, <2>2, <3>1, <3>2 DEF BInv
    <2> QED
      BY <1>2, <2>3, <2>4 DEF DataReceivedISR
  <1>3. CASE TakeRequest
    <2>1. /\ task = "drain" /\ task' = "work" /\ queue # <<>>
          /\ queue' = Tail(queue)
          /\ UNCHANGED <<received, arrived, lost, served>>
      BY <1>3 DEF TakeRequest, Q!Take, buffers
    <2>2. InHand = 0 /\ InHand' = 1 /\ Len(queue') = Len(queue) - 1
      BY <1>1, <2>1 DEF InHand
    <2> QED
      BY <1>1, <2>1, <2>2 DEF BInv
  <1>4. CASE Finish
    <2>1. /\ task = "work" /\ task' = "drain" /\ served' = served + 1
          /\ UNCHANGED <<received, arrived, lost, queue>>
      BY <1>4 DEF Finish, Processed, Q!Finish, buffers
    <2>2. InHand = 1 /\ InHand' = 0
      BY <2>1 DEF InHand
    <2> QED
      BY <1>1, <2>1, <2>2 DEF BInv
  <1>5. ASSUME UNCHANGED <<received, arrived, lost, queue, served>>,
               task' = "work" <=> task = "work"
        PROVE  BInv'
    BY <1>5 DEF BInv, InHand
  <1>6. CASE \/ TakeSemaphore \/ Return \/ vAppTask \/ encrypt_byte_fast_isr
             \/ UNCHANGED vars
    BY <1>5, <1>6
       DEF TakeSemaphore, Return, vAppTask, AppEncrypts, AppInits, AppDecrypts,
           AppDelays, encrypt_byte_fast_isr, vars, buffers, qvars, crypto
  <1>7. CASE \E h \in Half : Process(h)
    BY <1>5, <1>7 DEF Process, qvars, crypto
  <1> QED
    BY <1>2, <1>3, <1>4, <1>6, <1>7
       DEF Next, vCryptoTask, arcfour_process_pending

LEMMA ProcessedNewest ==
    ASSUME IInv, BInv, NEW h \in Half, Process(h)
    PROVE  output'[h].data = output'[h].key <=> ~lost /\ queue = <<>>
  <1>1. /\ served \in Nat /\ arrived \in Nat /\ queue \in Seq(Blocks)
        /\ Len(queue) \in Nat /\ InHand = 1
    BY DEF IInv, TypeOK, InHand, Process
  <1>2. output'[h].data = arrived /\ output'[h].key = served + 1
    BY DEF IInv, TypeOK, BInv, Process
  <1>3. ~lost => arrived = served + 1 + Len(queue)
    BY <1>1 DEF IInv, InOrder
  <1>4. lost => served + 1 + Len(queue) < arrived
    BY <1>1 DEF BInv
  <1>5. queue = <<>> <=> Len(queue) = 0
    BY <1>1
  <1> QED
    BY <1>1, <1>2, <1>3, <1>4, <1>5

(* A half comes out decrypted exactly if nothing waits behind its request  *)
(* and no block was dropped, whatever the capacity of the queue and the    *)
(* number of blocks (rtos_isr_example.c:70-78, arcfour_isr.c:203-222).     *)
THEOREM NewestDecrypted == Spec => DecryptedIffNewest
  <1>1. IInv /\ BInv /\ [Next]_vars =>
           [\A h \in Half : Process(h) =>
               (output'[h].data = output'[h].key <=> ~lost /\ queue = <<>>)]_vars
    BY ProcessedNewest
  <1>2. Spec => []BInv
    BY InitBInv, NextBInv, Inductive, PTL DEF Spec
  <1> QED
    BY <1>1, <1>2, Inductive, PTL DEF Spec, DecryptedIffNewest

-----------------------------------------------------------------------------
(* The halves of a request are stamped with the keystream they took: the   *)
(* first before the second, and neither ahead of the request in hand.      *)
KeysBehind ==
    /\ output[2].key <= output[1].key
    /\ output[1].key <= served + InHand

(* While the block in hand is the newest, the buffer that the handler      *)
(* fills still holds it, and so does every half made of it.                *)
NewestInBuffer ==
    /\ \A h \in Half : received[h] = arrived
    /\ ~lost /\ task = "work" /\ arrived = hand["task"] =>
           \A h \in Half : output[h].key = served + 1 => output[h].data = arrived

(* With nothing in hand and nothing waiting, the newest block is out.      *)
NewestOut ==
    task # "work" /\ queue = <<>> /\ ~lost /\ arrived > 0 =>
        \A h \in Half : output[h] = [data |-> arrived, key |-> arrived]

DInv == KeysBehind /\ NewestInBuffer /\ NewestOut

LEMMA InitDInv == Init => DInv
  BY DEF Init, DInv, KeysBehind, NewestInBuffer, NewestOut, InHand, Half

LEMMA OutputTypes ==
    ASSUME TypeOK
    PROVE  /\ served \in Nat /\ InHand \in {0, 1}
           /\ \A h \in Half : output[h].key \in Nat
  BY DEF TypeOK, InHand

(* A block that arrives is newer than the one in hand.                     *)
LEMMA ArrivalDInv == IInv /\ DInv /\ DataReceivedISR => DInv'
  <1> SUFFICES ASSUME IInv, DInv, DataReceivedISR PROVE DInv'
    OBVIOUS
  <1>1. /\ UNCHANGED <<output, task, served>>
        /\ arrived' = arrived + 1 /\ received' = [h \in Half |-> arrived']
    BY DEF DataReceivedISR
  <1>2. KeysBehind'
    BY <1>1 DEF DInv, KeysBehind, InHand
  <1>3. ASSUME ~lost', task' = "work", arrived' = hand'["task"] PROVE FALSE
    <2>1. ~lost /\ hand' = hand
      BY <1>3 DEF DataReceivedISR, Q!Accept, Q!Refuse
    <2>2. /\ served + 1 + Len(queue) = arrived /\ hand["task"] = served + 1
          /\ served \in Nat /\ Len(queue) \in Nat
      BY <1>1, <1>3, <2>1 DEF IInv, InOrder, InHand, TypeOK
    <2> QED
      BY <1>1, <1>3, <2>1, <2>2
  <1>4. lost' \/ queue' # <<>>
    <2>1. Q!Accept("isr", arrived') => queue' # <<>>
      BY DEF IInv, TypeOK, Q!Accept
    <2> QED
      BY <2>1 DEF DataReceivedISR
  <1> QED
    BY <1>1, <1>2, <1>3, <1>4 DEF DInv, NewestInBuffer, NewestOut

(* Where neither the buffers nor the count of pieces move, what is in hand *)
(* matters only as the request is taken: no half carries its number yet.   *)
LEMMA TakeRequestDInv == IInv /\ DInv /\ TakeRequest => DInv'
  <1> SUFFICES ASSUME IInv, DInv, TakeRequest PROVE DInv'
    OBVIOUS
  <1>1. /\ task = "drain" /\ task' = "work"
        /\ UNCHANGED <<received, output, arrived, lost, served>>
    BY DEF TakeRequest, buffers
  <1>2. InHand = 0 /\ InHand' = 1
    BY <1>1 DEF InHand
  <1>3. /\ served \in Nat /\ output[1].key \in Nat /\ output[2].key \in Nat
        /\ output[1].key <= served /\ output[2].key <= output[1].key
    BY <1>2, OutputTypes DEF IInv, DInv, KeysBehind, Half
  <1>4. KeysBehind'
    BY <1>1, <1>2, <1>3 DEF KeysBehind
  <1>5. \A h \in Half : output[h].key # served + 1
    BY <1>3 DEF Half
  <1> QED
    BY <1>1, <1>4, <1>5 DEF DInv, NewestInBuffer, NewestOut

(* A half is made of what the buffer holds.                                *)
LEMMA ProcessDInv ==
    ASSUME IInv, DInv, NEW h \in Half, Process(h)
    PROVE  DInv'
  <1>1. /\ task = "work"
        /\ UNCHANGED <<received, arrived, lost, hand, served, task>>
        /\ h = 2 => output[1].key = served + 1
        /\ output' = [output EXCEPT ![h] = [data |-> received[h],
                                            key |-> served + 1]]
    BY DEF Process, qvars, crypto
  <1>2. InHand = 1 /\ InHand' = 1
    BY <1>1 DEF InHand
  <1>3. /\ output'[h].key = served + 1 /\ output'[h].data = received[h]
        /\ \A g \in Half \ {h} : output'[g] = output[g]
    BY <1>1 DEF IInv, TypeOK
  <1>4. /\ served \in Nat /\ output[1].key \in Nat /\ output[2].key \in Nat
        /\ output[1].key <= served + 1 /\ output[2].key <= output[1].key
    BY <1>2, OutputTypes DEF IInv, DInv, KeysBehind, Half
  <1>5. KeysBehind'
    <2>1. CASE h = 1
      <3>1. output'[1].key = served + 1 /\ output'[2] = output[2]
        BY <1>3, <2>1 DEF Half
      <3> QED
        BY <1>1, <1>2, <1>4, <3>1 DEF KeysBehind
    <2>2. CASE h = 2
      <3>1. output'[2].key = served + 1 /\ output'[1] = output[1]
        BY <1>3, <2>2 DEF Half
      <3> QED
        BY <1>1, <1>2, <1>4, <2>2, <3>1 DEF KeysBehind
    <2> QED
      BY <2>1, <2>2 DEF Half
  <1>6. NewestInBuffer'
    BY <1>1, <1>3 DEF DInv, NewestInBuffer
  <1> QED
    BY <1>1, <1>5, <1>6 DEF DInv, NewestOut

(* A request that is finished with nothing behind it was the newest.       *)
LEMMA FinishedNewest ==
    ASSUME IInv, DInv, Processed, ~lost, queue = <<>>, NEW h \in Half
    PROVE  output[h] = [data |-> arrived, key |-> arrived]
  <1>1. task = "work" /\ output[2].key = served + 1
    BY DEF Processed
  <1>2. InHand = 1 /\ arrived = served + 1 /\ arrived = hand["task"]
    BY <1>1, OutputTypes DEF InHand, IInv, InOrder
  <1>3. output[1].key = served + 1
    <2>1. /\ served \in Nat /\ output[1].key \in Nat
          /\ served + 1 <= output[1].key /\ output[1].key <= served + 1
      BY <1>1, <1>2, OutputTypes DEF IInv, DInv, KeysBehind, Half
    <2> QED
      BY <2>1
  <1>4. output[h].key = arrived /\ output[h].data = arrived
    BY <1>1, <1>2, <1>3 DEF DInv, NewestInBuffer, Half
  <1>5. output[h] \in [data : 0 .. MaxBlocks, key : Nat]
    BY DEF IInv, TypeOK
  <1> QED
    BY <1>4, <1>5

LEMMA FinishDInv == IInv /\ DInv /\ Finish => DInv'
  <1> SUFFICES ASSUME IInv, DInv, Finish PROVE DInv'
    OBVIOUS
  <1>1. /\ task = "work" /\ task' = "drain" /\ served' = served + 1
        /\ Processed /\ UNCHANGED <<received, output, arrived, lost, queue>>
    BY DEF Finish, Processed, Q!Finish, buffers
  <1>2. InHand = 1 /\ InHand' = 0
    BY <1>1 DEF InHand
  <1>3. KeysBehind'
    BY <1>1, <1>2, OutputTypes DEF IInv, DInv, KeysBehind
  <1>4. NewestOut'
    BY <1>1, FinishedNewest DEF NewestOut
  <1> QED
    BY <1>1, <1>3, <1>4 DEF DInv, NewestInBuffer

LEMMA RestDInv ==
    ASSUME IInv, DInv,
           \/ TakeSemaphore \/ Return \/ vAppTask \/ encrypt_byte_fast_isr
           \/ UNCHANGED vars
    PROVE  DInv'
  <1>1. UNCHANGED <<received, output, arrived, lost, hand, served, queue>>
    BY DEF TakeSemaphore, Return, vAppTask, AppEncrypts, AppInits,
           AppDecrypts, AppDelays, encrypt_byte_fast_isr, vars, buffers,
           qvars, crypto
  <1>2. InHand' = InHand /\ (task' = "work" <=> task = "work")
    BY DEF TakeSemaphore, Return, vAppTask, AppEncrypts, AppInits,
           AppDecrypts, AppDelays, encrypt_byte_fast_isr, vars, crypto,
           InHand
  <1> QED
    BY <1>1, <1>2 DEF DInv, KeysBehind, NewestInBuffer, NewestOut

LEMMA NextDInv == IInv /\ DInv /\ [Next]_vars => DInv'
  BY ArrivalDInv, TakeRequestDInv, ProcessDInv, FinishDInv, RestDInv
     DEF Next, vCryptoTask, arcfour_process_pending

(* Once the task has caught up, the newest block is decrypted in both      *)
(* halves, if none was dropped (rtos_isr_example.c:68-95, 137-152).        *)
THEOREM LastDecrypted == Spec => []LastBlockDecrypted
  <1>1. IInv /\ DInv => LastBlockDecrypted
    <2> SUFFICES ASSUME IInv, DInv, CaughtUp, ~lost, arrived > 0
                 PROVE  \A h \in Half :
                            output[h] = [data |-> arrived, key |-> arrived]
      BY DEF LastBlockDecrypted
    <2>1. task # "work" /\ queue = <<>>
      BY DEF CaughtUp, IInv, NoLostWakeup
    <2> QED
      BY <2>1 DEF DInv, NewestOut
  <1> QED
    BY <1>1, InitDInv, NextDInv, Inductive, PTL DEF Spec

-----------------------------------------------------------------------------
(* The application task: only its first turn can begin at the start of the *)
(* stream, because every turn leaves the context further on, and a calm    *)
(* decryption does begin there.                                            *)
AppInv ==
    /\ app \in [at : {"encrypt", "init", "decrypt", "verified"}, from : Nat,
                calm : BOOLEAN, same : BOOLEAN, turns : Nat]
    /\ app.at = "encrypt" /\ app.turns > 0 => encPos > 0
    /\ app.at # "encrypt" =>
           app.turns > 0 /\ (app.turns > 1 => app.from > 0)
    /\ app.at = "decrypt" /\ app.calm => encPos = 0
    /\ app.at = "verified" => encPos > 0
    /\ app.at = "verified" /\ app.calm => (app.same <=> app.from = 0)

LEMMA InitAppInv == Init => AppInv
  BY DEF Init, AppInv

LEMMA NextAppInv == TypeOK /\ AppInv /\ [Next]_vars => AppInv'
  <1> SUFFICES ASSUME TypeOK, AppInv, [Next]_vars PROVE AppInv'
    OBVIOUS
  <1> USE DEF AppInv
  <1>1. encPos \in Nat /\ MsgLen \in Nat /\ MsgLen > 0
    BY BoundsAssumption DEF TypeOK
  <1>2. CASE AppEncrypts
    <2>1. /\ app' = [app EXCEPT !.at = "init", !.from = encPos,
                                !.turns = app.turns + 1]
          /\ app.at = "encrypt" /\ app.turns \in Nat
      BY <1>2 DEF AppEncrypts, AppRuns
    <2>2. /\ app'.at = "init" /\ app'.from = encPos
          /\ app'.turns = app.turns + 1
      BY <2>1
    <2>3. app'.turns \in Nat /\ app'.turns > 0
      BY <2>1, <2>2
    <2>4. app'.turns > 1 => app'.from > 0
      BY <2>1, <2>2
    <2>5. app' \in [at : {"encrypt", "init", "decrypt", "verified"},
                    from : Nat, calm : BOOLEAN, same : BOOLEAN, turns : Nat]
      BY <1>1, <2>1, <2>2, <2>3, Zenon
    <2> QED
      BY <2>2, <2>3, <2>4, <2>5
  <1>3. CASE AppInits
    BY <1>1, <1>3 DEF AppInits, AppRuns
  <1>4. CASE AppDecrypts
    <2>1. /\ app' = [app EXCEPT !.at = "verified",
                                !.same = (app.from = encPos)]
          /\ app.at = "decrypt" /\ encPos' = encPos + MsgLen
      BY <1>4 DEF AppDecrypts, AppRuns
    <2>2. /\ app'.at = "verified" /\ app'.from = app.from
          /\ app'.turns = app.turns /\ app'.calm = app.calm
      BY <2>1
    <2>3. app'.same <=> app.from = encPos
      BY <2>1, Zenon
    <2>4. encPos' > 0
      BY <1>1, <2>1
    <2>5. app' \in [at : {"encrypt", "init", "decrypt", "verified"},
                    from : Nat, calm : BOOLEAN, same : BOOLEAN, turns : Nat]
      BY <2>1, Zenon
    <2>6. app.calm => encPos = 0
      BY <2>1
    <2> QED
      BY <2>1, <2>2, <2>3, <2>4, <2>5, <2>6
  <1>5. CASE AppDelays
    BY <1>1, <1>5 DEF AppDelays, AppRuns
  <1>6. CASE encrypt_byte_fast_isr
    <2>1. /\ app' = [app EXCEPT !.calm = FALSE]
          /\ encPos' = encPos + 1 /\ encPos' > 0
      BY <1>1, <1>6 DEF encrypt_byte_fast_isr
    <2>2. /\ app'.at = app.at /\ app'.from = app.from
          /\ app'.turns = app.turns /\ app'.calm = FALSE
      BY <2>1
    <2> QED
      BY <2>1, <2>2
  <1>7. CASE DataReceivedISR \/ vCryptoTask \/ UNCHANGED vars
    <2>1. UNCHANGED appVars
      BY <1>7 DEF DataReceivedISR, vCryptoTask, TakeSemaphore,
                  arcfour_process_pending, TakeRequest, Return, Process,
                  Finish, vars
    <2> QED
      BY <2>1 DEF appVars
  <1> QED
    BY <1>2, <1>3, <1>4, <1>5, <1>6, <1>7 DEF Next, vAppTask

(* The verification succeeds only in the turn whose encryption began at    *)
(* the start of the stream, unless the fast handler moved the context, for *)
(* every length of message and any number of turns                         *)
(* (rtos_isr_example.c:157-179).                                           *)
THEOREM FreshStreamOnly == Spec => []VerifiesOnlyFreshStream
  <1>1. AppInv => VerifiesOnlyFreshStream
    <2> SUFFICES ASSUME AppInv, app.at = "verified", app.calm
                 PROVE  app.same <=> app.turns = 1 /\ app.from = 0
      BY DEF VerifiesOnlyFreshStream
    <2>1. app.same <=> app.from = 0
      BY DEF AppInv
    <2>2. app.from = 0 => app.turns = 1
      BY DEF AppInv
    <2> QED
      BY <2>1, <2>2
  <1> QED
    BY <1>1, InitAppInv, NextAppInv, TypeCorrect, PTL DEF Spec

=============================================================================
