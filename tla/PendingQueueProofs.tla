------------------------- MODULE PendingQueueProofs -------------------------
(***************************************************************************)
(* The safety of PendingQueue, for every set of actors, every priority     *)
(* assignment, every ring size and every nesting of sections, and that it  *)
(* implements the FIFO of DeferredQueue.                                   *)
(***************************************************************************)
EXTENDS PendingQueue, SequenceTheorems, TLAPS

(* An actor inside the section of a call has a PRIMASK value on its stack. *)
InsideHoldsSection ==
    \A a \in Actor : pc[a] \in InSection => saved[a] # <<>>

TInv == TypeOK /\ InsideHoldsSection

-----------------------------------------------------------------------------
LEMMA NextSlot ==
    ASSUME NEW k \in Int
    PROVE  After(k) \in Slot /\ After(k) \in Int
  BY MaxAssumption DEF After, Slot

LEMMA SlotIsNumber == \A k \in Slot : k \in Int
  BY MaxAssumption DEF Slot

LEMMA Labels ==
    /\ DOMAIN EnterTo = {"r_enter", "p_enter", "c_enter", "n_enter"}
    /\ DOMAIN ExitTo = {"r_exit", "p_exit", "c_exit", "n_exit"}
    /\ \A l \in DOMAIN EnterTo : EnterTo[l] \in InSection
    /\ \A l \in DOMAIN ExitTo : l \in InSection /\ ExitTo[l] \in OutOfSection
    /\ \A l \in InSection : l \notin OutOfSection
  BY DEF EnterTo, ExitTo, InSection, OutOfSection

(* Entering a section pushes one value and makes the stack non-empty.      *)
LEMMA EnterStack ==
    ASSUME TypeOK, NEW a \in Actor, EnterCritical(a)
    PROVE  /\ saved' \in [Actor -> Seq({0, 1})]
           /\ primask' \in {0, 1}
           /\ saved'[a] = Append(saved[a], primask)
           /\ saved'[a] # <<>>
           /\ \A b \in Actor \ {a} : saved'[b] = saved[b]
  <1>1. Append(saved[a], primask) \in Seq({0, 1})
    BY DEF TypeOK
  <1>2. Append(saved[a], primask) # <<>>
    <2>1. saved[a] \in Seq({0, 1}) /\ primask \in {0, 1}
      BY DEF TypeOK
    <2> QED
      BY <2>1, AppendProperties
  <1> QED
    BY <1>1, <1>2 DEF TypeOK, EnterCritical

(* Leaving one pops the last value.                                        *)
LEMMA ExitStack ==
    ASSUME TypeOK, NEW a \in Actor, saved[a] # <<>>, ExitCritical(a)
    PROVE  /\ saved' \in [Actor -> Seq({0, 1})]
           /\ primask' \in {0, 1}
           /\ Len(saved[a]) \in Nat \ {0}
           /\ saved'[a] = SubSeq(saved[a], 1, Len(saved[a]) - 1)
           /\ \A b \in Actor \ {a} : saved'[b] = saved[b]
  <1> DEFINE top == Len(saved[a])
  <1>1. saved[a] \in Seq({0, 1}) /\ top \in Nat \ {0}
    BY DEF TypeOK
  <1>2. SubSeq(saved[a], 1, top - 1) \in Seq({0, 1})
    BY <1>1
  <1>3. saved[a][top] \in {0, 1}
    BY <1>1
  <1> QED
    BY <1>1, <1>2, <1>3, PortAssumption DEF TypeOK, ExitCritical

-----------------------------------------------------------------------------
(* Each kind of step keeps TInv: the four that use the macros first.       *)
LEMMA InitTInv == Init => TInv
  BY MaxAssumption, RequestAssumption
     DEF Init, TInv, TypeOK, InsideHoldsSection, Slot, NoLocals,
         InSection, OutOfSection

LEMMA EnterTInv ==
    ASSUME TInv, NEW a \in Actor, Enter(a)
    PROVE  TInv'
  <1>1. /\ EnterTo[pc[a]] \in InSection
        /\ pc' = [pc EXCEPT ![a] = EnterTo[pc[a]]]
    BY Labels DEF Enter, Goto
  <1>2. /\ saved' \in [Actor -> Seq({0, 1})] /\ primask' \in {0, 1}
        /\ saved'[a] # <<>>
        /\ \A b \in Actor \ {a} : saved'[b] = saved[b]
    BY EnterStack DEF TInv, Enter
  <1>3. TypeOK'
    BY <1>1, <1>2 DEF TInv, TypeOK, Enter
  <1>4. InsideHoldsSection'
    BY <1>1, <1>2 DEF TInv, TypeOK, InsideHoldsSection
  <1> QED
    BY <1>3, <1>4 DEF TInv

LEMMA ExitTInv ==
    ASSUME TInv, NEW a \in Actor, Exit(a)
    PROVE  TInv'
  <1>1. /\ ExitTo[pc[a]] \in OutOfSection
        /\ ExitTo[pc[a]] \notin InSection
        /\ pc[a] \in InSection
        /\ pc' = [pc EXCEPT ![a] = ExitTo[pc[a]]]
    BY Labels DEF Exit, Goto
  <1>2. /\ saved' \in [Actor -> Seq({0, 1})] /\ primask' \in {0, 1}
        /\ \A b \in Actor \ {a} : saved'[b] = saved[b]
    BY <1>1, ExitStack DEF TInv, InsideHoldsSection, Exit
  <1>3. NoLocals \in [head : Slot, tail : Slot, req : Request \cup {NoRequest}]
    BY MaxAssumption DEF NoLocals, Slot
  <1>4. local' \in [Actor -> [head : Slot, tail : Slot,
                              req : Request \cup {NoRequest}]]
    BY <1>3 DEF TInv, TypeOK, Exit, Drop
  <1>5. TypeOK'
    BY <1>1, <1>2, <1>4 DEF TInv, TypeOK, Exit
  <1>6. InsideHoldsSection'
    BY <1>1, <1>2 DEF TInv, TypeOK, InsideHoldsSection
  <1> QED
    BY <1>5, <1>6 DEF TInv

LEMMA OpenSectionTInv ==
    ASSUME TInv, NEW a \in Actor, OpenSection(a)
    PROVE  TInv'
  <1>1. /\ saved' \in [Actor -> Seq({0, 1})] /\ primask' \in {0, 1}
        /\ saved'[a] # <<>>
        /\ \A b \in Actor \ {a} : saved'[b] = saved[b]
    BY EnterStack DEF TInv, OpenSection
  <1> QED
    BY <1>1 DEF TInv, TypeOK, InsideHoldsSection, OpenSection

LEMMA CloseSectionTInv ==
    ASSUME TInv, NEW a \in Actor, CloseSection(a)
    PROVE  TInv'
  <1>1. /\ saved' \in [Actor -> Seq({0, 1})] /\ primask' \in {0, 1}
        /\ \A b \in Actor \ {a} : saved'[b] = saved[b]
    BY ExitStack DEF TInv, CloseSection
  <1>2. pc[a] \notin InSection
    BY DEF CloseSection, At, InSection
  <1> QED
    BY <1>1, <1>2 DEF TInv, TypeOK, InsideHoldsSection, CloseSection

(* The steps that leave the stacks alone move inside a section, or move    *)
(* outside of one.                                                         *)
StackUntouched(a) ==
    \/ \E r \in Request : BeginRequest(a, r)
    \/ BeginProcess(a) \/ BeginClear(a) \/ BeginCount(a)
    \/ ReadHead(a) \/ RequestTest(a) \/ RequestWrite(a) \/ RequestPublish(a)
    \/ ProcessTest(a) \/ ProcessTake(a) \/ ProcessAdvance(a) \/ ProcessRun(a)
    \/ ClearTail(a) \/ ClearHead(a) \/ CountRead(a)

LEMMA UntouchedMoves ==
    ASSUME TInv, NEW a \in Actor, StackUntouched(a)
    PROVE  /\ UNCHANGED <<saved, primask>>
           /\ \E l \in InSection \cup OutOfSection :
                 /\ pc' = [pc EXCEPT ![a] = l]
                 /\ l \in InSection <=> pc[a] \in InSection
  <1>1. CASE \E r \in Request : BeginRequest(a, r)
    BY <1>1 DEF BeginRequest, Invoke, At, Goto, InSection, OutOfSection
  <1>2. CASE BeginProcess(a) \/ BeginClear(a) \/ BeginCount(a)
    BY <1>2 DEF BeginProcess, BeginClear, BeginCount, Invoke, At, Goto,
                InSection, OutOfSection
  <1>3. CASE ReadHead(a)
    BY <1>3 DEF ReadHead, At, Goto, InSection, OutOfSection
  <1>4. CASE RequestTest(a)
    BY <1>4 DEF RequestTest, At, Goto, InSection, OutOfSection
  <1>5. CASE RequestWrite(a) \/ RequestPublish(a)
    BY <1>5 DEF RequestWrite, RequestPublish, At, Goto, InSection, OutOfSection
  <1>6. CASE ProcessTest(a)
    <2> DEFINE next == IF tail # head THEN "p_enter" ELSE "idle"
    <2>1. /\ next \in OutOfSection /\ next \notin InSection
          /\ pc[a] \notin InSection
          /\ pc' = [pc EXCEPT ![a] = next]
          /\ UNCHANGED <<saved, primask>>
      BY <1>6 DEF ProcessTest, At, Goto, InSection, OutOfSection
    <2> HIDE DEF next
    <2> QED
      BY <2>1
  <1>7. CASE ProcessTake(a) \/ ProcessAdvance(a) \/ ProcessRun(a)
    BY <1>7 DEF ProcessTake, ProcessAdvance, ProcessRun, At, Goto,
                InSection, OutOfSection
  <1>8. CASE ClearTail(a) \/ ClearHead(a) \/ CountRead(a)
    BY <1>8 DEF ClearTail, ClearHead, CountRead, At, Goto,
                InSection, OutOfSection
  <1> QED
    BY <1>1, <1>2, <1>3, <1>4, <1>5, <1>6, <1>7, <1>8 DEF StackUntouched

LEMMA CountIsNumber ==
    ASSUME NEW h \in Slot, NEW t \in Slot
    PROVE  PendingCount(h, t) \in Int
  BY SlotIsNumber, MaxAssumption DEF PendingCount

(* What those steps do to the shared queue and to the locals is well typed. *)
LEMMA UntouchedTypes ==
    ASSUME TInv, NEW a \in Actor, StackUntouched(a)
    PROVE  /\ slots' \in [Slot -> Request \cup {NoRequest}]
           /\ head' \in Slot /\ tail' \in Slot
           /\ local' \in [Actor -> [head : Slot, tail : Slot,
                                    req : Request \cup {NoRequest}]]
           /\ ret' \in [Actor -> Int]
  <1> DEFINE Locals == [head : Slot, tail : Slot, req : Request \cup {NoRequest}]
  <1>1. /\ slots \in [Slot -> Request \cup {NoRequest}]
        /\ head \in Slot /\ tail \in Slot /\ ret \in [Actor -> Int]
        /\ local \in [Actor -> Locals]
    BY DEF TInv, TypeOK
  <1>2. /\ local[a].head \in Slot /\ local[a].tail \in Slot
        /\ local[a].req \in Request \cup {NoRequest}
    BY <1>1
  <1>3. After(local[a].head) \in Slot /\ After(local[a].tail) \in Slot
    BY <1>2, NextSlot, SlotIsNumber
  <1>4. 0 \in Slot /\ NoLocals \in Locals
    BY MaxAssumption DEF Slot, NoLocals
  <1>5. CASE \E r \in Request : BeginRequest(a, r)
    BY <1>1, <1>5 DEF BeginRequest, Invoke
  <1>6. CASE BeginProcess(a) \/ BeginClear(a) \/ BeginCount(a)
    BY <1>1, <1>6 DEF BeginProcess, BeginClear, BeginCount, Invoke
  <1>7. CASE ReadHead(a)
    BY <1>1, <1>7 DEF ReadHead
  <1>8. CASE RequestTest(a)
    BY <1>1, <1>8 DEF RequestTest
  <1>9. CASE RequestWrite(a)
    BY <1>1, <1>2, <1>9 DEF RequestWrite
  <1>10. CASE RequestPublish(a)
    BY <1>1, <1>3, <1>10 DEF RequestPublish
  <1>11. CASE ProcessTest(a)
    BY <1>1, <1>11 DEF ProcessTest
  <1>12. CASE ProcessTake(a)
    <2>1. slots[tail] \in Request \cup {NoRequest}
      BY <1>1
    <2> QED
      BY <1>1, <1>12, <2>1 DEF ProcessTake
  <1>13. CASE ProcessAdvance(a)
    BY <1>1, <1>3, <1>13 DEF ProcessAdvance
  <1>14. CASE ProcessRun(a)
    BY <1>1, <1>4, <1>14 DEF ProcessRun, Drop
  <1>15. CASE ClearTail(a) \/ ClearHead(a)
    BY <1>1, <1>4, <1>15 DEF ClearTail, ClearHead
  <1>16. CASE CountRead(a)
    <2>1. PendingCount(local[a].head, tail) \in Int
      BY <1>1, <1>2, CountIsNumber
    <2> QED
      BY <1>1, <1>16, <2>1 DEF CountRead
  <1> QED
    BY <1>5, <1>6, <1>7, <1>8, <1>9, <1>10, <1>11, <1>12, <1>13, <1>14,
       <1>15, <1>16 DEF StackUntouched

LEMMA UntouchedTInv ==
    ASSUME TInv, NEW a \in Actor, StackUntouched(a)
    PROVE  TInv'
  <1>1. TypeOK'
    BY UntouchedMoves, UntouchedTypes DEF TInv, TypeOK
  <1>2. InsideHoldsSection'
    BY UntouchedMoves DEF TInv, TypeOK, InsideHoldsSection
  <1> QED
    BY <1>1, <1>2 DEF TInv

LEMMA NextCases ==
    ASSUME Next
    PROVE  \E a \in Actor : \/ Enter(a) \/ Exit(a)
                            \/ OpenSection(a) \/ CloseSection(a)
                            \/ StackUntouched(a)
  BY DEF Next, Begin, Continue, StackUntouched

LEMMA InductiveTInv == Spec => []TInv
  <1>1. TInv /\ Next => TInv'
    BY NextCases, EnterTInv, ExitTInv, OpenSectionTInv, CloseSectionTInv,
       UntouchedTInv
  <1>2. TInv /\ UNCHANGED vars => TInv'
    BY DEF TInv, TypeOK, InsideHoldsSection, vars
  <1> QED
    BY <1>1, <1>2, InitTInv, PTL DEF Spec

(* The ring indices, the saved PRIMASK values and the locals of every call *)
(* keep their types under every set of macros: no index leaves the ring.   *)
THEOREM TypeCorrect == Spec => []TypeOK
  BY InductiveTInv, PTL DEF TInv

-----------------------------------------------------------------------------
(***************************************************************************)
(* Mutual exclusion, with the macros of Cortex-M4 and M33.  It is not      *)
(* inductive: an exit is right only because the value it restores is right *)
(* and that depends on what was saved at the bottom of the stack.          *)
(***************************************************************************)
(* The outermost section found interrupts enabled, every inner one masked. *)
Shaped(s) ==
    /\ s # <<>> => s[1] = 0
    /\ \A k \in 2 .. Len(s) : s[k] = 1

SectionInv ==
    /\ MutualExclusion
    /\ MaskedWhileInside
    /\ \A a \in Actor : Shaped(saved[a])

LEMMA PushShaped ==
    ASSUME NEW s \in Seq({0, 1}), Shaped(s), NEW v \in {0, 1},
           v = 0 <=> s = <<>>
    PROVE  Shaped(Append(s, v))
  <1> DEFINE t == Append(s, v)
  <1>1. /\ Len(t) = Len(s) + 1 /\ Len(s) \in Nat
        /\ t[Len(s) + 1] = v
        /\ \A k \in 1 .. Len(s) : t[k] = s[k]
    BY AppendProperties
  <1>2. CASE s = <<>>
    BY <1>1, <1>2 DEF Shaped
  <1>3. CASE s # <<>>
    <2>1. v = 1 /\ Len(s) >= 1
      BY <1>3
    <2> QED
      BY <1>1, <1>3, <2>1 DEF Shaped
  <1> QED
    BY <1>2, <1>3

LEMMA PopShaped ==
    ASSUME NEW s \in Seq({0, 1}), Shaped(s), s # <<>>
    PROVE  LET rest == SubSeq(s, 1, Len(s) - 1)
           IN  /\ Shaped(rest)
               /\ s[Len(s)] \in {0, 1}
               /\ s[Len(s)] = 0 <=> rest = <<>>
  <1> DEFINE rest == SubSeq(s, 1, Len(s) - 1)
  <1>1. Len(s) \in Nat /\ Len(s) >= 1
    OBVIOUS
  <1>2. /\ Len(rest) = Len(s) - 1
        /\ \A k \in 1 .. Len(s) - 1 : rest[k] = s[k]
    BY <1>1
  <1>3. rest = <<>> <=> Len(s) = 1
    <2>1. rest \in Seq({0, 1})
      BY <1>1
    <2> HIDE DEF rest
    <2>2. rest = <<>> <=> Len(rest) = 0
      BY <2>1, EmptySeq
    <2> QED
      BY <1>1, <1>2, <2>2
  <1>4. s[Len(s)] = 0 <=> Len(s) = 1
    <2>1. CASE Len(s) = 1
      BY <2>1 DEF Shaped
    <2>2. CASE Len(s) # 1
      <3> DEFINE n == Len(s)
      <3>1. n \in 2 .. n
        <4>1. n \in Nat /\ n >= 1 /\ n # 1
          BY <1>1, <2>2
        <4> HIDE DEF n
        <4> QED
          BY <4>1
      <3>2. s[Len(s)] = 1
        BY <3>1 DEF Shaped
      <3> QED
        BY <2>2, <3>2
    <2> QED
      BY <2>1, <2>2
  <1>5. Shaped(rest)
    BY <1>1, <1>2, <1>3 DEF Shaped
  <1> QED
    BY <1>1, <1>3, <1>4, <1>5

(* An entry is made with interrupts enabled and nobody inside, or by the   *)
(* one actor that is inside.                                               *)
LEMMA EnterSection ==
    ASSUME TypeOK, SectionInv, Port = "save",
           NEW a \in Actor, Runs(a), EnterCritical(a)
    PROVE  SectionInv'
  <1>1. /\ saved[a] \in Seq({0, 1}) /\ primask \in {0, 1}
        /\ primask' = 1
        /\ primask = 0 <=> saved[a] = <<>>
    BY DEF TypeOK, SectionInv, MaskedWhileInside, Runs, EnterCritical
  <1>2. \A b \in Actor \ {a} : saved[b] = <<>>
    BY <1>1 DEF SectionInv, MaskedWhileInside, MutualExclusion
  <1>3. /\ saved'[a] = Append(saved[a], primask)
        /\ saved'[a] # <<>>
        /\ \A b \in Actor \ {a} : saved'[b] = <<>>
    BY <1>2, EnterStack
  <1>4. Shaped(saved'[a])
    BY <1>1, <1>3, PushShaped DEF SectionInv
  <1>5. \A b \in Actor : Shaped(saved'[b])
    <2>1. Shaped(<<>>)
      BY DEF Shaped
    <2> QED
      BY <1>3, <1>4, <2>1
  <1> QED
    BY <1>1, <1>3, <1>5 DEF SectionInv, MutualExclusion, MaskedWhileInside

LEMMA ExitSection ==
    ASSUME TypeOK, SectionInv, Port = "save",
           NEW a \in Actor, saved[a] # <<>>, ExitCritical(a)
    PROVE  SectionInv'
  <1> DEFINE rest == SubSeq(saved[a], 1, Len(saved[a]) - 1)
  <1>1. saved[a] \in Seq({0, 1}) /\ Shaped(saved[a])
    BY DEF TypeOK, SectionInv
  <1>2. /\ Shaped(rest)
        /\ saved[a][Len(saved[a])] \in {0, 1}
        /\ saved[a][Len(saved[a])] = 0 <=> rest = <<>>
    BY <1>1, PopShaped
  <1>3. \A b \in Actor \ {a} : saved[b] = <<>>
    BY DEF SectionInv, MutualExclusion
  <1>4. /\ saved'[a] = rest
        /\ \A b \in Actor \ {a} : saved'[b] = <<>>
    BY <1>3, ExitStack
  <1>5. primask' = saved[a][Len(saved[a])]
    BY DEF ExitCritical
  <1>6. \A b \in Actor : Shaped(saved'[b])
    <2>1. Shaped(<<>>)
      BY DEF Shaped
    <2> QED
      BY <1>2, <1>4, <2>1
  <1> HIDE DEF rest
  <1>7. MaskedWhileInside'
    BY <1>2, <1>4, <1>5 DEF MaskedWhileInside
  <1>8. MutualExclusion'
    BY <1>4 DEF MutualExclusion
  <1> QED
    BY <1>6, <1>7, <1>8 DEF SectionInv

LEMMA NextSection ==
    ASSUME TInv, SectionInv, Port = "save", Next
    PROVE  SectionInv'
  <1>1. PICK a \in Actor : \/ Enter(a) \/ Exit(a)
                           \/ OpenSection(a) \/ CloseSection(a)
                           \/ StackUntouched(a)
    BY NextCases
  <1>2. TypeOK
    BY DEF TInv
  <1>3. CASE Enter(a)
    BY <1>2, <1>3, EnterSection DEF Enter
  <1>4. CASE Exit(a)
    <2>1. pc[a] \in InSection
      BY <1>4, Labels DEF Exit
    <2>2. saved[a] # <<>>
      BY <2>1 DEF TInv, InsideHoldsSection
    <2> QED
      BY <1>2, <1>4, <2>2, ExitSection DEF Exit
  <1>5. CASE OpenSection(a)
    BY <1>2, <1>5, EnterSection DEF OpenSection, At
  <1>6. CASE CloseSection(a)
    BY <1>2, <1>6, ExitSection DEF CloseSection
  <1>7. CASE StackUntouched(a)
    <2>1. UNCHANGED <<saved, primask>>
      BY <1>7, UntouchedMoves
    <2> QED
      BY <2>1 DEF SectionInv, MutualExclusion, MaskedWhileInside
  <1> QED
    BY <1>1, <1>3, <1>4, <1>5, <1>6, <1>7

LEMMA InductiveSection ==
    ASSUME Port = "save"
    PROVE  Spec => [](TInv /\ SectionInv)
  <1>1. Init => SectionInv
    BY DEF Init, SectionInv, MutualExclusion, MaskedWhileInside, Shaped
  <1>2. TInv /\ SectionInv /\ [Next]_vars => SectionInv'
    <2>1. SectionInv /\ UNCHANGED vars => SectionInv'
      BY DEF SectionInv, MutualExclusion, MaskedWhileInside, vars
    <2> QED
      BY <2>1, NextSection
  <1> QED
    BY <1>1, <1>2, InductiveTInv, PTL DEF Spec

(* With the macros that save and restore PRIMASK, two actors are never     *)
(* inside at once, for any number of handlers, priorities and nestings.    *)
THEOREM ExclusionHolds ==
    ASSUME Port = "save"
    PROVE  Spec => []MutualExclusion
  BY InductiveSection, PTL DEF SectionInv

(* Nested exits neither open an outer section early nor leave interrupts   *)
(* held back for good.                                                     *)
THEOREM MaskingBalanced ==
    ASSUME Port = "save"
    PROVE  Spec => []MaskedWhileInside
  BY InductiveSection, PTL DEF SectionInv

-----------------------------------------------------------------------------
(***************************************************************************)
(* One consumer.  The loop test of process_pending is made outside the     *)
(* section and not repeated inside; it is still true there because only    *)
(* the consumer's own actor moves tail or clears, and a publish leaves a   *)
(* queue that is not empty.                                                *)
(***************************************************************************)
OnlyConsumer(m) ==
    \A a \in Actor : "process" \in May[a] \/ "clear" \in May[a] => a = m

(* The service a label belongs to, for the two that move tail.             *)
ConsumerLabels ==
    {"p_test", "p_enter", "p_take", "p_advance", "p_exit", "p_run",
     "c_enter", "c_tail", "c_head", "c_exit"}

ConsumesAlone(m) == \A a \in Actor : pc[a] \in ConsumerLabels => a = m

(* A producer inside its section works with the current head, and has room. *)
Producing ==
    \A a \in Actor :
        /\ pc[a] \in {"r_tail", "r_write", "r_publish"} => local[a].head = head
        /\ pc[a] \in {"r_write", "r_publish"} => After(head) # tail

(* From the loop test to the take, something is waiting.                   *)
Waiting ==
    \A a \in Actor :
        pc[a] \in {"p_enter", "p_take", "p_advance"} => head # tail

TakeInv(m) == ConsumesAlone(m) /\ Producing /\ Waiting

LEMMA OneInside ==
    ASSUME TInv, SectionInv
    PROVE  \A a, b \in Actor : pc[a] \in InSection /\ pc[b] \in InSection
               => a = b
  BY DEF TInv, InsideHoldsSection, SectionInv, MutualExclusion

(* A step moves no label but its actor's, from a consumer label only to    *)
(* a consumer label or idle.                                               *)
LEMMA NextConsumesAlone ==
    ASSUME TInv, NEW m \in Actor, OnlyConsumer(m), ConsumesAlone(m),
           NEW a \in Actor, Begin(a) \/ Continue(a)
    PROVE  ConsumesAlone(m)'
  <1>1. pc \in [Actor -> InSection \cup OutOfSection]
    BY DEF TInv, TypeOK
  <1>2. CASE BeginProcess(a) \/ BeginClear(a)
    BY <1>1, <1>2 DEF BeginProcess, BeginClear, Invoke, Goto, OnlyConsumer,
                      ConsumesAlone
  <1>3. CASE \/ \E r \in Request : BeginRequest(a, r)
             \/ BeginCount(a)
    BY <1>1, <1>3 DEF BeginRequest, BeginCount, Invoke, Goto, ConsumesAlone,
                      ConsumerLabels
  <1>4. CASE OpenSection(a) \/ CloseSection(a)
    BY <1>4 DEF OpenSection, CloseSection, ConsumesAlone
  <1>5. CASE Enter(a)
    <2>1. /\ pc' = [pc EXCEPT ![a] = EnterTo[pc[a]]]
          /\ EnterTo[pc[a]] \in ConsumerLabels => pc[a] \in ConsumerLabels
      BY <1>5 DEF Enter, Goto, EnterTo, ConsumerLabels
    <2> QED
      BY <1>1, <2>1 DEF ConsumesAlone
  <1>6. CASE Exit(a)
    <2>1. /\ pc' = [pc EXCEPT ![a] = ExitTo[pc[a]]]
          /\ ExitTo[pc[a]] \in ConsumerLabels => pc[a] \in ConsumerLabels
      BY <1>6 DEF Exit, Goto, ExitTo, ConsumerLabels
    <2> QED
      BY <1>1, <2>1 DEF ConsumesAlone
  <1>7. CASE \/ ReadHead(a) \/ RequestTest(a) \/ RequestWrite(a)
             \/ RequestPublish(a) \/ CountRead(a)
    BY <1>1, <1>7 DEF ReadHead, RequestTest, RequestWrite, RequestPublish,
                      CountRead, At, Goto, ConsumesAlone, ConsumerLabels
  <1>8. CASE \/ ProcessTest(a) \/ ProcessTake(a) \/ ProcessAdvance(a)
             \/ ProcessRun(a) \/ ClearTail(a) \/ ClearHead(a)
    <2>1. pc[a] \in ConsumerLabels
      BY <1>8 DEF ProcessTest, ProcessTake, ProcessAdvance, ProcessRun,
                  ClearTail, ClearHead, At, ConsumerLabels
    <2>2. a = m
      BY <2>1 DEF ConsumesAlone
    <2>3. \A b \in Actor \ {a} : pc'[b] = pc[b]
      BY <1>1, <1>8 DEF ProcessTest, ProcessTake, ProcessAdvance, ProcessRun,
                        ClearTail, ClearHead, Goto
    <2> QED
      BY <2>2, <2>3 DEF ConsumesAlone
  <1> QED
    BY <1>2, <1>3, <1>4, <1>5, <1>6, <1>7, <1>8 DEF Begin, Continue

(* The steps that leave head and tail alone: only what the actor itself    *)
(* has just learnt needs a look.                                           *)
LEMMA QuietKeeps ==
    ASSUME TInv, Producing, Waiting, NEW a \in Actor,
           UNCHANGED <<head, tail>>,
           \A b \in Actor \ {a} : pc'[b] = pc[b] /\ local'[b] = local[b],
           pc'[a] \in {"r_tail", "r_write", "r_publish"}
               => local'[a].head = head,
           pc'[a] \in {"r_write", "r_publish"} => After(head) # tail,
           pc'[a] \in {"p_enter", "p_take", "p_advance"} => head # tail
    PROVE  Producing' /\ Waiting'
  BY DEF Producing, Waiting, After

(* The steps that move head or tail are made inside a section, where       *)
(* nobody else is.                                                         *)
LEMMA MoveKeeps ==
    ASSUME TInv, SectionInv, NEW m \in Actor, ConsumesAlone(m),
           Producing, Waiting,
           NEW a \in Actor, pc[a] \in InSection,
           pc'[a] \notin {"r_tail", "r_write", "r_publish",
                          "p_enter", "p_take", "p_advance"},
           \A b \in Actor \ {a} : pc'[b] = pc[b] /\ local'[b] = local[b],
           head' # tail' \/ a = m
    PROVE  Producing' /\ Waiting'
  <1>1. \A b \in Actor \ {a} : pc'[b] \notin InSection
    BY OneInside
  <1>2. Producing'
    BY <1>1 DEF Producing, InSection
  <1>3. Waiting'
    BY DEF Waiting, ConsumesAlone, ConsumerLabels
  <1> QED
    BY <1>2, <1>3

LEMMA NextTake ==
    ASSUME TInv, SectionInv, NEW m \in Actor, OnlyConsumer(m), TakeInv(m), Next
    PROVE  TakeInv(m)'
  <1>1. PICK a \in Actor : Begin(a) \/ Continue(a)
    BY DEF Next
  <1>2. /\ pc \in [Actor -> InSection \cup OutOfSection]
        /\ local \in [Actor -> [head : Slot, tail : Slot,
                                req : Request \cup {NoRequest}]]
    BY DEF TInv, TypeOK
  <1>3. ConsumesAlone(m) /\ Producing /\ Waiting
    BY DEF TakeInv
  <1>4. SUFFICES Producing' /\ Waiting'
    BY <1>1, <1>3, NextConsumesAlone DEF TakeInv
  <1> DEFINE Others == \A b \in Actor \ {a} :
                          pc'[b] = pc[b] /\ local'[b] = local[b]
             Fresh == /\ pc'[a] \in {"r_tail", "r_write", "r_publish"}
                          => local'[a].head = head
                      /\ pc'[a] \in {"r_write", "r_publish"}
                          => After(head) # tail
                      /\ pc'[a] \in {"p_enter", "p_take", "p_advance"}
                          => head # tail
             Quiet == UNCHANGED <<head, tail>> /\ Others /\ Fresh
             Still == pc'[a] \notin {"r_tail", "r_write", "r_publish",
                                     "p_enter", "p_take", "p_advance"}
             Moved == /\ pc[a] \in InSection /\ Still /\ Others
                      /\ head' # tail' \/ a = m
  <1>5. CASE \/ \E r \in Request : BeginRequest(a, r)
             \/ BeginProcess(a) \/ BeginClear(a) \/ BeginCount(a)
    <2>1. Quiet
      BY <1>2, <1>5 DEF BeginRequest, BeginProcess, BeginClear, BeginCount,
                        Invoke, Goto
    <2> QED
      BY <1>3, <2>1, QuietKeeps
  <1>6. CASE OpenSection(a) \/ CloseSection(a)
    <2>1. Quiet
      BY <1>2, <1>6 DEF OpenSection, CloseSection, At
    <2> QED
      BY <1>3, <2>1, QuietKeeps
  <1>7. CASE Enter(a)
    <2>1. /\ UNCHANGED <<head, tail, local>>
          /\ pc' = [pc EXCEPT ![a] = EnterTo[pc[a]]]
          /\ pc[a] \in DOMAIN EnterTo
      BY <1>7 DEF Enter, Goto
    <2>2. /\ EnterTo[pc[a]] \notin {"r_tail", "r_write", "r_publish"}
          /\ EnterTo[pc[a]] \in {"p_enter", "p_take", "p_advance"}
                => pc[a] = "p_enter"
      BY <2>1 DEF EnterTo
    <2>3. Quiet
      BY <1>2, <1>3, <2>1, <2>2 DEF Waiting
    <2> QED
      BY <1>3, <2>3, QuietKeeps
  <1>8. CASE Exit(a)
    <2>1. /\ UNCHANGED <<head, tail>>
          /\ pc' = [pc EXCEPT ![a] = ExitTo[pc[a]]]
          /\ \A b \in Actor \ {a} : local'[b] = local[b]
          /\ pc[a] \in DOMAIN ExitTo
      BY <1>2, <1>8 DEF Exit, Goto, Drop
    <2>2. ExitTo[pc[a]] \notin {"r_tail", "r_write", "r_publish",
                                "p_enter", "p_take", "p_advance"}
      BY <2>1 DEF ExitTo
    <2>3. Quiet
      BY <1>2, <2>1, <2>2
    <2> QED
      BY <1>3, <2>3, QuietKeeps
  <1>9. CASE ReadHead(a)
    <2>1. Quiet
      BY <1>2, <1>9 DEF ReadHead, At, Goto
    <2> QED
      BY <1>3, <2>1, QuietKeeps
  <1>10. CASE RequestTest(a)
    <2>1. local[a].head = head
      BY <1>3, <1>10 DEF RequestTest, At, Producing
    <2>2. Quiet
      BY <1>2, <1>10, <2>1 DEF RequestTest, Goto
    <2> QED
      BY <1>3, <2>2, QuietKeeps
  <1>11. CASE RequestWrite(a)
    <2>1. local[a].head = head /\ After(head) # tail
      BY <1>3, <1>11 DEF RequestWrite, At, Producing
    <2>2. Quiet
      BY <1>2, <1>11, <2>1 DEF RequestWrite, Goto
    <2> QED
      BY <1>3, <2>2, QuietKeeps
  <1>12. CASE RequestPublish(a)
    <2>1. local[a].head = head /\ After(head) # tail
      BY <1>3, <1>12 DEF RequestPublish, At, Producing
    <2>2. Moved
      BY <1>2, <1>12, <2>1 DEF RequestPublish, At, Goto, InSection
    <2> QED
      BY <1>3, <2>2, MoveKeeps
  <1>13. CASE ProcessTest(a)
    <2>1. Quiet
      BY <1>2, <1>13 DEF ProcessTest, Goto
    <2> QED
      BY <1>3, <2>1, QuietKeeps
  <1>14. CASE ProcessTake(a)
    <2>1. head # tail
      BY <1>3, <1>14 DEF ProcessTake, At, Waiting
    <2>2. Quiet
      BY <1>2, <1>14, <2>1 DEF ProcessTake, Goto
    <2> QED
      BY <1>3, <2>2, QuietKeeps
  <1>15. CASE ProcessRun(a)
    <2>1. Quiet
      BY <1>2, <1>15 DEF ProcessRun, Goto, Drop
    <2> QED
      BY <1>3, <2>1, QuietKeeps
  <1>16. CASE ProcessAdvance(a) \/ ClearTail(a) \/ ClearHead(a)
    <2>1. a = m
      BY <1>3, <1>16 DEF ProcessAdvance, ClearTail, ClearHead, At,
                         ConsumesAlone, ConsumerLabels
    <2>2. Moved
      BY <1>2, <1>16, <2>1 DEF ProcessAdvance, ClearTail, ClearHead, At, Goto,
                               InSection
    <2> QED
      BY <1>3, <2>2, MoveKeeps
  <1>17. CASE CountRead(a)
    <2>1. Quiet
      BY <1>2, <1>17 DEF CountRead, Goto
    <2> QED
      BY <1>3, <2>1, QuietKeeps
  <1> QED
    BY <1>1, <1>5, <1>6, <1>7, <1>8, <1>9, <1>10, <1>11, <1>12, <1>13,
       <1>14, <1>15, <1>16, <1>17 DEF Begin, Continue

(* With one consumer, who is also the only one to clear, no take ever      *)
(* finds the ring empty, although the loop test precedes the section       *)
(* (arcfour_isr.c:206-214).  With another one to clear, one may.           *)
THEOREM TakesPending ==
    ASSUME Port = "save", NEW m \in Actor, OnlyConsumer(m)
    PROVE  Spec => [][\A a \in Actor : ProcessAdvance(a) => head # tail]_vars
  <1> DEFINE Inv == TInv /\ SectionInv /\ TakeInv(m)
  <1>1. Init => TakeInv(m)
    BY DEF Init, TakeInv, ConsumesAlone, Producing, Waiting, ConsumerLabels
  <1>2. TInv /\ SectionInv /\ TakeInv(m) /\ [Next]_vars => TakeInv(m)'
    <2>1. TakeInv(m) /\ UNCHANGED vars => TakeInv(m)'
      BY DEF TakeInv, ConsumesAlone, Producing, Waiting, After, vars
    <2> QED
      BY <2>1, NextTake
  <1>3. TakeInv(m) =>
            [\A a \in Actor : ProcessAdvance(a) => head # tail]_vars
    BY DEF TakeInv, Waiting, ProcessAdvance, At
  <1>4. Spec => [](TInv /\ SectionInv)
    BY InductiveSection
  <1> QED
    BY <1>1, <1>2, <1>3, <1>4, PTL DEF Spec

-----------------------------------------------------------------------------
(***************************************************************************)
(* The ring.  What the index arithmetic does, and what a store to head, to *)
(* tail or to the slot at head does to the pending requests.               *)
(***************************************************************************)
LEMMA Wrap ==
    ASSUME NEW x \in Int
    PROVE  /\ x \in 0 .. Max - 1 => x % Max = x
           /\ x \in Max .. 2 * Max - 1 => x % Max = x - Max
           /\ x \in -Max .. -1 => x % Max = x + Max
  <1>1. Max \in Nat /\ Max > 1
    BY MaxAssumption
  <1>2. /\ x \div Max \in Int /\ x % Max \in 0 .. Max - 1
        /\ x = Max * (x \div Max) + (x % Max)
    BY <1>1
  <1> DEFINE q == x \div Max
             r == x % Max
  <1>3. q \in Int /\ r \in 0 .. Max - 1 /\ x = Max * q + r
    BY <1>2
  <1> HIDE DEF q, r
  <1>4. CASE q = 0
    BY <1>1, <1>3, <1>4 DEF q, r
  <1>5. CASE q = 1
    BY <1>1, <1>3, <1>5 DEF q, r
  <1>6. CASE q = -1
    BY <1>1, <1>3, <1>6 DEF q, r
  <1>7. CASE q >= 2
    <2>1. Max * q >= Max * 2
      BY <1>1, <1>3, <1>7
    <2> QED
      BY <1>1, <1>3, <2>1
  <1>8. CASE q <= -2
    <2>1. Max * q <= Max * (-2)
      BY <1>1, <1>3, <1>8
    <2> QED
      BY <1>1, <1>3, <2>1
  <1> QED
    BY <1>3, <1>4, <1>5, <1>6, <1>7, <1>8

(* How many slots lie from t up to h, and the slot k places after t.       *)
Distance(h, t) == (h - t) % Max
Place(t, k) == (t + k) % Max

LEMMA DistanceValue ==
    ASSUME NEW h \in Slot, NEW t \in Slot
    PROVE  /\ Distance(h, t) = IF h >= t THEN h - t ELSE h - t + Max
           /\ Distance(h, t) \in 0 .. Max - 1
           /\ Distance(h, t) = 0 <=> h = t
  <1>1. h \in 0 .. Max - 1 /\ t \in 0 .. Max - 1 /\ Max \in Nat
    BY MaxAssumption DEF Slot
  <1> QED
    BY <1>1, Wrap DEF Distance

LEMMA PlaceValue ==
    ASSUME NEW t \in Slot, NEW k \in 0 .. Max - 1
    PROVE  /\ Place(t, k) = IF t + k < Max THEN t + k ELSE t + k - Max
           /\ Place(t, k) \in Slot
  <1>1. t \in 0 .. Max - 1 /\ k \in 0 .. Max - 1 /\ Max \in Nat
    BY MaxAssumption DEF Slot
  <1> QED
    BY <1>1, Wrap DEF Place, Slot

LEMMA AfterValue ==
    ASSUME NEW k \in Slot
    PROVE  After(k) = IF k + 1 = Max THEN 0 ELSE k + 1
  <1>1. k \in 0 .. Max - 1 /\ Max \in Nat
    BY MaxAssumption DEF Slot
  <1> QED
    BY <1>1, Wrap DEF After

(* The slot at head is as far from tail as there are requests; storing     *)
(* there moves head one further; taking moves tail one nearer.             *)
LEMMA Indices ==
    ASSUME NEW h \in Slot, NEW t \in Slot
    PROVE  /\ Place(t, Distance(h, t)) = h
           /\ \A k \in 0 .. Distance(h, t) - 1 : Place(t, k) # h
           /\ After(h) # t => Distance(After(h), t) = Distance(h, t) + 1
           /\ After(h) = t <=> Distance(h, t) = Max - 1
           /\ h # t => /\ Distance(h, After(t)) = Distance(h, t) - 1
                       /\ \A k \in 0 .. Distance(h, t) - 2 :
                              Place(After(t), k) = Place(t, k + 1)
           /\ Place(t, 0) = t
           /\ PendingCount(h, t) = Distance(h, t)
  <1>1. h \in 0 .. Max - 1 /\ t \in 0 .. Max - 1 /\ Max \in Nat /\ Max > 1
    BY MaxAssumption DEF Slot
  <1> DEFINE d == Distance(h, t)
  <1>2. d = (IF h >= t THEN h - t ELSE h - t + Max) /\ d \in 0 .. Max - 1
    BY DistanceValue
  <1>3. \A k \in 0 .. Max - 1 :
            Place(t, k) = IF t + k < Max THEN t + k ELSE t + k - Max
    BY PlaceValue
  <1>4. After(h) \in Slot /\ After(t) \in Slot
    BY <1>1, NextSlot
  <1>5. /\ After(h) = IF h + 1 = Max THEN 0 ELSE h + 1
        /\ After(t) = IF t + 1 = Max THEN 0 ELSE t + 1
    BY AfterValue
  <1>6. Distance(After(h), t) = IF After(h) >= t THEN After(h) - t
                                ELSE After(h) - t + Max
    BY <1>4, DistanceValue
  <1>7. Distance(h, After(t)) = IF h >= After(t) THEN h - After(t)
                                ELSE h - After(t) + Max
    BY <1>4, DistanceValue
  <1>8. \A k \in 0 .. Max - 1 :
            Place(After(t), k) = IF After(t) + k < Max THEN After(t) + k
                                 ELSE After(t) + k - Max
    BY <1>4, PlaceValue
  <1> HIDE DEF d
  <1>9. Place(t, d) = h
    BY <1>1, <1>2, <1>3
  <1>10. \A k \in 0 .. d - 1 : Place(t, k) # h
    BY <1>1, <1>2, <1>3
  <1>11. After(h) # t => Distance(After(h), t) = d + 1
    BY <1>1, <1>2, <1>5, <1>6
  <1>12. After(h) = t <=> d = Max - 1
    BY <1>1, <1>2, <1>5
  <1>13. h # t => Distance(h, After(t)) = d - 1
    BY <1>1, <1>2, <1>5, <1>7
  <1>14. \A k \in 0 .. d - 2 : Place(After(t), k) = Place(t, k + 1)
    <2> TAKE k \in 0 .. d - 2
    <2>1. k \in 0 .. Max - 1 /\ k + 1 \in 0 .. Max - 1
      BY <1>1, <1>2
    <2>2. Place(t, k + 1) = IF t + (k + 1) < Max THEN t + (k + 1)
                            ELSE t + (k + 1) - Max
      BY <1>3, <2>1
    <2>3. Place(After(t), k) = IF After(t) + k < Max THEN After(t) + k
                               ELSE After(t) + k - Max
      BY <1>8, <2>1
    <2> QED
      BY <1>1, <1>5, <2>1, <2>2, <2>3
  <1>15. Place(t, 0) = t
    BY <1>1, <1>3
  <1>16. PendingCount(h, t) = d
    BY <1>1, <1>2 DEF PendingCount
  <1> QED
    BY <1>9, <1>10, <1>11, <1>12, <1>13, <1>14, <1>15, <1>16 DEF d

(* Pending, as a function of the ring.                                     *)
Requests(s, h, t) == [k \in 1 .. Distance(h, t) |-> s[Place(t, k - 1)]]

LEMMA PendingIsRequests == TypeOK => Pending = Requests(slots, head, tail)
  <1> SUFFICES ASSUME TypeOK PROVE Pending = Requests(slots, head, tail)
    OBVIOUS
  <1>1. \A k \in 1 .. Distance(head, tail) :
            (tail + k - 1) % Max = Place(tail, k - 1)
    <2> TAKE k \in 1 .. Distance(head, tail)
    <2>1. k \in Int /\ tail \in Int
      BY DistanceValue, SlotIsNumber, MaxAssumption DEF TypeOK
    <2>2. tail + k - 1 = tail + (k - 1)
      BY <2>1
    <2> QED
      BY <2>2 DEF Place
  <1> QED
    BY <1>1 DEF Pending, Requests, Distance

RingArrays == [Slot -> Request \cup {NoRequest}]

LEMMA RequestsSequence ==
    ASSUME NEW s \in RingArrays, NEW h \in Slot, NEW t \in Slot
    PROVE  /\ Requests(s, h, t) \in Seq(Request \cup {NoRequest})
           /\ Len(Requests(s, h, t)) = Distance(h, t)
           /\ DOMAIN Requests(s, h, t) = 1 .. Distance(h, t)
  <1>1. Distance(h, t) \in Nat /\ Distance(h, t) < Max /\ Max \in Nat
    BY DistanceValue, MaxAssumption
  <1>2. \A k \in 1 .. Distance(h, t) :
            s[Place(t, k - 1)] \in Request \cup {NoRequest}
    <2> TAKE k \in 1 .. Distance(h, t)
    <2>1. k - 1 \in 0 .. Max - 1
      BY <1>1
    <2>2. Place(t, k - 1) \in Slot
      BY <2>1, PlaceValue
    <2> QED
      BY <2>2 DEF RingArrays
  <1> QED
    BY <1>1, <1>2 DEF Requests

(* The three stores that move a request, and the empty ring.               *)
LEMMA StoredBehind ==
    ASSUME NEW s \in RingArrays, NEW h \in Slot, NEW t \in Slot,
           NEW r \in Request
    PROVE  Requests([s EXCEPT ![h] = r], h, t) = Requests(s, h, t)
  <1>1. \A k \in 1 .. Distance(h, t) :
            [s EXCEPT ![h] = r][Place(t, k - 1)] = s[Place(t, k - 1)]
    <2> TAKE k \in 1 .. Distance(h, t)
    <2>1. k - 1 \in 0 .. Distance(h, t) - 1 /\ k - 1 \in 0 .. Max - 1
      BY DistanceValue, MaxAssumption
    <2>2. Place(t, k - 1) # h /\ Place(t, k - 1) \in Slot
      BY <2>1, Indices, PlaceValue
    <2> QED
      BY <2>2 DEF RingArrays
  <1> QED
    BY <1>1 DEF Requests

LEMMA HeadMoved ==
    ASSUME NEW s \in RingArrays, NEW h \in Slot, NEW t \in Slot,
           After(h) # t
    PROVE  Requests(s, After(h), t) = Append(Requests(s, h, t), s[h])
  <1> DEFINE d == Distance(h, t)
             old == Requests(s, h, t)
             new == Requests(s, After(h), t)
  <1>1. After(h) \in Slot
    BY NextSlot, SlotIsNumber
  <1>2. d \in Nat /\ Distance(After(h), t) = d + 1 /\ Place(t, d) = h
    BY Indices, DistanceValue, MaxAssumption
  <1>3. /\ old \in Seq(Request \cup {NoRequest}) /\ Len(old) = d
        /\ new \in Seq(Request \cup {NoRequest}) /\ Len(new) = d + 1
    BY <1>1, <1>2, RequestsSequence
  <1>4. s[h] \in Request \cup {NoRequest}
    BY DEF RingArrays
  <1>5. \A k \in 1 .. d : old[k] = s[Place(t, k - 1)]
    BY DEF Requests
  <1>6. \A k \in 1 .. d + 1 : new[k] = s[Place(t, k - 1)]
    BY <1>2 DEF Requests
  <1>7. new[d + 1] = s[h]
    <2>1. d + 1 \in 1 .. d + 1 /\ (d + 1) - 1 = d
      BY <1>2
    <2> HIDE DEF d, new
    <2> QED
      BY <1>2, <1>6, <2>1
  <1> HIDE DEF d, old, new
  <1>8. /\ Append(old, s[h]) \in Seq(Request \cup {NoRequest})
        /\ Len(Append(old, s[h])) = d + 1
        /\ Append(old, s[h])[d + 1] = s[h]
        /\ \A k \in 1 .. d : Append(old, s[h])[k] = old[k]
    BY <1>3, <1>4, AppendProperties
  <1>9. \A k \in 1 .. Len(new) : new[k] = Append(old, s[h])[k]
    <2> TAKE k \in 1 .. Len(new)
    <2>1. k \in 1 .. d \/ k = d + 1
      BY <1>2, <1>3
    <2>2. k \in 1 .. d => k \in 1 .. d + 1
      BY <1>2
    <2> QED
      BY <1>5, <1>6, <1>7, <1>8, <2>1, <2>2
  <1>10. new = Append(old, s[h])
    BY <1>3, <1>8, <1>9, SeqEqual
  <1> QED
    BY <1>10 DEF new, old

LEMMA TailMoved ==
    ASSUME NEW s \in RingArrays, NEW h \in Slot, NEW t \in Slot, h # t
    PROVE  /\ Requests(s, h, t) # <<>>
           /\ Head(Requests(s, h, t)) = s[t]
           /\ Tail(Requests(s, h, t)) = Requests(s, h, After(t))
  <1> DEFINE d == Distance(h, t)
             old == Requests(s, h, t)
             new == Requests(s, h, After(t))
  <1>1. After(t) \in Slot
    BY NextSlot, SlotIsNumber
  <1>2. d \in Nat \ {0} /\ Distance(h, After(t)) = d - 1
    BY Indices, DistanceValue, MaxAssumption
  <1>3. /\ old \in Seq(Request \cup {NoRequest}) /\ Len(old) = d
        /\ new \in Seq(Request \cup {NoRequest}) /\ Len(new) = d - 1
    BY <1>1, <1>2, RequestsSequence
  <1>4. \A k \in 1 .. d : old[k] = s[Place(t, k - 1)]
    BY DEF Requests
  <1>5. \A k \in 1 .. d - 1 : new[k] = s[Place(After(t), k - 1)]
    BY <1>2 DEF Requests
  <1>6. \A k \in 1 .. d - 1 : new[k] = old[k + 1]
    <2> TAKE k \in 1 .. d - 1
    <2>1. k - 1 \in 0 .. d - 2 /\ (k - 1) + 1 = k
      BY <1>2
    <2>2. Place(After(t), k - 1) = Place(t, k)
      BY <2>1, Indices
    <2>3. k + 1 \in 1 .. d /\ (k + 1) - 1 = k
      BY <1>2
    <2>4. old[k + 1] = s[Place(t, k)]
      <3> HIDE DEF d, old
      <3> QED
        BY <1>4, <2>3
    <2> QED
      BY <1>5, <2>2, <2>4
  <1>7. old[1] = s[t]
    <2>1. 1 \in 1 .. d /\ 1 - 1 = 0
      BY <1>2
    <2>2. Place(t, 0) = t
      BY Indices
    <2> HIDE DEF d, old
    <2> QED
      BY <1>4, <2>1, <2>2
  <1> HIDE DEF d, old, new
  <1>8. old # <<>>
    BY <1>2, <1>3, EmptySeq
  <1>9. /\ Head(old) = old[1] /\ Tail(old) \in Seq(Request \cup {NoRequest})
        /\ Len(Tail(old)) = Len(old) - 1
        /\ \A k \in 1 .. Len(Tail(old)) : Tail(old)[k] = old[k + 1]
    BY <1>3, <1>8, HeadTailProperties
  <1>10. Tail(old) = new
    BY <1>2, <1>3, <1>6, <1>9, SeqEqual
  <1> QED
    BY <1>7, <1>8, <1>9, <1>10 DEF old, new

LEMMA NothingBetween ==
    ASSUME NEW s \in RingArrays, NEW h \in Slot
    PROVE  Requests(s, h, h) = <<>>
  <1>1. Distance(h, h) = 0
    BY DistanceValue
  <1>2. Requests(s, h, h) \in Seq(Request \cup {NoRequest})
        /\ Len(Requests(s, h, h)) = 0
    BY <1>1, RequestsSequence
  <1> QED
    BY <1>2, EmptySeq

-----------------------------------------------------------------------------
(***************************************************************************)
(* The refinement.  What a call has loaded is still true when it uses it,  *)
(* because it is inside its section then; with TakeInv that is enough to   *)
(* read every step off the ring.                                           *)
(***************************************************************************)
Knows(a) ==
    /\ pc[a] \in {"r_enter", "r_head", "r_tail", "r_write", "r_publish"} =>
           local[a].req \in Request
    /\ pc[a] = "r_publish" => slots[head] = local[a].req
    /\ pc[a] = "n_tail" => local[a].head = head
    /\ pc[a] = "p_advance" => local[a].tail = tail /\ local[a].req = slots[tail]
    /\ pc[a] = "c_head" => tail = 0

Known == \A a \in Actor : Knows(a)

Locals == [head : Slot, tail : Slot, req : Request \cup {NoRequest}]

(* What another actor has loaded is not touched by a step.                 *)
LEMMA OthersStillKnow ==
    ASSUME TInv, SectionInv, Known, NEW a \in Actor, NEW b \in Actor \ {a},
           pc'[b] = pc[b], local'[b] = local[b],
           pc[a] \in InSection \/ UNCHANGED <<slots, head, tail>>
    PROVE  Knows(b)'
  <1>1. CASE UNCHANGED <<slots, head, tail>>
    BY <1>1 DEF Known, Knows
  <1>2. CASE pc[a] \in InSection
    <2>1. pc[b] \notin InSection
      BY <1>2, OneInside
    <2> QED
      BY <2>1 DEF Known, Knows, InSection
  <1> QED
    BY <1>1, <1>2

(* A step of a touches only a's label and locals, and the ring only inside *)
(* a section.                                                              *)
LEMMA StepIsOwn ==
    ASSUME TInv, NEW a \in Actor, Begin(a) \/ Continue(a)
    PROVE  /\ \A b \in Actor \ {a} : pc'[b] = pc[b] /\ local'[b] = local[b]
           /\ pc[a] \in InSection \/ UNCHANGED <<slots, head, tail>>
  <1>1. /\ pc \in [Actor -> InSection \cup OutOfSection]
        /\ local \in [Actor -> Locals]
    BY DEF TInv, TypeOK, Locals
  <1>2. CASE Begin(a)
    BY <1>1, <1>2 DEF Begin, BeginRequest, BeginProcess, BeginClear,
                      BeginCount, OpenSection, Invoke, Goto
  <1>3. CASE Enter(a) \/ Exit(a) \/ CloseSection(a)
    BY <1>1, <1>3 DEF Enter, Exit, CloseSection, Goto, Drop
  <1>4. CASE ReadHead(a) \/ RequestTest(a) \/ ProcessTest(a)
             \/ ProcessTake(a) \/ ProcessRun(a) \/ CountRead(a)
    BY <1>1, <1>4 DEF ReadHead, RequestTest, ProcessTest, ProcessTake,
                      ProcessRun, CountRead, Goto, Drop
  <1>5. CASE RequestWrite(a) \/ RequestPublish(a) \/ ProcessAdvance(a)
             \/ ClearTail(a) \/ ClearHead(a)
    BY <1>1, <1>5 DEF RequestWrite, RequestPublish, ProcessAdvance, ClearTail,
                      ClearHead, Goto, At, InSection
  <1> QED
    BY <1>2, <1>3, <1>4, <1>5 DEF Continue

(* What the actor itself has just loaded or stored.                        *)
LEMMA OwnKnows ==
    ASSUME TInv, Producing, Known, NEW a \in Actor, Begin(a) \/ Continue(a)
    PROVE  Knows(a)'
  <1>1. /\ pc \in [Actor -> InSection \cup OutOfSection]
        /\ local \in [Actor -> Locals] /\ slots \in RingArrays
        /\ head \in Slot /\ tail \in Slot /\ Knows(a)
    BY DEF TInv, TypeOK, Locals, RingArrays, Known
  <1>2. CASE \E r \in Request : BeginRequest(a, r)
    <2>1. PICK r \in Request : BeginRequest(a, r)
      BY <1>2
    <2> QED
      BY <1>1, <2>1 DEF BeginRequest, Invoke, Goto, Knows, Locals
  <1>3. CASE BeginProcess(a) \/ BeginClear(a) \/ BeginCount(a)
    BY <1>1, <1>3 DEF BeginProcess, BeginClear, BeginCount, Invoke, Goto, Knows
  <1>4. CASE OpenSection(a) \/ CloseSection(a)
    BY <1>4, <1>1 DEF OpenSection, CloseSection, Knows
  <1>5. CASE Enter(a)
    <2>1. /\ UNCHANGED <<slots, head, tail, local>>
          /\ pc'[a] = EnterTo[pc[a]] /\ pc[a] \in DOMAIN EnterTo
      BY <1>1, <1>5 DEF Enter, Goto
    <2>2. /\ pc'[a] \notin {"r_enter", "r_tail", "r_write", "r_publish",
                            "n_tail", "p_advance", "c_head"}
          /\ pc'[a] = "r_head" => pc[a] = "r_enter"
      BY <2>1 DEF EnterTo
    <2> QED
      BY <1>1, <2>1, <2>2 DEF Knows
  <1>6. CASE Exit(a)
    <2>1. pc'[a] = ExitTo[pc[a]] /\ pc[a] \in DOMAIN ExitTo
      BY <1>1, <1>6 DEF Exit, Goto
    <2>2. pc'[a] \in {"idle", "p_run"}
      BY <2>1 DEF ExitTo
    <2> QED
      BY <2>2 DEF Knows
  <1>7. CASE ReadHead(a)
    BY <1>1, <1>7 DEF ReadHead, At, Goto, Knows, Locals
  <1>8. CASE RequestTest(a)
    BY <1>1, <1>8 DEF RequestTest, At, Goto, Knows
  <1>9. CASE RequestWrite(a)
    <2>1. local[a].head = head
      BY <1>9 DEF RequestWrite, At, Producing
    <2>2. local[a].req \in Request
      BY <1>1, <1>9 DEF RequestWrite, At, Knows
    <2> QED
      BY <1>1, <1>9, <2>1, <2>2 DEF RequestWrite, At, Goto, Knows, RingArrays
  <1>10. CASE RequestPublish(a) \/ ProcessAdvance(a) \/ ClearHead(a)
              \/ CountRead(a) \/ ProcessRun(a)
    BY <1>1, <1>10 DEF RequestPublish, ProcessAdvance, ClearHead, CountRead,
                       ProcessRun, At, Goto, Knows
  <1>11. CASE ProcessTest(a)
    BY <1>1, <1>11 DEF ProcessTest, At, Goto, Knows
  <1>12. CASE ProcessTake(a)
    BY <1>1, <1>12 DEF ProcessTake, At, Goto, Knows, Locals
  <1>13. CASE ClearTail(a)
    BY <1>1, <1>13 DEF ClearTail, At, Goto, Knows
  <1> QED
    BY <1>2, <1>3, <1>4, <1>5, <1>6, <1>7, <1>8, <1>9, <1>10, <1>11, <1>12,
       <1>13 DEF Begin, Continue

LEMMA NextKnown ==
    ASSUME TInv, SectionInv, Producing, Known, Next
    PROVE  Known'
  <1>1. PICK a \in Actor : Begin(a) \/ Continue(a)
    BY DEF Next
  <1>2. ASSUME NEW b \in Actor PROVE Knows(b)'
    <2>1. CASE b = a
      BY <1>1, <2>1, OwnKnows
    <2>2. CASE b # a
      BY <1>1, <2>2, StepIsOwn, OthersStillKnow
    <2> QED
      BY <2>1, <2>2
  <1> QED
    BY <1>2 DEF Known

-----------------------------------------------------------------------------
(* The refinement mapping.                                                 *)
Clearing == \E a \in Actor : pc[a] = "c_head"

Holding == {"p_exit", "p_run"}

HandOf(l, record) == IF l \in Holding THEN record.req ELSE NoRequest

AbsQueue == IF Clearing THEN <<>> ELSE Pending
AbsHand == [a \in Actor |-> IF pc[a] \in {"p_exit", "p_run"}
                            THEN local[a].req ELSE NoRequest]

AbsStep == Queue!QueueNext \/ UNCHANGED <<AbsQueue, AbsHand, ret>>

(* Only the actor that takes a step can change what is in a hand.          *)
LEMMA HandsMove ==
    ASSUME TInv, TInv', NEW a \in Actor,
           \A b \in Actor \ {a} : pc'[b] = pc[b] /\ local'[b] = local[b]
    PROVE  /\ AbsHand' = [AbsHand EXCEPT ![a] = HandOf(pc'[a], local'[a])]
           /\ AbsHand[a] = HandOf(pc[a], local[a])
           /\ HandOf(pc'[a], local'[a]) = HandOf(pc[a], local[a])
                 => AbsHand' = AbsHand
  BY DEF AbsHand, HandOf, Holding

(* While somebody is inside, nobody else is in the middle of a clear.      *)
LEMMA NoClearBeside ==
    ASSUME TInv, SectionInv, NEW a \in Actor, pc[a] \in InSection,
           \A b \in Actor \ {a} : pc'[b] = pc[b]
    PROVE  /\ Clearing <=> pc[a] = "c_head"
           /\ Clearing' <=> pc'[a] = "c_head"
  <1>1. \A b \in Actor \ {a} : pc[b] # "c_head"
    BY OneInside DEF InSection
  <1> QED
    BY <1>1 DEF Clearing

(* A step that changes neither the ring nor a hand nor a clear shows only  *)
(* in ret.                                                                 *)
LEMMA QueueStands ==
    ASSUME TInv, TInv', NEW a \in Actor, UNCHANGED <<slots, head, tail>>,
           \A b \in Actor \ {a} : pc'[b] = pc[b] /\ local'[b] = local[b],
           pc[a] # "c_head", pc'[a] # "c_head",
           HandOf(pc'[a], local'[a]) = HandOf(pc[a], local[a])
    PROVE  AbsQueue' = AbsQueue /\ AbsHand' = AbsHand
  <1>1. Clearing' <=> Clearing
    BY DEF Clearing
  <1>2. Pending' = Pending
    BY DEF Pending
  <1> QED
    BY <1>1, <1>2, HandsMove DEF AbsQueue

(* The calls that begin, the macros, the loads and the tests that find     *)
(* nothing to refuse do not show.                                          *)
LEMMA HiddenSteps ==
    ASSUME TInv, TInv', NEW a \in Actor,
           \/ Begin(a) \/ Enter(a) \/ Exit(a) \/ CloseSection(a)
           \/ ReadHead(a) \/ ProcessTest(a) \/ ProcessTake(a)
    PROVE  UNCHANGED <<AbsQueue, AbsHand, ret>>
  <1>1. /\ pc \in [Actor -> InSection \cup OutOfSection]
        /\ local \in [Actor -> Locals]
    BY DEF TInv, TypeOK, Locals
  <1>2. \A b \in Actor \ {a} : pc'[b] = pc[b] /\ local'[b] = local[b]
    BY StepIsOwn DEF Continue
  <1>3. SUFFICES /\ UNCHANGED <<slots, head, tail, ret>>
                 /\ pc[a] # "c_head" /\ pc'[a] # "c_head"
                 /\ HandOf(pc'[a], local'[a]) = HandOf(pc[a], local[a])
    BY <1>2, QueueStands
  <1>4. CASE Begin(a)
    BY <1>1, <1>4 DEF Begin, BeginRequest, BeginProcess, BeginClear, BeginCount,
                      OpenSection, Invoke, At, Goto, HandOf, Holding
  <1>5. CASE Enter(a)
    <2>1. /\ pc[a] \in DOMAIN EnterTo /\ pc'[a] = EnterTo[pc[a]]
          /\ UNCHANGED <<slots, head, tail, ret, local>>
      BY <1>1, <1>5 DEF Enter, Goto
    <2> QED
      BY <2>1 DEF EnterTo, HandOf, Holding
  <1>6. CASE Exit(a)
    <2>1. /\ pc[a] \in DOMAIN ExitTo /\ pc'[a] = ExitTo[pc[a]]
          /\ UNCHANGED <<slots, head, tail, ret>>
          /\ ExitTo[pc[a]] # "idle" => UNCHANGED local
      BY <1>1, <1>6 DEF Exit, Goto
    <2> QED
      BY <2>1 DEF ExitTo, HandOf, Holding
  <1>7. CASE CloseSection(a)
    BY <1>1, <1>7 DEF CloseSection, At
  <1>8. CASE ReadHead(a)
    BY <1>1, <1>8 DEF ReadHead, At, Goto, HandOf, Holding
  <1>9. CASE ProcessTest(a)
    BY <1>1, <1>9 DEF ProcessTest, At, Goto, HandOf, Holding
  <1>10. CASE ProcessTake(a)
    BY <1>1, <1>10 DEF ProcessTake, At, Goto, HandOf, Holding
  <1> QED
    BY <1>4, <1>5, <1>6, <1>7, <1>8, <1>9, <1>10

(* What every other step finds: it is inside, alone, or lets a hand go.    *)
LEMMA RingFacts ==
    ASSUME TInv
    PROVE  /\ pc \in [Actor -> InSection \cup OutOfSection]
           /\ local \in [Actor -> Locals] /\ slots \in RingArrays
           /\ head \in Slot /\ tail \in Slot /\ ret \in [Actor -> Int]
           /\ Pending = Requests(slots, head, tail)
           /\ Len(Pending) = Distance(head, tail)
  BY PendingIsRequests, RequestsSequence DEF TInv, TypeOK, Locals, RingArrays

LEMMA PendingLater ==
    ASSUME TInv, TInv'
    PROVE  Pending' = Requests(slots', head', tail')
  <1>1. TypeOK /\ TypeOK'
    BY DEF TInv
  <1>2. (TypeOK => Pending = Requests(slots, head, tail))'
    BY PendingIsRequests, PTL
  <1> QED
    BY <1>1, <1>2

LEMMA RequestTestStep ==
    ASSUME TInv, TInv', SectionInv, Producing, NEW a \in Actor, RequestTest(a)
    PROVE  AbsStep
  <1>1. /\ pc[a] = "r_tail" /\ local[a].head = head
        /\ UNCHANGED <<slots, head, tail, local>>
        /\ pc'[a] \in {"r_exit", "r_write"}
        /\ \A b \in Actor \ {a} : pc'[b] = pc[b] /\ local'[b] = local[b]
    BY RingFacts DEF RequestTest, At, Goto, Producing
  <1>2. AbsQueue' = AbsQueue /\ AbsHand' = AbsHand
    BY <1>1, QueueStands DEF HandOf, Holding
  <1>3. CASE After(head) = tail
    <2>1. AbsQueue = Pending
      BY <1>1, NoClearBeside DEF AbsQueue, InSection
    <2>2. Len(AbsQueue) = Max - 1
      BY <1>3, <2>1, RingFacts, Indices
    <2>3. ret' = [ret EXCEPT ![a] = -1]
      BY <1>1, <1>3 DEF RequestTest
    <2>4. Queue!Refuse(a)
      BY <1>2, <2>2, <2>3 DEF Queue!Refuse, AbsQueue, AbsHand,
            Clearing
    <2> QED
      BY <2>4 DEF AbsStep, Queue!QueueNext
  <1>4. CASE After(head) # tail
    BY <1>1, <1>2, <1>4 DEF RequestTest, AbsStep
  <1> QED
    BY <1>3, <1>4

LEMMA RequestWriteStep ==
    ASSUME TInv, TInv', SectionInv, Producing, Known, NEW a \in Actor,
           RequestWrite(a)
    PROVE  AbsStep
  <1>1. /\ pc[a] = "r_write" /\ pc'[a] = "r_publish" /\ local[a].head = head
        /\ UNCHANGED <<head, tail, local, ret>>
        /\ slots' = [slots EXCEPT ![head] = local[a].req]
        /\ \A b \in Actor \ {a} : pc'[b] = pc[b] /\ local'[b] = local[b]
    BY RingFacts DEF RequestWrite, At, Goto, Producing
  <1>2. local[a].req \in Request
    BY <1>1 DEF Known, Knows
  <1>3. Pending' = Pending
    <2>1. Pending' = Requests(slots', head', tail')
      BY PendingLater
    <2> QED
      BY <1>1, <1>2, <2>1, RingFacts, StoredBehind
  <1>4. AbsQueue' = AbsQueue
    BY <1>1, <1>3, NoClearBeside DEF AbsQueue, InSection
  <1>5. AbsHand' = AbsHand
    BY <1>1, HandsMove DEF HandOf, Holding
  <1> QED
    BY <1>1, <1>4, <1>5 DEF AbsStep

LEMMA RequestPublishStep ==
    ASSUME TInv, TInv', SectionInv, Producing, Known, NEW a \in Actor,
           RequestPublish(a)
    PROVE  AbsStep
  <1>1. /\ pc[a] = "r_publish" /\ pc'[a] = "r_exit" /\ local[a].head = head
        /\ head' = After(head) /\ UNCHANGED <<slots, tail, local>>
        /\ ret' = [ret EXCEPT ![a] = 0] /\ After(head) # tail
        /\ \A b \in Actor \ {a} : pc'[b] = pc[b] /\ local'[b] = local[b]
    BY RingFacts DEF RequestPublish, At, Goto, Producing
  <1>2. local[a].req \in Request /\ slots[head] = local[a].req
    BY <1>1 DEF Known, Knows
  <1>3. Pending' = Append(Pending, local[a].req)
    <2>1. Pending' = Requests(slots', head', tail')
      BY PendingLater
    <2> QED
      BY <1>1, <1>2, <2>1, RingFacts, HeadMoved
  <1>4. AbsQueue = Pending /\ AbsQueue' = Pending'
    BY <1>1, NoClearBeside DEF AbsQueue, InSection
  <1>5. AbsHand' = AbsHand
    BY <1>1, HandsMove DEF HandOf, Holding
  <1>6. Len(AbsQueue) < Max - 1
    <2>1. /\ Distance(head, tail) # Max - 1
          /\ Distance(head, tail) \in 0 .. Max - 1 /\ Max \in Nat
      BY <1>1, RingFacts, Indices, DistanceValue, MaxAssumption
    <2> QED
      BY <1>4, <2>1, RingFacts
  <1>7. PICK r \in Request : r = local[a].req
    BY <1>2
  <1>8. Queue!Accept(a, r)
    BY <1>1, <1>3, <1>4, <1>5, <1>6, <1>7
       DEF Queue!Accept, AbsQueue, AbsHand, Clearing
  <1> QED
    BY <1>7, <1>8 DEF AbsStep, Queue!QueueNext

LEMMA ProcessAdvanceStep ==
    ASSUME TInv, TInv', SectionInv, Waiting, Known, NEW a \in Actor,
           ProcessAdvance(a)
    PROVE  AbsStep
  <1>1. /\ pc[a] = "p_advance" /\ pc'[a] = "p_exit"
        /\ head # tail /\ local[a].tail = tail /\ local[a].req = slots[tail]
        /\ tail' = After(tail) /\ UNCHANGED <<slots, head, local, ret>>
        /\ \A b \in Actor \ {a} : pc'[b] = pc[b] /\ local'[b] = local[b]
    BY RingFacts DEF ProcessAdvance, At, Goto, Waiting, Known, Knows
  <1>2. /\ Pending # <<>> /\ Head(Pending) = local[a].req
        /\ Pending' = Tail(Pending)
    <2>1. Pending' = Requests(slots', head', tail')
      BY PendingLater
    <2> QED
      BY <1>1, <2>1, RingFacts, TailMoved
  <1>3. AbsQueue = Pending /\ AbsQueue' = Pending'
    BY <1>1, NoClearBeside DEF AbsQueue, InSection
  <1>4. /\ AbsHand[a] = NoRequest
        /\ AbsHand' = [AbsHand EXCEPT ![a] = local[a].req]
    BY <1>1, HandsMove DEF HandOf, Holding
  <1>5. Queue!Take(a)
    BY <1>1, <1>2, <1>3, <1>4 DEF Queue!Take, AbsQueue, AbsHand,
            Clearing
  <1> QED
    BY <1>5 DEF AbsStep, Queue!QueueNext

LEMMA ProcessRunStep ==
    ASSUME TInv, TInv', NEW a \in Actor, ProcessRun(a)
    PROVE  AbsStep
  <1>1. /\ pc[a] = "p_run" /\ pc'[a] = "p_test"
        /\ UNCHANGED <<slots, head, tail, ret>>
        /\ \A b \in Actor \ {a} : pc'[b] = pc[b] /\ local'[b] = local[b]
    BY RingFacts DEF ProcessRun, At, Goto, Drop
  <1>2. AbsQueue' = AbsQueue
    <2>1. Clearing' <=> Clearing
      BY <1>1 DEF Clearing
    <2>2. Pending' = Pending
      BY <1>1 DEF Pending
    <2> QED
      BY <2>1, <2>2 DEF AbsQueue
  <1>3. AbsHand' = [AbsHand EXCEPT ![a] = NoRequest]
    BY <1>1, HandsMove DEF HandOf, Holding
  <1>4. Queue!Finish(a)
    BY <1>1, <1>2, <1>3 DEF Queue!Finish, AbsQueue, AbsHand,
            Clearing
  <1> QED
    BY <1>4 DEF AbsStep, Queue!QueueNext

(* The first store of a clear discards, the second does not show.          *)
LEMMA ClearSteps ==
    ASSUME TInv, TInv', SectionInv, Known, NEW a \in Actor,
           ClearTail(a) \/ ClearHead(a)
    PROVE  AbsStep
  <1>1. /\ pc[a] \in {"c_tail", "c_head"} /\ pc'[a] \in {"c_head", "c_exit"}
        /\ UNCHANGED <<local, ret>>
        /\ \A b \in Actor \ {a} : pc'[b] = pc[b] /\ local'[b] = local[b]
    BY RingFacts DEF ClearTail, ClearHead, At, Goto
  <1>2. AbsHand' = AbsHand
    BY <1>1, HandsMove DEF HandOf, Holding
  <1>3. CASE ClearTail(a)
    <2>1. pc'[a] = "c_head"
      BY <1>3, RingFacts DEF ClearTail, Goto
    <2>2. AbsQueue' = <<>>
      BY <1>1, <2>1, NoClearBeside DEF AbsQueue, InSection
    <2>3. Queue!Discard
      BY <1>1, <1>2, <2>2 DEF Queue!Discard, AbsQueue, AbsHand,
            Clearing
    <2> QED
      BY <2>3 DEF AbsStep, Queue!QueueNext
  <1>4. CASE ClearHead(a)
    <2>1. /\ pc[a] = "c_head" /\ pc'[a] = "c_exit" /\ tail = 0 /\ head' = 0
          /\ UNCHANGED <<slots, tail>>
      BY <1>4, RingFacts DEF ClearHead, At, Goto, Known, Knows
    <2>2. Pending' = <<>>
      <3>1. Pending' = Requests(slots', head', tail')
        BY PendingLater
      <3> QED
        BY <2>1, <3>1, RingFacts, NothingBetween
    <2>3. AbsQueue = <<>> /\ AbsQueue' = Pending'
      BY <1>1, <2>1, NoClearBeside DEF AbsQueue, InSection
    <2> QED
      BY <1>1, <1>2, <2>2, <2>3 DEF AbsStep
  <1> QED
    BY <1>3, <1>4

LEMMA CountStep ==
    ASSUME TInv, TInv', SectionInv, Known, NEW a \in Actor, CountRead(a)
    PROVE  AbsStep
  <1>1. /\ pc[a] = "n_tail" /\ pc'[a] = "n_exit" /\ local[a].head = head
        /\ UNCHANGED <<slots, head, tail, local>>
        /\ ret' = [ret EXCEPT ![a] = PendingCount(head, tail)]
        /\ \A b \in Actor \ {a} : pc'[b] = pc[b] /\ local'[b] = local[b]
    BY RingFacts DEF CountRead, At, Goto, Known, Knows
  <1>2. AbsQueue' = AbsQueue /\ AbsHand' = AbsHand
    BY <1>1, QueueStands DEF HandOf, Holding
  <1>3. AbsQueue = Pending
    BY <1>1, NoClearBeside DEF AbsQueue, InSection
  <1>4. PendingCount(head, tail) = Len(AbsQueue)
    BY <1>3, RingFacts, Indices
  <1>5. Queue!Count(a)
    BY <1>1, <1>2, <1>4 DEF Queue!Count, AbsQueue, AbsHand,
            Clearing
  <1> QED
    BY <1>5 DEF AbsStep, Queue!QueueNext

LEMMA NextQueue ==
    ASSUME TInv, TInv', SectionInv, Producing, Waiting, Known, [Next]_vars
    PROVE  AbsStep
  <1>1. ASSUME NEW a \in Actor, Begin(a) \/ Continue(a)
        PROVE  AbsStep
    <2>1. CASE \/ Begin(a) \/ Enter(a) \/ Exit(a) \/ CloseSection(a)
               \/ ReadHead(a) \/ ProcessTest(a) \/ ProcessTake(a)
      BY <2>1, HiddenSteps DEF AbsStep
    <2>2. CASE RequestTest(a)
      BY <2>2, RequestTestStep
    <2>3. CASE RequestWrite(a)
      BY <2>3, RequestWriteStep
    <2>4. CASE RequestPublish(a)
      BY <2>4, RequestPublishStep
    <2>5. CASE ProcessAdvance(a)
      BY <2>5, ProcessAdvanceStep
    <2>6. CASE ProcessRun(a)
      BY <2>6, ProcessRunStep
    <2>7. CASE ClearTail(a) \/ ClearHead(a)
      BY <2>7, ClearSteps
    <2>8. CASE CountRead(a)
      BY <2>8, CountStep
    <2> QED
      BY <1>1, <2>1, <2>2, <2>3, <2>4, <2>5, <2>6, <2>7, <2>8 DEF Continue
  <1>2. CASE UNCHANGED vars
    BY <1>2 DEF vars, AbsStep, AbsQueue, AbsHand, Clearing, Pending
  <1> QED
    BY <1>1, <1>2 DEF Next

LEMMA InitQueue ==
    ASSUME Init
    PROVE  Queue!QueueInit
  <1>1. head = 0 /\ tail = 0 /\ TInv
    BY InitTInv DEF Init
  <1>2. Pending = <<>>
    BY <1>1, RingFacts, NothingBetween
  <1>3. AbsQueue = <<>>
    BY <1>2 DEF Init, AbsQueue, Clearing
  <1>4. AbsHand = [a \in Actor |-> NoRequest] /\ ret = [a \in Actor |-> 0]
    BY DEF Init, AbsHand
  <1> QED
    BY <1>3, <1>4 DEF Queue!QueueInit, AbsQueue, AbsHand,
            Clearing

(* With one consumer that is also the only one to clear, the ring is the   *)
(* FIFO that arcfour_isr.h promises, whatever preempts what: every step of *)
(* the ring is a step of the FIFO, at its store to head or to tail, or     *)
(* does not show.                                                          *)
THEOREM ImplementsFifo ==
    ASSUME Port = "save", NEW m \in Actor, OnlyConsumer(m)
    PROVE  Spec => QueueRefinement
  <1>1. Init => TakeInv(m) /\ Known
    BY DEF Init, TakeInv, ConsumesAlone, Producing, Waiting, ConsumerLabels,
           Known, Knows
  <1>2. TInv /\ SectionInv /\ TakeInv(m) /\ Known /\ [Next]_vars
            => TakeInv(m)' /\ Known'
    <2>1. TakeInv(m) /\ Known /\ UNCHANGED vars => TakeInv(m)' /\ Known'
      BY DEF TakeInv, ConsumesAlone, Producing, Waiting, Known, Knows, After,
             vars
    <2> QED
      BY <2>1, NextTake, NextKnown DEF TakeInv
  <1>3. TInv /\ TInv' /\ SectionInv /\ TakeInv(m) /\ Known /\ [Next]_vars
            => [Queue!QueueNext]_(Queue!qvars)
    <2> SUFFICES ASSUME TInv, TInv', SectionInv, TakeInv(m), Known, [Next]_vars
                 PROVE  [Queue!QueueNext]_(Queue!qvars)
      OBVIOUS
    <2>1. AbsStep
      BY NextQueue DEF TakeInv
    <2> QED
      BY <2>1 DEF AbsStep, AbsQueue, AbsHand, Clearing, Queue!qvars
  <1>4. Spec => [](TInv /\ SectionInv)
    BY InductiveSection
  <1>5. Init => Queue!QueueInit
    BY InitQueue
  <1> QED
    BY <1>1, <1>2, <1>3, <1>4, <1>5, PTL
       DEF Spec, QueueRefinement, Queue!QueueSpec
=============================================================================
