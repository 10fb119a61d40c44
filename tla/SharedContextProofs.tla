------------------------ MODULE SharedContextProofs ------------------------
(***************************************************************************)
(* The shared context is safe and is one stream, for every set of tasks    *)
(* and handlers, every assignment of priorities, every mixture of calls    *)
(* and every width N.                                                      *)
(***************************************************************************)
EXTENDS SharedContext, Rc4Proofs, TLAPS

(***************************************************************************)
(* What an application has to see to.  The build has sections, nobody uses *)
(* the functions without a section, and whoever masks with BASEPRI gives a *)
(* priority that is not 0 and holds back every other user of the context.  *)
(***************************************************************************)
Shielded ==
    /\ Port # "none"
    /\ \A a \in Actor : "plain" \notin Calls[a]
    /\ Port = "m4" =>
         \A a \in Actor : "priority" \in Calls[a] =>
             /\ Threshold[a] # 0
             /\ \A b \in Actor \ {a} :
                    Calls[b] # {} => Prio[b] >= Threshold[a]

Labels == {"idle", "enter", "test", "load", "i", "j", "swap", "out",
           "key", "discard", "exit"}

Section == {"test", "load", "i", "j", "swap", "out", "key", "discard", "exit"}

InSection(a) == pc[a] \in Section

Fields == {"mode", "n", "k", "i", "j", "from", "key"}

Typed ==
    /\ primask \in {0, 1} /\ basepri \in 0 .. 15
    /\ saved \in [Actor -> 0 .. 15]
    /\ task \in Tasks
    /\ pc \in [Actor -> Labels]
    /\ local = [a \in Actor |-> local[a]]
    /\ \A a \in Actor : DOMAIN local[a] = Fields

(* A call that is under way is one of those its actor makes.               *)
ModeAllowed == \A a \in Actor : Active(a) => local[a].mode \in Calls[a]

Alone == \A a, b \in Actor : InSection(a) /\ InSection(b) => a = b

(* The mask of the one section is in force, over nothing.                  *)
MasksOf(a) ==
    /\ saved[a] = 0
    /\ IF MasksWithBasepri(a) THEN basepri = Threshold[a] /\ primask = 0
       ELSE primask = 1 /\ basepri = 0

Masked == \A a \in Actor : InSection(a) => MasksOf(a)

Unmasked == (\A a \in Actor : ~InSection(a)) => primask = 0 /\ basepri = 0

(* Whoever else is in a call is a task, or was preempted by the one in its *)
(* section.                                                                *)
Preempted(a) ==
    /\ a \in Tasks => task = a
    /\ \A b \in Actor \ {a} : Active(b) =>
           b \in Tasks \/ (a \notin Tasks /\ Prio[b] > Prio[a])

OthersWait == \A a \in Actor : InSection(a) => Preempted(a)

SInv == Typed /\ ModeAllowed /\ Alone /\ Masked /\ Unmasked /\ OthersWait

-----------------------------------------------------------------------------
LEMMA InitSInv == Init => SInv
  BY ActorAssumption
     DEF Init, SInv, Typed, ModeAllowed, Alone, Masked, Unmasked, OthersWait,
         Labels, Section, InSection, Active, NoCall, Fields, Tasks

(* An actor that may run outside a section finds nobody inside one.        *)
LEMMA FreeToEnter ==
    ASSUME SInv, Shielded, NEW b \in Actor, Runs(b), ~InSection(b),
           Active(b) \/ Calls[b] # {}
    PROVE  \A a \in Actor : ~InSection(a)
  <1> SUFFICES ASSUME NEW a \in Actor, InSection(a) PROVE FALSE
    OBVIOUS
  <1>1. a # b /\ Active(a)
    BY DEF InSection, Section, Active
  <1>2. Preempted(a) /\ MasksOf(a)
    BY DEF SInv, OthersWait, Masked
  <1>3. CASE b \in Tasks
    BY <1>1, <1>2, <1>3 DEF Runs, Preempted
  <1>4. CASE b \notin Tasks /\ Active(b)
    <2>1. a \notin Tasks /\ Prio[b] > Prio[a]
      BY <1>1, <1>2, <1>4 DEF Preempted
    <2>2. Prio[a] > Prio[b]
      BY <1>1, <1>4, <2>1 DEF Runs
    <2> QED
      BY <2>1, <2>2, ActorAssumption DEF Thread
  <1>5. CASE b \notin Tasks /\ ~Active(b)
    <2>1. ~HeldBack(Prio[b]) /\ Calls[b] # {}
      BY <1>5 DEF Runs
    <2>2. CASE MasksWithBasepri(a)
      <3>1. "priority" \in Calls[a] /\ Port = "m4"
        BY <1>1, <2>2 DEF SInv, ModeAllowed, MasksWithBasepri
      <3>2. Threshold[a] # 0 /\ Prio[b] >= Threshold[a]
        BY <1>1, <2>1, <3>1 DEF Shielded
      <3> QED
        BY <1>2, <2>1, <2>2, <3>2 DEF MasksOf, HeldBack
    <2>3. CASE ~MasksWithBasepri(a)
      BY <1>2, <2>1, <2>3 DEF MasksOf, HeldBack
    <2> QED
      BY <2>2, <2>3
  <1> QED
    BY <1>3, <1>4, <1>5

-----------------------------------------------------------------------------
(* The shape of the steps that stay inside a section.                      *)
StepsInside(a) ==
    \/ Test(a) \/ LoadI(a) \/ TimeOut(a) \/ StoreI(a) \/ StoreJ(a)
    \/ SwapBytes(a) \/ Deliver(a) \/ Ksa(a) \/ DiscardRound(a) \/ SetFlag(a)

MovesInside(a) ==
    /\ InSection(a) /\ InSection(a)'
    /\ \A b \in Actor \ {a} : pc'[b] = pc[b]
    /\ \A b \in Actor : local'[b].mode = local[b].mode
    /\ UNCHANGED <<masks, task>>

LEMMA InsideMoves ==
    ASSUME SInv, Shielded, NEW a \in Actor, StepsInside(a)
    PROVE  Typed' /\ MovesInside(a)
  <1>1. Typed /\ (Active(a) => local[a].mode # "plain")
    BY DEF SInv, ModeAllowed, Shielded
  <1>2. CASE Test(a)
    BY <1>1, <1>2 DEF Typed, MovesInside, Test, Leave, At, Goto, Active, InSection,
       Section, Labels, masks, Fields
  <1>3. CASE LoadI(a)
    BY <1>1, <1>3 DEF Typed, MovesInside, LoadI, Leave, At, Goto, Active, InSection,
       Section, Labels, masks, Fields
  <1>4. CASE TimeOut(a)
    BY <1>1, <1>4 DEF Typed, MovesInside, TimeOut, Leave, At, Goto, Active,
       InSection, Section, Labels, masks, Fields
  <1>5. CASE StoreI(a) \/ SwapBytes(a) \/ Ksa(a) \/ SetFlag(a)
    BY <1>1, <1>5 DEF Typed, MovesInside, StoreI, SwapBytes, Ksa, SetFlag, At, Goto,
       InSection, Section, Labels, masks
  <1>6. CASE StoreJ(a)
    BY <1>1, <1>6 DEF Typed, MovesInside, StoreJ, At, Goto, InSection, Section,
       Labels, masks, Fields
  <1>7. CASE Deliver(a)
    BY <1>1, <1>7 DEF Typed, MovesInside, Deliver, At, Goto, InSection, Section,
       Labels, masks, Fields
  <1>8. CASE DiscardRound(a)
    BY <1>1, <1>8 DEF Typed, MovesInside, DiscardRound, At, InSection, Section,
       masks, Fields
  <1> QED
    BY <1>2, <1>3, <1>4, <1>5, <1>6, <1>7, <1>8 DEF StepsInside

LEMMA InsideSInv ==
    ASSUME SInv, Shielded, NEW a \in Actor, StepsInside(a)
    PROVE  SInv'
  <1>1. Typed' /\ MovesInside(a)
    BY InsideMoves
  <1>2. \A b \in Actor : /\ InSection(b)' <=> InSection(b)
                         /\ Active(b)' <=> Active(b)
    BY <1>1 DEF MovesInside, InSection, Section, Active
  <1>3. ModeAllowed' /\ Alone' /\ Unmasked'
    BY <1>1, <1>2 DEF SInv, MovesInside, ModeAllowed, Alone, Unmasked, masks
  <1>4. Masked'
    BY <1>1, <1>2 DEF SInv, MovesInside, Masked, MasksOf, MasksWithBasepri, masks
  <1>5. OthersWait'
    BY <1>1, <1>2 DEF SInv, MovesInside, OthersWait, Preempted
  <1> QED
    BY <1>1, <1>3, <1>4, <1>5 DEF SInv

LEMMA BeginSInv ==
    ASSUME SInv, Shielded, NEW a \in Actor, Begin(a)
    PROVE  SInv'
  <1>1. /\ At(a, "idle") /\ Calls[a] # {} /\ UNCHANGED <<masks, task>>
        /\ pc' = [pc EXCEPT ![a] = "enter"]
        /\ local'[a].mode \in Calls[a]
        /\ local' = [local EXCEPT ![a] = local'[a]]
        /\ DOMAIN local'[a] = Fields
    <2>1. CASE \E key \in Keys : BeginInit(a, key)
      BY <2>1 DEF BeginInit, SInv, Typed, Goto, NoCall, Fields, masks
    <2>2. CASE \E mode \in Modes, n \in Lengths : BeginEncrypt(a, mode, n)
      <3>1. PICK mode \in Modes, n \in Lengths : BeginEncrypt(a, mode, n)
        BY <2>2
      <3>2. mode \in Calls[a] /\ mode # "plain"
        BY <3>1 DEF BeginEncrypt, Shielded
      <3> QED
        BY <3>1, <3>2 DEF BeginEncrypt, SInv, Typed, Goto, NoCall, Fields, masks
    <2> QED
      BY <2>1, <2>2 DEF Begin
  <1>2. \A b \in Actor : ~InSection(b)
    BY <1>1, FreeToEnter DEF At, InSection, Section
  <1>3. Typed' /\ ModeAllowed'
    BY <1>1 DEF SInv, Typed, ModeAllowed, Active, Labels, masks
  <1>4. \A b \in Actor : ~InSection(b)'
    BY <1>1, <1>2 DEF SInv, Typed, InSection, Section
  <1> QED
    BY <1>1, <1>2, <1>3, <1>4
       DEF SInv, Alone, Masked, Unmasked, OthersWait, masks

LEMMA EnterSInv ==
    ASSUME SInv, Shielded, NEW a \in Actor, Enter(a)
    PROVE  SInv'
  <1>1. /\ Runs(a) /\ Active(a) /\ ~InSection(a) /\ PushMask(a)
        /\ UNCHANGED <<task, local>>
        /\ \A b \in Actor \ {a} : pc'[b] = pc[b]
        /\ InSection(a)' /\ pc' \in [Actor -> Labels]
    BY DEF Enter, At, Active, InSection, Section, SInv, Typed, Goto, Labels
  <1>2. \A b \in Actor : ~InSection(b)
    BY <1>1, FreeToEnter
  <1>3. \A b \in Actor \ {a} : ~InSection(b)'
    BY <1>1, <1>2 DEF InSection
  <1>4. primask = 0 /\ basepri = 0
    BY <1>2 DEF SInv, Unmasked
  <1>5. Typed' /\ MasksOf(a)'
    BY <1>1, <1>4, ActorAssumption
       DEF SInv, Typed, PushMask, MasksOf, MasksWithBasepri, Shielded
  <1>6. Preempted(a)'
    <2>1. \A b \in Actor : Active(b)' <=> Active(b)
      BY <1>1 DEF Active, InSection, Section
    <2>2. a \in Tasks => task = a
      BY <1>1 DEF Runs
    <2>3. \A b \in Actor \ {a} : Active(b) =>
              b \in Tasks \/ (a \notin Tasks /\ Prio[b] > Prio[a])
      BY <1>1 DEF Runs
    <2> QED
      BY <1>1, <2>1, <2>2, <2>3 DEF Preempted
  <1>7. ModeAllowed'
    BY <1>1 DEF SInv, ModeAllowed, Active, InSection, Section
  <1> QED
    BY <1>1, <1>3, <1>5, <1>6, <1>7
       DEF SInv, Alone, Masked, Unmasked, OthersWait

LEMMA ExitSInv ==
    ASSUME SInv, Shielded, NEW a \in Actor, Exit(a)
    PROVE  SInv'
  <1>1. /\ InSection(a) /\ PopMask(a) /\ UNCHANGED task
        /\ pc' = [pc EXCEPT ![a] = "idle"]
        /\ local' = [local EXCEPT ![a] = NoCall]
    BY DEF Exit, At, InSection, Section, Goto
  <1>2. MasksOf(a)
    BY <1>1 DEF SInv, Masked
  <1>3. primask' = 0 /\ basepri' = 0
    BY <1>1, <1>2, PortAssumption DEF PopMask, MasksOf, Shielded, MasksWithBasepri
  <1>4. \A b \in Actor : ~InSection(b)'
    BY <1>1 DEF SInv, Typed, Alone, InSection, Section
  <1>5. Typed' /\ ModeAllowed'
    BY <1>1, <1>3 DEF SInv, Typed, ModeAllowed, Active, PopMask, NoCall, Fields, Labels
  <1> QED
    BY <1>3, <1>4, <1>5 DEF SInv, Alone, Masked, Unmasked, OthersWait

LEMMA SwitchSInv ==
    ASSUME SInv, Shielded, NEW t \in Tasks, Switch(t)
    PROVE  SInv'
  <1>1. /\ UNCHANGED <<masks, pc, local>> /\ task' = t
        /\ ~HeldBack(15)
    BY DEF Switch
  <1>2. \A a \in Actor : ~InSection(a)
    <2> SUFFICES ASSUME NEW a \in Actor, InSection(a) PROVE FALSE
      OBVIOUS
    <2>1. MasksOf(a) /\ local[a].mode \in Calls[a]
      BY DEF SInv, Masked, ModeAllowed, InSection, Section, Active
    <2>2. MasksWithBasepri(a) => Threshold[a] # 0
      BY <2>1 DEF Shielded, MasksWithBasepri
    <2> QED
      BY <1>1, <2>1, <2>2, ActorAssumption DEF MasksOf, HeldBack
  <1> QED
    BY <1>1, <1>2 DEF SInv, Typed, ModeAllowed, Alone, Masked, Unmasked,
       OthersWait, InSection, Active, masks

LEMMA StutterSInv ==
    ASSUME SInv, UNCHANGED vars
    PROVE  SInv'
  BY DEF SInv, Typed, ModeAllowed, Alone, Masked, Unmasked, OthersWait, MasksOf,
     MasksWithBasepri, Preempted, InSection, Active, vars

LEMMA NextSInv ==
    ASSUME SInv, Shielded, [Next]_vars
    PROVE  SInv'
  <1>1. CASE \E a \in Actor : Begin(a)
    BY <1>1, BeginSInv
  <1>2. CASE \E a \in Actor : Enter(a)
    BY <1>2, EnterSInv
  <1>3. CASE \E a \in Actor : Exit(a)
    BY <1>3, ExitSInv
  <1>4. CASE \E a \in Actor : StepsInside(a)
    BY <1>4, InsideSInv
  <1>5. CASE \E t \in Tasks : Switch(t)
    BY <1>5, SwitchSInv
  <1>6. CASE UNCHANGED vars
    BY <1>6, StutterSInv
  <1> QED
    BY <1>1, <1>2, <1>3, <1>4, <1>5, <1>6 DEF Next, Continue, StepsInside

(* Shielded calls exclude one another, whatever preempts what: SInv is     *)
(* invariant of the steps of Spec.                                         *)
LEMMA Sections ==
    ASSUME Shielded
    PROVE  Spec => []SInv
  <1>1. Init => SInv
    BY InitSInv
  <1>2. SInv /\ [Next]_vars => SInv'
    BY NextSInv
  <1> QED
    BY <1>1, <1>2, PTL DEF Spec

-----------------------------------------------------------------------------
(* Nobody works on the shared context while another is in the middle of    *)
(* it (arcfour_isr.h:8), with PRIMASK or with priorities at the ceiling.   *)
THEOREM OneWorks ==
    ASSUME Shielded
    PROVE  Spec => []OneAtATime
  <1>1. SInv => OneAtATime
    BY DEF SInv, Alone, OneAtATime, Inside, InSection, Section
  <1> QED
    BY <1>1, Sections, PTL

(* Both mask registers are clear again when nobody is in a call.           *)
THEOREM MasksCleared ==
    ASSUME Shielded
    PROVE  Spec => []MasksReturn
  <1>1. SInv => MasksReturn
    BY DEF SInv, Unmasked, MasksReturn, InSection, Section, Active
  <1> QED
    BY <1>1, Sections, PTL

-----------------------------------------------------------------------------
(* A call counts from where the stream was when it found the context       *)
(* usable, and has made no round before that.                              *)
Counting(a) ==
    /\ pc[a] \in {"load", "i", "j", "swap", "out"} => pos = local[a].from + local[a].k
    /\ pc[a] \in {"enter", "test"} => local[a].k = 0

CInv ==
    /\ pos \in Nat
    /\ \A a \in Actor : local[a].k \in Nat /\ local[a].from \in Nat /\ Counting(a)

WInv == SInv /\ CInv

(* Nobody else counts while a moves the stream.                            *)
LEMMA OthersKeepCounting ==
    ASSUME WInv, NEW a \in Actor, NEW b \in Actor \ {a},
           pc'[b] = pc[b], local'[b] = local[b], pos' = pos \/ InSection(a)
    PROVE  local'[b].k \in Nat /\ local'[b].from \in Nat /\ Counting(b)'
  <1>1. CASE pos' = pos
    BY <1>1 DEF WInv, CInv, Counting
  <1>2. CASE InSection(a)
    <2>1. ~InSection(b)
      BY <1>2 DEF WInv, SInv, Alone
    <2> QED
      BY <2>1 DEF WInv, CInv, Counting, InSection, Section
  <1> QED
    BY <1>1, <1>2

StepOf(a) == Begin(a) \/ Continue(a)

(* What a step of a does to a's own count, and to the stream.              *)
LEMMA OwnCount ==
    ASSUME WInv, Shielded, NEW a \in Actor, StepOf(a)
    PROVE  /\ pos' \in Nat /\ (pos' = pos \/ InSection(a))
           /\ local'[a].k \in Nat /\ local'[a].from \in Nat /\ Counting(a)'
           /\ \A b \in Actor \ {a} : pc'[b] = pc[b] /\ local'[b] = local[b]
  <1>1. /\ pos \in Nat /\ local[a].k \in Nat /\ local[a].from \in Nat
        /\ Counting(a)
        /\ DOMAIN pc = Actor /\ DOMAIN local = Actor
        /\ pc = [b \in Actor |-> pc[b]] /\ local = [b \in Actor |-> local[b]]
        /\ DOMAIN local[a] = Fields
        /\ Active(a) => local[a].mode # "plain"
    BY DEF WInv, CInv, SInv, Typed, ModeAllowed, Shielded
  <1>2. CASE Begin(a)
    <2>1. /\ UNCHANGED pos
          /\ pc' = [pc EXCEPT ![a] = "enter"] \/ pc' = [pc EXCEPT ![a] = "test"]
          /\ local' = [local EXCEPT ![a] = local'[a]]
          /\ local'[a].k = 0 /\ local'[a].from = 0
      <3>1. CASE \E key \in Keys : BeginInit(a, key)
        <4>1. PICK key \in Keys : BeginInit(a, key)
          BY <3>1
        <4> QED
          BY <4>1 DEF WInv, SInv, Typed, BeginInit, Goto, NoCall, context
      <3>2. CASE \E mode \in Modes, n \in Lengths : BeginEncrypt(a, mode, n)
        <4>1. PICK mode \in Modes, n \in Lengths : BeginEncrypt(a, mode, n)
          BY <3>2
        <4> QED
          BY <4>1 DEF WInv, SInv, Typed, BeginEncrypt, Goto, NoCall, context
      <3> QED
        BY <1>2, <3>1, <3>2 DEF Begin
    <2> QED
      BY <1>1, <2>1 DEF Counting
  <1>3. CASE Enter(a)
    BY <1>1, <1>3 DEF Enter, At, Goto, Counting, context
  <1>4. CASE Exit(a)
    BY <1>1, <1>4 DEF Exit, At, Goto, NoCall, Counting, context
  <1>5. CASE Test(a)
    <2>1. /\ UNCHANGED pos
          /\ \/ pc' = [pc EXCEPT ![a] = "exit"] /\ UNCHANGED local
             \/ /\ pc' = [pc EXCEPT ![a] = "load"]
                /\ local' = [local EXCEPT ![a].from = pos]
      BY <1>1, <1>5 DEF Test, Leave, At, Goto, Active, context
    <2>2. local[a].k = 0
      BY <1>1, <1>5 DEF Test, At, Counting
    <2> QED
      BY <1>1, <2>1, <2>2 DEF Counting, Fields
  <1>6. CASE LoadI(a)
    <2>1. /\ UNCHANGED pos
          /\ \/ pc' = [pc EXCEPT ![a] = "exit"] /\ UNCHANGED local
             \/ /\ pc' = [pc EXCEPT ![a] = "i"]
                /\ local' = [local EXCEPT ![a].i = (gen.i + 1) % N]
      BY <1>1, <1>6 DEF LoadI, Leave, At, Goto, Active, context
    <2>2. pos = local[a].from + local[a].k
      BY <1>1, <1>6 DEF LoadI, At, Counting
    <2> QED
      BY <1>1, <2>1, <2>2 DEF Counting, Fields
  <1>7. CASE TimeOut(a)
    BY <1>1, <1>7 DEF TimeOut, Leave, At, Goto, Active, Counting, context
  <1>8. CASE StoreI(a) \/ SwapBytes(a) \/ SetFlag(a)
    BY <1>1, <1>8 DEF StoreI, SwapBytes, SetFlag, At, Goto, Counting
  <1>9. CASE StoreJ(a)
    BY <1>1, <1>9 DEF StoreJ, At, Goto, Counting, Fields
  <1>10. CASE Deliver(a)
    BY <1>1, <1>10 DEF Deliver, At, Goto, Counting, Fields, InSection, Section
  <1>11. CASE Ksa(a)
    BY <1>1, <1>11 DEF Ksa, At, Goto, Counting, InSection, Section
  <1>12. CASE DiscardRound(a)
    BY <1>1, <1>12 DEF DiscardRound, At, Counting, Fields, InSection, Section
  <1> QED
    BY <1>2, <1>3, <1>4, <1>5, <1>6, <1>7, <1>8, <1>9, <1>10, <1>11, <1>12
       DEF StepOf, Continue

LEMMA NextCInv ==
    ASSUME WInv, Shielded, [Next]_vars
    PROVE  CInv'
  <1>1. ASSUME NEW a \in Actor, StepOf(a)
        PROVE  CInv'
    <2>1. \A b \in Actor \ {a} :
              local'[b].k \in Nat /\ local'[b].from \in Nat /\ Counting(b)'
      BY <1>1, OwnCount, OthersKeepCounting
    <2> QED
      BY <1>1, <2>1, OwnCount DEF CInv
  <1>2. CASE UNCHANGED vars \/ \E t \in Tasks : Switch(t)
    BY <1>2 DEF WInv, CInv, Counting, vars, Switch, context
  <1> QED
    BY <1>1, <1>2 DEF Next, StepOf

(* No byte of the stream is taken out of the middle of a message, so a     *)
(* receiver that decrypts message by message stays in step                 *)
(* (arcfour_isr.c:122-127).                                                *)
THEOREM MessagesAreWhole ==
    ASSUME Shielded
    PROVE  Spec => []MessagesWhole
  <1>1. Init => WInv
    BY InitSInv DEF Init, WInv, CInv, Counting, NoCall
  <1>2. WInv /\ [Next]_vars => WInv'
    BY NextSInv, NextCInv DEF WInv
  <1>3. WInv => MessagesWhole
    BY DEF WInv, CInv, Counting, MessagesWhole
  <1> QED
    BY <1>1, <1>2, <1>3, PTL DEF Spec

-----------------------------------------------------------------------------
(***************************************************************************)
(* The stream.  While an actor is in the middle of a round the generator   *)
(* is as far into that round as the actor's label says, with its registers *)
(* in the actor's locals; at any other time it is pos rounds from base.    *)
(***************************************************************************)
Here == After(base, pos)

NextI == (Here.i + 1) % N
NextJ == (Here.j + Here.S[NextI]) % N

Torn == {"j", "swap", "out"}

Round(a) ==
    /\ pc[a] \in {"i", "j", "swap", "out"} => local[a].i = NextI
    /\ pc[a] \in {"swap", "out"} => local[a].j = NextJ
    /\ pc[a] = "j" => gen = [S |-> Here.S, i |-> NextI, j |-> Here.j]
    /\ pc[a] = "swap" => gen = [S |-> Here.S, i |-> NextI, j |-> NextJ]
    /\ pc[a] = "out" => gen = NextGen(Here)

(* A call that encrypts has found the flag up or is one of those that rely *)
(* on their caller for it; a call that keys carries a key, and its discard *)
(* loop counts the position.                                               *)
CarriesKey(a) ==
    \/ pc[a] \in {"key", "discard"}
    \/ pc[a] = "enter" /\ local[a].mode = "init"

CallOK(a) ==
    /\ pc[a] \in {"load", "i", "j", "swap", "out"} => initialized = 1
    /\ Active(a) /\ local[a].mode \in {"timeout", "byte"} => initialized = 1
    /\ CarriesKey(a) => local[a].key \in Keys /\ local[a].n = Discard
    /\ pc[a] = "key" => local[a].k = 0
    /\ pc[a] = "discard" => local[a].k = pos

AtRest == (\A a \in Actor : pc[a] \notin Torn) => gen = Here

GInv ==
    /\ base \in [Byte -> Byte] /\ initialized \in {0, 1}
    /\ \A a \in Actor : Round(a) /\ CallOK(a)
    /\ AtRest
    /\ initialized = 0 /\ ~Keying => base = Zeros

RInv == WInv /\ GInv

-----------------------------------------------------------------------------
LEMMA HereType ==
    ASSUME RInv
    PROVE  /\ Here \in Generator
           /\ Here = [S |-> Here.S, i |-> Here.i, j |-> Here.j]
           /\ After(base, pos + 1) = NextGen(Here)
           /\ NextGen(Here) = [S |-> Swap(Here.S, NextI, NextJ),
                               i |-> NextI, j |-> NextJ]
  <1>1. base \in [Byte -> Byte] /\ pos \in Nat
    BY DEF RInv, WInv, CInv, GInv
  <1>2. Here \in Generator /\ After(base, pos + 1) = NextGen(Here)
    BY <1>1, AfterRounds DEF Here
  <1>3. Here = [S |-> Here.S, i |-> Here.i, j |-> Here.j]
    BY <1>2 DEF Generator
  <1>4. NextGen(Here) = [S |-> Swap(Here.S, NextI, NextJ),
                         i |-> NextI, j |-> NextJ]
    BY DEF NextGen, NextI, NextJ
  <1> QED
    BY <1>2, <1>3, <1>4

LEMMA KeyedType ==
    ASSUME NEW key \in Keys
    PROVE  KeyedSBox(key) \in [Byte -> Byte]
  BY KeysAssumption, KeyedSBoxType

(* What an actor finds in its section: the others are outside of theirs.   *)
LEMMA InsideAlone ==
    ASSUME RInv, NEW a \in Actor, InSection(a)
    PROVE  /\ \A b \in Actor \ {a} : ~InSection(b)
           /\ pc[a] \notin Torn => gen = Here
           /\ Keying <=> pc[a] = "discard"
  <1>1. \A b \in Actor \ {a} : ~InSection(b)
    BY DEF RInv, WInv, SInv, Alone
  <1>2. \A b \in Actor \ {a} : pc[b] \notin Torn /\ pc[b] # "discard"
    BY <1>1 DEF InSection, Section, Torn
  <1>3. pc[a] \notin Torn => gen = Here
    BY <1>2 DEF RInv, GInv, AtRest
  <1> QED
    BY <1>1, <1>2, <1>3 DEF Keying

LEMMA OthersKeepRound ==
    ASSUME RInv, NEW a \in Actor, NEW b \in Actor \ {a},
           pc'[b] = pc[b], local'[b] = local[b],
           initialized = 1 => initialized' = 1,
           InSection(a) \/ UNCHANGED <<gen, base, pos, initialized>>
    PROVE  Round(b)' /\ CallOK(b)'
  <1>1. Round(b) /\ CallOK(b) /\ initialized \in {0, 1}
    BY DEF RInv, GInv
  <1>2. CASE UNCHANGED <<gen, base, pos, initialized>>
    BY <1>1, <1>2 DEF Round, CallOK, CarriesKey, Active, Here, NextI, NextJ
  <1>3. CASE InSection(a)
    <2>1. ~InSection(b)
      BY <1>3, InsideAlone
    <2> QED
      BY <1>1, <2>1 DEF Round, CallOK, CarriesKey, Active, InSection, Section
  <1> QED
    BY <1>2, <1>3

(* With the other actors settled, the actor's own part is enough.          *)
LEMMA OwnSuffices ==
    ASSUME RInv, WInv', NEW a \in Actor,
           \A b \in Actor \ {a} : pc'[b] = pc[b] /\ local'[b] = local[b],
           initialized' \in {0, 1}, initialized = 1 => initialized' = 1,
           base' \in [Byte -> Byte],
           InSection(a) \/ UNCHANGED <<gen, base, pos, initialized>>,
           Round(a)', CallOK(a)', AtRest',
           (initialized = 0 /\ ~Keying => base = Zeros)'
    PROVE  GInv'
  BY OthersKeepRound DEF GInv

(* The abstract state.                                                     *)
AbsMode == [c \in {"shared"} |-> Mode]
AbsStart == [c \in {"shared"} |-> base]
AbsPos == [c \in {"shared"} |-> IF Mode = "on" THEN pos ELSE 0]
AbsOut == [c \in {"shared"} |-> out]

AbsStep == Stream!StreamNext \/ UNCHANGED <<AbsMode, AbsStart, AbsPos, AbsOut>>

(* Labels between which nothing shows.                                     *)
LEMMA NothingShows ==
    ASSUME UNCHANGED <<base, pos, out, initialized>>, Keying' <=> Keying
    PROVE  AbsStep
  <1>1. Mode' = Mode
    BY DEF Mode
  <1> QED
    BY <1>1 DEF AbsStep, AbsMode, AbsStart, AbsPos, AbsOut

LEMMA SameOperators ==
    /\ Stream!Zeros = Zeros
    /\ Stream!NoByte = NoByte
    /\ \A key : Stream!KeyedSBox(key) = KeyedSBox(key)
    /\ \A S, n : Stream!StreamByte(S, n) = StreamByte(S, n)
  <1>1. Stream!Byte = Byte /\ Stream!Identity = Identity
    BY DEF Stream!Byte, Byte, Stream!Identity, Identity
  <1>2. Stream!Zeros = Zeros /\ Stream!NoByte = NoByte
    BY <1>1 DEF Stream!Zeros, Zeros, Stream!NoByte, NoByte
  <1>3. \A S, a, b : Stream!Swap(S, a, b) = Swap(S, a, b)
    BY DEF Stream!Swap, Swap
  <1>4. \A S, j, key, k : Stream!KsaIndex(S, j, key, k) = KsaIndex(S, j, key, k)
    BY DEF Stream!KsaIndex, KsaIndex
  <1>5. \A S, j, key, k : Stream!KsaSwap(S, j, key, k) = KsaSwap(S, j, key, k)
    BY <1>3, <1>4 DEF Stream!KsaSwap, KsaSwap
  <1>6. \A g : Stream!NextGen(g) = NextGen(g)
    BY <1>3 DEF Stream!NextGen, NextGen
  <1>7. \A S : Stream!Started(S) = Started(S)
    BY DEF Stream!Started, Started
  <1>8. \A key : Stream!KeyedSBox(key) = KeyedSBox(key)
    BY <1>1, <1>4, <1>5 DEF Stream!KeyedSBox, KeyedSBox
  <1>9. \A S, n : Stream!After(S, n) = After(S, n)
    BY <1>6, <1>7 DEF Stream!After, After
  <1>10. \A g : Stream!OutByte(g) = OutByte(g)
    BY DEF Stream!OutByte, OutByte
  <1>11. \A S, n : Stream!StreamByte(S, n) = StreamByte(S, n)
    BY <1>9, <1>10 DEF Stream!StreamByte, StreamByte
  <1> QED
    BY <1>2, <1>8, <1>11

-----------------------------------------------------------------------------
(* The steps, one kind at a time.  What every lemma may use of the actor.  *)
LEMMA Facts ==
    ASSUME RInv, NEW a \in Actor
    PROVE  /\ pc \in [Actor -> Labels] /\ local = [b \in Actor |-> local[b]]
           /\ DOMAIN local[a] = Fields
           /\ pos \in Nat /\ local[a].k \in Nat
           /\ base \in [Byte -> Byte] /\ initialized \in {0, 1}
           /\ Round(a) /\ CallOK(a) /\ AtRest
           /\ initialized = 0 /\ ~Keying => base = Zeros
           /\ pc[a] = "enter" => local[a].k = 0
           /\ Active(a) => local[a].mode \in Calls[a]
  BY DEF RInv, WInv, SInv, Typed, CInv, GInv, Counting, ModeAllowed

(* A step that leaves the context alone.                                   *)
LEMMA ContextStands ==
    ASSUME RInv, WInv', NEW a \in Actor, UNCHANGED context,
           \A b \in Actor \ {a} : pc'[b] = pc[b] /\ local'[b] = local[b],
           Round(a)', CallOK(a)',
           pc[a] \notin Torn, pc'[a] \notin Torn,
           pc'[a] = "discard" <=> pc[a] = "discard"
    PROVE  GInv' /\ AbsStep
  <1>1. Keying' <=> Keying
    BY DEF Keying
  <1>2. AtRest'
    <2>1. Here' = Here
      BY DEF context, Here
    <2> QED
      BY <2>1, Facts DEF AtRest, context
  <1>3. AbsStep
    BY <1>1, NothingShows DEF context
  <1> QED
    BY <1>1, <1>2, <1>3, Facts, OwnSuffices DEF context

LEMMA BeginStream ==
    ASSUME RInv, WInv', NEW a \in Actor, Begin(a)
    PROVE  GInv' /\ AbsStep
  <1>1. \A b \in Actor \ {a} : pc'[b] = pc[b] /\ local'[b] = local[b]
    BY Facts DEF Begin, BeginEncrypt, BeginInit, Goto
  <1>2. CASE \E key \in Keys : BeginInit(a, key)
    <2>1. PICK key \in Keys : BeginInit(a, key)
      BY <1>2
    <2>2. /\ pc[a] = "idle" /\ pc'[a] = "enter" /\ UNCHANGED context
          /\ local'[a] = [NoCall EXCEPT !.mode = "init", !.n = Discard,
                                        !.key = key]
      BY <2>1, Facts DEF BeginInit, At, Goto
    <2>3. /\ local'[a].mode = "init" /\ local'[a].n = Discard
          /\ local'[a].key = key
      BY <2>2 DEF NoCall
    <2>4. Round(a)' /\ CallOK(a)'
      BY <2>2, <2>3 DEF Round, CallOK, CarriesKey
    <2> QED
      BY <1>1, <2>2, <2>4, ContextStands DEF Torn
  <1>3. CASE \E mode \in Modes, n \in Lengths : BeginEncrypt(a, mode, n)
    <2>1. PICK mode \in Modes, n \in Lengths : BeginEncrypt(a, mode, n)
      BY <1>3
    <2>2. /\ pc[a] = "idle" /\ pc'[a] \in {"enter", "test"}
          /\ UNCHANGED context
          /\ local'[a] = [NoCall EXCEPT !.mode = mode, !.n = n]
          /\ mode # "init"
          /\ mode \in {"timeout", "byte"} => initialized = 1
      BY <2>1, Facts DEF BeginEncrypt, At, Goto
    <2>3. local'[a].mode = mode
      BY <2>2 DEF NoCall
    <2>4. Round(a)' /\ CallOK(a)'
      BY <2>2, <2>3 DEF Round, CallOK, CarriesKey, context
    <2> QED
      BY <1>1, <2>2, <2>4, ContextStands DEF Torn
  <1> QED
    BY <1>2, <1>3 DEF Begin

(* The way into a section and out of it, and the tests and loads inside.   *)
LEMMA QuietStream ==
    ASSUME RInv, WInv', Shielded, NEW a \in Actor,
           Enter(a) \/ Exit(a) \/ Test(a) \/ LoadI(a) \/ TimeOut(a)
    PROVE  GInv' /\ AbsStep
  <1>1. Active(a) => local[a].mode # "plain"
    BY Facts DEF Shielded
  <1>2. \A b \in Actor \ {a} : pc'[b] = pc[b] /\ local'[b] = local[b]
    BY Facts DEF Enter, Exit, Test, LoadI, TimeOut, Leave, Goto
  <1>3. UNCHANGED context /\ Here' = Here /\ NextI' = NextI
    BY DEF Enter, Exit, Test, LoadI, TimeOut, context, Here, NextI
  <1>4. CASE Enter(a)
    <2>1. /\ pc[a] = "enter" /\ local' = local
          /\ pc'[a] = IF local[a].mode = "init" THEN "key" ELSE "test"
      BY <1>4, Facts DEF Enter, At, Goto
    <2>2. Round(a)' /\ CallOK(a)'
      BY <1>3, <2>1, Facts DEF Round, CallOK, CarriesKey, Active, context
    <2> QED
      BY <1>2, <1>3, <2>1, <2>2, ContextStands DEF Torn
  <1>5. CASE Exit(a)
    <2>1. pc[a] = "exit" /\ pc'[a] = "idle"
      BY <1>5, Facts DEF Exit, At, Goto
    <2>2. Round(a)' /\ CallOK(a)'
      BY <2>1 DEF Round, CallOK, CarriesKey, Active
    <2> QED
      BY <1>2, <1>3, <2>1, <2>2, ContextStands DEF Torn
  <1>6. CASE Test(a)
    <2>1. /\ pc[a] = "test"
          /\ \/ pc'[a] = "exit" /\ local' = local
             \/ /\ pc'[a] = "load" /\ initialized = 1
                /\ local'[a] = [local[a] EXCEPT !.from = pos]
      BY <1>1, <1>6, Facts DEF Test, Leave, At, Goto, Active, CallOK
    <2>2. local'[a].mode = local[a].mode
      BY <2>1, Facts DEF Fields
    <2>3. Round(a)' /\ CallOK(a)'
      BY <1>3, <2>1, <2>2, Facts DEF Round, CallOK, CarriesKey, Active, context
    <2> QED
      BY <1>2, <1>3, <2>1, <2>3, ContextStands DEF Torn
  <1>7. CASE LoadI(a)
    <2>1. /\ pc[a] = "load"
          /\ \/ pc'[a] = "exit" /\ local' = local
             \/ /\ pc'[a] = "i"
                /\ local'[a] = [local[a] EXCEPT !.i = (gen.i + 1) % N]
      BY <1>1, <1>7, Facts DEF LoadI, Leave, At, Goto, Active
    <2>2. gen = Here
      BY <2>1, InsideAlone DEF InSection, Section, Torn
    <2>3. /\ local'[a].mode = local[a].mode
          /\ pc'[a] = "i" => local'[a].i = NextI
      BY <2>1, <2>2, Facts DEF NextI, Fields
    <2>4. Round(a)' /\ CallOK(a)'
      BY <1>3, <2>1, <2>3, Facts DEF Round, CallOK, CarriesKey, Active, context
    <2> QED
      BY <1>2, <1>3, <2>1, <2>4, ContextStands DEF Torn
  <1>8. CASE TimeOut(a)
    <2>1. pc[a] = "load" /\ pc'[a] = "exit" /\ local' = local
      BY <1>1, <1>8, Facts DEF TimeOut, Leave, At, Goto, Active
    <2>2. Round(a)' /\ CallOK(a)'
      BY <1>3, <2>1, Facts DEF Round, CallOK, CarriesKey, Active, context
    <2> QED
      BY <1>2, <1>3, <2>1, <2>2, ContextStands DEF Torn
  <1> QED
    BY <1>4, <1>5, <1>6, <1>7, <1>8

(* A step in the middle of a round, which moves only the generator.        *)
LEMMA RoundStands ==
    ASSUME RInv, WInv', NEW a \in Actor,
           UNCHANGED <<initialized, base, pos, out>>,
           \A b \in Actor \ {a} : pc'[b] = pc[b] /\ local'[b] = local[b],
           pc[a] \in {"i", "j", "swap"}, pc'[a] \in Torn,
           local'[a].mode = local[a].mode, Round(a)'
    PROVE  GInv' /\ AbsStep
  <1>1. InSection(a)
    BY DEF InSection, Section
  <1>2. ~Keying /\ ~Keying'
    BY <1>1, InsideAlone DEF Keying, Torn
  <1>3. CallOK(a)' /\ AtRest'
    BY Facts DEF CallOK, CarriesKey, Active, Torn, AtRest
  <1>4. GInv'
    BY <1>1, <1>2, <1>3, Facts, OwnSuffices
  <1> QED
    BY <1>2, <1>4, NothingShows

LEMMA RoundStream ==
    ASSUME RInv, WInv', NEW a \in Actor,
           StoreI(a) \/ StoreJ(a) \/ SwapBytes(a)
    PROVE  GInv' /\ AbsStep
  <1>1. \A b \in Actor \ {a} : pc'[b] = pc[b] /\ local'[b] = local[b]
    BY Facts DEF StoreI, StoreJ, SwapBytes, Goto
  <1>2. UNCHANGED <<initialized, base, pos, out>>
    BY DEF StoreI, StoreJ, SwapBytes
  <1>3. Here' = Here /\ NextI' = NextI /\ NextJ' = NextJ
    BY <1>2 DEF Here, NextI, NextJ
  <1>4. CASE StoreI(a)
    <2>1. /\ pc[a] = "i" /\ pc'[a] = "j" /\ local' = local
          /\ gen' = [gen EXCEPT !.i = local[a].i]
      BY <1>4, Facts DEF StoreI, At, Goto
    <2>2. gen = Here /\ local[a].i = NextI
      BY <2>1, Facts, InsideAlone DEF InSection, Section, Torn, Round
    <2>3. gen = [S |-> Here.S, i |-> Here.i, j |-> Here.j]
      BY <2>2, HereType
    <2>4. gen' = [S |-> Here.S, i |-> NextI, j |-> Here.j]
      BY <2>1, <2>2, <2>3
    <2>5. Round(a)'
      BY <1>3, <2>1, <2>2, <2>4 DEF Round
    <2> QED
      BY <1>1, <1>2, <2>1, <2>5, RoundStands DEF Torn
  <1>5. CASE StoreJ(a)
    <2>1. /\ pc[a] = "j" /\ pc'[a] = "swap"
          /\ gen' = [gen EXCEPT !.j = (gen.j + gen.S[local[a].i]) % N]
          /\ local'[a] = [local[a] EXCEPT
                             !.j = (gen.j + gen.S[local[a].i]) % N]
      BY <1>5, Facts DEF StoreJ, At, Goto
    <2>2. /\ local[a].i = NextI
          /\ gen = [S |-> Here.S, i |-> NextI, j |-> Here.j]
      BY <2>1, Facts DEF Round
    <2>3. (gen.j + gen.S[local[a].i]) % N = NextJ
      BY <2>2 DEF NextJ
    <2>4. gen' = [S |-> Here.S, i |-> NextI, j |-> NextJ]
      BY <2>1, <2>2, <2>3
    <2>5. /\ local'[a].i = NextI /\ local'[a].j = NextJ
          /\ local'[a].mode = local[a].mode
      BY <2>1, <2>2, <2>3, Facts DEF Fields
    <2>6. Round(a)'
      BY <1>3, <2>1, <2>4, <2>5 DEF Round
    <2> QED
      BY <1>1, <1>2, <2>1, <2>5, <2>6, RoundStands DEF Torn
  <1>6. CASE SwapBytes(a)
    <2>1. /\ pc[a] = "swap" /\ pc'[a] = "out" /\ local' = local
          /\ gen' = [gen EXCEPT !.S = Swap(gen.S, local[a].i, local[a].j)]
      BY <1>6, Facts DEF SwapBytes, At, Goto
    <2>2. /\ local[a].i = NextI /\ local[a].j = NextJ
          /\ gen = [S |-> Here.S, i |-> NextI, j |-> NextJ]
      BY <2>1, Facts DEF Round
    <2>3. gen' = [S |-> Swap(Here.S, NextI, NextJ), i |-> NextI, j |-> NextJ]
      BY <2>1, <2>2
    <2>4. gen' = NextGen(Here)
      BY <2>3, HereType
    <2>5. Round(a)'
      BY <1>3, <2>1, <2>2, <2>4 DEF Round
    <2> QED
      BY <1>1, <1>2, <2>1, <2>5, RoundStands DEF Torn
  <1> QED
    BY <1>4, <1>5, <1>6

LEMMA SameFields ==
    ASSUME NEW g, NEW S, NEW i, NEW j, g = [S |-> S, i |-> i, j |-> j]
    PROVE  [g EXCEPT !.i = i, !.j = j] = g
  <1> DEFINE h == [g EXCEPT !.i = i]
  <1>1. h = g
    OBVIOUS
  <1>2. [h EXCEPT !.j = j] = g
    BY <1>1
  <1> QED
    BY <1>2

(* The last statement of a round delivers the next byte of the stream.     *)
LEMMA DeliverStream ==
    ASSUME RInv, WInv', NEW a \in Actor, Deliver(a)
    PROVE  GInv' /\ AbsStep
  <1>1. /\ pc[a] = "out" /\ pc'[a] = "load" /\ pos' = pos + 1
        /\ UNCHANGED <<gen, initialized, base>>
        /\ out' = OutByte([gen EXCEPT !.i = local[a].i, !.j = local[a].j])
        /\ local'[a] = [local[a] EXCEPT !.k = @ + 1]
        /\ \A b \in Actor \ {a} : pc'[b] = pc[b] /\ local'[b] = local[b]
    BY Facts DEF Deliver, At, Goto
  <1>2. /\ local[a].i = NextI /\ local[a].j = NextJ
        /\ gen = NextGen(Here) /\ initialized = 1
    BY <1>1, Facts DEF Round, CallOK
  <1>3. InSection(a) /\ ~Keying
    <2>1. InSection(a)
      BY <1>1 DEF InSection, Section
    <2> QED
      BY <1>1, <2>1, InsideAlone
  <1>4. ~Keying' /\ Mode = "on" /\ Mode' = "on"
    BY <1>1, <1>2, <1>3 DEF Keying, Mode
  <1>5. gen = After(base, pos + 1) /\ Here' = gen
    BY <1>1, <1>2, HereType DEF Here
  <1>6. out' = StreamByte(base, pos + 1)
    <2>1. gen = [S |-> Swap(Here.S, NextI, NextJ), i |-> NextI, j |-> NextJ]
      BY <1>2, HereType
    <2>2. [gen EXCEPT !.i = NextI, !.j = NextJ] = gen
      BY <2>1, SameFields
    <2> QED
      BY <1>1, <1>2, <1>5, <2>2 DEF StreamByte
  <1>7. Round(a)' /\ CallOK(a)' /\ AtRest'
    <2>1. local'[a].mode = local[a].mode
      BY <1>1, Facts DEF Fields
    <2> QED
      BY <1>1, <1>2, <1>5, <2>1 DEF Round, CallOK, CarriesKey, Active, AtRest
  <1>8. GInv'
    BY <1>1, <1>2, <1>3, <1>7, Facts, OwnSuffices
  <1>9. Stream!Deliver("shared")
    BY <1>1, <1>4, <1>6, SameOperators DEF Stream!Deliver
  <1> QED
    BY <1>8, <1>9 DEF AbsStep, Stream!StreamNext

(* The key schedule and the start of the discard loop.                     *)
LEMMA KsaStream ==
    ASSUME RInv, WInv', NEW a \in Actor, Ksa(a)
    PROVE  GInv' /\ AbsStep
  <1>1. pc[a] = "key" /\ local[a].key \in Keys
    BY Facts DEF Ksa, At, CallOK, CarriesKey
  <1>2. PICK key \in Keys : key = local[a].key
    BY <1>1
  <1>3. /\ pc'[a] = "discard" /\ local' = local
        /\ gen' = Started(KeyedSBox(key)) /\ base' = KeyedSBox(key)
        /\ pos' = 0 /\ UNCHANGED <<initialized, out>>
        /\ \A b \in Actor \ {a} : pc'[b] = pc[b] /\ local'[b] = local[b]
    BY <1>2, Facts DEF Ksa, At, Goto
  <1>4. KeyedSBox(key) \in [Byte -> Byte]
    BY KeyedType
  <1>5. Here' = gen'
    <2>1. After(KeyedSBox(key), 0) = Started(KeyedSBox(key))
      BY <1>4, AfterRounds
    <2> QED
      BY <1>3, <2>1 DEF Here
  <1>6. InSection(a) /\ Keying' /\ Mode' = "busy"
    BY <1>1, <1>3 DEF InSection, Section, Keying, Mode
  <1>7. Round(a)' /\ CallOK(a)' /\ AtRest'
    BY <1>1, <1>3, <1>5, Facts
       DEF Round, CallOK, CarriesKey, Active, AtRest
  <1>8. GInv'
    BY <1>3, <1>4, <1>6, <1>7, Facts, OwnSuffices
  <1>9. Stream!Rekey("shared", key)
    BY <1>3, <1>6, SameOperators DEF Stream!Rekey
  <1> QED
    BY <1>8, <1>9 DEF AbsStep, Stream!StreamNext

LEMMA DiscardStream ==
    ASSUME RInv, WInv', NEW a \in Actor, DiscardRound(a)
    PROVE  GInv' /\ AbsStep
  <1>1. /\ pc[a] = "discard" /\ pc' = pc /\ pos' = pos + 1
        /\ gen' = NextGen(gen) /\ UNCHANGED <<initialized, base, out>>
        /\ local'[a] = [local[a] EXCEPT !.k = @ + 1]
        /\ \A b \in Actor \ {a} : pc'[b] = pc[b] /\ local'[b] = local[b]
    BY Facts DEF DiscardRound, At
  <1>2. InSection(a) /\ gen = Here
    <2>1. InSection(a)
      BY <1>1 DEF InSection, Section
    <2> QED
      BY <1>1, <2>1, InsideAlone DEF Torn
  <1>3. gen' = Here'
    BY <1>1, <1>2, HereType DEF Here
  <1>4. Keying /\ Keying' /\ Mode = "busy" /\ Mode' = "busy"
    BY <1>1 DEF Keying, Mode
  <1>5. /\ local'[a].k = local[a].k + 1 /\ local'[a].n = local[a].n
        /\ local'[a].key = local[a].key /\ local'[a].mode = local[a].mode
    BY <1>1, Facts DEF Fields
  <1>6. Round(a)' /\ CallOK(a)' /\ AtRest'
    BY <1>1, <1>3, <1>5, Facts
       DEF Round, CallOK, CarriesKey, Active, AtRest
  <1>7. GInv'
    BY <1>1, <1>2, <1>4, <1>6, Facts, OwnSuffices
  <1>8. UNCHANGED <<AbsMode, AbsStart, AbsPos, AbsOut>>
    BY <1>1, <1>4 DEF AbsMode, AbsStart, AbsPos, AbsOut
  <1> QED
    BY <1>7, <1>8 DEF AbsStep

(* The context becomes usable, Discard bytes into its stream.              *)
LEMMA SetFlagStream ==
    ASSUME RInv, WInv', NEW a \in Actor, SetFlag(a)
    PROVE  GInv' /\ AbsStep
  <1>1. /\ pc[a] = "discard" /\ pc'[a] = "exit" /\ local' = local
        /\ local[a].k = local[a].n /\ initialized' = 1
        /\ UNCHANGED <<gen, base, pos, out>>
        /\ \A b \in Actor \ {a} : pc'[b] = pc[b] /\ local'[b] = local[b]
    BY Facts DEF SetFlag, At, Goto
  <1>2. pos = Discard
    BY <1>1, Facts DEF CallOK, CarriesKey
  <1>3. /\ InSection(a) /\ gen = Here
        /\ \A b \in Actor \ {a} : ~InSection(b)
    <2>1. InSection(a)
      BY <1>1 DEF InSection, Section
    <2> QED
      BY <1>1, <2>1, InsideAlone DEF Torn
  <1>4. Mode = "busy" /\ ~Keying' /\ Mode' = "on"
    BY <1>1, <1>3 DEF Keying, Mode, InSection, Section
  <1>5. Round(a)' /\ CallOK(a)' /\ AtRest'
    BY <1>1, <1>3 DEF Round, CallOK, CarriesKey, Active, AtRest, Here
  <1>6. GInv'
    BY <1>1, <1>3, <1>5, Facts, OwnSuffices
  <1>7. Stream!Ready("shared")
    BY <1>1, <1>2, <1>4 DEF Stream!Ready
  <1> QED
    BY <1>6, <1>7 DEF AbsStep, Stream!StreamNext

(* What is left: the switch between tasks, and nothing at all.             *)
LEMMA IdleStream ==
    ASSUME RInv, UNCHANGED <<context, pc, local>>
    PROVE  GInv' /\ AbsStep
  <1>1. Here' = Here /\ NextI' = NextI /\ NextJ' = NextJ /\ Keying' = Keying
    BY DEF context, Here, NextI, NextJ, Keying
  <1>2. GInv'
    BY <1>1 DEF RInv, GInv, Round, CallOK, CarriesKey, Active, AtRest, context
  <1>3. AbsStep
    BY <1>1, NothingShows DEF context
  <1> QED
    BY <1>2, <1>3

LEMMA NextStream ==
    ASSUME RInv, Shielded, [Next]_vars
    PROVE  RInv' /\ AbsStep
  <1>1. WInv'
    BY NextSInv, NextCInv DEF RInv, WInv
  <1>2. CASE \E a \in Actor : Begin(a)
    BY <1>1, <1>2, BeginStream DEF RInv
  <1>3. CASE \E a \in Actor :
                Enter(a) \/ Exit(a) \/ Test(a) \/ LoadI(a) \/ TimeOut(a)
    BY <1>1, <1>3, QuietStream DEF RInv
  <1>4. CASE \E a \in Actor : StoreI(a) \/ StoreJ(a) \/ SwapBytes(a)
    BY <1>1, <1>4, RoundStream DEF RInv
  <1>5. CASE \E a \in Actor : Deliver(a)
    BY <1>1, <1>5, DeliverStream DEF RInv
  <1>6. CASE \E a \in Actor : Ksa(a)
    BY <1>1, <1>6, KsaStream DEF RInv
  <1>7. CASE \E a \in Actor : DiscardRound(a)
    BY <1>1, <1>7, DiscardStream DEF RInv
  <1>8. CASE \E a \in Actor : SetFlag(a)
    BY <1>1, <1>8, SetFlagStream DEF RInv
  <1>9. CASE UNCHANGED vars \/ \E t \in Tasks : Switch(t)
    <2>1. UNCHANGED <<context, pc, local>>
      BY <1>9 DEF vars, Switch, context
    <2> QED
      BY <1>1, <2>1, IdleStream DEF RInv
  <1> QED
    BY <1>2, <1>3, <1>4, <1>5, <1>6, <1>7, <1>8, <1>9 DEF Next, Continue

LEMMA InitStream == Init => RInv /\ Stream!StreamInit
  <1> SUFFICES ASSUME Init PROVE RInv /\ Stream!StreamInit
    OBVIOUS
  <1>1. WInv
    BY InitSInv DEF Init, WInv, CInv, Counting, NoCall
  <1>2. gen = Here /\ base \in [Byte -> Byte]
    BY ZerosType, AfterRounds DEF Init, Here
  <1>3. GInv
    BY <1>2 DEF Init, GInv, Round, CallOK, CarriesKey, Active, AtRest
  <1>4. Mode = "off"
    BY DEF Init, Mode, Keying
  <1>5. Stream!StreamInit
    BY <1>4, SameOperators DEF Init, Stream!StreamInit
  <1> QED
    BY <1>1, <1>3, <1>5 DEF RInv

(* However shielded calls preempt one another, what leaves the context is  *)
(* one stream, each byte once, as if every call of rc4_byte were a single  *)
(* step and every keying began a new stream at once (arcfour_isr.c:34-88). *)
THEOREM ImplementsStream ==
    ASSUME Shielded
    PROVE  Spec => SharedStream
  <1>1. Init => RInv /\ Stream!StreamInit
    BY InitStream
  <1>2. RInv /\ [Next]_vars => RInv'
    BY NextStream
  <1>3. RInv /\ [Next]_vars => [Stream!StreamNext]_(Stream!svars)
    BY NextStream
       DEF AbsStep, AbsMode, AbsStart, AbsPos, AbsOut, Stream!svars
  <1> QED
    BY <1>1, <1>2, <1>3, PTL DEF Spec, SharedStream, Stream!StreamSpec
=============================================================================
