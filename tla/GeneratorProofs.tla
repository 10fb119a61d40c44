-------------------------- MODULE GeneratorProofs --------------------------
(***************************************************************************)
(* The implementations of the generator, for every number of byte values:  *)
(* the loops of arcfour_static.c (ArcfourStatic), for every set of         *)
(* contexts and keys and every discard count, and the kernels of the ARM   *)
(* builds and of the DMA API (ArmKernels), for every key and all message   *)
(* lengths.                                                                *)
(*                                                                         *)
(* The invariant of the first part is one of a single context.  To be      *)
(* inductive it adds to the properties where the loop counters stand, and  *)
(* that a discard loop has moved the position once per round.  Frame lifts *)
(* a fact about the context that a step touches to all contexts.           *)
(*                                                                         *)
(* The second part has laws of loops, then of pieces put together, then of *)
(* each kernel by itself, and from them the invariant of two hosts.        *)
(***************************************************************************)
EXTENDS ArcfourStatic, ArmKernels, Rc4Proofs, SequenceTheorems

ContextType(g, f, r, b, p, o) ==
    /\ g \in Generator
    /\ f \in {0, 1}
    /\ r \in CallRecord
    /\ b \in [Byte -> Byte]
    /\ p \in Nat
    /\ o \in Byte \cup {NoByte}

LoopShape(r, p) ==
    /\ r.k <= r.n
    /\ r.op = "ksa" => r.n = N /\ r.key \in Keys /\ p = 0
    /\ r.op \in {"discard", "restart"} => r.n = Discard /\ r.k = p

ContextOK(g, f, r, b, p, o) ==
    /\ ContextType(g, f, r, b, p, o)
    /\ LoopShape(r, p)
    /\ f = 1 \/ r.op \in {"ksa", "discard"} => IsPermutation(g.S)
    /\ g.i = p % N
    /\ f = 1 /\ r.op \in {"idle", "emit", "skip"} => p >= Discard

IInv ==
    /\ TypeOK
    /\ \A c \in Ctx :
          ContextOK(gen[c], initialized[c], call[c], base[c], pos[c], out[c])

-----------------------------------------------------------------------------
(* The invariant gives the properties.                                     *)
LEMMA InvariantSuffices ==
    IInv => /\ TypeOK /\ SBoxIsPermutation
            /\ CounterTracksPosition /\ NoEarlyKeystream
  BY DEF IInv, ContextOK, SBoxIsPermutation, Keying, CounterTracksPosition,
         NoEarlyKeystream

(* A step that gives one context a good state and leaves the others alone  *)
(* keeps the invariant.                                                    *)
LEMMA Frame ==
    ASSUME IInv, NEW c \in Ctx,
           NEW g, NEW f, NEW r, NEW b, NEW p, NEW o,
           ContextOK(g, f, r, b, p, o),
           gen' = [gen EXCEPT ![c] = g],
           initialized' = [initialized EXCEPT ![c] = f],
           call' = [call EXCEPT ![c] = r],
           base' = [base EXCEPT ![c] = b],
           pos' = [pos EXCEPT ![c] = p],
           out' = [out EXCEPT ![c] = o],
           live' \subseteq Heap
    PROVE  IInv'
  <1>1. TypeOK'
    BY DEF IInv, TypeOK, ContextOK, ContextType
  <1>2. ASSUME NEW x \in Ctx
        PROVE  ContextOK(gen'[x], initialized'[x], call'[x], base'[x],
                         pos'[x], out'[x])
    <2>1. CASE x = c
      BY <2>1 DEF IInv, TypeOK
    <2>2. CASE x # c
      <3>1. /\ gen'[x] = gen[x] /\ initialized'[x] = initialized[x]
            /\ call'[x] = call[x] /\ base'[x] = base[x]
            /\ pos'[x] = pos[x] /\ out'[x] = out[x]
        BY <2>2 DEF IInv, TypeOK
      <3> QED
        BY <3>1 DEF IInv
    <2> QED
      BY <2>1, <2>2
  <1> QED
    BY <1>1, <1>2 DEF IInv

(* What a step leaves alone at a context it leaves as it is.               *)
LEMMA Unchanged ==
    ASSUME IInv, NEW c \in Ctx
    PROVE  /\ gen = [gen EXCEPT ![c] = gen[c]]
           /\ initialized = [initialized EXCEPT ![c] = initialized[c]]
           /\ call = [call EXCEPT ![c] = call[c]]
           /\ base = [base EXCEPT ![c] = base[c]]
           /\ pos = [pos EXCEPT ![c] = pos[c]]
           /\ out = [out EXCEPT ![c] = out[c]]
  BY DEF IInv, TypeOK

LEMMA ZeroMod == 0 % N = 0
  BY NAssumption

LEMMA LoopType ==
    ASSUME NEW op \in Ops, NEW n \in Nat
    PROVE  /\ Loop(op, n) \in CallRecord
           /\ Loop(op, n).op = op /\ Loop(op, n).k = 0 /\ Loop(op, n).n = n
  BY NAssumption DEF Loop, CallRecord, Byte

LEMMA IdleType ==
    /\ Idle \in CallRecord
    /\ Idle.op = "idle" /\ Idle.k = 0 /\ Idle.n = 0
  BY NAssumption DEF Idle, CallRecord, Byte, Ops

-----------------------------------------------------------------------------
LEMMA InitIInv == Init => IInv
  <1> SUFFICES ASSUME Init PROVE IInv
    OBVIOUS
  <1>1. Started(Zeros) \in Generator /\ Started(Zeros).i = 0
    BY ZerosType, StartedType
  <1>2. TypeOK
    BY <1>1, ZerosType, IdleType DEF Init, TypeOK
  <1>3. ASSUME NEW c \in Ctx
        PROVE  ContextOK(Started(Zeros), 0, Idle, Zeros, 0, NoByte)
    BY <1>1, ZerosType, IdleType, ZeroMod
       DEF ContextOK, ContextType, LoopShape
  <1> QED
    BY <1>2, <1>3 DEF Init, IInv

(* Keying begins with the identity in the S-box and i = 0.                 *)
LEMMA BeginKsaStep ==
    ASSUME IInv, NEW c \in Ctx, NEW key \in Keys, BeginKsa(c, key),
           NEW f \in {0, 1}, initialized' = [initialized EXCEPT ![c] = f],
           live' \subseteq Heap
    PROVE  IInv'
  <1> DEFINE r == [op |-> "ksa", k |-> 0, n |-> N, j |-> 0, key |-> key]
  <1>1. /\ Started(Identity) \in Generator
        /\ Started(Identity).i = 0
        /\ Started(Identity).S = Identity
    BY StartedType, IdentityPermutes
  <1>2. r \in CallRecord
    BY NAssumption DEF CallRecord, Ops, Byte
  <1>3. base[c] \in [Byte -> Byte] /\ out[c] \in Byte \cup {NoByte}
    BY DEF IInv, TypeOK
  <1>4. ContextOK(Started(Identity), f, r, base[c], 0, out[c])
    BY <1>1, <1>2, <1>3, IdentityPermutes, ZeroMod, NAssumption
       DEF ContextOK, ContextType, LoopShape
  <1>5. /\ gen' = [gen EXCEPT ![c] = Started(Identity)]
        /\ call' = [call EXCEPT ![c] = r]
        /\ base' = [base EXCEPT ![c] = base[c]]
        /\ pos' = [pos EXCEPT ![c] = 0]
        /\ out' = [out EXCEPT ![c] = out[c]]
    BY Unchanged DEF BeginKsa
  <1> QED
    BY <1>4, <1>5, Frame

LEMMA KsaStepStep ==
    ASSUME IInv, NEW c \in Ctx, KsaStep(c)
    PROVE  IInv'
  <1> DEFINE r == call[c]
             S == gen[c].S
             g == [gen[c] EXCEPT !.S = KsaSwap(S, r.j, r.key, r.k)]
             q == [r EXCEPT !.j = KsaIndex(S, r.j, r.key, r.k), !.k = @ + 1]
  <1>1. ContextOK(gen[c], initialized[c], r, base[c], pos[c], out[c])
    BY DEF IInv
  <1>2. /\ S \in [Byte -> Byte] /\ r.j \in Byte /\ r.k \in Nat
        /\ r.op = "ksa" /\ r.key \in Keys /\ r.k <= N /\ r.k # N /\ r.n = N
        /\ IsPermutation(S)
    BY <1>1 DEF ContextOK, ContextType, LoopShape, KsaStep, AtEnd, Generator,
                CallRecord
  <1>3. r.k \in Byte /\ r.k + 1 <= N
    <2>1. \A k \in Nat : k <= N /\ k # N => k \in Byte /\ k + 1 <= N
      BY NAssumption DEF Byte
    <2> HIDE DEF r
    <2> QED
      BY <1>2, <2>1
  <1>4. r.key \in Seq(Byte) /\ Len(r.key) > 0
    BY <1>2, KeysAssumption
  <1>5. /\ KsaIndex(S, r.j, r.key, r.k) \in Byte
        /\ KsaSwap(S, r.j, r.key, r.k) \in [Byte -> Byte]
        /\ IsPermutation(KsaSwap(S, r.j, r.key, r.k))
    BY <1>2, <1>3, <1>4, KsaRound
  <1>6. gen' = [gen EXCEPT ![c] = g] /\ call' = [call EXCEPT ![c] = q]
    BY DEF KsaStep, IInv, TypeOK
  <1>7. /\ g \in Generator /\ g.i = gen[c].i
        /\ g.S = KsaSwap(S, r.j, r.key, r.k)
    BY <1>1, <1>5 DEF ContextOK, ContextType, Generator
  <1>8. /\ q \in CallRecord /\ q.op = "ksa" /\ q.n = N
        /\ q.k = r.k + 1 /\ q.key = r.key
    <2>1. r \in CallRecord
      BY <1>1 DEF ContextOK, ContextType
    <2>2. r.k + 1 \in Nat
      BY <1>2
    <2> QED
      BY <2>1, <2>2, <1>2, <1>5 DEF CallRecord
  <1>9. ContextOK(g, initialized[c], q, base[c], pos[c], out[c])
    <2> HIDE DEF g, q
    <2> QED
      BY <1>1, <1>2, <1>3, <1>5, <1>7, <1>8
         DEF ContextOK, ContextType, LoopShape
  <1> HIDE DEF g, q
  <1>10. live' \subseteq Heap
    BY DEF KsaStep, IInv, TypeOK
  <1>11. /\ initialized' = [initialized EXCEPT ![c] = initialized[c]]
         /\ base' = [base EXCEPT ![c] = base[c]]
         /\ pos' = [pos EXCEPT ![c] = pos[c]]
         /\ out' = [out EXCEPT ![c] = out[c]]
    BY Unchanged DEF KsaStep
  <1> QED
    BY <1>6, <1>9, <1>10, <1>11, Frame

LEMMA KsaDoneStep ==
    ASSUME IInv, NEW c \in Ctx, KsaDone(c)
    PROVE  IInv'
  <1> DEFINE q == Loop("discard", Discard)
  <1>1. ContextOK(gen[c], initialized[c], call[c], base[c], pos[c], out[c])
    BY DEF IInv
  <1>2. /\ q \in CallRecord
        /\ q.op = "discard" /\ q.k = 0 /\ q.n = Discard
    BY LoopType, DiscardAssumption DEF Ops
  <1>3. gen[c].S \in [Byte -> Byte]
    BY <1>1 DEF ContextOK, ContextType, Generator
  <1> HIDE DEF q
  <1>4. ContextOK(gen[c], initialized[c], q, gen[c].S, pos[c], out[c])
    BY <1>1, <1>2, <1>3, DiscardAssumption
       DEF ContextOK, ContextType, LoopShape, KsaDone
  <1>5. /\ gen' = [gen EXCEPT ![c] = gen[c]]
        /\ initialized' = [initialized EXCEPT ![c] = initialized[c]]
        /\ call' = [call EXCEPT ![c] = q]
        /\ base' = [base EXCEPT ![c] = gen[c].S]
        /\ pos' = [pos EXCEPT ![c] = pos[c]]
        /\ out' = [out EXCEPT ![c] = out[c]]
        /\ live' \subseteq Heap
    BY Unchanged DEF KsaDone, IInv, TypeOK, q
  <1> QED
    BY <1>4, <1>5, Frame

(* One round of the generator, inside any of the loops that run it.        *)
Round(c, o) ==
    /\ call[c].op \in {"discard", "restart", "emit", "skip"} /\ ~AtEnd(c)
    /\ gen' = [gen EXCEPT ![c] = NextGen(gen[c])]
    /\ pos' = [pos EXCEPT ![c] = pos[c] + 1]
    /\ out' = [out EXCEPT ![c] = o]
    /\ Tick(c)
    /\ UNCHANGED <<initialized, live, base>>

LEMMA RoundStep ==
    ASSUME IInv, NEW c \in Ctx, NEW o \in Byte \cup {NoByte}, Round(c, o)
    PROVE  IInv'
  <1> DEFINE g == NextGen(gen[c])
             q == [call[c] EXCEPT !.k = @ + 1]
             p == pos[c] + 1
  <1>1. ContextOK(gen[c], initialized[c], call[c], base[c], pos[c], out[c])
    BY DEF IInv
  <1>2. /\ g \in Generator /\ g.i = (gen[c].i + 1) % N
        /\ IsPermutation(gen[c].S) => IsPermutation(g.S)
    BY <1>1, GeneratorRound DEF ContextOK, ContextType
  <1>3. g.i = p % N
    BY <1>1, <1>2, ModSuccessor DEF ContextOK, ContextType
  <1>4. /\ call[c].k \in Nat /\ call[c].n \in Nat /\ call[c].k # call[c].n
        /\ call[c] \in CallRecord /\ p \in Nat /\ p = pos[c] + 1 /\ pos[c] \in Nat
    BY <1>1 DEF ContextOK, ContextType, CallRecord, AtEnd, Round
  <1>5. /\ q \in CallRecord /\ q.k = call[c].k + 1
        /\ q.op = call[c].op /\ q.n = call[c].n
    BY <1>4 DEF CallRecord
  <1> HIDE DEF g, q, p
  <1>6. LoopShape(q, p)
    BY <1>1, <1>4, <1>5 DEF ContextOK, LoopShape, Round
  <1>7. initialized[c] = 1 /\ q.op \in {"idle", "emit", "skip"}
            => p >= Discard
    BY <1>1, <1>4, <1>5, DiscardAssumption DEF ContextOK, LoopShape
  <1>8. ContextOK(g, initialized[c], q, base[c], p, o)
    BY <1>1, <1>2, <1>3, <1>4, <1>5, <1>6, <1>7
       DEF ContextOK, ContextType, Round
  <1>9. /\ gen' = [gen EXCEPT ![c] = g]
        /\ initialized' = [initialized EXCEPT ![c] = initialized[c]]
        /\ call' = [call EXCEPT ![c] = q]
        /\ base' = [base EXCEPT ![c] = base[c]]
        /\ pos' = [pos EXCEPT ![c] = p]
        /\ out' = [out EXCEPT ![c] = o]
        /\ live' \subseteq Heap
    BY Unchanged DEF Round, Tick, IInv, TypeOK, g, q, p
  <1> QED
    BY <1>8, <1>9, Frame

LEMMA DiscardStepStep ==
    ASSUME IInv, NEW c \in Ctx, DiscardStep(c)
    PROVE  IInv'
  <1>1. out[c] \in Byte \cup {NoByte} /\ out' = [out EXCEPT ![c] = out[c]]
    BY Unchanged DEF IInv, TypeOK, DiscardStep
  <1> QED
    BY <1>1, RoundStep DEF DiscardStep, Round

LEMMA EncryptStepStep ==
    ASSUME IInv, NEW c \in Ctx, EncryptStep(c)
    PROVE  IInv'
  <1>1. gen'[c] = NextGen(gen[c]) /\ gen[c] \in Generator
    BY DEF EncryptStep, IInv, TypeOK
  <1>2. OutByte(gen'[c]) \in Byte
    BY <1>1, GeneratorRound, OutputIsByte
  <1> DEFINE o == OutByte(gen'[c])
  <1>3. o \in Byte \cup {NoByte}
    BY <1>2
  <1>4. Round(c, o)
    BY DEF EncryptStep, Round
  <1> HIDE DEF o
  <1> QED
    BY <1>3, <1>4, RoundStep

LEMMA SkipStepStep ==
    ASSUME IInv, NEW c \in Ctx, SkipStep(c)
    PROVE  IInv'
  <1>1. out[c] \in Byte \cup {NoByte} /\ out' = [out EXCEPT ![c] = out[c]]
    BY Unchanged DEF IInv, TypeOK, SkipStep
  <1> QED
    BY <1>1, RoundStep DEF SkipStep, Round

(* A call that ends, a flag raised at most after a whole discard.          *)
LEMMA EndStep ==
    ASSUME IInv, NEW c \in Ctx, InitDone(c) \/ Return(c)
    PROVE  IInv'
  <1> DEFINE f == IF InitDone(c) THEN 1 ELSE initialized[c]
  <1>1. ContextOK(gen[c], initialized[c], call[c], base[c], pos[c], out[c])
    BY DEF IInv
  <1>2. f \in {0, 1}
    BY <1>1 DEF ContextOK, ContextType
  <1>3. /\ call[c].op \in {"discard", "restart", "emit", "skip"}
        /\ call[c].k = call[c].n
        /\ InitDone(c) => call[c].op = "discard"
        /\ call[c].op = "discard" => InitDone(c)
    BY DEF InitDone, Return, AtEnd
  <1>4. f = 1 => pos[c] >= Discard /\ IsPermutation(gen[c].S)
    BY <1>1, <1>3, DiscardAssumption DEF ContextOK, LoopShape
  <1>5. call' = [call EXCEPT ![c] = Idle]
    BY DEF InitDone, Return
  <1>6. initialized' = [initialized EXCEPT ![c] = f]
    BY <1>3, Unchanged DEF InitDone, Return
  <1> HIDE DEF f
  <1>7. ContextOK(gen[c], f, Idle, base[c], pos[c], out[c])
    BY <1>1, <1>2, <1>4, IdleType DEF ContextOK, ContextType, LoopShape
  <1>8. /\ gen' = [gen EXCEPT ![c] = gen[c]]
        /\ base' = [base EXCEPT ![c] = base[c]]
        /\ pos' = [pos EXCEPT ![c] = pos[c]]
        /\ out' = [out EXCEPT ![c] = out[c]]
        /\ live' \subseteq Heap
    BY Unchanged DEF InitDone, Return, IInv, TypeOK
  <1> QED
    BY <1>5, <1>6, <1>7, <1>8, Frame

(* The loops that encrypt and skip enter.                                  *)
LEMMA BeginUseStep ==
    ASSUME IInv, NEW c \in Ctx, NEW n \in Lengths,
           BeginEncrypt(c, n) \/ BeginSkip(c, n)
    PROVE  IInv'
  <1> DEFINE q == IF BeginEncrypt(c, n) THEN Loop("emit", n)
                  ELSE Loop("skip", n)
  <1>1. ContextOK(gen[c], initialized[c], call[c], base[c], pos[c], out[c])
    BY DEF IInv
  <1>2. /\ q \in CallRecord /\ q.op \in {"emit", "skip"}
        /\ q.k = 0 /\ q.n \in Nat
    BY LoopType, BoundAssumption DEF Ops
  <1>3. call[c].op = "idle"
    BY DEF BeginEncrypt, BeginSkip, Usable
  <1>4. /\ gen' = [gen EXCEPT ![c] = gen[c]]
        /\ initialized' = [initialized EXCEPT ![c] = initialized[c]]
        /\ call' = [call EXCEPT ![c] = q]
        /\ base' = [base EXCEPT ![c] = base[c]]
        /\ pos' = [pos EXCEPT ![c] = pos[c]]
        /\ out' = [out EXCEPT ![c] = out[c]]
        /\ live' \subseteq Heap
    BY Unchanged DEF BeginEncrypt, BeginSkip, IInv, TypeOK
  <1> HIDE DEF q
  <1>5. ContextOK(gen[c], initialized[c], q, base[c], pos[c], out[c])
    BY <1>1, <1>2, <1>3 DEF ContextOK, ContextType, LoopShape
  <1> QED
    BY <1>4, <1>5, Frame

LEMMA BeginResetStep ==
    ASSUME IInv, NEW c \in Ctx, BeginReset(c)
    PROVE  IInv'
  <1> DEFINE q == Loop("restart", Discard)
             g == Started(gen[c].S)
  <1>1. ContextOK(gen[c], initialized[c], call[c], base[c], pos[c], out[c])
    BY DEF IInv
  <1>2. /\ q \in CallRecord
        /\ q.op = "restart" /\ q.k = 0 /\ q.n = Discard
    BY LoopType, DiscardAssumption DEF Ops
  <1>3. gen[c].S \in [Byte -> Byte]
    BY <1>1 DEF ContextOK, ContextType, Generator
  <1>4. g \in Generator /\ g.i = 0 /\ g.S = gen[c].S
    BY <1>3, StartedType
  <1>5. /\ gen' = [gen EXCEPT ![c] = g]
        /\ initialized' = [initialized EXCEPT ![c] = initialized[c]]
        /\ call' = [call EXCEPT ![c] = q]
        /\ base' = [base EXCEPT ![c] = gen[c].S]
        /\ pos' = [pos EXCEPT ![c] = 0]
        /\ out' = [out EXCEPT ![c] = out[c]]
        /\ live' \subseteq Heap
    BY Unchanged DEF BeginReset, IInv, TypeOK
  <1> HIDE DEF q, g
  <1>6. ContextOK(g, initialized[c], q, gen[c].S, 0, out[c])
    BY <1>1, <1>2, <1>3, <1>4, ZeroMod, DiscardAssumption
       DEF ContextOK, ContextType, LoopShape
  <1> QED
    BY <1>5, <1>6, Frame

LEMMA UninitStep ==
    ASSUME IInv, NEW c \in Ctx, Uninit(c)
    PROVE  IInv'
  <1> DEFINE g == Started(Zeros)
  <1>1. ContextOK(gen[c], initialized[c], call[c], base[c], pos[c], out[c])
    BY DEF IInv
  <1>2. g \in Generator /\ g.i = 0
    BY ZerosType, StartedType
  <1>3. /\ gen' = [gen EXCEPT ![c] = g]
        /\ initialized' = [initialized EXCEPT ![c] = 0]
        /\ call' = [call EXCEPT ![c] = call[c]]
        /\ base' = [base EXCEPT ![c] = Zeros]
        /\ pos' = [pos EXCEPT ![c] = 0]
        /\ out' = [out EXCEPT ![c] = out[c]]
        /\ live' \subseteq Heap
    BY Unchanged DEF Uninit, IInv, TypeOK
  <1>4. call[c].op = "idle"
    BY DEF Uninit, Usable
  <1> HIDE DEF g
  <1>5. ContextOK(g, 0, call[c], Zeros, 0, out[c])
    BY <1>1, <1>2, <1>4, ZerosType, ZeroMod
       DEF ContextOK, ContextType, LoopShape
  <1> QED
    BY <1>3, <1>5, Frame

(* Both contexts of a copy are idle, so what is copied is a whole state.   *)
LEMMA CopyStep ==
    ASSUME IInv, NEW c \in Ctx, NEW s \in Ctx, Copy(c, s)
    PROVE  IInv'
  <1>1. ContextOK(gen[c], initialized[c], call[c], base[c], pos[c], out[c])
    BY DEF IInv
  <1>2. ContextOK(gen[s], initialized[s], call[s], base[s], pos[s], out[s])
    BY DEF IInv
  <1>3. call[c].op = "idle" /\ call[s].op = "idle"
    BY DEF Copy, Usable
  <1>4. /\ gen' = [gen EXCEPT ![c] = gen[s]]
        /\ initialized' = [initialized EXCEPT ![c] = initialized[s]]
        /\ call' = [call EXCEPT ![c] = call[c]]
        /\ base' = [base EXCEPT ![c] = base[s]]
        /\ pos' = [pos EXCEPT ![c] = pos[s]]
        /\ out' = [out EXCEPT ![c] = out[c]]
        /\ live' \subseteq Heap
    BY Unchanged DEF Copy, IInv, TypeOK
  <1>5. ContextOK(gen[s], initialized[s], call[c], base[s], pos[s], out[c])
    BY <1>1, <1>2, <1>3 DEF ContextOK, ContextType, LoopShape
  <1> QED
    BY <1>4, <1>5, Frame

LEMMA InitStaticStep ==
    ASSUME IInv, NEW c \in Ctx, NEW key \in Keys, InitStatic(c, key)
    PROVE  IInv'
  <1>1. /\ initialized[c] \in {0, 1} /\ live' \subseteq Heap
        /\ initialized' = [initialized EXCEPT ![c] = initialized[c]]
    BY Unchanged DEF InitStatic, IInv, TypeOK
  <1> QED
    BY <1>1, BeginKsaStep DEF InitStatic

LEMMA InitHeapStep ==
    ASSUME IInv, NEW c \in Ctx, NEW key \in Keys, InitHeap(c, key)
    PROVE  IInv'
  <1>1. PICK garbage \in {0, 1} :
            initialized' = [initialized EXCEPT ![c] = garbage]
    BY DEF InitHeap
  <1>2. live' \subseteq Heap
    BY DEF InitHeap, IInv, TypeOK
  <1> QED
    BY <1>1, <1>2, BeginKsaStep DEF InitHeap

-----------------------------------------------------------------------------
LEMMA StutterIInv ==
    ASSUME IInv, UNCHANGED vars
    PROVE  IInv'
  BY DEF IInv, TypeOK, vars

LEMMA NextIInv ==
    ASSUME IInv, Next
    PROVE  IInv'
  <1>1. PICK c \in Ctx : Step(c) \/ Call(c)
    BY DEF Next
  <1>2. CASE Step(c)
    <2>1. CASE KsaStep(c)
      BY <2>1, KsaStepStep
    <2>2. CASE KsaDone(c)
      BY <2>2, KsaDoneStep
    <2>3. CASE DiscardStep(c)
      BY <2>3, DiscardStepStep
    <2>4. CASE InitDone(c) \/ Return(c)
      BY <2>4, EndStep
    <2>5. CASE EncryptStep(c)
      BY <2>5, EncryptStepStep
    <2>6. CASE SkipStep(c)
      BY <2>6, SkipStepStep
    <2> QED
      BY <1>2, <2>1, <2>2, <2>3, <2>4, <2>5, <2>6 DEF Step
  <1>3. CASE Call(c)
    <2>1. CASE \E key \in Keys : InitStatic(c, key) \/ InitHeap(c, key)
      BY <2>1, InitStaticStep, InitHeapStep
    <2>2. CASE \E n \in Lengths : BeginEncrypt(c, n) \/ BeginSkip(c, n)
      BY <2>2, BeginUseStep
    <2>3. CASE BeginReset(c)
      BY <2>3, BeginResetStep
    <2>4. CASE Uninit(c)
      BY <2>4, UninitStep
    <2>5. CASE Ignored(c)
      BY <2>5, StutterIInv DEF Ignored
    <2>6. CASE \E s \in Ctx : Copy(c, s)
      BY <2>6, CopyStep
    <2> QED
      BY <1>3, <2>1, <2>2, <2>3, <2>4, <2>5, <2>6 DEF Call
  <1> QED
    BY <1>1, <1>2, <1>3

LEMMA Inductive == Spec => []IInv
  <1>1. IInv /\ [Next]_vars => IInv'
    BY NextIInv, StutterIInv
  <1> QED
    BY <1>1, InitIInv, PTL DEF Spec

(* Every index the loops compute stays inside the S-box, for any N.        *)
THEOREM TypeCorrect == Spec => []TypeOK
  BY Inductive, InvariantSuffices, PTL

(* No mix of calls, copies and resets makes a keyed S-box anything but a   *)
(* permutation.                                                            *)
THEOREM PermutationKept == Spec => []SBoxIsPermutation
  BY Inductive, InvariantSuffices, PTL

(* The counter i of every context is its position modulo N.                *)
THEOREM CounterCorrect == Spec => []CounterTracksPosition
  BY Inductive, InvariantSuffices, PTL

(* No context delivers a byte of the prefix that is to be discarded.       *)
THEOREM PrefixDiscarded == Spec => []NoEarlyKeystream
  BY Inductive, InvariantSuffices, PTL

-----------------------------------------------------------------------------
(***************************************************************************)
(* The streams.  While a key schedule runs, the S-box is the one that the  *)
(* key gives after as many rounds; at any other time the context is where  *)
(* the recursion of After is, pos rounds after the S-box base.  Only a     *)
(* context with its flag up encrypts or skips.                             *)
(***************************************************************************)
StreamAt(g, f, r, b, p) ==
    /\ IF r.op = "ksa"
       THEN g = Started(g.S) /\ KsaAt(r.key, r.k, g.S, r.j)
       ELSE g = After(b, p)
    /\ r.op \in {"emit", "skip"} => f = 1

SInv ==
    /\ IInv
    /\ \A c \in Ctx :
          StreamAt(gen[c], initialized[c], call[c], base[c], pos[c])

(* The refinement mapping, context by context.                             *)
ModeOf(f, op) ==
    IF op \in {"ksa", "discard"} \/ (op = "restart" /\ f = 1) THEN "busy"
    ELSE IF f = 1 THEN "on" ELSE "off"

StartOf(f, r, b) ==
    IF r.op = "ksa" THEN KeyedSBox(r.key)
    ELSE IF ModeOf(f, r.op) = "off" THEN Zeros ELSE b

PosOf(f, op, p) == IF ModeOf(f, op) = "on" THEN p ELSE 0

AbsMode == [c \in Ctx |-> StreamMode(c)]
AbsStart == [c \in Ctx |-> StreamStart(c)]
AbsPos == [c \in Ctx |-> IF StreamMode(c) = "on" THEN pos[c] ELSE 0]

MappingByContext ==
    /\ AbsMode = [c \in Ctx |-> ModeOf(initialized[c], call[c].op)]
    /\ AbsStart = [c \in Ctx |-> StartOf(initialized[c], call[c], base[c])]
    /\ AbsPos = [c \in Ctx |-> PosOf(initialized[c], call[c].op, pos[c])]

LEMMA MappingValues == IInv => MappingByContext
  <1> SUFFICES ASSUME IInv PROVE MappingByContext
    OBVIOUS
  <1>1. ASSUME NEW c \in Ctx
        PROVE  StreamMode(c) = ModeOf(initialized[c], call[c].op)
    BY DEF StreamMode, ModeOf, Keying, Restarting
  <1>2. ASSUME NEW c \in Ctx
        PROVE  StreamStart(c) = StartOf(initialized[c], call[c], base[c])
    <2>1. CASE call[c].op = "ksa"
      <3>1. call[c].key \in Keys
        BY <2>1 DEF IInv, ContextOK, LoopShape
      <3>2. KeyedBoxes[call[c].key] = KeyedSBox(call[c].key)
        BY <3>1 DEF KeyedBoxes
      <3> QED
        BY <2>1, <3>2 DEF StreamStart, StartOf
    <2>2. CASE call[c].op # "ksa"
      BY <1>1, <2>2 DEF StreamStart, StartOf
    <2> QED
      BY <2>1, <2>2
  <1> QED
    BY <1>1, <1>2 DEF MappingByContext, AbsMode, AbsStart, AbsPos, PosOf

(* A step gives the context c these values and leaves the others alone.    *)
Gives(c, g, f, r, b, p) ==
    /\ gen' = [gen EXCEPT ![c] = g]
    /\ initialized' = [initialized EXCEPT ![c] = f]
    /\ call' = [call EXCEPT ![c] = r]
    /\ base' = [base EXCEPT ![c] = b]
    /\ pos' = [pos EXCEPT ![c] = p]

(* The counterpart of Frame for the streams.                               *)
LEMMA StreamFrame ==
    ASSUME SInv, IInv', NEW c \in Ctx,
           NEW g, NEW f, NEW r, NEW b, NEW p,
           StreamAt(g, f, r, b, p), Gives(c, g, f, r, b, p)
    PROVE  /\ SInv'
           /\ AbsMode' = [AbsMode EXCEPT ![c] = ModeOf(f, r.op)]
           /\ AbsStart' = [AbsStart EXCEPT ![c] = StartOf(f, r, b)]
           /\ AbsPos' = [AbsPos EXCEPT ![c] = PosOf(f, r.op, p)]
  <1>1. /\ gen \in [Ctx -> Generator] /\ initialized \in [Ctx -> {0, 1}]
        /\ call \in [Ctx -> CallRecord] /\ base \in [Ctx -> [Byte -> Byte]]
        /\ pos \in [Ctx -> Nat]
    BY DEF SInv, IInv, TypeOK
  <1>2. /\ gen'[c] = g /\ initialized'[c] = f /\ call'[c] = r
        /\ base'[c] = b /\ pos'[c] = p
    BY <1>1 DEF Gives
  <1>3. ASSUME NEW x \in Ctx, x # c
        PROVE  /\ gen'[x] = gen[x] /\ initialized'[x] = initialized[x]
               /\ call'[x] = call[x] /\ base'[x] = base[x]
               /\ pos'[x] = pos[x]
    BY <1>1, <1>3 DEF Gives
  <1>4. SInv'
    BY <1>2, <1>3 DEF SInv
  <1>5. MappingByContext /\ MappingByContext'
    BY MappingValues, PTL DEF SInv
  <1>6. /\ AbsMode' = [x \in Ctx |-> ModeOf(initialized'[x], call'[x].op)]
        /\ AbsStart' = [x \in Ctx |->
                           StartOf(initialized'[x], call'[x], base'[x])]
        /\ AbsPos' = [x \in Ctx |->
                           PosOf(initialized'[x], call'[x].op, pos'[x])]
    BY <1>5 DEF MappingByContext
  <1>7. AbsMode' = [AbsMode EXCEPT ![c] = ModeOf(f, r.op)]
    BY <1>2, <1>3, <1>5, <1>6 DEF MappingByContext
  <1>8. AbsStart' = [AbsStart EXCEPT ![c] = StartOf(f, r, b)]
    BY <1>2, <1>3, <1>5, <1>6 DEF MappingByContext
  <1>9. AbsPos' = [AbsPos EXCEPT ![c] = PosOf(f, r.op, p)]
    BY <1>2, <1>3, <1>5, <1>6 DEF MappingByContext
  <1> QED
    BY <1>4, <1>7, <1>8, <1>9

(* The abstract values of a context before a step.                         *)
LEMMA MappingAt ==
    ASSUME IInv, NEW c \in Ctx
    PROVE  /\ AbsMode[c] = ModeOf(initialized[c], call[c].op)
           /\ AbsStart[c] = StartOf(initialized[c], call[c], base[c])
           /\ AbsPos[c] = PosOf(initialized[c], call[c].op, pos[c])
  BY MappingValues DEF MappingByContext

AbsStep == Stream!StreamNext \/ UNCHANGED <<AbsMode, AbsStart, AbsPos, out>>

(* A step that the streams do not show.                                    *)
LEMMA Hidden ==
    ASSUME IInv, NEW c \in Ctx, NEW m, NEW s, NEW q,
           AbsMode' = [AbsMode EXCEPT ![c] = m],
           AbsStart' = [AbsStart EXCEPT ![c] = s],
           AbsPos' = [AbsPos EXCEPT ![c] = q],
           m = AbsMode[c], s = AbsStart[c], q = AbsPos[c], out' = out
    PROVE  AbsStep
  BY DEF AbsStep, AbsMode, AbsStart, AbsPos

(* The operators of Rc4 that Rc4Stream extends are those of this module.   *)
LEMMA SameOperators ==
    /\ Stream!Zeros = Zeros
    /\ Stream!NoByte = NoByte
    /\ \A key : Stream!KeyedSBox(key) = KeyedSBox(key)
    /\ \A S, n : Stream!After(S, n) = After(S, n)
    /\ \A S, n : Stream!StreamByte(S, n) = StreamByte(S, n)
  <1>1. Stream!Byte = Byte /\ Stream!Identity = Identity
    BY DEF Stream!Byte, Byte, Stream!Identity, Identity
  <1>2. Stream!Zeros = Zeros /\ Stream!NoByte = NoByte
    BY <1>1 DEF Stream!Zeros, Zeros, Stream!NoByte, NoByte
  <1>3. \A S, a, b : Stream!Swap(S, a, b) = Swap(S, a, b)
    BY DEF Stream!Swap, Swap
  <1>4. \A S, j, key, k : Stream!KsaIndex(S, j, key, k) = KsaIndex(S, j, key, k)
    BY DEF Stream!KsaIndex, KsaIndex
  <1>5. \A S, j, key, k : Stream!KsaSwap(S, j, key, k) = KsaSwap(S, j, key, k)
    BY <1>3, <1>4 DEF Stream!KsaSwap, KsaSwap
  <1>6. \A g : Stream!NextGen(g) = NextGen(g)
    BY <1>3 DEF Stream!NextGen, NextGen
  <1>7. \A S : Stream!Started(S) = Started(S)
    BY DEF Stream!Started, Started
  <1>8. \A key : Stream!KeyedSBox(key) = KeyedSBox(key)
    BY <1>1, <1>4, <1>5, ZenonT(60) DEF Stream!KeyedSBox, KeyedSBox
  <1>9. \A S, n : Stream!After(S, n) = After(S, n)
    BY <1>6, <1>7 DEF Stream!After, After
  <1>10. \A g : Stream!OutByte(g) = OutByte(g)
    BY DEF Stream!OutByte, OutByte
  <1>11. \A S, n : Stream!StreamByte(S, n) = StreamByte(S, n)
    BY <1>9, <1>10 DEF Stream!StreamByte, StreamByte
  <1> QED
    BY <1>2, <1>8, <1>9, <1>11

(* Steps that the streams show, and the abstract action that each takes.   *)
LEMMA ShownAsRekey ==
    ASSUME NEW c \in Ctx, NEW key \in Keys,
           AbsMode' = [AbsMode EXCEPT ![c] = "busy"],
           AbsStart' = [AbsStart EXCEPT ![c] = KeyedSBox(key)],
           AbsPos' = [AbsPos EXCEPT ![c] = 0],
           out' = out
    PROVE  AbsStep
  <1>1. Stream!Rekey(c, key)
    BY SameOperators DEF Stream!Rekey, AbsMode, AbsStart, AbsPos
  <1> QED
    BY <1>1 DEF AbsStep, Stream!StreamNext

LEMMA ShownAsRestart ==
    ASSUME NEW c \in Ctx, AbsMode[c] = "on",
           AbsMode' = [AbsMode EXCEPT ![c] = "busy"],
           AbsStart' = [AbsStart EXCEPT ![c] = After(AbsStart[c], AbsPos[c]).S],
           AbsPos' = [AbsPos EXCEPT ![c] = 0],
           out' = out
    PROVE  AbsStep
  <1>1. Stream!Restart(c)
    BY SameOperators DEF Stream!Restart, AbsMode, AbsStart, AbsPos
  <1> QED
    BY <1>1 DEF AbsStep, Stream!StreamNext

LEMMA ShownAsReady ==
    ASSUME NEW c \in Ctx, AbsMode[c] = "busy",
           AbsMode' = [AbsMode EXCEPT ![c] = "on"],
           AbsStart' = AbsStart,
           AbsPos' = [AbsPos EXCEPT ![c] = Discard],
           out' = out
    PROVE  AbsStep
  <1>1. Stream!Ready(c)
    BY DEF Stream!Ready, AbsMode, AbsStart, AbsPos
  <1> QED
    BY <1>1 DEF AbsStep, Stream!StreamNext

LEMMA ShownAsRound ==
    ASSUME NEW c \in Ctx, AbsMode[c] = "on",
           AbsMode' = AbsMode, AbsStart' = AbsStart,
           AbsPos' = [AbsPos EXCEPT ![c] = AbsPos[c] + 1],
           \/ out' = out
           \/ out' = [out EXCEPT ![c] =
                         StreamByte(AbsStart[c], AbsPos[c] + 1)]
    PROVE  AbsStep
  <1>1. Stream!Pass(c) \/ Stream!Deliver(c)
    BY SameOperators DEF Stream!Pass, Stream!Deliver, AbsMode, AbsStart, AbsPos
  <1> QED
    BY <1>1 DEF AbsStep, Stream!StreamNext

LEMMA ShownAsSwitchOff ==
    ASSUME NEW c \in Ctx, AbsMode[c] # "busy",
           AbsMode' = [AbsMode EXCEPT ![c] = "off"],
           AbsStart' = [AbsStart EXCEPT ![c] = Zeros],
           AbsPos' = [AbsPos EXCEPT ![c] = 0],
           out' = out
    PROVE  AbsStep
  <1>1. Stream!SwitchOff(c)
    BY SameOperators DEF Stream!SwitchOff, AbsMode, AbsStart, AbsPos
  <1> QED
    BY <1>1 DEF AbsStep, Stream!StreamNext

LEMMA ShownAsFork ==
    ASSUME NEW d \in Ctx, NEW s \in Ctx, d # s,
           AbsMode[d] # "busy", AbsMode[s] # "busy",
           AbsMode' = [AbsMode EXCEPT ![d] = AbsMode[s]],
           AbsStart' = [AbsStart EXCEPT ![d] = AbsStart[s]],
           AbsPos' = [AbsPos EXCEPT ![d] = AbsPos[s]],
           out' = out
    PROVE  AbsStep
  <1>1. Stream!Fork(d, s)
    BY DEF Stream!Fork, AbsMode, AbsStart, AbsPos
  <1> QED
    BY <1>1 DEF AbsStep, Stream!StreamNext

-----------------------------------------------------------------------------
(* Every action keeps the streams and is a step of them.                   *)
LEMMA RekeyStream ==
    ASSUME SInv, IInv', NEW c \in Ctx, NEW key \in Keys, BeginKsa(c, key),
           NEW f, initialized' = [initialized EXCEPT ![c] = f]
    PROVE  SInv' /\ AbsStep
  <1> DEFINE r == [op |-> "ksa", k |-> 0, n |-> N, j |-> 0, key |-> key]
             g == Started(Identity)
  <1>1. key \in Seq(Byte) /\ Len(key) > 0
    BY KeysAssumption
  <1>2. r.op = "ksa" /\ r.k = 0 /\ r.j = 0 /\ r.key = key
    OBVIOUS
  <1>3. g.S = Identity /\ g = Started(g.S)
    BY DEF Started
  <1>4. KsaAt(key, 0, Identity, 0)
    BY <1>1, KsaAtStart
  <1>5. Gives(c, g, f, r, base[c], 0) /\ out' = out
    BY Unchanged DEF BeginKsa, SInv, Gives
  <1> HIDE DEF r, g
  <1>6. StreamAt(g, f, r, base[c], 0)
    BY <1>2, <1>3, <1>4 DEF StreamAt
  <1>7. /\ ModeOf(f, r.op) = "busy" /\ PosOf(f, r.op, 0) = 0
        /\ StartOf(f, r, base[c]) = KeyedSBox(key)
    BY <1>2 DEF ModeOf, StartOf, PosOf
  <1>8. /\ SInv'
        /\ AbsMode' = [AbsMode EXCEPT ![c] = "busy"]
        /\ AbsStart' = [AbsStart EXCEPT ![c] = KeyedSBox(key)]
        /\ AbsPos' = [AbsPos EXCEPT ![c] = 0]
    BY <1>5, <1>6, <1>7, StreamFrame
  <1> QED
    BY <1>5, <1>8, ShownAsRekey

(* A round of the key schedule does not show.                              *)
LEMMA KsaStepStream ==
    ASSUME SInv, IInv', NEW c \in Ctx, KsaStep(c)
    PROVE  SInv' /\ AbsStep
  <1> DEFINE r == call[c]
             S == gen[c].S
             g == [gen[c] EXCEPT !.S = KsaSwap(S, r.j, r.key, r.k)]
             q == [r EXCEPT !.j = KsaIndex(S, r.j, r.key, r.k), !.k = @ + 1]
  <1>1. ContextOK(gen[c], initialized[c], r, base[c], pos[c], out[c])
    BY DEF SInv, IInv
  <1>2. r.op = "ksa" /\ r.k \in Nat /\ r.n = N /\ r.k <= N /\ r.k # N
    BY <1>1 DEF ContextOK, ContextType, LoopShape, KsaStep, AtEnd, CallRecord
  <1>3. r.k \in Byte
    <2> HIDE DEF r
    <2> QED
      BY <1>2, NAssumption DEF Byte
  <1>4. gen[c] = Started(S) /\ KsaAt(r.key, r.k, S, r.j)
    BY <1>2 DEF SInv, StreamAt
  <1>5. g = Started(KsaSwap(S, r.j, r.key, r.k)) /\ g.S = KsaSwap(S, r.j, r.key, r.k)
    <2> HIDE DEF r, S
    <2> QED
      BY <1>4 DEF Started
  <1>6. r \in CallRecord
    BY <1>1 DEF ContextOK, ContextType
  <1>7. /\ q.op = "ksa" /\ q.k = r.k + 1 /\ q.key = r.key
        /\ q.j = KsaIndex(S, r.j, r.key, r.k)
    <2> HIDE DEF r, S
    <2> QED
      BY <1>2, <1>6 DEF CallRecord
  <1>8. Gives(c, g, initialized[c], q, base[c], pos[c]) /\ out' = out
    <2>1. gen' = [gen EXCEPT ![c] = g] /\ call' = [call EXCEPT ![c] = q]
      BY DEF KsaStep, SInv, IInv, TypeOK
    <2> QED
      BY <2>1, Unchanged DEF KsaStep, SInv, Gives
  <1>9. /\ AbsMode[c] = ModeOf(initialized[c], r.op)
        /\ AbsStart[c] = StartOf(initialized[c], r, base[c])
        /\ AbsPos[c] = PosOf(initialized[c], r.op, pos[c])
    BY MappingAt DEF SInv
  <1> HIDE DEF g, q
  <1>10. StreamAt(g, initialized[c], q, base[c], pos[c])
    <2>1. KsaAt(r.key, r.k + 1, g.S, q.j)
      BY <1>3, <1>4, <1>5, <1>7, KsaAtStep
    <2> QED
      BY <2>1, <1>5, <1>7 DEF StreamAt
  <1> HIDE DEF r, S
  <1>11. /\ ModeOf(initialized[c], q.op) = ModeOf(initialized[c], r.op)
         /\ StartOf(initialized[c], q, base[c]) = StartOf(initialized[c], r, base[c])
         /\ PosOf(initialized[c], q.op, pos[c]) = PosOf(initialized[c], r.op, pos[c])
    BY <1>2, <1>7 DEF StartOf
  <1>12. /\ SInv'
         /\ AbsMode' = [AbsMode EXCEPT ![c] = ModeOf(initialized[c], q.op)]
         /\ AbsStart' = [AbsStart EXCEPT ![c] = StartOf(initialized[c], q, base[c])]
         /\ AbsPos' = [AbsPos EXCEPT ![c] = PosOf(initialized[c], q.op, pos[c])]
    BY <1>8, <1>10, StreamFrame
  <1> QED
    BY <1>8, <1>9, <1>11, <1>12, Hidden DEF SInv

(* The key schedule ends at the S-box that the key gives.                  *)
LEMMA KsaDoneStream ==
    ASSUME SInv, IInv', NEW c \in Ctx, KsaDone(c)
    PROVE  SInv' /\ AbsStep
  <1> DEFINE q == Loop("discard", Discard)
  <1>1. ContextOK(gen[c], initialized[c], call[c], base[c], pos[c], out[c])
    BY DEF SInv, IInv
  <1>2. call[c].op = "ksa" /\ call[c].k = N /\ pos[c] = 0
    BY <1>1 DEF ContextOK, LoopShape, KsaDone, AtEnd
  <1>3. gen[c] = Started(gen[c].S) /\ gen[c].S = KeyedSBox(call[c].key)
    BY <1>2, KsaAtEnd DEF SInv, StreamAt
  <1>4. gen[c].S \in [Byte -> Byte]
    BY <1>1 DEF ContextOK, ContextType, Generator
  <1>5. q.op = "discard"
    BY DEF Loop
  <1>6. /\ Gives(c, gen[c], initialized[c], q, gen[c].S, pos[c])
        /\ out' = out
    BY Unchanged DEF KsaDone, SInv, Gives
  <1>7. /\ AbsMode[c] = ModeOf(initialized[c], call[c].op)
        /\ AbsStart[c] = StartOf(initialized[c], call[c], base[c])
        /\ AbsPos[c] = PosOf(initialized[c], call[c].op, pos[c])
    BY MappingAt DEF SInv
  <1> HIDE DEF q
  <1>8. StreamAt(gen[c], initialized[c], q, gen[c].S, pos[c])
    BY <1>2, <1>3, <1>4, <1>5, AfterRounds DEF StreamAt
  <1>9. /\ ModeOf(initialized[c], q.op) = AbsMode[c]
        /\ StartOf(initialized[c], q, gen[c].S) = AbsStart[c]
        /\ PosOf(initialized[c], q.op, pos[c]) = AbsPos[c]
    BY <1>2, <1>3, <1>5, <1>7 DEF ModeOf, StartOf, PosOf
  <1>10. /\ SInv'
         /\ AbsMode' = [AbsMode EXCEPT ![c] = ModeOf(initialized[c], q.op)]
         /\ AbsStart' = [AbsStart EXCEPT ![c] = StartOf(initialized[c], q, gen[c].S)]
         /\ AbsPos' = [AbsPos EXCEPT ![c] = PosOf(initialized[c], q.op, pos[c])]
    BY <1>6, <1>8, StreamFrame
  <1> QED
    BY <1>6, <1>9, <1>10, Hidden DEF SInv

(* A round of the generator.  The streams show it as a byte delivered or   *)
(* passed over when the loop is one of encrypt or skip.                    *)
LEMMA RoundStream ==
    ASSUME SInv, IInv', NEW c \in Ctx, NEW o, Round(c, o),
           \/ o = out[c]
           \/ call[c].op = "emit" /\ o = OutByte(NextGen(gen[c]))
    PROVE  SInv' /\ AbsStep
  <1> DEFINE g == NextGen(gen[c])
             q == [call[c] EXCEPT !.k = @ + 1]
             p == pos[c] + 1
             f == initialized[c]
  <1>1. ContextOK(gen[c], f, call[c], base[c], pos[c], out[c])
    BY DEF SInv, IInv
  <1>2. /\ call[c].op \in {"discard", "restart", "emit", "skip"}
        /\ base[c] \in [Byte -> Byte] /\ pos[c] \in Nat /\ f \in {0, 1}
        /\ call[c] \in CallRecord
    BY <1>1 DEF ContextOK, ContextType, Round
  <1>3. gen[c] = After(base[c], pos[c]) /\ (call[c].op \in {"emit", "skip"} => f = 1)
    BY <1>2 DEF SInv, StreamAt
  <1>4. g = After(base[c], p)
    BY <1>2, <1>3, AfterRounds
  <1>5. q.op = call[c].op
    BY <1>2 DEF CallRecord
  <1>6. Gives(c, g, f, q, base[c], p) /\ out' = [out EXCEPT ![c] = o]
    BY Unchanged DEF Round, Tick, SInv, IInv, TypeOK, Gives
  <1>7. out = [out EXCEPT ![c] = out[c]]
    BY Unchanged DEF SInv
  <1>8. /\ AbsMode[c] = ModeOf(f, call[c].op)
        /\ AbsStart[c] = StartOf(f, call[c], base[c])
        /\ AbsPos[c] = PosOf(f, call[c].op, pos[c])
    BY MappingAt DEF SInv
  <1>9. OutByte(g) = StreamByte(base[c], pos[c] + 1)
    BY <1>4 DEF StreamByte
  <1> HIDE DEF g, q, p, f
  <1>10. StreamAt(g, f, q, base[c], p)
    BY <1>2, <1>3, <1>4, <1>5 DEF StreamAt
  <1>11. /\ SInv'
         /\ AbsMode' = [AbsMode EXCEPT ![c] = ModeOf(f, q.op)]
         /\ AbsStart' = [AbsStart EXCEPT ![c] = StartOf(f, q, base[c])]
         /\ AbsPos' = [AbsPos EXCEPT ![c] = PosOf(f, q.op, p)]
    BY <1>6, <1>10, StreamFrame
  <1>12. ModeOf(f, q.op) = AbsMode[c] /\ StartOf(f, q, base[c]) = AbsStart[c]
    BY <1>2, <1>5, <1>8 DEF StartOf
  <1>13. CASE call[c].op \in {"discard", "restart"}
    <2>1. PosOf(f, q.op, p) = AbsPos[c]
      BY <1>2, <1>5, <1>8, <1>13 DEF PosOf, ModeOf
    <2>2. out' = out
      BY <1>6, <1>7, <1>13
    <2> QED
      BY <1>11, <1>12, <2>1, <2>2, Hidden DEF SInv
  <1>14. CASE call[c].op \in {"emit", "skip"}
    <2>1. f = 1
      BY <1>3, <1>14
    <2>2. /\ AbsMode[c] = "on" /\ AbsStart[c] = base[c] /\ AbsPos[c] = pos[c]
          /\ PosOf(f, q.op, p) = p
      BY <1>5, <1>8, <1>14, <2>1 DEF ModeOf, StartOf, PosOf
    <2>3. AbsMode' = AbsMode /\ AbsStart' = AbsStart
      BY <1>11, <1>12 DEF AbsMode, AbsStart
    <2>4. AbsPos' = [AbsPos EXCEPT ![c] = AbsPos[c] + 1]
      BY <1>11, <2>2 DEF p
    <2>5. \/ out' = out
          \/ out' = [out EXCEPT ![c] = StreamByte(AbsStart[c], AbsPos[c] + 1)]
      BY <1>6, <1>7, <1>9, <2>2 DEF g
    <2> QED
      BY <1>11, <2>2, <2>3, <2>4, <2>5, ShownAsRound
  <1> QED
    BY <1>2, <1>13, <1>14

LEMMA RoundsStream ==
    ASSUME SInv, IInv', NEW c \in Ctx,
           DiscardStep(c) \/ EncryptStep(c) \/ SkipStep(c)
    PROVE  SInv' /\ AbsStep
  <1>1. CASE DiscardStep(c) \/ SkipStep(c)
    <2>1. Round(c, out[c])
      BY <1>1, Unchanged DEF DiscardStep, SkipStep, Round, SInv
    <2> QED
      BY <2>1, RoundStream
  <1>2. CASE EncryptStep(c)
    <2>1. gen'[c] = NextGen(gen[c])
      BY <1>2 DEF EncryptStep, SInv, IInv, TypeOK
    <2>2. Round(c, OutByte(NextGen(gen[c]))) /\ call[c].op = "emit"
      BY <1>2, <2>1 DEF EncryptStep, Round
    <2> QED
      BY <2>2, RoundStream
  <1> QED
    BY <1>1, <1>2

(* A call ends: a keyed or restarted context becomes ready, just past the  *)
(* discarded prefix; otherwise nothing shows.                              *)
LEMMA EndStream ==
    ASSUME SInv, IInv', NEW c \in Ctx, InitDone(c) \/ Return(c)
    PROVE  SInv' /\ AbsStep
  <1> DEFINE f == IF call[c].op = "discard" THEN 1 ELSE initialized[c]
  <1>1. ContextOK(gen[c], initialized[c], call[c], base[c], pos[c], out[c])
    BY DEF SInv, IInv
  <1>2. /\ call[c].op \in {"discard", "restart", "emit", "skip"}
        /\ call[c].op \in {"discard", "restart"} => pos[c] = Discard
        /\ initialized[c] \in {0, 1}
    BY <1>1 DEF ContextOK, ContextType, LoopShape, InitDone, Return, AtEnd
  <1>3. /\ gen[c] = After(base[c], pos[c])
        /\ call[c].op \in {"emit", "skip"} => initialized[c] = 1
    BY <1>2 DEF SInv, StreamAt
  <1>4. Gives(c, gen[c], f, Idle, base[c], pos[c]) /\ out' = out
    BY Unchanged DEF InitDone, Return, SInv, Gives
  <1>5. /\ AbsMode[c] = ModeOf(initialized[c], call[c].op)
        /\ AbsStart[c] = StartOf(initialized[c], call[c], base[c])
        /\ AbsPos[c] = PosOf(initialized[c], call[c].op, pos[c])
    BY MappingAt DEF SInv
  <1>6. StreamAt(gen[c], f, Idle, base[c], pos[c])
    BY <1>3, IdleType DEF StreamAt
  <1> HIDE DEF f
  <1>7. /\ SInv'
        /\ AbsMode' = [AbsMode EXCEPT ![c] = ModeOf(f, Idle.op)]
        /\ AbsStart' = [AbsStart EXCEPT ![c] = StartOf(f, Idle, base[c])]
        /\ AbsPos' = [AbsPos EXCEPT ![c] = PosOf(f, Idle.op, pos[c])]
    BY <1>4, <1>6, StreamFrame
  <1>8. StartOf(f, Idle, base[c]) = AbsStart[c]
    BY <1>2, <1>3, <1>5, IdleType DEF StartOf, ModeOf, f
  <1>9. CASE AbsMode[c] = "busy"
    <2>1. f = 1 /\ pos[c] = Discard
      BY <1>2, <1>5, <1>9 DEF ModeOf, f
    <2>2. ModeOf(f, Idle.op) = "on" /\ PosOf(f, Idle.op, pos[c]) = Discard
      BY <2>1, IdleType DEF ModeOf, PosOf
    <2>3. AbsStart' = AbsStart
      BY <1>7, <1>8 DEF AbsStart
    <2> QED
      BY <1>4, <1>7, <1>9, <2>2, <2>3, ShownAsReady
  <1>10. CASE AbsMode[c] # "busy"
    <2>1. call[c].op # "discard" /\ f = initialized[c]
      BY <1>5, <1>10 DEF ModeOf, f
    <2>2. ModeOf(f, Idle.op) = AbsMode[c] /\ PosOf(f, Idle.op, pos[c]) = AbsPos[c]
      BY <1>2, <1>5, <1>10, <2>1, IdleType DEF ModeOf, PosOf
    <2> QED
      BY <1>4, <1>7, <1>8, <2>2, Hidden DEF SInv
  <1> QED
    BY <1>9, <1>10

LEMMA BeginUseStream ==
    ASSUME SInv, IInv', NEW c \in Ctx, NEW n \in Lengths,
           BeginEncrypt(c, n) \/ BeginSkip(c, n)
    PROVE  SInv' /\ AbsStep
  <1> DEFINE q == IF BeginEncrypt(c, n) THEN Loop("emit", n)
                  ELSE Loop("skip", n)
  <1>1. q.op \in {"emit", "skip"}
    BY DEF Loop
  <1>2. call[c].op = "idle" /\ initialized[c] = 1
    BY DEF BeginEncrypt, BeginSkip, Usable
  <1>3. gen[c] = After(base[c], pos[c])
    BY <1>2 DEF SInv, StreamAt
  <1>4. Gives(c, gen[c], 1, q, base[c], pos[c]) /\ out' = out
    BY <1>2, Unchanged DEF BeginEncrypt, BeginSkip, SInv, Gives
  <1>5. /\ AbsMode[c] = ModeOf(1, call[c].op)
        /\ AbsStart[c] = StartOf(1, call[c], base[c])
        /\ AbsPos[c] = PosOf(1, call[c].op, pos[c])
    BY <1>2, MappingAt DEF SInv
  <1> HIDE DEF q
  <1>6. StreamAt(gen[c], 1, q, base[c], pos[c])
    BY <1>1, <1>3 DEF StreamAt
  <1>7. /\ SInv'
        /\ AbsMode' = [AbsMode EXCEPT ![c] = ModeOf(1, q.op)]
        /\ AbsStart' = [AbsStart EXCEPT ![c] = StartOf(1, q, base[c])]
        /\ AbsPos' = [AbsPos EXCEPT ![c] = PosOf(1, q.op, pos[c])]
    BY <1>4, <1>6, StreamFrame
  <1>8. /\ ModeOf(1, q.op) = AbsMode[c] /\ StartOf(1, q, base[c]) = AbsStart[c]
        /\ PosOf(1, q.op, pos[c]) = AbsPos[c]
    BY <1>1, <1>2, <1>5 DEF ModeOf, StartOf, PosOf
  <1> QED
    BY <1>4, <1>7, <1>8, Hidden DEF SInv

(* A restart of a context that is on begins a stream at the S-box it has   *)
(* reached; one of a context that is off stays without a stream.           *)
LEMMA BeginResetStream ==
    ASSUME SInv, IInv', NEW c \in Ctx, BeginReset(c)
    PROVE  SInv' /\ AbsStep
  <1> DEFINE q == Loop("restart", Discard)
             g == Started(gen[c].S)
             f == initialized[c]
  <1>1. ContextOK(gen[c], f, call[c], base[c], pos[c], out[c])
    BY DEF SInv, IInv
  <1>2. gen[c].S \in [Byte -> Byte] /\ f \in {0, 1}
    BY <1>1 DEF ContextOK, ContextType, Generator
  <1>3. call[c].op = "idle"
    BY DEF BeginReset, Usable
  <1>4. gen[c] = After(base[c], pos[c])
    BY <1>3 DEF SInv, StreamAt
  <1>5. Gives(c, g, f, q, gen[c].S, 0) /\ out' = out
    BY Unchanged DEF BeginReset, SInv, Gives
  <1>6. q.op = "restart"
    BY DEF Loop
  <1>7. /\ AbsMode[c] = ModeOf(f, "idle")
        /\ AbsStart[c] = StartOf(f, call[c], base[c])
        /\ AbsPos[c] = PosOf(f, "idle", pos[c])
    BY <1>3, MappingAt DEF SInv
  <1>8. g = After(gen[c].S, 0)
    BY <1>2, AfterRounds
  <1> HIDE DEF q, g, f
  <1>9. StreamAt(g, f, q, gen[c].S, 0)
    BY <1>6, <1>8 DEF StreamAt
  <1>10. /\ SInv'
         /\ AbsMode' = [AbsMode EXCEPT ![c] = ModeOf(f, q.op)]
         /\ AbsStart' = [AbsStart EXCEPT ![c] = StartOf(f, q, gen[c].S)]
         /\ AbsPos' = [AbsPos EXCEPT ![c] = PosOf(f, q.op, 0)]
    BY <1>5, <1>9, StreamFrame
  <1>11. CASE f = 1
    <2>1. AbsMode[c] = "on" /\ AbsStart[c] = base[c] /\ AbsPos[c] = pos[c]
      BY <1>3, <1>7, <1>11 DEF ModeOf, StartOf, PosOf
    <2>2. /\ ModeOf(f, q.op) = "busy" /\ PosOf(f, q.op, 0) = 0
          /\ StartOf(f, q, gen[c].S) = After(AbsStart[c], AbsPos[c]).S
      BY <1>4, <1>6, <1>11, <2>1 DEF ModeOf, StartOf, PosOf
    <2> QED
      BY <1>5, <1>10, <2>1, <2>2, ShownAsRestart
  <1>12. CASE f = 0
    <2>1. /\ ModeOf(f, q.op) = AbsMode[c] /\ StartOf(f, q, gen[c].S) = AbsStart[c]
          /\ PosOf(f, q.op, 0) = AbsPos[c]
      BY <1>3, <1>6, <1>7, <1>12 DEF ModeOf, StartOf, PosOf
    <2> QED
      BY <1>5, <1>10, <2>1, Hidden DEF SInv
  <1> QED
    BY <1>2, <1>11, <1>12

LEMMA UninitStream ==
    ASSUME SInv, IInv', NEW c \in Ctx, Uninit(c)
    PROVE  SInv' /\ AbsStep
  <1> DEFINE g == Started(Zeros)
  <1>1. call[c].op = "idle"
    BY DEF Uninit, Usable
  <1>2. g = After(Zeros, 0)
    BY ZerosType, AfterRounds
  <1>3. Gives(c, g, 0, call[c], Zeros, 0) /\ out' = out
    BY Unchanged DEF Uninit, SInv, Gives
  <1>4. AbsMode[c] = ModeOf(initialized[c], call[c].op)
    BY MappingAt DEF SInv
  <1> HIDE DEF g
  <1>5. StreamAt(g, 0, call[c], Zeros, 0)
    BY <1>1, <1>2 DEF StreamAt
  <1>6. /\ SInv'
        /\ AbsMode' = [AbsMode EXCEPT ![c] = ModeOf(0, call[c].op)]
        /\ AbsStart' = [AbsStart EXCEPT ![c] = StartOf(0, call[c], Zeros)]
        /\ AbsPos' = [AbsPos EXCEPT ![c] = PosOf(0, call[c].op, 0)]
    BY <1>3, <1>5, StreamFrame
  <1>7. /\ AbsMode[c] # "busy" /\ ModeOf(0, call[c].op) = "off"
        /\ StartOf(0, call[c], Zeros) = Zeros /\ PosOf(0, call[c].op, 0) = 0
    BY <1>1, <1>4 DEF ModeOf, StartOf, PosOf
  <1> QED
    BY <1>3, <1>6, <1>7, ShownAsSwitchOff

LEMMA CopyStream ==
    ASSUME SInv, IInv', NEW c \in Ctx, NEW s \in Ctx, Copy(c, s)
    PROVE  SInv' /\ AbsStep
  <1>1. call[c].op = "idle" /\ call[s].op = "idle" /\ c # s
    BY DEF Copy, Usable
  <1>2. Gives(c, gen[s], initialized[s], call[c], base[s], pos[s]) /\ out' = out
    BY Unchanged DEF Copy, SInv, Gives
  <1>3. gen[s] = After(base[s], pos[s])
    BY <1>1 DEF SInv, StreamAt
  <1>4. StreamAt(gen[s], initialized[s], call[c], base[s], pos[s])
    BY <1>1, <1>3 DEF StreamAt
  <1>5. /\ AbsMode[c] = ModeOf(initialized[c], "idle")
        /\ AbsMode[s] = ModeOf(initialized[s], "idle")
        /\ AbsStart[s] = StartOf(initialized[s], call[s], base[s])
        /\ AbsPos[s] = PosOf(initialized[s], "idle", pos[s])
    BY <1>1, MappingAt DEF SInv
  <1>6. /\ SInv'
        /\ AbsMode' = [AbsMode EXCEPT ![c] = ModeOf(initialized[s], call[c].op)]
        /\ AbsStart' = [AbsStart EXCEPT ![c] =
                           StartOf(initialized[s], call[c], base[s])]
        /\ AbsPos' = [AbsPos EXCEPT ![c] =
                         PosOf(initialized[s], call[c].op, pos[s])]
    BY <1>2, <1>4, StreamFrame
  <1>7. /\ AbsMode[c] # "busy" /\ AbsMode[s] # "busy"
        /\ ModeOf(initialized[s], call[c].op) = AbsMode[s]
        /\ StartOf(initialized[s], call[c], base[s]) = AbsStart[s]
        /\ PosOf(initialized[s], call[c].op, pos[s]) = AbsPos[s]
    BY <1>1, <1>5 DEF ModeOf, StartOf
  <1> QED
    BY <1>1, <1>2, <1>6, <1>7, ShownAsFork

LEMMA StutterStream ==
    ASSUME SInv, IInv', UNCHANGED vars
    PROVE  SInv' /\ AbsStep
  <1>1. SInv'
    BY DEF SInv, vars
  <1>2. AbsMode' = AbsMode /\ AbsStart' = AbsStart /\ AbsPos' = AbsPos
    BY DEF AbsMode, AbsStart, AbsPos, vars, StreamMode, StreamStart, Keying,
           Restarting
  <1> QED
    BY <1>1, <1>2 DEF AbsStep, vars

-----------------------------------------------------------------------------
LEMMA InitStream ==
    ASSUME Init
    PROVE  SInv /\ Stream!StreamInit
  <1>1. IInv
    BY InitIInv
  <1>2. Started(Zeros) = After(Zeros, 0)
    BY ZerosType, AfterRounds
  <1>3. StreamAt(Started(Zeros), 0, Idle, Zeros, 0)
    BY <1>2, IdleType DEF StreamAt
  <1>4. SInv
    BY <1>1, <1>3 DEF SInv, Init
  <1>5. MappingByContext
    BY <1>1, MappingValues
  <1>6. ModeOf(0, Idle.op) = "off" /\ StartOf(0, Idle, Zeros) = Zeros
    BY IdleType DEF ModeOf, StartOf
  <1>7. PosOf(0, Idle.op, 0) = 0
    BY DEF PosOf
  <1>8. /\ AbsMode = [c \in Ctx |-> "off"] /\ AbsStart = [c \in Ctx |-> Zeros]
        /\ AbsPos = [c \in Ctx |-> 0]
    BY <1>5, <1>6, <1>7 DEF MappingByContext, Init
  <1>9. out = [c \in Ctx |-> NoByte]
    BY DEF Init
  <1> QED
    BY <1>4, <1>8, <1>9, SameOperators
       DEF Stream!StreamInit, AbsMode, AbsStart, AbsPos

LEMMA NextStream ==
    ASSUME SInv, Next
    PROVE  SInv' /\ AbsStep
  <1>1. IInv'
    BY NextIInv DEF SInv
  <1>2. PICK c \in Ctx : Step(c) \/ Call(c)
    BY DEF Next
  <1>3. CASE Step(c)
    <2>1. CASE KsaStep(c)
      BY <1>1, <2>1, KsaStepStream
    <2>2. CASE KsaDone(c)
      BY <1>1, <2>2, KsaDoneStream
    <2>3. CASE DiscardStep(c) \/ EncryptStep(c) \/ SkipStep(c)
      BY <1>1, <2>3, RoundsStream
    <2>4. CASE InitDone(c) \/ Return(c)
      BY <1>1, <2>4, EndStream
    <2> QED
      BY <1>3, <2>1, <2>2, <2>3, <2>4 DEF Step
  <1>4. CASE Call(c)
    <2>1. CASE \E key \in Keys : InitStatic(c, key)
      <3>1. PICK key \in Keys : InitStatic(c, key)
        BY <2>1
      <3>2. initialized' = [initialized EXCEPT ![c] = initialized[c]]
        BY <3>1, Unchanged DEF InitStatic, SInv
      <3> QED
        BY <1>1, <3>1, <3>2, RekeyStream DEF InitStatic
    <2>2. CASE \E key \in Keys : InitHeap(c, key)
      <3>1. PICK key \in Keys : InitHeap(c, key)
        BY <2>2
      <3>2. PICK garbage \in {0, 1} :
                initialized' = [initialized EXCEPT ![c] = garbage]
        BY <3>1 DEF InitHeap
      <3> QED
        BY <1>1, <3>1, <3>2, RekeyStream DEF InitHeap
    <2>3. CASE \E n \in Lengths : BeginEncrypt(c, n) \/ BeginSkip(c, n)
      BY <1>1, <2>3, BeginUseStream
    <2>4. CASE BeginReset(c)
      BY <1>1, <2>4, BeginResetStream
    <2>5. CASE Uninit(c)
      BY <1>1, <2>5, UninitStream
    <2>6. CASE Ignored(c)
      BY <1>1, <2>6, StutterStream DEF Ignored
    <2>7. CASE \E s \in Ctx : Copy(c, s)
      BY <1>1, <2>7, CopyStream
    <2> QED
      BY <1>4, <2>1, <2>2, <2>3, <2>4, <2>5, <2>6, <2>7 DEF Call
  <1> QED
    BY <1>2, <1>3, <1>4

LEMMA StreamInductive == Spec => []SInv
  <1>1. SInv /\ [Next]_vars => SInv'
    BY NextStream, StutterIInv, StutterStream DEF SInv
  <1> QED
    BY <1>1, InitStream, PTL DEF Spec

(* Two contexts at the same position of the same stream are in the same    *)
(* state: what one encrypts the other decrypts, however their calls were   *)
(* cut and interleaved.                                                    *)
THEOREM InLockStep == Spec => []LockStep
  <1>1. SInv => LockStep
    BY DEF SInv, StreamAt, LockStep, Keying
  <1> QED
    BY <1>1, StreamInductive, PTL

(* The loops over the S-box implement the streams: for every width, every  *)
(* set of contexts and keys and every discard count, each context delivers *)
(* in order and each once, from the first byte after the discarded prefix  *)
(* on, the bytes of the stream that its last keying began, or that its     *)
(* last reset began at the S-box it had reached.                           *)
THEOREM ImplementsStreams == Spec => StreamRefinement
  <1>1. Init => Stream!StreamInit
    BY InitStream
  <1>2. SInv /\ [Next]_vars => [Stream!StreamNext]_(Stream!svars)
    <2>1. ASSUME SInv, [Next]_vars
          PROVE  AbsStep
      BY <2>1, NextStream, StutterIInv, StutterStream DEF SInv
    <2> QED
      BY <2>1 DEF AbsStep, AbsMode, AbsStart, AbsPos, Stream!svars
  <1> QED
    BY <1>1, <1>2, StreamInductive, PTL
       DEF Spec, StreamRefinement, Stream!StreamSpec

(* Without a reset a context that has been keyed is based on the S-box of  *)
(* a key.                                                                  *)
KeyOK(f, r, b) ==
    r.op = "discard" \/ (f = 1 /\ r.op # "ksa")
        => \E key \in Keys : b = KeyedBoxes[key]

KeyedInv == \A c \in Ctx : KeyOK(initialized[c], call[c], base[c])

NoReset == \A c \in Ctx : ~BeginReset(c)

LEMMA KeyFrame ==
    ASSUME SInv, KeyedInv, NEW c \in Ctx,
           NEW f, NEW r, NEW b, KeyOK(f, r, b),
           initialized' = [initialized EXCEPT ![c] = f],
           call' = [call EXCEPT ![c] = r],
           base' = [base EXCEPT ![c] = b]
    PROVE  KeyedInv'
  <1>1. /\ initialized'[c] = f /\ call'[c] = r /\ base'[c] = b
        /\ \A x \in Ctx \ {c} : /\ initialized'[x] = initialized[x]
                               /\ call'[x] = call[x] /\ base'[x] = base[x]
    BY DEF SInv, IInv, TypeOK
  <1> QED
    BY <1>1 DEF KeyedInv

(* Only the end of a key schedule and a copy change the base of a context  *)
(* that will be used.                                                      *)
LEMMA NextKeyed ==
    ASSUME SInv, KeyedInv, NoReset, Next
    PROVE  KeyedInv'
  <1>1. PICK c \in Ctx : Step(c) \/ Call(c)
    BY DEF Next
  <1>2. /\ initialized = [initialized EXCEPT ![c] = initialized[c]]
        /\ call = [call EXCEPT ![c] = call[c]]
        /\ base = [base EXCEPT ![c] = base[c]]
    BY Unchanged DEF SInv
  <1>3. KeyOK(initialized[c], call[c], base[c])
    BY DEF KeyedInv
  <1>4. call[c] \in CallRecord
    BY DEF SInv, IInv, TypeOK
  <1>5. CASE KsaStep(c)
    <2> DEFINE r == [call[c] EXCEPT !.j = KsaIndex(gen[c].S, call[c].j,
                                                  call[c].key, call[c].k),
                                   !.k = @ + 1]
    <2>1. r.op = "ksa"
      BY <1>4, <1>5 DEF KsaStep, CallRecord
    <2>2. KeyOK(initialized[c], r, base[c])
      BY <2>1 DEF KeyOK
    <2>3. call' = [call EXCEPT ![c] = r]
      BY <1>4, <1>5 DEF KsaStep, SInv, IInv, TypeOK
    <2>4. initialized' = initialized /\ base' = base
      BY <1>5 DEF KsaStep
    <2> HIDE DEF r
    <2> QED
      BY <1>2, <2>2, <2>3, <2>4, KeyFrame
  <1>6. CASE KsaDone(c)
    <2>1. ContextOK(gen[c], initialized[c], call[c], base[c], pos[c], out[c])
      BY DEF SInv, IInv
    <2>2. call[c].op = "ksa" /\ call[c].k = N /\ call[c].key \in Keys
      BY <1>6, <2>1 DEF ContextOK, LoopShape, KsaDone, AtEnd
    <2>3. gen[c].S = KeyedBoxes[call[c].key]
      BY <2>2, KsaAtEnd DEF SInv, StreamAt, KeyedBoxes
    <2>4. KeyOK(initialized[c], Loop("discard", Discard), gen[c].S)
      BY <2>2, <2>3 DEF KeyOK
    <2> QED
      BY <1>2, <1>6, <2>4, KeyFrame DEF KsaDone
  <1>7. CASE DiscardStep(c) \/ EncryptStep(c) \/ SkipStep(c)
    <2> DEFINE r == [call[c] EXCEPT !.k = @ + 1]
    <2>1. r.op = call[c].op
      BY <1>4 DEF CallRecord
    <2>2. KeyOK(initialized[c], r, base[c])
      BY <1>3, <2>1 DEF KeyOK
    <2>3. call' = [call EXCEPT ![c] = r]
      BY <1>7 DEF DiscardStep, EncryptStep, SkipStep, Tick
    <2>4. initialized' = initialized /\ base' = base
      BY <1>7 DEF DiscardStep, EncryptStep, SkipStep
    <2> HIDE DEF r
    <2> QED
      BY <1>2, <2>2, <2>3, <2>4, KeyFrame
  <1>8. CASE InitDone(c)
    <2>1. KeyOK(1, Idle, base[c])
      BY <1>3, <1>8 DEF InitDone, KeyOK
    <2> QED
      BY <1>2, <1>8, <2>1, KeyFrame DEF InitDone
  <1>9. CASE Return(c)
    <2>1. KeyOK(initialized[c], Idle, base[c])
      BY <1>3, <1>9, IdleType DEF Return, KeyOK
    <2> QED
      BY <1>2, <1>9, <2>1, KeyFrame DEF Return
  <1>10. CASE \E key \in Keys : InitStatic(c, key) \/ InitHeap(c, key)
    <2>1. PICK key \in Keys : InitStatic(c, key) \/ InitHeap(c, key)
      BY <1>10
    <2>2. PICK f : initialized' = [initialized EXCEPT ![c] = f]
      BY <1>2, <2>1 DEF InitStatic, InitHeap
    <2> DEFINE r == [op |-> "ksa", k |-> 0, n |-> N, j |-> 0, key |-> key]
    <2>3. KeyOK(f, r, base[c])
      BY DEF KeyOK
    <2>4. call' = [call EXCEPT ![c] = r] /\ base' = base
      BY <2>1 DEF InitStatic, InitHeap, BeginKsa
    <2> HIDE DEF r
    <2> QED
      BY <1>2, <2>2, <2>3, <2>4, KeyFrame
  <1>11. CASE \E n \in Lengths : BeginEncrypt(c, n) \/ BeginSkip(c, n)
    <2>1. PICK n \in Lengths : BeginEncrypt(c, n) \/ BeginSkip(c, n)
      BY <1>11
    <2>2. PICK r : call' = [call EXCEPT ![c] = r] /\ r.op \in {"emit", "skip"}
      <3>1. Loop("emit", n).op = "emit" /\ Loop("skip", n).op = "skip"
        BY DEF Loop
      <3>2. \/ call' = [call EXCEPT ![c] = Loop("emit", n)]
            \/ call' = [call EXCEPT ![c] = Loop("skip", n)]
        BY <2>1 DEF BeginEncrypt, BeginSkip
      <3> QED
        BY <3>1, <3>2
    <2>3. KeyOK(initialized[c], r, base[c])
      BY <1>3, <2>1, <2>2 DEF BeginEncrypt, BeginSkip, Usable, KeyOK
    <2>4. initialized' = initialized /\ base' = base
      BY <2>1 DEF BeginEncrypt, BeginSkip
    <2> QED
      BY <1>2, <2>2, <2>3, <2>4, KeyFrame
  <1>12. CASE Uninit(c)
    <2>1. KeyOK(0, call[c], Zeros)
      BY <1>12 DEF Uninit, Usable, KeyOK
    <2> QED
      BY <1>2, <1>12, <2>1, KeyFrame DEF Uninit
  <1>13. CASE \E s \in Ctx : Copy(c, s)
    <2>1. PICK s \in Ctx : Copy(c, s)
      BY <1>13
    <2>2. KeyOK(initialized[s], call[s], base[s])
      BY DEF KeyedInv
    <2>3. KeyOK(initialized[s], call[c], base[s])
      BY <2>1, <2>2 DEF Copy, Usable, KeyOK
    <2> QED
      BY <1>2, <2>1, <2>3, KeyFrame DEF Copy
  <1>14. CASE Ignored(c)
    BY <1>14 DEF Ignored, vars, KeyedInv
  <1> QED
    BY <1>1, <1>5, <1>6, <1>7, <1>8, <1>9, <1>10, <1>11, <1>12, <1>13, <1>14
       DEF Step, Call, NoReset

(* As long as nobody resets a context, a usable context is, for every      *)
(* width, key set and interleaving, in the state of a key's stream at its  *)
(* position (arcfour_static.c:102-192, arcfour.c:121-126).  After a reset  *)
(* it need not be.                                                         *)
THEOREM KeysStreamUntilReset ==
    Spec /\ [][NoReset]_vars => []ResetReusesKey
  <1>1. Init => KeyedInv
    BY IdleType DEF Init, KeyedInv, KeyOK
  <1>2. SInv /\ KeyedInv /\ [Next]_vars /\ [NoReset]_vars => KeyedInv'
    <2>1. CASE UNCHANGED vars
      BY <2>1 DEF vars, KeyedInv
    <2> QED
      BY <2>1, NextKeyed
  <1>3. SInv /\ KeyedInv => ResetReusesKey
    <2>1. ASSUME SInv, KeyedInv, NEW c \in Ctx,
                 initialized[c] = 1, call[c].op = "idle"
          PROVE  \E key \in Keys : gen[c] = After(KeyedBoxes[key], pos[c])
      <3>1. gen[c] = After(base[c], pos[c])
        BY <2>1 DEF SInv, StreamAt
      <3>2. PICK key \in Keys : base[c] = KeyedBoxes[key]
        BY <2>1 DEF KeyedInv, KeyOK
      <3> QED
        BY <3>1, <3>2
    <2> QED
      BY <2>1 DEF ResetReusesKey
  <1> QED
    BY <1>1, <1>2, <1>3, StreamInductive, PTL DEF Spec

-----------------------------------------------------------------------------
(* The loops of the kernels: no turn leaves the start, one more turn is    *)
(* one more application, turns add up, and taking them by sixteens is      *)
(* taking them one by one.                                                 *)
LEMMA TurnsLaw ==
    ASSUME NEW V, NEW F \in [V -> V], NEW v \in V
    PROVE  /\ Turns(F, v, 0) = v
           /\ \A n \in Nat : /\ Turns(F, v, n) \in V
                             /\ Turns(F, v, n + 1) = F[Turns(F, v, n)]
  <1> DEFINE E == [n \in Nat |-> F]
             made == CHOOSE made : made = [k \in Nat |->
                        IF k = 0 THEN v ELSE F[made[k - 1]]]
  <1>1. E \in [Nat -> [V -> V]]
    OBVIOUS
  <1>2. \A n \in Nat : E[n] = F
    OBVIOUS
  <1> HIDE DEF E
  <1>3. PICK G \in [Nat -> V] : G[0] = v /\ \A n \in Nat : G[n + 1] = E[n][G[n]]
    BY <1>1, RecursionExists, Z3T(30)
  <1>4. G = [k \in Nat |-> IF k = 0 THEN v ELSE F[G[k - 1]]]
    <2>1. ASSUME NEW k \in Nat, k # 0 PROVE G[k] = F[G[k - 1]]
      <3>1. k - 1 \in Nat /\ (k - 1) + 1 = k
        BY <2>1
      <3> QED
        BY <3>1, <1>2, <1>3
    <2>2. G = [k \in Nat |-> G[k]]
      BY <1>3
    <2> QED
      BY <1>3, <2>1, <2>2
  <1>5. made = [k \in Nat |-> IF k = 0 THEN v ELSE F[made[k - 1]]]
    BY <1>4
  <1>6. \A n : Turns(F, v, n) = made[n]
    BY DEF Turns
  <1> HIDE DEF made
  <1>7. Turns(F, v, 0) = v
    BY <1>5, <1>6
  <1>8. ASSUME NEW n \in Nat PROVE Turns(F, v, n + 1) = F[Turns(F, v, n)]
    <2>1. made[n + 1] = F[made[(n + 1) - 1]] /\ (n + 1) - 1 = n
      BY <1>5
    <2> QED
      BY <1>6, <2>1
  <1> DEFINE P == {n \in Nat : Turns(F, v, n) \in V}
  <1>9. Nat \subseteq P
    <2>1. 0 \in P /\ \A n \in Nat : n \in P => n + 1 \in P
      BY <1>7, <1>8
    <2> HIDE DEF P
    <2> QED
      BY <2>1, Induction
  <1> QED
    BY <1>7, <1>8, <1>9

LEMMA TurnsSum ==
    ASSUME NEW V, NEW F \in [V -> V], NEW v \in V, NEW m \in Nat, NEW n \in Nat
    PROVE  Turns(F, v, m + n) = Turns(F, Turns(F, v, m), n)
  <1> DEFINE w == Turns(F, v, m)
             P == {k \in Nat : Turns(F, v, m + k) = Turns(F, w, k)}
  <1>1. w \in V
    BY TurnsLaw
  <1> HIDE DEF w
  <1>2. Turns(F, w, 0) = w
        /\ \A k \in Nat : Turns(F, w, k + 1) = F[Turns(F, w, k)]
    BY <1>1, TurnsLaw
  <1>3. 0 \in P
    <2>1. m + 0 = m
      OBVIOUS
    <2> QED
      BY <1>2, <2>1 DEF w
  <1>4. ASSUME NEW k \in Nat, k \in P PROVE k + 1 \in P
    <2>1. m + (k + 1) = (m + k) + 1 /\ m + k \in Nat
      OBVIOUS
    <2>2. Turns(F, v, (m + k) + 1) = F[Turns(F, v, m + k)]
      BY <2>1, TurnsLaw
    <2> QED
      BY <1>2, <1>4, <2>1, <2>2
  <1>5. Nat \subseteq P
    <2> HIDE DEF P
    <2> QED
      BY <1>3, <1>4, Induction
  <1> QED
    BY <1>5 DEF w

LEMMA LoopsTurn ==
    ASSUME NEW V, NEW F \in [V -> V], NEW v \in V, NEW n \in Nat
    PROVE  Loops(F, v, n) = Turns(F, v, n)
  <1> DEFINE Sixteen == [w \in V |-> Turns(F, w, 16)]
             P == {q \in Nat : Turns(Sixteen, v, q) = Turns(F, v, 16 * q)}
  <1>1. Sixteen \in [V -> V]
    BY TurnsLaw
  <1>2. \A w \in V : Sixteen[w] = Turns(F, w, 16)
    OBVIOUS
  <1>3. DOMAIN F = V
    OBVIOUS
  <1>4. Loops(F, v, n) = Turns(F, Turns(Sixteen, v, n \div 16), n % 16)
    BY <1>3, Zenon DEF Loops
  <1> HIDE DEF Sixteen
  <1>5. 0 \in P
    <2>1. 16 * 0 = 0
      OBVIOUS
    <2>2. Turns(Sixteen, v, 0) = v /\ Turns(F, v, 0) = v
      BY <1>1, TurnsLaw
    <2> QED
      BY <2>1, <2>2
  <1>6. ASSUME NEW q \in Nat, q \in P PROVE q + 1 \in P
    <2>1. 16 * (q + 1) = 16 * q + 16 /\ 16 * q \in Nat
      OBVIOUS
    <2>2. Turns(F, v, 16 * q) \in V
      BY <2>1, TurnsLaw
    <2>3. Turns(Sixteen, v, q + 1) = Sixteen[Turns(Sixteen, v, q)]
      BY <1>1, TurnsLaw
    <2>4. Turns(Sixteen, v, q + 1) = Turns(F, Turns(F, v, 16 * q), 16)
      BY <1>2, <1>6, <2>2, <2>3
    <2>5. Turns(F, v, 16 * q + 16) = Turns(F, Turns(F, v, 16 * q), 16)
      BY <2>1, TurnsSum
    <2> QED
      BY <2>1, <2>4, <2>5
  <1>7. Nat \subseteq P
    <2> HIDE DEF P
    <2> QED
      BY <1>5, <1>6, Induction
  <1> DEFINE q == n \div 16
             r == n % 16
  <1>8. q \in Nat /\ 16 * q \in Nat /\ r \in Nat /\ 16 * q + r = n
    OBVIOUS
  <1> HIDE DEF q, r
  <1>9. Turns(Sixteen, v, q) = Turns(F, v, 16 * q)
    BY <1>7, <1>8
  <1>10. Turns(F, v, 16 * q + r) = Turns(F, Turns(F, v, 16 * q), r)
    BY <1>8, TurnsSum
  <1> QED
    BY <1>4, <1>8, <1>9, <1>10 DEF q, r

-----------------------------------------------------------------------------
(* The generator after n rounds.                                           *)
Rounds(g, n) == Turns([h \in Generator |-> NextGen(h)], g, n)

LEMMA RoundsLaw ==
    ASSUME NEW g \in Generator
    PROVE  /\ Rounds(g, 0) = g
           /\ \A n \in Nat : /\ Rounds(g, n) \in Generator
                             /\ Rounds(g, n + 1) = NextGen(Rounds(g, n))
           /\ \A m, n \in Nat : Rounds(g, m + n) = Rounds(Rounds(g, m), n)
  <1> DEFINE F == [h \in Generator |-> NextGen(h)]
  <1>1. F \in [Generator -> Generator]
    BY GeneratorRound
  <1>2. \A h \in Generator : F[h] = NextGen(h)
    OBVIOUS
  <1>3. \A h, n : Rounds(h, n) = Turns(F, h, n)
    BY DEF Rounds
  <1> HIDE DEF F
  <1>4. /\ Turns(F, g, 0) = g
        /\ \A n \in Nat : /\ Turns(F, g, n) \in Generator
                          /\ Turns(F, g, n + 1) = F[Turns(F, g, n)]
    BY <1>1, TurnsLaw
  <1>5. \A m, n \in Nat : Turns(F, g, m + n) = Turns(F, Turns(F, g, m), n)
    BY <1>1, TurnsSum
  <1> QED
    BY <1>2, <1>3, <1>4, <1>5

LEMMA AfterIsRounds ==
    ASSUME NEW S \in [Byte -> Byte], NEW n \in Nat
    PROVE  After(S, n) = Rounds(Started(S), n)
  <1> DEFINE P == {k \in Nat : After(S, k) = Rounds(Started(S), k)}
  <1>1. Started(S) \in Generator
    BY StartedType
  <1>2. 0 \in P
    BY <1>1, AfterRounds, RoundsLaw
  <1>3. ASSUME NEW k \in Nat, k \in P PROVE k + 1 \in P
    <2>1. After(S, k + 1) = NextGen(After(S, k))
      BY AfterRounds
    <2>2. Rounds(Started(S), k + 1) = NextGen(Rounds(Started(S), k))
      BY <1>1, RoundsLaw
    <2> QED
      BY <1>3, <2>1, <2>2
  <1>4. Nat \subseteq P
    <2> HIDE DEF P
    <2> QED
      BY <1>2, <1>3, Induction
  <1> QED
    BY <1>4

-----------------------------------------------------------------------------
(* Pieces.  A result is On(h) if it has made one round for every cell,     *)
(* Ordered if its cells are for the input bytes in their order as well,    *)
(* and Streaming if they are the bytes of the stream.                      *)
CellSet == [ks : Byte, from : Nat]

On(h) == {q \in Result : q.gen = Rounds(h, Len(q.cells))}

InOrder(cells) == \A k \in DOMAIN cells : cells[k].from = k

Ordered(h) == {q \in On(h) : InOrder(q.cells)}

Streams(g, n) == [k \in 1 .. n |-> Cell(OutByte(Rounds(g, k)), k)]

Streaming(h) == {q \in On(h) : q.cells = Streams(h, Len(q.cells))}

LEMMA ResultFields ==
    ASSUME NEW q \in Result
    PROVE  /\ q.gen \in Generator /\ q.cells \in Seq(CellSet)
           /\ Len(q.cells) \in Nat /\ DOMAIN q.cells = 1 .. Len(q.cells)
           /\ \A k \in 1 .. Len(q.cells) :
                 q.cells[k] \in CellSet /\ q.cells[k].from \in Nat
  <1>1. q.gen \in Generator /\ q.cells \in Seq(CellSet)
    BY DEF Result, CellSet
  <1>2. Len(q.cells) \in Nat /\ DOMAIN q.cells = 1 .. Len(q.cells)
    BY <1>1
  <1>3. \A k \in 1 .. Len(q.cells) : q.cells[k] \in CellSet
    BY <1>1
  <1> QED
    BY <1>1, <1>2, <1>3 DEF CellSet

LEMMA ResultMade ==
    ASSUME NEW g \in Generator, NEW cells \in Seq(CellSet)
    PROVE  /\ [gen |-> g, cells |-> cells] \in Result
           /\ [gen |-> g, cells |-> cells].gen = g
           /\ [gen |-> g, cells |-> cells].cells = cells
  BY DEF Result, CellSet

LEMMA ConcatLaw ==
    ASSUME NEW V, NEW s \in Seq(V), NEW t \in Seq(V)
    PROVE  /\ s \o t \in Seq(V) /\ Len(s \o t) = Len(s) + Len(t)
           /\ \A k \in 1 .. Len(s) : (s \o t)[k] = s[k]
           /\ \A k \in 1 .. Len(t) : (s \o t)[Len(s) + k] = t[k]
  <1>1. /\ s \o t \in Seq(V) /\ Len(s \o t) = Len(s) + Len(t)
        /\ \A k \in 1 .. Len(s) + Len(t) :
              (s \o t)[k] = IF k <= Len(s) THEN s[k] ELSE t[k - Len(s)]
    BY ConcatProperties
  <1>2. Len(s) \in Nat /\ Len(t) \in Nat
    OBVIOUS
  <1>3. ASSUME NEW k \in 1 .. Len(t)
        PROVE  /\ Len(s) + k \in 1 .. Len(s) + Len(t)
               /\ ~ (Len(s) + k <= Len(s)) /\ (Len(s) + k) - Len(s) = k
    BY <1>2
  <1>4. \A k \in 1 .. Len(s) : k \in 1 .. Len(s) + Len(t) /\ k <= Len(s)
    BY <1>2
  <1> QED
    BY <1>1, <1>3, <1>4

LEMMA ThenLaw ==
    ASSUME NEW q \in Result, NEW x \in Result
    PROVE  /\ Then(q, x) \in Result /\ Then(q, x).gen = x.gen
           /\ Len(Then(q, x).cells) = Len(q.cells) + Len(x.cells)
           /\ \A k \in 1 .. Len(q.cells) : Then(q, x).cells[k] = q.cells[k]
           /\ \A k \in 1 .. Len(x.cells) :
                 Then(q, x).cells[Len(q.cells) + k] =
                     Cell(x.cells[k].ks, x.cells[k].from + Len(q.cells))
  <1> DEFINE m == Len(q.cells)
             n == Len(x.cells)
             moved == [k \in DOMAIN x.cells |->
                          [x.cells[k] EXCEPT !.from = @ + m]]
  <1>1. /\ x.gen \in Generator /\ x.cells \in Seq(CellSet)
        /\ q.cells \in Seq(CellSet) /\ m \in Nat /\ n \in Nat
        /\ DOMAIN x.cells = 1 .. n
    BY ResultFields
  <1>2. \A k \in 1 .. n : x.cells[k] \in CellSet
    BY <1>1
  <1>3. \A c \in CellSet : /\ [c EXCEPT !.from = @ + m] = Cell(c.ks, c.from + m)
                           /\ Cell(c.ks, c.from + m) \in CellSet
    BY <1>1 DEF CellSet, Cell
  <1>4. \A k \in 1 .. n :
           moved[k] = Cell(x.cells[k].ks, x.cells[k].from + m)
    BY <1>1, <1>2, <1>3
  <1>5. moved \in Seq(CellSet) /\ Len(moved) = n
    <2>1. moved \in [1 .. n -> CellSet]
      BY <1>1, <1>2, <1>3
    <2> HIDE DEF moved
    <2> QED
      BY <1>1, <2>1
  <1>6. Then(q, x) = [gen |-> x.gen, cells |-> q.cells \o moved]
    BY DEF Then
  <1> HIDE DEF moved
  <1> DEFINE both == q.cells \o moved
  <1>7. /\ both \in Seq(CellSet) /\ Len(both) = m + n
        /\ \A k \in 1 .. m : both[k] = q.cells[k]
        /\ \A k \in 1 .. n : both[m + k] = moved[k]
    <2>1. /\ both \in Seq(CellSet) /\ Len(both) = Len(q.cells) + Len(moved)
          /\ \A k \in 1 .. Len(q.cells) : both[k] = q.cells[k]
          /\ \A k \in 1 .. Len(moved) : both[Len(q.cells) + k] = moved[k]
      <3>1. q.cells \in Seq(CellSet) /\ moved \in Seq(CellSet)
        BY <1>1, <1>5
      <3> HIDE DEF m, n
      <3> QED
        BY <3>1, ConcatLaw
    <2> HIDE DEF both
    <2> QED
      BY <1>5, <2>1
  <1> HIDE DEF both, m, n
  <1>9. Then(q, x) \in Result /\ Then(q, x).gen = x.gen /\ Then(q, x).cells = both
    <2>1. Then(q, x) = [gen |-> x.gen, cells |-> both]
      BY <1>6 DEF both
    <2> QED
      BY <1>1, <1>7, <2>1, ResultMade
  <1> QED
    BY <1>4, <1>7, <1>9 DEF m, n

LEMMA ThenOn ==
    ASSUME NEW h \in Generator, NEW q \in On(h), NEW x \in On(q.gen)
    PROVE  Then(q, x) \in On(h)
  <1>1. /\ q \in Result /\ q.gen = Rounds(h, Len(q.cells))
        /\ x \in Result /\ x.gen = Rounds(q.gen, Len(x.cells))
    BY DEF On
  <1>2. Len(q.cells) \in Nat /\ Len(x.cells) \in Nat
    BY <1>1, ResultFields
  <1>3. x.gen = Rounds(h, Len(q.cells) + Len(x.cells))
    <2>1. Rounds(h, Len(q.cells) + Len(x.cells))
             = Rounds(Rounds(h, Len(q.cells)), Len(x.cells))
      BY <1>2, RoundsLaw, Zenon
    <2> QED
      BY <1>1, <2>1
  <1> QED
    BY <1>1, <1>3, ThenLaw DEF On

LEMMA Parts ==
    ASSUME NEW m \in Nat, NEW n \in Nat, NEW k \in 1 .. m + n
    PROVE  \/ k \in 1 .. m
           \/ k - m \in 1 .. n /\ m + (k - m) = k
  OBVIOUS

LEMMA ThenOrdered ==
    ASSUME NEW h \in Generator, NEW q \in Ordered(h), NEW x \in Ordered(q.gen)
    PROVE  Then(q, x) \in Ordered(h)
  <1>1. /\ q \in On(h) /\ q \in Result /\ InOrder(q.cells)
        /\ x \in On(q.gen) /\ x \in Result /\ InOrder(x.cells)
    BY DEF Ordered, On
  <1> DEFINE m == Len(q.cells)
             n == Len(x.cells)
             cells == Then(q, x).cells
  <1>2. /\ m \in Nat /\ DOMAIN q.cells = 1 .. m
        /\ n \in Nat /\ DOMAIN x.cells = 1 .. n
    BY <1>1, ResultFields
  <1>3. /\ Then(q, x) \in On(h) /\ Then(q, x) \in Result /\ Len(cells) = m + n
        /\ \A k \in 1 .. m : cells[k] = q.cells[k]
        /\ \A k \in 1 .. n :
              cells[m + k] = Cell(x.cells[k].ks, x.cells[k].from + m)
    BY <1>1, ThenLaw, ThenOn
  <1>4. DOMAIN cells = 1 .. m + n
    BY <1>3, ResultFields
  <1> HIDE DEF m, n, cells
  <1>5. ASSUME NEW k \in 1 .. m + n PROVE cells[k].from = k
    <2>1. CASE k \in 1 .. m
      BY <1>1, <1>2, <1>3, <2>1 DEF InOrder
    <2>2. CASE k - m \in 1 .. n /\ m + (k - m) = k
      <3>1. x.cells[k - m].from = k - m
        BY <1>1, <1>2, <2>2 DEF InOrder
      <3>2. cells[k] = Cell(x.cells[k - m].ks, (k - m) + m)
        BY <1>3, <2>2, <3>1
      <3>3. (k - m) + m = k
        BY <1>2
      <3> QED
        BY <3>2, <3>3 DEF Cell
    <2> QED
      BY <1>2, <2>1, <2>2, Parts
  <1> QED
    BY <1>3, <1>4, <1>5 DEF Ordered, InOrder, cells

LEMMA ThenStreaming ==
    ASSUME NEW h \in Generator, NEW q \in Streaming(h),
           NEW x \in Streaming(q.gen)
    PROVE  Then(q, x) \in Streaming(h)
  <1> DEFINE m == Len(q.cells)
             n == Len(x.cells)
             cells == Then(q, x).cells
  <1>1. /\ q \in On(h) /\ q \in Result /\ q.cells = Streams(h, m)
        /\ x \in On(q.gen) /\ x \in Result /\ x.cells = Streams(q.gen, n)
        /\ q.gen = Rounds(h, m)
    BY DEF Streaming, On
  <1>2. m \in Nat /\ n \in Nat
    BY <1>1, ResultFields
  <1>3. /\ Then(q, x) \in On(h) /\ Then(q, x) \in Result /\ Len(cells) = m + n
        /\ \A k \in 1 .. m : cells[k] = q.cells[k]
        /\ \A k \in 1 .. n :
              cells[m + k] = Cell(x.cells[k].ks, x.cells[k].from + m)
    BY <1>1, ThenLaw, ThenOn
  <1>4. DOMAIN cells = 1 .. m + n /\ cells \in Seq(CellSet)
    BY <1>3, ResultFields
  <1> HIDE DEF m, n, cells
  <1>5. ASSUME NEW k \in 1 .. m + n
        PROVE  cells[k] = Cell(OutByte(Rounds(h, k)), k)
    <2>1. CASE k \in 1 .. m
      BY <1>1, <1>3, <2>1 DEF Streams
    <2>2. CASE k - m \in 1 .. n /\ m + (k - m) = k
      <3>1. x.cells[k - m] = Cell(OutByte(Rounds(q.gen, k - m)), k - m)
        BY <1>1, <2>2 DEF Streams
      <3>2. Rounds(q.gen, k - m) = Rounds(h, k)
        <4>1. k - m \in Nat
          BY <2>2
        <4> QED
          BY <1>1, <1>2, <2>2, <4>1, RoundsLaw
      <3>3. cells[k] = Cell(x.cells[k - m].ks, x.cells[k - m].from + m)
        BY <1>3, <2>2
      <3>4. (k - m) + m = k
        BY <1>2
      <3> QED
        BY <3>1, <3>2, <3>3, <3>4 DEF Cell
    <2> QED
      BY <1>2, <2>1, <2>2, Parts
  <1>6. cells = Streams(h, m + n)
    <2>1. cells = [k \in 1 .. m + n |-> cells[k]]
      BY <1>4
    <2> QED
      BY <1>5, <2>1 DEF Streams
  <1> QED
    BY <1>3, <1>6 DEF Streaming, cells

-----------------------------------------------------------------------------
(* Kernel after kernel.  What is said of every piece by itself holds of    *)
(* the pieces put together.                                                *)
LEMMA RepeatLaw ==
    ASSUME NEW kernel \in [Generator -> Result], NEW r \in Result
    PROVE  /\ Repeat(r, kernel, 0) = r
           /\ \A n \in Nat :
                 /\ Repeat(r, kernel, n) \in Result
                 /\ Repeat(r, kernel, n + 1) =
                       Then(Repeat(r, kernel, n),
                            kernel[Repeat(r, kernel, n).gen])
  <1> DEFINE F == [q \in Result |-> Then(q, kernel[q.gen])]
  <1>1. \A q \in Result : q.gen \in Generator /\ kernel[q.gen] \in Result
    BY ResultFields
  <1>2. F \in [Result -> Result]
    BY <1>1, ThenLaw
  <1>3. \A q \in Result : F[q] = Then(q, kernel[q.gen])
    OBVIOUS
  <1>4. \A n : Repeat(r, kernel, n) = Loops(F, r, n)
    BY DEF Repeat
  <1> HIDE DEF F
  <1>5. \A n \in Nat : Repeat(r, kernel, n) = Turns(F, r, n)
    BY <1>2, <1>4, LoopsTurn
  <1>6. /\ Turns(F, r, 0) = r
        /\ \A n \in Nat : /\ Turns(F, r, n) \in Result
                          /\ Turns(F, r, n + 1) = F[Turns(F, r, n)]
    BY <1>2, TurnsLaw
  <1>7. ASSUME NEW n \in Nat
        PROVE  /\ Repeat(r, kernel, n) \in Result
               /\ Repeat(r, kernel, n + 1) =
                     Then(Repeat(r, kernel, n),
                          kernel[Repeat(r, kernel, n).gen])
    <2>1. n + 1 \in Nat
      OBVIOUS
    <2> QED
      BY <1>3, <1>5, <1>6, <2>1
  <1> QED
    BY <1>5, <1>6, <1>7

LEMMA RepeatKeeps ==
    ASSUME NEW kernel \in [Generator -> Result],
           NEW T \in SUBSET Result, NEW r \in T,
           \A q \in T : Then(q, kernel[q.gen]) \in T,
           NEW n \in Nat
    PROVE  Repeat(r, kernel, n) \in T
  <1> DEFINE P == {k \in Nat : Repeat(r, kernel, k) \in T}
  <1>1. 0 \in P /\ \A k \in Nat : k \in P => k + 1 \in P
    BY RepeatLaw
  <1>2. Nat \subseteq P
    <2> HIDE DEF P
    <2> QED
      BY <1>1, Induction
  <1> QED
    BY <1>2

(* The kernels that make a round for each of w bytes.                      *)
Rounding(w) ==
    {kernel \in [Generator -> Result] :
        \A g \in Generator : kernel[g] \in On(g) /\ Len(kernel[g].cells) = w}

LEMMA TimesStep ==
    ASSUME NEW a \in Nat, NEW k \in Nat, NEW w \in Nat
    PROVE  a + (k + 1) * w = (a + k * w) + w
  <1>1. k * w \in Nat /\ (k + 1) * w = k * w + w
    OBVIOUS
  <1> DEFINE p == k * w
  <1> HIDE DEF p
  <1>2. p \in Nat
    BY <1>1 DEF p
  <1>3. a + (p + w) = (a + p) + w
    BY <1>2
  <1> QED
    BY <1>1, <1>3 DEF p

LEMMA RepeatLength ==
    ASSUME NEW w \in Nat, NEW kernel \in Rounding(w), NEW r \in Result,
           NEW n \in Nat
    PROVE  Len(Repeat(r, kernel, n).cells) = Len(r.cells) + n * w
  <1> DEFINE long(k) == Len(Repeat(r, kernel, k).cells)
             P == {k \in Nat : long(k) = Len(r.cells) + k * w}
  <1>1. /\ kernel \in [Generator -> Result] /\ Len(r.cells) \in Nat
        /\ \A g \in Generator : kernel[g] \in Result /\ Len(kernel[g].cells) = w
    BY ResultFields DEF Rounding
  <1>2. 0 \in P
    <2>1. 0 * w = 0 /\ Len(r.cells) + 0 = Len(r.cells)
      BY <1>1
    <2> QED
      BY <1>1, <2>1, RepeatLaw
  <1>3. ASSUME NEW k \in Nat, k \in P PROVE k + 1 \in P
    <2> DEFINE q == Repeat(r, kernel, k)
               x == kernel[q.gen]
    <2>1. q \in Result /\ Repeat(r, kernel, k + 1) = Then(q, x)
      BY <1>1, RepeatLaw
    <2>2. x \in Result /\ Len(x.cells) = w
      BY <1>1, <2>1, ResultFields
    <2>3. Len(q.cells) = Len(r.cells) + k * w
      BY <1>3
    <2>4. long(k + 1) = Len(q.cells) + w
      <3>1. long(k + 1) = Len(Then(q, x).cells)
        BY <2>1
      <3> HIDE DEF q, x, long
      <3> QED
        BY <2>1, <2>2, <3>1, ThenLaw
    <2> HIDE DEF q, x, long
    <2>5. Len(r.cells) + (k + 1) * w = (Len(r.cells) + k * w) + w
      BY <1>1, TimesStep, ZenonT(60)
    <2>6. long(k + 1) = Len(r.cells) + (k + 1) * w
      BY <2>3, <2>4, <2>5
    <2>7. k + 1 \in Nat
      OBVIOUS
    <2> QED
      BY <2>6, <2>7, Zenon
  <1>4. Nat \subseteq P
    <2> HIDE DEF P
    <2> QED
      BY <1>2, <1>3, Induction
  <1> QED
    BY <1>4

LEMMA RepeatOn ==
    ASSUME NEW w \in Nat, NEW kernel \in Rounding(w), NEW h \in Generator,
           NEW r \in On(h), NEW n \in Nat
    PROVE  Repeat(r, kernel, n) \in On(h)
  <1>1. kernel \in [Generator -> Result] /\ On(h) \in SUBSET Result
    BY DEF Rounding, On
  <1>2. \A q \in On(h) : Then(q, kernel[q.gen]) \in On(h)
    <2> SUFFICES ASSUME NEW q \in On(h) PROVE Then(q, kernel[q.gen]) \in On(h)
      OBVIOUS
    <2>1. q.gen \in Generator
      BY ResultFields DEF On
    <2> QED
      BY <2>1, ThenOn DEF Rounding
  <1> QED
    BY <1>1, <1>2, RepeatKeeps, Zenon

LEMMA RepeatOrdered ==
    ASSUME NEW w \in Nat, NEW kernel \in Rounding(w), NEW h \in Generator,
           \A g \in Generator : kernel[g] \in Ordered(g),
           NEW r \in Ordered(h), NEW n \in Nat
    PROVE  Repeat(r, kernel, n) \in Ordered(h)
  <1>1. kernel \in [Generator -> Result] /\ Ordered(h) \in SUBSET Result
    BY DEF Rounding, On, Ordered
  <1>2. \A q \in Ordered(h) : Then(q, kernel[q.gen]) \in Ordered(h)
    <2> SUFFICES ASSUME NEW q \in Ordered(h)
                 PROVE  Then(q, kernel[q.gen]) \in Ordered(h)
      OBVIOUS
    <2>1. q.gen \in Generator
      BY ResultFields DEF On, Ordered
    <2> QED
      BY <2>1, ThenOrdered
  <1> QED
    BY <1>1, <1>2, RepeatKeeps, Zenon

LEMMA RepeatStreaming ==
    ASSUME NEW w \in Nat, NEW kernel \in Rounding(w), NEW h \in Generator,
           \A g \in Generator : kernel[g] \in Streaming(g),
           NEW r \in Streaming(h), NEW n \in Nat
    PROVE  Repeat(r, kernel, n) \in Streaming(h)
  <1>1. kernel \in [Generator -> Result] /\ Streaming(h) \in SUBSET Result
    BY DEF Rounding, On, Streaming
  <1>2. \A q \in Streaming(h) : Then(q, kernel[q.gen]) \in Streaming(h)
    <2> SUFFICES ASSUME NEW q \in Streaming(h)
                 PROVE  Then(q, kernel[q.gen]) \in Streaming(h)
      OBVIOUS
    <2>1. q.gen \in Generator
      BY ResultFields DEF On, Streaming
    <2> QED
      BY <2>1, ThenStreaming
  <1> QED
    BY <1>1, <1>2, RepeatKeeps, Zenon

LEMMA BeforeLaw ==
    ASSUME NEW g \in Generator
    PROVE  /\ Before(g) \in Result /\ Before(g) \in On(g)
           /\ Before(g) \in Ordered(g) /\ Before(g) \in Streaming(g)
           /\ Len(Before(g).cells) = 0
  <1>1. /\ Before(g) \in Result /\ Before(g).gen = g /\ Before(g).cells = <<>>
        /\ Len(Before(g).cells) = 0
    BY DEF Before, Result
  <1>2. Before(g) \in On(g)
    BY <1>1, RoundsLaw DEF On
  <1>3. InOrder(Before(g).cells)
    BY <1>1 DEF InOrder
  <1>4. Before(g).cells = Streams(g, 0)
    <2>1. Streams(g, 0) = <<>>
      BY DEF Streams
    <2> QED
      BY <1>1, <2>1
  <1> QED
    BY <1>1, <1>2, <1>3, <1>4 DEF Ordered, Streaming

-----------------------------------------------------------------------------
(* The kernels by themselves.                                              *)
LEMMA RoundArmLaw ==
    ASSUME NEW g \in Generator
    PROVE  /\ RoundArm(g).gen = NextGen(g) /\ NextGen(g) \in Generator
           /\ RoundArm(g).t \in Byte
           /\ NextGen(g).S[RoundArm(g).t] = OutByte(NextGen(g))
  <1> DEFINE ii == (g.i + 1) % N
             jj == (g.j + g.S[ii]) % N
             S == Swap(g.S, ii, jj)
  <1>1. g.S \in [Byte -> Byte] /\ g.i \in Byte /\ g.j \in Byte
    BY DEF Generator
  <1>2. ii \in Byte /\ jj \in Byte
    <2>1. ii \in Byte
      BY <1>1, BytesAreNumbers, ModIsByte
    <2>2. g.S[ii] \in Int /\ g.j \in Int
      BY <1>1, <2>1, BytesAreNumbers
    <2> QED
      BY <2>1, <2>2, ModIsByte
  <1>3. NextGen(g) = [S |-> S, i |-> ii, j |-> jj]
    BY DEF NextGen
  <1>4. /\ RoundArm(g).gen = [S |-> S, i |-> ii, j |-> jj]
        /\ RoundArm(g).t = (g.S[ii] + g.S[jj]) % N
    BY ZenonT(60) DEF RoundArm, Swap
  <1> HIDE DEF ii, jj
  <1>5. S[ii] = g.S[jj] /\ S[jj] = g.S[ii]
    BY <1>1, <1>2 DEF Swap
  <1>6. g.S[ii] \in Int /\ g.S[jj] \in Int
    BY <1>1, <1>2, BytesAreNumbers
  <1>7. g.S[ii] + g.S[jj] = S[ii] + S[jj] /\ g.S[ii] + g.S[jj] \in Int
    BY <1>5, <1>6
  <1> HIDE DEF S
  <1>8. OutByte(NextGen(g)) = S[(S[ii] + S[jj]) % N] /\ NextGen(g).S = S
    BY <1>3 DEF OutByte
  <1>9. RoundArm(g).t \in Byte
    BY <1>4, <1>7, ModIsByte
  <1> QED
    BY <1>3, <1>4, <1>7, <1>8, <1>9, GeneratorRound

LEMMA OneRound ==
    ASSUME NEW g \in Generator
    PROVE  Rounds(g, 1) = NextGen(g)
  <1>1. 0 + 1 = 1 /\ 0 \in Nat
    OBVIOUS
  <1> QED
    BY <1>1, RoundsLaw

(* A kernel that makes one round and one cell.                             *)
LEMMA SingleLaw ==
    ASSUME NEW kernel, kernel = [g \in Generator |-> kernel[g]],
           \A g \in Generator :
              \E b \in Byte : kernel[g] = [gen |-> NextGen(g),
                                           cells |-> <<Cell(b, 1)>>]
    PROVE  /\ kernel \in Rounding(1)
           /\ \A g \in Generator : kernel[g] \in Ordered(g)
  <1>1. ASSUME NEW g \in Generator
        PROVE  /\ kernel[g] \in Result /\ kernel[g] \in Ordered(g)
               /\ Len(kernel[g].cells) = 1
    <2>1. PICK b \in Byte : kernel[g] = [gen |-> NextGen(g),
                                         cells |-> <<Cell(b, 1)>>]
      OBVIOUS
    <2>2. <<Cell(b, 1)>> \in Seq(CellSet) /\ Len(<<Cell(b, 1)>>) = 1
      BY DEF Cell, CellSet
    <2>3. InOrder(<<Cell(b, 1)>>)
      BY DEF InOrder, Cell
    <2>4. NextGen(g) \in Generator
      BY GeneratorRound
    <2>5. /\ kernel[g] \in Result /\ kernel[g].gen = NextGen(g)
          /\ kernel[g].cells = <<Cell(b, 1)>>
      <3> DEFINE cells == <<Cell(b, 1)>>
      <3>1. cells \in Seq(CellSet) /\ kernel[g] = [gen |-> NextGen(g), cells |-> cells]
        BY <2>1, <2>2
      <3> HIDE DEF cells
      <3>2. /\ kernel[g] \in Result /\ kernel[g].gen = NextGen(g)
            /\ kernel[g].cells = cells
        BY <2>4, <3>1, ResultMade
      <3> QED
        BY <3>2 DEF cells
    <2> QED
      BY <2>2, <2>3, <2>5, OneRound DEF Ordered, On
  <1>2. kernel \in [Generator -> Result]
    BY <1>1
  <1> QED
    BY <1>1, <1>2 DEF Rounding, Ordered

(* One that delivers the byte of the stream.                               *)
LEMMA StreamByteLaw ==
    ASSUME NEW kernel, kernel = [g \in Generator |-> kernel[g]],
           \A g \in Generator :
              kernel[g] = [gen |-> NextGen(g),
                           cells |-> <<Cell(OutByte(NextGen(g)), 1)>>]
    PROVE  /\ kernel \in Rounding(1)
           /\ \A g \in Generator : kernel[g] \in Streaming(g)
  <1>1. \A g \in Generator : OutByte(NextGen(g)) \in Byte
    BY GeneratorRound, OutputIsByte
  <1>2. /\ kernel \in Rounding(1)
        /\ \A g \in Generator : kernel[g] \in Ordered(g)
    BY <1>1, SingleLaw
  <1>3. ASSUME NEW g \in Generator PROVE kernel[g] \in Streaming(g)
    <2>1. kernel[g].cells = <<Cell(OutByte(NextGen(g)), 1)>>
      OBVIOUS
    <2>2. <<Cell(OutByte(NextGen(g)), 1)>> = Streams(g, 1)
      BY OneRound DEF Streams
    <2>3. Len(kernel[g].cells) = 1
      BY <2>1
    <2> QED
      BY <1>2, <2>1, <2>2, <2>3 DEF Ordered, Streaming
  <1> QED
    BY <1>2, <1>3

LEMMA ByteArmLaw ==
    /\ ByteArm \in Rounding(1)
    /\ \A g \in Generator : ByteArm[g] \in Streaming(g)
  <1>1. ASSUME NEW g \in Generator
        PROVE  ByteArm[g] = [gen |-> NextGen(g),
                             cells |-> <<Cell(OutByte(NextGen(g)), 1)>>]
    BY RoundArmLaw DEF ByteArm
  <1>2. ByteArm = [g \in Generator |-> ByteArm[g]]
    BY DEF ByteArm
  <1> QED
    BY <1>1, <1>2, StreamByteLaw

LEMMA ByteDmaLaw ==
    /\ ByteDma \in Rounding(1)
    /\ \A g \in Generator : ByteDma[g] \in Streaming(g)
  <1>1. ASSUME NEW g \in Generator
        PROVE  ByteDma[g] = [gen |-> NextGen(g),
                             cells |-> <<Cell(OutByte(NextGen(g)), 1)>>]
    BY DEF ByteDma
  <1>2. ByteDma = [g \in Generator |-> ByteDma[g]]
    BY DEF ByteDma
  <1> QED
    BY <1>1, <1>2, StreamByteLaw

LEMMA ByteAsmLaw ==
    /\ ByteAsm \in Rounding(1)
    /\ \A g \in Generator : ByteAsm[g] \in Ordered(g)
  <1>1. ASSUME NEW g \in Generator
        PROVE  \E b \in Byte : ByteAsm[g] = [gen |-> NextGen(g),
                                             cells |-> <<Cell(b, 1)>>]
    <2> DEFINE h == NextGen(g)
               b == h.S[(h.i + h.j) % N]
    <2>1. h \in Generator /\ RoundArm(g).gen = h
      BY RoundArmLaw
    <2> HIDE DEF h
    <2>2. b \in Byte
      <3>1. h.S \in [Byte -> Byte] /\ h.i \in Int /\ h.j \in Int
        BY <2>1, BytesAreNumbers DEF Generator
      <3> QED
        BY <3>1, ModIsByte
    <2>3. ByteAsm[g] = [gen |-> h, cells |-> <<Cell(b, 1)>>]
      BY <2>1 DEF ByteAsm
    <2> QED
      BY <2>2, <2>3 DEF h
  <1>2. ByteAsm = [g \in Generator |-> ByteAsm[g]]
    BY DEF ByteAsm
  <1> QED
    BY <1>1, <1>2, SingleLaw

(* Four rounds in a row.                                                   *)
LEMMA FourLaw ==
    ASSUME NEW g \in Generator
    PROVE  \A k \in 1 .. 4 : /\ Four(g)[k].gen = Rounds(g, k)
                             /\ Rounds(g, k) \in Generator
                             /\ Four(g)[k].t \in Byte
                             /\ Four(g)[k].gen.S[Four(g)[k].t]
                                   = OutByte(Rounds(g, k))
  <1> DEFINE r1 == RoundArm(g)
             r2 == RoundArm(r1.gen)
             r3 == RoundArm(r2.gen)
             r4 == RoundArm(r3.gen)
  <1>1. Four(g) = <<r1, r2, r3, r4>>
    BY DEF Four
  <1>2. /\ Rounds(g, 1) = NextGen(g)
        /\ Rounds(g, 2) = NextGen(Rounds(g, 1))
        /\ Rounds(g, 3) = NextGen(Rounds(g, 2))
        /\ Rounds(g, 4) = NextGen(Rounds(g, 3))
    <2>1. /\ 1 + 1 = 2 /\ 2 + 1 = 3 /\ 3 + 1 = 4
          /\ 1 \in Nat /\ 2 \in Nat /\ 3 \in Nat
      OBVIOUS
    <2> QED
      BY <2>1, RoundsLaw, OneRound
  <1> HIDE DEF r1, r2, r3, r4
  <1>3. /\ r1.gen = Rounds(g, 1) /\ Rounds(g, 1) \in Generator
        /\ r1.t \in Byte /\ r1.gen.S[r1.t] = OutByte(Rounds(g, 1))
    BY <1>2, RoundArmLaw DEF r1
  <1>4. /\ r2.gen = Rounds(g, 2) /\ Rounds(g, 2) \in Generator
        /\ r2.t \in Byte /\ r2.gen.S[r2.t] = OutByte(Rounds(g, 2))
    BY <1>2, <1>3, RoundArmLaw DEF r2
  <1>5. /\ r3.gen = Rounds(g, 3) /\ Rounds(g, 3) \in Generator
        /\ r3.t \in Byte /\ r3.gen.S[r3.t] = OutByte(Rounds(g, 3))
    BY <1>2, <1>4, RoundArmLaw DEF r3
  <1>6. /\ r4.gen = Rounds(g, 4) /\ Rounds(g, 4) \in Generator
        /\ r4.t \in Byte /\ r4.gen.S[r4.t] = OutByte(Rounds(g, 4))
    BY <1>2, <1>5, RoundArmLaw DEF r4
  <1>7. \A k \in 1 .. 4 : k = 1 \/ k = 2 \/ k = 3 \/ k = 4
    OBVIOUS
  <1> QED
    BY <1>1, <1>3, <1>4, <1>5, <1>6, <1>7

(* A kernel of four rounds, whatever it does with the four bytes.          *)
LEMMA WordLaw ==
    ASSUME NEW kernel, kernel = [g \in Generator |-> kernel[g]],
           \A g \in Generator : \E cells \in Seq(CellSet) :
              /\ kernel[g] = [gen |-> Rounds(g, 4), cells |-> cells]
              /\ Len(cells) = 4
    PROVE  kernel \in Rounding(4)
  <1>1. ASSUME NEW g \in Generator
        PROVE  kernel[g] \in On(g) /\ Len(kernel[g].cells) = 4
    <2>1. PICK cells \in Seq(CellSet) :
             /\ kernel[g] = [gen |-> Rounds(g, 4), cells |-> cells]
             /\ Len(cells) = 4
      OBVIOUS
    <2>2. Rounds(g, 4) \in Generator
      BY RoundsLaw
    <2>3. /\ kernel[g] \in Result /\ kernel[g].gen = Rounds(g, 4)
          /\ kernel[g].cells = cells
      BY <2>1, <2>2, ResultMade
    <2> QED
      BY <2>1, <2>3 DEF On
  <1>2. \A g \in Generator : kernel[g] \in Result
    BY <1>1 DEF On
  <1>3. kernel \in [Generator -> Result]
    BY <1>2
  <1> QED
    BY <1>1, <1>3 DEF Rounding

LEMMA FourCells ==
    ASSUME NEW a \in Byte, NEW b \in Byte, NEW c \in Byte, NEW d \in Byte,
           NEW p \in Nat, NEW q \in Nat, NEW r \in Nat, NEW s \in Nat
    PROVE  LET cells == <<Cell(a, p), Cell(b, q), Cell(c, r), Cell(d, s)>>
           IN  cells \in Seq(CellSet) /\ Len(cells) = 4
  <1>1. /\ Cell(a, p) \in CellSet /\ Cell(b, q) \in CellSet
        /\ Cell(c, r) \in CellSet /\ Cell(d, s) \in CellSet
    BY DEF Cell, CellSet
  <1> QED
    BY <1>1

LEMMA Xor4ArmLaw == Xor4Arm \in Rounding(4)
  <1>1. ASSUME NEW g \in Generator
        PROVE  \E cells \in Seq(CellSet) :
                  /\ Xor4Arm[g] = [gen |-> Rounds(g, 4), cells |-> cells]
                  /\ Len(cells) = 4
    <2> DEFINE r == Four(g)
               b(k) == r[k].gen.S[r[k].t]
               cells == <<Cell(b(4), 4), Cell(b(3), 3), Cell(b(2), 2), Cell(b(1), 1)>>
    <2>1. \A k \in 1 .. 4 : b(k) \in Byte
      <3>1. \A k \in 1 .. 4 : r[k].gen.S \in [Byte -> Byte] /\ r[k].t \in Byte
        BY FourLaw DEF Generator
      <3> HIDE DEF r
      <3> QED
        BY <3>1
    <2>2. Xor4Arm[g] = [gen |-> r[4].gen, cells |-> cells]
      BY DEF Xor4Arm
    <2>3. r[4].gen = Rounds(g, 4)
      BY FourLaw
    <2> HIDE DEF r, b
    <2>4. cells \in Seq(CellSet) /\ Len(cells) = 4
      BY <2>1, FourCells
    <2> QED
      BY <2>2, <2>3, <2>4
  <1>2. Xor4Arm = [g \in Generator |-> Xor4Arm[g]]
    BY DEF Xor4Arm
  <1> QED
    BY <1>1, <1>2, WordLaw

(* The 4-byte kernel makes the four bytes of the stream, each for its own  *)
(* input byte, and delivers them in reverse, from every generator          *)
(* (arcfour_arm.c:47-78).  What it decrypts again it therefore combines    *)
(* with the keystream byte at the other end of the word.                   *)
THEOREM WordIsReversed ==
    ASSUME NEW g \in Generator, NEW k \in 1 .. 4
    PROVE  Xor4Arm[g].cells[k] = Cell(OutByte(Rounds(g, 5 - k)), 5 - k)
  <1> DEFINE b(m) == Four(g)[m].gen.S[Four(g)[m].t]
  <1>1. Xor4Arm[g].cells = <<Cell(b(4), 4), Cell(b(3), 3),
                             Cell(b(2), 2), Cell(b(1), 1)>>
    BY DEF Xor4Arm
  <1>2. b(1) = OutByte(Rounds(g, 1)) /\ b(2) = OutByte(Rounds(g, 2))
        /\ b(3) = OutByte(Rounds(g, 3)) /\ b(4) = OutByte(Rounds(g, 4))
    BY FourLaw
  <1> HIDE DEF b
  <1>3. k = 1 \/ k = 2 \/ k = 3 \/ k = 4
    OBVIOUS
  <1> QED
    BY <1>1, <1>2, <1>3

LEMMA QuarterArmLaw ==
    /\ QuarterArm \in Rounding(4)
    /\ \A g \in Generator : QuarterArm[g] \in Ordered(g)
  <1>1. ASSUME NEW g \in Generator
        PROVE  \E cells \in Seq(CellSet) :
                  /\ QuarterArm[g] = [gen |-> Rounds(g, 4), cells |-> cells]
                  /\ Len(cells) = 4 /\ InOrder(cells)
    <2> DEFINE r == Four(g)
               b(k) == r[4].gen.S[r[k].t]
               cells == <<Cell(b(1), 1), Cell(b(2), 2), Cell(b(3), 3), Cell(b(4), 4)>>
    <2>1. \A k \in 1 .. 4 : b(k) \in Byte
      <3>1. r[4].gen.S \in [Byte -> Byte] /\ \A k \in 1 .. 4 : r[k].t \in Byte
        BY FourLaw DEF Generator
      <3> HIDE DEF r
      <3> QED
        BY <3>1
    <2>2. QuarterArm[g] = [gen |-> r[4].gen, cells |-> cells]
      BY DEF QuarterArm
    <2>3. r[4].gen = Rounds(g, 4)
      BY FourLaw
    <2> HIDE DEF r, b
    <2>4. cells \in Seq(CellSet) /\ Len(cells) = 4
      BY <2>1, FourCells
    <2>5. InOrder(cells)
      BY DEF InOrder, Cell
    <2> QED
      BY <2>2, <2>3, <2>4, <2>5
  <1>2. QuarterArm = [g \in Generator |-> QuarterArm[g]]
    BY DEF QuarterArm
  <1>3. QuarterArm \in Rounding(4)
    BY <1>1, <1>2, WordLaw
  <1>4. ASSUME NEW g \in Generator PROVE QuarterArm[g] \in Ordered(g)
    BY <1>1, <1>3 DEF Ordered, Rounding
  <1> QED
    BY <1>3, <1>4

LEMMA Xor16ArmLaw ==
    /\ Xor16Arm \in Rounding(16)
    /\ \A g \in Generator : Xor16Arm[g] \in Ordered(g)
  <1>1. ASSUME NEW g \in Generator
        PROVE  /\ Xor16Arm[g] \in Ordered(g)
               /\ Len(Xor16Arm[g].cells) = 16
    <2>1. Xor16Arm[g] = Repeat(Before(g), QuarterArm, 4)
      BY DEF Xor16Arm
    <2>2. Repeat(Before(g), QuarterArm, 4) \in Ordered(g)
      BY BeforeLaw, QuarterArmLaw, RepeatOrdered
    <2>3. Len(Repeat(Before(g), QuarterArm, 4).cells) = 0 + 4 * 4
      BY BeforeLaw, QuarterArmLaw, RepeatLength
    <2> QED
      BY <2>1, <2>2, <2>3
  <1>2. Xor16Arm = [g \in Generator |-> Xor16Arm[g]]
    BY DEF Xor16Arm
  <1>3. \A g \in Generator : Xor16Arm[g] \in On(g) /\ Xor16Arm[g] \in Result
    BY <1>1 DEF Ordered, On
  <1>4. Xor16Arm \in [Generator -> Result]
    BY <1>2, <1>3
  <1> QED
    BY <1>1, <1>3, <1>4 DEF Rounding

LEMMA MoreOn ==
    ASSUME NEW w \in Nat, NEW kernel \in Rounding(w), NEW h \in Generator,
           NEW r \in On(h), NEW n \in Nat
    PROVE  /\ Repeat(r, kernel, n) \in On(h)
           /\ Len(Repeat(r, kernel, n).cells) = Len(r.cells) + n * w
  <1>1. r \in Result
    BY DEF On
  <1>2. Len(Repeat(r, kernel, n).cells) = Len(r.cells) + n * w
    BY <1>1, RepeatLength
  <1> QED
    BY <1>2, RepeatOn

LEMMA MoreStreaming ==
    ASSUME NEW w \in Nat, NEW kernel \in Rounding(w), NEW h \in Generator,
           \A g \in Generator : kernel[g] \in Streaming(g),
           NEW r \in Streaming(h), NEW n \in Nat
    PROVE  /\ Repeat(r, kernel, n) \in Streaming(h)
           /\ Len(Repeat(r, kernel, n).cells) = Len(r.cells) + n * w
  <1>1. r \in Result
    BY DEF On, Streaming
  <1>2. Len(Repeat(r, kernel, n).cells) = Len(r.cells) + n * w
    BY <1>1, RepeatLength
  <1> QED
    BY <1>2, RepeatStreaming

(* The chunks of arcfour_encrypt_arm cover the message.                    *)
LEMMA EncryptArmLaw ==
    ASSUME NEW g \in Generator, NEW n \in Nat
    PROVE  EncryptArm(g, n) \in On(g) /\ Len(EncryptArm(g, n).cells) = n
  <1> DEFINE a == n \div 16
             b == (n % 16) \div 4
             c == n % 4
             sixteens == Repeat(Before(g), Xor16Arm, a)
             fours == Repeat(sixteens, Xor4Arm, b)
             all == Repeat(fours, ByteArm, c)
  <1>1. a \in Nat /\ b \in Nat /\ c \in Nat /\ 16 * a + 4 * b + c = n
    OBVIOUS
  <1>2. EncryptArm(g, n) = all
    BY DEF EncryptArm
  <1> HIDE DEF a, b, c
  <1>3. sixteens \in On(g) /\ Len(sixteens.cells) = 0 + a * 16
    <2> DEFINE r == Before(g)
    <2>1. r \in On(g) /\ Len(r.cells) = 0 /\ Xor16Arm \in Rounding(16)
      BY BeforeLaw, Xor16ArmLaw
    <2> HIDE DEF r
    <2>2. /\ Repeat(r, Xor16Arm, a) \in On(g)
          /\ Len(Repeat(r, Xor16Arm, a).cells) = Len(r.cells) + a * 16
      <3>1. a \in Nat /\ 16 \in Nat
        BY <1>1
      <3> QED
        BY <2>1, <3>1, MoreOn
    <2> QED
      BY <2>1, <2>2 DEF r
  <1> HIDE DEF sixteens
  <1>4. fours \in On(g) /\ Len(fours.cells) = Len(sixteens.cells) + b * 4
    BY <1>1, <1>3, Xor4ArmLaw, MoreOn
  <1> HIDE DEF fours
  <1>5. all \in On(g) /\ Len(all.cells) = Len(fours.cells) + c * 1
    BY <1>1, <1>4, ByteArmLaw, MoreOn
  <1> HIDE DEF all
  <1> QED
    BY <1>1, <1>2, <1>3, <1>4, <1>5

LEMMA BytesLaw ==
    ASSUME NEW kernel \in Rounding(1), NEW g \in Generator, NEW n \in Nat
    PROVE  /\ Repeat(Before(g), kernel, n) \in On(g)
           /\ Len(Repeat(Before(g), kernel, n).cells) = n
           /\ (\A h \in Generator : kernel[h] \in Ordered(h)) =>
                 Repeat(Before(g), kernel, n) \in Ordered(g)
           /\ (\A h \in Generator : kernel[h] \in Streaming(h)) =>
                 Repeat(Before(g), kernel, n) \in Streaming(g)
  <1>1. 0 + n * 1 = n /\ 1 \in Nat
    OBVIOUS
  <1>2. Len(Repeat(Before(g), kernel, n).cells) = 0 + n * 1
    BY <1>1, BeforeLaw, RepeatLength
  <1>3. Repeat(Before(g), kernel, n) \in On(g)
    BY <1>1, BeforeLaw, RepeatOn
  <1>4. ASSUME \A h \in Generator : kernel[h] \in Ordered(h)
        PROVE  Repeat(Before(g), kernel, n) \in Ordered(g)
    BY <1>1, <1>4, BeforeLaw, RepeatOrdered
  <1>5. ASSUME \A h \in Generator : kernel[h] \in Streaming(h)
        PROVE  Repeat(Before(g), kernel, n) \in Streaming(g)
    BY <1>1, <1>5, BeforeLaw, RepeatStreaming
  <1> QED
    BY <1>1, <1>2, <1>3, <1>4, <1>5

(* The keystream that is prepared, in one piece or in chunks.              *)
LEMMA PreparedInChunks ==
    ASSUME NEW g \in Generator, NEW n \in Nat
    PROVE  \E q \in Streaming(g) :
              Len(q.cells) = n /\ PrepareKeystreamArm(g, n) = Keystream(q)
  <1> DEFINE Chunk == [h \in Generator |-> Repeat(Before(h), ByteArm, 4)]
             a == n \div 4
             c == n % 4
             chunks == Repeat(Before(g), Chunk, a)
             all == Repeat(chunks, ByteArm, c)
  <1>1. a \in Nat /\ c \in Nat /\ 4 * a + c = n
    OBVIOUS
  <1>2. PrepareKeystreamArm(g, n) = Keystream(all)
    BY DEF PrepareKeystreamArm
  <1>3. ASSUME NEW h \in Generator
        PROVE  Chunk[h] \in Streaming(h) /\ Len(Chunk[h].cells) = 4
    BY ByteArmLaw, BytesLaw
  <1>4. Chunk \in Rounding(4)
    <2>1. \A h \in Generator : Chunk[h] \in On(h) /\ Chunk[h] \in Result
      BY <1>3 DEF Streaming, On
    <2>2. Chunk = [h \in Generator |-> Chunk[h]]
      OBVIOUS
    <2> HIDE DEF Chunk
    <2>3. Chunk \in [Generator -> Result]
      BY <2>1, <2>2
    <2> QED
      BY <1>3, <2>1, <2>3 DEF Rounding
  <1> HIDE DEF a, c, Chunk
  <1>5. chunks \in Streaming(g) /\ Len(chunks.cells) = 0 + a * 4
    <2> DEFINE r == Before(g)
    <2>1. /\ r \in Streaming(g) /\ Len(r.cells) = 0
          /\ \A h \in Generator : Chunk[h] \in Streaming(h)
      BY <1>3, BeforeLaw
    <2> HIDE DEF r
    <2>2. /\ Repeat(r, Chunk, a) \in Streaming(g)
          /\ Len(Repeat(r, Chunk, a).cells) = Len(r.cells) + a * 4
      BY <1>1, <1>4, <2>1, MoreStreaming, ZenonT(60)
    <2> QED
      BY <2>1, <2>2 DEF r
  <1> HIDE DEF chunks
  <1>6. all \in Streaming(g) /\ Len(all.cells) = Len(chunks.cells) + c * 1
    BY <1>1, <1>5, ByteArmLaw, MoreStreaming
  <1> HIDE DEF all
  <1> QED
    BY <1>1, <1>2, <1>5, <1>6

LEMMA AppliedLaw ==
    ASSUME NEW g \in Generator, NEW n \in Nat, NEW q \in Streaming(g),
           Len(q.cells) = n
    PROVE  /\ Applied(Keystream(q), n, XorBytes).gen = Rounds(g, n)
           /\ Applied(Keystream(q), n, XorBytes).cells = Streams(g, n)
           /\ Applied(Keystream(q), n, XorWithKeystream).gen = Rounds(g, n)
           /\ Applied(Keystream(q), n, XorWithKeystream).cells = Streams(g, n)
  <1> DEFINE keystream == [k \in DOMAIN q.cells |-> q.cells[k].ks]
  <1>1. /\ q \in Result /\ q.gen = Rounds(g, n) /\ q.cells = Streams(g, n)
        /\ DOMAIN q.cells = 1 .. n
    BY ResultFields DEF Streaming, On
  <1>2. Keystream(q) = [gen |-> q.gen, keystream |-> keystream]
    BY DEF Keystream
  <1>3. \A k \in 1 .. n : Cell(keystream[k], k) = Cell(OutByte(Rounds(g, k)), k)
    BY <1>1 DEF Streams, Cell
  <1> HIDE DEF keystream
  <1>4. XorBytes(keystream, n) = Streams(g, n)
    BY <1>3 DEF XorBytes, Streams
  <1>5. XorWithKeystream(keystream, n) = Streams(g, n)
    <2> DEFINE words == {4 * w + b + 1 : w \in 0 .. (n \div 4) - 1, b \in 0 .. 3}
               rest == {4 * (n \div 4) + b : b \in 1 .. (n % 4)}
    <2>1. words \cup rest \subseteq 1 .. n
      <3> DEFINE q4 == n \div 4
                 r4 == n % 4
      <3>1. q4 \in Nat /\ r4 \in Nat /\ 4 * q4 + r4 = n
        OBVIOUS
      <3> HIDE DEF q4, r4
      <3>2. /\ \A w \in 0 .. q4 - 1, b \in 0 .. 3 : 4 * w + b + 1 \in 1 .. n
            /\ \A b \in 1 .. r4 : 4 * q4 + b \in 1 .. n
        BY <3>1
      <3> QED
        BY <3>2 DEF q4, r4
    <2>2. ASSUME NEW k \in 1 .. n PROVE k \in words \cup rest
      <3>1. CASE k <= 4 * (n \div 4)
        <4> DEFINE w == (k - 1) \div 4
                   b == (k - 1) % 4
        <4>1. w \in 0 .. (n \div 4) - 1 /\ b \in 0 .. 3 /\ k = 4 * w + b + 1
          BY <3>1
        <4> HIDE DEF w, b
        <4> QED
          BY <4>1
      <3>2. CASE k > 4 * (n \div 4)
        <4> DEFINE b == k - 4 * (n \div 4)
        <4>1. b \in 1 .. (n % 4) /\ k = 4 * (n \div 4) + b
          BY <3>2
        <4> HIDE DEF b
        <4> QED
          BY <4>1
      <3> QED
        BY <3>1, <3>2
    <2>3. words \cup rest = 1 .. n
      <3> HIDE DEF words, rest
      <3> QED
        BY <2>1, <2>2
    <2>4. XorWithKeystream(keystream, n)
             = [k \in words \cup rest |-> Cell(keystream[k], k)]
      BY DEF XorWithKeystream
    <2> HIDE DEF words, rest
    <2> QED
      BY <1>3, <2>3, <2>4 DEF Streams
  <1> QED
    BY <1>1, <1>2, <1>4, <1>5 DEF Applied

-----------------------------------------------------------------------------
(* The key schedule of the C kernels is that of the generator, for every   *)
(* key and width: the words of four bytes are the identity, and the rows   *)
(* are its rounds (arcfour_arm.c:4-25, arcfour_static.c:36-59).            *)
THEOREM ArmKeySchedule ==
    ASSUME NEW key \in Seq(Byte), Len(key) > 0
    PROVE  KsaArm(key) = KeyedSBox(key)
  <1> DEFINE V == [S : [Byte -> Byte], j : Byte, k : 0 .. N]
             filled == [b \in Byte |-> 4 * (b \div 4) + (b % 4)]
             row(r) == [S |-> KsaSwap(r.S, r.j, key, r.k),
                        j |-> KsaIndex(r.S, r.j, key, r.k),
                        k |-> r.k + 1]
             F == [r \in V |-> IF r.k = N THEN r ELSE row(r)]
             start == [S |-> Identity, j |-> 0, k |-> 0]
             at(m) == Turns(F, start, m)
             P == {m \in Nat : m <= N => KsaAt(key, m, at(m).S, at(m).j)
                                         /\ at(m).k = m}
  <1>1. filled = Identity
    <2>1. \A b \in Byte : 4 * (b \div 4) + (b % 4) = b
      BY BytesAreNumbers
    <2> QED
      BY <2>1 DEF Identity
  <1>2. start \in V
    BY IdentityPermutes, NAssumption, SMTT(30) DEF Byte
  <1>3. ASSUME NEW r \in V, r.k # N PROVE row(r) \in V
    <2>1. r.k \in Byte /\ r.k + 1 \in 0 .. N
      <3> DEFINE m == r.k
      <3>1. m \in 0 .. N /\ m # N
        BY <1>3
      <3> HIDE DEF m
      <3>2. m \in Byte /\ m + 1 \in 0 .. N
        BY <3>1, NAssumption DEF Byte
      <3> QED
        BY <3>2 DEF m
    <2>2. /\ KsaIndex(r.S, r.j, key, r.k) \in Byte
          /\ KsaSwap(r.S, r.j, key, r.k) \in [Byte -> Byte]
      BY <2>1, KsaRound
    <2> QED
      BY <2>1, <2>2
  <1>4. KsaArm(key) = Loops(F, [S |-> filled, j |-> 0, k |-> 0], N).S
    BY Zenon DEF KsaArm
  <1>5. KsaArm(key) = Loops(F, start, N).S
    BY <1>1, <1>4, Zenon
  <1> HIDE DEF row
  <1>6. F \in [V -> V]
    BY <1>3
  <1>7. \A r \in V : r.k # N => F[r] = row(r)
    OBVIOUS
  <1> HIDE DEF F, V
  <1>8. /\ at(0) = start
        /\ \A m \in Nat : at(m) \in V /\ at(m + 1) = F[at(m)]
    BY <1>2, <1>6, TurnsLaw
  <1>9. N \in Nat
    BY NAssumption
  <1>10. KsaArm(key) = at(N).S
    BY <1>2, <1>5, <1>6, <1>9, LoopsTurn
  <1> HIDE DEF at
  <1>11. 0 \in P
    BY <1>8, KsaAtStart
  <1>12. ASSUME NEW m \in Nat, m \in P PROVE m + 1 \in P
    <2> SUFFICES ASSUME m + 1 <= N
                 PROVE  /\ KsaAt(key, m + 1, at(m + 1).S, at(m + 1).j)
                        /\ at(m + 1).k = m + 1
      OBVIOUS
    <2>1. m \in Byte /\ m <= N /\ m # N
      BY <1>9 DEF Byte
    <2>2. KsaAt(key, m, at(m).S, at(m).j) /\ at(m).k = m
      BY <1>12, <2>1
    <2>3. at(m + 1) = row(at(m))
      BY <1>7, <1>8, <2>1, <2>2
    <2>4. /\ at(m + 1).S = KsaSwap(at(m).S, at(m).j, key, m)
          /\ at(m + 1).j = KsaIndex(at(m).S, at(m).j, key, m)
          /\ at(m + 1).k = m + 1
      BY <2>2, <2>3 DEF row
    <2> QED
      BY <2>1, <2>2, <2>4, KsaAtStep
  <1>13. Nat \subseteq P
    <2> HIDE DEF P
    <2> QED
      BY <1>11, <1>12, Induction
  <1>14. KsaAt(key, N, at(N).S, at(N).j)
    BY <1>9, <1>13
  <1> QED
    BY <1>10, <1>14, KsaAtEnd

(* What the kernels deliver.                                               *)
LEMMA StreamsLaw ==
    ASSUME NEW g \in Generator, NEW n \in Nat
    PROVE  /\ Len(Streams(g, n)) = n /\ DOMAIN Streams(g, n) = 1 .. n
           /\ InOrder(Streams(g, n))
  BY DEF Streams, InOrder, Cell

(* A kernel's result r for n bytes of input.                               *)
Sound(kernel, g, n, r) ==
    /\ r.gen = Rounds(g, n)
    /\ Len(r.cells) = n /\ DOMAIN r.cells = 1 .. n
    /\ kernel \in Faithful => r.cells = Streams(g, n)
    /\ kernel \in {"xor16", "asm", "thumb2"} => InOrder(r.cells)

LEMMA OnSound ==
    ASSUME NEW g \in Generator, NEW n \in Nat, NEW kernel, NEW r \in On(g),
           Len(r.cells) = n,
           \/ kernel \in {"xor4", "bulk"}
           \/ kernel \in {"xor16", "asm", "thumb2"} /\ r \in Ordered(g)
           \/ r \in Streaming(g)
    PROVE  Sound(kernel, g, n, r)
  <1>1. r.gen = Rounds(g, n) /\ r \in Result
    BY DEF On
  <1>2. Len(r.cells) = n /\ DOMAIN r.cells = 1 .. n
    BY <1>1, ResultFields
  <1>3. CASE kernel \in {"xor4", "bulk"}
    BY <1>1, <1>2, <1>3 DEF Sound, Faithful
  <1>4. CASE kernel \in {"xor16", "asm", "thumb2"} /\ r \in Ordered(g)
    BY <1>1, <1>2, <1>4 DEF Sound, Faithful, Ordered
  <1>5. CASE r \in Streaming(g)
    <2>1. r.cells = Streams(g, n)
      BY <1>5 DEF Streaming
    <2>2. InOrder(r.cells)
      BY <2>1, StreamsLaw
    <2> QED
      BY <1>1, <1>2, <2>1, <2>2 DEF Sound
  <1> QED
    BY <1>3, <1>4, <1>5

LEMMA AppliedSound ==
    ASSUME NEW g \in Generator, NEW n \in Nat, NEW kernel, NEW r,
           r.gen = Rounds(g, n), r.cells = Streams(g, n)
    PROVE  Sound(kernel, g, n, r)
  BY StreamsLaw DEF Sound

LEMMA DeliversLaw ==
    ASSUME NEW g \in Generator, NEW n \in Nat, NEW kernel \in Kernels,
           Takes(kernel, n)
    PROVE  Sound(kernel, g, n, Delivers(kernel, g, n))
  <1>1. CASE kernel = "loop"
    <2>1. /\ EncryptDma(g, n) \in Streaming(g) /\ EncryptDma(g, n) \in On(g)
          /\ Len(EncryptDma(g, n).cells) = n
      BY ByteDmaLaw, BytesLaw DEF EncryptDma
    <2>2. Delivers(kernel, g, n) = EncryptDma(g, n)
      BY <1>1 DEF Delivers
    <2> QED
      BY <2>1, <2>2, OnSound
  <1>2. CASE kernel = "byte"
    <2> DEFINE r == Repeat(Before(g), ByteArm, n)
    <2>1. r \in Streaming(g) /\ r \in On(g) /\ Len(r.cells) = n
      BY ByteArmLaw, BytesLaw
    <2>2. Delivers(kernel, g, n) = r
      BY <1>2 DEF Delivers
    <2> HIDE DEF r
    <2> QED
      BY <2>1, <2>2, OnSound
  <1>3. CASE kernel = "xor4"
    <2>1. Xor4Arm[g] \in On(g) /\ Len(Xor4Arm[g].cells) = 4 /\ n = 4
      BY <1>3, Xor4ArmLaw DEF Rounding, Takes
    <2>2. Delivers(kernel, g, n) = Xor4Arm[g]
      BY <1>3 DEF Delivers
    <2> QED
      BY <1>3, <2>1, <2>2, OnSound
  <1>4. CASE kernel = "xor16"
    <2>1. /\ Xor16Arm[g] \in On(g) /\ Xor16Arm[g] \in Ordered(g)
          /\ Len(Xor16Arm[g].cells) = 16 /\ n = 16
      BY <1>4, Xor16ArmLaw DEF Rounding, Takes
    <2>2. Delivers(kernel, g, n) = Xor16Arm[g]
      BY <1>4 DEF Delivers
    <2> QED
      BY <1>4, <2>1, <2>2, OnSound
  <1>5. CASE kernel = "bulk"
    <2>1. Delivers(kernel, g, n) = EncryptArm(g, n)
      BY <1>5 DEF Delivers
    <2> QED
      BY <1>5, <2>1, EncryptArmLaw, OnSound
  <1>6. CASE kernel \in {"asm", "thumb2"}
    <2> DEFINE r == Repeat(Before(g), ByteAsm, n)
    <2>1. r \in Ordered(g) /\ r \in On(g) /\ Len(r.cells) = n
      BY ByteAsmLaw, BytesLaw
    <2>2. Delivers(kernel, g, n) = r
      BY <1>6 DEF Delivers, ByteThumb2
    <2> HIDE DEF r
    <2> QED
      BY <1>6, <2>1, <2>2, OnSound
  <1>7. CASE kernel = "block"
    <2> DEFINE r == Repeat(Before(g), ByteArm, n)
    <2>1. r \in Streaming(g) /\ r \in On(g) /\ Len(r.cells) = n
      BY ByteArmLaw, BytesLaw
    <2>2. Delivers(kernel, g, n) = r
      BY <1>7 DEF Delivers, EncryptBlockAsm, Takes
    <2> HIDE DEF r
    <2> QED
      BY <2>1, <2>2, OnSound
  <1>8. CASE kernel = "keystream"
    <2> DEFINE q == Repeat(Before(g), ByteArm, n)
    <2>1. q \in Streaming(g) /\ Len(q.cells) = n
      BY ByteArmLaw, BytesLaw
    <2>2. PrepareKeystream(g, n) = Keystream(q)
      BY DEF PrepareKeystream
    <2> HIDE DEF q
    <2>3. /\ Delivers(kernel, g, n).gen = Rounds(g, n)
          /\ Delivers(kernel, g, n).cells = Streams(g, n)
      BY <1>8, <2>1, <2>2, AppliedLaw DEF Delivers, Applied
    <2> QED
      BY <2>3, AppliedSound
  <1>9. CASE kernel = "keystream_arm"
    <2>1. PICK q \in Streaming(g) :
             Len(q.cells) = n /\ PrepareKeystreamArm(g, n) = Keystream(q)
      BY PreparedInChunks
    <2>2. /\ Delivers(kernel, g, n).gen = Rounds(g, n)
          /\ Delivers(kernel, g, n).cells = Streams(g, n)
      BY <1>9, <2>1, AppliedLaw DEF Delivers, Applied
    <2> QED
      BY <2>2, AppliedSound
  <1> QED
    BY <1>1, <1>2, <1>3, <1>4, <1>5, <1>6, <1>7, <1>8, <1>9 DEF Kernels

-----------------------------------------------------------------------------
(* The two hosts.  The receiver is as far in the stream as the messages    *)
(* that it has decrypted, and the sender one message further, if one is on *)
(* its way; and that message is what its kernel makes of the receiver's    *)
(* generator, which is the one that the sender had when it began.          *)
HostInv ==
    /\ began \in Nat /\ Len(got) \in Nat /\ Len(sent.cells) \in Nat
    /\ receiver = After(KeyedSBox(Key), began + Len(got))
    /\ sender = Rounds(receiver, Len(sent.cells))
    /\ sent # Nothing =>
          /\ got = <<>>
          /\ sent.kernel \in Kernels /\ Takes(sent.kernel, Len(sent.cells))
          /\ sent.cells =
                Delivers(sent.kernel, receiver, Len(sent.cells)).cells

LEMMA KeyedType == KeyedSBox(Key) \in [Byte -> Byte]
  BY HostsAssumption, KeyedSBoxType

LEMMA AfterSum ==
    ASSUME NEW m \in Nat, NEW n \in Nat
    PROVE  /\ After(KeyedSBox(Key), m) \in Generator
           /\ After(KeyedSBox(Key), m + n)
                 = Rounds(After(KeyedSBox(Key), m), n)
  <1> DEFINE S == KeyedSBox(Key)
  <1>1. S \in [Byte -> Byte]
    BY KeyedType
  <1> HIDE DEF S
  <1>2. Started(S) \in Generator /\ m + n \in Nat
    BY <1>1, StartedType
  <1>3. /\ After(S, m) = Rounds(Started(S), m)
        /\ After(S, m + n) = Rounds(Started(S), m + n)
    BY <1>1, <1>2, AfterIsRounds
  <1>4. After(S, m) \in Generator
    BY <1>1, AfterRounds
  <1> QED
    BY <1>2, <1>3, <1>4, RoundsLaw DEF S

(* In a state of the invariant both generators are generators, and the     *)
(* hosts agree when no message is on its way.                              *)
LEMMA HostGenerators ==
    ASSUME HostInv
    PROVE  /\ receiver \in Generator /\ sender \in Generator
           /\ sent = Nothing => sender = receiver
  <1>1. began + Len(got) \in Nat /\ Len(sent.cells) \in Nat
    BY DEF HostInv
  <1>2. receiver \in Generator
    BY <1>1, AfterRounds, KeyedType DEF HostInv
  <1>3. sender \in Generator
    BY <1>1, <1>2, RoundsLaw DEF HostInv
  <1>4. ASSUME sent = Nothing PROVE sender = receiver
    <2>1. Len(sent.cells) = 0
      BY <1>4 DEF Nothing
    <2> QED
      BY <1>2, <2>1, RoundsLaw DEF HostInv
  <1> QED
    BY <1>2, <1>3, <1>4

LEMMA HostStart == HostInit => HostInv
  <1> SUFFICES ASSUME HostInit PROVE HostInv
    OBVIOUS
  <1> DEFINE S == KeyedSBox(Key)
             r == Repeat(Before(Started(S)), ByteArm, Dropped)
  <1>1. KsaArm(Key) = S /\ Dropped \in Nat
    BY HostsAssumption, ArmKeySchedule
  <1>2. S \in [Byte -> Byte] /\ Started(S) \in Generator
    BY KeyedType, StartedType
  <1>3. r \in On(Started(S)) /\ Len(r.cells) = Dropped
    BY <1>1, <1>2, ByteArmLaw, BytesLaw
  <1>4. sender = r.gen /\ receiver = sender
    BY <1>1 DEF HostInit
  <1> HIDE DEF r
  <1>5. r.gen = After(S, Dropped)
    BY <1>1, <1>2, <1>3, AfterIsRounds DEF On
  <1> HIDE DEF S
  <1>6. After(S, Dropped) \in Generator
    BY <1>1, <1>2, AfterRounds
  <1>7. /\ began = Dropped /\ sent = Nothing /\ got = <<>>
        /\ sent.cells = <<>> /\ Len(got) = 0 /\ Len(sent.cells) = 0
    BY DEF HostInit, Nothing
  <1>8. began + Len(got) = Dropped
    BY <1>1, <1>7
  <1>9. sender = Rounds(receiver, Len(sent.cells))
    BY <1>4, <1>5, <1>6, <1>7, RoundsLaw
  <1> QED
    BY <1>1, <1>4, <1>5, <1>7, <1>8, <1>9 DEF HostInv, S

LEMMA HostEncrypts ==
    ASSUME HostInv, NEW kernel \in Kernels, NEW n \in MessageLengths,
           Encrypts(kernel, n)
    PROVE  HostInv'
  <1> DEFINE r == Delivers(kernel, sender, n)
  <1>1. /\ sent = Nothing /\ Takes(kernel, n) /\ n \in Nat
        /\ began' = began + Len(got) /\ got' = <<>> /\ receiver' = receiver
        /\ sender' = r.gen /\ sent' = [kernel |-> kernel, cells |-> r.cells]
    BY HostsAssumption DEF Encrypts
  <1>2. receiver \in Generator /\ sender = receiver
    BY <1>1, HostGenerators
  <1>3. r.gen = Rounds(receiver, n) /\ Len(r.cells) = n
    BY <1>1, <1>2, DeliversLaw DEF Sound
  <1>4. r.cells = Delivers(kernel, receiver, n).cells
    BY <1>2
  <1> HIDE DEF r
  <1>5. sent'.kernel = kernel /\ sent'.cells = r.cells /\ Len(sent'.cells) = n
    BY <1>1, <1>3
  <1>6. /\ began' \in Nat /\ Len(got') = 0
        /\ began' + Len(got') = began + Len(got)
    BY <1>1 DEF HostInv
  <1>7. receiver' = After(KeyedSBox(Key), began' + Len(got'))
    BY <1>1, <1>6 DEF HostInv
  <1> QED
    BY <1>1, <1>3, <1>4, <1>5, <1>6, <1>7 DEF HostInv

LEMMA HostDecrypts ==
    ASSUME HostInv, NEW kernel \in Kernels, Decrypts(kernel)
    PROVE  HostInv'
  <1> DEFINE n == Len(sent.cells)
             r == Delivers(kernel, receiver, n)
  <1>1. /\ sent # Nothing /\ Takes(kernel, n)
        /\ receiver' = r.gen /\ got' = r.cells
        /\ sent' = Nothing /\ sender' = sender /\ began' = began
    BY DEF Decrypts
  <1>2. n \in Nat /\ got = <<>> /\ began \in Nat
    BY <1>1 DEF HostInv
  <1>3. receiver \in Generator
    BY HostGenerators
  <1> HIDE DEF n
  <1>4. r.gen = Rounds(receiver, n) /\ Len(r.cells) = n
    BY <1>1, <1>2, <1>3, DeliversLaw DEF Sound
  <1> HIDE DEF r
  <1>5. Len(got') = n /\ Len(got) = 0
    BY <1>1, <1>2, <1>4
  <1>6. receiver = After(KeyedSBox(Key), began)
    <2>1. began + Len(got) = began
      BY <1>2, <1>5
    <2> QED
      BY <2>1 DEF HostInv
  <1>7. receiver' = After(KeyedSBox(Key), began' + Len(got'))
    BY <1>1, <1>2, <1>4, <1>5, <1>6, AfterSum
  <1>8. receiver' \in Generator
    BY <1>1, <1>2, <1>3, <1>4, RoundsLaw
  <1>9. sender' = receiver' /\ Len(sent'.cells) = 0
    BY <1>1, <1>4 DEF HostInv, Nothing, n
  <1>10. sender' = Rounds(receiver', Len(sent'.cells))
    BY <1>8, <1>9, RoundsLaw
  <1> QED
    BY <1>1, <1>2, <1>5, <1>7, <1>9, <1>10 DEF HostInv

LEMMA HostSteps == HostInv /\ [HostNext]_hostVars => HostInv'
  <1> SUFFICES ASSUME HostInv, [HostNext]_hostVars PROVE HostInv'
    OBVIOUS
  <1>1. CASE \E kernel \in Kernels, n \in MessageLengths : Encrypts(kernel, n)
    BY <1>1, HostEncrypts
  <1>2. CASE \E kernel \in Kernels : Decrypts(kernel)
    BY <1>2, HostDecrypts
  <1>3. CASE UNCHANGED hostVars
    BY <1>3 DEF HostInv, hostVars
  <1> QED
    BY <1>1, <1>2, <1>3 DEF HostNext

LEMMA HostsInvariant == HostSpec => []HostInv
  BY HostStart, HostSteps, PTL DEF HostSpec

(* After every message the two hosts are in step, whichever kernels they   *)
(* took, for every key and all message lengths (arcfour_arm.c:27-144,      *)
(* arcfour_arm.S:24-79, arcfour_dma.c:85-148, arcfour_dma_arm.c:98-140).   *)
THEOREM HostsInStep == HostSpec => []InStep
  <1>1. HostInv => InStep
    BY HostGenerators DEF InStep
  <1> QED
    BY <1>1, HostsInvariant, PTL

(* Where the hosts are in the stream, and what is on its way: between      *)
(* messages, the generator after all rounds so far; and in a message of a  *)
(* faithful kernel, byte for byte the stream of the key, each byte for its *)
(* own input byte.                                                         *)
OnStream ==
    /\ sent = Nothing =>
          receiver = After(KeyedSBox(Key), began + Len(got))
    /\ sent.kernel \in Faithful =>
          \A k \in DOMAIN sent.cells :
             sent.cells[k] = Cell(StreamByte(KeyedSBox(Key), began + k), k)

(* The faithful kernels deliver the stream of arcfour_static.c:61-80, for  *)
(* every key, at every place of it and in messages of all lengths          *)
(* (arcfour_arm.c:27-45, arcfour_arm.S:52-79, arcfour_dma.c:98-148,        *)
(* arcfour_dma_arm.c:98-181).                                              *)
THEOREM FaithfulOnStream == HostSpec => []OnStream
  <1>1. ASSUME HostInv PROVE OnStream
    <2>1. sent = Nothing => receiver = After(KeyedSBox(Key), began + Len(got))
      BY <1>1 DEF HostInv
    <2>2. ASSUME sent.kernel \in Faithful, NEW k \in DOMAIN sent.cells
          PROVE  sent.cells[k] = Cell(StreamByte(KeyedSBox(Key), began + k), k)
      <3> DEFINE n == Len(sent.cells)
                 r == Delivers(sent.kernel, receiver, n)
      <3>1. sent # Nothing
        BY <2>2 DEF Nothing, Faithful
      <3>2. /\ began \in Nat /\ n \in Nat /\ got = <<>>
            /\ sent.kernel \in Kernels /\ Takes(sent.kernel, n)
            /\ sent.cells = r.cells
        BY <1>1, <3>1 DEF HostInv
      <3>3. receiver \in Generator
        BY <1>1, HostGenerators
      <3> HIDE DEF n
      <3>4. DOMAIN r.cells = 1 .. n /\ r.cells = Streams(receiver, n)
        BY <2>2, <3>2, <3>3, DeliversLaw DEF Sound
      <3> HIDE DEF r
      <3>5. k \in 1 .. n /\ k \in Nat
        BY <2>2, <3>2, <3>4
      <3>6. receiver = After(KeyedSBox(Key), began)
        <4>1. Len(got) = 0
          BY <3>2
        <4>2. began + Len(got) = began
          BY <3>2, <4>1
        <4> QED
          BY <1>1, <4>2 DEF HostInv
      <3>7. Rounds(receiver, k) = After(KeyedSBox(Key), began + k)
        BY <3>2, <3>5, <3>6, AfterSum
      <3>8. sent.cells[k] = Cell(OutByte(Rounds(receiver, k)), k)
        BY <3>2, <3>4, <3>5 DEF Streams
      <3> QED
        BY <3>7, <3>8 DEF StreamByte
    <2> QED
      BY <2>1, <2>2 DEF OnStream
  <1> QED
    BY <1>1, HostsInvariant, PTL

(* What the receiver makes of a message is what was sent, whenever both    *)
(* took faithful kernels, in any mixture, or both the same of those that   *)
(* keep the order (arcfour_arm.c:27-45, 80-117, arcfour_arm.S:24-79,       *)
(* arcfour_dma.c:118-148, arcfour_dma_arm.c:98-140).                       *)
THEOREM MessagesAreRestored == HostSpec => MessagesRestored
  <1>1. ASSUME HostInv, NEW kernel \in Kernels, Decrypts(kernel),
               Restorable(sent.kernel, kernel)
        PROVE  Restores
    <2> DEFINE n == Len(sent.cells)
               r == Delivers(kernel, receiver, n)
               s == Delivers(sent.kernel, receiver, n)
    <2>1. sent # Nothing /\ Takes(kernel, n) /\ got' = r.cells
      BY <1>1 DEF Decrypts
    <2>2. /\ n \in Nat /\ sent.kernel \in Kernels /\ Takes(sent.kernel, n)
          /\ sent.cells = s.cells
      BY <1>1, <2>1 DEF HostInv
    <2>3. receiver \in Generator
      BY <1>1, HostGenerators
    <2> HIDE DEF n
    <2>4. Sound(kernel, receiver, n, r) /\ Sound(sent.kernel, receiver, n, s)
      BY <2>1, <2>2, <2>3, DeliversLaw
    <2>5. r.cells = s.cells /\ InOrder(s.cells)
      <3>1. CASE {sent.kernel, kernel} \subseteq Faithful
        <4>1. r.cells = Streams(receiver, n) /\ s.cells = Streams(receiver, n)
          BY <2>4, <3>1 DEF Sound
        <4> QED
          BY <2>2, <2>3, <4>1, StreamsLaw
      <3>2. CASE /\ sent.kernel = kernel
                 /\ sent.kernel \in {"xor16", "asm", "thumb2"}
        <4>1. InOrder(s.cells)
          BY <2>4, <3>2 DEF Sound
        <4> QED
          BY <3>2, <4>1
      <3> QED
        BY <1>1, <3>1, <3>2 DEF Restorable
    <2>6. got' = sent.cells /\ InOrder(sent.cells)
      BY <2>1, <2>2, <2>5
    <2> QED
      BY <2>6 DEF Restores, Restored, InOrder
  <1>2. HostInv => \A kernel \in Kernels :
            Decrypts(kernel) /\ Restorable(sent.kernel, kernel) => Restores
    BY <1>1
  <1> QED
    BY <1>2, HostsInvariant, PTL DEF MessagesRestored
=============================================================================
