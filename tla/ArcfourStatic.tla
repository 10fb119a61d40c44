--------------------------- MODULE ArcfourStatic ---------------------------
(***************************************************************************)
(* The contexts of arcfour_static.c and the heap wrappers of arcfour.c.    *)
(*                                                                         *)
(* A call on a context runs one loop iteration per step, so calls on       *)
(* different contexts (different threads, a task and an interrupt)         *)
(* interleave in every order; two calls on one context do not overlap:     *)
(* these functions take no lock, their caller serialises them.             *)
(*                                                                         *)
(* Plaintext is left out: ciphertext[i] is plaintext[i] ^ keystream, so    *)
(* the keystream byte is what the code decides, and out records it.        *)
(* decrypt is the same function as encrypt (lines 173-176).                *)
(***************************************************************************)
EXTENDS Rc4

CONSTANTS
    Ctx,        \* all contexts
    Heap,       \* those that arcfour_init allocates; the others are in .bss
    Keys,       \* the keys in use, none of them empty
    Discard,    \* DISCARD_BYTES
    Lengths,    \* the lengths that encrypt and skip are called with
    MaxPos      \* bound: no call goes past this many bytes after a start

ASSUME CtxAssumption == Heap \subseteq Ctx

ASSUME KeysAssumption == \A key \in Keys : key \in Seq(Byte) /\ Len(key) > 0

ASSUME DiscardAssumption == Discard \in Nat

ASSUME BoundAssumption == Lengths \subseteq Nat /\ MaxPos \in Nat

VARIABLES
    gen,          \* gen[c]: the fields S, i and j of the context
    initialized,  \* initialized[c]: its flag
    live,         \* the heap contexts that have been allocated
    call,         \* call[c]: the function running on c and its loop counter
    base,         \* history: the S-box when i and j were last set to zero
    pos,          \* history: generator rounds since then
    out           \* history: the last keystream byte c delivered

vars == <<gen, initialized, live, call, base, pos, out>>

NoByte == -1

Ops == {"idle", "ksa", "discard", "restart", "emit", "skip"}

Idle == [op |-> "idle", k |-> 0, n |-> 0, j |-> 0, key |-> <<>>]

Loop(op, n) == [op |-> op, k |-> 0, n |-> n, j |-> 0, key |-> <<>>]

Init ==
    /\ gen = [c \in Ctx |-> Started(Zeros)]
    /\ initialized = [c \in Ctx |-> 0]
    /\ live = {}
    /\ call = [c \in Ctx |-> Idle]
    /\ base = [c \in Ctx |-> Zeros]
    /\ pos = [c \in Ctx |-> 0]
    /\ out = [c \in Ctx |-> NoByte]

(* The application holds a pointer to c and nothing is running on it. *)
Usable(c) == call[c].op = "idle" /\ (c \in Heap => c \in live)

AtEnd(c) == call[c].k = call[c].n

Tick(c) == call' = [call EXCEPT ![c].k = @ + 1]

-----------------------------------------------------------------------------
(* Keying: arcfour_init_static, and arcfour_init around it.                *)

(* i = j = 0 and the identity fill; the loop of the key schedule follows.  *)
BeginKsa(c, key) ==
    /\ gen' = [gen EXCEPT ![c] = Started(Identity)]
    /\ call' = [call EXCEPT ![c] =
                   [op |-> "ksa", k |-> 0, n |-> N, j |-> 0, key |-> key]]
    /\ pos' = [pos EXCEPT ![c] = 0]
    /\ UNCHANGED <<base, out>>

InitStatic(c, key) ==
    /\ Usable(c)
    /\ BeginKsa(c, key)
    /\ UNCHANGED <<initialized, live>>

(* malloc does not clear the block: the flag may start with any value.     *)
InitHeap(c, key) ==
    /\ c \in Heap \ live
    /\ \E garbage \in {0, 1} :
          initialized' = [initialized EXCEPT ![c] = garbage]
    /\ live' = live \cup {c}
    /\ BeginKsa(c, key)

KsaStep(c) ==
    LET r == call[c]
        S == gen[c].S
    IN  /\ r.op = "ksa" /\ ~AtEnd(c)
        /\ gen' = [gen EXCEPT ![c].S = KsaSwap(S, r.j, r.key, r.k)]
        /\ call' = [call EXCEPT ![c].j = KsaIndex(S, r.j, r.key, r.k),
                                ![c].k = @ + 1]
        /\ UNCHANGED <<initialized, live, base, pos, out>>

KsaDone(c) ==
    /\ call[c].op = "ksa" /\ AtEnd(c)
    /\ call' = [call EXCEPT ![c] = Loop("discard", Discard)]
    /\ base' = [base EXCEPT ![c] = gen[c].S]
    /\ UNCHANGED <<gen, initialized, live, pos, out>>

(* discard_initial_static, for a new key and for a reset alike.            *)
DiscardStep(c) ==
    /\ call[c].op \in {"discard", "restart"} /\ ~AtEnd(c)
    /\ gen' = [gen EXCEPT ![c] = NextGen(@)]
    /\ pos' = [pos EXCEPT ![c] = @ + 1]
    /\ Tick(c)
    /\ UNCHANGED <<initialized, live, base, out>>

(* The flag is the last thing arcfour_init_static writes.                  *)
InitDone(c) ==
    /\ call[c].op = "discard" /\ AtEnd(c)
    /\ initialized' = [initialized EXCEPT ![c] = 1]
    /\ call' = [call EXCEPT ![c] = Idle]
    /\ UNCHANGED <<gen, live, base, pos, out>>

-----------------------------------------------------------------------------
(* Using a context.                                                        *)

BeginEncrypt(c, n) ==
    /\ Usable(c) /\ initialized[c] = 1
    /\ pos[c] + n <= MaxPos
    /\ call' = [call EXCEPT ![c] = Loop("emit", n)]
    /\ UNCHANGED <<gen, initialized, live, base, pos, out>>

(* Mutant: the output is read before the round is made.                    *)
EncryptStepStale(c) ==
    /\ call[c].op = "emit" /\ ~AtEnd(c)
    /\ gen' = [gen EXCEPT ![c] = NextGen(@)]
    /\ out' = [out EXCEPT ![c] = OutByte(gen[c])]
    /\ pos' = [pos EXCEPT ![c] = @ + 1]
    /\ Tick(c)
    /\ UNCHANGED <<initialized, live, base>>

EncryptStep(c) ==
    /\ call[c].op = "emit" /\ ~AtEnd(c)
    /\ gen' = [gen EXCEPT ![c] = NextGen(@)]
    /\ out' = [out EXCEPT ![c] = OutByte(gen'[c])]
    /\ pos' = [pos EXCEPT ![c] = @ + 1]
    /\ Tick(c)
    /\ UNCHANGED <<initialized, live, base>>

BeginSkip(c, n) ==
    /\ Usable(c) /\ initialized[c] = 1
    /\ pos[c] + n <= MaxPos
    /\ call' = [call EXCEPT ![c] = Loop("skip", n)]
    /\ UNCHANGED <<gen, initialized, live, base, pos, out>>

SkipStep(c) ==
    /\ call[c].op = "skip" /\ ~AtEnd(c)
    /\ gen' = [gen EXCEPT ![c] = NextGen(@)]
    /\ pos' = [pos EXCEPT ![c] = @ + 1]
    /\ Tick(c)
    /\ UNCHANGED <<initialized, live, base, out>>

(* Mutants: the indices are not reset; the discard is left out.            *)
ResetKeepsIndices(c) ==
    /\ Usable(c)
    /\ base' = [base EXCEPT ![c] = gen[c].S]
    /\ pos' = [pos EXCEPT ![c] = 0]
    /\ call' = [call EXCEPT ![c] = Loop("restart", Discard)]
    /\ UNCHANGED <<gen, initialized, live, out>>

ResetWithoutDiscard(c) ==
    /\ Usable(c)
    /\ gen' = [gen EXCEPT ![c] = Started(gen[c].S)]
    /\ base' = [base EXCEPT ![c] = gen[c].S]
    /\ pos' = [pos EXCEPT ![c] = 0]
    /\ UNCHANGED <<call, initialized, live, out>>

(* arcfour_reset_static tests the pointer only: it runs on a cleared       *)
(* context too, and leaves the flag as it finds it.                        *)
BeginReset(c) ==
    /\ Usable(c)
    /\ gen' = [gen EXCEPT ![c] = Started(gen[c].S)]
    /\ base' = [base EXCEPT ![c] = gen[c].S]
    /\ pos' = [pos EXCEPT ![c] = 0]
    /\ call' = [call EXCEPT ![c] = Loop("restart", Discard)]
    /\ UNCHANGED <<initialized, live, out>>

Return(c) ==
    /\ call[c].op \in {"emit", "skip", "restart"} /\ AtEnd(c)
    /\ call' = [call EXCEPT ![c] = Idle]
    /\ UNCHANGED <<gen, initialized, live, base, pos, out>>

(* arcfour_uninit_static; arcfour_uninit also frees a heap context.        *)
Uninit(c) ==
    /\ Usable(c)
    /\ gen' = [gen EXCEPT ![c] = Started(Zeros)]
    /\ initialized' = [initialized EXCEPT ![c] = 0]
    /\ live' = live \ {c}
    /\ pos' = [pos EXCEPT ![c] = 0]
    /\ base' = [base EXCEPT ![c] = Zeros]
    /\ UNCHANGED <<call, out>>

(* Mutant: a copy field by field that forgets j.                           *)
CopyWithoutJ(d, s) ==
    /\ d # s /\ Usable(d) /\ Usable(s)
    /\ gen' = [gen EXCEPT ![d] = [gen[s] EXCEPT !.j = gen[d].j]]
    /\ initialized' = [initialized EXCEPT ![d] = initialized[s]]
    /\ base' = [base EXCEPT ![d] = base[s]]
    /\ pos' = [pos EXCEPT ![d] = pos[s]]
    /\ UNCHANGED <<live, call, out>>

(* arcfour_copy: memcpy of the whole structure, flag included.             *)
Copy(d, s) ==
    /\ d # s /\ Usable(d) /\ Usable(s)
    /\ gen' = [gen EXCEPT ![d] = gen[s]]
    /\ initialized' = [initialized EXCEPT ![d] = initialized[s]]
    /\ base' = [base EXCEPT ![d] = base[s]]
    /\ pos' = [pos EXCEPT ![d] = pos[s]]
    /\ UNCHANGED <<live, call, out>>

(* The early returns: a missing key or a failed malloc at init, encrypt or *)
(* skip on a context without a key.  No report, and no effect.             *)
Ignored(c) ==
    /\ \/ Usable(c)
       \/ c \in Heap \ live
    /\ UNCHANGED vars

-----------------------------------------------------------------------------
Step(c) ==
    \/ KsaStep(c) \/ KsaDone(c) \/ DiscardStep(c) \/ InitDone(c)
    \/ EncryptStep(c) \/ SkipStep(c) \/ Return(c)

Call(c) ==
    \/ \E key \in Keys : InitStatic(c, key) \/ InitHeap(c, key)
    \/ \E n \in Lengths : BeginEncrypt(c, n) \/ BeginSkip(c, n)
    \/ BeginReset(c) \/ Uninit(c) \/ Ignored(c)
    \/ \E s \in Ctx : Copy(c, s)

Next == \E c \in Ctx : Step(c) \/ Call(c)

Spec == Init /\ [][Next]_vars

-----------------------------------------------------------------------------
Keying(c) == call[c].op \in {"ksa", "discard"}

CallRecord == [op : Ops, k : Nat, n : Nat, j : Byte, key : Keys \cup {<<>>}]

(* Every variable keeps its type; in particular each index the loops       *)
(* compute stays inside the S-box.                                         *)
TypeOK ==
    /\ gen \in [Ctx -> Generator]
    /\ initialized \in [Ctx -> {0, 1}]
    /\ live \subseteq Heap
    /\ call \in [Ctx -> CallRecord]
    /\ base \in [Ctx -> [Byte -> Byte]]
    /\ pos \in [Ctx -> Nat]
    /\ out \in [Ctx -> Byte \cup {NoByte}]

(* The S-box of a context that is keyed, or being keyed, is a permutation  *)
(* of the bytes at every step of every call, so a swap that loses a byte   *)
(* value never happens, whatever mix of calls, copies and resets came      *)
(* before (arcfour_static.c:50-58, 69-80; arcfour.c:121-126).              *)
SBoxIsPermutation ==
    \A c \in Ctx :
        initialized[c] = 1 \/ Keying(c) => IsPermutation(gen[c].S)

(* The counter i is the number of rounds since the last start, modulo N:   *)
(* no call runs a round too many or too few, or leaves i behind            *)
(* (arcfour_static.c:70, 108-109, 136-137, 208-209).                       *)
CounterTracksPosition == \A c \in Ctx : gen[c].i = pos[c] % N

(* A context that can deliver is past its discarded prefix: neither a      *)
(* fresh key, a reset nor a copy makes an early byte of a stream           *)
(* reachable (arcfour_static.c:89-93, 115, 212).                           *)
NoEarlyKeystream ==
    \A c \in Ctx :
        initialized[c] = 1 /\ call[c].op \in {"idle", "emit", "skip"}
            => pos[c] >= Discard

(* Two contexts that began at the same S-box and have consumed the same    *)
(* number of bytes are in the same state, however those bytes were cut     *)
(* into encrypt and skip calls and whatever else ran in between: what one  *)
(* encrypts the other decrypts.                                            *)
LockStep ==
    \A a, b \in Ctx :
        /\ initialized[a] = 1 /\ ~Keying(a)
        /\ initialized[b] = 1 /\ ~Keying(b)
        /\ base[a] = base[b] /\ pos[a] = pos[b]
        => gen[a] = gen[b]

(***************************************************************************)
(* Refinement: the S-box loops implement the streams of Rc4Stream.         *)
(***************************************************************************)
Restarting(c) == call[c].op = "restart" /\ initialized[c] = 1

StreamMode(c) ==
    IF Keying(c) \/ Restarting(c) THEN "busy"
    ELSE IF initialized[c] = 1 THEN "on" ELSE "off"

(* The S-boxes of the keys in use; TLC evaluates them once.                *)
KeyedBoxes == [key \in Keys |-> KeyedSBox(key)]

StreamStart(c) ==
    CASE call[c].op = "ksa" -> KeyedBoxes[call[c].key]
      [] call[c].op # "ksa" /\ StreamMode(c) # "off" -> base[c]
      [] OTHER -> Zeros

Stream == INSTANCE Rc4Stream WITH
    mode <- [c \in Ctx |-> StreamMode(c)],
    start <- [c \in Ctx |-> StreamStart(c)],
    pos <- [c \in Ctx |-> IF StreamMode(c) = "on" THEN pos[c] ELSE 0],
    out <- out

(* From the key on, every context delivers exactly the bytes of the stream *)
(* of its key, in order, each once, starting after the discarded prefix;   *)
(* from a reset on, those of the stream that begins at the S-box which the *)
(* rounds had left, a stream of no key in general (ResetReusesKey).        *)
StreamRefinement == Stream!StreamSpec

(* arcfour_static.c:194, of the reset ("Reset context to initial state     *)
(* (reuse same key)"): a usable context is in the state, and will deliver  *)
(* the bytes, of a key's stream at its position.                           *)
ResetReusesKey ==
    \A c \in Ctx :
        initialized[c] = 1 /\ call[c].op = "idle" =>
            \E key \in Keys : gen[c] = After(KeyedBoxes[key], pos[c])
=============================================================================
