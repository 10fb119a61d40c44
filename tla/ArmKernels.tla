----------------------------- MODULE ArmKernels -----------------------------
(***************************************************************************)
(* The generators the ARM builds can use in place of the loop of           *)
(* arcfour_static.c: the C kernels of arm/arcfour_arm.c, the assembly of   *)
(* arm/arcfour_arm.S and arm/arcfour_thumb2.S, and the keystream-then-XOR  *)
(* functions of the DMA API.  Two hosts keyed alike exchange messages; one *)
(* encrypts with one kernel, the other decrypts with another.              *)
(*                                                                         *)
(* Plaintext is left out.  A kernel turns n input bytes into n cells:      *)
(* output byte k is the keystream byte cells[k].ks XOR the input byte      *)
(* cells[k].from, which is k unless the kernel mixes the order up.         *)
(***************************************************************************)
EXTENDS Rc4

CONSTANTS
    Key,             \* the key of both hosts
    Dropped,         \* the rounds they drop after keying
    MessageLengths,
    MaxSent          \* bound: the position in the stream that messages reach

ASSUME HostsAssumption ==
    /\ Key \in Seq(Byte) /\ Len(Key) > 0
    /\ Dropped \in Nat /\ MessageLengths \subseteq Nat /\ MaxSent \in Nat

VARIABLES
    sender,     \* the sender's S, i and j
    receiver,   \* the receiver's
    began,      \* history: the position at which the last message began
    sent,       \* the message on its way: its kernel and cells, or Nothing
    got         \* the cells that decrypted the last message

hostVars == <<sender, receiver, began, sent, got>>

Nothing == [kernel |-> "none", cells |-> <<>>]

Cell(ks, k) == [ks |-> ks, from |-> k]

(* A kernel is a function from a generator to a result: the generator it   *)
(* leaves and the cells it delivers.                                       *)
Result == [gen : Generator, cells : Seq([ks : Byte, from : Nat])]

Before(g) == [gen |-> g, cells |-> <<>>]

(* One more piece, as the pointers in and out move on.                     *)
Then(r, next) ==
    [gen |-> next.gen,
     cells |-> r.cells \o [k \in DOMAIN next.cells |->
                   [next.cells[k] EXCEPT !.from = @ + Len(r.cells)]]]

(* What n turns of a loop with the body F make of v.  Loops takes them by   *)
(* sixteens, which keeps TLC's recursion flat.                             *)
Turns(F, v, n) ==
    LET made[k \in Nat] == IF k = 0 THEN v ELSE F[made[k - 1]]
    IN  made[n]

Loops(F, v, n) ==
    LET Sixteen == [w \in DOMAIN F |-> Turns(F, w, 16)]
    IN  Turns(F, Turns(Sixteen, v, n \div 16), n % 16)

Repeat(r, kernel, n) ==
    Loops([before \in Result |-> Then(before, kernel[before.gen])], r, n)

-----------------------------------------------------------------------------
(* The kernels of arcfour_arm.c.                                           *)

(* The words of four bytes that fill the S-box, and the key schedule.      *)
KsaArm(key) ==
    LET filled == [b \in Byte |-> 4 * (b \div 4) + (b % 4)]
        Round ==
            [r \in [S : [Byte -> Byte], j : Byte, k : 0 .. N] |->
                IF r.k = N THEN r
                ELSE [S |-> KsaSwap(r.S, r.j, key, r.k),
                      j |-> KsaIndex(r.S, r.j, key, r.k),
                      k |-> r.k + 1]]
    IN  Loops(Round, [S |-> filled, j |-> 0, k |-> 0], N).S

(* One round: both bytes are read, then both written; t is the index of    *)
(* the keystream byte, which is still to be read.                          *)
RoundArm(g) ==
    LET ii == (g.i + 1) % N
        jj == (g.j + g.S[ii]) % N
    IN  [gen |-> [S |-> [g.S EXCEPT ![ii] = g.S[jj], ![jj] = g.S[ii]],
                  i |-> ii, j |-> jj],
         t |-> (g.S[ii] + g.S[jj]) % N]

ByteArm ==
    [g \in Generator |->
        LET r == RoundArm(g)
        IN  [gen |-> r.gen, cells |-> <<Cell(r.gen.S[r.t], 1)>>]]

Four(g) ==
    LET r1 == RoundArm(g)
        r2 == RoundArm(r1.gen)
        r3 == RoundArm(r2.gen)
    IN  <<r1, r2, r3, RoundArm(r3.gen)>>

(* The four results are shifted into a word from its low end, and the word *)
(* is stored low byte first: the last byte made is the first one stored.   *)
Xor4Arm ==
    [g \in Generator |->
        LET r == Four(g)
            Made(k) == Cell(r[k].gen.S[r[k].t], k)
        IN  [gen |-> r[4].gen, cells |-> <<Made(4), Made(3), Made(2), Made(1)>>]]

(* Four keystream bytes are read when all four swaps are made.             *)
QuarterArm ==
    [g \in Generator |->
        LET r == Four(g)
            Made(k) == Cell(r[4].gen.S[r[k].t], k)
        IN  [gen |-> r[4].gen, cells |-> <<Made(1), Made(2), Made(3), Made(4)>>]]

Xor16Arm == [g \in Generator |-> Repeat(Before(g), QuarterArm, 4)]

EncryptArm(g, n) ==
    LET sixteens == Repeat(Before(g), Xor16Arm, n \div 16)
        fours == Repeat(sixteens, Xor4Arm, (n % 16) \div 4)
    IN  Repeat(fours, ByteArm, n % 4)

-----------------------------------------------------------------------------
(* The assembly.  Left out are arcfour_ksa_thumb2 and                      *)
(* arcfour_xor_16_thumb2, whose addresses leave the S-box.                 *)

(* arcfour_byte_asm, and arcfour_byte_thumb2 likewise: the byte at i + j.  *)
ByteAsm ==
    [g \in Generator |->
        LET h == RoundArm(g).gen
        IN  [gen |-> h, cells |-> <<Cell(h.S[(h.i + h.j) % N], 1)>>]]

ByteThumb2 == ByteAsm

(* Mutant: the last of the 64 rounds is lost.                              *)
EncryptBlockShort(g) ==
    [Repeat(Before(g), ByteArm, 64) EXCEPT
        !.gen = Repeat(Before(g), ByteArm, 63).gen]

EncryptBlockAsm(g) == Repeat(Before(g), ByteArm, 64)

-----------------------------------------------------------------------------
(* The DMA API: keystream first, XOR later.                                *)

Keystream(r) ==
    [gen |-> r.gen, keystream |-> [k \in DOMAIN r.cells |-> r.cells[k].ks]]

PrepareKeystream(g, n) == Keystream(Repeat(Before(g), ByteArm, n))

(* Mutant: the bytes behind the last chunk take the places of the first.   *)
PrepareKeystreamArmRest(g, n) ==
    LET Place(k) == IF k > 4 * (n \div 4) THEN k - 4 * (n \div 4) ELSE k
    IN  [PrepareKeystream(g, n) EXCEPT
            !.keystream = [k \in 1 .. n |-> @[Place(k)]]]

(* In chunks of four, with i and j in registers until the end.             *)
PrepareKeystreamArm(g, n) ==
    LET Chunk == [h \in Generator |-> Repeat(Before(h), ByteArm, 4)]
        chunks == Repeat(Before(g), Chunk, n \div 4)
    IN  Keystream(Repeat(chunks, ByteArm, n % 4))

(* Whole words where they fit, then the bytes behind the last word; and    *)
(* byte by byte if a buffer is not aligned.                                *)
XorWithKeystream(keystream, n) ==
    LET words == {4 * w + b + 1 : w \in 0 .. (n \div 4) - 1, b \in 0 .. 3}
        rest == {4 * (n \div 4) + b : b \in 1 .. (n % 4)}
    IN  [k \in words \cup rest |-> Cell(keystream[k], k)]

XorBytes(keystream, n) == [k \in 1 .. n |-> Cell(keystream[k], k)]

Applied(p, n, Xor(_, _)) == [gen |-> p.gen, cells |-> Xor(p.keystream, n)]

(* arcfour_encrypt_dma in its plain mode, the same loop as in              *)
(* arcfour_encrypt_static.                                                 *)
ByteDma ==
    [g \in Generator |->
        [gen |-> NextGen(g), cells |-> <<Cell(OutByte(NextGen(g)), 1)>>]]

EncryptDma(g, n) == Repeat(Before(g), ByteDma, n)

-----------------------------------------------------------------------------
(* Two hosts.                                                              *)

Kernels == {"loop", "byte", "xor4", "xor16", "bulk", "asm", "thumb2", "block",
            "keystream", "keystream_arm"}

Takes(kernel, n) ==
    /\ kernel = "xor4" => n = 4
    /\ kernel = "xor16" => n = 16
    /\ kernel = "block" => n = 64

Delivers(kernel, g, n) ==
    CASE kernel = "loop" -> EncryptDma(g, n)
      [] kernel = "byte" -> Repeat(Before(g), ByteArm, n)
      [] kernel = "xor4" -> Xor4Arm[g]
      [] kernel = "xor16" -> Xor16Arm[g]
      [] kernel = "bulk" -> EncryptArm(g, n)
      [] kernel = "asm" -> Repeat(Before(g), ByteAsm, n)
      [] kernel = "thumb2" -> Repeat(Before(g), ByteThumb2, n)
      [] kernel = "block" -> EncryptBlockAsm(g)
      [] kernel = "keystream" ->
             Applied(PrepareKeystream(g, n), n, XorBytes)
      [] kernel = "keystream_arm" ->
             Applied(PrepareKeystreamArm(g, n), n, XorWithKeystream)

HostInit ==
    /\ sender = Repeat(Before(Started(KsaArm(Key))), ByteArm, Dropped).gen
    /\ receiver = sender
    /\ began = Dropped
    /\ sent = Nothing
    /\ got = <<>>

Encrypts(kernel, n) ==
    /\ sent = Nothing /\ Takes(kernel, n)
    /\ began + Len(got) + n <= MaxSent
    /\ began' = began + Len(got)
    /\ LET r == Delivers(kernel, sender, n)
       IN  sender' = r.gen /\ sent' = [kernel |-> kernel, cells |-> r.cells]
    /\ got' = <<>>
    /\ UNCHANGED receiver

Decrypts(kernel) ==
    /\ sent # Nothing
    /\ Takes(kernel, Len(sent.cells))
    /\ LET r == Delivers(kernel, receiver, Len(sent.cells))
       IN  receiver' = r.gen /\ got' = r.cells
    /\ sent' = Nothing
    /\ UNCHANGED <<sender, began>>

HostNext ==
    \/ \E kernel \in Kernels, n \in MessageLengths : Encrypts(kernel, n)
    \/ \E kernel \in Kernels : Decrypts(kernel)

HostSpec == HostInit /\ [][HostNext]_hostVars

-----------------------------------------------------------------------------
(* After every message both hosts have the same generator, at the place of *)
(* the stream that the loop would have reached: whatever a kernel delivers, *)
(* it makes one round per byte (arcfour_arm.c:27-144, arcfour_arm.S:24-79).*)
InStep == sent = Nothing => sender = receiver

(* What the receiver makes of output byte k is input byte k again.         *)
Restored(cells, k, m) ==
    LET source == m[k].from
    IN  cells[source].from = k /\ cells[source].ks = m[k].ks

Restores == \A k \in DOMAIN sent.cells : Restored(sent.cells, k, got')

(* The kernels that deliver the bytes of the loop.                         *)
Faithful == {"loop", "byte", "block", "keystream", "keystream_arm"}

Restorable(k, l) ==
    \/ {k, l} \subseteq Faithful
    \/ k = l /\ k \in {"xor16", "asm", "thumb2"}

(* A message is restored if both sides use faithful kernels, in any        *)
(* mixture and any cutting, or if both take it whole through one and the   *)
(* same of the others that at least keep the order of the bytes            *)
(* (arcfour_arm.c:27-45, 80-117, arcfour_arm.S:24-79,                      *)
(* arcfour_dma.c:118-148, arcfour_dma_arm.c:98-140).                       *)
MessagesRestored ==
    [][\A kernel \in Kernels :
          Decrypts(kernel) /\ Restorable(sent.kernel, kernel) => Restores]_hostVars

(* test/test_arm_opt.c:114 ("Bulk encrypt/decrypt roundtrip"): what         *)
(* arcfour_arm.c encrypts, it decrypts.                                    *)
BulkRoundTrip ==
    [][\A kernel \in {"xor4", "xor16", "bulk"} :
          Decrypts(kernel) /\ sent.kernel = kernel => Restores]_hostVars
=============================================================================
