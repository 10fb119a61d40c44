-------------------------------- MODULE Rc4 --------------------------------
(***************************************************************************)
(* The ARCFOUR generator as pure operators: the S-box, one round of the    *)
(* key schedule and one round of the keystream generator, over bytes       *)
(* 0 .. N-1 (the code's N is 256, its "& 0xFF" is "% N" here).             *)
(*                                                                         *)
(* Every copy of the generator in the repository is these operators:       *)
(* arcfour_static.c, arcfour_isr.c and common/arcfour_generic.c.           *)
(***************************************************************************)
EXTENDS Integers, Sequences

CONSTANT N

ASSUME NAssumption == N \in Nat \ {0}

Byte == 0 .. N - 1

(* struct arcfour without its flag: what the generator itself works on. *)
Generator == [S : [Byte -> Byte], i : Byte, j : Byte]

Identity == [b \in Byte |-> b]

Zeros == [b \in Byte |-> 0]

(* Mutant: the swap without a temporary.                                   *)
SwapWithoutTemp(S, a, b) == [S EXCEPT ![a] = S[b]]

Swap(S, a, b) == [S EXCEPT ![a] = S[b], ![b] = S[a]]

(* Mutant: the key schedule forgets the S-box term.                        *)
KsaIndexWithoutBox(S, j, key, k) == (j + key[(k % Len(key)) + 1]) % N

(***************************************************************************)
(* One round of the key schedule: the new j and the new S-box of round k.  *)
(* A key is a sequence of bytes; bytes beyond the N-th are never read.     *)
(***************************************************************************)
KsaIndex(S, j, key, k) == (j + S[k] + key[(k % Len(key)) + 1]) % N

KsaSwap(S, j, key, k) == Swap(S, k, KsaIndex(S, j, key, k))

(***************************************************************************)
(* One round of the keystream generator, and the byte that the round just  *)
(* made delivers.                                                          *)
(***************************************************************************)
NextGen(g) ==
    LET ni == (g.i + 1) % N
        nj == (g.j + g.S[ni]) % N
    IN  [S |-> Swap(g.S, ni, nj), i |-> ni, j |-> nj]

(* Mutant: the index of the byte instead of the byte, and not masked.      *)
OutIndex(g) == g.S[g.i] + g.S[g.j]

OutByte(g) == g.S[(g.S[g.i] + g.S[g.j]) % N]

(***************************************************************************)
(* The reference: the S-box a key gives, the generator n rounds after a    *)
(* start with i = j = 0, and the n-th byte of the stream (n > 0).          *)
(***************************************************************************)
KeyedSBox(key) ==
    LET round[k \in 0 .. N] ==
            IF k = 0 THEN [S |-> Identity, j |-> 0]
            ELSE LET p == round[k - 1]
                 IN  [S |-> KsaSwap(p.S, p.j, key, k - 1),
                      j |-> KsaIndex(p.S, p.j, key, k - 1)]
    IN  round[N].S

Started(S) == [S |-> S, i |-> 0, j |-> 0]

After(S, n) ==
    LET gen[k \in Nat] == IF k = 0 THEN Started(S) ELSE NextGen(gen[k - 1])
    IN  gen[n]

StreamByte(S, n) == OutByte(After(S, n))

IsPermutation(S) ==
    /\ \A a, b \in Byte : S[a] = S[b] => a = b
    /\ \A v \in Byte : \E a \in Byte : S[a] = v
=============================================================================
