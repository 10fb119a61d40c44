-------------------------------- MODULE Aead --------------------------------
(***************************************************************************)
(* What aead_rc4.c computes, on cells instead of bytes.  The cipher stream *)
(* is named by the key and the nonce that are concatenated to key it; a    *)
(* cell masked twice with the same byte of one stream is bare again, and   *)
(* nothing else uncovers it.  The tag stands for the Poly1305 sum: it is   *)
(* taken to be different whenever the key, the nonce or the data are.      *)
(***************************************************************************)
EXTENDS Naturals, Sequences

Stream(key, nonce) == <<key, nonce>>

(* Bytes of the stream that go to the one-time key and to the dummy.       *)
Spent == 32 + 32

(* Exclusive or with byte k of a stream, counted from 0.                   *)
Mask(stream, k, cell) ==
    IF /\ cell[1] = "masked" /\ cell[2] = stream /\ cell[3] = k
    THEN cell[4]
    ELSE <<"masked", stream, k, cell>>

MaskAll(stream, cells) ==
    [n \in 1 .. Len(cells) |-> Mask(stream, Spent + n - 1, cells[n])]

Tag(stream, aad, cipher) == <<"tag", stream, aad, cipher>>

(* aead_rc4_encrypt: encrypts, then signs the ciphertext.                  *)
Seal(key, nonce, aad, plain) ==
    LET cipher == MaskAll(Stream(key, nonce), plain)
    IN  [cipher |-> cipher, tag |-> Tag(Stream(key, nonce), aad, cipher)]

(* aead_rc4_decrypt: compares the tags and only then decrypts.             *)
(* Mutant: a tag is compared with itself.                                  *)
VerifiesNothing(key, nonce, aad, cipher, tag) == TRUE

Verifies(key, nonce, aad, cipher, tag) ==
    tag = Tag(Stream(key, nonce), aad, cipher)

Unseal(key, nonce, cipher) == MaskAll(Stream(key, nonce), cipher)
=============================================================================
