---------------------------- MODULE MCArmKernels ----------------------------
(***************************************************************************)
(* The instance of ArmKernels at the real width: N = 256, the first key of *)
(* test/test_vectors.c and the 256 discarded bytes of an ARCFOUR_EMBEDDED  *)
(* build.  Vector is the output of that build for eight zero bytes.        *)
(***************************************************************************)
EXTENDS ArmKernels

VectorKey == <<1, 35, 69, 103, 137, 171, 205, 239>>

Vector == <<89, 93, 177, 8, 40, 15, 46, 204>>

(* Whatever faithful kernel delivers them, and however the message before  *)
(* was cut, the first eight bytes are those that the compiled program of   *)
(* arcfour_static.c delivers (arcfour_arm.c:4-45, arcfour_arm.S:52-79,     *)
(* arcfour_dma.c:86-102, 118-129, arcfour_dma_arm.c:98-140).               *)
MatchesProgram ==
    sent.kernel \in Faithful =>
        \A k \in DOMAIN sent.cells :
            LET place == began - Dropped + k
            IN  place <= 8 => sent.cells[k] = Cell(Vector[place], k)
=============================================================================
