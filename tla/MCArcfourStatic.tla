-------------------------- MODULE MCArcfourStatic --------------------------
(***************************************************************************)
(* Instances of ArcfourStatic for TLC.                                     *)
(***************************************************************************)
EXTENDS ArcfourStatic, TLC

CONSTANTS s1, h1

(* A one-byte key and one that is longer than the S-box.                   *)
SmallKeys == {<<1>>, <<0, 2, 2, 1>>}
=============================================================================
