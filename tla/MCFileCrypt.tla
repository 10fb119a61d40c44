---------------------------- MODULE MCFileCrypt ----------------------------
(***************************************************************************)
(* Instances of FileCrypt for TLC.                                         *)
(***************************************************************************)
EXTENDS FileCrypt

MCTexts == {<< <<"byte", "a">>, <<"byte", "b">> >>}

MCNonces == {<<"nonce", 1>>}

MCEarlier == {<<"nonce", 0>>}
MCCalls == [encrypt |-> 1, decrypt |-> 1]
=============================================================================
