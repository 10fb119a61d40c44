-------------------------- MODULE FileCryptProofs --------------------------
(***************************************************************************)
(* What is proved of FileCrypt, for every choice of the calls that fail,   *)
(* every edit of the input, every crash and any number of calls.           *)
(*   - No path through the functions keeps a buffer or a stream (HoldInv). *)
(*   - The state keeps its type, a decryption writes nothing but a         *)
(*     beginning of what the input once was, and a call that reports       *)
(*     success has written all, unless fclose fails (FInv).  The file, the *)
(*     buffer of the stream and the pieces that fwrite has not seen always *)
(*     make up the whole, or a beginning of it once a write has failed;    *)
(*     and the tag that a decryption has read belongs to one encryption,   *)
(*     although the rest may come from others.                             *)
(***************************************************************************)
EXTENDS FileCrypt, SequenceTheorems, TLAPS

(* What a program holds is settled by the step it is at.                   *)
Buffers(p, label) ==
    CASE label \in {"read", "target"} -> {Source(p)}
      [] label = "aead" -> {Source(p), Target(p)}
      [] label \in {"create", "write"} -> {Target(p)}
      [] OTHER -> {}

Streams(label) ==
    CASE label \in {"head", "size", "alloc", "read"} -> {"fin"}
      [] label \in {"write", "close"} -> {"fout"}
      [] OTHER -> {}

Holds(p) == heap[p] = Buffers(p, pc[p]) /\ open[p] = Streams(pc[p])

HoldInv ==
    /\ pc = [p \in Program |-> pc[p]]
    /\ heap = [p \in Program |-> heap[p]]
    /\ open = [p \in Program |-> open[p]]
    /\ \A p \in Program : Holds(p)

(* A step of p moves it to a label, with what it holds there.              *)
MovesTo(p, label, buffers, streams) ==
    /\ pc' = [pc EXCEPT ![p] = label]
    /\ heap' = [heap EXCEPT ![p] = buffers]
    /\ open' = [open EXCEPT ![p] = streams]

-----------------------------------------------------------------------------
LEMMA TwoBuffers == \A p \in Program : Source(p) # Target(p)
  BY DEF Source, Target, Encrypts

(* A program that moves and holds what belongs to its new label.           *)
LEMMA MoveHolds ==
    ASSUME HoldInv, NEW p \in Program, NEW label,
           MovesTo(p, label, Buffers(p, label), Streams(label))
    PROVE  HoldInv'
  <1>1. /\ pc' = [q \in Program |-> pc'[q]]
        /\ heap' = [q \in Program |-> heap'[q]]
        /\ open' = [q \in Program |-> open'[q]]
    BY DEF HoldInv, MovesTo
  <1>2. ASSUME NEW q \in Program PROVE Holds(q)'
    <2>1. CASE q = p
      <3>1. /\ pc'[q] = label
            /\ heap'[q] = Buffers(p, label) /\ open'[q] = Streams(label)
        BY <2>1 DEF HoldInv, MovesTo
      <3> QED  BY <3>1, <2>1 DEF Holds, Buffers
    <2>2. CASE q # p
      <3>1. pc'[q] = pc[q] /\ heap'[q] = heap[q] /\ open'[q] = open[q]
        BY <2>2 DEF HoldInv, MovesTo
      <3>2. Holds(q)
        BY DEF HoldInv
      <3> QED  BY <3>1, <3>2 DEF Holds, Buffers
    <2> QED  BY <2>1, <2>2
  <1> QED  BY <1>1, <1>2 DEF HoldInv

(* A program that changes neither its step nor what it holds.              *)
LEMMA StayHolds ==
    ASSUME HoldInv, UNCHANGED <<pc, heap, open>>
    PROVE  HoldInv'
  BY DEF HoldInv, Holds, Buffers

(* A return from a label, freeing and closing all that is held there.      *)
LEMMA LeaveHolds ==
    ASSUME HoldInv, NEW p \in Program, NEW code, NEW buffers, NEW streams,
           Leave(p, code, buffers, streams),
           heap[p] \subseteq buffers, open[p] \subseteq streams
    PROVE  HoldInv'
  <1>1. heap[p] \ buffers = {} /\ open[p] \ streams = {}
    OBVIOUS
  <1>2. Buffers(p, "idle") = {} /\ Streams("idle") = {}
    BY DEF Buffers, Streams
  <1>3. MovesTo(p, "idle", {}, {})
    BY <1>1 DEF Leave, Goto, Free, Close, MovesTo, HoldInv
  <1> QED  BY <1>2, <1>3, MoveHolds

(* What a program holds at a label.                                        *)
LEMMA HeldAt ==
    ASSUME HoldInv, NEW p \in Program, NEW label, At(p, label)
    PROVE  heap[p] = Buffers(p, label) /\ open[p] = Streams(label)
  BY DEF HoldInv, Holds, At

LEMMA Table ==
    ASSUME NEW p \in Program
    PROVE  /\ \A l \in {"idle", "head", "size", "alloc", "close"} :
                 Buffers(p, l) = {}
           /\ \A l \in {"read", "target"} : Buffers(p, l) = {Source(p)}
           /\ Buffers(p, "aead") = {Source(p), Target(p)}
           /\ \A l \in {"create", "write"} : Buffers(p, l) = {Target(p)}
           /\ \A l \in {"head", "size", "alloc", "read"} :
                 Streams(l) = {"fin"}
           /\ \A l \in {"write", "close"} : Streams(l) = {"fout"}
           /\ \A l \in {"idle", "target", "aead", "create"} : Streams(l) = {}
  BY DEF Buffers, Streams

-----------------------------------------------------------------------------
(* One lemma for each group of steps.                                      *)

LEMMA OpeningHolds ==
    ASSUME HoldInv, NEW p \in Program,
           \/ \E key \in Keys : Begin(p, key)
           \/ Refused(p) \/ ReadHead(p) \/ ReadHeadFails(p)
           \/ Size(p) \/ SizeFails(p)
           \/ AllocSource(p) \/ AllocSourceFails(p)
    PROVE  HoldInv'
  <1> USE Table
  <1>1. ASSUME NEW key \in Keys, Begin(p, key) PROVE HoldInv'
    <2>1. heap[p] = {} /\ heap' = heap
      BY <1>1, HeldAt DEF Begin
    <2>2. heap' = [heap EXCEPT ![p] = {}]
      BY <2>1 DEF HoldInv
    <2>3. PICK label \in {"size", "head"} : pc' = [pc EXCEPT ![p] = label]
      BY <1>1 DEF Begin, Goto
    <2>4. MovesTo(p, label, Buffers(p, label), Streams(label))
      BY <1>1, <2>2, <2>3 DEF Begin, MovesTo
    <2> QED  BY <2>4, MoveHolds
  <1>2. CASE Refused(p)
    BY <1>2, HeldAt, LeaveHolds DEF Refused
  <1>3. CASE ReadHead(p)
    <2>1. heap[p] = {} /\ open[p] = {"fin"}
      BY <1>3, HeldAt DEF ReadHead
    <2>2. CASE Leave(p, -1, {}, {"fin"})
      BY <2>1, <2>2, LeaveHolds
    <2>3. CASE /\ \E label \in {"size", "head"} : Goto(p, label)
               /\ UNCHANGED <<heap, open>>
      <3>1. PICK label \in {"size", "head"} : pc' = [pc EXCEPT ![p] = label]
        BY <2>3 DEF Goto
      <3>2. /\ heap' = [heap EXCEPT ![p] = {}]
            /\ open' = [open EXCEPT ![p] = {"fin"}]
        BY <2>1, <2>3 DEF HoldInv
      <3>3. Buffers(p, label) = {} /\ Streams(label) = {"fin"}
        OBVIOUS
      <3>4. MovesTo(p, label, Buffers(p, label), Streams(label))
        BY <3>1, <3>2, <3>3 DEF MovesTo
      <3> QED  BY <3>4, MoveHolds
    <2> QED  BY <1>3, <2>2, <2>3 DEF ReadHead
  <1>4. CASE ReadHeadFails(p)
    BY <1>4, HeldAt, LeaveHolds DEF ReadHeadFails
  <1>5. CASE Size(p)
    <2>1. heap[p] = {} /\ open[p] = {"fin"}
      BY <1>5, HeldAt DEF Size
    <2>2. CASE Leave(p, -1, {}, {"fin"})
      BY <2>1, <2>2, LeaveHolds
    <2>3. CASE Goto(p, "alloc") /\ UNCHANGED <<heap, open>>
      <3>1. MovesTo(p, "alloc", Buffers(p, "alloc"), Streams("alloc"))
        BY <2>1, <2>3 DEF MovesTo, HoldInv, Goto
      <3> QED  BY <3>1, MoveHolds
    <2> QED  BY <1>5, <2>2, <2>3 DEF Size
  <1>6. CASE SizeFails(p)
    BY <1>6, HeldAt, LeaveHolds DEF SizeFails
  <1>7. CASE AllocSource(p)
    <2>1. heap[p] = {} /\ open[p] = {"fin"}
      BY <1>7, HeldAt DEF AllocSource
    <2>2. MovesTo(p, "read", Buffers(p, "read"), Streams("read"))
      BY <1>7, <2>1 DEF AllocSource, Allocate, Goto, MovesTo, HoldInv
    <2> QED  BY <2>2, MoveHolds
  <1>8. CASE AllocSourceFails(p)
    BY <1>8, HeldAt, LeaveHolds DEF AllocSourceFails
  <1> QED
    BY <1>1, <1>2, <1>3, <1>4, <1>5, <1>6, <1>7, <1>8

LEMMA ReadingHolds ==
    ASSUME HoldInv, NEW p \in Program,
           \/ ReadCell(p) \/ ReadEnd(p) \/ ReadInterrupted(p) \/ ReadError(p)
           \/ ReadDone(p)
    PROVE  HoldInv'
  <1> USE Table
  <1>1. CASE ReadCell(p)
    BY <1>1, StayHolds DEF ReadCell
  <1>2. ASSUME NEW err, Reading(p), Short(p, err) PROVE HoldInv'
    <2>1. heap[p] = {Source(p)} /\ open[p] = {"fin"}
      BY <1>2, HeldAt DEF Reading
    <2>2. CASE GiveUp(p, err)
      BY <2>1, <2>2, LeaveHolds DEF GiveUp
    <2>3. CASE \/ AgainAfterSome(p, err) \/ AgainAfterNothing(p, err)
               \/ BreakOff(p, err)
      BY <2>3, StayHolds DEF AgainAfterSome, AgainAfterNothing, BreakOff
    <2> QED  BY <1>2, <2>2, <2>3 DEF Short
  <1>3. CASE ReadDone(p)
    <2>1. heap[p] = {Source(p)} /\ open[p] = {"fin"}
      BY <1>3, HeldAt DEF ReadDone
    <2>2. MovesTo(p, "target", Buffers(p, "target"), Streams("target"))
      BY <1>3, <2>1 DEF ReadDone, Close, Goto, MovesTo, HoldInv
    <2> QED  BY <2>2, MoveHolds
  <1> QED
    BY <1>1, <1>2, <1>3 DEF ReadEnd, ReadInterrupted, ReadError

LEMMA SealingHolds ==
    ASSUME HoldInv, NEW p \in Program,
           \/ AllocTarget(p) \/ AllocTargetFails(p)
           \/ \E nonce \in Nonces : SealText(p, nonce)
           \/ UnsealText(p) \/ AeadFails(p)
    PROVE  HoldInv'
  <1> USE Table
  <1>1. CASE AllocTarget(p)
    <2>1. heap[p] = {Source(p)} /\ open[p] = {}
      BY <1>1, HeldAt DEF AllocTarget
    <2>2. MovesTo(p, "aead", Buffers(p, "aead"), Streams("aead"))
      BY <1>1, <2>1 DEF AllocTarget, Allocate, Goto, MovesTo, HoldInv
    <2> QED  BY <2>2, MoveHolds
  <1>2. CASE AllocTargetFails(p)
    BY <1>2, HeldAt, LeaveHolds DEF AllocTargetFails
  <1>3. ASSUME At(p, "aead"), Free(p, {Source(p)}), Goto(p, "create"),
               UNCHANGED open
        PROVE HoldInv'
    <2>1. heap[p] = {Source(p), Target(p)} /\ open[p] = {}
      BY <1>3, HeldAt
    <2>2. heap[p] \ {Source(p)} = {Target(p)}
      BY <2>1, TwoBuffers
    <2>3. MovesTo(p, "create", Buffers(p, "create"), Streams("create"))
      BY <1>3, <2>1, <2>2 DEF Free, Goto, MovesTo, HoldInv
    <2> QED  BY <2>3, MoveHolds
  <1>4. CASE AeadFails(p)
    BY <1>4, HeldAt, LeaveHolds DEF AeadFails
  <1> QED
    BY <1>1, <1>2, <1>3, <1>4 DEF SealText, UnsealText

LEMMA WritingHolds ==
    ASSUME HoldInv, NEW p \in Program,
           \/ Create(p) \/ CreateFails(p) \/ Write(p) \/ WriteFails(p)
           \/ WriteDone(p) \/ Flush(p) \/ CloseOutput(p)
    PROVE  HoldInv'
  <1> USE Table
  <1>1. CASE Create(p)
    <2>1. heap[p] = {Target(p)} /\ heap' = heap
      BY <1>1, HeldAt DEF Create
    <2>2. MovesTo(p, "write", Buffers(p, "write"), Streams("write"))
      BY <1>1, <2>1 DEF Create, Goto, MovesTo, HoldInv
    <2> QED  BY <2>2, MoveHolds
  <1>2. CASE CreateFails(p)
    BY <1>2, HeldAt, LeaveHolds DEF CreateFails
  <1>3. CASE Write(p) \/ Flush(p)
    BY <1>3, StayHolds DEF Write, Flush
  <1>4. ASSUME At(p, "write"), Free(p, {Target(p)}), Goto(p, "close"),
               UNCHANGED open
        PROVE HoldInv'
    <2>1. heap[p] = {Target(p)} /\ open[p] = {"fout"}
      BY <1>4, HeldAt
    <2>2. MovesTo(p, "close", Buffers(p, "close"), Streams("close"))
      BY <1>4, <2>1 DEF Free, Goto, MovesTo, HoldInv
    <2> QED  BY <2>2, MoveHolds
  <1>5. CASE CloseOutput(p)
    BY <1>5, HeldAt, LeaveHolds DEF CloseOutput
  <1> QED
    BY <1>1, <1>2, <1>3, <1>4, <1>5 DEF WriteFails, WriteDone

LEMMA CrashHolds ==
    ASSUME HoldInv, NEW p \in Program, Crash(p)
    PROVE  HoldInv'
  <1>1. heap[p] \ heap[p] = {} /\ open[p] \ open[p] = {}
    OBVIOUS
  <1>2. MovesTo(p, "idle", Buffers(p, "idle"), Streams("idle"))
    BY <1>1 DEF Crash, Free, Close, Goto, MovesTo, HoldInv, Buffers, Streams
  <1> QED  BY <1>2, MoveHolds

-----------------------------------------------------------------------------
THEOREM HoldInvariant == Spec => []HoldInv
  <1>1. Init => HoldInv
    BY DEF Init, HoldInv, Holds, Buffers, Streams
  <1>2. HoldInv /\ [Next]_vars => HoldInv'
    <2> SUFFICES ASSUME HoldInv, [Next]_vars PROVE HoldInv'
      OBVIOUS
    <2>1. CASE UNCHANGED vars
      BY <2>1, StayHolds DEF vars
    <2>2. CASE Grow \/ Shrink
      BY <2>2, StayHolds DEF Grow, Shrink, Edit
    <2>3. ASSUME NEW p \in Program, NEW key \in Keys, Begin(p, key)
          PROVE  HoldInv'
      BY <2>3, OpeningHolds
    <2>4. ASSUME NEW p \in Program, Continue(p) PROVE HoldInv'
      BY <2>4, OpeningHolds, ReadingHolds, SealingHolds, WritingHolds
         DEF Continue
    <2>5. ASSUME NEW p \in Program, Refused(p) \/ Crash(p) PROVE HoldInv'
      BY <2>5, OpeningHolds, CrashHolds
    <2> QED  BY <2>1, <2>2, <2>3, <2>4, <2>5 DEF Next
  <1> QED  BY <1>1, <1>2, PTL DEF Spec

(* Every return, and every crash, has freed what was allocated and closed  *)
(* what was opened, whichever calls failed on the way (the error paths of  *)
(* arcfour_utils.c:77-177 and 209-288).                                    *)
THEOREM NothingIsLeft == Spec => []NothingLeft
  <1>1. HoldInv => NothingLeft
    <2> SUFFICES ASSUME HoldInv, NEW p \in Program, At(p, "idle")
                 PROVE  heap[p] = {} /\ open[p] = {}
      BY DEF NothingLeft
    <2> QED  BY HeldAt, Table
  <1> QED  BY <1>1, HoldInvariant, PTL
-----------------------------------------------------------------------------
(* Cells.  A text is made of letters, or of what malloc left in the buffer *)
(* when the input was cut; an encrypted file holds masked cells and a tag. *)

Nonce == Nonces \cup Earlier

Letters ==
    {<<"byte", b>> : b \in Bytes}
        \cup UNION {{text[n] : n \in DOMAIN text} : text \in Texts}

Plain == Letters \cup {Junk}

Masked ==
    {<<"masked", Stream(key, nonce), k, cell>> :
        key \in Keys, nonce \in Nonce, k \in Nat, cell \in Plain}

Tags ==
    {Tag(Stream(key, nonce), Aad, cipher) :
        key \in Keys, nonce \in Nonce, cipher \in Seq(Masked)}

Cell == {Magic, Missing[1]} \cup Nonce \cup Plain \cup Masked \cup Tags

LEMMA PlainIsBare == \A cell \in Plain : cell[1] # "masked"
  <1> SUFFICES ASSUME NEW cell \in Plain PROVE cell[1] # "masked"
    OBVIOUS
  <1>1. CASE cell \in {<<"byte", b>> : b \in Bytes} \/ cell = Junk
    BY <1>1 DEF Junk
  <1>2. ASSUME NEW text \in Texts, NEW n \in DOMAIN text, cell = text[n]
        PROVE  cell[1] # "masked"
    BY <1>2, TextsAssumption
  <1> QED
    BY <1>1, <1>2 DEF Plain, Letters

(* Masked twice by one byte of a stream, a cell of a text is bare again.   *)
LEMMA MaskTwice ==
    ASSUME NEW cell \in Plain, NEW stream, NEW k
    PROVE  /\ Mask(stream, k, cell) = <<"masked", stream, k, cell>>
           /\ Mask(stream, k, Mask(stream, k, cell)) = cell
  <1>1. Mask(stream, k, cell) = <<"masked", stream, k, cell>>
    BY PlainIsBare DEF Mask
  <1>2. Mask(stream, k, <<"masked", stream, k, cell>>) = cell
    BY DEF Mask
  <1> QED
    BY <1>1, <1>2

(* So is a whole text; its masked cells are those of one stream.           *)
LEMMA MaskAllTwice ==
    ASSUME NEW key \in Keys, NEW nonce \in Nonce, NEW text \in Seq(Plain)
    PROVE  LET s == Stream(key, nonce)
           IN  /\ MaskAll(s, text) \in Seq(Masked)
               /\ Len(MaskAll(s, text)) = Len(text)
               /\ Unseal(key, nonce, MaskAll(s, text)) = text
  <1> DEFINE s == Stream(key, nonce)
             c == MaskAll(s, text)
  <1>1. /\ Len(text) \in Nat /\ DOMAIN text = 1 .. Len(text)
        /\ \A n \in 1 .. Len(text) : text[n] \in Plain
    BY ElementOfSeq, LenProperties
  <1>2. \A n \in 1 .. Len(text) :
            Mask(s, Spent + n - 1, text[n])
                = <<"masked", s, Spent + n - 1, text[n]>>
    BY <1>1, MaskTwice
  <1>3. \A n \in 1 .. Len(text) : Spent + n - 1 \in Nat
    BY <1>1 DEF Spent
  <1>4. \A n \in 1 .. Len(text) :
            Mask(s, Spent + n - 1, text[n]) \in Masked
    BY <1>1, <1>2, <1>3 DEF Masked
  <1>5. /\ c = [n \in 1 .. Len(text) |-> Mask(s, Spent + n - 1, text[n])]
        /\ c \in Seq(Masked) /\ Len(c) = Len(text)
    BY <1>1, <1>4 DEF MaskAll
  <1>6. \A n \in 1 .. Len(text) : Mask(s, Spent + n - 1, c[n]) = text[n]
    BY <1>1, <1>5, MaskTwice
  <1>7. Unseal(key, nonce, c)
            = [n \in 1 .. Len(text) |-> Mask(s, Spent + n - 1, c[n])]
    BY <1>5 DEF Unseal, MaskAll
  <1>8. text = [n \in 1 .. Len(text) |-> text[n]]
    BY <1>1
  <1>9. Unseal(key, nonce, c) = text
    BY <1>6, <1>7, <1>8
  <1> QED
    BY <1>5, <1>9

(* A tag names the key, the nonce and the masked text it was made from.    *)
LEMMA TagNames ==
    ASSUME NEW key, NEW nonce, NEW cipher, NEW key2, NEW nonce2, NEW cipher2,
           Tag(Stream(key, nonce), Aad, cipher)
               = Tag(Stream(key2, nonce2), Aad, cipher2)
    PROVE  key = key2 /\ nonce = nonce2 /\ cipher = cipher2
  <1>1. Stream(key, nonce) = Stream(key2, nonce2) /\ cipher = cipher2
    BY DEF Tag
  <1> QED
    BY <1>1 DEF Stream

-----------------------------------------------------------------------------
(* What a program may come to write.  Once the input was cut under its     *)
(* reader nothing is claimed of the texts, but that they are texts.        *)

Genuine(text) == text \in Seq(Plain) /\ (cut \/ text \in versions)

(* The tag of an encryption of such a text.                                *)
Sealed(tag) ==
    \E key \in Keys, nonce \in Nonce, text \in Seq(Plain) :
        /\ Genuine(text)
        /\ tag = Tag(Stream(key, nonce), Aad,
                     MaskAll(Stream(key, nonce), text))

(* All that a call with this key writes when nothing fails.                *)
IsWhole(p, key, whole) ==
    \E text \in Seq(Plain), nonce \in Nonce :
        /\ Genuine(text)
        /\ whole = IF Encrypts(p) THEN Envelope(key, nonce, text) ELSE text

IsBeginning(p, key, cells) ==
    \E rest \in Seq(Cell) : IsWhole(p, key, cells \o rest)

(* The pieces that are still to be handed to fwrite, end to end.           *)
Flat(pieces) ==
    CASE Len(pieces) = 0 -> <<>>
      [] Len(pieces) = 1 -> pieces[1]
      [] Len(pieces) = 2 -> pieces[1] \o pieces[2]
      [] Len(pieces) = 3 -> pieces[1] \o (pieces[2] \o pieces[3])
      [] Len(pieces) = 4 ->
            pieces[1] \o (pieces[2] \o (pieces[3] \o pieces[4]))

(* What was genuine stays so.                                              *)
LEMMA GenuineForever ==
    ASSUME versions \subseteq versions', cut => cut'
    PROVE  /\ \A tag : Sealed(tag) => Sealed(tag)'
           /\ \A p, key, w : IsWhole(p, key, w) => IsWhole(p, key, w)'
           /\ \A p, key, f : IsBeginning(p, key, f) => IsBeginning(p, key, f)'
  <1>1. \A text : Genuine(text) => Genuine(text)'
    BY DEF Genuine
  <1>2. \A tag : Sealed(tag) => Sealed(tag)'
    BY <1>1 DEF Sealed
  <1>3. \A p, key, w : IsWhole(p, key, w) => IsWhole(p, key, w)'
    BY <1>1 DEF IsWhole
  <1>4. \A p, key, f : IsBeginning(p, key, f) => IsBeginning(p, key, f)'
    BY <1>3 DEF IsBeginning
  <1> QED
    BY <1>2, <1>3, <1>4

-----------------------------------------------------------------------------
(* Sequences of cells, taken apart and put together.                       *)

LEMMA CellSets ==
    /\ Letters \subseteq Plain /\ Plain \subseteq Cell
    /\ Masked \subseteq Cell /\ Tags \subseteq Cell /\ Nonce \subseteq Cell
    /\ Magic \in Cell /\ Missing \in Seq(Cell) /\ Junk \in Plain
  BY DEF Cell, Plain, Missing

LEMMA CellSeqs ==
    /\ Seq(Letters) \subseteq Seq(Plain)
    /\ Seq(Plain) \subseteq Seq(Cell)
    /\ Seq(Masked) \subseteq Seq(Cell)
  BY CellSets, SeqMonotonic

LEMMA FlatSeq ==
    ASSUME NEW pieces \in Seq(Seq(Cell)), Len(pieces) <= 4
    PROVE  Flat(pieces) \in Seq(Cell)
  <1>1. Len(pieces) \in {0, 1, 2, 3, 4}
    <2>1. Len(pieces) \in Nat
      BY LenProperties
    <2>2. \A n \in Nat : n <= 4 => n \in {0, 1, 2, 3, 4}
      OBVIOUS
    <2> QED
      BY <2>1, <2>2
  <1>2. \A n \in 1 .. Len(pieces) : pieces[n] \in Seq(Cell)
    BY ElementOfSeq
  <1>3. \A s, t \in Seq(Cell) : s \o t \in Seq(Cell)
    BY ConcatProperties
  <1> QED
    BY <1>1, <1>2, <1>3 DEF Flat

LEMMA FlatEach ==
    ASSUME NEW p
    PROVE  /\ Len(p) = 0 => Flat(p) = <<>>
           /\ Len(p) = 1 => Flat(p) = p[1]
           /\ Len(p) = 2 => Flat(p) = p[1] \o p[2]
           /\ Len(p) = 3 => Flat(p) = p[1] \o (p[2] \o p[3])
           /\ Len(p) = 4 => Flat(p) = p[1] \o (p[2] \o (p[3] \o p[4]))
  <1>1. Len(p) = 0 => Flat(p) = <<>>
    BY DEF Flat
  <1>2. Len(p) = 1 => Flat(p) = p[1]
    BY DEF Flat
  <1>3. Len(p) = 2 => Flat(p) = p[1] \o p[2]
    BY DEF Flat
  <1>4. Len(p) = 3 => Flat(p) = p[1] \o (p[2] \o p[3])
    BY DEF Flat
  <1>5. Len(p) = 4 => Flat(p) = p[1] \o (p[2] \o (p[3] \o p[4]))
    <2> SUFFICES ASSUME Len(p) = 4
                 PROVE  Flat(p) = p[1] \o (p[2] \o (p[3] \o p[4]))
      OBVIOUS
    <2>1. Len(p) # 0 /\ Len(p) # 1 /\ Len(p) # 2 /\ Len(p) # 3
      OBVIOUS
    <2> QED
      BY <2>1, Zenon DEF Flat
  <1> QED
    BY <1>1, <1>2, <1>3, <1>4, <1>5

LEMMA FlatFirst ==
    ASSUME NEW pieces \in Seq(Seq(Cell)), pieces # <<>>, Len(pieces) <= 4
    PROVE  /\ Head(pieces) \in Seq(Cell)
           /\ Tail(pieces) \in Seq(Seq(Cell)) /\ Len(Tail(pieces)) <= 4
           /\ Flat(Tail(pieces)) \in Seq(Cell)
           /\ Flat(pieces) = Head(pieces) \o Flat(Tail(pieces))
  <1> DEFINE t == Tail(pieces)
  <1>1. Len(pieces) \in {1, 2, 3, 4}
    <2>1. Len(pieces) \in Nat \ {0}
      BY EmptySeq
    <2>2. \A n \in Nat \ {0} : n <= 4 => n \in {1, 2, 3, 4}
      OBVIOUS
    <2> QED
      BY <2>1, <2>2
  <1>2. /\ Head(pieces) \in Seq(Cell) /\ t \in Seq(Seq(Cell))
        /\ Len(t) = Len(pieces) - 1
        /\ \A n \in 1 .. Len(t) : t[n] = pieces[n + 1]
        /\ Head(pieces) = pieces[1]
    BY HeadTailProperties
  <1>3. Len(t) <= 4 /\ Flat(t) \in Seq(Cell)
    <2>1. Len(t) <= 4
      BY <1>1, <1>2
    <2> QED
      BY <1>2, <2>1, FlatSeq
  <1>4. Flat(pieces) = Head(pieces) \o Flat(t)
    <2> HIDE DEF t
    <2>1. CASE Len(pieces) = 1
      <3>1. Len(t) = 0
        BY <1>2, <2>1
      <3>2. Flat(t) = <<>>
        BY <3>1, FlatEach
      <3>3. Flat(pieces) = pieces[1]
        BY <2>1, FlatEach
      <3> QED
        BY <1>2, <3>2, <3>3, ConcatEmptySeq
    <2>2. CASE Len(pieces) = 2
      <3>1. Len(t) = 1 /\ t[1] = pieces[2]
        BY <1>2, <2>2
      <3>2. Flat(t) = pieces[2]
        BY <3>1, FlatEach
      <3>3. Flat(pieces) = pieces[1] \o pieces[2]
        BY <2>2, FlatEach
      <3> QED
        BY <1>2, <3>2, <3>3
    <2>3. CASE Len(pieces) = 3
      <3>1. Len(t) = 2 /\ t[1] = pieces[2] /\ t[2] = pieces[3]
        BY <1>2, <2>3
      <3>2. Flat(t) = pieces[2] \o pieces[3]
        BY <3>1, FlatEach
      <3>3. Flat(pieces) = pieces[1] \o (pieces[2] \o pieces[3])
        BY <2>3, FlatEach
      <3> QED
        BY <1>2, <3>2, <3>3
    <2>4. CASE Len(pieces) = 4
      <3>1. Len(t) = 3 /\ t[1] = pieces[2] /\ t[2] = pieces[3]
            /\ t[3] = pieces[4]
        BY <1>2, <2>4
      <3>2. Flat(t) = pieces[2] \o (pieces[3] \o pieces[4])
        BY <3>1, FlatEach
      <3>3. Flat(pieces)
                = pieces[1] \o (pieces[2] \o (pieces[3] \o pieces[4]))
        BY <2>4, FlatEach
      <3> QED
        BY <1>2, <3>2, <3>3
    <2> QED
      BY <1>1, <2>1, <2>2, <2>3, <2>4
  <1> QED
    BY <1>1, <1>2, <1>3, <1>4

(* A beginning of a beginning.                                             *)
LEMMA BeginningOf ==
    ASSUME NEW p, NEW key, NEW f \in Seq(Cell), NEW g \in Seq(Cell),
           IsBeginning(p, key, f \o g)
    PROVE  IsBeginning(p, key, f)
  <1>1. PICK rest \in Seq(Cell) : IsWhole(p, key, (f \o g) \o rest)
    BY DEF IsBeginning
  <1>2. (f \o g) \o rest = f \o (g \o rest) /\ g \o rest \in Seq(Cell)
    BY ConcatAssociative, ConcatProperties
  <1> QED
    BY <1>1, <1>2 DEF IsBeginning

LEMMA WholeIsBeginning ==
    ASSUME NEW p, NEW key, NEW f \in Seq(Cell), IsWhole(p, key, f)
    PROVE  IsBeginning(p, key, f)
  <1>1. f \o <<>> = f /\ <<>> \in Seq(Cell)
    BY ConcatEmptySeq
  <1> QED
    BY <1>1 DEF IsBeginning

(* What fwrite takes goes to the buffer of the stream, all of a piece or a *)
(* beginning of it.                                                        *)
LEMMA TakenToBuffer ==
    ASSUME NEW f \in Seq(Cell), NEW w \in Seq(Cell), NEW a \in Seq(Cell),
           NEW b \in Seq(Cell)
    PROVE  /\ f \o (w \o (a \o b)) = f \o ((w \o a) \o b)
           /\ f \o ((w \o a) \o b) = (f \o (w \o a)) \o b
           /\ f \o (w \o a) \in Seq(Cell) /\ w \o a \in Seq(Cell)
  <1>1. w \o a \in Seq(Cell) /\ f \o (w \o a) \in Seq(Cell)
    BY ConcatProperties
  <1>2. w \o (a \o b) = (w \o a) \o b
    BY ConcatAssociative
  <1>3. f \o ((w \o a) \o b) = (f \o (w \o a)) \o b
    BY <1>1, ConcatAssociative
  <1> QED
    BY <1>1, <1>2, <1>3

LEMMA Parted ==
    ASSUME NEW a \in Seq(Cell), NEW n \in 0 .. Len(a)
    PROVE  /\ SubSeq(a, 1, n) \in Seq(Cell)
           /\ SubSeq(a, n + 1, Len(a)) \in Seq(Cell)
           /\ SubSeq(a, 1, n) \o SubSeq(a, n + 1, Len(a)) = a
  <1>1. /\ Len(a) \in Nat /\ n \in Int
        /\ \A k \in 1 .. n : a[k] \in Cell
        /\ \A k \in n + 1 .. Len(a) : a[k] \in Cell
    BY LenProperties, ElementOfSeq
  <1>2. /\ SubSeq(a, 1, n) \in Seq(Cell)
        /\ SubSeq(a, n + 1, Len(a)) \in Seq(Cell)
    BY <1>1, SubSeqProperties
  <1>3. SubSeq(a, 1, n) \o SubSeq(a, n + 1, Len(a)) = SubSeq(a, 1, Len(a))
    <2>1. /\ 1 \in 1 .. Len(a) + 1 /\ n \in 1 - 1 .. Len(a)
          /\ Len(a) \in n .. Len(a)
      BY <1>1
    <2> QED
      BY <2>1, ConcatAdjacentSubSeq
  <1> QED
    BY <1>2, <1>3, SubSeqFull

(* A cell that goes from the buffer of the stream to the file.             *)
LEMMA FlushedCell ==
    ASSUME NEW f \in Seq(Cell), NEW w \in Seq(Cell), w # <<>>
    PROVE  /\ Append(f, Head(w)) \in Seq(Cell) /\ Tail(w) \in Seq(Cell)
           /\ Append(f, Head(w)) \o Tail(w) = f \o w
           /\ \A r \in Seq(Cell) :
                 Append(f, Head(w)) \o (Tail(w) \o r) = f \o (w \o r)
  <1>1. Head(w) \in Cell /\ Tail(w) \in Seq(Cell)
    BY HeadTailProperties
  <1>2. Append(f, Head(w)) = f \o <<Head(w)>>
    BY <1>1, AppendIsConcat
  <1>3. <<Head(w)>> \in Seq(Cell) /\ <<Head(w)>> \o Tail(w) = w
    <2>1. Len(w) \in Nat \ {0} /\ Head(w) = w[1]
      BY EmptySeq
    <2>2. /\ Len(Tail(w)) = Len(w) - 1
          /\ \A n \in 1 .. Len(Tail(w)) : Tail(w)[n] = w[n + 1]
      BY HeadTailProperties
    <2>3. <<Head(w)>> \in Seq(Cell) /\ Len(<<Head(w)>>) = 1
      BY <1>1
    <2>4. /\ <<Head(w)>> \o Tail(w) \in Seq(Cell)
          /\ Len(<<Head(w)>> \o Tail(w)) = Len(w)
          /\ \A i \in 1 .. Len(w) : (<<Head(w)>> \o Tail(w))[i] = w[i]
      BY <1>1, <2>1, <2>2, <2>3, ConcatProperties
    <2> QED
      BY <2>3, <2>4, SeqEqual
  <1>4. Append(f, Head(w)) \o Tail(w) = f \o w
    BY <1>1, <1>2, <1>3, ConcatAssociative
  <1>5. Append(f, Head(w)) \in Seq(Cell)
    BY <1>1, AppendProperties
  <1>6. ASSUME NEW r \in Seq(Cell)
        PROVE  Append(f, Head(w)) \o (Tail(w) \o r) = f \o (w \o r)
    <2>1. (f \o w) \o r = f \o (w \o r)
      BY ConcatAssociative
    <2>2. \A s, t \in Seq(Cell) : (s \o t) \o r = s \o (t \o r)
      BY ConcatAssociative
    <2> QED
      BY <1>1, <1>4, <1>5, <2>1, <2>2
  <1> QED
    BY <1>1, <1>4, <1>5, <1>6

-----------------------------------------------------------------------------
(* The text in a call.  Every conjunct is about one program, at the step   *)
(* it is at, with what the call has read and written.                      *)

Local ==
    [key : Keys \cup {"none"}, size : Nat,
     head : Seq(Cell), data : Seq(Cell),
     got : BOOLEAN, err : {"none", "intr", "io"},
     todo : Seq(Seq(Cell)), wbuf : Seq(Cell), code : {-1, 0}]

Begins(s, t) == Len(s) <= Len(t) /\ \A n \in 1 .. Len(s) : s[n] = t[n]

(* An encryption reads one of the contents the input has had, unless the   *)
(* input is cut while it reads.                                            *)
ReadsText(label, l) ==
    /\ label # "head"
    /\ l.head = <<>> /\ l.data \in Seq(Plain)
    /\ label \in {"alloc", "read"} =>
          \/ cut
          \/ \E text \in versions :
                /\ Len(text) = l.size
                /\ Begins(text, file["in"]) /\ Begins(l.data, text)
    /\ label \in {"target", "aead"} => Genuine(l.data)

(* A decryption may read pieces of several encryptions, but the tag it has *)
(* read belongs to one of them.                                            *)
ReadsEnvelope(label, l) ==
    /\ label = "head" => Len(l.head) < HeaderSize
    /\ label \in {"size", "alloc", "read", "target", "aead"} =>
          Len(l.head) = HeaderSize /\ Sealed(l.head[HeaderSize])

ReadOK(p, label, l) ==
    /\ label # "idle" => l.key \in Keys
    /\ Len(l.data) <= l.size /\ Len(l.head) <= HeaderSize
    /\ label \in {"head", "size", "alloc"} => l.data = <<>>
    /\ Encrypts(p) => ReadsText(label, l)
    /\ ~Encrypts(p) => ReadsEnvelope(label, l)

(* The file, the buffer of the stream and the pieces to come make up the   *)
(* whole, as long as no write has failed; they are a beginning of it when  *)
(* one has.                                                                *)
WroteOK(p, label, l, f) ==
    /\ label \in {"head", "size", "alloc", "read", "target", "aead", "create",
                  "write"} => l.code = 0
    /\ label \in {"head", "size", "alloc", "read", "target", "aead",
                  "create"} => l.wbuf = <<>>
    /\ label = "create" =>
          Len(l.todo) <= 4 /\ IsWhole(p, l.key, Flat(l.todo))
    /\ label \in {"write", "close"} => IsBeginning(p, l.key, f \o l.wbuf)
    /\ label \in {"write", "close"} /\ l.code = 0 =>
          /\ Len(l.todo) <= 4
          /\ IsWhole(p, l.key, f \o (l.wbuf \o Flat(l.todo)))
    /\ label = "close" => l.todo = <<>>
    /\ f # Missing => \E key \in Keys : IsBeginning(p, key, f)

Typed ==
    /\ file \in [{"in", "enc", "out"} -> Seq(Cell)]
    /\ versions \subseteq Seq(Letters) /\ file["in"] \in versions
    /\ pc \in [Program -> Labels]
    /\ local \in [Program -> Local]
    /\ ret \in [Program -> {-1, 0, 1}]
    /\ calls \in [Program -> Nat] /\ \A p \in Program : calls[p] <= Calls[p]
    /\ cut \in BOOLEAN

Fine(p) ==
    ReadOK(p, pc[p], local[p]) /\ WroteOK(p, pc[p], local[p], file[Output(p)])

FInv == Typed /\ \A p \in Program : Fine(p)

-----------------------------------------------------------------------------
LEMMA Outputs ==
    /\ \A p \in Program :
          /\ Output(p) \in {"enc", "out"} /\ Output(p) # "in"
          /\ Input(p) \in {"in", "enc"}
    /\ \A p, q \in Program : p # q => Output(p) # Output(q)
    /\ \A p \in Program : p = "encrypt" \/ p = "decrypt"
  BY DEF Program, Output, Input, Encrypts

LEMMA CutIsBoolean ==
    ASSUME Typed
    PROVE  cut \in BOOLEAN
  BY DEF Typed

(* A step of one program that leaves the input alone: what it has read and *)
(* written is as it should be, and the other program stands where it was.  *)
LEMMA ProgramStep ==
    ASSUME FInv, NEW p \in Program, NEW label \in Labels, NEW l \in Local,
           NEW f \in Seq(Cell),
           pc' = [pc EXCEPT ![p] = label],
           local' = [local EXCEPT ![p] = l],
           file' = [file EXCEPT ![Output(p)] = f],
           UNCHANGED <<versions, cut>>,
           calls' \in [Program -> Nat],
           \A q \in Program : calls'[q] <= Calls[q],
           ret' \in [Program -> {-1, 0, 1}],
           ReadOK(p, label, l), WroteOK(p, label, l, f)
    PROVE  FInv'
  <1>1. /\ file'["in"] = file["in"] /\ file'[Output(p)] = f
        /\ file' \in [{"in", "enc", "out"} -> Seq(Cell)]
    BY Outputs DEF FInv, Typed
  <1>2. Typed'
    BY <1>1 DEF FInv, Typed
  <1>3. /\ \A tag : Sealed(tag) => Sealed(tag)'
        /\ \A q, key, w : IsWhole(q, key, w) => IsWhole(q, key, w)'
        /\ \A q, key, g : IsBeginning(q, key, g) => IsBeginning(q, key, g)'
    BY GenuineForever
  <1>4. ASSUME NEW q, NEW label2, NEW l2
        PROVE  ReadOK(q, label2, l2) => ReadOK(q, label2, l2)'
    BY <1>1, <1>3 DEF ReadOK, ReadsText, ReadsEnvelope, Genuine
  <1>5. ASSUME NEW q, NEW label2, NEW l2, NEW f2
        PROVE  WroteOK(q, label2, l2, f2) => WroteOK(q, label2, l2, f2)'
    BY <1>3 DEF WroteOK
  <1>6. ASSUME NEW q \in Program PROVE Fine(q)'
    <2>1. CASE q = p
      <3>1. pc'[q] = label /\ local'[q] = l /\ file'[Output(q)] = f
        BY <1>1, <2>1 DEF FInv, Typed
      <3>2. ReadOK(q, label, l)' /\ WroteOK(q, label, l, f)'
        BY <2>1, <1>4, <1>5
      <3> QED
        BY <3>1, <3>2 DEF Fine
    <2>2. CASE q # p
      <3>1. /\ pc'[q] = pc[q] /\ local'[q] = local[q]
            /\ file'[Output(q)] = file[Output(q)]
        BY <2>2, Outputs DEF FInv, Typed
      <3>2. /\ ReadOK(q, pc[q], local[q])
            /\ WroteOK(q, pc[q], local[q], file[Output(q)])
        BY DEF FInv, Fine
      <3>3. /\ \A a, b : ReadOK(q, a, b) => ReadOK(q, a, b)'
            /\ \A a, b, c : WroteOK(q, a, b, c) => WroteOK(q, a, b, c)'
        BY <1>4, <1>5
      <3> QED
        BY <3>1, <3>2, <3>3 DEF Fine
    <2> QED
      BY <2>1, <2>2
  <1> QED
    BY <1>2, <1>6 DEF FInv

(* The step leaves the files alone too.                                    *)
LEMMA QuietStep ==
    ASSUME FInv, NEW p \in Program, NEW label \in Labels, NEW l \in Local,
           pc' = [pc EXCEPT ![p] = label],
           local' = [local EXCEPT ![p] = l],
           UNCHANGED <<file, versions, cut>>,
           calls' \in [Program -> Nat],
           \A q \in Program : calls'[q] <= Calls[q],
           ret' \in [Program -> {-1, 0, 1}],
           ReadOK(p, label, l), WroteOK(p, label, l, file[Output(p)])
    PROVE  FInv'
  <1>1. /\ file[Output(p)] \in Seq(Cell)
        /\ file' = [file EXCEPT ![Output(p)] = file[Output(p)]]
    BY Outputs DEF FInv, Typed
  <1> QED
    BY <1>1, ProgramStep

(* What a step that makes no call and returns nothing leaves alone.        *)
LEMMA QuietCalls ==
    ASSUME FInv
    PROVE  /\ UNCHANGED calls => /\ calls' \in [Program -> Nat]
                                 /\ \A q \in Program : calls'[q] <= Calls[q]
           /\ Quiet => ret' \in [Program -> {-1, 0, 1}]
           /\ \A p \in Program, code \in {-1, 0, 1} :
                 ret' = [NoResult EXCEPT ![p] = code]
                     => ret' \in [Program -> {-1, 0, 1}]
  BY DEF FInv, Typed, Quiet, NoResult

LEMMA NoCallLocal ==
    /\ NoCall \in Local
    /\ \A p \in Program : ReadOK(p, "idle", NoCall)
    /\ NoCall.wbuf = <<>> /\ NoCall.todo = <<>> /\ NoCall.code = 0
    /\ NoCall.head = <<>> /\ NoCall.data = <<>>
  <1>1. /\ <<>> \in Seq(Cell) /\ <<>> \in Seq(Seq(Cell)) /\ <<>> \in Seq(Plain)
        /\ Len(<<>>) = 0
    OBVIOUS
  <1> QED
    BY <1>1 DEF NoCall, Local, ReadOK, ReadsText, ReadsEnvelope, HeaderSize

(* A return, whatever it frees, and a crash.                               *)
LEMMA LeaveFine ==
    ASSUME FInv, NEW p \in Program, NEW code \in {-1, 0}, NEW buffers,
           NEW streams, Leave(p, code, buffers, streams),
           UNCHANGED <<file, history>>
    PROVE  FInv'
  <1>1. /\ pc' = [pc EXCEPT ![p] = "idle"]
        /\ local' = [local EXCEPT ![p] = NoCall]
        /\ UNCHANGED <<calls, versions, cut>>
    BY DEF Leave, Goto, Set, history
  <1>2. WroteOK(p, "idle", NoCall, file[Output(p)])
    BY DEF FInv, Fine, WroteOK
  <1>3. /\ calls' \in [Program -> Nat]
        /\ \A q \in Program : calls'[q] <= Calls[q]
        /\ ret' \in [Program -> {-1, 0, 1}]
    BY <1>1, QuietCalls DEF Leave
  <1> QED
    BY <1>1, <1>2, <1>3, NoCallLocal, QuietStep DEF Labels

LEMMA CrashFine ==
    ASSUME FInv, NEW p \in Program, Crash(p)
    PROVE  FInv'
  <1>1. /\ pc' = [pc EXCEPT ![p] = "idle"]
        /\ local' = [local EXCEPT ![p] = NoCall]
        /\ UNCHANGED <<file, calls, versions, cut>> /\ Quiet
    BY DEF Crash, Goto, Set, history
  <1>2. WroteOK(p, "idle", NoCall, file[Output(p)])
    BY DEF FInv, Fine, WroteOK
  <1>3. /\ calls' \in [Program -> Nat]
        /\ \A q \in Program : calls'[q] <= Calls[q]
        /\ ret' \in [Program -> {-1, 0, 1}]
    BY <1>1, QuietCalls
  <1> QED
    BY <1>1, <1>2, <1>3, NoCallLocal, QuietStep DEF Labels

-----------------------------------------------------------------------------
(* Opening and measuring.                                                  *)

LEMMA Here ==
    ASSUME FInv, NEW p \in Program, NEW label, At(p, label)
    PROVE  /\ label \in Labels /\ local[p] \in Local
           /\ pc = [pc EXCEPT ![p] = label]
           /\ ReadOK(p, label, local[p])
           /\ WroteOK(p, label, local[p], file[Output(p)])
           /\ file[Output(p)] \in Seq(Cell) /\ file[Input(p)] \in Seq(Cell)
           /\ file["in"] \in Seq(Letters) /\ file["in"] \in versions
  BY Outputs DEF FInv, Typed, Fine, At

(* A step of p that only moves on and changes its record.                  *)
LEMMA MovesOn ==
    ASSUME FInv, NEW p \in Program, NEW label \in Labels, NEW l \in Local,
           Goto(p, label), Set(p, l), UNCHANGED <<file, history>>, Quiet,
           ReadOK(p, label, l), WroteOK(p, label, l, file[Output(p)])
    PROVE  FInv'
  BY QuietCalls, QuietStep DEF Goto, Set, history

LEMMA BeginFine ==
    ASSUME FInv, NEW p \in Program, NEW key \in Keys, Begin(p, key)
    PROVE  FInv'
  <1> DEFINE l == [NoCall EXCEPT !.key = key]
             label == IF Encrypts(p) THEN "size" ELSE "head"
  <1>1. /\ pc' = [pc EXCEPT ![p] = label]
        /\ local' = [local EXCEPT ![p] = l]
        /\ calls' = [calls EXCEPT ![p] = @ + 1] /\ calls[p] < Calls[p]
        /\ UNCHANGED <<file, versions, cut>> /\ Quiet
    BY DEF Begin, Goto, Set
  <1>2. /\ label \in Labels /\ l \in Local /\ l.key = key
        /\ l.head = <<>> /\ l.data = <<>> /\ l.size = 0
        /\ l.wbuf = <<>> /\ l.code = 0
    BY NoCallLocal DEF Labels, Local, NoCall
  <1>3. /\ calls' \in [Program -> Nat]
        /\ \A q \in Program : calls'[q] <= Calls[q]
    BY <1>1, CallsAssumption DEF FInv, Typed, Program
  <1>4. ret' \in [Program -> {-1, 0, 1}]
    BY <1>1, QuietCalls
  <1>5. ReadOK(p, label, l)
    <2>1. <<>> \in Seq(Plain) /\ Len(<<>>) = 0
      OBVIOUS
    <2>2. Len(l.data) = 0 /\ Len(l.head) = 0 /\ l.data \in Seq(Plain)
      BY <1>2, <2>1
    <2>3. CASE Encrypts(p)
      <3>1. label = "size"
        BY <2>3
      <3> HIDE DEF l, label
      <3> QED
        BY <1>2, <2>2, <2>3, <3>1 DEF ReadOK, ReadsText, HeaderSize
    <2>4. CASE ~Encrypts(p)
      <3>1. label = "head"
        BY <2>4
      <3> HIDE DEF l, label
      <3> QED
        BY <1>2, <2>2, <2>4, <3>1 DEF ReadOK, ReadsEnvelope, HeaderSize
    <2> QED
      BY <2>3, <2>4
  <1>6. WroteOK(p, label, l, file[Output(p)])
    BY <1>2, Outputs DEF FInv, Fine, WroteOK
  <1> QED
    BY <1>1, <1>2, <1>3, <1>4, <1>5, <1>6, QuietStep

LEMMA FirstCell ==
    ASSUME NEW x \in Cell, NEW s \in Seq(Cell)
    PROVE  /\ <<x>> \o s \in Seq(Cell) /\ Len(<<x>> \o s) = 1 + Len(s)
           /\ (<<x>> \o s)[1] = x
           /\ \A i \in 1 .. Len(s) : (<<x>> \o s)[i + 1] = s[i]
  <1> DEFINE h == <<x>>
  <1>1. h \in Seq(Cell) /\ Len(h) = 1 /\ h[1] = x
    OBVIOUS
  <1> HIDE DEF h
  <1>2. /\ h \o s \in Seq(Cell) /\ Len(h \o s) = Len(h) + Len(s)
        /\ \A i \in 1 .. Len(h) + Len(s) :
              (h \o s)[i] = IF i <= Len(h) THEN h[i] ELSE s[i - Len(h)]
    BY <1>1, ConcatProperties
  <1>3. Len(s) \in Nat
    OBVIOUS
  <1>4. (h \o s)[1] = x
    BY <1>1, <1>2, <1>3
  <1>5. \A i \in 1 .. Len(s) : (h \o s)[i + 1] = s[i]
    <2> SUFFICES ASSUME NEW i \in 1 .. Len(s) PROVE (h \o s)[i + 1] = s[i]
      OBVIOUS
    <2>1. i + 1 \in 1 .. 1 + Len(s) /\ ~(i + 1 <= 1) /\ (i + 1) - 1 = i
      BY <1>3
    <2> QED
      BY <1>1, <1>2, <2>1
  <1> QED
    BY <1>1, <1>2, <1>4, <1>5 DEF h

(* An encrypted file, cell by cell.                                        *)
LEMMA EnvelopeCells ==
    ASSUME NEW key \in Keys, NEW nonce \in Nonce, NEW text \in Seq(Plain)
    PROVE  LET s == Stream(key, nonce)
               e == Envelope(key, nonce, text)
               c == MaskAll(s, text)
           IN  /\ e \in Seq(Cell) /\ Len(e) = HeaderSize + Len(text)
               /\ e[1] = Magic /\ e[2] = nonce /\ e[3] = Tag(s, Aad, c)
               /\ SubSeq(e, HeaderSize + 1, Len(e)) = c
               /\ e = <<Magic>> \o (<<nonce>> \o (<<Tag(s, Aad, c)>> \o c))
               /\ Tag(s, Aad, c) \in Cell /\ c \in Seq(Cell)
  <1> DEFINE s == Stream(key, nonce)
             e == Envelope(key, nonce, text)
             c == MaskAll(s, text)
             t == Tag(s, Aad, c)
  <1>1. /\ c \in Seq(Masked) /\ Len(c) = Len(text) /\ c \in Seq(Cell)
        /\ Len(c) \in Nat
    <2>1. c \in Seq(Masked) /\ Len(c) = Len(text)
      BY MaskAllTwice
    <2> QED
      BY <2>1, CellSeqs, LenProperties
  <1>2. t \in Cell /\ Magic \in Cell /\ nonce \in Cell
    BY <1>1, CellSets DEF Tags
  <1>3. e = <<Magic, nonce, t>> \o c
    BY DEF Envelope, Seal
  <1> HIDE DEF c, t
  <1> DEFINE h == <<Magic, nonce, t>>
  <1>4. /\ h \in Seq(Cell) /\ Len(h) = 3
        /\ h[1] = Magic /\ h[2] = nonce /\ h[3] = t
    BY <1>2
  <1> HIDE DEF h
  <1>5. /\ e \in Seq(Cell) /\ Len(e) = 3 + Len(c)
        /\ e[1] = Magic /\ e[2] = nonce /\ e[3] = t
        /\ \A n \in 4 .. Len(e) : e[n] = c[n - 3]
    <2>1. e = h \o c
      BY <1>3 DEF h
    <2> HIDE DEF e
    <2>2. /\ h \o c \in Seq(Cell) /\ Len(h \o c) = Len(h) + Len(c)
          /\ \A i \in 1 .. Len(h) + Len(c) :
                (h \o c)[i] = IF i <= Len(h) THEN h[i] ELSE c[i - Len(h)]
      <3>1. h \in Seq(Cell) /\ c \in Seq(Cell)
        BY <1>1, <1>4
      <3> QED
        BY <3>1, ConcatProperties
    <2> QED
      BY <1>1, <1>4, <2>1, <2>2
  <1> HIDE DEF e
  <1>6. SubSeq(e, 4, Len(e)) = c
    <2>1. \A i \in 4 .. Len(e) : e[i] \in Cell
      BY <1>1, <1>5
    <2>2. /\ SubSeq(e, 4, Len(e)) \in Seq(Cell)
          /\ Len(SubSeq(e, 4, Len(e)))
                = IF 4 <= Len(e) THEN Len(e) - 4 + 1 ELSE 0
          /\ \A i \in 1 .. Len(e) - 4 + 1 :
                SubSeq(e, 4, Len(e))[i] = e[4 + i - 1]
      BY <1>1, <1>5, <2>1, SubSeqProperties
    <2> DEFINE b == SubSeq(e, 4, Len(e))
    <2>3. b \in Seq(Cell)
      BY <2>2
    <2>4. Len(b) = Len(c)
      BY <1>1, <1>5, <2>2
    <2>5. \A i \in 1 .. Len(b) : b[i] = c[i]
      BY <1>1, <1>5, <2>2, <2>4
    <2> HIDE DEF b
    <2>6. b = c
      BY <1>1, <2>3, <2>4, <2>5, SeqEqual
    <2> QED
      BY <2>6 DEF b
  <1>7. e = <<Magic>> \o (<<nonce>> \o (<<t>> \o c))
    <2> DEFINE u == <<t>> \o c
               n == <<nonce>> \o u
               m == <<Magic>> \o n
    <2>1. /\ u \in Seq(Cell) /\ Len(u) = 1 + Len(c) /\ u[1] = t
          /\ \A i \in 1 .. Len(c) : u[i + 1] = c[i]
      BY <1>1, <1>2, FirstCell
    <2> HIDE DEF u
    <2>2. /\ n \in Seq(Cell) /\ Len(n) = 1 + Len(u) /\ n[1] = nonce
          /\ \A i \in 1 .. Len(u) : n[i + 1] = u[i]
      BY <1>2, <2>1, FirstCell
    <2> HIDE DEF n
    <2>3. /\ m \in Seq(Cell) /\ Len(m) = 1 + Len(n) /\ m[1] = Magic
          /\ \A i \in 1 .. Len(n) : m[i + 1] = n[i]
      BY <1>2, <2>2, FirstCell
    <2> HIDE DEF m
    <2>4. Len(m) = Len(e) /\ Len(u) \in Nat /\ Len(n) \in Nat
      BY <1>1, <1>5, <2>1, <2>2, <2>3
    <2>5. ASSUME NEW i \in 1 .. Len(e) PROVE e[i] = m[i]
      <3>1. CASE i = 1
        BY <1>5, <2>3, <3>1
      <3>2. CASE i = 2
        <4>1. m[1 + 1] = n[1]
          BY <1>1, <2>1, <2>2, <2>3
        <4> QED
          BY <1>5, <2>2, <3>2, <4>1
      <3>3. CASE i = 3
        <4>1. n[1 + 1] = u[1] /\ m[2 + 1] = n[2]
          BY <1>1, <2>1, <2>2, <2>3
        <4> QED
          BY <1>5, <2>1, <3>3, <4>1
      <3>4. CASE i \in 4 .. Len(e)
        <4>1. /\ i - 3 \in 1 .. Len(c) /\ i - 2 \in 1 .. Len(u)
              /\ i - 1 \in 1 .. Len(n)
          BY <1>1, <1>5, <2>1, <2>2, <2>4, <3>4
        <4>2. /\ u[(i - 3) + 1] = c[i - 3] /\ n[(i - 2) + 1] = u[i - 2]
              /\ m[(i - 1) + 1] = n[i - 1]
          BY <2>1, <2>2, <2>3, <4>1
        <4>3. /\ (i - 3) + 1 = i - 2 /\ (i - 2) + 1 = i - 1
              /\ (i - 1) + 1 = i
          OBVIOUS
        <4>4. m[i] = c[i - 3]
          BY <4>2, <4>3
        <4> QED
          BY <1>5, <3>4, <4>4
      <3> QED
        BY <1>1, <1>5, <3>1, <3>2, <3>3, <3>4
    <2>6. e = m
      BY <1>5, <2>3, <2>4, <2>5, SeqEqual
    <2> QED
      BY <2>6 DEF m, n, u
  <1> QED
    BY <1>1, <1>2, <1>5, <1>6, <1>7 DEF HeaderSize, e, t, c

(* The third cell that a decryption reads is a tag.                        *)
LEMMA TagInFile ==
    ASSUME FInv, Len(file["enc"]) >= HeaderSize
    PROVE  Sealed(file["enc"][HeaderSize])
  <1>1. /\ WroteOK("encrypt", pc["encrypt"], local["encrypt"], file["enc"])
        /\ file["enc"] \in Seq(Cell)
    BY DEF FInv, Typed, Fine, Program, Output, Encrypts
  <1>2. file["enc"] # Missing
    <2>1. Len(Missing) = 1
      BY DEF Missing
    <2>2. Len(file["enc"]) # 1
      <3>1. Len(file["enc"]) \in Nat
        BY <1>1
      <3>2. \A n \in Nat : n >= HeaderSize => n # 1
        BY DEF HeaderSize
      <3> QED
        BY <3>1, <3>2
    <2> QED
      BY <2>1, <2>2
  <1>3. PICK key \in Keys : IsBeginning("encrypt", key, file["enc"])
    BY <1>1, <1>2 DEF WroteOK
  <1>4. PICK rest \in Seq(Cell) :
            IsWhole("encrypt", key, file["enc"] \o rest)
    BY <1>3 DEF IsBeginning
  <1>5. PICK text \in Seq(Plain), nonce \in Nonce :
            /\ Genuine(text)
            /\ file["enc"] \o rest = Envelope(key, nonce, text)
    BY <1>4 DEF IsWhole, Encrypts
  <1>6. file["enc"][3] = (file["enc"] \o rest)[3]
    <2>1. Len(file["enc"]) \in Nat /\ Len(rest) \in Nat
      BY <1>1
    <2>2. 3 \in 1 .. Len(file["enc"]) + Len(rest) /\ 3 <= Len(file["enc"])
      BY <2>1 DEF HeaderSize
    <2> QED
      BY <1>1, <2>2, ConcatProperties
  <1>7. file["enc"][3]
            = Tag(Stream(key, nonce), Aad, MaskAll(Stream(key, nonce), text))
    <2>1. Envelope(key, nonce, text)[3]
            = Tag(Stream(key, nonce), Aad, MaskAll(Stream(key, nonce), text))
      BY EnvelopeCells
    <2> QED
      BY <1>5, <1>6, <2>1
  <1> QED
    BY <1>5, <1>7 DEF Sealed, HeaderSize

(* The next cell of the input is a cell; that of a text is a letter.       *)
LEMMA NextCellType ==
    ASSUME FInv, NEW p \in Program, More(p)
    PROVE  /\ NextCell(p) \in Cell
           /\ NextCell(p) = file[Input(p)][Offset(p) + 1]
           /\ Offset(p) + 1 \in 1 .. Len(file[Input(p)])
           /\ Encrypts(p) => NextCell(p) \in Letters
  <1>1. /\ file[Input(p)] \in Seq(Cell) /\ local[p] \in Local
        /\ Encrypts(p) => file[Input(p)] \in Seq(Letters)
    BY Outputs DEF FInv, Typed, Input
  <1>2. Len(local[p].head) \in Nat /\ Len(local[p].data) \in Nat
    BY <1>1 DEF Local
  <1>3. Offset(p) \in Nat /\ Len(file[Input(p)]) \in Nat
    <2>1. Len(file[Input(p)]) \in Nat
      BY <1>1
    <2>2. Offset(p) = Len(local[p].head) + Len(local[p].data)
      BY DEF Offset
    <2>3. \A a, b \in Nat : a + b \in Nat
      OBVIOUS
    <2>4. Offset(p) \in Nat
      BY <1>2, <2>2, <2>3
    <2> QED
      BY <2>1, <2>4
  <1>4. Offset(p) + 1 \in 1 .. Len(file[Input(p)])
    BY <1>3 DEF More
  <1> QED
    BY <1>1, <1>4, ElementOfSeq DEF NextCell

LEMMA ReadHeadFine ==
    ASSUME FInv, NEW p \in Program, ReadHead(p)
    PROVE  FInv'
  <1> DEFINE h == Append(local[p].head, NextCell(p))
             l == [local[p] EXCEPT !.head = h]
             label == IF Len(h) = HeaderSize THEN "size" ELSE "head"
  <1>1. /\ local[p] \in Local /\ ReadOK(p, "head", local[p])
        /\ WroteOK(p, "head", local[p], file[Output(p)])
    BY Here DEF ReadHead
  <1>2. /\ ~Encrypts(p) /\ local[p].key \in Keys /\ local[p].data = <<>>
        /\ Len(local[p].head) < HeaderSize /\ local[p].head \in Seq(Cell)
    BY <1>1 DEF ReadOK, ReadsText, ReadsEnvelope, Local
  <1>3. CASE Leave(p, -1, {}, {"fin"})
    BY <1>3, LeaveFine DEF ReadHead
  <1>4. CASE Set(p, l) /\ Goto(p, label) /\ UNCHANGED <<heap, open>> /\ Quiet
    <2>1. /\ h \in Seq(Cell) /\ Len(h) = Len(local[p].head) + 1
          /\ h[Len(local[p].head) + 1] = NextCell(p)
      BY <1>2, NextCellType, AppendProperties DEF ReadHead
    <2>2. Len(local[p].head) \in Nat /\ Len(h) <= HeaderSize
      BY <1>2, <2>1 DEF HeaderSize
    <2>3. /\ l \in Local /\ l.head = h /\ l.key = local[p].key
          /\ l.data = local[p].data /\ l.size = local[p].size
          /\ l.wbuf = local[p].wbuf /\ l.code = local[p].code
      BY <1>1, <2>1 DEF Local
    <2>4. Len(h) = HeaderSize => Sealed(h[HeaderSize])
      <3> SUFFICES ASSUME Len(h) = HeaderSize PROVE Sealed(h[HeaderSize])
        OBVIOUS
      <3>1. Offset(p) + 1 = HeaderSize
        <4>1. Len(local[p].data) = 0
          BY <1>2
        <4> QED
          BY <2>1, <2>2, <4>1 DEF Offset
      <3>2. /\ NextCell(p) = file["enc"][HeaderSize]
            /\ HeaderSize \in 1 .. Len(file["enc"])
            /\ file["enc"] \in Seq(Cell)
        BY <1>2, <3>1, NextCellType, Here DEF ReadHead, Input
      <3>3. Len(file["enc"]) >= HeaderSize
        <4>1. Len(file["enc"]) \in Nat
          BY <3>2
        <4> QED
          BY <3>2, <4>1
      <3> QED
        BY <2>1, <2>2, <3>2, <3>3, TagInFile
    <2>5. label \in Labels /\ (label = "size" \/ label = "head")
          /\ (label = "size" => Len(h) = HeaderSize)
          /\ (label = "head" => Len(h) # HeaderSize)
      BY DEF Labels
    <2> HIDE DEF l, label, h
    <2>6. ReadOK(p, label, l)
      <3>1. Len(h) # HeaderSize => Len(h) < HeaderSize
        BY <2>1, <2>2 DEF HeaderSize
      <3>2. Len(l.data) <= l.size
        BY <1>1, <2>3 DEF ReadOK
      <3> QED
        BY <1>2, <2>2, <2>3, <2>4, <2>5, <3>1, <3>2 DEF ReadOK, ReadsEnvelope
    <2>7. WroteOK(p, label, l, file[Output(p)])
      BY <1>1, <2>3, <2>5 DEF WroteOK
    <2> QED
      BY <1>4, <2>3, <2>5, <2>6, <2>7, MovesOn DEF ReadHead
  <1> QED
    BY <1>3, <1>4 DEF ReadHead

LEMMA SizeFine ==
    ASSUME FInv, NEW p \in Program, Size(p)
    PROVE  FInv'
  <1> DEFINE n == Len(file[Input(p)]) - (IF Encrypts(p) THEN 0 ELSE HeaderSize)
             l == [local[p] EXCEPT !.size = n]
  <1>1. /\ local[p] \in Local /\ ReadOK(p, "size", local[p])
        /\ WroteOK(p, "size", local[p], file[Output(p)])
        /\ file[Input(p)] \in Seq(Cell) /\ file["in"] \in versions
        /\ file["in"] \in Seq(Letters)
    BY Here DEF Size
  <1>2. CASE Leave(p, -1, {}, {"fin"})
    BY <1>2, LeaveFine DEF Size
  <1>3. CASE ~Leave(p, -1, {}, {"fin"})
    <2>1. /\ Set(p, l) /\ Goto(p, "alloc") /\ Quiet
          /\ Len(file[Input(p)])
                >= IF Encrypts(p) THEN 0 ELSE HeaderSize
      <3>1. Len(file[Input(p)]) \in Nat
        BY <1>1
      <3> QED
        BY <1>3, <3>1 DEF Size, HeaderSize
    <2>2. n \in Nat
      <3>1. Len(file[Input(p)]) \in Nat
        BY <1>1
      <3> QED
        BY <2>1, <3>1 DEF HeaderSize
    <2>3. Encrypts(p) => n = Len(file["in"])
      <3>1. Len(file["in"]) \in Nat
        BY <1>1
      <3> QED
        BY <3>1 DEF Input
    <2> HIDE DEF n
    <2>4. /\ l \in Local /\ l.size = n /\ l.head = local[p].head
          /\ l.data = local[p].data /\ l.key = local[p].key
          /\ l.wbuf = local[p].wbuf /\ l.code = local[p].code
      BY <1>1, <2>2 DEF Local
    <2> HIDE DEF l
    <2>5. ReadOK(p, "alloc", l)
      <3>1. l.data = <<>> /\ Len(l.data) = 0 /\ <<>> \in Seq(Plain)
        BY <1>1, <2>4 DEF ReadOK
      <3>2. ASSUME Encrypts(p) PROVE ReadsText("alloc", l)
        <4>1. /\ Len(file["in"]) = l.size
              /\ Begins(file["in"], file["in"]) /\ Begins(l.data, file["in"])
          <5>1. Len(file["in"]) \in Nat
            BY <1>1
          <5> QED
            BY <2>3, <2>4, <3>1, <3>2, <5>1 DEF Begins
        <4> QED
          BY <1>1, <2>4, <3>1, <3>2, <4>1 DEF ReadOK, ReadsText
      <3> QED
        BY <1>1, <2>2, <2>4, <3>1, <3>2 DEF ReadOK, ReadsEnvelope
    <2>6. WroteOK(p, "alloc", l, file[Output(p)])
      BY <1>1, <2>4 DEF WroteOK
    <2> QED
      BY <2>1, <2>4, <2>5, <2>6, MovesOn DEF Size, Labels
  <1> QED
    BY <1>2, <1>3

(* Steps that only move on.                                                *)
LEMMA AllocFine ==
    ASSUME FInv, NEW p \in Program, AllocSource(p) \/ AllocTarget(p)
    PROVE  FInv'
  <1>1. /\ UNCHANGED <<file, local, calls, versions, cut>> /\ Quiet
        /\ local' = [local EXCEPT ![p] = local[p]]
    BY DEF AllocSource, AllocTarget, history, FInv, Typed
  <1>2. CASE AllocSource(p)
    <2>1. /\ local[p] \in Local /\ ReadOK(p, "alloc", local[p])
          /\ WroteOK(p, "alloc", local[p], file[Output(p)])
      BY <1>2, Here DEF AllocSource
    <2>2. ReadOK(p, "read", local[p])
      BY <2>1 DEF ReadOK, ReadsText, ReadsEnvelope
    <2>3. WroteOK(p, "read", local[p], file[Output(p)])
      BY <2>1 DEF WroteOK
    <2> QED
      BY <1>1, <1>2, <2>1, <2>2, <2>3, MovesOn
         DEF AllocSource, Labels, Set
  <1>3. CASE AllocTarget(p)
    <2>1. /\ local[p] \in Local /\ ReadOK(p, "target", local[p])
          /\ WroteOK(p, "target", local[p], file[Output(p)])
      BY <1>3, Here DEF AllocTarget
    <2>2. ReadOK(p, "aead", local[p])
      BY <2>1 DEF ReadOK, ReadsText, ReadsEnvelope
    <2>3. WroteOK(p, "aead", local[p], file[Output(p)])
      BY <2>1 DEF WroteOK
    <2> QED
      BY <1>1, <1>3, <2>1, <2>2, <2>3, MovesOn
         DEF AllocTarget, Labels, Set
  <1> QED
    BY <1>2, <1>3

-----------------------------------------------------------------------------
(* Reading.                                                                *)

LEMMA ReadCellFine ==
    ASSUME FInv, NEW p \in Program, ReadCell(p)
    PROVE  FInv'
  <1> DEFINE d == Append(local[p].data, NextCell(p))
             l == [local[p] EXCEPT !.data = d, !.got = TRUE]
  <1>1. /\ local[p] \in Local /\ ReadOK(p, "read", local[p])
        /\ WroteOK(p, "read", local[p], file[Output(p)])
        /\ pc' = [pc EXCEPT ![p] = "read"]
        /\ Len(local[p].data) < local[p].size /\ More(p)
    BY Here DEF ReadCell, Reading
  <1>2. Set(p, l) /\ UNCHANGED <<file, history>> /\ Quiet
    BY DEF ReadCell
  <1>3. /\ NextCell(p) \in Cell
        /\ Encrypts(p) => NextCell(p) \in Letters
        /\ NextCell(p) = file[Input(p)][Offset(p) + 1]
    BY <1>1, NextCellType
  <1>4. /\ d \in Seq(Cell) /\ Len(d) = Len(local[p].data) + 1
        /\ Len(local[p].data) \in Nat /\ local[p].size \in Nat
        /\ \A n \in 1 .. Len(local[p].data) : d[n] = local[p].data[n]
        /\ d[Len(local[p].data) + 1] = NextCell(p)
    <2>1. local[p].data \in Seq(Cell) /\ local[p].size \in Nat
      BY <1>1 DEF Local
    <2>2. Len(local[p].data) \in Nat
      BY <2>1
    <2> QED
      BY <1>3, <2>1, <2>2, AppendProperties
  <1>5. Encrypts(p) => d \in Seq(Plain)
    <2> SUFFICES ASSUME Encrypts(p) PROVE d \in Seq(Plain)
      OBVIOUS
    <2>1. local[p].data \in Seq(Plain) /\ NextCell(p) \in Plain
      BY <1>1, <1>3, CellSets DEF ReadOK, ReadsText
    <2> QED
      BY <2>1, AppendProperties
  <1> HIDE DEF d
  <1>6. /\ l \in Local /\ l.data = d /\ l.head = local[p].head
        /\ l.key = local[p].key /\ l.size = local[p].size
        /\ l.wbuf = local[p].wbuf /\ l.code = local[p].code
    BY <1>1, <1>4 DEF Local
  <1> HIDE DEF l
  <1>7. Len(d) <= l.size
    BY <1>1, <1>4, <1>6
  <1>8. ASSUME Encrypts(p) PROVE ReadsText("read", l)
    <2>1. CASE cut
      BY <1>1, <1>5, <1>6, <1>8, <2>1 DEF ReadOK, ReadsText
    <2>2. CASE ~cut
      <3>1. PICK text \in versions :
                /\ Len(text) = local[p].size
                /\ Begins(text, file["in"]) /\ Begins(local[p].data, text)
        BY <1>1, <1>8, <2>2 DEF ReadOK, ReadsText
      <3>2. Offset(p) = Len(local[p].data) /\ Input(p) = "in"
        <4>1. local[p].head = <<>> /\ Len(<<>>) = 0
          BY <1>1, <1>8 DEF ReadOK, ReadsText
        <4> QED
          BY <1>4, <1>8, <4>1 DEF Offset, Input
      <3>3. d[Len(local[p].data) + 1] = text[Len(local[p].data) + 1]
        <4>1. Len(local[p].data) + 1 \in 1 .. Len(text)
          BY <1>1, <1>4, <3>1
        <4> QED
          BY <1>3, <1>4, <3>1, <3>2, <4>1 DEF Begins
      <3>4. Begins(d, text)
        <4>1. \A n \in 1 .. Len(d) :
                  n \in 1 .. Len(local[p].data) \/ n = Len(local[p].data) + 1
          BY <1>4
        <4>2. \A n \in 1 .. Len(d) : d[n] = text[n]
          BY <1>4, <3>1, <3>3, <4>1 DEF Begins
        <4> QED
          BY <1>6, <1>7, <3>1, <4>2 DEF Begins
      <3> QED
        BY <1>1, <1>5, <1>6, <1>8, <3>1, <3>4 DEF ReadOK, ReadsText
    <2> QED
      BY <2>1, <2>2
  <1>9. ReadOK(p, "read", l)
    BY <1>1, <1>6, <1>7, <1>8 DEF ReadOK, ReadsEnvelope
  <1>10. WroteOK(p, "read", l, file[Output(p)])
    BY <1>1, <1>6 DEF WroteOK
  <1> QED
    BY <1>1, <1>2, <1>6, <1>9, <1>10, MovesOn DEF Labels, Goto

(* A call of fread that ends short.  Without an error, it does so because  *)
(* the input was cut.                                                      *)
LEMMA ShortFine ==
    ASSUME FInv, NEW p \in Program, NEW err \in {"none", "intr", "io"},
           Reading(p), Short(p, err), err = "none" => ~More(p)
    PROVE  FInv'
  <1>1. /\ local[p] \in Local /\ ReadOK(p, "read", local[p])
        /\ WroteOK(p, "read", local[p], file[Output(p)])
        /\ pc = [pc EXCEPT ![p] = "read"]
        /\ Len(local[p].data) < local[p].size
        /\ UNCHANGED <<file, history>>
    BY Here DEF Reading, Short
  <1>2. ASSUME NEW l \in Local, Set(p, l), UNCHANGED pc, Quiet,
               l.head = local[p].head, l.size = local[p].size,
               l.key = local[p].key, l.wbuf = local[p].wbuf,
               l.code = local[p].code, ReadOK(p, "read", l)
        PROVE  FInv'
    <2>1. WroteOK(p, "read", l, file[Output(p)])
      BY <1>1, <1>2 DEF WroteOK
    <2> QED
      BY <1>1, <1>2, <2>1, MovesOn DEF Labels, Goto
  <1>3. CASE AgainAfterSome(p, err)
    <2> DEFINE l == [local[p] EXCEPT !.got = FALSE, !.err = err]
    <2>1. /\ l \in Local /\ l.head = local[p].head /\ l.size = local[p].size
          /\ l.key = local[p].key /\ l.wbuf = local[p].wbuf
          /\ l.code = local[p].code /\ l.data = local[p].data
      BY <1>1 DEF Local
    <2>2. Set(p, l) /\ UNCHANGED pc /\ Quiet
      BY <1>3 DEF AgainAfterSome
    <2> HIDE DEF l
    <2>3. ReadOK(p, "read", l)
      BY <1>1, <2>1 DEF ReadOK, ReadsText, ReadsEnvelope
    <2> QED
      BY <1>2, <2>1, <2>2, <2>3
  <1>4. CASE AgainAfterNothing(p, err)
    <2> DEFINE l == [local[p] EXCEPT !.err = err]
    <2>1. /\ l \in Local /\ l.head = local[p].head /\ l.size = local[p].size
          /\ l.key = local[p].key /\ l.wbuf = local[p].wbuf
          /\ l.code = local[p].code /\ l.data = local[p].data
      BY <1>1 DEF Local
    <2>2. Set(p, l) /\ UNCHANGED pc /\ Quiet
      BY <1>4 DEF AgainAfterNothing
    <2> HIDE DEF l
    <2>3. ReadOK(p, "read", l)
      BY <1>1, <2>1 DEF ReadOK, ReadsText, ReadsEnvelope
    <2> QED
      BY <1>2, <2>1, <2>2, <2>3
  <1>5. CASE GiveUp(p, err)
    BY <1>1, <1>5, LeaveFine DEF GiveUp
  <1>6. CASE BreakOff(p, err)
    <2> DEFINE old == local[p].data
               d == [n \in 1 .. local[p].size |->
                        IF n <= Len(old) THEN old[n] ELSE Junk]
               l == [local[p] EXCEPT !.data = d]
    <2>1. /\ Encrypts(p) /\ err = "none" /\ ~More(p)
          /\ UNCHANGED pc /\ Quiet
          /\ old \in Seq(Plain) /\ local[p].size \in Nat
          /\ local[p].head = <<>>
      BY <1>1, <1>6 DEF BreakOff, ReadOK, ReadsText, Local
    <2>2. Set(p, l)
      BY <1>6 DEF BreakOff
    <2>3. d \in Seq(Plain) /\ Len(d) = local[p].size
      <3>1. \A n \in 1 .. local[p].size :
                (IF n <= Len(old) THEN old[n] ELSE Junk) \in Plain
        <4>1. Len(old) \in Nat
          BY <2>1
        <4> QED
          BY <2>1, <4>1, CellSets
      <3> QED
        BY <2>1, <3>1
    <2> HIDE DEF d
    <2>4. /\ l \in Local /\ l.head = local[p].head /\ l.size = local[p].size
          /\ l.key = local[p].key /\ l.wbuf = local[p].wbuf
          /\ l.code = local[p].code /\ l.data = d
      BY <1>1, <2>3, CellSeqs DEF Local
    <2> HIDE DEF l
    <2>5. cut
      <3> SUFFICES ASSUME ~cut PROVE FALSE
        OBVIOUS
      <3>1. PICK text \in versions :
                Len(text) = local[p].size /\ Begins(text, file["in"])
        BY <1>1, <2>1 DEF ReadOK, ReadsText
      <3>2. local[p].size <= Len(file["in"])
        BY <3>1 DEF Begins
      <3>3. Offset(p) = Len(old) /\ Len(old) \in Nat
        <4>1. Len(<<>>) = 0 /\ Len(old) \in Nat
          BY <2>1
        <4> QED
          BY <2>1, <4>1 DEF Offset
      <3>4. Len(file["in"]) \in Nat
        BY DEF FInv, Typed
      <3>5. ~(Len(old) < Len(file["in"]))
        BY <2>1, <3>3 DEF More, Input
      <3> QED
        BY <1>1, <2>1, <3>2, <3>3, <3>4, <3>5
    <2>6. ReadOK(p, "read", l)
      <3>1. Len(l.data) <= l.size
        BY <2>1, <2>3, <2>4
      <3> QED
        BY <1>1, <2>1, <2>3, <2>4, <2>5, <3>1 DEF ReadOK, ReadsText
    <2> QED
      BY <1>2, <2>1, <2>2, <2>4, <2>6
  <1> QED
    BY <1>3, <1>4, <1>5, <1>6 DEF Short

LEMMA ReadDoneFine ==
    ASSUME FInv, NEW p \in Program, ReadDone(p)
    PROVE  FInv'
  <1> DEFINE l == [local[p] EXCEPT !.got = FALSE, !.err = "none"]
  <1>1. /\ local[p] \in Local /\ ReadOK(p, "read", local[p])
        /\ WroteOK(p, "read", local[p], file[Output(p)])
        /\ Len(local[p].data) = local[p].size
    BY Here DEF ReadDone
  <1>2. /\ l \in Local /\ l.head = local[p].head /\ l.size = local[p].size
        /\ l.key = local[p].key /\ l.wbuf = local[p].wbuf
        /\ l.code = local[p].code /\ l.data = local[p].data
    BY <1>1 DEF Local
  <1>3. Set(p, l)
    BY DEF ReadDone
  <1> HIDE DEF l
  <1>4. ASSUME Encrypts(p) PROVE Genuine(l.data)
    <2>1. l.data \in Seq(Plain)
      BY <1>1, <1>2, <1>4 DEF ReadOK, ReadsText
    <2>2. ASSUME ~cut PROVE l.data \in versions
      <3>1. PICK text \in versions :
                Len(text) = local[p].size /\ Begins(local[p].data, text)
        BY <1>1, <1>4, <2>2 DEF ReadOK, ReadsText
      <3>2. text \in Seq(Plain)
        BY CellSeqs DEF FInv, Typed
      <3>3. l.data = text
        BY <1>1, <1>2, <2>1, <3>1, <3>2, SeqEqual DEF Begins
      <3> QED
        BY <3>3
    <2> QED
      BY <2>1, <2>2 DEF Genuine
  <1>5. ReadOK(p, "target", l)
    BY <1>1, <1>2, <1>4 DEF ReadOK, ReadsText, ReadsEnvelope
  <1>6. WroteOK(p, "target", l, file[Output(p)])
    BY <1>1, <1>2 DEF WroteOK
  <1> QED
    BY <1>2, <1>3, <1>5, <1>6, MovesOn DEF ReadDone, Labels

-----------------------------------------------------------------------------
(* Sealing, and its inverse.                                               *)

LEMMA SealFine ==
    ASSUME FInv, NEW p \in Program, NEW nonce \in Nonces, SealText(p, nonce)
    PROVE  FInv'
  <1> DEFINE text == local[p].data
             key == local[p].key
             s == Stream(key, nonce)
             c == MaskAll(s, text)
             t == Tag(s, Aad, c)
             todo == << <<Magic>>, <<nonce>>, <<t>>, c >>
             l == [local[p] EXCEPT !.data = <<>>, !.size = 0, !.todo = todo]
  <1>1. /\ local[p] \in Local /\ ReadOK(p, "aead", local[p])
        /\ WroteOK(p, "aead", local[p], file[Output(p)])
        /\ Encrypts(p)
    BY Here DEF SealText
  <1>2. key \in Keys /\ nonce \in Nonce /\ text \in Seq(Plain) /\ Genuine(text)
    BY <1>1 DEF ReadOK, ReadsText, Nonce
  <1>3. Set(p, l)
    BY DEF SealText, Seal
  <1> HIDE DEF text, key
  <1>4. /\ t \in Cell /\ c \in Seq(Cell)
        /\ Envelope(key, nonce, text)
              = <<Magic>> \o (<<nonce>> \o (<<t>> \o c))
    BY <1>2, EnvelopeCells
  <1>5. todo \in Seq(Seq(Cell)) /\ Len(todo) = 4 /\ Len(todo) <= 4
    <2> HIDE DEF t, c
    <2>1. /\ <<Magic>> \in Seq(Cell) /\ <<nonce>> \in Seq(Cell)
          /\ <<t>> \in Seq(Cell) /\ c \in Seq(Cell)
      BY <1>2, <1>4, CellSets
    <2>2. todo \in Seq(Seq(Cell)) /\ Len(todo) = 4
      BY <2>1
    <2> QED
      BY <2>2
  <1>6. Flat(todo) = Envelope(key, nonce, text)
    <2>1. /\ todo[1] = <<Magic>> /\ todo[2] = <<nonce>>
          /\ todo[3] = <<t>> /\ todo[4] = c
      OBVIOUS
    <2>2. Flat(todo) = todo[1] \o (todo[2] \o (todo[3] \o todo[4]))
      <3> HIDE DEF todo
      <3>1. Len(todo) = 4
        BY <1>5
      <3> QED
        BY <3>1, FlatEach
    <2> QED
      BY <1>4, <2>1, <2>2
  <1>7. IsWhole(p, key, Flat(todo))
    BY <1>1, <1>2, <1>6 DEF IsWhole
  <1> HIDE DEF todo
  <1>8. /\ l \in Local /\ l.head = local[p].head /\ l.size = 0
        /\ l.key = key /\ l.wbuf = local[p].wbuf /\ l.code = local[p].code
        /\ l.data = <<>> /\ l.todo = todo
    <2>1. <<>> \in Seq(Cell) /\ 0 \in Nat
      OBVIOUS
    <2>2. todo \in Seq(Seq(Cell))
      BY <1>5
    <2> QED
      BY <1>1, <2>1, <2>2 DEF Local, key
  <1> HIDE DEF l
  <1>9. ReadOK(p, "create", l)
    <2>1. <<>> \in Seq(Plain) /\ Len(<<>>) = 0
      OBVIOUS
    <2> QED
      BY <1>1, <1>2, <1>8, <2>1 DEF ReadOK, ReadsText
  <1>10. WroteOK(p, "create", l, file[Output(p)])
    BY <1>1, <1>5, <1>7, <1>8 DEF WroteOK
  <1> QED
    BY <1>3, <1>8, <1>9, <1>10, MovesOn DEF SealText, Labels

(* The tag that was read belongs to one encryption; the text it verifies   *)
(* for is the one that was encrypted, whatever else was read.              *)
LEMMA UnsealFine ==
    ASSUME FInv, NEW p \in Program, UnsealText(p)
    PROVE  FInv'
  <1> DEFINE u == Unseal(local[p].key, local[p].head[2], local[p].data)
             l == [local[p] EXCEPT !.head = <<>>, !.data = <<>>, !.size = 0,
                      !.todo = <<u>>]
  <1>1. /\ local[p] \in Local /\ ReadOK(p, "aead", local[p])
        /\ WroteOK(p, "aead", local[p], file[Output(p)])
        /\ ~Encrypts(p) /\ Accepts(p)
    BY Here DEF UnsealText
  <1>2. Set(p, l)
    BY DEF UnsealText
  <1>3. Sealed(local[p].head[3]) /\ local[p].key \in Keys
    BY <1>1 DEF ReadOK, ReadsEnvelope, HeaderSize
  <1>4. PICK key \in Keys, nonce \in Nonce, text \in Seq(Plain) :
            /\ Genuine(text)
            /\ local[p].head[3] = Tag(Stream(key, nonce), Aad,
                                      MaskAll(Stream(key, nonce), text))
    BY <1>3 DEF Sealed
  <1>5. /\ local[p].key = key /\ local[p].head[2] = nonce
        /\ local[p].data = MaskAll(Stream(key, nonce), text)
    <2>1. local[p].head[3]
              = Tag(Stream(local[p].key, local[p].head[2]), Aad, local[p].data)
      BY <1>1 DEF Accepts, Verifies
    <2>2. Tag(Stream(local[p].key, local[p].head[2]), Aad, local[p].data)
              = Tag(Stream(key, nonce), Aad,
                    MaskAll(Stream(key, nonce), text))
      BY <1>4, <2>1
    <2> QED
      BY <2>2, TagNames
  <1>6. u = text
    BY <1>5, MaskAllTwice
  <1> HIDE DEF u
  <1>7. /\ <<u>> \in Seq(Seq(Cell)) /\ Len(<<u>>) = 1 /\ <<u>>[1] = u
        /\ u \in Seq(Cell)
    BY <1>6, CellSeqs
  <1>8. Flat(<<u>>) = text
    BY <1>6, <1>7 DEF Flat
  <1>9. IsWhole(p, local[p].key, Flat(<<u>>))
    BY <1>1, <1>4, <1>8 DEF IsWhole
  <1>10. /\ l \in Local /\ l.head = <<>> /\ l.size = 0
         /\ l.key = local[p].key /\ l.wbuf = local[p].wbuf
         /\ l.code = local[p].code /\ l.data = <<>> /\ l.todo = <<u>>
    <2>1. <<>> \in Seq(Cell) /\ 0 \in Nat
      OBVIOUS
    <2>2. <<u>> \in Seq(Seq(Cell))
      BY <1>7
    <2> QED
      BY <1>1, <2>1, <2>2 DEF Local
  <1> HIDE DEF l
  <1>11. ReadOK(p, "create", l)
    <2>1. Len(<<>>) = 0
      OBVIOUS
    <2> QED
      BY <1>1, <1>3, <1>10, <2>1 DEF ReadOK, ReadsEnvelope, HeaderSize
  <1>12. WroteOK(p, "create", l, file[Output(p)])
    BY <1>1, <1>7, <1>9, <1>10 DEF WroteOK
  <1> QED
    BY <1>2, <1>10, <1>11, <1>12, MovesOn DEF UnsealText, Labels

-----------------------------------------------------------------------------
(* Writing.                                                                *)

(* From create on, what was read is of no account.                         *)
LEMMA ReadAfter ==
    ASSUME NEW p \in Program, NEW label \in {"create", "write", "close"},
           NEW l, ReadOK(p, label, l),
           NEW label2 \in {"create", "write", "close"}, NEW l2,
           l2.key = l.key, l2.head = l.head, l2.data = l.data,
           l2.size = l.size
    PROVE  ReadOK(p, label2, l2)
  BY DEF ReadOK, ReadsText, ReadsEnvelope

(* The pieces and the buffer of a call are cells.                          *)
LEMMA LocalCells ==
    ASSUME NEW l \in Local
    PROVE  /\ l.wbuf \in Seq(Cell) /\ l.todo \in Seq(Seq(Cell))
           /\ l.code \in {-1, 0}
  BY DEF Local

LEMMA CreateFine ==
    ASSUME FInv, NEW p \in Program, Create(p)
    PROVE  FInv'
  <1> DEFINE l == local[p]
  <1>1. /\ l \in Local /\ ReadOK(p, "create", l)
        /\ WroteOK(p, "create", l, file[Output(p)])
    BY Here DEF Create
  <1>2. /\ l.wbuf = <<>> /\ l.code = 0 /\ Len(l.todo) <= 4
        /\ IsWhole(p, l.key, Flat(l.todo)) /\ l.key \in Keys
    BY <1>1 DEF WroteOK, ReadOK
  <1>3. Flat(l.todo) \in Seq(Cell)
    BY <1>1, <1>2, FlatSeq, LocalCells
  <1>4. IsBeginning(p, l.key, <<>>)
    <2>1. <<>> \o Flat(l.todo) = Flat(l.todo)
      BY <1>3, ConcatEmptySeq
    <2> QED
      BY <1>2, <1>3, <2>1 DEF IsBeginning
  <1>5. /\ local' = [local EXCEPT ![p] = l] /\ pc' = [pc EXCEPT ![p] = "write"]
        /\ file' = [file EXCEPT ![Output(p)] = <<>>]
        /\ UNCHANGED <<calls, versions, cut>> /\ Quiet
    BY DEF Create, FInv, Typed, Goto, history
  <1> HIDE DEF l
  <1>6. ReadOK(p, "write", l)
    BY <1>1, ReadAfter
  <1>7. WroteOK(p, "write", l, <<>>)
    <2>1. <<>> \o (<<>> \o Flat(l.todo)) = Flat(l.todo) /\ <<>> \o <<>> = <<>>
      BY <1>3, ConcatEmptySeq
    <2> QED
      BY <1>2, <1>4, <2>1 DEF WroteOK
  <1>8. /\ calls' \in [Program -> Nat]
        /\ \A q \in Program : calls'[q] <= Calls[q]
        /\ ret' \in [Program -> {-1, 0, 1}]
    BY <1>5, QuietCalls
  <1>9. <<>> \in Seq(Cell) /\ "write" \in Labels
    BY DEF Labels
  <1> QED
    BY <1>1, <1>5, <1>6, <1>7, <1>8, <1>9, ProgramStep

LEMMA WriteFine ==
    ASSUME FInv, NEW p \in Program, Write(p)
    PROVE  FInv'
  <1> DEFINE a == Head(local[p].todo)
             b == Tail(local[p].todo)
             w == local[p].wbuf
             f == file[Output(p)]
             l == [local[p] EXCEPT !.wbuf = w \o a, !.todo = b]
  <1>1. /\ local[p] \in Local /\ ReadOK(p, "write", local[p])
        /\ WroteOK(p, "write", local[p], f) /\ f \in Seq(Cell)
        /\ pc' = [pc EXCEPT ![p] = "write"]
    BY Here DEF Write
  <1>2. Set(p, l) /\ local[p].todo # <<>>
    BY DEF Write
  <1>3. /\ w \in Seq(Cell) /\ local[p].code = 0 /\ Len(local[p].todo) <= 4
        /\ local[p].todo \in Seq(Seq(Cell))
        /\ IsWhole(p, local[p].key, f \o (w \o Flat(local[p].todo)))
    BY <1>1, LocalCells DEF WroteOK
  <1>4. /\ a \in Seq(Cell) /\ b \in Seq(Seq(Cell)) /\ Len(b) <= 4
        /\ Flat(b) \in Seq(Cell) /\ Flat(local[p].todo) = a \o Flat(b)
    BY <1>2, <1>3, FlatFirst
  <1> HIDE DEF f, w, a, b
  <1>5. /\ f \o (w \o (a \o Flat(b))) = f \o ((w \o a) \o Flat(b))
        /\ f \o ((w \o a) \o Flat(b)) = (f \o (w \o a)) \o Flat(b)
        /\ f \o (w \o a) \in Seq(Cell) /\ w \o a \in Seq(Cell)
    <2>1. /\ f \in Seq(Cell) /\ w \in Seq(Cell) /\ a \in Seq(Cell)
          /\ Flat(b) \in Seq(Cell)
      BY <1>1, <1>3, <1>4
    <2>2. \A d \in Seq(Cell) :
              /\ f \o (w \o (a \o d)) = f \o ((w \o a) \o d)
              /\ f \o ((w \o a) \o d) = (f \o (w \o a)) \o d
              /\ f \o (w \o a) \in Seq(Cell) /\ w \o a \in Seq(Cell)
      BY <2>1, TakenToBuffer
    <2> QED
      BY <2>1, <2>2
  <1>6. /\ l \in Local /\ l.wbuf = w \o a /\ l.todo = b /\ l.key = local[p].key
        /\ l.head = local[p].head /\ l.data = local[p].data
        /\ l.size = local[p].size /\ l.code = local[p].code
    BY <1>1, <1>4, <1>5 DEF Local
  <1> HIDE DEF l
  <1>7. ReadOK(p, "write", l)
    BY <1>1, <1>6, ReadAfter
  <1>8. IsBeginning(p, l.key, f \o l.wbuf)
    BY <1>3, <1>4, <1>5, <1>6 DEF IsBeginning
  <1>9. IsWhole(p, l.key, f \o (l.wbuf \o Flat(l.todo)))
    BY <1>3, <1>4, <1>5, <1>6
  <1>10. WroteOK(p, "write", l, f)
    BY <1>1, <1>3, <1>4, <1>6, <1>8, <1>9 DEF WroteOK
  <1> QED
    BY <1>1, <1>2, <1>6, <1>7, <1>10, MovesOn DEF Write, Labels, Goto, f

LEMMA WriteFailsFine ==
    ASSUME FInv, NEW p \in Program, WriteFails(p)
    PROVE  FInv'
  <1>1. PICK n \in 0 .. Len(Head(local[p].todo)) - 1 :
            Set(p, [local[p] EXCEPT !.todo = <<>>,
                       !.wbuf = @ \o SubSeq(Head(local[p].todo), 1, n),
                       !.code = FailedWrite(p, -1)])
    BY DEF WriteFails
  <1> DEFINE h == Head(local[p].todo)
             a == SubSeq(h, 1, n)
             r == SubSeq(h, n + 1, Len(h))
             b == Flat(Tail(local[p].todo))
             w == local[p].wbuf
             f == file[Output(p)]
             l == [local[p] EXCEPT !.todo = <<>>, !.wbuf = w \o a, !.code = -1]
  <1>2. /\ local[p] \in Local /\ ReadOK(p, "write", local[p])
        /\ WroteOK(p, "write", local[p], f) /\ f \in Seq(Cell)
        /\ local[p].todo # <<>>
    BY Here DEF WriteFails
  <1>3. Set(p, l)
    BY <1>1 DEF FailedWrite
  <1>4. /\ w \in Seq(Cell) /\ local[p].code = 0 /\ Len(local[p].todo) <= 4
        /\ local[p].todo \in Seq(Seq(Cell))
        /\ IsWhole(p, local[p].key, f \o (w \o Flat(local[p].todo)))
        /\ f # Missing => \E key \in Keys : IsBeginning(p, key, f)
    BY <1>2, LocalCells DEF WroteOK
  <1>5. h \in Seq(Cell) /\ b \in Seq(Cell) /\ Flat(local[p].todo) = h \o b
    BY <1>2, <1>4, FlatFirst
  <1>6. a \in Seq(Cell) /\ r \in Seq(Cell) /\ a \o r = h
    <2>1. Len(h) \in Nat
      BY <1>5
    <2>2. n \in 0 .. Len(h)
      BY <2>1
    <2> HIDE DEF h
    <2> QED
      BY <1>5, <2>2, Parted
  <1> HIDE DEF f, w, a, b, r, h
  <1>7. /\ r \o b \in Seq(Cell) /\ h \o b = a \o (r \o b)
    <2>1. a \in Seq(Cell) /\ r \in Seq(Cell) /\ b \in Seq(Cell)
      BY <1>5, <1>6
    <2>2. r \o b \in Seq(Cell)
      BY <2>1, ConcatProperties
    <2>3. (a \o r) \o b = a \o (r \o b)
      BY <2>1, ConcatAssociative
    <2> QED
      BY <1>6, <2>2, <2>3
  <1>8. /\ f \o (w \o (a \o (r \o b))) = f \o ((w \o a) \o (r \o b))
        /\ f \o ((w \o a) \o (r \o b)) = (f \o (w \o a)) \o (r \o b)
        /\ w \o a \in Seq(Cell)
    <2>1. /\ f \in Seq(Cell) /\ w \in Seq(Cell) /\ a \in Seq(Cell)
          /\ r \o b \in Seq(Cell)
      BY <1>2, <1>4, <1>6, <1>7
    <2>2. \A d \in Seq(Cell) :
              /\ f \o (w \o (a \o d)) = f \o ((w \o a) \o d)
              /\ f \o ((w \o a) \o d) = (f \o (w \o a)) \o d
              /\ f \o (w \o a) \in Seq(Cell) /\ w \o a \in Seq(Cell)
      BY <2>1, TakenToBuffer
    <2> QED
      BY <2>1, <2>2
  <1>9. /\ l \in Local /\ l.wbuf = w \o a /\ l.todo = <<>>
        /\ l.key = local[p].key /\ l.code = -1
        /\ l.head = local[p].head /\ l.data = local[p].data
        /\ l.size = local[p].size
    <2>1. <<>> \in Seq(Seq(Cell)) /\ -1 \in {-1, 0}
      OBVIOUS
    <2> QED
      BY <1>2, <1>8, <2>1 DEF Local
  <1> HIDE DEF l
  <1>10. ReadOK(p, "close", l)
    BY <1>2, <1>9, ReadAfter
  <1>11. IsBeginning(p, l.key, f \o l.wbuf)
    BY <1>4, <1>5, <1>7, <1>8, <1>9 DEF IsBeginning
  <1>12. WroteOK(p, "close", l, f)
    <2>1. l.code # 0
      BY <1>9
    <2> QED
      BY <1>4, <1>9, <1>11, <2>1 DEF WroteOK
  <1> QED
    BY <1>3, <1>9, <1>10, <1>12, MovesOn DEF WriteFails, Labels, f

LEMMA WriteDoneFine ==
    ASSUME FInv, NEW p \in Program, WriteDone(p)
    PROVE  FInv'
  <1>1. /\ local[p] \in Local /\ ReadOK(p, "write", local[p])
        /\ WroteOK(p, "write", local[p], file[Output(p)])
        /\ local[p].todo = <<>>
        /\ local' = [local EXCEPT ![p] = local[p]]
    BY Here DEF WriteDone, FInv, Typed
  <1>2. ReadOK(p, "close", local[p])
    BY <1>1, ReadAfter
  <1>3. WroteOK(p, "close", local[p], file[Output(p)])
    BY <1>1 DEF WroteOK
  <1> QED
    BY <1>1, <1>2, <1>3, MovesOn DEF WriteDone, Labels, Set

LEMMA FlushFine ==
    ASSUME FInv, NEW p \in Program, Flush(p)
    PROVE  FInv'
  <1> DEFINE w == local[p].wbuf
             f == file[Output(p)]
             w2 == Tail(w)
             f2 == Append(f, Head(w))
             label == pc[p]
             l == [local[p] EXCEPT !.wbuf = w2]
  <1>1. /\ label \in {"write", "close"} /\ At(p, label)
        /\ w # <<>> /\ file' = [file EXCEPT ![Output(p)] = f2]
        /\ local' = [local EXCEPT ![p] = l]
        /\ UNCHANGED <<pc, calls, versions, cut>> /\ Quiet
    BY DEF Flush, At, Set, history
  <1>2. /\ label \in Labels /\ local[p] \in Local /\ f \in Seq(Cell)
        /\ ReadOK(p, label, local[p]) /\ WroteOK(p, label, local[p], f)
        /\ pc' = [pc EXCEPT ![p] = label]
    BY <1>1, Here
  <1> HIDE DEF label, f
  <1>3. w \in Seq(Cell) /\ local[p].todo \in Seq(Seq(Cell))
    BY <1>2, LocalCells
  <1> HIDE DEF w
  <1>4. /\ f2 \in Seq(Cell) /\ w2 \in Seq(Cell)
        /\ f2 \o w2 = f \o w
        /\ \A r \in Seq(Cell) : f2 \o (w2 \o r) = f \o (w \o r)
    BY <1>1, <1>2, <1>3, FlushedCell
  <1> HIDE DEF w2, f2
  <1>5. /\ l \in Local /\ l.wbuf = w2 /\ l.todo = local[p].todo
        /\ l.key = local[p].key /\ l.head = local[p].head
        /\ l.data = local[p].data /\ l.size = local[p].size
        /\ l.code = local[p].code
    BY <1>2, <1>4 DEF Local
  <1> HIDE DEF l
  <1>6. ReadOK(p, label, l) /\ l.key \in Keys
    <2>1. ReadOK(p, label, l)
      BY <1>1, <1>2, <1>5, ReadAfter
    <2> QED
      BY <1>1, <2>1 DEF ReadOK
  <1>7. IsBeginning(p, l.key, f2 \o l.wbuf)
    BY <1>1, <1>2, <1>4, <1>5 DEF WroteOK, w
  <1>8. IsBeginning(p, l.key, f2)
    BY <1>4, <1>5, <1>7, BeginningOf
  <1>9. ASSUME l.code = 0
        PROVE  Len(l.todo) <= 4 /\ IsWhole(p, l.key, f2 \o (l.wbuf \o Flat(l.todo)))
    <2>1. /\ Len(l.todo) <= 4
          /\ IsWhole(p, l.key, f \o (w \o Flat(l.todo)))
      BY <1>1, <1>2, <1>5, <1>9 DEF WroteOK, w
    <2>2. Flat(l.todo) \in Seq(Cell)
      BY <1>3, <1>5, <2>1, FlatSeq
    <2> QED
      BY <1>4, <1>5, <2>1, <2>2
  <1>10. WroteOK(p, label, l, f2)
    BY <1>1, <1>2, <1>5, <1>6, <1>7, <1>8, <1>9 DEF WroteOK
  <1>11. /\ calls' \in [Program -> Nat]
         /\ \A q \in Program : calls'[q] <= Calls[q]
         /\ ret' \in [Program -> {-1, 0, 1}]
    BY <1>1, QuietCalls
  <1> QED
    BY <1>1, <1>2, <1>4, <1>5, <1>6, <1>10, <1>11, ProgramStep

-----------------------------------------------------------------------------
(* The input is edited: to what it was is added what it is now.            *)
LEMMA EditFine ==
    ASSUME FInv, NEW text \in Seq(Letters),
           file' = [file EXCEPT !["in"] = text],
           versions' = versions \cup {text},
           UNCHANGED <<pc, local, calls>>, Quiet,
           cut' \in BOOLEAN, cut => cut',
           \/ cut'
           \/ pc["encrypt"] \notin {"alloc", "read"}
           \/ \A s \in versions : Begins(s, file["in"]) => Begins(s, text)
    PROVE  FInv'
  <1>1. /\ file' \in [{"in", "enc", "out"} -> Seq(Cell)]
        /\ file'["in"] = text
        /\ \A f \in {"enc", "out"} : file'[f] = file[f]
    <2>1. text \in Seq(Cell)
      BY CellSeqs
    <2> QED
      BY <2>1 DEF FInv, Typed
  <1>2. Typed'
    <2>1. ret' \in [Program -> {-1, 0, 1}]
      BY QuietCalls
    <2> QED
      BY <1>1, <2>1 DEF FInv, Typed
  <1>3. versions \subseteq versions'
    OBVIOUS
  <1>4. /\ \A tag : Sealed(tag) => Sealed(tag)'
        /\ \A q, key, w : IsWhole(q, key, w) => IsWhole(q, key, w)'
        /\ \A q, key, g : IsBeginning(q, key, g) => IsBeginning(q, key, g)'
    BY <1>3, GenuineForever
  <1>5. ASSUME NEW a, NEW l, ReadsText(a, l), a = pc["encrypt"]
        PROVE  ReadsText(a, l)'
    <2>1. Genuine(l.data) => Genuine(l.data)'
      BY <1>3 DEF Genuine
    <2>2. ASSUME ~cut', a \in {"alloc", "read"}
          PROVE  \E s \in versions' :
                    /\ Len(s) = l.size
                    /\ Begins(s, text) /\ Begins(l.data, s)
      <3>1. PICK s \in versions :
                /\ Len(s) = l.size
                /\ Begins(s, file["in"]) /\ Begins(l.data, s)
        BY <1>5, <2>2 DEF ReadsText
      <3>2. Begins(s, text)
        BY <1>5, <2>2, <3>1
      <3> QED
        BY <1>3, <3>1, <3>2
    <2> QED
      BY <1>1, <1>5, <2>1, <2>2 DEF ReadsText
  <1>6. ASSUME NEW q, NEW a, NEW l, ReadOK(q, a, l),
               Encrypts(q) => a = pc["encrypt"]
        PROVE  ReadOK(q, a, l)'
    <2>1. Encrypts(q) => ReadsText(a, l)'
      BY <1>5, <1>6 DEF ReadOK
    <2>2. ReadsEnvelope(a, l) => ReadsEnvelope(a, l)'
      BY <1>4 DEF ReadsEnvelope
    <2> QED
      BY <1>6, <2>1, <2>2 DEF ReadOK
  <1>7. ASSUME NEW q, NEW a, NEW l, NEW f, WroteOK(q, a, l, f)
        PROVE  WroteOK(q, a, l, f)'
    BY <1>4, <1>7 DEF WroteOK
  <1>8. ASSUME NEW q \in Program PROVE Fine(q)'
    <2>1. /\ ReadOK(q, pc[q], local[q])
          /\ WroteOK(q, pc[q], local[q], file[Output(q)])
      BY DEF FInv, Fine
    <2>2. /\ pc'[q] = pc[q] /\ local'[q] = local[q]
          /\ file'[Output(q)] = file[Output(q)]
          /\ Encrypts(q) => pc[q] = pc["encrypt"]
      BY <1>1, Outputs DEF Encrypts
    <2>3. /\ \A a, l : ReadOK(q, a, l) /\ (Encrypts(q) => a = pc["encrypt"])
                        => ReadOK(q, a, l)'
          /\ \A a, l, f : WroteOK(q, a, l, f) => WroteOK(q, a, l, f)'
      BY <1>6, <1>7
    <2> QED
      BY <2>1, <2>2, <2>3 DEF Fine
  <1> QED
    BY <1>2, <1>8 DEF FInv

LEMMA GrowFine == FInv /\ Grow => FInv'
  <1> SUFFICES ASSUME FInv, Grow PROVE FInv'
    OBVIOUS
  <1> DEFINE f == file["in"]
  <1>1. PICK b \in Bytes : Edit(Append(f, <<"byte", b>>))
    BY DEF Grow
  <1> DEFINE x == <<"byte", b>>
             text == Append(f, x)
  <1>2. f \in Seq(Letters) /\ x \in Letters
    BY DEF FInv, Typed, Letters
  <1> HIDE DEF x, f
  <1>3. /\ text \in Seq(Letters) /\ Len(text) = Len(f) + 1 /\ Len(f) \in Nat
        /\ \A n \in 1 .. Len(f) : text[n] = f[n]
    <2>1. Len(f) \in Nat
      BY <1>2
    <2> QED
      BY <1>2, <2>1, AppendProperties
  <1>4. /\ file' = [file EXCEPT !["in"] = text]
        /\ versions' = versions \cup {text}
        /\ UNCHANGED <<pc, local, calls, cut>> /\ Quiet
    BY <1>1 DEF Edit, Grow, x, f
  <1> HIDE DEF text
  <1>5. ASSUME NEW s \in versions, Begins(s, f) PROVE Begins(s, text)
    <2>1. Len(s) \in Nat
      <3>1. s \in Seq(Letters)
        BY DEF FInv, Typed
      <3> QED
        BY <3>1
    <2> QED
      BY <1>3, <1>5, <2>1 DEF Begins
  <1>6. cut' \in BOOLEAN /\ (cut => cut')
    BY <1>4, CutIsBoolean DEF FInv
  <1> QED
    BY <1>3, <1>4, <1>5, <1>6, EditFine DEF f

LEMMA ShrinkFine == FInv /\ Shrink => FInv'
  <1> SUFFICES ASSUME FInv, Shrink PROVE FInv'
    OBVIOUS
  <1> DEFINE f == file["in"]
             text == Front(f)
  <1>1. f \in Seq(Letters) /\ f # <<>>
    BY DEF FInv, Typed, Shrink
  <1>2. text \in Seq(Letters)
    <2>1. Len(f) \in Nat \ {0}
      BY <1>1, EmptySeq
    <2>2. \A i \in 1 .. Len(f) - 1 : f[i] \in Letters
      <3> HIDE DEF f
      <3> QED
        BY <1>1, <2>1
    <2>3. SubSeq(f, 1, Len(f) - 1) \in Seq(Letters)
      <3>1. 1 \in Int /\ Len(f) - 1 \in Int
        BY <2>1
      <3> QED
        BY <2>2, <3>1, SubSeqProperties
    <2> QED
      BY <2>3 DEF Front
  <1>3. /\ file' = [file EXCEPT !["in"] = text]
        /\ versions' = versions \cup {text}
        /\ UNCHANGED <<pc, local, calls>> /\ Quiet
    BY DEF Shrink, Edit
  <1>4. cut' = (cut \/ \E p \in Program :
                          Encrypts(p) /\ pc[p] \in {"alloc", "read"})
    BY DEF Shrink
  <1>5. cut' \in BOOLEAN
    BY <1>4, Zenon
  <1>6. cut => cut'
    BY <1>4, Zenon
  <1>7. cut' \/ pc["encrypt"] \notin {"alloc", "read"}
    <2>1. "encrypt" \in Program /\ Encrypts("encrypt")
      BY DEF Program, Encrypts
    <2> QED
      BY <1>4, <2>1, Zenon
  <1> HIDE DEF text
  <1> QED
    BY <1>2, <1>3, <1>5, <1>6, <1>7, EditFine

-----------------------------------------------------------------------------
LEMMA LeftoverFine ==
    ASSUME NEW text \in Seq(Plain), Genuine(text), NEW enc \in Leftovers(text)
    PROVE  /\ enc \in Seq(Cell)
           /\ \E key \in Keys : IsBeginning("encrypt", key, enc)
  <1>1. PICK key \in Keys, nonce \in Earlier, n \in 0 .. HeaderSize + Len(text) :
            enc = SubSeq(Envelope(key, nonce, text), 1, n)
    BY DEF Leftovers
  <1> DEFINE e == Envelope(key, nonce, text)
  <1>2. nonce \in Nonce
    BY DEF Nonce
  <1>3. e \in Seq(Cell) /\ Len(e) = HeaderSize + Len(text)
    BY <1>2, EnvelopeCells
  <1>4. IsWhole("encrypt", key, e)
    BY <1>2 DEF IsWhole, Encrypts
  <1> HIDE DEF e
  <1>5. /\ SubSeq(e, 1, n) \in Seq(Cell)
        /\ SubSeq(e, n + 1, Len(e)) \in Seq(Cell)
        /\ SubSeq(e, 1, n) \o SubSeq(e, n + 1, Len(e)) = e
    <2>1. n \in 0 .. Len(e)
      BY <1>3
    <2> QED
      BY <1>3, <2>1, Parted
  <1>6. enc = SubSeq(e, 1, n)
    BY <1>1 DEF e
  <1> QED
    BY <1>4, <1>5, <1>6 DEF IsBeginning

LEMMA InitFInv == Init => FInv
  <1> SUFFICES ASSUME Init PROVE FInv
    OBVIOUS
  <1>1. PICK text \in Texts : \E enc \in Leftovers(text) \cup {Missing} :
            /\ file = [in |-> text, enc |-> enc, out |-> Missing]
            /\ versions = {text}
    BY DEF Init
  <1>2. PICK enc \in Leftovers(text) \cup {Missing} :
            /\ file = [in |-> text, enc |-> enc, out |-> Missing]
            /\ versions = {text}
    BY <1>1
  <1>3. text \in Seq(Letters)
    <2>1. /\ text \in Seq({text[n] : n \in DOMAIN text})
          /\ {text[n] : n \in DOMAIN text} \subseteq Letters
      BY TextsAssumption DEF Letters
    <2> QED
      BY <2>1, SeqMonotonic
  <1>4. text \in Seq(Plain) /\ text \in Seq(Cell) /\ Genuine(text)
    BY <1>2, <1>3, CellSeqs DEF Genuine
  <1>5. enc \in Seq(Cell) /\ (enc # Missing =>
            \E key \in Keys : IsBeginning("encrypt", key, enc))
    BY <1>4, LeftoverFine, CellSets
  <1>6. /\ file["in"] = text /\ file["enc"] = enc /\ file["out"] = Missing
        /\ file \in [{"in", "enc", "out"} -> Seq(Cell)]
    <2>1. Missing \in Seq(Cell)
      BY CellSets
    <2> HIDE DEF Missing
    <2> QED
      BY <1>2, <1>4, <1>5, <2>1
  <1>7. /\ pc = [p \in Program |-> "idle"]
        /\ local = [p \in Program |-> NoCall]
        /\ ret = NoResult /\ calls = [p \in Program |-> 0] /\ cut = FALSE
    BY DEF Init
  <1>8. Typed
    <2>1. pc \in [Program -> Labels] /\ local \in [Program -> Local]
      BY <1>7, NoCallLocal DEF Labels
    <2>2. ret \in [Program -> {-1, 0, 1}]
      BY <1>7 DEF NoResult
    <2>3. calls \in [Program -> Nat] /\ \A p \in Program : calls[p] <= Calls[p]
      BY <1>7, CallsAssumption DEF Program
    <2> QED
      BY <1>2, <1>3, <1>6, <1>7, <2>1, <2>2, <2>3 DEF Typed
  <1>9. ASSUME NEW p \in Program PROVE Fine(p)
    <2>1. pc[p] = "idle" /\ local[p] = NoCall
      BY <1>7
    <2>2. file[Output(p)] # Missing =>
              \E key \in Keys : IsBeginning(p, key, file[Output(p)])
      BY <1>5, <1>6, Outputs DEF Output, Encrypts
    <2>3. WroteOK(p, "idle", NoCall, file[Output(p)])
      BY <2>2 DEF WroteOK
    <2> QED
      BY <2>1, <2>3, NoCallLocal DEF Fine
  <1> QED
    BY <1>8, <1>9 DEF FInv

LEMMA ContinueFine ==
    ASSUME FInv, NEW p \in Program, Continue(p)
    PROVE  FInv'
  <1>1. CASE \/ ReadHeadFails(p) \/ SizeFails(p) \/ AllocSourceFails(p)
             \/ AllocTargetFails(p) \/ AeadFails(p) \/ CreateFails(p)
    BY <1>1, LeaveFine DEF ReadHeadFails, SizeFails, AllocSourceFails,
                           AllocTargetFails, AeadFails, CreateFails
  <1>2. CASE CloseOutput(p)
    <2>1. local[p].code \in {-1, 0}
      BY LocalCells DEF FInv, Typed
    <2> QED
      BY <1>2, <2>1, LeaveFine DEF CloseOutput
  <1>3. CASE ReadEnd(p) \/ ReadInterrupted(p) \/ ReadError(p)
    <2>1. local[p].err \in {"none", "intr", "io"}
      BY DEF FInv, Typed, Local
    <2> QED
      BY <1>3, <2>1, ShortFine DEF ReadEnd, ReadInterrupted, ReadError
  <1> QED
    BY <1>1, <1>2, <1>3, ReadHeadFine, SizeFine, AllocFine, ReadCellFine,
       ReadDoneFine, SealFine, UnsealFine, CreateFine, WriteFine,
       WriteFailsFine, WriteDoneFine, FlushFine DEF Continue

LEMMA NextFInv == FInv /\ [Next]_vars => FInv'
  <1> SUFFICES ASSUME FInv, [Next]_vars PROVE FInv'
    OBVIOUS
  <1>1. CASE UNCHANGED vars
    <2> DEFINE p == "encrypt"
    <2>1. p \in Program /\ At(p, pc[p])
      BY DEF Program, At
    <2>2. /\ UNCHANGED <<file, versions, cut, calls, ret>>
          /\ pc' = [pc EXCEPT ![p] = pc[p]]
          /\ local' = [local EXCEPT ![p] = local[p]]
      BY <1>1 DEF vars, FInv, Typed
    <2>3. /\ calls' \in [Program -> Nat]
          /\ \A q \in Program : calls'[q] <= Calls[q]
          /\ ret' \in [Program -> {-1, 0, 1}]
      BY <2>2 DEF FInv, Typed
    <2> HIDE DEF p
    <2> QED
      BY <2>1, <2>2, <2>3, Here, QuietStep
  <1>2. ASSUME NEW p \in Program, Refused(p) PROVE FInv'
    BY <1>2, LeaveFine DEF Refused
  <1> QED
    BY <1>1, <1>2, BeginFine, ContinueFine, CrashFine, GrowFine, ShrinkFine
       DEF Next

LEMMA FileInvariant == Spec => []FInv
  BY InitFInv, NextFInv, PTL DEF Spec

-----------------------------------------------------------------------------
(* The state keeps its type, and nothing is read or kept beyond the size   *)
(* that was measured (the loop of arcfour_utils.c:93).                     *)
THEOREM TypeCorrect == Spec => []TypeOK
  <1>1. FInv /\ HoldInv => TypeOK
    <2> SUFFICES ASSUME FInv, HoldInv PROVE TypeOK
      OBVIOUS
    <2>1. /\ DOMAIN file = {"in", "enc", "out"} /\ pc \in [Program -> Labels]
          /\ ret \in [Program -> {-1, 0, 1}] /\ cut \in BOOLEAN
      BY DEF FInv, Typed
    <2>2. \A p \in Program : calls[p] \in 0 .. Calls[p]
      <3> SUFFICES ASSUME NEW p \in Program PROVE calls[p] \in 0 .. Calls[p]
        OBVIOUS
      <3>1. calls[p] \in Nat /\ calls[p] <= Calls[p] /\ Calls[p] \in Nat
        BY CallsAssumption DEF FInv, Typed, Program
      <3> QED
        BY <3>1
    <2>3. ASSUME NEW p \in Program
          PROVE  /\ heap[p] \in SUBSET {"plaintext", "ciphertext"}
                 /\ open[p] \in SUBSET {"fin", "fout"}
      BY DEF HoldInv, Holds, Buffers, Streams, Source, Target
    <2>4. /\ heap \in [Program -> SUBSET {"plaintext", "ciphertext"}]
          /\ open \in [Program -> SUBSET {"fin", "fout"}]
      BY <2>3 DEF HoldInv
    <2>5. ASSUME NEW p \in Program
          PROVE  /\ Len(local[p].head) <= HeaderSize
                 /\ Len(local[p].data) <= local[p].size
                 /\ local[p].err \in {"none", "intr", "io"}
      BY DEF FInv, Typed, Fine, ReadOK, Local
    <2> QED
      BY <2>1, <2>2, <2>4, <2>5 DEF TypeOK
  <1> QED
    BY <1>1, FileInvariant, HoldInvariant, PTL

(* What a decryption has written, at any moment and after any crash, is a  *)
(* beginning of something the input once was, for all keys and nonces,     *)
(* used once or twice, every text, every edit, whatever fails, and however *)
(* often the two programs are called (arcfour_utils.c:266-288,             *)
(* aead_rc4.c:355-360).                                                    *)
THEOREM OutputGenuine == Spec => []OutputIsAVersion
  <1>1. FInv => OutputIsAVersion
    <2> SUFFICES ASSUME FInv, file["out"] # Missing, ~cut
                 PROVE  \E text \in versions : IsPrefix(file["out"], text)
      BY DEF OutputIsAVersion
    <2> DEFINE f == file["out"]
    <2>1. /\ f \in Seq(Cell)
          /\ \E key \in Keys : IsBeginning("decrypt", key, f)
      BY DEF FInv, Typed, Fine, WroteOK, Program, Output, Encrypts
    <2>2. PICK rest \in Seq(Cell), text \in Seq(Plain) :
              Genuine(text) /\ f \o rest = text
      BY <2>1 DEF IsBeginning, IsWhole, Encrypts
    <2>3. text \in versions /\ text \in Seq(Cell)
      BY <2>2, CellSeqs DEF Genuine
    <2> HIDE DEF f
    <2>4. /\ Len(f) \in Nat /\ Len(rest) \in Nat /\ Len(text) \in Nat
          /\ Len(text) = Len(f) + Len(rest)
          /\ \A i \in 1 .. Len(f) : text[i] = f[i]
      <3>1. Len(f) \in Nat /\ Len(rest) \in Nat /\ Len(text) \in Nat
        BY <2>1, <2>3
      <3>2. /\ Len(f \o rest) = Len(f) + Len(rest)
            /\ \A i \in 1 .. Len(f) + Len(rest) : (f \o rest)[i] =
                   IF i <= Len(f) THEN f[i] ELSE rest[i - Len(f)]
        BY <2>1, ConcatProperties
      <3> QED
        BY <2>2, <3>1, <3>2
    <2>5. SubSeq(f, 1, Len(f)) = SubSeq(text, 1, Len(f))
      <3>1. \A i \in 1 .. Len(f) : f[i] \in Cell /\ text[i] \in Cell
        BY <2>1, <2>4
      <3>2. /\ SubSeq(text, 1, Len(f)) \in Seq(Cell)
            /\ Len(SubSeq(text, 1, Len(f)))
                  = IF 1 <= Len(f) THEN Len(f) - 1 + 1 ELSE 0
            /\ \A i \in 1 .. Len(f) - 1 + 1 :
                  SubSeq(text, 1, Len(f))[i] = text[1 + i - 1]
        BY <2>4, <3>1, SubSeqProperties
      <3> DEFINE g == SubSeq(text, 1, Len(f))
      <3>3. g \in Seq(Cell)
        BY <3>2
      <3>4. Len(g) = Len(f) /\ \A i \in 1 .. Len(f) : g[i] = f[i]
        BY <2>4, <3>2
      <3> HIDE DEF g
      <3>5. g = f
        BY <2>1, <3>3, <3>4, SeqEqual
      <3> QED
        BY <2>1, <3>5, SubSeqFull DEF g
    <2>6. IsPrefix(f, text)
      BY <2>4, <2>5 DEF IsPrefix
    <2> QED
      BY <2>3, <2>6 DEF f
  <1> QED
    BY <1>1, FileInvariant, PTL

(* Only the end of fclose returns zero.                                    *)
LEMMA ZeroFromClose ==
    ASSUME [Next]_vars, NEW p \in Program, Reports(p, 0)
    PROVE  CloseOutput(p)
  <1>1. ~Quiet
    BY DEF Quiet, NoResult, Reports
  <1>2. ~UNCHANGED vars
    BY DEF vars, Reports, At
  <1>3. ASSUME NEW q \in Program, NEW b, NEW s PROVE ~Leave(q, -1, b, s)
    BY DEF Leave, NoResult, Reports
  <1>4. ASSUME NEW q \in Program, CloseOutput(q) PROVE CloseOutput(p)
    <2>1. CASE q = p
      BY <1>4, <2>1
    <2>2. CASE q # p
      BY <1>4, <2>2 DEF CloseOutput, Leave, NoResult, Reports
    <2> QED
      BY <2>1, <2>2
  <1>5. ASSUME NEW q \in Program, NEW err PROVE ~Short(q, err)
    BY <1>1, <1>3 DEF Short, AgainAfterSome, AgainAfterNothing, GiveUp,
                      BreakOff
  <1>6. ~Grow /\ ~Shrink
    BY <1>1 DEF Grow, Shrink, Edit
  <1>7. ASSUME NEW q \in Program PROVE ~Refused(q) /\ ~Crash(q)
    BY <1>1, <1>3 DEF Refused, Crash
  <1>8. ASSUME NEW q \in Program, NEW key PROVE ~Begin(q, key)
    BY <1>1 DEF Begin
  <1>9. ASSUME NEW q \in Program
        PROVE  /\ ~ReadHead(q) /\ ~ReadHeadFails(q) /\ ~Size(q)
               /\ ~SizeFails(q) /\ ~AllocSource(q) /\ ~AllocSourceFails(q)
               /\ ~ReadCell(q) /\ ~ReadEnd(q) /\ ~ReadInterrupted(q)
               /\ ~ReadError(q) /\ ~ReadDone(q) /\ ~AllocTarget(q)
               /\ ~AllocTargetFails(q)
    BY <1>1, <1>3, <1>5 DEF ReadHead, ReadHeadFails, Size, SizeFails,
       AllocSource, AllocSourceFails, ReadCell, ReadEnd, ReadInterrupted,
       ReadError, ReadDone, AllocTarget, AllocTargetFails
  <1>10. ASSUME NEW q \in Program
         PROVE  /\ \A nonce : ~SealText(q, nonce)
                /\ ~UnsealText(q) /\ ~AeadFails(q) /\ ~Create(q)
                /\ ~CreateFails(q) /\ ~Write(q) /\ ~WriteFails(q)
                /\ ~WriteDone(q) /\ ~Flush(q)
    BY <1>1, <1>3 DEF SealText, UnsealText, AeadFails, Create, CreateFails,
       Write, WriteFails, WriteDone, Flush
  <1> QED
    BY <1>2, <1>4, <1>6, <1>7, <1>8, <1>9, <1>10 DEF Next, Continue

(* As long as fclose does not fail, a call that reports success has        *)
(* written all: an encrypted file that decrypts to what the input was, or  *)
(* a text that the input was (the returns of arcfour_utils.c:182 and 293). *)
THEOREM SuccessIsComplete ==
    ASSUME "close" \notin Faults
    PROVE  Spec => ZeroMeansWritten
  <1> DEFINE Written(p) ==
          Reports(p, 0) /\ ~cut =>
             IF Encrypts(p)
             THEN \E text \in versions :
                     Recovers(file'["enc"], local[p].key, text)
             ELSE file'["out"] \in versions
  <1>1. ASSUME FInv, [Next]_vars, NEW p \in Program PROVE Written(p)
    <2> SUFFICES ASSUME Reports(p, 0), ~cut
                 PROVE  IF Encrypts(p)
                        THEN \E text \in versions :
                                Recovers(file'["enc"], local[p].key, text)
                        ELSE file'["out"] \in versions
      OBVIOUS
    <2> DEFINE f == file[Output(p)]
               l == local[p]
    <2>1. CloseOutput(p)
      BY <1>1, ZeroFromClose
    <2>2. /\ At(p, "close") /\ l.code = 0 /\ l.wbuf = <<>>
          /\ file' = file
      <3>1. l.code = ret'[p] /\ ret'[p] = 0
        BY <2>1 DEF CloseOutput, Leave, NoResult, Reports
      <3> QED
        BY <2>1, <3>1 DEF CloseOutput, May
    <2>3. /\ l.key \in Keys /\ f \in Seq(Cell)
          /\ IsWhole(p, l.key, f \o (<<>> \o <<>>))
      <3>1. /\ ReadOK(p, "close", l) /\ WroteOK(p, "close", l, f)
            /\ f \in Seq(Cell)
        BY <1>1, <2>2, Here
      <3>2. l.todo = <<>> /\ l.key \in Keys
        BY <3>1 DEF ReadOK, WroteOK
      <3>3. Flat(<<>>) = <<>>
        <4>1. Len(<<>>) = 0
          OBVIOUS
        <4> QED
          BY <4>1 DEF Flat
      <3> QED
        BY <2>2, <3>1, <3>2, <3>3 DEF WroteOK
    <2>4. f \o (<<>> \o <<>>) = f
      BY <2>3, ConcatEmptySeq
    <2>5. PICK text \in Seq(Plain), nonce \in Nonce :
              /\ Genuine(text)
              /\ f = IF Encrypts(p) THEN Envelope(l.key, nonce, text)
                                    ELSE text
      BY <2>3, <2>4 DEF IsWhole
    <2>6. text \in versions
      BY <2>5 DEF Genuine
    <2>7. CASE Encrypts(p)
      <3> DEFINE s == Stream(l.key, nonce)
                 c == MaskAll(s, text)
      <3>1. file'["enc"] = Envelope(l.key, nonce, text)
        BY <2>2, <2>5, <2>7 DEF Output
      <3>2. /\ Len(file'["enc"]) = HeaderSize + Len(text)
            /\ file'["enc"][1] = Magic /\ file'["enc"][2] = nonce
            /\ file'["enc"][3] = Tag(s, Aad, c)
            /\ SubSeq(file'["enc"], HeaderSize + 1, Len(file'["enc"])) = c
        <4> DEFINE e == Envelope(l.key, nonce, text)
        <4>1. /\ Len(e) = HeaderSize + Len(text)
              /\ e[1] = Magic /\ e[2] = nonce /\ e[3] = Tag(s, Aad, c)
              /\ SubSeq(e, HeaderSize + 1, Len(e)) = c
          <5> DEFINE k == l.key
          <5>1. k \in Keys /\ nonce \in Nonce /\ text \in Seq(Plain)
            BY <2>3
          <5> HIDE DEF k
          <5>2. /\ Len(Envelope(k, nonce, text)) = HeaderSize + Len(text)
                /\ Envelope(k, nonce, text)[1] = Magic
                /\ Envelope(k, nonce, text)[2] = nonce
            BY <5>1, EnvelopeCells
          <5>3. Envelope(k, nonce, text)[3]
                    = Tag(Stream(k, nonce), Aad,
                          MaskAll(Stream(k, nonce), text))
            BY <5>1, EnvelopeCells
          <5>4. SubSeq(Envelope(k, nonce, text), HeaderSize + 1,
                       Len(Envelope(k, nonce, text)))
                    = MaskAll(Stream(k, nonce), text)
            BY <5>1, EnvelopeCells
          <5> QED
            BY <5>2, <5>3, <5>4 DEF k
        <4> QED
          BY <3>1, <4>1
      <3>3. Unseal(l.key, nonce, c) = text
        BY <2>3, MaskAllTwice
      <3>4. Len(file'["enc"]) >= HeaderSize
        <4>1. Len(text) \in Nat
          OBVIOUS
        <4> QED
          BY <3>2, <4>1 DEF HeaderSize
      <3> HIDE DEF c
      <3>5. Recovers(file'["enc"], l.key, text)
        BY <3>2, <3>3, <3>4 DEF Recovers, Verifies
      <3> QED
        BY <2>6, <2>7, <3>5
    <2>8. CASE ~Encrypts(p)
      <3>1. file'["out"] = text
        BY <2>2, <2>5, <2>8 DEF Output
      <3> QED
        BY <2>6, <2>8, <3>1
    <2> QED
      BY <2>7, <2>8
  <1>2. FInv /\ [Next]_vars => [\A p \in Program : Written(p)]_vars
    BY <1>1
  <1> QED
    BY <1>2, FileInvariant, PTL DEF Spec, ZeroMeansWritten

=============================================================================
