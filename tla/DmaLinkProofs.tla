---------------------------- MODULE DmaLinkProofs ----------------------------
(***************************************************************************)
(* What is proved of DmaLink, for every number of blocks, sends and reads. *)
(* Five invariants, on top of the first and of the counters being numbers: *)
(*   - IInv: where the stream writes before and after the buffers are      *)
(*     swapped, so that a handler finds the block that has come in; and    *)
(*     that a completion is owed for every message that is not being       *)
(*     encrypted, so that no send waits for nothing;                       *)
(*   - WireInv: what is on the wire and what is still to go out, so that   *)
(*     messages go out whole and in order;                                 *)
(*   - KInv: how far the two contexts are apart, so that what crosses      *)
(*     nothing can be decrypted where it arrives;                          *)
(*   - BInv: which block each half holds, so that none reaches the         *)
(*     application twice and an undisturbed copy is of the newest;         *)
(*   - TInv: that whatever a handler decrypts was put there by somebody.   *)
(***************************************************************************)
EXTENDS DmaLink, TLAPS

(* The types of what the invariant speaks of.                              *)
AnyCell == [dir : {"none", "rx", "tx"}, id : Nat,
            form : {"raw", "plain", "garbled", "cipher"}, key : Nat]

Sends == [op : {"send"}, at : {"wait", "encrypt"}, buffer : Buffers,
          len : 0 .. 2, half : Nat, aligned : BOOLEAN]

Receives == [op : {"receive"}, at : {"get", "copy"}, len : Half,
             buffer : Buffers, got : Seq(AnyCell), calm : BOOLEAN]

RxStreams == [target : Buffers, half : {0, 1}, block : Nat \ {0},
              key : Nat, done : BOOLEAN, running : BOOLEAN]

TxStreams == [source : Buffers, half : Nat, len : 0 .. 2,
              done : BOOLEAN, id : Nat]

Types ==
    /\ dev \in {"uart", "spi", "hal"}
    /\ ready \in BOOLEAN /\ torn \in BOOLEAN /\ emptyEnds \in BOOLEAN
    /\ gaveUp \in BOOLEAN
    /\ mem \in [Buffers -> [Half -> AnyCell]]
    /\ active \in [{"rx", "tx"} -> {0, 1}]
    /\ complete \in [{"rx", "tx"} -> BOOLEAN]
    /\ rx \in RxStreams /\ tx \in TxStreams
    /\ main = Idle \/ main \in Sends \/ main \in Receives
    /\ left \in [sends : 0 .. MaxSends, reads : 0 .. MaxReads]

Counters == spent \in Nat /\ peer \in Nat

(* What an example sends is in a transmission buffer; once the HAL variant *)
(* has sent, the buffers are mixed.                                        *)
SendInv ==
    main \in Sends => IF dev = "hal" THEN Mixed /\ main.at = "encrypt"
                      ELSE main.buffer \in {<<"tx", 0>>, <<"tx", 1>>}

(* A block that has come in whole, encrypted with two pieces in a row.     *)
Whole(buffer, block) ==
    buffer = [h \in Half |-> Raw(block, buffer[1].key + h - 1)]

(* The examples' stream writes into the active buffer, or, while a         *)
(* completion is to be served, into the other; the HAL's is stopped then.  *)
RxInv ==
    ~Mixed =>
        /\ rx.half = 1 => mem[rx.target][1] = Raw(rx.block, rx.key)
        /\ rx.done => Whole(mem[Active("rx")], rx.block - 1)
        /\ dev = "hal" => /\ rx.running <=> ~rx.done
                          /\ rx.target = Active("rx")
                          /\ rx.done => rx.half = 0
        /\ dev # "hal" => /\ rx.running
                          /\ rx.target = IF rx.done THEN Inactive("rx")
                                         ELSE Active("rx")

Encrypts == main \in Sends /\ main.at = "encrypt"

(* Only while a message is encrypted is there neither a completion nor a   *)
(* transmission that will end in one.                                      *)
TxInv ==
    dev # "hal" /\ emptyEnds /\ ~gaveUp /\ ~Encrypts =>
        complete["tx"] \/ tx.done \/ tx.half < tx.len

IInv == Types /\ SendInv /\ RxInv /\ TxInv

-----------------------------------------------------------------------------
LEMMA InitIInv == Init => IInv
  <1> SUFFICES ASSUME Init PROVE IInv
    OBVIOUS
  <1> USE DEF Init, Globals, uart_crypto_init, spi_crypto_init, hal_init,
              InitDoubleBuffers, UartRxStream, SpiRxStream, UartTxStream,
              SpiTxStream
  <1>1. Types
    <2>1. mem \in [Buffers -> [Half -> AnyCell]]
      BY DEF AnyCell, Empty, Cell
    <2>2. /\ active \in [{"rx", "tx"} -> {0, 1}]
          /\ complete \in [{"rx", "tx"} -> BOOLEAN]
      OBVIOUS
    <2>3. rx \in RxStreams /\ tx \in TxStreams
      <3>1. /\ rx = [target |-> <<"rx", 0>>, half |-> 0, block |-> 1,
                     key |-> 0, done |-> FALSE, running |-> TRUE]
            /\ \E d \in BOOLEAN : tx = [source |-> <<"tx", 0>>, half |-> 0,
                                       len |-> 0, done |-> d, id |-> 0]
        OBVIOUS
      <3> QED
        BY <3>1 DEF RxStreams, TxStreams, Buffers
    <2>4. left \in [sends : 0 .. MaxSends, reads : 0 .. MaxReads]
      BY BoundsAssumption
    <2> QED
      BY <2>1, <2>2, <2>3, <2>4 DEF Types
  <1>2. SendInv
    BY DEF SendInv, Sends, Idle
  <1>3. RxInv
    <2>1. CASE dev = "hal"
      BY <2>1, BoundsAssumption DEF RxInv, Mixed, Active
    <2>2. CASE dev # "hal"
      BY <2>2 DEF RxInv, Mixed, Active
    <2> QED
      BY <2>1, <2>2
  <1>4. TxInv
    BY DEF TxInv, Encrypts
  <1> QED
    BY <1>1, <1>2, <1>3, <1>4 DEF IInv

(* Four kinds of main.                                                     *)
LEMMA Kinds ==
    /\ Idle \notin Sends /\ Idle \notin Receives
    /\ Idle.op = "idle"
    /\ \A m \in Sends : m \notin Receives /\ m.op = "send"
    /\ \A m \in Receives : m.op = "receive"
  BY DEF Idle, Sends, Receives

(* The buffers.                                                            *)
LEMMA BufferNames ==
    /\ Buffers = {<<"rx", 0>>, <<"rx", 1>>, <<"tx", 0>>, <<"tx", 1>>}
    /\ \A i, j \in {0, 1} : <<"rx", i>> # <<"tx", j>>
    /\ \A i, j \in {0, 1} : <<"rx", i>> = <<"rx", j>> <=> i = j
  BY DEF Buffers

LEMMA ActiveBuffers ==
    ASSUME active \in [{"rx", "tx"} -> {0, 1}], NEW dir \in {"rx", "tx"}
    PROVE  /\ Active(dir) \in Buffers /\ Inactive(dir) \in Buffers
           /\ Swapped(dir) \in [{"rx", "tx"} -> {0, 1}]
           /\ Swapped(dir)[dir] = 1 - active[dir]
           /\ \A d \in {"rx", "tx"} \ {dir} : Swapped(dir)[d] = active[d]
  BY DEF Active, Inactive, Swapped, Buffers

LEMMA HalfWritten ==
    ASSUME NEW m \in [Buffers -> [Half -> AnyCell]], NEW b \in Buffers,
           NEW h \in Half, NEW c \in AnyCell
    PROVE  /\ [m EXCEPT ![b][h] = c] \in [Buffers -> [Half -> AnyCell]]
           /\ [m EXCEPT ![b][h] = c][b] = [m[b] EXCEPT ![h] = c]
           /\ \A o \in Buffers \ {b} : [m EXCEPT ![b][h] = c][o] = m[o]
  OBVIOUS

LEMMA MixedStays ==
    ASSUME Types, dev' = dev, left' = left \/ left'.sends = left.sends - 1
    PROVE  Mixed => Mixed'
  BY BoundsAssumption DEF Types, Mixed

LEMMA WholeBlocks ==
    ASSUME NEW b \in [Half -> AnyCell], NEW block \in Nat, NEW k \in Nat
    PROVE  /\ b[1] = Raw(block, k) /\ b[2] = Raw(block, k + 1) =>
                 Whole(b, block)
           /\ Whole(b, block) /\ b[1].key = k =>
                 \A h \in Half : b[h] = Raw(block, k + h - 1)
  <1>1. Raw(block, k).key = k
    BY DEF Raw, Cell
  <1>2. ASSUME b[1] = Raw(block, k), b[2] = Raw(block, k + 1)
        PROVE  Whole(b, block)
    <2>1. k + 1 - 1 = k /\ k + 2 - 1 = k + 1
      OBVIOUS
    <2>2. \A h \in Half : b[h] = Raw(block, b[1].key + h - 1)
      BY <1>1, <1>2, <2>1 DEF Half
    <2> QED
      BY <2>2 DEF Whole
  <1> QED
    BY <1>2 DEF Whole

(* A step that leaves the reception alone.                                 *)
LEMMA QuietRx ==
    ASSUME Types, RxInv, UNCHANGED <<dev, rx>>, active'["rx"] = active["rx"],
           Mixed => Mixed',
           ~Mixed' => \A i \in {0, 1} : mem'[<<"rx", i>>] = mem[<<"rx", i>>]
    PROVE  RxInv'
  <1>1. rx \in RxStreams /\ active["rx"] \in {0, 1}
    BY DEF Types
  <1> QED
    BY <1>1 DEF RxInv, Active, Inactive

(* A step that leaves the transmission alone.                              *)
LEMMA QuietTx ==
    ASSUME TxInv, UNCHANGED <<dev, emptyEnds, tx>>, gaveUp => gaveUp',
           complete'["tx"] = complete["tx"], Encrypts => Encrypts' \/ gaveUp'
    PROVE  TxInv'
  BY DEF TxInv, Encrypts

-----------------------------------------------------------------------------
(* The streams.                                                            *)
LEMMA ReceiveHalfIInv == IInv /\ Counters /\ ReceiveHalf => IInv'
  <1> SUFFICES ASSUME IInv, Counters, ReceiveHalf PROVE IInv'
    OBVIOUS
  <1>1. Types
    BY DEF IInv
  <1>2. /\ UNCHANGED <<dev, emptyEnds, ready, gaveUp, torn, active, complete,
                       tx, left>>
        /\ rx.running /\ (rx.half = 1 => ~rx.done)
    BY DEF ReceiveHalf, setup
  <1>3. /\ rx.target \in Buffers /\ rx.half \in {0, 1}
        /\ rx.block \in Nat \ {0} /\ rx.done \in BOOLEAN
        /\ rx.running \in BOOLEAN
        /\ mem \in [Buffers -> [Half -> AnyCell]] /\ rx.key \in Nat
    BY <1>1 DEF Types, RxStreams
  <1> DEFINE c == Raw(rx.block, rx'.key + rx.half)
  <1>4. mem' = [mem EXCEPT ![rx.target][rx.half + 1] = c]
    BY DEF ReceiveHalf
  <1>7. /\ main \in Sends <=> main' \in Sends
        /\ main \in Sends => main' = main
        /\ main' = Idle \/ main' \in Sends \/ main' \in Receives
    <2>1. CASE main \in Receives
      <3>1. main' \in Receives
        BY <2>1 DEF ReceiveHalf, Receives
      <3> QED
        BY <2>1, <3>1, Kinds
    <2>2. CASE main \notin Receives
      <3>1. main.op # "receive"
        BY <1>1, <2>2, Kinds DEF Types
      <3> QED
        BY <1>1, <3>1 DEF ReceiveHalf, Types
    <2> QED
      BY <2>1, <2>2
  <1>8. /\ rx.half = 0 => rx' = [rx EXCEPT !.half = 1, !.key = peer + 1]
        /\ rx.half = 1 =>
              rx' = [rx EXCEPT !.half = 0, !.block = @ + 1, !.done = TRUE,
                            !.target = IF dev = "hal" THEN @ ELSE Other(@),
                            !.running = dev # "hal"]
    BY <1>3 DEF ReceiveHalf
  <1>9. Other(rx.target) \in Buffers
    BY <1>3 DEF Other, Buffers
  <1>10. rx' \in RxStreams
    <2>1. rx \in RxStreams /\ rx.block + 1 \in Nat \ {0}
      BY <1>1, <1>3 DEF Types
    <2>2. CASE rx.half = 0
      <3>1. peer + 1 \in Nat
        BY DEF Counters
      <3> QED
        BY <1>8, <2>1, <2>2, <3>1 DEF RxStreams
    <2>3. CASE rx.half = 1
      <3>1. PICK t \in Buffers, r \in BOOLEAN :
               rx' = [rx EXCEPT !.half = 0, !.block = @ + 1, !.done = TRUE,
                             !.target = t, !.running = r]
        BY <1>3, <1>8, <1>9, <2>3
      <3> QED
        BY <2>1, <3>1 DEF RxStreams
    <2> QED
      BY <1>3, <2>2, <2>3
  <1>5. /\ rx.half + 1 \in Half /\ c \in AnyCell
        /\ rx.half = 0 => c = Raw(rx.block, rx'.key)
        /\ rx.half = 1 => c = Raw(rx.block, rx.key + 1) /\ rx'.key = rx.key
    <2>1. rx'.key \in Nat /\ (rx.half = 1 => rx'.key = rx.key)
      <3>1. CASE rx.half = 0
        BY <1>10, <3>1 DEF RxStreams
      <3>2. CASE rx.half = 1
        <4>1. PICK t, r :
                 rx' = [rx EXCEPT !.half = 0, !.block = @ + 1, !.done = TRUE,
                               !.target = t, !.running = r]
          BY <1>8, <3>2, Zenon
        <4> QED
          BY <1>1, <1>10, <4>1 DEF Types, RxStreams
      <3> QED
        BY <1>3, <3>1, <3>2
    <2>2. rx'.key + rx.half \in Nat
      BY <1>3, <2>1
    <2>3. c \in AnyCell
      BY <1>3, <2>2 DEF Raw, Cell, AnyCell
    <2> QED
      BY <1>3, <2>1, <2>3 DEF Half
  <1> HIDE DEF c
  <1>6. /\ mem' \in [Buffers -> [Half -> AnyCell]]
        /\ mem'[rx.target] = [mem[rx.target] EXCEPT ![rx.half + 1] = c]
        /\ \A o \in Buffers \ {rx.target} : mem'[o] = mem[o]
    BY <1>3, <1>4, <1>5, HalfWritten
  <1>11. Types'
    BY <1>1, <1>2, <1>6, <1>7, <1>10 DEF Types
  <1>12. SendInv'
    BY <1>2, <1>7 DEF IInv, SendInv, Mixed
  <1>13. TxInv'
    BY <1>2, <1>7, QuietTx DEF IInv, Encrypts
  <1>14. RxInv'
    <2> SUFFICES ASSUME ~Mixed PROVE RxInv'
      BY <1>2 DEF RxInv, Mixed
    <2>1. active["rx"] \in {0, 1}
      BY <1>1 DEF Types
    <2>2. CASE rx.half = 0
      <3>1. /\ rx'.half = 1 /\ UNCHANGED <<rx.target, rx.block, rx.done,
                                          rx.running>>
        BY <1>1, <1>8, <2>2 DEF Types, RxStreams
      <3>2. mem'[rx.target][1] = Raw(rx.block, rx'.key)
        BY <1>3, <1>5, <1>6, <2>2 DEF Half
      <3>3. rx.done => rx.target # Active("rx")
        BY <1>2, <2>1 DEF IInv, RxInv, Active, Inactive
      <3>4. rx.done => mem'[Active("rx")] = mem[Active("rx")]
        BY <1>1, <1>6, <3>3, ActiveBuffers DEF Types
      <3> QED
        <4>1. CASE dev = "hal"
          BY <1>2, <2>2, <3>1, <3>2, <4>1 DEF IInv, RxInv, Active
        <4>2. CASE dev # "hal"
          BY <1>2, <2>2, <3>1, <3>2, <3>4, <4>2
             DEF IInv, RxInv, Active, Inactive
        <4> QED
          BY <4>1, <4>2
    <2>3. CASE rx.half = 1
      <3>1. /\ rx'.half = 0 /\ rx'.block = rx.block + 1 /\ rx'.done = TRUE
            /\ rx'.target = IF dev = "hal" THEN rx.target ELSE Other(rx.target)
            /\ rx'.running = (dev # "hal")
        BY <1>1, <1>8, <2>3 DEF Types, RxStreams
      <3>2. rx.target = Active("rx")
        BY <1>2, <2>3 DEF IInv, RxInv
      <3>3. Whole(mem'[rx.target], rx.block)
        <4>1. mem[rx.target] \in [Half -> AnyCell]
          BY <1>3
        <4>2. mem[rx.target][1] = Raw(rx.block, rx.key)
          BY <2>3 DEF IInv, RxInv
        <4>3. mem'[rx.target] = [mem[rx.target] EXCEPT ![2] =
                                    Raw(rx.block, rx.key + 1)]
          BY <1>5, <1>6, <2>3
        <4>4. /\ mem'[rx.target] \in [Half -> AnyCell]
              /\ mem'[rx.target][1] = Raw(rx.block, rx.key)
              /\ mem'[rx.target][2] = Raw(rx.block, rx.key + 1)
          BY <1>3, <1>6, <4>1, <4>2, <4>3 DEF Half
        <4>5. Raw(rx.block, rx.key).key = rx.key
          BY DEF Raw, Cell
        <4> QED
          BY <1>3, <4>4, <4>5, WholeBlocks
      <3>4. Other(Active("rx")) = Inactive("rx")
        BY DEF Other, Active, Inactive
      <3>5. rx'.block - 1 = rx.block
        BY <1>3, <3>1
      <3> QED
        <4>1. CASE dev = "hal"
          <5>1. ~rx'.running
            BY <3>1, <4>1, Zenon
          <5>2. rx'.target = Active("rx")
            BY <3>1, <3>2, <4>1
          <5> QED
            BY <1>2, <3>1, <3>2, <3>3, <3>5, <4>1, <5>1, <5>2 DEF RxInv, Active
        <4>2. CASE dev # "hal"
          <5>1. rx'.running /\ rx'.target = Inactive("rx")
            BY <3>1, <3>2, <3>4, <4>2
          <5> QED
            BY <1>2, <3>1, <3>2, <3>3, <3>5, <4>2, <5>1
               DEF RxInv, Active, Inactive
        <4> QED
          BY <4>1, <4>2
    <2> QED
      BY <1>3, <2>2, <2>3
  <1> QED
    BY <1>11, <1>12, <1>13, <1>14 DEF IInv

LEMMA TransmitHalfIInv == IInv /\ TransmitHalf => IInv'
  <1> SUFFICES ASSUME IInv, TransmitHalf PROVE IInv'
    OBVIOUS
  <1>1. Types
    BY DEF IInv
  <1>2. UNCHANGED <<dev, emptyEnds, ready, gaveUp, torn, mem, active,
                    complete, rx, main, left>>
    BY DEF TransmitHalf, setup
  <1>3. /\ tx.half \in Nat /\ tx.len \in 0 .. 2 /\ tx.half < tx.len
        /\ tx' = [tx EXCEPT !.half = @ + 1,
                     !.done = dev # "hal" /\ tx.half + 1 = tx.len]
    BY <1>1 DEF TransmitHalf, Types, TxStreams
  <1>4. /\ tx' \in TxStreams /\ tx'.half = tx.half + 1 /\ tx'.len = tx.len
        /\ dev # "hal" /\ tx.half + 1 = tx.len => tx'.done
    <2>1. tx \in TxStreams
      BY <1>1 DEF Types
    <2>2. PICK d \in BOOLEAN :
             /\ tx' = [tx EXCEPT !.half = @ + 1, !.done = d]
             /\ dev # "hal" /\ tx.half + 1 = tx.len => d = TRUE
      BY <1>3, Zenon
    <2>3. tx' \in TxStreams /\ tx'.half = tx.half + 1 /\ tx'.len = tx.len
      <3> DEFINE n == tx.half + 1
      <3>1. n \in Nat /\ tx' = [tx EXCEPT !.half = n, !.done = d]
        BY <1>3, <2>2
      <3> HIDE DEF n
      <3>2. tx' \in TxStreams /\ tx'.half = n /\ tx'.len = tx.len
        BY <2>1, <3>1 DEF TxStreams
      <3> QED
        BY <3>2 DEF n
    <2>4. tx'.done = d
      BY <2>1, <2>2 DEF TxStreams
    <2> QED
      BY <2>2, <2>3, <2>4
  <1>5. Types' /\ SendInv'
    BY <1>1, <1>2, <1>4 DEF IInv, Types, SendInv, Mixed
  <1>6. RxInv'
    BY <1>1, <1>2, QuietRx DEF IInv, Mixed
  <1>7. TxInv'
    BY <1>2, <1>3, <1>4 DEF TxInv, Encrypts
  <1> QED
    BY <1>5, <1>6, <1>7 DEF IInv

-----------------------------------------------------------------------------
(* The interrupt handlers.                                                 *)
LEMMA DecryptedMemory ==
    ASSUME Types, DecryptActive
    PROVE  /\ mem' \in [Buffers -> [Half -> AnyCell]] /\ torn' \in BOOLEAN
           /\ \A o \in Buffers \ {Active("rx")} : mem'[o] = mem[o]
  <1>1. ASSUME NEW c \in AnyCell, NEW k, NEW b
        PROVE  Decrypted(c, k, b) \in AnyCell
    <2> DEFINE f == IF c.key = k /\ ~b THEN "plain" ELSE "garbled"
    <2>1. f \in {"plain", "garbled"} /\ 0 \in Nat
      OBVIOUS
    <2>2. Decrypted(c, k, b) = [c EXCEPT !.form = f, !.key = 0]
      BY DEF Decrypted
    <2> HIDE DEF f
    <2> QED
      BY <2>1, <2>2 DEF AnyCell
  <1>2. /\ torn' \in BOOLEAN
        /\ \/ mem' = mem
           \/ mem' = [mem EXCEPT ![Active("rx")] =
                         [h \in Half |-> Decrypted(@[h], spent + h, torn')]]
    BY DEF DecryptActive
  <1>3. mem \in [Buffers -> [Half -> AnyCell]] /\ Active("rx") \in Buffers
    BY ActiveBuffers DEF Types
  <1>4. [h \in Half |-> Decrypted(mem[Active("rx")][h], spent + h, torn')]
            \in [Half -> AnyCell]
    BY <1>1, <1>2, <1>3
  <1> QED
    BY <1>2, <1>3, <1>4

LEMMA ServedStream ==
    ASSUME rx \in RxStreams, NEW r \in BOOLEAN, NEW t \in Buffers,
           \/ /\ rx' = [rx EXCEPT !.done = FALSE]
              /\ r = rx.running /\ t = rx.target
           \/ rx' = [rx EXCEPT !.done = FALSE, !.running = r, !.target = t]
    PROVE  /\ rx' \in RxStreams /\ rx'.done = FALSE /\ rx'.running = r
           /\ rx'.target = t /\ rx'.half = rx.half /\ rx'.block = rx.block
           /\ rx'.key = rx.key
  BY DEF RxStreams

(* What the two kinds of reception handler have in common.                 *)
LEMMA ReceptionServed ==
    ASSUME IInv, DecryptActive, rx' \in RxStreams, active' = Swapped("rx"),
           complete' = [complete EXCEPT !["rx"] = TRUE],
           UNCHANGED <<setup, gaveUp, tx, main, left>>, RxInv'
    PROVE  IInv'
  <1>1. Types /\ UNCHANGED <<dev, emptyEnds, ready>>
    BY DEF IInv, setup
  <1>2. Types'
    BY <1>1, DecryptedMemory, ActiveBuffers DEF Types
  <1>3. SendInv'
    BY <1>1 DEF IInv, SendInv, Mixed
  <1>4. complete'["tx"] = complete["tx"]
    BY <1>1 DEF Types
  <1>5. TxInv'
    BY <1>1, <1>4, QuietTx DEF IInv, Encrypts
  <1> QED
    BY <1>2, <1>3, <1>5 DEF IInv

LEMMA ServeReceptionIInv == IInv /\ ServeReception /\ dev # "hal" => IInv'
  <1> SUFFICES ASSUME IInv, ServeReception, dev # "hal" PROVE IInv'
    OBVIOUS
  <1>1. /\ Types /\ rx \in RxStreams /\ rx.target \in Buffers
        /\ rx.running \in BOOLEAN /\ active \in [{"rx", "tx"} -> {0, 1}]
    BY DEF IInv, Types, RxStreams
  <1>2. /\ rx.done /\ DecryptActive /\ rx' = [rx EXCEPT !.done = FALSE]
        /\ active' = Swapped("rx")
        /\ complete' = [complete EXCEPT !["rx"] = TRUE]
        /\ UNCHANGED <<setup, gaveUp, tx, main, left>>
    BY DEF ServeReception
  <1>3. /\ rx' \in RxStreams /\ rx'.done = FALSE /\ rx'.running = rx.running
        /\ rx'.target = rx.target /\ rx'.half = rx.half
        /\ rx'.block = rx.block /\ rx'.key = rx.key
    BY <1>1, <1>2, ServedStream
  <1>4. active'["rx"] = 1 - active["rx"] /\ active["rx"] \in {0, 1}
    BY <1>1, <1>2, ActiveBuffers
  <1>5. RxInv'
    <2> SUFFICES ASSUME ~Mixed PROVE RxInv'
      BY <1>2 DEF RxInv, Mixed, setup
    <2>1. /\ rx.running /\ rx.target = Inactive("rx")
          /\ rx.half = 1 => mem[rx.target][1] = Raw(rx.block, rx.key)
      BY <1>2 DEF IInv, RxInv
    <2>2. Active("rx")' = Inactive("rx") /\ Inactive("rx") # Active("rx")
      BY <1>4 DEF Active, Inactive
    <2>3. mem'[rx.target] = mem[rx.target]
      BY <1>1, <1>2, <2>1, <2>2, DecryptedMemory
    <2>4. dev' = dev
      BY <1>2 DEF setup
    <2> QED
      BY <1>3, <2>1, <2>2, <2>3, <2>4 DEF RxInv
  <1> QED
    BY <1>2, <1>3, <1>5, ReceptionServed

LEMMA HalReceptionIInv == IInv /\ HAL_UART_RxCpltCallback => IInv'
  <1> SUFFICES ASSUME IInv, HAL_UART_RxCpltCallback PROVE IInv'
    OBVIOUS
  <1>1. /\ Types /\ rx \in RxStreams /\ active \in [{"rx", "tx"} -> {0, 1}]
    BY DEF IInv, Types
  <1>2. /\ rx.done /\ DecryptActive /\ dev = "hal"
        /\ active' = Swapped("rx")
        /\ rx' = [rx EXCEPT !.done = FALSE, !.running = TRUE,
                          !.target = <<"rx", active'["rx"]>>]
        /\ complete' = [complete EXCEPT !["rx"] = TRUE]
        /\ UNCHANGED <<setup, gaveUp, tx, main, left>>
    BY DEF HAL_UART_RxCpltCallback
  <1>3. /\ Active("rx")' = <<"rx", active'["rx"]>>
        /\ <<"rx", active'["rx"]>> \in Buffers
    BY <1>1, <1>2, ActiveBuffers DEF Active, Buffers
  <1>4. /\ rx' \in RxStreams /\ rx'.done = FALSE /\ rx'.running = TRUE
        /\ rx'.target = Active("rx")' /\ rx'.half = rx.half
    BY <1>1, <1>2, <1>3, ServedStream
  <1>5. RxInv'
    <2> SUFFICES ASSUME ~Mixed PROVE RxInv'
      BY <1>2 DEF RxInv, Mixed, setup
    <2>1. rx.half = 0
      BY <1>2 DEF IInv, RxInv
    <2>2. dev' = dev
      BY <1>2 DEF setup
    <2> QED
      BY <1>2, <1>4, <2>1, <2>2 DEF RxInv
  <1> QED
    BY <1>2, <1>4, <1>5, ReceptionServed

LEMMA ServeTransmissionIInv == IInv /\ ServeTransmission => IInv'
  <1> SUFFICES ASSUME IInv, ServeTransmission PROVE IInv'
    OBVIOUS
  <1>1. /\ Types /\ tx \in TxStreams
        /\ tx' = [tx EXCEPT !.done = FALSE]
        /\ complete' = [complete EXCEPT !["tx"] = TRUE]
        /\ UNCHANGED <<dev, emptyEnds, ready, gaveUp, torn, mem, active, rx,
                       main, left>>
    BY DEF IInv, Types, ServeTransmission, setup
  <1>2. tx' \in TxStreams /\ complete' \in [{"rx", "tx"} -> BOOLEAN]
        /\ complete'["tx"] = TRUE
    BY <1>1 DEF TxStreams, Types
  <1>3. Types' /\ SendInv'
    BY <1>1, <1>2 DEF IInv, Types, SendInv, Mixed
  <1>4. RxInv'
    BY <1>1, QuietRx DEF IInv, Mixed
  <1>5. TxInv'
    BY <1>2 DEF TxInv, Encrypts
  <1> QED
    BY <1>3, <1>4, <1>5 DEF IInv

-----------------------------------------------------------------------------
(* Sending.                                                                *)

LEMMA SendFields ==
    ASSUME NEW m \in Sends
    PROVE  /\ m.op = "send" /\ m.at \in {"wait", "encrypt"}
           /\ m.buffer \in Buffers /\ m.len \in 0 .. 2 /\ m.half \in Nat
           /\ m.aligned \in BOOLEAN
  BY DEF Sends

LEMMA IsSend == Types /\ main.op = "send" => main \in Sends
  BY Kinds DEF Types

LEMMA IsReceive == Types /\ main.op = "receive" => main \in Receives
  BY Kinds DEF Types

LEMMA SendingIsSend ==
    ASSUME NEW at \in {"wait", "encrypt"}, NEW b \in Buffers,
           NEW n \in 0 .. 2, NEW aligned \in BOOLEAN
    PROVE  /\ Sending(at, b, n, aligned) \in Sends
           /\ Sending(at, b, n, aligned).at = at
           /\ Sending(at, b, n, aligned).buffer = b
  BY DEF Sending, Sends

(* A call that changes nothing but main and what is left.                  *)
LEMMA CallIInv ==
    ASSUME IInv,
           UNCHANGED <<setup, gaveUp, torn, mem, active, complete, rx, tx>>,
           left' \in [sends : 0 .. MaxSends, reads : 0 .. MaxReads],
           left'.sends = left.sends \/ left'.sends = left.sends - 1,
           main' = Idle \/ main' \in Sends \/ main' \in Receives,
           SendInv', Encrypts => Encrypts'
    PROVE  IInv'
  <1>1. Types /\ UNCHANGED <<dev, emptyEnds, ready>>
    BY DEF IInv, setup
  <1>2. Types'
    BY <1>1 DEF Types
  <1>3. Mixed => Mixed'
    BY <1>1, BoundsAssumption DEF Types, Mixed
  <1>4. RxInv'
    BY <1>1, <1>3, QuietRx DEF IInv
  <1>5. TxInv'
    BY <1>1, QuietTx DEF IInv
  <1> QED
    BY <1>2, <1>4, <1>5 DEF IInv

LEMMA LeftFields ==
    ASSUME Types
    PROVE  /\ left.sends > 0 =>
                 LET l == [left EXCEPT !.sends = @ - 1]
                 IN  /\ l \in [sends : 0 .. MaxSends, reads : 0 .. MaxReads]
                     /\ l.sends = left.sends - 1
           /\ left.reads > 0 =>
                 LET l == [left EXCEPT !.reads = @ - 1]
                 IN  /\ l \in [sends : 0 .. MaxSends, reads : 0 .. MaxReads]
                     /\ l.sends = left.sends
  BY BoundsAssumption DEF Types

LEMMA CallSendIInv ==
    ASSUME IInv, dev # "hal", NEW len \in 0 .. 3, NEW aligned \in BOOLEAN,
           CallSend(len, aligned)
    PROVE  IInv'
  <1>1. /\ Types /\ main = Idle /\ left.sends > 0
        /\ left' = [left EXCEPT !.sends = @ - 1]
        /\ UNCHANGED <<setup, gaveUp, torn, mem, active, complete, rx, tx>>
    BY DEF IInv, CallSend
  <1>2. \/ main' = Idle
        \/ main' \in Sends /\ main'.buffer = <<"tx", 0>>
    <2>1. CASE len > 2
      BY <2>1 DEF CallSend
    <2>2. CASE len \in 0 .. 2
      <3>1. main' = Sending("wait", <<"tx", 0>>, len, aligned)
        BY <2>2 DEF CallSend
      <3> QED
        BY <2>2, <3>1, SendingIsSend DEF Buffers
    <2> QED
      BY <2>1, <2>2
  <1>3. SendInv'
    BY <1>1, <1>2, Kinds DEF SendInv, setup
  <1>4. ~Encrypts
    BY <1>1, Kinds DEF Encrypts
  <1> QED
    BY <1>1, <1>2, <1>3, <1>4, LeftFields, CallIInv

LEMMA AwaitTransmissionIInv ==
    IInv /\ dev # "hal" /\ AwaitTransmission => IInv'
  <1> SUFFICES ASSUME IInv, dev # "hal", AwaitTransmission PROVE IInv'
    OBVIOUS
  <1>1. /\ Types /\ main \in Sends
        /\ complete' = [complete EXCEPT !["tx"] = FALSE]
        /\ main' = [main EXCEPT !.at = "encrypt", !.buffer = Active("tx")]
        /\ UNCHANGED <<dev, emptyEnds, ready, gaveUp, torn, mem, active, rx,
                       tx, left>>
    BY IsSend DEF IInv, AwaitTransmission, Waits, setup
  <1>2. Active("tx") \in {<<"tx", 0>>, <<"tx", 1>>}
    BY <1>1 DEF Types, Active
  <1>3. /\ main' \in Sends /\ main'.at = "encrypt"
        /\ main'.buffer \in {<<"tx", 0>>, <<"tx", 1>>}
    BY <1>1, <1>2, BufferNames DEF Sends
  <1>4. complete' \in [{"rx", "tx"} -> BOOLEAN]
    BY <1>1 DEF Types
  <1>5. Types' /\ SendInv'
    BY <1>1, <1>3, <1>4 DEF Types, SendInv
  <1>6. RxInv'
    BY <1>1, QuietRx DEF IInv, Mixed
  <1>7. TxInv'
    BY <1>3 DEF TxInv, Encrypts
  <1> QED
    BY <1>5, <1>6, <1>7 DEF IInv

LEMMA GiveUpIInv == IInv /\ GiveUp => IInv'
  <1> SUFFICES ASSUME IInv, GiveUp PROVE IInv'
    OBVIOUS
  <1>1. /\ Types /\ main' = Idle /\ gaveUp' = TRUE
        /\ UNCHANGED <<dev, emptyEnds, ready, torn, mem, active, complete, rx,
                       tx, left>>
    BY DEF IInv, GiveUp, setup
  <1>2. Types' /\ SendInv' /\ TxInv'
    BY <1>1, Kinds DEF Types, SendInv, TxInv, Encrypts
  <1>3. RxInv'
    BY <1>1, QuietRx DEF IInv, Mixed
  <1> QED
    BY <1>2, <1>3 DEF IInv

LEMMA EncryptHalfIInv == IInv /\ Counters /\ EncryptHalf => IInv'
  <1> SUFFICES ASSUME IInv, Counters, EncryptHalf PROVE IInv'
    OBVIOUS
  <1> DEFINE c == Cell("tx", tx.id + 1, IF torn THEN "garbled" ELSE "cipher",
                       spent + 1)
             h == main.half + 1
  <1>1. /\ Types /\ main \in Sends /\ main.half < main.len
        /\ main.at = "encrypt"
        /\ mem' = [mem EXCEPT ![main.buffer][h] = c]
        /\ main' = [main EXCEPT !.half = @ + 1]
        /\ UNCHANGED <<dev, emptyEnds, ready, gaveUp, torn, active, complete,
                       rx, tx, left>>
    BY IsSend DEF IInv, EncryptHalf, Encrypting, setup
  <1>2. main.buffer \in Buffers /\ main.len \in 0 .. 2 /\ main.half \in Nat
    BY <1>1, SendFields
  <1>3. h \in Half /\ c \in AnyCell
    <2>1. h \in Half
      BY <1>1, <1>2 DEF Half
    <2>2. tx.id + 1 \in Nat /\ spent + 1 \in Nat
      BY <1>1 DEF Types, TxStreams, Counters
    <2>3. c \in AnyCell
      BY <2>2 DEF Cell, AnyCell
    <2> QED
      BY <2>1, <2>3
  <1>4. mem \in [Buffers -> [Half -> AnyCell]]
    BY <1>1 DEF Types
  <1>5. /\ mem' \in [Buffers -> [Half -> AnyCell]]
        /\ \A o \in Buffers \ {main.buffer} : mem'[o] = mem[o]
    <2> HIDE DEF c, h
    <2> QED
      BY <1>1, <1>2, <1>3, <1>4, HalfWritten
  <1>6. /\ main' \in Sends /\ main'.at = main.at
        /\ main'.buffer = main.buffer
    BY <1>1, <1>2 DEF Sends
  <1>7. Types' /\ SendInv'
    BY <1>1, <1>5, <1>6 DEF IInv, Types, SendInv, Mixed
  <1>8. RxInv'
    <2>1. ~Mixed => main.buffer \in {<<"tx", 0>>, <<"tx", 1>>}
      BY <1>1 DEF IInv, SendInv
    <2>2. ~Mixed => \A i \in {0, 1} : mem'[<<"rx", i>>] = mem[<<"rx", i>>]
      BY <1>5, <2>1, BufferNames
    <2> QED
      BY <1>1, <2>2, QuietRx DEF IInv, Mixed
  <1>9. TxInv'
    BY <1>1, <1>6, QuietTx DEF IInv, Encrypts
  <1> QED
    BY <1>7, <1>8, <1>9 DEF IInv

LEMMA TransmissionType ==
    ASSUME Types, NEW b \in Buffers, NEW n \in 0 .. 2
    PROVE  LET t == Transmission(b, n)
           IN  /\ t \in TxStreams /\ t.half = 0 /\ t.len = n
               /\ dev # "hal" /\ n = 0 /\ emptyEnds => t.done
  <1>1. tx.id \in Nat /\ tx.id + 1 \in Nat
    BY DEF Types, TxStreams
  <1>2. PICK d \in BOOLEAN, i \in Nat :
           /\ Transmission(b, n) = [source |-> b, half |-> 0, len |-> n,
                                    done |-> d, id |-> i]
           /\ dev # "hal" /\ n = 0 /\ emptyEnds => d = TRUE
    <2> DEFINE d == dev # "hal" /\ n = 0 /\ emptyEnds
               i == IF n = 0 THEN tx.id ELSE tx.id + 1
    <2>1. d \in BOOLEAN /\ (dev # "hal" /\ n = 0 /\ emptyEnds => d = TRUE)
      BY Zenon
    <2>2. i \in Nat
      BY <1>1
    <2>3. Transmission(b, n) = [source |-> b, half |-> 0, len |-> n,
                                done |-> d, id |-> i]
      BY Zenon DEF Transmission
    <2> HIDE DEF d, i
    <2> QED
      BY <2>1, <2>2, <2>3
  <1> QED
    BY <1>2 DEF TxStreams

LEMMA StartTransmissionIInv ==
    IInv /\ dev # "hal" /\ StartTransmission => IInv'
  <1> SUFFICES ASSUME IInv, dev # "hal", StartTransmission PROVE IInv'
    OBVIOUS
  <1>1. /\ Types /\ main \in Sends
        /\ tx' = Transmission(main.buffer, main.len)
        /\ active' = Swapped("tx") /\ main' = Idle
        /\ UNCHANGED <<dev, emptyEnds, ready, gaveUp, torn, mem, complete, rx,
                       left>>
    BY IsSend DEF IInv, StartTransmission, Encrypted, Encrypting, setup
  <1>2. main.buffer \in Buffers /\ main.len \in 0 .. 2
    BY <1>1, SendFields
  <1>3. /\ tx' \in TxStreams /\ tx'.half = 0 /\ tx'.len = main.len
        /\ main.len = 0 /\ emptyEnds => tx'.done
    BY <1>1, <1>2, TransmissionType
  <1>4. active' \in [{"rx", "tx"} -> {0, 1}] /\ active'["rx"] = active["rx"]
    BY <1>1, ActiveBuffers DEF Types
  <1>5. Types' /\ SendInv'
    BY <1>1, <1>3, <1>4, Kinds DEF Types, SendInv
  <1>6. RxInv'
    BY <1>1, <1>4, QuietRx DEF IInv, Mixed
  <1>7. TxInv'
    BY <1>1, <1>2, <1>3 DEF TxInv, Encrypts
  <1> QED
    BY <1>5, <1>6, <1>7 DEF IInv

LEMMA HalSendIInv ==
    IInv /\ Counters /\ arcfour_uart_send_encrypted_dma => IInv'
  <1> SUFFICES ASSUME IInv, Counters, arcfour_uart_send_encrypted_dma
               PROVE  IInv'
    OBVIOUS
  <1>1. Types /\ dev = "hal"
    BY DEF IInv, arcfour_uart_send_encrypted_dma
  <1>2. ASSUME main = Idle, left.sends > 0, NEW len \in Half,
               NEW aligned \in BOOLEAN,
               main' = Sending("encrypt", Active("rx"), len, aligned),
               left' = [left EXCEPT !.sends = @ - 1],
               UNCHANGED <<setup, gaveUp, torn, mem, active, complete, rx, tx>>
        PROVE  IInv'
    <2>1. Active("rx") \in Buffers /\ len \in 0 .. 2
      BY <1>1, ActiveBuffers DEF Types, Half
    <2>2. main' \in Sends /\ main'.at = "encrypt"
      BY <1>2, <2>1, SendingIsSend
    <2>3. /\ left' \in [sends : 0 .. MaxSends, reads : 0 .. MaxReads]
          /\ left'.sends = left.sends - 1
      BY <1>1, <1>2, LeftFields
    <2>4. SendInv'
      BY <1>1, <1>2, <2>2, <2>3, BoundsAssumption
         DEF Types, SendInv, Mixed, setup
    <2>5. ~Encrypts
      BY <1>2, Kinds DEF Encrypts
    <2> QED
      BY <1>2, <2>2, <2>3, <2>4, <2>5, CallIInv
  <1>3. ASSUME Encrypted, main' = Idle,
               \/ tx' = tx
               \/ tx' = Transmission(main.buffer, main.len),
               UNCHANGED <<setup, gaveUp, torn, mem, active, complete, rx,
                           left>>
        PROVE  IInv'
    <2>1. main \in Sends /\ UNCHANGED <<dev, emptyEnds, ready>>
      BY <1>1, <1>3, IsSend DEF Encrypted, Encrypting, setup
    <2>2. tx' \in TxStreams
      BY <1>1, <1>3, <2>1, SendFields, TransmissionType DEF Types
    <2>3. Types' /\ SendInv' /\ TxInv'
      BY <1>1, <1>3, <2>1, <2>2, Kinds DEF Types, SendInv, TxInv, Encrypts
    <2>4. RxInv'
      BY <1>1, <1>3, <2>1, QuietRx DEF IInv, Mixed
    <2> QED
      BY <2>3, <2>4 DEF IInv
  <1> QED
    BY <1>2, <1>3, GiveUpIInv, EncryptHalfIInv
       DEF arcfour_uart_send_encrypted_dma

-----------------------------------------------------------------------------
(* Receiving.                                                              *)
LEMMA CallReceiveIInv ==
    ASSUME IInv, NEW len \in Half, CallReceive(len)
    PROVE  IInv'
  <1>1. /\ Types /\ main = Idle /\ left.reads > 0
        /\ left' = [left EXCEPT !.reads = @ - 1]
        /\ main' = [op |-> "receive", at |-> "get", len |-> len,
                    buffer |-> <<"rx", 0>>, got |-> <<>>, calm |-> ~rx.done]
        /\ UNCHANGED <<setup, gaveUp, torn, mem, active, complete, rx, tx>>
    BY DEF IInv, CallReceive
  <1>2. main' \in Receives
    <2>1. (~rx.done) \in BOOLEAN /\ <<>> \in Seq(AnyCell)
          /\ <<"rx", 0>> \in Buffers
      BY BufferNames
    <2> QED
      BY <1>1, <2>1 DEF Receives
  <1>3. SendInv' /\ ~Encrypts
    BY <1>1, <1>2, Kinds DEF SendInv, Encrypts
  <1> QED
    BY <1>1, <1>2, <1>3, LeftFields, CallIInv

LEMMA CopyingIInv ==
    ASSUME IInv, main \in Receives, main' = Idle \/ main' \in Receives,
           UNCHANGED <<setup, gaveUp, torn, mem, active, rx, tx, left>>,
           \/ complete' = complete
           \/ complete' = [complete EXCEPT !["rx"] = FALSE]
    PROVE  IInv'
  <1>1. Types /\ UNCHANGED <<dev, emptyEnds, ready>>
    BY DEF IInv, setup
  <1>2. /\ complete' \in [{"rx", "tx"} -> BOOLEAN]
        /\ complete'["tx"] = complete["tx"]
    BY <1>1 DEF Types
  <1>3. Types' /\ SendInv'
    BY <1>1, <1>2, Kinds DEF Types, SendInv
  <1>4. RxInv'
    BY <1>1, QuietRx DEF IInv, Mixed
  <1>5. TxInv'
    BY <1>1, <1>2, Kinds, QuietTx DEF IInv, Encrypts
  <1> QED
    BY <1>3, <1>4, <1>5 DEF IInv

LEMMA ReceiveStepsIInv == IInv /\ ReceiveSteps => IInv'
  <1> SUFFICES ASSUME IInv, ReceiveSteps PROVE IInv'
    OBVIOUS
  <1>1. Types /\ main \in Receives
    BY IsReceive DEF IInv, ReceiveSteps, GetInactive, CopyHalf, ClearFlag,
                     Copied
  <1>2. CASE GetInactive
    <2>1. main' \in Receives
      BY <1>1, <1>2, ActiveBuffers DEF GetInactive, Receives, Types
    <2> QED
      BY <1>1, <1>2, <2>1, CopyingIInv DEF GetInactive
  <1>3. CASE CopyHalf
    <2>1. /\ main.got \in Seq(AnyCell) /\ main.buffer \in Buffers
          /\ main.len \in Half
      BY <1>1 DEF Receives
    <2>2. Len(main.got) + 1 \in Half
      BY <1>3, <2>1 DEF CopyHalf, Half
    <2>3. mem[main.buffer][Len(main.got) + 1] \in AnyCell
      BY <1>1, <2>1, <2>2 DEF Types
    <2>4. PICK c \in AnyCell : main' = [main EXCEPT !.got = Append(@, c)]
      BY <1>3, <2>3 DEF CopyHalf
    <2>5. main' \in Receives
      <3> DEFINE g == Append(main.got, c)
      <3>1. g \in Seq(AnyCell) /\ main' = [main EXCEPT !.got = g]
        BY <2>1, <2>4
      <3> HIDE DEF g
      <3> QED
        BY <1>1, <3>1 DEF Receives
    <2> QED
      BY <1>1, <1>3, <2>5, CopyingIInv DEF CopyHalf
  <1>4. CASE ClearFlag
    BY <1>1, <1>4, CopyingIInv DEF ClearFlag
  <1> QED
    BY <1>2, <1>3, <1>4 DEF ReceiveSteps

-----------------------------------------------------------------------------
LEMMA StutterIInv == IInv /\ UNCHANGED vars => IInv'
  BY DEF IInv, Types, SendInv, RxInv, TxInv, Encrypts, Mixed, Active,
         Inactive, vars, setup

LEMMA NextIInv == IInv /\ Counters /\ [Next]_vars => IInv'
  <1> SUFFICES ASSUME IInv, Counters, [Next]_vars PROVE IInv'
    OBVIOUS
  <1>1. CASE Handlers
    BY <1>1, ServeReceptionIInv, ServeTransmissionIInv, HalReceptionIInv
       DEF Handlers, DMA1_Stream5_IRQHandler, DMA1_Stream6_IRQHandler,
           DMA2_Stream5_IRQHandler, DMA2_Stream6_IRQHandler
  <1>2. CASE uart_send_encrypted \/ spi_send_encrypted
    BY <1>2, CallSendIInv, AwaitTransmissionIInv, GiveUpIInv, EncryptHalfIInv,
       StartTransmissionIInv
       DEF uart_send_encrypted, spi_send_encrypted, Send, SendSteps
  <1>3. CASE uart_receive_decrypted \/ spi_receive_decrypted \/ hal_receive
    BY <1>3, CallReceiveIInv, ReceiveStepsIInv
       DEF uart_receive_decrypted, spi_receive_decrypted, hal_receive
  <1> QED
    BY <1>1, <1>2, <1>3, ReceiveHalfIInv, TransmitHalfIInv, HalSendIInv,
       StutterIInv DEF Next

(* The counters only grow.                                                 *)
LEMMA NextCounters == IInv /\ Counters /\ [Next]_vars => Counters'
  <1> SUFFICES ASSUME IInv, Counters, [Next]_vars PROVE Counters'
    OBVIOUS
  <1>1. /\ spent' \in {spent, spent + 1, spent + 2}
        /\ peer' \in {peer, peer + 2, peer + tx.len}
    <2>1. CASE ReceiveHalf
      BY <2>1 DEF ReceiveHalf, PeerEncrypts
    <2>2. CASE TransmitHalf
      BY <2>2 DEF TransmitHalf
    <2>3. CASE Handlers
      BY <2>3 DEF Handlers, DMA1_Stream5_IRQHandler, DMA1_Stream6_IRQHandler,
                  DMA2_Stream5_IRQHandler, DMA2_Stream6_IRQHandler,
                  HAL_UART_RxCpltCallback, ServeReception, ServeTransmission,
                  DecryptActive, keys
    <2>4. CASE uart_send_encrypted \/ spi_send_encrypted
               \/ arcfour_uart_send_encrypted_dma
      BY <2>4 DEF uart_send_encrypted, spi_send_encrypted, Send, SendSteps,
                  CallSend, AwaitTransmission, GiveUp, EncryptHalf,
                  StartTransmission, arcfour_uart_send_encrypted_dma, keys
    <2>5. CASE uart_receive_decrypted \/ spi_receive_decrypted \/ hal_receive
      BY <2>5 DEF uart_receive_decrypted, spi_receive_decrypted, hal_receive,
                  CallReceive, ReceiveSteps, GetInactive, CopyHalf, ClearFlag,
                  keys
    <2>6. CASE UNCHANGED vars
      BY <2>6 DEF vars, keys
    <2> QED
      BY <2>1, <2>2, <2>3, <2>4, <2>5, <2>6 DEF Next
  <1>2. tx.len \in Nat
    BY DEF IInv, Types, TxStreams
  <1> QED
    BY <1>1, <1>2 DEF Counters

LEMMA Inductive == Spec => [](IInv /\ Counters)
  <1>1. Init => Counters
    BY DEF Init, Globals, Counters
  <1> QED
    BY <1>1, InitIInv, NextIInv, NextCounters, PTL DEF Spec

(* What a handler decrypts is the block that has come in.                  *)
THEOREM HandlersDecryptBlocks == Spec => []HandlerFindsBlock
  <1>1. IInv => HandlerFindsBlock
    <2> SUFFICES ASSUME IInv, rx.done, ~Mixed
                 PROVE  /\ Whole(mem[Active("rx")], rx.block - 1)
                        /\ rx.running => rx.target # Active("rx")
      BY DEF HandlerFindsBlock, Whole
    <2>1. active["rx"] \in {0, 1} /\ dev \in {"uart", "spi", "hal"}
      BY DEF IInv, Types
    <2> QED
      BY <2>1 DEF IInv, RxInv, Active, Inactive
  <1> QED
    BY <1>1, Inductive, PTL

(* No send waits for a completion that will not come.                      *)
THEOREM WaitsEnd == Spec => []NeverWaitsForNothing
  <1>1. IInv => NeverWaitsForNothing
    <2> SUFFICES ASSUME IInv, emptyEnds, ~gaveUp, Waits
                 PROVE  complete["tx"] \/ tx.done \/ tx.half < tx.len
      BY DEF NeverWaitsForNothing
    <2>1. main \in Sends /\ main.at = "wait"
      BY IsSend DEF IInv, Waits
    <2>2. dev # "hal"
      BY <2>1 DEF IInv, SendInv
    <2> QED
      BY <2>1, <2>2 DEF IInv, TxInv, Encrypts
  <1> QED
    BY <1>1, Inductive, PTL

(* The blocks that the handlers have served.                               *)
Served == IF rx.done THEN rx.block - 2 ELSE rx.block - 1

LEMMA RxFacts ==
    ASSUME IInv
    PROVE  /\ rx \in RxStreams /\ rx.block \in Nat \ {0}
           /\ rx.done \in BOOLEAN /\ rx.half \in {0, 1}
           /\ active \in [{"rx", "tx"} -> {0, 1}]
           /\ Active("rx") \in Buffers /\ Inactive("rx") \in Buffers
           /\ Active("rx") # Inactive("rx")
           /\ mem \in [Buffers -> [Half -> AnyCell]]
           /\ Served \in Int
           /\ complete \in [{"rx", "tx"} -> BOOLEAN]
           /\ Types
  <1>1. Types /\ rx \in RxStreams /\ active["rx"] \in {0, 1}
    BY DEF IInv, Types
  <1>2. rx.block \in Nat \ {0} /\ rx.done \in BOOLEAN /\ rx.half \in {0, 1}
    BY <1>1 DEF RxStreams
  <1>3. Active("rx") # Inactive("rx")
    BY <1>1 DEF Active, Inactive
  <1> QED
    BY <1>1, <1>2, <1>3, ActiveBuffers DEF Types, Served

-----------------------------------------------------------------------------
(***************************************************************************)
(* What goes out.  The flag, a completion to be served, a transmission     *)
(* under way and an encryption exclude one another, so the buffer that is  *)
(* encrypted into is not the one on the wire.                              *)
(***************************************************************************)
TxBuffers == {<<"tx", 0>>, <<"tx", 1>>}

Transmitting == tx.half < tx.len

OnePhase ==
    /\ complete["tx"] => ~tx.done /\ ~Transmitting /\ ~Encrypts
    /\ tx.done => ~Transmitting /\ ~Encrypts
    /\ Transmitting => ~Encrypts

IsOf(cell, id) == cell.dir = "tx" /\ cell.id = id

(* What is still to go out is of this message, and so is what is already   *)
(* encrypted of the next.                                                  *)
Written ==
    /\ tx.half <= tx.len
    /\ Transmitting => tx.source \in TxBuffers
    /\ \A h \in Half :
          tx.half < h /\ h <= tx.len => IsOf(mem[tx.source][h], tx.id)
    /\ Encrypts =>
        /\ main.half <= main.len
        /\ \A h \in Half :
              h <= main.half => IsOf(mem[main.buffer][h], tx.id + 1)

(* What went out last.                                                     *)
OnTheWire ==
    IF tx.half = 0 /\ tx.len > 0
    THEN out.half = out.len /\ tx.id = out.cell.id + 1
    ELSE /\ out.cell.id = tx.id
         /\ IF Transmitting THEN out.half = tx.half /\ out.len = tx.len
            ELSE out.half = out.len

Fresh == main \in Sends /\ main.at = "wait" => main.half = 0

WireInv == dev # "hal" => OnePhase /\ Written /\ OnTheWire /\ Fresh

-----------------------------------------------------------------------------
LEMMA InitWireInv == Init => WireInv
  <1> SUFFICES ASSUME Init, dev # "hal"
               PROVE OnePhase /\ Written /\ OnTheWire /\ Fresh
    BY DEF WireInv
  <1>1. /\ tx.half = 0 /\ tx.len = 0 /\ tx.id = 0
        /\ complete["tx"] = FALSE /\ main = Idle
        /\ out.half = 0 /\ out.len = 0 /\ out.cell.id = 0
    BY DEF Init, Globals, uart_crypto_init, spi_crypto_init, hal_init,
           UartTxStream, SpiTxStream, Empty, Cell
  <1>2. ~Encrypts /\ ~Transmitting
    BY <1>1, Kinds DEF Encrypts, Transmitting
  <1> QED
    BY <1>1, <1>2, Kinds DEF OnePhase, Written, OnTheWire, Half, Fresh

LEMMA TxFacts ==
    ASSUME IInv, WireInv
    PROVE  /\ Types /\ tx \in TxStreams /\ tx.half \in Nat /\ tx.len \in 0 .. 2
           /\ tx.id \in Nat /\ tx.done \in BOOLEAN
           /\ dev # "hal" => /\ OnePhase /\ Written /\ OnTheWire /\ Fresh
                             /\ Encrypts => main.buffer \in TxBuffers
           /\ complete \in [{"rx", "tx"} -> BOOLEAN]
           /\ mem \in [Buffers -> [Half -> AnyCell]]
  BY DEF IInv, Types, TxStreams, WireInv, SendInv, Encrypts, TxBuffers

(* A step that leaves transmission alone.                                  *)
LEMMA QuietWireInv ==
    ASSUME IInv, WireInv, UNCHANGED <<dev, tx, out>>,
           complete'["tx"] = complete["tx"],
           Encrypts' => Encrypts /\ main' = main,
           dev # "hal" => Fresh' /\ \A b \in TxBuffers : mem'[b] = mem[b]
    PROVE  WireInv'
  <1> SUFFICES ASSUME dev # "hal"
               PROVE  (OnePhase /\ Written /\ OnTheWire /\ Fresh)'
    BY DEF WireInv
  <1>1. Transmitting' = Transmitting
    BY DEF Transmitting
  <1>2. Written'
    <2>1. \A h \in Half : tx.half < h /\ h <= tx.len => Transmitting
      BY TxFacts DEF Half, Transmitting
    <2> QED
      BY <1>1, <2>1, TxFacts DEF Written
  <1> QED
    BY <1>1, <1>2, TxFacts DEF OnePhase, OnTheWire

(* Reception writes into the buffers of its own.                           *)
LEMMA ReceptionWireInv ==
    ASSUME IInv, WireInv, ReceiveHalf \/ ServeReception
    PROVE  WireInv'
  <1>1. UNCHANGED <<dev, tx, out>> /\ complete'["tx"] = complete["tx"]
    BY TxFacts DEF ReceiveHalf, ServeReception, setup
  <1>2. main' = main \/ main' \notin Sends
    <2>1. CASE main.op = "receive"
      <3>1. main \in Receives
        BY <2>1, IsReceive, TxFacts
      <3>2. main'.op = "receive"
        BY <2>1, <3>1 DEF ReceiveHalf, ServeReception, Receives
      <3> QED
        BY <3>2, Kinds
    <2>2. CASE main.op # "receive"
      BY <2>2 DEF ReceiveHalf, ServeReception
    <2> QED
      BY <2>1, <2>2
  <1>3. dev # "hal" => \A b \in TxBuffers : mem'[b] = mem[b]
    <2> SUFFICES ASSUME dev # "hal", NEW b \in TxBuffers PROVE mem'[b] = mem[b]
      OBVIOUS
    <2>1. /\ b \in Buffers /\ b # Active("rx") /\ b # Inactive("rx")
          /\ rx.target \in {Active("rx"), Inactive("rx")}
          /\ mem \in [Buffers -> [Half -> AnyCell]]
      <3>1. active["rx"] \in {0, 1} /\ 1 - active["rx"] \in {0, 1}
        BY RxFacts
      <3>2. rx.target \in {Active("rx"), Inactive("rx")}
        BY DEF IInv, RxInv, Mixed
      <3> QED
        BY <3>1, <3>2, BufferNames, RxFacts DEF TxBuffers, Active, Inactive
    <2>2. CASE ReceiveHalf
      BY <2>1, <2>2 DEF ReceiveHalf
    <2>3. CASE ServeReception
      BY <2>1, <2>3 DEF ServeReception, DecryptActive
    <2> QED
      BY <2>2, <2>3
  <1> QED
    BY <1>1, <1>2, <1>3, QuietWireInv, TxFacts DEF Encrypts, Fresh

LEMMA HalStays ==
    ASSUME Next, dev = "hal"
    PROVE  dev' = "hal"
  BY DEF Next, ReceiveHalf, TransmitHalf, Handlers, DMA1_Stream5_IRQHandler,
         DMA1_Stream6_IRQHandler, DMA2_Stream5_IRQHandler,
         DMA2_Stream6_IRQHandler, HAL_UART_RxCpltCallback,
         uart_send_encrypted, spi_send_encrypted,
         arcfour_uart_send_encrypted_dma, GiveUp, EncryptHalf,
         uart_receive_decrypted, spi_receive_decrypted, hal_receive,
         CallReceive, ReceiveSteps, GetInactive, CopyHalf, ClearFlag, setup

(* The next half on the wire.                                              *)
LEMMA TransmitHalfWire ==
    ASSUME IInv, WireInv, TransmitHalf, dev # "hal"
    PROVE  WireInv' /\ Follows(out, out')
  <1> DEFINE cell == mem[tx.source][tx.half + 1]
  <1>1. /\ Transmitting
        /\ out' = [cell |-> cell, half |-> tx.half + 1, len |-> tx.len]
        /\ tx' = [tx EXCEPT !.half = @ + 1, !.done = tx.half + 1 = tx.len]
        /\ UNCHANGED <<dev, mem, complete, main>>
    BY DEF TransmitHalf, Transmitting, setup
  <1>2. /\ tx'.half = tx.half + 1 /\ tx'.len = tx.len /\ tx'.id = tx.id
        /\ tx'.source = tx.source /\ tx'.done = (tx.half + 1 = tx.len)
    BY <1>1, TxFacts DEF TxStreams
  <1>3. tx.half + 1 \in Half /\ IsOf(cell, tx.id)
    BY <1>1, TxFacts DEF Transmitting, Written, Half
  <1> HIDE DEF cell
  <1>4. Follows(out, out')
    BY <1>1, <1>3, TxFacts DEF Follows, OnTheWire, IsOf
  <1>5. OnTheWire'
    BY <1>1, <1>2, <1>3, TxFacts DEF OnTheWire, IsOf, Transmitting
  <1>6. OnePhase'
    BY <1>1, <1>2, TxFacts DEF OnePhase, Transmitting, Encrypts
  <1>7. Written'
    BY <1>1, <1>2, TxFacts DEF Written, OnePhase, Transmitting, Encrypts, Half
  <1> QED
    BY <1>1, <1>4, <1>5, <1>6, <1>7, TxFacts DEF WireInv, Fresh

(* The steps of a send call, and the completion that ends a transmission.  *)
LEMMA ServeTransmissionWire ==
    ASSUME IInv, WireInv, ServeTransmission
    PROVE  WireInv'
  <1> SUFFICES ASSUME dev # "hal"
               PROVE  (OnePhase /\ Written /\ OnTheWire /\ Fresh)'
    BY DEF WireInv, ServeTransmission, setup
  <1>1. /\ tx.done /\ tx' = [tx EXCEPT !.done = FALSE]
        /\ complete' = [complete EXCEPT !["tx"] = TRUE]
        /\ UNCHANGED <<mem, out, main>>
    BY DEF ServeTransmission
  <1>2. /\ tx'.half = tx.half /\ tx'.len = tx.len /\ tx'.id = tx.id
        /\ tx'.source = tx.source /\ ~tx'.done
    BY <1>1, TxFacts DEF TxStreams
  <1>3. OnePhase'
    BY <1>1, <1>2, TxFacts DEF OnePhase, Transmitting, Encrypts
  <1>4. Written' /\ OnTheWire'
    BY <1>1, <1>2, TxFacts DEF Written, OnTheWire, Transmitting, Encrypts
  <1> QED
    BY <1>1, <1>3, <1>4, TxFacts DEF Fresh

LEMMA AwaitWire ==
    ASSUME IInv, WireInv, AwaitTransmission
    PROVE  WireInv'
  <1> SUFFICES ASSUME dev # "hal"
               PROVE  (OnePhase /\ Written /\ OnTheWire /\ Fresh)'
    BY DEF WireInv, AwaitTransmission, setup
  <1>1. /\ main \in Sends /\ complete["tx"]
        /\ complete' = [complete EXCEPT !["tx"] = FALSE]
        /\ UNCHANGED <<mem, out, tx>>
        /\ main' = [main EXCEPT !.at = "encrypt", !.buffer = Active("tx")]
    BY IsSend, TxFacts DEF AwaitTransmission, Waits
  <1>2. OnePhase'
    BY <1>1, TxFacts DEF OnePhase, Transmitting
  <1>3. main'.half = 0 /\ main'.at = "encrypt"
    BY <1>1, TxFacts DEF Fresh, Waits, AwaitTransmission, Sends
  <1>4. Written' /\ OnTheWire'
    BY <1>1, <1>3, TxFacts DEF Written, OnTheWire, Transmitting, Half, Sends
  <1> QED
    BY <1>2, <1>3, <1>4 DEF Fresh

LEMMA EncryptHalfWire ==
    ASSUME IInv, WireInv, EncryptHalf
    PROVE  WireInv'
  <1> SUFFICES ASSUME dev # "hal"
               PROVE  (OnePhase /\ Written /\ OnTheWire /\ Fresh)'
    BY DEF WireInv, EncryptHalf, setup
  <1> DEFINE cell == Cell("tx", tx.id + 1,
                          IF torn THEN "garbled" ELSE "cipher", spent + 1)
             n == main.half + 1
  <1>1. /\ main \in Sends /\ Encrypts /\ main.half < main.len
        /\ mem' = [mem EXCEPT ![main.buffer][n] = cell]
        /\ main' = [main EXCEPT !.half = @ + 1]
        /\ UNCHANGED <<complete, tx, out>>
    BY IsSend, TxFacts DEF EncryptHalf, Encrypting, Encrypts
  <1>2. /\ main'.half = main.half + 1 /\ main'.len = main.len
        /\ main'.buffer = main.buffer /\ main.half \in Nat
        /\ main.len \in 0 .. 2 /\ main.buffer \in Buffers
    BY <1>1 DEF Sends
  <1>3. ~Transmitting /\ ~Transmitting' /\ ~complete["tx"] /\ ~tx.done
    BY <1>1, TxFacts DEF OnePhase, Transmitting
  <1>4. IsOf(cell, tx.id + 1) /\ n \in Half
    BY <1>1, <1>2 DEF IsOf, Cell, Half
  <1> HIDE DEF cell
  <1>5. \A h \in Half :
           h <= main'.half => IsOf(mem'[main.buffer][h], tx.id + 1)
    BY <1>1, <1>2, <1>4, TxFacts DEF Written, Half
  <1>6. Written'
    BY <1>1, <1>2, <1>3, <1>5, TxFacts DEF Written, Transmitting, Half
  <1>7. OnePhase' /\ OnTheWire'
    BY <1>1, <1>3, TxFacts DEF OnePhase, OnTheWire, Transmitting
  <1>8. Fresh'
    BY <1>1 DEF Fresh, Encrypts, Sends
  <1> QED
    BY <1>6, <1>7, <1>8

LEMMA StartTransmissionWire ==
    ASSUME IInv, WireInv, StartTransmission
    PROVE  WireInv'
  <1> SUFFICES ASSUME dev # "hal"
               PROVE  (OnePhase /\ Written /\ OnTheWire /\ Fresh)'
    BY DEF WireInv, StartTransmission, setup
  <1>1. /\ main \in Sends /\ Encrypts /\ main.half = main.len
        /\ tx' = Transmission(main.buffer, main.len)
        /\ main' = Idle /\ UNCHANGED <<mem, complete, out>>
    BY IsSend, TxFacts
       DEF StartTransmission, Encrypted, Encrypting, Encrypts
  <1>2. main.len \in 0 .. 2 /\ main.buffer \in TxBuffers
    BY <1>1, TxFacts DEF Sends
  <1>3. /\ tx'.half = 0 /\ tx'.len = main.len /\ tx'.source = main.buffer
        /\ tx'.id = IF main.len = 0 THEN tx.id ELSE tx.id + 1
        /\ tx'.done => main.len = 0
    BY <1>1, Zenon DEF Transmission
  <1>4. ~Transmitting /\ ~complete["tx"] /\ ~Encrypts'
    BY <1>1, TxFacts, Kinds DEF OnePhase, Encrypts
  <1>5. \A h \in Half : h <= main.len => IsOf(mem[main.buffer][h], tx.id + 1)
    BY <1>1, TxFacts DEF Written
  <1>6. out.cell.id = tx.id /\ out.half = out.len
    BY <1>4, TxFacts DEF OnTheWire, Transmitting
  <1>7. OnePhase'
    BY <1>1, <1>2, <1>3, <1>4 DEF OnePhase, Transmitting
  <1>8. Written'
    BY <1>1, <1>2, <1>3, <1>4, <1>5 DEF Written, Transmitting, Half
  <1>9. OnTheWire'
    BY <1>1, <1>2, <1>3, <1>6 DEF OnTheWire, Transmitting
  <1> QED
    BY <1>1, <1>7, <1>8, <1>9, Kinds DEF Fresh

(* What is left does not touch transmission.                               *)
LEMMA OtherStepsWire ==
    ASSUME IInv, WireInv, dev # "hal",
           \/ \E len \in 0 .. 3, aligned \in BOOLEAN : CallSend(len, aligned)
           \/ \E len \in Half : CallReceive(len)
           \/ GiveUp \/ ReceiveSteps
    PROVE  WireInv' /\ out' = out
  <1>1. /\ UNCHANGED <<dev, tx, out, mem>>
        /\ complete' = complete \/ complete' = [complete EXCEPT !["rx"] = FALSE]
    BY DEF CallSend, CallReceive, GiveUp, ReceiveSteps, GetInactive, CopyHalf,
           ClearFlag, setup
  <1>2. complete'["tx"] = complete["tx"]
    BY <1>1, TxFacts
  <1>3. ~Encrypts' /\ Fresh'
    <2>1. CASE \E len \in 0 .. 3, aligned \in BOOLEAN : CallSend(len, aligned)
      <3>1. \/ main' = Idle
            \/ main'.at = "wait" /\ main'.half = 0
        BY <2>1 DEF CallSend, Sending
      <3> QED
        BY <3>1, Kinds DEF Encrypts, Fresh
    <2>2. CASE GiveUp \/ ClearFlag
      BY <2>2, Kinds DEF GiveUp, ClearFlag, Encrypts, Fresh
    <2>3. CASE \E len \in Half : CallReceive(len)
      <3>1. main'.op = "receive"
        BY <2>3 DEF CallReceive
      <3> QED
        BY <3>1, Kinds DEF Encrypts, Fresh
    <2>4. CASE GetInactive \/ CopyHalf
      <3>1. main \in Receives
        BY <2>4, IsReceive, TxFacts DEF GetInactive, CopyHalf
      <3>2. main'.op = "receive"
        BY <2>4, <3>1 DEF GetInactive, CopyHalf, Receives
      <3> QED
        BY <3>2, Kinds DEF Encrypts, Fresh
    <2> QED
      BY <2>1, <2>2, <2>3, <2>4 DEF ReceiveSteps
  <1> QED
    BY <1>1, <1>2, <1>3, QuietWireInv

Goes == WireInv' /\ (dev = "hal" \/ out' = out \/ Follows(out, out'))

LEMMA NextWire == IInv /\ WireInv /\ [Next]_vars => Goes
  <1> SUFFICES ASSUME IInv, WireInv, [Next]_vars PROVE Goes
    OBVIOUS
  <1>1. CASE UNCHANGED vars
    <2>1. UNCHANGED <<dev, tx, out, mem, complete, main>>
      BY <1>1 DEF vars, setup
    <2> QED
      BY <2>1, QuietWireInv, TxFacts DEF Goes, Fresh, Encrypts
  <1>2. CASE Next /\ dev = "hal"
    BY <1>2, HalStays DEF Goes, WireInv
  <1>3. CASE Next /\ dev # "hal"
    <2>1. CASE TransmitHalf
      BY <1>3, <2>1, TransmitHalfWire DEF Goes
    <2>2. CASE ReceiveHalf \/ ServeReception
      BY <2>2, ReceptionWireInv DEF Goes, ReceiveHalf, ServeReception
    <2>3. CASE ServeTransmission
      BY <2>3, ServeTransmissionWire DEF Goes, ServeTransmission
    <2>4. CASE AwaitTransmission
      BY <2>4, AwaitWire DEF Goes, AwaitTransmission
    <2>5. CASE EncryptHalf
      BY <2>5, EncryptHalfWire DEF Goes, EncryptHalf
    <2>6. CASE StartTransmission
      BY <2>6, StartTransmissionWire DEF Goes, StartTransmission
    <2>7. CASE \/ \E len \in 0 .. 3, aligned \in BOOLEAN :
                    CallSend(len, aligned)
               \/ \E len \in Half : CallReceive(len)
               \/ GiveUp \/ ReceiveSteps
      BY <1>3, <2>7, OtherStepsWire DEF Goes
    <2> QED
      BY <1>3, <2>1, <2>2, <2>3, <2>4, <2>5, <2>6, <2>7
         DEF Next, Handlers, DMA1_Stream5_IRQHandler, DMA1_Stream6_IRQHandler,
             DMA2_Stream5_IRQHandler, DMA2_Stream6_IRQHandler,
             HAL_UART_RxCpltCallback, uart_send_encrypted, spi_send_encrypted,
             Send, SendSteps, arcfour_uart_send_encrypted_dma,
             uart_receive_decrypted, spi_receive_decrypted, hal_receive
  <1> QED
    BY <1>1, <1>2, <1>3

(* No half of a message is overwritten before it is on the wire, and no    *)
(* transmission is cut off by the next one.                                *)
THEOREM WholeMessages == Spec => MessagesGoOutWhole
  <1>1. IInv /\ WireInv /\ [Next]_vars => WireInv'
    BY NextWire DEF Goes
  <1>2. IInv /\ WireInv /\ [Next]_vars =>
           [dev = "hal" \/ out' = out \/ Follows(out, out')]_vars
    BY NextWire DEF Goes
  <1> QED
    BY <1>1, <1>2, InitWireInv, Inductive, PTL DEF Spec, MessagesGoOutWhole

-----------------------------------------------------------------------------
(***************************************************************************)
(* Where the two contexts stand.  Each has delivered what was encrypted or *)
(* decrypted with it, so they differ by what is on its way, and a block or *)
(* a message that crosses nothing carries the pieces that the other end    *)
(* comes to next.                                                          *)
(***************************************************************************)
Sealed == (IF rx.done THEN 2 ELSE 0) + (IF rx.half = 1 THEN 2 ELSE 0)

UnderWay == (IF Transmitting THEN tx.len ELSE 0)
                + (IF Encrypting THEN main.half ELSE 0)

Balance == ready => spent + Sealed = peer + UnderWay

BlockKeys ==
    ready =>
        /\ rx.done /\ <<"rx", rx.block - 1>> \notin crossed =>
              mem[Active("rx")][1].key = spent + 1
        /\ rx.half = 1 /\ <<"rx", rx.block>> \notin crossed =>
              rx.key = spent + 1 + (IF rx.done THEN 2 ELSE 0)

Readable(buffer, id, len) ==
    \A h \in Half : h <= len =>
        mem[buffer][h] = Cell("tx", id, "cipher", peer + h)

MessageKeys ==
    dev # "hal" /\ ~torn =>
        /\ Transmitting /\ <<"tx", tx.id>> \notin crossed =>
              Readable(tx.source, tx.id, tx.len)
        /\ Encrypting /\ <<"tx", tx.id + 1>> \notin crossed =>
              Readable(main.buffer, tx.id + 1, main.half)

HalQuiet == dev = "hal" => tx.len = 0

KInv == ~Mixed => Balance /\ BlockKeys /\ MessageKeys /\ HalQuiet

-----------------------------------------------------------------------------
LEMMA InitKInv == Init => KInv
  <1> SUFFICES ASSUME Init PROVE Balance /\ BlockKeys /\ MessageKeys /\ HalQuiet
    BY DEF KInv
  <1>1. /\ rx.done = FALSE /\ rx.half = 0 /\ tx.len = 0 /\ tx.half = 0
        /\ spent = 0 /\ peer = 0 /\ main.op = "idle"
    BY DEF Init, Globals, uart_crypto_init, spi_crypto_init, hal_init,
           UartRxStream, SpiRxStream, UartTxStream, SpiTxStream, Idle
  <1> QED
    BY <1>1 DEF Balance, BlockKeys, MessageKeys, HalQuiet, Sealed, UnderWay,
                Transmitting, Encrypting

(* An undisturbed link that is not mixed, and a message of an example.     *)
LEMMA KFacts ==
    ASSUME IInv, Counters, WireInv, KInv
    PROVE  /\ spent \in Nat /\ peer \in Nat /\ UnderWay \in Nat /\ Types
           /\ rx.block \in Nat \ {0} /\ rx.half \in {0, 1}
           /\ rx.done \in BOOLEAN /\ rx.key \in Nat
           /\ tx.half \in Nat /\ tx.len \in 0 .. 2 /\ tx.id \in Nat
           /\ mem \in [Buffers -> [Half -> AnyCell]]
           /\ Active("rx") \in Buffers /\ Inactive("rx") \in Buffers
           /\ Active("rx") \notin TxBuffers /\ Inactive("rx") \notin TxBuffers
           /\ TxBuffers \subseteq Buffers
           /\ Encrypting => /\ Encrypts /\ main \in Sends /\ ready
                            /\ main.half \in Nat /\ main.len \in 0 .. 2
                            /\ dev = "hal" => Mixed
           /\ dev # "hal" => /\ ~Mixed /\ OnePhase /\ Written /\ Fresh
                             /\ Encrypts => main.buffer \in TxBuffers
                             /\ Transmitting => tx.source \in TxBuffers
  <1>1. Types /\ rx \in RxStreams /\ spent \in Nat /\ peer \in Nat
    BY RxFacts DEF Counters
  <1>2. Encrypting => main \in Sends
    BY <1>1, IsSend DEF Encrypting
  <1>3. Encrypting => /\ Encrypts /\ main.half \in Nat /\ main.len \in 0 .. 2
                      /\ ready /\ (dev = "hal" => Mixed)
    BY <1>2, SendFields DEF Encrypting, Encrypts, IInv, SendInv
  <1>4. /\ active["rx"] \in {0, 1} /\ 1 - active["rx"] \in {0, 1}
        /\ TxBuffers \subseteq Buffers
    BY RxFacts, BufferNames DEF TxBuffers
  <1>5. Active("rx") \notin TxBuffers /\ Inactive("rx") \notin TxBuffers
    BY <1>4, BufferNames DEF Active, Inactive, TxBuffers
  <1>6. dev # "hal" => /\ ~Mixed /\ OnePhase /\ Written /\ Fresh
                       /\ Encrypts => main.buffer \in TxBuffers
                       /\ Transmitting => tx.source \in TxBuffers
    BY TxFacts DEF Mixed, Written
  <1>7. rx.key \in Nat
    BY <1>1 DEF RxStreams
  <1>8. UnderWay \in Nat
    BY <1>3, TxFacts DEF UnderWay
  <1> QED
    BY <1>1, <1>2, <1>3, <1>4, <1>5, <1>6, <1>7, <1>8, RxFacts, TxFacts

LEMMA OnWay ==
    /\ rx.done => <<"rx", rx.block - 1>> \in BlocksOnWay
    /\ rx.half = 1 => <<"rx", rx.block>> \in BlocksOnWay
    /\ BlocksOnWay = {} => ~rx.done /\ rx.half # 1
    /\ Transmitting => <<"tx", tx.id>> \in MessagesOnWay
    /\ Encrypting /\ main.half > 0 => <<"tx", tx.id + 1>> \in MessagesOnWay
    /\ MessagesOnWay = {} => ~Transmitting /\ ~(Encrypting /\ main.half > 0)
  <1>1. /\ rx.done => <<"rx", rx.block - 1>> \in BlocksOnWay
        /\ rx.half = 1 => <<"rx", rx.block>> \in BlocksOnWay
    BY DEF BlocksOnWay
  <1>2. /\ Transmitting => <<"tx", tx.id>> \in MessagesOnWay
        /\ Encrypting /\ main.half > 0 => <<"tx", tx.id + 1>> \in MessagesOnWay
    BY DEF MessagesOnWay, Transmitting
  <1> QED
    BY <1>1, <1>2

LEMMA Crosses ==
    ASSUME NEW blocks, NEW messages, dev # "hal", blocks # {}, messages # {}
    PROVE  blocks \cup messages = Crossing(blocks, messages)
  BY DEF Crossing

(* A step that leaves the contexts alone, and what is on its way.          *)
LEMMA QuietKInv ==
    ASSUME IInv, KInv, Mixed => Mixed',
           UNCHANGED <<dev, ready, torn, spent, peer, crossed, rx, mem>>,
           UNCHANGED <<tx.source, tx.half, tx.len, tx.id>>,
           active'["rx"] = active["rx"],
           \/ main' = main
           \/ /\ Encrypting => main.half = 0
              /\ Encrypting' => main'.half = 0
    PROVE  KInv'
  <1> SUFFICES ASSUME ~Mixed'
               PROVE  (Balance /\ BlockKeys /\ MessageKeys /\ HalQuiet)'
    BY DEF KInv
  <1>1. /\ Balance /\ BlockKeys /\ MessageKeys /\ HalQuiet
        /\ Sealed' = Sealed /\ Active("rx")' = Active("rx")
        /\ Transmitting' = Transmitting
    BY DEF KInv, Sealed, Active, Transmitting
  <1>2. CASE main' = main
    <2>1. Encrypting' = Encrypting /\ UnderWay' = UnderWay
      BY <1>1, <1>2 DEF Encrypting, UnderWay
    <2> QED
      BY <1>1, <1>2, <2>1
         DEF Balance, BlockKeys, MessageKeys, HalQuiet, Readable
  <1>3. CASE /\ Encrypting => main.half = 0
             /\ Encrypting' => main'.half = 0
    <2>1. UnderWay' = UnderWay
      BY <1>1, <1>3 DEF UnderWay
    <2> QED
      BY <1>1, <1>3, <2>1
         DEF Balance, BlockKeys, MessageKeys, HalQuiet, Readable, Half
  <1> QED
    BY <1>2, <1>3

(* A block that starts while nothing is on its way the other way has the   *)
(* pieces that follow; one that has come in keeps them.                    *)
LEMMA ReceiveHalfKInv ==
    ASSUME IInv, Counters, WireInv, KInv, ReceiveHalf
    PROVE  KInv'
  <1>1. /\ UNCHANGED <<dev, ready, torn, spent, tx, active, left>>
        /\ rx.half = 1 => ~rx.done
        /\ mem' = [mem EXCEPT ![rx.target][rx.half + 1] =
                      Raw(rx.block, rx'.key + rx.half)]
    BY DEF ReceiveHalf, setup
  <1> SUFFICES ASSUME ~Mixed
               PROVE  (Balance /\ BlockKeys /\ MessageKeys /\ HalQuiet)'
    BY <1>1 DEF KInv, Mixed
  <1>2. Balance /\ BlockKeys /\ MessageKeys /\ HalQuiet
    BY DEF KInv
  <1>3. rx.target = IF rx.done THEN Inactive("rx") ELSE Active("rx")
    BY <1>1 DEF IInv, RxInv, ReceiveHalf
  <1>4. /\ \A b \in TxBuffers : mem'[b] = mem[b]
        /\ \A b \in Buffers : b # rx.target => mem'[b] = mem[b]
    BY <1>1, <1>3, KFacts
  <1>5. /\ Active("rx")' = Active("rx") /\ Transmitting' = Transmitting
        /\ Active("rx") # Inactive("rx")
    BY <1>1, RxFacts DEF Active, Transmitting
  <1>6. /\ Encrypting' = Encrypting
        /\ Encrypting => main' = main
    <2>1. CASE main.op = "receive"
      <3>1. main \in Receives
        BY <2>1, IsReceive, KFacts
      <3>2. main'.op = "receive"
        BY <2>1, <3>1 DEF ReceiveHalf, Receives
      <3> QED
        BY <2>1, <3>2 DEF Encrypting
    <2>2. CASE main.op # "receive"
      BY <1>1, <2>2 DEF Encrypting, ReceiveHalf
    <2> QED
      BY <2>1, <2>2
  <1>7. UnderWay' = UnderWay /\ HalQuiet'
    BY <1>1, <1>2, <1>5, <1>6 DEF UnderWay, HalQuiet
  <1>8. CASE rx.half = 0
    <2>1. /\ peer' = peer + 2
          /\ crossed' =
                crossed \cup Crossing({<<"rx", rx.block>>}, MessagesOnWay)
          /\ rx' = [rx EXCEPT !.half = 1, !.key = peer + 1]
      BY <1>8 DEF ReceiveHalf, PeerEncrypts
    <2>2. /\ rx'.half = 1 /\ rx'.key = peer + 1 /\ rx'.block = rx.block
          /\ rx'.done = rx.done
      BY <2>1, RxFacts DEF RxStreams
    <2>3. Balance'
      BY <1>1, <1>2, <1>7, <1>8, <2>1, <2>2, KFacts DEF Balance, Sealed
    <2>4. rx.done => mem'[Active("rx")] = mem[Active("rx")]
      BY <1>3, <1>4, <1>5, KFacts
    <2>5. ASSUME <<"rx", rx.block>> \notin crossed'
          PROVE  UnderWay = 0
      <3>1. CASE dev = "hal"
        BY <1>2, <3>1, KFacts DEF HalQuiet, UnderWay, Transmitting
      <3>2. CASE dev # "hal"
        <4>1. MessagesOnWay = {}
          BY <2>1, <2>5, <3>2, Crosses
        <4> QED
          BY <4>1, OnWay, KFacts DEF UnderWay
      <3> QED
        BY <3>1, <3>2
    <2>6. BlockKeys'
      <3>1. ASSUME ready, <<"rx", rx.block>> \notin crossed'
            PROVE  rx'.key = spent + 1 + (IF rx.done THEN 2 ELSE 0)
        <4>1. spent + Sealed = peer
          BY <1>2, <2>5, <3>1, KFacts DEF Balance
        <4> QED
          BY <1>8, <2>2, <4>1, KFacts DEF Sealed
      <3>2. ASSUME ready, rx.done, <<"rx", rx.block - 1>> \notin crossed'
            PROVE  mem'[Active("rx")][1].key = spent + 1
        BY <1>2, <2>1, <2>4, <3>2 DEF BlockKeys
      <3> QED
        BY <1>1, <1>5, <2>2, <3>1, <3>2 DEF BlockKeys
    <2>7. ASSUME dev # "hal", MessagesOnWay # {}
          PROVE  MessagesOnWay \subseteq crossed'
      <3>1. Crossing({<<"rx", rx.block>>}, MessagesOnWay) =
                {<<"rx", rx.block>>} \cup MessagesOnWay
        <4>1. {<<"rx", rx.block>>} # {}
          OBVIOUS
        <4> QED
          BY <2>7, <4>1, Zenon DEF Crossing
      <3>2. crossed' = crossed \cup Crossing({<<"rx", rx.block>>}, MessagesOnWay)
        BY <2>1
      <3> QED
        BY <3>1, <3>2, Zenon
    <2>8. MessageKeys'
      BY <1>1, <1>5, <1>6, <2>7, OnWay, KFacts
         DEF MessageKeys, Readable, Half
    <2> QED
      BY <1>7, <2>3, <2>6, <2>8
  <1>9. CASE rx.half = 1
    <2>0. rx' = [rx EXCEPT !.half = 0, !.block = @ + 1, !.done = TRUE,
                           !.target = IF dev = "hal" THEN @ ELSE Other(@),
                           !.running = dev # "hal"]
      BY <1>9 DEF ReceiveHalf
    <2>1. /\ UNCHANGED <<peer, crossed>>
          /\ \E t, r : rx' = [rx EXCEPT !.half = 0, !.block = @ + 1,
                                     !.done = TRUE, !.target = t,
                                     !.running = r]
      <3>1. UNCHANGED <<peer, crossed>>
        BY <1>9 DEF ReceiveHalf
      <3> QED
        BY <2>0, <3>1, Zenon
    <2>2. /\ rx'.half = 0 /\ rx'.key = rx.key /\ rx'.block = rx.block + 1
          /\ rx'.done = TRUE
      BY <2>1, RxFacts DEF RxStreams
    <2>3. Balance'
      BY <1>1, <1>2, <1>7, <1>9, <2>1, <2>2, KFacts DEF Balance, Sealed
    <2>4. mem'[Active("rx")][1].key = rx.key
      <3>1. /\ rx.target = Active("rx")
            /\ mem[rx.target][1] = Raw(rx.block, rx.key)
        BY <1>1, <1>3, <1>9 DEF IInv, RxInv
      <3>2. mem'[rx.target][1] = mem[rx.target][1]
        BY <1>1, <1>9, <3>1, KFacts DEF Half
      <3> QED
        BY <3>1, <3>2 DEF Raw, Cell
    <2>5. BlockKeys'
      BY <1>1, <1>2, <1>5, <1>9, <2>1, <2>2, <2>4, KFacts DEF BlockKeys
    <2>6. MessageKeys'
      BY <1>1, <1>2, <1>4, <1>5, <1>6, <2>1, KFacts DEF MessageKeys, Readable
    <2> QED
      BY <1>7, <2>3, <2>5, <2>6
  <1> QED
    BY <1>8, <1>9, KFacts

(* A block that is served takes its two pieces.                            *)
LEMMA ServedKInv ==
    ASSUME IInv, Counters, WireInv, KInv, rx.done, DecryptActive,
           active' = Swapped("rx"), rx'.done = FALSE, rx'.half = rx.half,
           rx'.block = rx.block, rx'.key = rx.key,
           UNCHANGED <<setup, left, tx, main>>
    PROVE  KInv'
  <1>1. /\ UNCHANGED <<dev, ready, emptyEnds, peer, crossed>>
        /\ ready => spent' = spent + 2
        /\ torn => torn'
    BY KFacts DEF setup, DecryptActive, Tears, Types
  <1> SUFFICES ASSUME ~Mixed
               PROVE  (Balance /\ BlockKeys /\ MessageKeys /\ HalQuiet)'
    BY <1>1 DEF KInv, Mixed
  <1>2. Balance /\ BlockKeys /\ MessageKeys /\ HalQuiet
    BY DEF KInv
  <1>3. \A b \in TxBuffers : mem'[b] = mem[b]
    BY DecryptedMemory, KFacts
  <1>4. /\ Transmitting' = Transmitting /\ Encrypting' = Encrypting
        /\ UnderWay' = UnderWay
    BY <1>1 DEF Transmitting, Encrypting, UnderWay
  <1>5. Balance'
    BY <1>1, <1>2, <1>4, KFacts DEF Balance, Sealed
  <1>6. BlockKeys'
    BY <1>1, <1>2, KFacts DEF BlockKeys
  <1>7. MessageKeys'
    BY <1>1, <1>2, <1>3, <1>4, KFacts DEF MessageKeys, Readable
  <1> QED
    BY <1>1, <1>2, <1>5, <1>6, <1>7 DEF HalQuiet

LEMMA HandlersKInv ==
    ASSUME IInv, Counters, WireInv, KInv, Handlers
    PROVE  KInv'
  <1>1. CASE ServeReception
    <2>1. /\ rx.done /\ DecryptActive /\ rx' = [rx EXCEPT !.done = FALSE]
          /\ active' = Swapped("rx")
          /\ UNCHANGED <<setup, main, left, tx>>
      BY <1>1 DEF ServeReception
    <2>2. /\ rx'.done = FALSE /\ rx'.block = rx.block /\ rx'.half = rx.half
          /\ rx'.key = rx.key
      BY <2>1, RxFacts DEF RxStreams
    <2> QED
      BY <2>1, <2>2, ServedKInv
  <1>2. CASE HAL_UART_RxCpltCallback
    <2>1. /\ rx.done /\ DecryptActive /\ active' = Swapped("rx")
          /\ rx' = [rx EXCEPT !.done = FALSE, !.running = TRUE,
                              !.target = <<"rx", active'["rx"]>>]
          /\ UNCHANGED <<setup, main, left, tx>>
      BY <1>2 DEF HAL_UART_RxCpltCallback
    <2>2. /\ rx'.done = FALSE /\ rx'.block = rx.block /\ rx'.half = rx.half
          /\ rx'.key = rx.key
      BY <2>1, RxFacts DEF RxStreams
    <2> QED
      BY <2>1, <2>2, ServedKInv
  <1>3. CASE ServeTransmission
    <2>1. /\ tx' = [tx EXCEPT !.done = FALSE]
          /\ UNCHANGED <<dev, ready, torn, spent, peer, crossed, mem, active,
                         rx, main, left>>
      BY <1>3 DEF ServeTransmission, setup, keys
    <2>2. UNCHANGED <<tx.source, tx.half, tx.len, tx.id>>
      BY <2>1, TxFacts DEF TxStreams
    <2> QED
      BY <2>1, <2>2, QuietKInv DEF Mixed
  <1> QED
    BY <1>1, <1>2, <1>3
       DEF Handlers, DMA1_Stream5_IRQHandler, DMA1_Stream6_IRQHandler,
           DMA2_Stream5_IRQHandler, DMA2_Stream6_IRQHandler

(* The peer takes the pieces of a message when the last half is out.       *)
LEMMA TransmitHalfKInv ==
    ASSUME IInv, Counters, WireInv, KInv, TransmitHalf
    PROVE  KInv'
  <1>1. /\ UNCHANGED <<dev, ready, torn, spent, crossed, mem, active, rx, main,
                       left>>
        /\ Transmitting
        /\ \E d : tx' = [tx EXCEPT !.half = @ + 1, !.done = d]
        /\ peer' = IF tx.half + 1 < tx.len THEN peer ELSE peer + tx.len
    BY Zenon DEF TransmitHalf, setup, Transmitting
  <1> SUFFICES ASSUME ~Mixed
               PROVE  (Balance /\ BlockKeys /\ MessageKeys /\ HalQuiet)'
    BY <1>1 DEF KInv, Mixed
  <1>2. Balance /\ BlockKeys /\ MessageKeys /\ HalQuiet
    BY DEF KInv
  <1>3. dev # "hal" /\ ~Encrypts
    BY <1>1, <1>2, KFacts DEF HalQuiet, Transmitting, OnePhase
  <1>4. /\ tx'.half = tx.half + 1 /\ tx'.len = tx.len /\ tx'.id = tx.id
        /\ tx'.source = tx.source
    BY <1>1, TxFacts DEF TxStreams
  <1>5. ~Encrypting /\ ~Encrypting' /\ Sealed' = Sealed
    BY <1>1, <1>3, KFacts DEF Encrypting, Sealed
  <1>6. Balance'
    BY <1>1, <1>2, <1>4, <1>5, KFacts DEF Balance, UnderWay, Transmitting
  <1>7. BlockKeys'
    BY <1>1, <1>2 DEF BlockKeys, Active
  <1>8. Transmitting' => peer' = peer
    BY <1>1, <1>4 DEF Transmitting
  <1>9. MessageKeys'
    BY <1>1, <1>2, <1>4, <1>5, <1>8 DEF MessageKeys, Readable
  <1> QED
    BY <1>1, <1>3, <1>6, <1>7, <1>9 DEF HalQuiet

(* While no block is on its way, the contexts differ by what is already    *)
(* encrypted.                                                              *)
LEMMA EncryptHalfKInv ==
    ASSUME IInv, Counters, WireInv, KInv, EncryptHalf, dev # "hal"
    PROVE  KInv'
  <1> DEFINE n == main.half + 1
             cell == Cell("tx", tx.id + 1,
                          IF torn THEN "garbled" ELSE "cipher", spent + 1)
             sent == MessagesOnWay \cup {<<"tx", tx.id + 1>>}
  <1>1. /\ Encrypting /\ main.half < main.len /\ spent' = spent + 1
        /\ mem' = [mem EXCEPT ![main.buffer][n] = cell]
        /\ crossed' = crossed \cup Crossing(BlocksOnWay, sent)
        /\ main' = [main EXCEPT !.half = @ + 1]
        /\ UNCHANGED <<dev, ready, torn, peer, active, rx, tx>>
    BY DEF EncryptHalf, setup
  <1>2. /\ Balance /\ BlockKeys /\ MessageKeys /\ HalQuiet
        /\ main \in Sends /\ main.buffer \in TxBuffers /\ ready
        /\ main.half \in Nat /\ main.len \in 0 .. 2
        /\ ~Transmitting /\ ~Transmitting'
    BY <1>1, KFacts DEF KInv, OnePhase, Transmitting
  <1>3. /\ main'.half = n /\ main'.buffer = main.buffer /\ Encrypting'
        /\ n \in Half
    BY <1>1, <1>2 DEF Sends, Encrypting, Half
  <1>4. BlocksOnWay # {} => BlocksOnWay \cup sent \subseteq crossed'
    BY <1>1, Crosses
  <1> HIDE DEF cell, sent
  <1>5. Balance'
    BY <1>1, <1>2, <1>3, KFacts DEF Balance, Sealed, UnderWay
  <1>6. BlockKeys'
    BY <1>1, <1>4, OnWay DEF BlockKeys
  <1>7. ASSUME <<"tx", tx.id + 1>> \notin crossed', ~torn
        PROVE  Readable(main.buffer, tx.id + 1, main.half)'
    <2>1. BlocksOnWay = {} /\ <<"tx", tx.id + 1>> \notin crossed
      BY <1>1, <1>4, <1>7 DEF sent
    <2>2. spent = peer + main.half
      BY <1>1, <1>2, <2>1, OnWay, KFacts DEF Balance, Sealed, UnderWay
    <2>3. Readable(main.buffer, tx.id + 1, main.half)
      BY <1>1, <1>7, <2>1, KFacts DEF KInv, MessageKeys
    <2>4. mem'[main.buffer][n] = Cell("tx", tx.id + 1, "cipher", peer + n)
      <3>1. cell = Cell("tx", tx.id + 1, "cipher", spent + 1)
        BY <1>7 DEF cell
      <3>2. spent + 1 = peer + n
        BY <1>2, <2>2, KFacts
      <3> QED
        BY <1>1, <1>2, <1>3, <3>1, <3>2, KFacts
    <2>5. \A h \in Half : h <= main.half =>
             mem'[main.buffer][h] = mem[main.buffer][h]
      BY <1>1, <1>2, <1>3, KFacts DEF Half
    <2>6. \A h \in Half : h <= n => h <= main.half \/ h = n
      BY <1>2 DEF Half
    <2> HIDE DEF n
    <2> QED
      BY <1>1, <1>3, <2>3, <2>4, <2>5, <2>6 DEF Readable
  <1>8. MessageKeys'
    BY <1>1, <1>2, <1>7 DEF MessageKeys
  <1> QED
    BY <1>1, <1>2, <1>5, <1>6, <1>8 DEF KInv, HalQuiet

LEMMA StartTransmissionKInv ==
    ASSUME IInv, Counters, WireInv, KInv, StartTransmission, dev # "hal"
    PROVE  KInv'
  <1>1. /\ Encrypting /\ main.half = main.len /\ main' = Idle
        /\ tx' = Transmission(main.buffer, main.len) /\ active' = Swapped("tx")
        /\ UNCHANGED <<dev, ready, torn, spent, peer, crossed, mem, rx>>
    BY DEF StartTransmission, Encrypted, setup, keys
  <1>2. /\ Balance /\ BlockKeys /\ MessageKeys /\ HalQuiet
        /\ main \in Sends /\ main.len \in 0 .. 2 /\ ~Transmitting
    BY <1>1, KFacts DEF KInv, OnePhase
  <1>3. /\ tx'.half = 0 /\ tx'.len = main.len /\ tx'.source = main.buffer
        /\ tx'.id = IF main.len = 0 THEN tx.id ELSE tx.id + 1
    BY <1>1, Zenon DEF Transmission
  <1>4. ~Encrypting' /\ Sealed' = Sealed
    BY <1>1, Kinds DEF Encrypting, Sealed
  <1>5. Active("rx")' = Active("rx")
    BY <1>1, RxFacts, ActiveBuffers DEF Active
  <1>6. Balance'
    BY <1>1, <1>2, <1>3, <1>4 DEF Balance, UnderWay, Transmitting
  <1>7. BlockKeys'
    BY <1>1, <1>2, <1>5 DEF BlockKeys
  <1>8. MessageKeys'
    BY <1>1, <1>2, <1>3, <1>4, KFacts DEF MessageKeys, Readable, Transmitting
  <1> QED
    BY <1>1, <1>6, <1>7, <1>8 DEF KInv, HalQuiet

(* The other steps of an example leave the contexts alone.                 *)
LEMMA OtherStepsKInv ==
    ASSUME IInv, Counters, WireInv, KInv,
           \/ \E len \in 0 .. 3, aligned \in BOOLEAN : CallSend(len, aligned)
           \/ \E len \in Half : CallReceive(len)
           \/ dev # "hal" /\ AwaitTransmission
           \/ GiveUp \/ ReceiveSteps
    PROVE  KInv'
  <1>1. /\ UNCHANGED <<dev, ready, torn, spent, peer, crossed, mem, active, rx,
                       tx>>
        /\ \/ left' = left \/ left' = [left EXCEPT !.sends = @ - 1]
           \/ left' = [left EXCEPT !.reads = @ - 1]
    BY DEF CallSend, CallReceive, AwaitTransmission, GiveUp, ReceiveSteps,
           GetInactive, CopyHalf, ClearFlag, setup, keys
  <1>2. Mixed => Mixed'
    <2>1. left'.sends = left.sends \/ left'.sends = left.sends - 1
      BY <1>1, KFacts DEF Types
    <2> QED
      BY <1>1, <2>1, KFacts, BoundsAssumption DEF Types, Mixed
  <1>3. (Encrypting => main.half = 0) /\ (Encrypting' => main'.half = 0)
    <2>1. CASE \E len \in 0 .. 3, aligned \in BOOLEAN : CallSend(len, aligned)
      <3>1. main.op = "idle"
        BY <2>1, Kinds DEF CallSend
      <3>2. main'.op = "idle" \/ main'.at = "wait"
        BY <2>1, Kinds DEF CallSend, Sending
      <3> QED
        BY <3>1, <3>2 DEF Encrypting
    <2>2. CASE \E len \in Half : CallReceive(len)
      BY <2>2, Kinds DEF CallReceive, Encrypting
    <2>3. CASE dev # "hal" /\ AwaitTransmission
      <3>1. /\ main.at = "wait" /\ main \in Sends
            /\ main' = [main EXCEPT !.at = "encrypt", !.buffer = Active("tx")]
        BY <2>3, IsSend, KFacts DEF AwaitTransmission, Waits
      <3>2. main.half = 0 /\ main'.half = main.half
        BY <2>3, <3>1, KFacts DEF Fresh, Sends
      <3> QED
        BY <3>1, <3>2 DEF Encrypting
    <2>4. CASE GiveUp
      BY <2>4, Kinds DEF GiveUp, Refused, Encrypting
    <2>5. CASE ReceiveSteps
      <3>1. main \in Receives
        BY <2>5, IsReceive, KFacts
           DEF ReceiveSteps, GetInactive, CopyHalf, ClearFlag, Copied
      <3>2. main.op = "receive" /\ main'.op \in {"receive", "idle"}
        BY <2>5, <3>1, Kinds
           DEF ReceiveSteps, GetInactive, CopyHalf, ClearFlag, Receives
      <3> QED
        BY <3>2 DEF Encrypting
    <2> QED
      BY <2>1, <2>2, <2>3, <2>4, <2>5
  <1> QED
    BY <1>1, <1>2, <1>3, QuietKInv

(* Once the HAL variant sends, nothing is claimed any more.                *)
LEMMA HalSendKInv ==
    ASSUME IInv, arcfour_uart_send_encrypted_dma
    PROVE  KInv'
  <1>1. Types /\ dev = "hal" /\ dev' = dev
    BY DEF IInv, arcfour_uart_send_encrypted_dma, GiveUp, EncryptHalf, setup
  <1>2. Mixed'
    <2>1. CASE main = Idle /\ left' = [left EXCEPT !.sends = @ - 1]
               /\ left.sends > 0
      <3>1. left'.sends = left.sends - 1 /\ left.sends \in 0 .. MaxSends
        BY <1>1, <2>1, LeftFields DEF Types
      <3> QED
        BY <1>1, <3>1, BoundsAssumption DEF Mixed
    <2>2. CASE main.op = "send" /\ left' = left
      <3>1. main \in Sends
        BY <1>1, <2>2, IsSend
      <3> QED
        BY <1>1, <2>2, <3>1 DEF IInv, SendInv, Mixed
    <2> QED
      BY <2>1, <2>2 DEF arcfour_uart_send_encrypted_dma, GiveUp, Refused,
                        EncryptHalf, Encrypting, Encrypted
  <1> QED
    BY <1>2 DEF KInv

LEMMA NextKInv == IInv /\ Counters /\ WireInv /\ KInv /\ [Next]_vars => KInv'
  <1> SUFFICES ASSUME IInv, Counters, WireInv, KInv, [Next]_vars PROVE KInv'
    OBVIOUS
  <1>1. CASE UNCHANGED vars
    BY <1>1, QuietKInv DEF vars, setup, keys, Mixed
  <1>2. CASE uart_send_encrypted \/ spi_send_encrypted
    BY <1>2, OtherStepsKInv, EncryptHalfKInv, StartTransmissionKInv
       DEF uart_send_encrypted, spi_send_encrypted, Send, SendSteps
  <1>3. CASE uart_receive_decrypted \/ spi_receive_decrypted \/ hal_receive
    BY <1>3, OtherStepsKInv
       DEF uart_receive_decrypted, spi_receive_decrypted, hal_receive
  <1> QED
    BY <1>1, <1>2, <1>3, ReceiveHalfKInv, TransmitHalfKInv, HandlersKInv,
       HalSendKInv DEF Next

LEMMA KInvariant == Spec => [](WireInv /\ KInv)
  <1>1. IInv /\ WireInv /\ [Next]_vars => WireInv'
    BY NextWire DEF Goes
  <1> QED
    BY <1>1, InitWireInv, InitKInv, NextKInv, Inductive, PTL DEF Spec

(* The peer can decrypt a message that crossed no block of its own.        *)
THEOREM MessagesReadable == Spec => []MessageReadable
  <1>1. IInv /\ Counters /\ WireInv /\ KInv => MessageReadable
    <2> SUFFICES ASSUME IInv, Counters, WireInv, KInv, dev # "hal", ~torn,
                        tx.half < tx.len, <<"tx", tx.id>> \notin crossed,
                        NEW h \in 1 .. tx.len
                 PROVE  mem[tx.source][h] =
                            Cell("tx", tx.id, "cipher", peer + h)
      BY DEF MessageReadable
    <2>1. Readable(tx.source, tx.id, tx.len)
      BY KFacts DEF KInv, MessageKeys, Transmitting
    <2>2. h \in Half /\ h <= tx.len
      BY KFacts DEF Half
    <2> QED
      BY <2>1, <2>2 DEF Readable
  <1> QED
    BY <1>1, Inductive, KInvariant, PTL

-----------------------------------------------------------------------------
(***************************************************************************)
(* What reaches the application.  A handler that has served makes the      *)
(* inactive buffer the newest decrypted block, and what it, or the stream, *)
(* does to a buffer that is being copied only replaces blocks by newer     *)
(* ones.  The flag is up only if a block was served since the last one     *)
(* that was delivered.                                                     *)
(***************************************************************************)
Receiving == main \in Receives

Copying == Receiving /\ main.at = "copy"

Newer(cell, h) == cell.form # "raw" => last[h] < cell.id /\ cell.id <= Served

Newest(cell) ==
    /\ cell.id = rx.block - 1
    /\ ready /\ ~torn /\ <<"rx", rx.block - 1>> \notin crossed =>
          cell.form = "plain"

Blocks ==
    /\ last \in [Half -> Nat]
    /\ \A h \in Half :
        /\ LET cell == mem[Inactive("rx")][h]
           IN  /\ cell.form # "raw" => cell.id = Served
               /\ ~rx.done /\ rx.block > 1 => Newest(cell)
        /\ mem[Active("rx")][h].form # "raw" =>
              mem[Active("rx")][h].id <= Served
        /\ last[h] <= Served
        /\ complete["rx"] \/ Receiving => last[h] < Served

Copies ==
    /\ Receiving /\ main.calm => ~rx.done
    /\ Receiving /\ main.at = "get" => main.got = <<>>
    /\ Copying =>
        /\ main.buffer \in {Active("rx"), Inactive("rx")}
        /\ Len(main.got) <= main.len
        /\ \A h \in Half : Newer(mem[main.buffer][h], h)
        /\ \A h \in DOMAIN main.got : Newer(main.got[h], h)
        /\ main.calm =>
            /\ main.buffer = Inactive("rx")
            /\ \A h \in DOMAIN main.got : Newest(main.got[h])

BInv == ~Mixed => Blocks /\ Copies

-----------------------------------------------------------------------------
LEMMA InitBInv == Init => BInv
  <1> SUFFICES ASSUME Init PROVE BInv
    OBVIOUS
  <1>1. main \notin Receives
    BY Kinds DEF Init, Globals
  <1>2. rx.done = FALSE /\ rx.block = 1 /\ complete["rx"] = FALSE
    BY DEF Init, Globals, uart_crypto_init, spi_crypto_init, hal_init,
           UartRxStream, SpiRxStream
  <1>3. \A b \in Buffers, h \in Half : mem[b][h].form = "raw"
    BY DEF Init, Globals, Empty, Cell
  <1>4. active["rx"] = 0
    BY DEF Init, uart_crypto_init, spi_crypto_init, hal_init,
           InitDoubleBuffers
  <1>5. Active("rx") \in Buffers /\ Inactive("rx") \in Buffers
    BY <1>4, BufferNames DEF Active, Inactive
  <1>6. last = [h \in Half |-> 0]
    BY DEF Init, Globals
  <1> QED
    BY <1>1, <1>2, <1>3, <1>5, <1>6
       DEF BInv, Blocks, Copies, Receiving, Copying, Served

(* A step that leaves reception and the reading of it alone.               *)
LEMMA QuietBInv ==
    ASSUME IInv, BInv, Mixed => Mixed',
           UNCHANGED <<rx, ready, last>>, torn => torn',
           crossed \subseteq crossed',
           active'["rx"] = active["rx"],
           complete'["rx"] => complete["rx"],
           main' = main \/ main' \notin Receives,
           ~Mixed' => \A i \in {0, 1} : mem'[<<"rx", i>>] = mem[<<"rx", i>>]
    PROVE  BInv'
  <1> SUFFICES ASSUME ~Mixed' PROVE Blocks' /\ Copies'
    BY DEF BInv
  <1>1. /\ Active("rx")' = Active("rx") /\ Inactive("rx")' = Inactive("rx")
        /\ Served' = Served
        /\ mem'[Active("rx")] = mem[Active("rx")]
        /\ mem'[Inactive("rx")] = mem[Inactive("rx")]
    <2>1. /\ Active("rx")' = Active("rx") /\ Inactive("rx")' = Inactive("rx")
          /\ Served' = Served
      BY DEF Active, Inactive, Served
    <2>2. active["rx"] \in {0, 1} /\ 1 - active["rx"] \in {0, 1}
      BY RxFacts
    <2>3. /\ mem'[Active("rx")] = mem[Active("rx")]
          /\ mem'[Inactive("rx")] = mem[Inactive("rx")]
      BY <2>2 DEF Active, Inactive
    <2> QED
      BY <2>1, <2>3
  <1>2. Blocks /\ Copies
    BY DEF BInv
  <1>3. Receiving' => Receiving /\ main' = main
    BY DEF Receiving
  <1>4. Blocks'
    BY <1>1, <1>2, <1>3 DEF Blocks, Newest
  <1>5. Copies'
    BY <1>1, <1>2, <1>3 DEF Copies, Copying, Newest, Newer
  <1> QED
    BY <1>4, <1>5

(* The next half arrives.  It is written where no copy of the newest block *)
(* is made, and what it replaces in any other copy is not replaced in      *)
(* plain.                                                                  *)
LEMMA ReceiveHalfBInv == IInv /\ BInv /\ ReceiveHalf => BInv'
  <1> SUFFICES ASSUME IInv, BInv, ReceiveHalf, ~Mixed'
               PROVE  Blocks' /\ Copies'
    BY DEF BInv
  <1>1. /\ UNCHANGED <<dev, ready, torn, active, complete, last, left>>
        /\ rx.running /\ (rx.half = 1 => ~rx.done)
        /\ mem' = [mem EXCEPT ![rx.target][rx.half + 1] =
                      Raw(rx.block, rx'.key + rx.half)]
        /\ crossed \subseteq crossed'
    BY DEF ReceiveHalf, PeerEncrypts, setup
  <1>2. ~Mixed /\ Blocks /\ Copies
    BY <1>1 DEF BInv, Mixed
  <1>3. rx.target \in Buffers /\ rx.half + 1 \in Half
        /\ \A k : Raw(rx.block, k).form = "raw"
    BY RxFacts DEF RxStreams, Half, Raw, Cell
  <1>4. rx.target = IF rx.done THEN Inactive("rx") ELSE Active("rx")
    BY <1>1, <1>2 DEF IInv, RxInv
  <1>5. \A b \in Buffers, h \in Half :
           mem'[b][h] = mem[b][h] \/ mem'[b][h].form = "raw"
    BY <1>1, <1>3, RxFacts
  <1>6. ~rx.done => mem'[Inactive("rx")] = mem[Inactive("rx")]
    BY <1>1, <1>3, <1>4, RxFacts
  <1>7. Active("rx")' = Active("rx") /\ Inactive("rx")' = Inactive("rx")
    BY <1>1 DEF Active, Inactive
  <1>8. /\ rx.half = 0 => rx'.block = rx.block /\ rx'.done = rx.done
        /\ rx.half = 1 => rx'.block = rx.block + 1 /\ rx'.done = TRUE
    <2>1. CASE rx.half = 0
      BY <2>1, RxFacts DEF ReceiveHalf, RxStreams
    <2>2. CASE rx.half = 1
      <3>1. rx' = [rx EXCEPT !.half = 0, !.block = @ + 1, !.done = TRUE,
                             !.target = IF dev = "hal" THEN @ ELSE Other(@),
                             !.running = dev # "hal"]
        BY <2>2 DEF ReceiveHalf
      <3>2. PICK t, r : rx' = [rx EXCEPT !.half = 0, !.block = @ + 1,
                                     !.done = TRUE, !.target = t,
                                     !.running = r]
        BY <3>1, Zenon
      <3> QED
        BY <2>2, <3>2, RxFacts DEF RxStreams
    <2> QED
      BY <2>1, <2>2, RxFacts
  <1>9. Served' = Served
    BY <1>1, <1>8, RxFacts DEF Served
  <1>10. /\ Receiving' <=> Receiving
         /\ Receiving => /\ main'.at = main.at /\ main'.buffer = main.buffer
                         /\ main'.got = main.got /\ main'.len = main.len
                         /\ main'.calm => main.calm /\ rx.half = 0
    <2>1. CASE main \in Receives
      <3>1. /\ main.op = "receive"
            /\ main' = IF rx.half = 1 THEN [main EXCEPT !.calm = FALSE]
                       ELSE main
        BY <2>1, Kinds DEF ReceiveHalf
      <3>2. main' \in Receives
        BY <2>1, <3>1 DEF Receives
      <3> QED
        BY <2>1, <3>1, <3>2, RxFacts DEF Receives, Receiving
    <2>2. CASE main \notin Receives
      <3>1. main.op # "receive"
        BY <2>2, IsReceive, RxFacts
      <3> QED
        BY <2>2, <3>1 DEF ReceiveHalf, Receiving
    <2> QED
      BY <2>1, <2>2
  <1>11. Blocks'
    BY <1>1, <1>2, <1>5, <1>6, <1>7, <1>8, <1>9, <1>10, RxFacts, SMTT(30)
       DEF Blocks, Newest
  <1>12. Copies'
    <2>1. ASSUME Receiving, main'.calm, NEW cell, Newest(cell)
          PROVE  Newest(cell)'
      BY <1>1, <1>8, <1>10, <2>1 DEF Newest
    <2>2. \A cell, h : Newer(cell, h)' <=> Newer(cell, h)
      BY <1>1, <1>9 DEF Newer
    <2>3. \A h \in Half : Newer(mem[main.buffer][h], h) =>
                            Newer(mem'[main.buffer][h], h)
             \/ main.buffer \notin Buffers
      BY <1>5 DEF Newer
    <2> HIDE DEF Newer, Newest
    <2> QED
      BY <1>1, <1>2, <1>5, <1>7, <1>8, <1>9, <1>10, <2>1, <2>2, <2>3, RxFacts
         DEF Copies, Copying
  <1> QED
    BY <1>11, <1>12

(* The handlers: what was the active buffer is the newest block now.       *)
LEMMA ServedBInv ==
    ASSUME IInv, Counters, KInv, BInv, rx.done, DecryptActive,
           active' = Swapped("rx"), rx'.done = FALSE, rx'.block = rx.block,
           UNCHANGED <<dev, ready, left, last, main>>
    PROVE  BInv'
  <1> SUFFICES ASSUME ~Mixed PROVE Blocks' /\ Copies'
    BY DEF BInv, Mixed
  <1> DEFINE k == mem[Active("rx")][1].key
  <1>1. Blocks /\ Copies
    BY DEF BInv
  <1>2. Active("rx")' = Inactive("rx") /\ Inactive("rx")' = Active("rx")
    BY RxFacts, ActiveBuffers DEF Active, Inactive
  <1>3. /\ \A h \in Half : mem[Active("rx")][h] = Raw(rx.block - 1, k + h - 1)
        /\ k \in Nat
        /\ ready /\ <<"rx", rx.block - 1>> \notin crossed => k = spent + 1
    <2>1. Whole(mem[Active("rx")], rx.block - 1)
      BY DEF IInv, RxInv
    <2>2. mem[Active("rx")] \in [Half -> AnyCell] /\ rx.block - 1 \in Nat
      BY RxFacts
    <2>3. k \in Nat
      BY <2>2 DEF Half, AnyCell
    <2>4. ready /\ <<"rx", rx.block - 1>> \notin crossed => k = spent + 1
      BY DEF KInv, BlockKeys
    <2> QED
      BY <2>1, <2>2, <2>3, <2>4, WholeBlocks
  <1>4. torn' \in BOOLEAN /\ (torn => torn') /\ crossed' = crossed
    BY RxFacts DEF DecryptActive, Tears, Types
  <1>5. \A h \in Half :
           /\ mem'[Inactive("rx")][h] = mem[Inactive("rx")][h]
           /\ mem'[Active("rx")][h] =
                 IF ready THEN Decrypted(mem[Active("rx")][h], spent + h, torn')
                 ELSE mem[Active("rx")][h]
    BY RxFacts DEF DecryptActive
  <1>6. \A h \in Half :
           /\ mem'[Active("rx")][h].id = rx.block - 1
           /\ ready /\ ~torn' /\ <<"rx", rx.block - 1>> \notin crossed =>
                 mem'[Active("rx")][h].form = "plain"
    <2> SUFFICES ASSUME NEW h \in Half
                 PROVE  /\ mem'[Active("rx")][h].id = rx.block - 1
                        /\ ready /\ ~torn'
                           /\ <<"rx", rx.block - 1>> \notin crossed =>
                              mem'[Active("rx")][h].form = "plain"
      OBVIOUS
    <2> HIDE DEF k
    <2>1. /\ Raw(rx.block - 1, k + h - 1).id = rx.block - 1
          /\ Raw(rx.block - 1, k + h - 1).key = k + h - 1
          /\ \A p, b : Decrypted(Raw(rx.block - 1, k + h - 1), p, b).id =
                           rx.block - 1
      BY DEF Raw, Cell, Decrypted
    <2>2. mem'[Active("rx")][h].id = rx.block - 1
      BY <1>3, <1>5, <2>1
    <2>3. ASSUME ready, ~torn', <<"rx", rx.block - 1>> \notin crossed
          PROVE  mem'[Active("rx")][h].form = "plain"
      <3>1. k + h - 1 = spent + h
        BY <1>3, <2>3 DEF Half, Counters
      <3>2. mem'[Active("rx")][h] =
               Decrypted(Raw(rx.block - 1, spent + h), spent + h, torn')
        BY <1>3, <1>5, <2>3, <3>1
      <3> QED
        BY <2>3, <3>2 DEF Decrypted, Raw, Cell
    <2> QED
      BY <2>2, <2>3
  <1>7. Served' = rx.block - 1 /\ Served = rx.block - 2
    BY DEF Served
  <1> HIDE DEF k
  <1>8. Receiving' <=> Receiving
    BY DEF Receiving
  <1>9. Blocks'
    BY <1>1, <1>2, <1>4, <1>5, <1>6, <1>7, RxFacts DEF Blocks, Newest
  <1>10. ASSUME Copying
         PROVE  /\ \A h \in Half : Newer(mem[main.buffer][h], h)'
                /\ \A h \in DOMAIN main.got : Newer(main.got[h], h)'
    <2>1. /\ main.buffer \in {Active("rx"), Inactive("rx")}
          /\ \A h \in Half : Newer(mem[main.buffer][h], h)
          /\ \A h \in DOMAIN main.got : Newer(main.got[h], h)
      BY <1>1, <1>10 DEF Copies
    <2>2. \A h \in Half : last[h] \in Nat /\ last[h] <= Served
      BY <1>1 DEF Blocks
    <2>3. \A h \in Half : Newer(mem[main.buffer][h], h)'
      <3> SUFFICES ASSUME NEW h \in Half
                   PROVE  Newer(mem[main.buffer][h], h)'
        OBVIOUS
      <3>1. CASE main.buffer = Active("rx")
        <4>1. mem'[main.buffer][h].id = rx.block - 1
          BY <1>6, <3>1
        <4> QED
          BY <1>7, <2>2, <4>1, RxFacts DEF Newer
      <3>2. CASE main.buffer = Inactive("rx")
        <4>1. mem'[main.buffer][h] = mem[main.buffer][h]
          BY <1>5, <3>2
        <4>2. mem[main.buffer][h].id \in Nat
          BY <3>2, RxFacts DEF AnyCell
        <4> QED
          BY <1>7, <2>1, <4>1, <4>2, RxFacts DEF Newer
      <3> QED
        BY <2>1, <3>1, <3>2
    <2>4. \A h \in DOMAIN main.got : Newer(main.got[h], h)'
      <3>1. \A h \in DOMAIN main.got : main.got[h].id \in Nat
        <4>1. main.got \in Seq(AnyCell)
          BY <1>10 DEF Copying, Receiving, Receives
        <4>2. \A h \in DOMAIN main.got : main.got[h] \in AnyCell
          BY <4>1
        <4> QED
          BY <4>2 DEF AnyCell
      <3> QED
        BY <1>7, <2>1, <3>1, RxFacts DEF Newer
    <2> QED
      BY <2>3, <2>4
  <1>11. ~(Receiving /\ main.calm)
    BY <1>1 DEF Copies
  <1>12. Copies'
    BY <1>1, <1>2, <1>8, <1>10, <1>11 DEF Copies, Copying
  <1> QED
    BY <1>9, <1>12

LEMMA HandlersBInv ==
    IInv /\ Counters /\ KInv /\ BInv /\ Handlers => BInv'
  <1> SUFFICES ASSUME IInv, Counters, KInv, BInv, Handlers PROVE BInv'
    OBVIOUS
  <1>1. CASE ServeReception
    <2>1. /\ rx.done /\ DecryptActive /\ rx' = [rx EXCEPT !.done = FALSE]
          /\ active' = Swapped("rx")
          /\ UNCHANGED <<setup, main, left, last>>
      BY <1>1 DEF ServeReception
    <2>2. rx'.done = FALSE /\ rx'.block = rx.block
      BY <2>1, RxFacts DEF RxStreams
    <2> QED
      BY <2>1, <2>2, ServedBInv DEF setup
  <1>2. CASE HAL_UART_RxCpltCallback
    <2>1. /\ rx.done /\ DecryptActive /\ active' = Swapped("rx")
          /\ rx' = [rx EXCEPT !.done = FALSE, !.running = TRUE,
                              !.target = <<"rx", active'["rx"]>>]
          /\ UNCHANGED <<setup, main, left, last>>
      BY <1>2 DEF HAL_UART_RxCpltCallback
    <2>2. rx'.done = FALSE /\ rx'.block = rx.block
      BY <2>1, RxFacts DEF RxStreams
    <2> QED
      BY <2>1, <2>2, ServedBInv DEF setup
  <1>3. CASE ServeTransmission
    <2>1. /\ complete' = [complete EXCEPT !["tx"] = TRUE]
          /\ UNCHANGED <<dev, ready, torn, crossed, mem, active, rx, main, left,
                         last>>
      BY <1>3 DEF ServeTransmission, setup, keys
    <2> QED
      BY <2>1, QuietBInv, RxFacts DEF Mixed
  <1> QED
    BY <1>1, <1>2, <1>3
       DEF Handlers, DMA1_Stream5_IRQHandler, DMA1_Stream6_IRQHandler,
           DMA2_Stream5_IRQHandler, DMA2_Stream6_IRQHandler

(* Sending leaves reception alone, or mixes the buffers.                   *)
LEMMA SendingBInv ==
    ASSUME IInv, BInv,
           \/ TransmitHalf \/ uart_send_encrypted \/ spi_send_encrypted
           \/ arcfour_uart_send_encrypted_dma
    PROVE  BInv'
  <1>1. /\ UNCHANGED <<dev, ready, rx, last, torn>>
        /\ left' = left \/ left' = [left EXCEPT !.sends = @ - 1]
        /\ complete' = complete \/ complete' = [complete EXCEPT !["tx"] = FALSE]
        /\ active' = active \/ active' = Swapped("tx")
        /\ crossed \subseteq crossed'
    BY DEF TransmitHalf, uart_send_encrypted, spi_send_encrypted, Send,
           SendSteps, arcfour_uart_send_encrypted_dma, CallSend,
           AwaitTransmission, GiveUp, EncryptHalf, StartTransmission, setup,
           keys
  <1>2. complete'["rx"] = complete["rx"] /\ active'["rx"] = active["rx"]
    BY <1>1, RxFacts, ActiveBuffers
  <1>3. Mixed => Mixed'
    <2>1. left' = left \/ left'.sends = left.sends - 1
      BY <1>1, RxFacts DEF Types
    <2> QED
      BY <1>1, <2>1, MixedStays, RxFacts
  <1>4. main' = main \/ main' \notin Receives
    <2>1. main' = main \/ main'.op # "receive"
      <3>1. CASE TransmitHalf
        BY <3>1 DEF TransmitHalf
      <3>2. CASE GiveUp \/ StartTransmission
        BY <3>2, Kinds DEF GiveUp, StartTransmission
      <3>3. CASE AwaitTransmission \/ EncryptHalf
        <4>1. main \in Sends
          BY <3>3, IsSend, RxFacts
             DEF AwaitTransmission, Waits, EncryptHalf, Encrypting
        <4>2. main'.op = "send"
          BY <3>3, <4>1 DEF AwaitTransmission, EncryptHalf, Sends
        <4> QED
          BY <4>2
      <3>4. CASE \E len \in 0 .. 3, aligned \in BOOLEAN :
                   CallSend(len, aligned)
        BY <3>4, Kinds DEF CallSend, Sending
      <3>5. CASE arcfour_uart_send_encrypted_dma /\ ~GiveUp /\ ~EncryptHalf
        BY <3>5, Kinds DEF arcfour_uart_send_encrypted_dma, Sending
      <3> QED
        BY <3>1, <3>2, <3>3, <3>4, <3>5
           DEF uart_send_encrypted, spi_send_encrypted, Send, SendSteps
    <2> QED
      BY <2>1, Kinds
  <1>5. ~Mixed' => \A i \in {0, 1} : mem'[<<"rx", i>>] = mem[<<"rx", i>>]
    <2>1. CASE mem' = mem
      BY <2>1
    <2>2. CASE EncryptHalf
      <3>1. main \in Sends /\ main.half < main.len
        BY <2>2, IsSend, RxFacts DEF EncryptHalf, Encrypting
      <3>2. ~Mixed' => main.buffer \in {<<"tx", 0>>, <<"tx", 1>>}
        BY <1>3, <3>1 DEF IInv, SendInv
      <3>3. \A o \in Buffers \ {main.buffer} : mem'[o] = mem[o]
        BY <2>2, RxFacts DEF EncryptHalf
      <3> QED
        BY <3>2, <3>3, BufferNames
    <2>3. mem' = mem \/ EncryptHalf
      BY DEF TransmitHalf, uart_send_encrypted, spi_send_encrypted, Send,
             SendSteps, arcfour_uart_send_encrypted_dma, CallSend,
             AwaitTransmission, GiveUp, StartTransmission
    <2> QED
      BY <2>1, <2>2, <2>3
  <1> QED
    BY <1>1, <1>2, <1>3, <1>4, <1>5, QuietBInv

(* Reading.                                                                *)
LEMMA CallReceiveBInv ==
    ASSUME IInv, BInv, NEW len \in Half, CallReceive(len)
    PROVE  BInv'
  <1>1. /\ complete["rx"] /\ left.reads > 0
        /\ left' = [left EXCEPT !.reads = @ - 1]
        /\ main' = [op |-> "receive", at |-> "get", len |-> len,
                    buffer |-> <<"rx", 0>>, got |-> <<>>, calm |-> ~rx.done]
        /\ UNCHANGED <<dev, ready, torn, crossed, mem, active, complete, rx,
                       last>>
    BY DEF CallReceive, setup, keys
  <1>2. left'.sends = left.sends
    BY <1>1, RxFacts, LeftFields
  <1> SUFFICES ASSUME ~Mixed PROVE Blocks' /\ Copies'
    BY <1>1, <1>2 DEF BInv, Mixed
  <1>3. Blocks /\ Copies
    BY DEF BInv
  <1>4. /\ Active("rx")' = Active("rx") /\ Inactive("rx")' = Inactive("rx")
        /\ Served' = Served
    BY <1>1 DEF Active, Inactive, Served
  <1>5. Blocks'
    BY <1>1, <1>3, <1>4 DEF Blocks, Newest
  <1>6. ~Copying' /\ main'.calm = (~rx.done)
    BY <1>1 DEF Copying
  <1>7. Copies'
    <2>1. main'.got = <<>> /\ (main'.calm => ~rx.done) /\ rx' = rx
      BY <1>1, <1>6
    <2> QED
      BY <1>6, <2>1 DEF Copies
  <1> QED
    BY <1>5, <1>7

LEMMA GetInactiveBInv == IInv /\ BInv /\ GetInactive => BInv'
  <1> SUFFICES ASSUME IInv, BInv, GetInactive, ~Mixed
               PROVE  Blocks' /\ Copies'
    BY DEF BInv, GetInactive, Mixed, setup
  <1>1. /\ main \in Receives /\ main.at = "get"
        /\ main' = [main EXCEPT !.at = "copy", !.buffer = Inactive("rx")]
        /\ UNCHANGED <<ready, torn, crossed, mem, active, complete, rx, last>>
    BY IsReceive, RxFacts DEF GetInactive, setup, keys
  <1>2. /\ Active("rx")' = Active("rx") /\ Inactive("rx")' = Inactive("rx")
        /\ Served' = Served
    BY <1>1 DEF Active, Inactive, Served
  <1>3. Blocks /\ Copies /\ Receiving
    BY <1>1 DEF BInv, Receiving
  <1>4. Blocks'
    BY <1>1, <1>2, <1>3 DEF Blocks, Newest
  <1>5. /\ main'.buffer = Inactive("rx") /\ main'.calm = main.calm
        /\ main'.got = main.got /\ main'.len = main.len
    BY <1>1 DEF Receives
  <1>6. \A h \in Half : Newer(mem[Inactive("rx")][h], h)
    BY <1>3, RxFacts DEF Blocks, Newer
  <1>7. /\ main.got = <<>> /\ (main.calm => ~rx.done)
        /\ Len(<<>>) = 0 /\ DOMAIN <<>> = {} /\ main.len \in Half
        /\ main'.at = "copy"
    BY <1>1, <1>3 DEF Copies, Receives
  <1>8. \A h \in Half : Newer(mem[main.buffer][h], h)'
    BY <1>1, <1>2, <1>5, <1>6 DEF Newer
  <1>9. Copies'
    BY <1>1, <1>2, <1>5, <1>7, <1>8 DEF Copies, Copying, Half
  <1> QED
    BY <1>4, <1>9

(* What is appended to a sequence of cells.                                *)
LEMMA Appended ==
    ASSUME NEW s \in Seq(AnyCell), NEW c \in AnyCell
    PROVE  /\ Len(Append(s, c)) = Len(s) + 1
           /\ DOMAIN Append(s, c) = DOMAIN s \cup {Len(s) + 1}
           /\ Append(s, c)[Len(s) + 1] = c
           /\ \A h \in DOMAIN s : Append(s, c)[h] = s[h]
  OBVIOUS

LEMMA CopyHalfBInv == IInv /\ BInv /\ CopyHalf => BInv'
  <1> SUFFICES ASSUME IInv, BInv, CopyHalf, ~Mixed
               PROVE  Blocks' /\ Copies'
    BY DEF BInv, CopyHalf, Mixed, setup
  <1> DEFINE n == Len(main.got) + 1
             c == mem[main.buffer][n]
             g == Append(main.got, c)
  <1>1. /\ main \in Receives /\ main.at = "copy" /\ Len(main.got) < main.len
        /\ main' = [main EXCEPT !.got = g]
        /\ UNCHANGED <<ready, torn, crossed, mem, active, complete, rx, last>>
    BY IsReceive, RxFacts DEF CopyHalf, setup, keys
  <1>2. /\ Active("rx")' = Active("rx") /\ Inactive("rx")' = Inactive("rx")
        /\ Served' = Served
    BY <1>1 DEF Active, Inactive, Served
  <1>3. Blocks /\ Copies /\ Copying
    BY <1>1 DEF BInv, Receiving, Copying
  <1>4. Blocks'
    BY <1>1, <1>2, <1>3 DEF Blocks, Newest, Copying
  <1>5. main.got \in Seq(AnyCell) /\ main.len \in Half
    BY <1>1 DEF Receives
  <1>6. n \in Half /\ n <= main.len
    BY <1>1, <1>5 DEF Half
  <1>7. main.buffer \in {Active("rx"), Inactive("rx")} /\ Newer(c, n)
    BY <1>3, <1>6 DEF Copies
  <1>8. c \in AnyCell
    BY <1>6, <1>7, RxFacts
  <1>9. main.calm => Newest(c)
    <2>1. last[n] \in Nat /\ last[n] < Served
      BY <1>3, <1>6 DEF Blocks, Copying
    <2>2. ~rx.done => rx.block > 1
      BY <2>1, RxFacts DEF Served
    <2> QED
      BY <1>3, <1>6, <2>2 DEF Blocks, Copies, Copying
  <1>10. /\ Len(g) = n /\ DOMAIN g = DOMAIN main.got \cup {n} /\ g[n] = c
         /\ \A h \in DOMAIN main.got : g[h] = main.got[h]
    BY <1>5, <1>8, Appended
  <1> HIDE DEF n, c, g
  <1>11. /\ main'.got = g /\ main'.at = "copy" /\ main'.buffer = main.buffer
         /\ main'.len = main.len /\ main'.calm = main.calm
    BY <1>1 DEF Receives
  <1>12. \A h \in DOMAIN g : Newer(g[h], h) /\ (main.calm => Newest(g[h]))
    BY <1>3, <1>7, <1>9, <1>10 DEF Copies
  <1>13. Copies'
    <2>1. main'.calm => ~rx'.done
      BY <1>1, <1>3, <1>11 DEF Copies, Copying, Receiving
    <2>2. /\ main'.buffer \in {Active("rx")', Inactive("rx")'}
          /\ Len(main'.got) <= main'.len
      BY <1>2, <1>6, <1>7, <1>10, <1>11
    <2>3. \A h \in Half : Newer(mem[main.buffer][h], h)'
      BY <1>1, <1>2, <1>3, <1>11 DEF Copies, Newer
    <2>4. \A h \in DOMAIN main'.got : Newer(main.got[h], h)'
      BY <1>1, <1>2, <1>11, <1>12 DEF Newer
    <2>5. main'.calm => main'.buffer = Inactive("rx")'
      BY <1>2, <1>3, <1>11 DEF Copies
    <2>6. main'.calm => \A h \in DOMAIN main'.got : Newest(main.got[h])'
      BY <1>1, <1>2, <1>11, <1>12 DEF Newest
    <2> QED
      BY <1>11, <2>1, <2>2, <2>3, <2>4, <2>5, <2>6 DEF Copies
  <1> QED
    BY <1>4, <1>13

LEMMA ClearFlagBInv == IInv /\ BInv /\ ClearFlag => BInv'
  <1> SUFFICES ASSUME IInv, BInv, ClearFlag, ~Mixed
               PROVE  Blocks' /\ Copies'
    BY DEF BInv, ClearFlag, Mixed, setup
  <1>1. /\ main \in Receives /\ main.at = "copy" /\ Len(main.got) = main.len
        /\ main' = Idle /\ last' = Delivered
        /\ complete' = [complete EXCEPT !["rx"] = FALSE]
        /\ UNCHANGED <<ready, torn, crossed, mem, active, rx>>
    BY IsReceive, RxFacts DEF ClearFlag, Copied, setup, keys
  <1>2. /\ Active("rx")' = Active("rx") /\ Inactive("rx")' = Inactive("rx")
        /\ Served' = Served /\ complete'["rx"] = FALSE /\ ~Receiving'
    BY <1>1, RxFacts, Kinds DEF Active, Inactive, Served, Receiving
  <1>3. Blocks /\ Copies /\ Copying
    BY <1>1 DEF BInv, Receiving, Copying
  <1>4. /\ main.got \in Seq(AnyCell) /\ main.len \in Half
        /\ DOMAIN main.got = 1 .. main.len
    BY <1>1 DEF Receives
  <1>5. \A h \in Half : h <= main.len =>
           /\ main.got[h].id \in Nat
           /\ main.got[h].form # "raw" => main.got[h].id <= Served
    <2>1. \A h \in Half : h <= main.len => h \in DOMAIN main.got
      BY <1>4 DEF Half
    <2>2. \A h \in DOMAIN main.got : main.got[h] \in AnyCell
      <3>1. \A s \in Seq(AnyCell) : \A h \in DOMAIN s : s[h] \in AnyCell
        OBVIOUS
      <3> QED
        BY <1>4, <3>1
    <2> QED
      BY <1>3, <2>1, <2>2 DEF Copies, Newer, AnyCell
  <1>6. last' \in [Half -> Nat] /\ \A h \in Half : last'[h] <= Served
    BY <1>1, <1>3, <1>5 DEF Delivered, Blocks
  <1>7. Blocks'
    BY <1>1, <1>2, <1>3, <1>6 DEF Blocks, Newest
  <1>8. Copies'
    BY <1>2 DEF Copies, Copying
  <1> QED
    BY <1>7, <1>8

LEMMA NextBInv ==
    IInv /\ Counters /\ KInv /\ BInv /\ [Next]_vars => BInv'
  <1> SUFFICES ASSUME IInv, Counters, KInv, BInv, [Next]_vars
               PROVE  BInv'
    OBVIOUS
  <1>1. CASE uart_receive_decrypted \/ spi_receive_decrypted \/ hal_receive
    BY <1>1, CallReceiveBInv, GetInactiveBInv, CopyHalfBInv, ClearFlagBInv
       DEF uart_receive_decrypted, spi_receive_decrypted, hal_receive,
           ReceiveSteps
  <1>2. CASE UNCHANGED vars
    BY <1>2, QuietBInv DEF vars, setup, keys, Mixed
  <1> QED
    BY <1>1, <1>2, ReceiveHalfBInv, HandlersBInv, SendingBInv DEF Next

LEMMA BInvariant == Spec => []BInv
  BY InitBInv, NextBInv, Inductive, KInvariant, PTL DEF Spec

LEMMA BInvSuffices == IInv /\ BInv => NoBlockTwice /\ CalmCopyIsNewest
  <1> SUFFICES ASSUME IInv, BInv, Copied, ~Mixed
               PROVE  \A h \in DOMAIN main.got :
                         /\ main.got[h].form # "raw" =>
                               main.got[h].id > last[h]
                         /\ main.calm =>
                               /\ main.got[h].id = rx.block - 1
                               /\ ready /\ ~torn
                                  /\ <<"rx", rx.block - 1>> \notin crossed =>
                                     main.got[h].form = "plain"
    BY DEF NoBlockTwice, CalmCopyIsNewest
  <1>1. Blocks /\ Copies /\ Copying
    BY IsReceive, RxFacts DEF BInv, Copied, Copying, Receiving
  <1>2. /\ main.got \in Seq(AnyCell) /\ main.len \in Half
        /\ DOMAIN main.got = 1 .. Len(main.got) /\ Len(main.got) \in Nat
        /\ Len(main.got) <= main.len
    BY <1>1 DEF Copying, Receiving, Receives, Copies
  <1>3. \A h \in DOMAIN main.got : /\ h \in Half /\ main.got[h] \in AnyCell
                                   /\ last[h] \in Nat
    BY <1>1, <1>2 DEF Half, Blocks
  <1> QED
    BY <1>1, <1>3 DEF Copies, Newer, Newest, AnyCell

(* However completions fall into a receive call, the application is not    *)
(* handed a half of a decrypted block twice, nor an older one after a      *)
(* newer.                                                                  *)
THEOREM NoRepeats == Spec => []NoBlockTwice
  BY BInvariant, Inductive, BInvSuffices, PTL

(* A copy that no completion disturbs is of the newest block, and readable *)
(* unless that block crossed a message.                                    *)
THEOREM CalmCopies == Spec => []CalmCopyIsNewest
  BY BInvariant, Inductive, BInvSuffices, PTL

-----------------------------------------------------------------------------
(***************************************************************************)
(* The type of what is in the buffers, for which every handler must find   *)
(* a whole block, mixed or not: the HAL's reception writes into the active *)
(* buffer and is stopped until the block is decrypted.                     *)
(***************************************************************************)
CellsOK == mem \in [Buffers -> [Half -> Cells]]

CountsOK ==
    /\ rx.block <= MaxBlocks + 1
    /\ tx.half <= tx.len
    /\ tx.id + (IF main \in Sends THEN 1 ELSE 0) <= MaxSends - left.sends

HalRx ==
    dev = "hal" =>
        /\ rx.target = Active("rx")
        /\ rx.running => ~rx.done
        /\ rx.half = 1 => ~rx.done /\ mem[rx.target][1] # Empty
        /\ rx.done => \A h \in Half : mem[Active("rx")][h] # Empty

TInv == CellsOK /\ CountsOK /\ HalRx

-----------------------------------------------------------------------------
LEMMA CellFacts ==
    /\ Empty \in Cells
    /\ \A b \in 1 .. MaxBlocks, k \in Nat : Raw(b, k) \in Cells
    /\ \A b, k : Raw(b, k) # Empty
    /\ \A i \in 1 .. MaxSends, k \in Nat :
          /\ Cell("tx", i, "garbled", k) \in Cells
          /\ Cell("tx", i, "cipher", k) \in Cells
    /\ \A i, f, k : Cell("tx", i, f, k) # Empty
    /\ \A c \in Cells \ {Empty} : \A k, b : Decrypted(c, k, b) \in Cells
  <1>1. /\ Empty \in Cells
        /\ \A b \in 1 .. MaxBlocks, k \in Nat : Raw(b, k) \in Cells
    BY DEF Cells, Raw, Cell
  <1>2. \A i \in 1 .. MaxSends, k \in Nat :
           /\ Cell("tx", i, "garbled", k) \in Cells
           /\ Cell("tx", i, "cipher", k) \in Cells
    BY DEF Cells, Cell
  <1>3. /\ \A b, k : Raw(b, k) # Empty
        /\ \A i, f, k : Cell("tx", i, f, k) # Empty
    <2>1. /\ Empty.dir = "none" /\ \A b, k : Raw(b, k).dir = "rx"
          /\ \A i, f, k : Cell("tx", i, f, k).dir = "tx"
      BY DEF Empty, Raw, Cell
    <2> QED
      BY <2>1
  <1>4. ASSUME NEW c \in Cells \ {Empty}, NEW k, NEW b
        PROVE  Decrypted(c, k, b) \in Cells
    <2> DEFINE f == IF c.key = k /\ ~b THEN "plain" ELSE "garbled"
    <2>1. f \in {"garbled", "plain"} /\ 0 \in Nat
      OBVIOUS
    <2>2. Decrypted(c, k, b) = [c EXCEPT !.form = f, !.key = 0]
      BY DEF Decrypted
    <2> HIDE DEF f
    <2> QED
      BY <2>1, <2>2 DEF Cells
  <1> QED
    BY <1>1, <1>2, <1>3, <1>4

LEMMA InitTInv == Init => TInv
  <1> SUFFICES ASSUME Init PROVE TInv
    OBVIOUS
  <1>1. /\ tx.half = 0 /\ tx.len = 0 /\ tx.id = 0 /\ main = Idle
        /\ left.sends = MaxSends /\ rx.block = 1 /\ rx.done = FALSE
        /\ rx.half = 0 /\ rx.target = <<"rx", 0>> /\ active["rx"] = 0
    BY DEF Init, Globals, uart_crypto_init, spi_crypto_init, hal_init,
           UartTxStream, SpiTxStream, UartRxStream, SpiRxStream,
           InitDoubleBuffers
  <1>2. CellsOK
    BY CellFacts DEF Init, Globals, CellsOK
  <1>3. CountsOK /\ HalRx
    BY <1>1, Kinds, BoundsAssumption DEF CountsOK, HalRx, Active
  <1> QED
    BY <1>2, <1>3 DEF TInv

LEMMA TFacts ==
    ASSUME IInv, Counters, TInv
    PROVE  /\ spent \in Nat /\ peer \in Nat /\ rx.key \in Nat
           /\ Types /\ CellsOK /\ CountsOK /\ HalRx
           /\ tx \in TxStreams /\ tx.half \in Nat /\ tx.len \in 0 .. 2
           /\ tx.id \in Nat
           /\ left.sends \in 0 .. MaxSends /\ left.reads \in 0 .. MaxReads
           /\ MaxBlocks \in Nat /\ MaxSends \in Nat
  BY BoundsAssumption DEF IInv, Counters, TInv, Types, TxStreams, RxStreams

(* A completion that is to be served is of a whole block.                  *)
LEMMA WholeBlock ==
    ASSUME IInv, Counters, TInv, rx.done
    PROVE  \A h \in Half : mem[Active("rx")][h] # Empty
  <1>1. CASE dev = "hal"
    BY <1>1, TFacts DEF HalRx
  <1>2. CASE dev # "hal"
    <2>1. Whole(mem[Active("rx")], rx.block - 1)
      BY <1>2 DEF IInv, RxInv, Mixed
    <2> QED
      BY <2>1, CellFacts DEF Whole
  <1> QED
    BY <1>1, <1>2

LEMMA EncryptedCell ==
    ASSUME IInv, Counters, TInv, EncryptHalf
    PROVE  \E c \in Cells \ {Empty}, h \in Half :
              /\ mem' = [mem EXCEPT ![main.buffer][h] = c]
              /\ main.buffer \in Buffers
  <1> DEFINE c == Cell("tx", tx.id + 1, IF torn THEN "garbled" ELSE "cipher",
                       spent + 1)
             h == main.half + 1
  <1>1. /\ main \in Sends /\ main.half < main.len
        /\ mem' = [mem EXCEPT ![main.buffer][h] = c]
    BY IsSend, TFacts DEF EncryptHalf, Encrypting
  <1>2. h \in Half /\ main.buffer \in Buffers
    BY <1>1, SendFields DEF Half
  <1>3. tx.id + 1 \in 1 .. MaxSends
    BY <1>1, TFacts DEF CountsOK
  <1>4. c \in Cells \ {Empty}
    BY <1>3, CellFacts, TFacts
  <1> QED
    BY <1>1, <1>2, <1>4

LEMMA MemoryChanges ==
    ASSUME Next
    PROVE  \/ ReceiveHalf \/ (rx.done /\ DecryptActive) \/ EncryptHalf
           \/ mem' = mem
  BY DEF Next, TransmitHalf, Handlers, DMA1_Stream5_IRQHandler,
         DMA1_Stream6_IRQHandler, DMA2_Stream5_IRQHandler,
         DMA2_Stream6_IRQHandler, HAL_UART_RxCpltCallback, ServeReception,
         ServeTransmission, uart_send_encrypted, spi_send_encrypted, Send,
         SendSteps, CallSend, AwaitTransmission, StartTransmission,
         arcfour_uart_send_encrypted_dma, GiveUp, uart_receive_decrypted,
         spi_receive_decrypted, hal_receive, CallReceive, ReceiveSteps,
         GetInactive, CopyHalf, ClearFlag

LEMMA NextCells ==
    ASSUME IInv, Counters, TInv, Next
    PROVE  CellsOK'
  <1>1. CASE ReceiveHalf
    <2>1. /\ rx.block \in 1 .. MaxBlocks /\ rx.half + 1 \in Half
          /\ rx.target \in Buffers
          /\ mem' = [mem EXCEPT ![rx.target][rx.half + 1] =
                        Raw(rx.block, rx'.key + rx.half)]
      BY <1>1, RxFacts, TFacts DEF ReceiveHalf, RxStreams, Half
    <2>2. rx'.key + rx.half \in Nat
      <3>1. IInv'
        BY <1>1, ReceiveHalfIInv
      <3> QED
        BY <3>1, RxFacts DEF IInv, Types, RxStreams
    <2>3. Raw(rx.block, rx'.key + rx.half) \in Cells
      BY <2>1, <2>2, CellFacts
    <2> QED
      BY <2>1, <2>3, TFacts DEF CellsOK
  <1>2. CASE rx.done /\ DecryptActive
    <2>1. \/ mem' = mem
          \/ mem' = [mem EXCEPT ![Active("rx")] =
                        [h \in Half |-> Decrypted(@[h], spent + h, torn')]]
      BY <1>2 DEF DecryptActive
    <2>2. \A h \in Half : mem[Active("rx")][h] \in Cells \ {Empty}
      BY <1>2, WholeBlock, RxFacts, TFacts DEF CellsOK
    <2>3. \A h \in Half :
             Decrypted(mem[Active("rx")][h], spent + h, torn') \in Cells
      BY <2>2, CellFacts
    <2> QED
      BY <2>1, <2>3, RxFacts, TFacts DEF CellsOK
  <1>3. CASE EncryptHalf
    <2>1. PICK c \in Cells \ {Empty}, h \in Half :
             /\ mem' = [mem EXCEPT ![main.buffer][h] = c]
             /\ main.buffer \in Buffers
      BY <1>3, EncryptedCell
    <2> QED
      BY <2>1, TFacts DEF CellsOK
  <1>4. CASE mem' = mem
    BY <1>4, TFacts DEF CellsOK
  <1> QED
    BY <1>1, <1>2, <1>3, <1>4, MemoryChanges

LEMMA NextCounts ==
    ASSUME IInv, Counters, TInv, Next
    PROVE  CountsOK'
  <1>0. CountsOK
    BY TFacts
  <1>1. CASE ReceiveHalf
    <2>1. UNCHANGED <<tx, left>> /\ rx.block <= MaxBlocks
      BY <1>1 DEF ReceiveHalf
    <2>2. rx'.block = rx.block \/ rx'.block = rx.block + 1
      <3>1. CASE rx.half = 0
        BY <1>1, <3>1, RxFacts DEF ReceiveHalf, RxStreams
      <3>2. CASE rx.half = 1
        BY <1>1, <3>2, RxFacts DEF ReceiveHalf, RxStreams
      <3> QED
        BY <3>1, <3>2, RxFacts
    <2>3. main' \in Sends => main \in Sends
      <3>1. CASE main.op = "receive"
        <4>1. main \in Receives
          BY <3>1, IsReceive, TFacts
        <4>2. main'.op = "receive"
          BY <1>1, <3>1, <4>1 DEF ReceiveHalf, Receives
        <4> QED
          BY <4>2, Kinds
      <3>2. CASE main.op # "receive"
        BY <1>1, <3>2 DEF ReceiveHalf
      <3> QED
        BY <3>1, <3>2
    <2> QED
      BY <1>0, <2>1, <2>2, <2>3, RxFacts, TFacts DEF CountsOK
  <1>2. CASE TransmitHalf
    <2>1. /\ UNCHANGED <<rx, left, main>> /\ tx.half < tx.len
          /\ \E d : tx' = [tx EXCEPT !.half = @ + 1, !.done = d]
      BY <1>2, Zenon DEF TransmitHalf
    <2>2. tx'.half = tx.half + 1 /\ tx'.len = tx.len /\ tx'.id = tx.id
      BY <2>1, TFacts DEF TxStreams
    <2> QED
      BY <1>0, <2>1, <2>2, TFacts DEF CountsOK
  <1>3. CASE Handlers
    <2>1. UNCHANGED <<left, main>>
      BY <1>3 DEF Handlers, DMA1_Stream5_IRQHandler, DMA1_Stream6_IRQHandler,
         DMA2_Stream5_IRQHandler, DMA2_Stream6_IRQHandler,
         HAL_UART_RxCpltCallback, ServeReception, ServeTransmission
    <2>2. \/ rx' = rx \/ rx' = [rx EXCEPT !.done = FALSE]
          \/ rx' = [rx EXCEPT !.done = FALSE, !.running = TRUE,
                              !.target = <<"rx", active'["rx"]>>]
      BY <1>3 DEF Handlers, DMA1_Stream5_IRQHandler, DMA1_Stream6_IRQHandler,
         DMA2_Stream5_IRQHandler, DMA2_Stream6_IRQHandler,
         HAL_UART_RxCpltCallback, ServeReception, ServeTransmission
    <2>3. tx' = tx \/ tx' = [tx EXCEPT !.done = FALSE]
      BY <1>3 DEF Handlers, DMA1_Stream5_IRQHandler, DMA1_Stream6_IRQHandler,
         DMA2_Stream5_IRQHandler, DMA2_Stream6_IRQHandler,
         HAL_UART_RxCpltCallback, ServeReception, ServeTransmission
    <2>4. rx'.block = rx.block
      BY <2>2, RxFacts DEF RxStreams
    <2>5. tx'.half = tx.half /\ tx'.len = tx.len /\ tx'.id = tx.id
      BY <2>3, TFacts DEF TxStreams
    <2> QED
      BY <1>0, <2>1, <2>4, <2>5 DEF CountsOK
  <1>4. CASE \E len \in 0 .. 3, aligned \in BOOLEAN : CallSend(len, aligned)
    <2>1. /\ UNCHANGED <<rx, tx>> /\ left.sends > 0
          /\ left' = [left EXCEPT !.sends = @ - 1] /\ main = Idle
      BY <1>4 DEF CallSend
    <2>2. left'.sends = left.sends - 1
      BY <2>1, LeftFields, TFacts
    <2> QED
      BY <1>0, <2>1, <2>2, Kinds, TFacts DEF CountsOK
  <1>5. CASE AwaitTransmission \/ EncryptHalf \/ GiveUp
    <2>1. main \in Sends /\ UNCHANGED <<rx, tx, left>>
      BY <1>5, IsSend, TFacts
         DEF AwaitTransmission, Waits, EncryptHalf, Encrypting, GiveUp, Refused
    <2> QED
      BY <1>0, <2>1, TFacts DEF CountsOK
  <1>6. CASE Encrypted /\ main' = Idle /\ UNCHANGED <<rx, left>>
             /\ (tx' = tx \/ tx' = Transmission(main.buffer, main.len))
    <2>1. main \in Sends
      BY <1>6, IsSend, TFacts DEF Encrypted, Encrypting
    <2>2. main.buffer \in Buffers /\ main.len \in 0 .. 2
      BY <2>1, SendFields
    <2>3. CASE tx' = tx
      BY <1>0, <1>6, <2>1, <2>3, Kinds, TFacts DEF CountsOK
    <2>4. CASE tx' = Transmission(main.buffer, main.len)
      <3>1. tx'.half = 0 /\ tx'.len = main.len
            /\ (tx'.id = tx.id \/ tx'.id = tx.id + 1)
        BY <2>4, Zenon DEF Transmission
      <3> QED
        BY <1>0, <1>6, <2>1, <2>2, <3>1, Kinds, TFacts DEF CountsOK
    <2> QED
      BY <1>6, <2>3, <2>4
  <1>7. CASE dev = "hal" /\ main = Idle /\ left.sends > 0
             /\ left' = [left EXCEPT !.sends = @ - 1] /\ UNCHANGED <<rx, tx>>
    <2>1. left'.sends = left.sends - 1
      BY <1>7, LeftFields, TFacts
    <2> QED
      BY <1>0, <1>7, <2>1, Kinds, TFacts DEF CountsOK
  <1>8. CASE \E len \in Half : CallReceive(len)
    <2>1. /\ UNCHANGED <<rx, tx>> /\ left.reads > 0 /\ main'.op = "receive"
          /\ left' = [left EXCEPT !.reads = @ - 1]
      BY <1>8 DEF CallReceive
    <2>2. left'.sends = left.sends /\ main' \notin Sends
      BY <2>1, LeftFields, Kinds, TFacts
    <2> QED
      BY <1>0, <2>1, <2>2, TFacts DEF CountsOK
  <1>9. CASE ReceiveSteps
    <2>1. UNCHANGED <<rx, tx, left>> /\ main \in Receives
      BY <1>9, IsReceive, TFacts
         DEF ReceiveSteps, GetInactive, CopyHalf, ClearFlag, Copied
    <2>2. main' = Idle \/ main'.op = "receive"
      BY <1>9, <2>1 DEF ReceiveSteps, GetInactive, CopyHalf, ClearFlag, Receives
    <2>3. main' \notin Sends
      BY <2>2, Kinds
    <2> QED
      BY <1>0, <2>1, <2>3, TFacts DEF CountsOK
  <1> QED
    <2>1. CASE uart_send_encrypted \/ spi_send_encrypted
      BY <1>4, <1>5, <1>6, <2>1
         DEF uart_send_encrypted, spi_send_encrypted, Send, SendSteps,
             StartTransmission
    <2>2. CASE arcfour_uart_send_encrypted_dma
      BY <1>5, <1>6, <1>7, <2>2 DEF arcfour_uart_send_encrypted_dma
    <2>3. CASE uart_receive_decrypted \/ spi_receive_decrypted \/ hal_receive
      BY <1>8, <1>9, <2>3
         DEF uart_receive_decrypted, spi_receive_decrypted, hal_receive
    <2> QED
      BY <1>1, <1>2, <1>3, <2>1, <2>2, <2>3 DEF Next

LEMMA QuietHalRx ==
    ASSUME IInv, Counters, TInv, dev' = dev, rx' = rx,
           active'["rx"] = active["rx"],
           \A b \in Buffers, h \in Half :
              mem[b][h] # Empty => mem'[b][h] # Empty
    PROVE  HalRx'
  <1>1. Active("rx")' = Active("rx") /\ Active("rx") \in Buffers
        /\ rx.target \in Buffers /\ 1 \in Half
    BY RxFacts DEF Active, RxStreams, Half
  <1> QED
    BY <1>1, TFacts DEF HalRx

LEMMA NextHalRx ==
    ASSUME IInv, Counters, TInv, Next
    PROVE  HalRx'
  <1> SUFFICES ASSUME dev = "hal" PROVE HalRx'
    <2>1. CASE dev # "hal"
      <3>1. dev' = dev
        BY DEF Next, ReceiveHalf, TransmitHalf, Handlers,
           DMA1_Stream5_IRQHandler, DMA1_Stream6_IRQHandler,
           DMA2_Stream5_IRQHandler, DMA2_Stream6_IRQHandler, ServeReception,
           ServeTransmission, HAL_UART_RxCpltCallback, uart_send_encrypted,
           spi_send_encrypted, Send, SendSteps, CallSend, AwaitTransmission,
           StartTransmission, arcfour_uart_send_encrypted_dma, GiveUp,
           EncryptHalf, uart_receive_decrypted, spi_receive_decrypted,
           hal_receive, CallReceive, ReceiveSteps, GetInactive, CopyHalf,
           ClearFlag, setup
      <3> QED
        BY <2>1, <3>1 DEF HalRx
    <2> QED
      BY <2>1
  <1>1. /\ rx.target = Active("rx") /\ (rx.running => ~rx.done)
        /\ rx.half = 1 => ~rx.done /\ mem[rx.target][1] # Empty
    BY TFacts DEF HalRx
  <1>2. CASE ReceiveHalf
    <2>1. /\ rx.running /\ ~rx.done /\ UNCHANGED <<dev, active>>
          /\ mem' = [mem EXCEPT ![rx.target][rx.half + 1] =
                        Raw(rx.block, rx'.key + rx.half)]
      BY <1>1, <1>2 DEF ReceiveHalf, setup
    <2>2. Active("rx")' = Active("rx")
      BY <2>1 DEF Active
    <2>3. CASE rx.half = 0
      <3>1. rx' = [rx EXCEPT !.half = 1, !.key = peer + 1]
        BY <1>2, <2>3 DEF ReceiveHalf
      <3>2. /\ rx'.half = 1 /\ rx'.done = rx.done /\ rx'.target = rx.target
            /\ rx'.running = rx.running
        BY <3>1, RxFacts DEF RxStreams
      <3>3. mem'[rx.target][1] # Empty
        BY <1>1, <2>1, <2>3, CellFacts, RxFacts DEF Half
      <3> QED
        BY <1>1, <2>1, <2>2, <3>2, <3>3 DEF HalRx
    <2>4. CASE rx.half = 1
      <3>1. rx' = [rx EXCEPT !.half = 0, !.block = @ + 1, !.done = TRUE,
                             !.target = IF dev = "hal" THEN @ ELSE Other(@),
                             !.running = dev # "hal"]
        BY <1>2, <2>4 DEF ReceiveHalf
      <3>2. /\ rx'.half = 0 /\ rx'.target = rx.target
            /\ rx'.running = (dev # "hal")
        BY <3>1, RxFacts DEF RxStreams
      <3>3. rx'.half = 0 /\ rx'.target = rx.target /\ ~rx'.running
        BY <3>2, Zenon
      <3>4. mem'[rx.target][1] # Empty /\ mem'[rx.target][2] # Empty
        BY <1>1, <2>1, <2>4, CellFacts, RxFacts DEF Half
      <3> QED
        BY <1>1, <2>1, <2>2, <3>3, <3>4 DEF HalRx, Half
    <2> QED
      BY <2>3, <2>4, RxFacts
  <1>3. CASE HAL_UART_RxCpltCallback
    <2>1. /\ rx.done
          /\ rx' = [rx EXCEPT !.done = FALSE, !.running = TRUE,
                              !.target = <<"rx", active'["rx"]>>]
      BY <1>3 DEF HAL_UART_RxCpltCallback
    <2>2. /\ rx'.half = rx.half /\ ~rx'.done
          /\ rx'.target = <<"rx", active'["rx"]>>
      BY <2>1, RxFacts DEF RxStreams
    <2>3. rx.half # 1 /\ Active("rx")' = <<"rx", active'["rx"]>>
      BY <1>1, <2>1 DEF Active
    <2> QED
      BY <2>2, <2>3 DEF HalRx
  <1>4. CASE ~ReceiveHalf /\ ~HAL_UART_RxCpltCallback
    <2>1. /\ UNCHANGED <<dev, rx, active>>
          /\ mem' = mem \/ EncryptHalf
      BY <1>4 DEF Next, TransmitHalf, Handlers, DMA1_Stream5_IRQHandler,
         DMA1_Stream6_IRQHandler, DMA2_Stream5_IRQHandler,
         DMA2_Stream6_IRQHandler, uart_send_encrypted, spi_send_encrypted,
         arcfour_uart_send_encrypted_dma, GiveUp, EncryptHalf,
         uart_receive_decrypted, spi_receive_decrypted, hal_receive,
         CallReceive, ReceiveSteps, GetInactive, CopyHalf, ClearFlag, setup
    <2>2. \A b \in Buffers, h \in Half :
             mem[b][h] # Empty => mem'[b][h] # Empty
      <3>1. CASE EncryptHalf
        <4>1. PICK c \in Cells \ {Empty}, h \in Half :
                 /\ mem' = [mem EXCEPT ![main.buffer][h] = c]
                 /\ main.buffer \in Buffers
          BY <3>1, EncryptedCell
        <4> QED
          BY <4>1, TFacts DEF CellsOK
      <3> QED
        BY <2>1, <3>1
    <2> QED
      BY <2>1, <2>2, QuietHalRx
  <1> QED
    BY <1>2, <1>3, <1>4

LEMMA NextTInv == IInv /\ Counters /\ TInv /\ [Next]_vars => TInv'
  <1> SUFFICES ASSUME IInv, Counters, TInv, [Next]_vars PROVE TInv'
    OBVIOUS
  <1>1. CASE Next
    BY <1>1, NextCells, NextCounts, NextHalRx DEF TInv
  <1>2. CASE UNCHANGED vars
    BY <1>2 DEF TInv, CellsOK, CountsOK, HalRx, Active, vars, setup
  <1> QED
    BY <1>1, <1>2

LEMMA TInvSuffices == IInv /\ Counters /\ TInv => TypeOK
  <1> SUFFICES ASSUME IInv, Counters, TInv PROVE TypeOK
    OBVIOUS
  <1>1. /\ rx.target \in Buffers /\ rx.half \in {0, 1} /\ rx.done \in BOOLEAN
        /\ rx.block \in 1 .. MaxBlocks + 1
    <2>1. rx.block \in Nat \ {0} /\ rx.block <= MaxBlocks + 1
      BY RxFacts, TFacts DEF CountsOK
    <2> QED
      BY <2>1, TFacts, RxFacts DEF RxStreams
  <1>2. tx.source \in Buffers /\ tx.half \in 0 .. tx.len
    BY TFacts DEF TxStreams, CountsOK
  <1>3. main.op \in {"idle", "send", "receive"}
    BY Kinds, TFacts DEF Types
  <1> QED
    BY <1>1, <1>2, <1>3, TFacts DEF TypeOK, Types, CellsOK

(* A handler never decrypts a half that nothing was put into, no message   *)
(* and no block beyond those that are sent is in a buffer, and no stream   *)
(* runs past its length.                                                   *)
THEOREM TypeCorrect == Spec => []TypeOK
  BY InitTInv, NextTInv, Inductive, TInvSuffices, PTL DEF Spec
=============================================================================
