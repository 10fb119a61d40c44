------------------------------ MODULE DmaLink ------------------------------
(***************************************************************************)
(* An encrypted serial link over DMA: the UART and the SPI example         *)
(* (examples/arm/dma_uart_example.c, dma_spi_example.c) and the HAL        *)
(* functions of arm/arcfour_dma_arm.c, with the double buffers of          *)
(* arcfour_dma.c.  Three parties touch the same memory: the DMA streams,   *)
(* the interrupt handlers that decrypt in place, and the application's     *)
(* send and receive calls.                                                 *)
(*                                                                         *)
(* A buffer is two halves, each filled, read or copied in one step; what a *)
(* half holds is named by the block or the message it is of and by the     *)
(* piece of keystream, half a buffer long, that it was encrypted with.     *)
(* One context serves both directions, here and at the peer, so what a     *)
(* piece is used for depends on the order of what was sent and received.   *)
(* A half of a message stands for a stretch of it in which no completion   *)
(* falls between two rounds.  The streams are modelled as the comments at  *)
(* their configuration describe them.                                      *)
(***************************************************************************)
EXTENDS Integers, Sequences

CONSTANTS
    MaxBlocks,  \* bound: the blocks that the peer sends
    MaxSends,   \* bound: the send calls that the application makes
    MaxReads    \* bound: the receive calls that find a block

ASSUME BoundsAssumption ==
    MaxBlocks \in Nat /\ MaxSends \in Nat /\ MaxReads \in Nat

VARIABLES
    dev,        \* the program: "uart", "spi" or "hal"
    emptyEnds,  \* whether an empty transfer raises a completion interrupt
    ready,      \* ctx->initialized: the return of arcfour_init is ignored
    torn,       \* the generator is no longer a state of its stream
    spent,      \* the pieces that the context has delivered
    peer,       \* those that the peer's context has delivered
    crossed,    \* history: the blocks and messages that crossed another
    mem,        \* the halves of the four buffers
    active,     \* active_buffer of the two arcfour_dma_double_buffer_t
    complete,   \* g_rx_complete, g_tx_complete
    rx,         \* the reception stream
    tx,         \* the transmission stream
    main,       \* the application's call
    out,        \* history: the half that went out last
    last,       \* history: the last block delivered decrypted, per half
    gaveUp,     \* history: a send gave up after it had waited
    left        \* sends and reads that are left to the application

setup == <<dev, emptyEnds, ready>>

keys == <<spent, peer, crossed>>

vars == <<setup, torn, keys, mem, active, complete, rx, tx, main, out, last,
          gaveUp, left>>

Half == {1, 2}

Buffers == {"rx", "tx"} \X {0, 1}

(* The key is the piece that decrypts the half; 0 if there is none.        *)
Cell(dir, id, form, key) ==
    [dir |-> dir, id |-> id, form |-> form, key |-> key]

Empty == Cell("none", 0, "raw", 0)

Raw(block, key) == Cell("rx", block, "raw", key)

Idle == [op |-> "idle"]

(* arcfour_dma_get_active_buffer, arcfour_dma_get_inactive_buffer and      *)
(* arcfour_dma_double_buffer_swap.                                         *)
Active(dir) == <<dir, active[dir]>>

Inactive(dir) == <<dir, 1 - active[dir]>>

Swapped(dir) == [active EXCEPT ![dir] = 1 - @]

-----------------------------------------------------------------------------
(* The streams.  The reception stream of the examples has two targets and  *)
(* changes to the other one by itself; that of the HAL stops until it is   *)
(* started again.                                                          *)

UartRxStream == [target |-> <<"rx", 0>>, half |-> 0, block |-> 1, key |-> 0,
                 done |-> FALSE, running |-> TRUE]

SpiRxStream == UartRxStream

(* Enabled with nothing to transmit.                                       *)
UartTxStream == [source |-> <<"tx", 0>>, half |-> 0, len |-> 0,
                 done |-> emptyEnds, id |-> 0]

SpiTxStream == UartTxStream

(* arcfour_encrypt_dma refuses a context that is not keyed, and data that  *)
(* are not aligned; the buffers of the examples are.                       *)
Encrypting == main.op = "send" /\ main.at = "encrypt" /\ ready /\ main.aligned

Refused == main.op = "send" /\ main.at = "encrypt" /\ ~(ready /\ main.aligned)

(* What is encrypted at one end and not yet decrypted at the other, and    *)
(* what of it crosses if that goes both ways.  The HAL variant writes what *)
(* it sends over what it receives: that nothing of it crosses is noted.    *)
BlocksOnWay ==
    {<<"rx", block>> : block \in (IF rx.done THEN {rx.block - 1} ELSE {})
                           \cup (IF rx.half = 1 THEN {rx.block} ELSE {})}

MessagesOnWay ==
    {<<"tx", id>> : id \in (IF tx.half < tx.len THEN {tx.id} ELSE {})
                       \cup (IF Encrypting /\ main.half > 0 THEN {tx.id + 1}
                             ELSE {})}

Crossing(blocks, messages) ==
    IF blocks = {} \/ messages = {} \/ dev = "hal" THEN {}
    ELSE blocks \cup messages

(* The peer encrypts a block as it starts to send it, whatever it has      *)
(* received of us.                                                         *)
PeerEncrypts ==
    /\ peer' = peer + 2
    /\ crossed' = crossed \cup Crossing({<<"rx", rx.block>>}, MessagesOnWay)

(* Mutant: the targets do not alternate.                                   *)
OtherUp(buffer) == <<buffer[1], buffer[2] + 1>>

Other(buffer) == <<buffer[1], 1 - buffer[2]>>

(* The next half of a block arrives.  The last one raises the interrupt,   *)
(* which is served within the time of half a block.                        *)
ReceiveHalf ==
    /\ rx.running /\ rx.block <= MaxBlocks
    /\ rx.half = 1 => ~rx.done
    /\ IF rx.half = 0 THEN PeerEncrypts ELSE UNCHANGED <<peer, crossed>>
    /\ rx' = IF rx.half = 0 THEN [rx EXCEPT !.half = 1, !.key = peer + 1]
             ELSE [rx EXCEPT !.half = 0, !.block = @ + 1, !.done = TRUE,
                             !.target = IF dev = "hal" THEN @ ELSE Other(@),
                             !.running = dev # "hal"]
    /\ mem' = [mem EXCEPT ![rx.target][rx.half + 1] =
                  Raw(rx.block, rx'.key + rx.half)]
    /\ main' = IF rx.half = 1 /\ main.op = "receive"
               THEN [main EXCEPT !.calm = FALSE] ELSE main
    /\ UNCHANGED <<setup, gaveUp, torn, spent, active, complete, tx, out, last,
                   left>>

(* The next half of a message goes out.  The peer decrypts it once it is   *)
(* whole.                                                                  *)
TransmitHalf ==
    /\ tx.half < tx.len
    /\ out' = [cell |-> mem[tx.source][tx.half + 1],
               half |-> tx.half + 1, len |-> tx.len]
    /\ tx' = [tx EXCEPT !.half = @ + 1,
                     !.done = dev # "hal" /\ tx.half + 1 = tx.len]
    /\ peer' = IF tx.half + 1 < tx.len THEN peer ELSE peer + tx.len
    /\ UNCHANGED <<setup, gaveUp, torn, spent, crossed, mem, active, complete,
                   rx, main, last, left>>

-----------------------------------------------------------------------------
(* The interrupt handlers.                                                 *)

(* The generator breaks if the handler came inside a round of the          *)
(* application's own encryption.  Between two rounds it only takes its     *)
(* pieces out of the middle of the message.                                *)
Tears(now) ==
    \/ now = torn
    \/ Encrypting /\ main.half < main.len /\ now = TRUE

(* Only the piece that encrypted it decrypts a half.                       *)
Decrypted(cell, piece, broken) ==
    [cell EXCEPT !.form = IF cell.key = piece /\ ~broken THEN "plain"
                          ELSE "garbled",
                 !.key = 0]

(* Mutant: the length of half a block.                                     *)
DecryptHalfBlock ==
    /\ torn' \in BOOLEAN /\ Tears(torn')
    /\ mem' = [mem EXCEPT ![Active("rx")][1] =
                  IF ready THEN Decrypted(@, spent + 1, torn') ELSE @]
    /\ spent' = IF ready THEN spent + 1 ELSE spent
    /\ UNCHANGED <<peer, crossed>>

(* Both halves of the active buffer are decrypted, in place, with the next *)
(* pieces; by a context that is not keyed, nothing is.                     *)
DecryptActive ==
    /\ torn' \in BOOLEAN /\ Tears(torn')
    /\ IF ready
       THEN /\ mem' = [mem EXCEPT ![Active("rx")] =
                  [h \in Half |-> Decrypted(@[h], spent + h, torn')]]
            /\ spent' = spent + 2
       ELSE UNCHANGED <<mem, spent>>
    /\ UNCHANGED <<peer, crossed>>

ServeReception ==
    /\ rx.done /\ DecryptActive
    /\ rx' = [rx EXCEPT !.done = FALSE]
    /\ active' = Swapped("rx")
    /\ complete' = [complete EXCEPT !["rx"] = TRUE]
    /\ UNCHANGED <<setup, gaveUp, tx, main, out, last, left>>

DMA1_Stream5_IRQHandler == dev = "uart" /\ ServeReception

DMA2_Stream6_IRQHandler == dev = "spi" /\ ServeReception

(* Mutant: the next reception is started on the buffer just decrypted.     *)
RestartsBeforeSwap ==
    /\ dev = "hal" /\ rx.done /\ DecryptActive
    /\ active' = Swapped("rx")
    /\ rx' = [rx EXCEPT !.done = FALSE, !.running = TRUE]
    /\ complete' = [complete EXCEPT !["rx"] = TRUE]
    /\ UNCHANGED <<setup, gaveUp, tx, main, out, last, left>>

(* The HAL's reception is started again, on the buffer that is active now. *)
HAL_UART_RxCpltCallback ==
    /\ dev = "hal" /\ rx.done /\ DecryptActive
    /\ active' = Swapped("rx")
    /\ rx' = [rx EXCEPT !.done = FALSE, !.running = TRUE,
                        !.target = <<"rx", active'["rx"]>>]
    /\ complete' = [complete EXCEPT !["rx"] = TRUE]
    /\ UNCHANGED <<setup, gaveUp, tx, main, out, last, left>>

(* Mutant: the completion is acknowledged and forgotten.                   *)
ForgetTransmission ==
    /\ tx.done
    /\ tx' = [tx EXCEPT !.done = FALSE]
    /\ UNCHANGED <<setup, gaveUp, torn, keys, mem, active, complete, rx,
                   main, out, last, left>>

ServeTransmission ==
    /\ tx.done
    /\ tx' = [tx EXCEPT !.done = FALSE]
    /\ complete' = [complete EXCEPT !["tx"] = TRUE]
    /\ UNCHANGED <<setup, gaveUp, torn, keys, mem, active, rx, main, out,
                   last, left>>

DMA1_Stream6_IRQHandler == dev = "uart" /\ ServeTransmission

DMA2_Stream5_IRQHandler == dev = "spi" /\ ServeTransmission

-----------------------------------------------------------------------------
(* Sending.                                                                *)

Sending(at, buffer, len, aligned) ==
    [op |-> "send", at |-> at, buffer |-> buffer, len |-> len, half |-> 0,
     aligned |-> aligned]

(* A message that is too long is refused; any other waits for the one      *)
(* before it.                                                              *)
CallSend(len, aligned) ==
    /\ main = Idle /\ left.sends > 0
    /\ left' = [left EXCEPT !.sends = @ - 1]
    /\ main' = IF len > 2 THEN Idle
               ELSE Sending("wait", <<"tx", 0>>, len, aligned)
    /\ UNCHANGED <<setup, gaveUp, torn, keys, mem, active, complete, rx, tx,
                   out, last>>

Waits == main.op = "send" /\ main.at = "wait"

(* Mutants: nobody waits; the call waits for the stream's own flag, which  *)
(* the handler clears.                                                     *)
GoAhead ==
    /\ Waits
    /\ complete' = [complete EXCEPT !["tx"] = FALSE]
    /\ main' = [main EXCEPT !.at = "encrypt", !.buffer = Active("tx")]
    /\ UNCHANGED <<setup, gaveUp, torn, keys, mem, active, rx, tx, out, last,
                   left>>

AwaitStream ==
    /\ Waits /\ tx.done
    /\ main' = [main EXCEPT !.at = "encrypt", !.buffer = Active("tx")]
    /\ UNCHANGED <<setup, gaveUp, torn, keys, mem, active, complete, rx, tx,
                   out, last, left>>

AwaitTransmission ==
    /\ Waits /\ complete["tx"]
    /\ complete' = [complete EXCEPT !["tx"] = FALSE]
    /\ main' = [main EXCEPT !.at = "encrypt", !.buffer = Active("tx")]
    /\ UNCHANGED <<setup, gaveUp, torn, keys, mem, active, rx, tx, out, last,
                   left>>

(* Mutant: the data are refused after they were encrypted.                 *)
GiveUpLate ==
    /\ Refused
    /\ main' = Idle /\ gaveUp' = TRUE
    /\ spent' = IF ready THEN spent + main.len ELSE spent
    /\ UNCHANGED <<setup, torn, peer, crossed, mem, active, complete, rx, tx,
                   out, last, left>>

(* g_tx_complete stays cleared.                                            *)
GiveUp ==
    /\ Refused
    /\ main' = Idle /\ gaveUp' = TRUE
    /\ UNCHANGED <<setup, torn, keys, mem, active, complete, rx, tx, out, last,
                   left>>

(* The next half is encrypted with the next piece, whichever that is now.  *)
EncryptHalf ==
    /\ Encrypting /\ main.half < main.len
    /\ mem' = [mem EXCEPT ![main.buffer][main.half + 1] =
                  Cell("tx", tx.id + 1, IF torn THEN "garbled" ELSE "cipher",
                       spent + 1)]
    /\ spent' = spent + 1
    /\ crossed' = crossed \cup
          Crossing(BlocksOnWay, MessagesOnWay \cup {<<"tx", tx.id + 1>>})
    /\ main' = [main EXCEPT !.half = @ + 1]
    /\ UNCHANGED <<setup, gaveUp, torn, peer, active, complete, rx, tx, out,
                   last, left>>

Encrypted == Encrypting /\ main.half = main.len

Transmission(buffer, len) ==
    [source |-> buffer, half |-> 0, len |-> len,
     done |-> dev # "hal" /\ len = 0 /\ emptyEnds,
     id |-> IF len = 0 THEN tx.id ELSE tx.id + 1]

StartTransmission ==
    /\ Encrypted
    /\ tx' = Transmission(main.buffer, main.len)
    /\ active' = Swapped("tx")
    /\ main' = Idle
    /\ UNCHANGED <<setup, gaveUp, torn, keys, mem, complete, rx, out, last,
                   left>>

SendSteps == AwaitTransmission \/ GiveUp \/ EncryptHalf \/ StartTransmission

Send == \/ \E len \in 0 .. 3, aligned \in BOOLEAN : CallSend(len, aligned)
        \/ SendSteps

uart_send_encrypted == dev = "uart" /\ Send

spi_send_encrypted == dev = "spi" /\ Send

(* The HAL variant encrypts into the active buffer of its only double      *)
(* buffer, the reception's, and asks afterwards whether the transmitter is *)
(* free.                                                                   *)
arcfour_uart_send_encrypted_dma ==
    /\ dev = "hal"
    /\ \/ /\ main = Idle /\ left.sends > 0
          /\ \E len \in Half, aligned \in BOOLEAN :
                main' = Sending("encrypt", Active("rx"), len, aligned)
          /\ left' = [left EXCEPT !.sends = @ - 1]
          /\ UNCHANGED <<setup, gaveUp, torn, keys, mem, active, complete,
                         rx, tx, out, last>>
       \/ GiveUp \/ EncryptHalf
       \/ /\ Encrypted
          /\ tx' = IF tx.half < tx.len THEN tx    \* HAL_BUSY
                   ELSE Transmission(main.buffer, main.len)
          /\ main' = Idle
          /\ UNCHANGED <<setup, gaveUp, torn, keys, mem, active, complete,
                         rx, out, last, left>>

-----------------------------------------------------------------------------
(* Receiving.                                                              *)

(* A call that finds no block returns at once and changes nothing.         *)
CallReceive(len) ==
    /\ main = Idle /\ complete["rx"] /\ left.reads > 0
    /\ left' = [left EXCEPT !.reads = @ - 1]
    /\ main' = [op |-> "receive", at |-> "get", len |-> len,
                buffer |-> <<"rx", 0>>, got |-> <<>>, calm |-> ~rx.done]
    /\ UNCHANGED <<setup, gaveUp, torn, keys, mem, active, complete, rx, tx,
                   out, last>>

GetInactive ==
    /\ main.op = "receive" /\ main.at = "get"
    /\ main' = [main EXCEPT !.at = "copy", !.buffer = Inactive("rx")]
    /\ UNCHANGED <<setup, gaveUp, torn, keys, mem, active, complete, rx, tx,
                   out, last, left>>

CopyHalf ==
    /\ main.op = "receive" /\ main.at = "copy" /\ Len(main.got) < main.len
    /\ main' = [main EXCEPT !.got =
                   Append(@, mem[main.buffer][Len(@) + 1])]
    /\ UNCHANGED <<setup, gaveUp, torn, keys, mem, active, complete, rx, tx,
                   out, last, left>>

Copied == main.op = "receive" /\ main.at = "copy" /\ Len(main.got) = main.len

Delivered ==
    [h \in Half |-> IF h <= main.len /\ main.got[h].form # "raw"
                    THEN main.got[h].id ELSE last[h]]

(* Mutant: the flag stays up.                                              *)
KeepFlag ==
    /\ Copied
    /\ last' = Delivered
    /\ main' = Idle
    /\ UNCHANGED <<setup, gaveUp, torn, keys, mem, active, complete, rx, tx,
                   out, left>>

ClearFlag ==
    /\ Copied
    /\ complete' = [complete EXCEPT !["rx"] = FALSE]
    /\ last' = Delivered
    /\ main' = Idle
    /\ UNCHANGED <<setup, gaveUp, torn, keys, mem, active, rx, tx, out, left>>

ReceiveSteps == GetInactive \/ CopyHalf \/ ClearFlag

uart_receive_decrypted ==
    dev = "uart" /\ ((\E len \in Half : CallReceive(len)) \/ ReceiveSteps)

spi_receive_decrypted ==
    dev = "spi" /\ ((\E len \in Half : CallReceive(len)) \/ ReceiveSteps)

(* An application of the HAL functions, which reads as the examples do     *)
(* until it sends, and then has blocks and messages in the same buffers.   *)
hal_receive ==
    /\ dev = "hal"
    /\ \/ left.sends = MaxSends /\ \E len \in Half : CallReceive(len)
       \/ ReceiveSteps

-----------------------------------------------------------------------------
InitDoubleBuffers == active = [dir \in {"rx", "tx"} |-> 0]

Globals ==
    /\ emptyEnds \in BOOLEAN /\ ready \in BOOLEAN /\ torn = FALSE
    /\ spent = 0 /\ peer = 0 /\ crossed = {}
    /\ mem = [buffer \in Buffers |-> [h \in Half |-> Empty]]
    /\ complete = [dir \in {"rx", "tx"} |-> FALSE]
    /\ main = Idle
    /\ out = [cell |-> Empty, half |-> 0, len |-> 0]
    /\ last = [h \in Half |-> 0]
    /\ gaveUp = FALSE
    /\ left = [sends |-> MaxSends, reads |-> MaxReads]

uart_crypto_init ==
    dev = "uart" /\ InitDoubleBuffers /\ rx = UartRxStream /\ tx = UartTxStream

spi_crypto_init ==
    dev = "spi" /\ InitDoubleBuffers /\ rx = SpiRxStream /\ tx = SpiTxStream

(* The application has set the HAL up and started the first reception; the *)
(* HAL takes no empty transfer.                                            *)
hal_init ==
    /\ dev = "hal" /\ ~emptyEnds /\ InitDoubleBuffers
    /\ rx = UartRxStream /\ tx = [UartTxStream EXCEPT !.done = FALSE]

Init == Globals /\ (uart_crypto_init \/ spi_crypto_init \/ hal_init)

Handlers == \/ DMA1_Stream5_IRQHandler \/ DMA1_Stream6_IRQHandler
            \/ DMA2_Stream5_IRQHandler \/ DMA2_Stream6_IRQHandler
            \/ HAL_UART_RxCpltCallback

Next == \/ ReceiveHalf \/ TransmitHalf
        \/ Handlers
        \/ uart_send_encrypted \/ spi_send_encrypted
        \/ arcfour_uart_send_encrypted_dma
        \/ uart_receive_decrypted \/ spi_receive_decrypted \/ hal_receive

Spec == Init /\ [][Next]_vars

(* The hardware goes on, interrupts are served, and the processor runs.    *)
FairSpec == /\ Spec
            /\ WF_vars(TransmitHalf) /\ WF_vars(Handlers)
            /\ WF_vars(SendSteps)

-----------------------------------------------------------------------------
Cells == {Empty} \cup [dir : {"rx"}, id : 1 .. MaxBlocks,
                       form : {"raw", "plain", "garbled"}, key : Nat]
                 \cup [dir : {"tx"}, id : 1 .. MaxSends,
                       form : {"cipher", "garbled", "plain"}, key : Nat]

TypeOK ==
    /\ gaveUp \in BOOLEAN
    /\ dev \in {"uart", "spi", "hal"} /\ ready \in BOOLEAN /\ torn \in BOOLEAN
    /\ spent \in Nat /\ peer \in Nat
    /\ mem \in [Buffers -> [Half -> Cells]]
    /\ active \in [{"rx", "tx"} -> {0, 1}]
    /\ complete \in [{"rx", "tx"} -> BOOLEAN]
    /\ rx.target \in Buffers /\ rx.half \in {0, 1}
    /\ rx.block \in 1 .. MaxBlocks + 1 /\ rx.done \in BOOLEAN
    /\ tx.source \in Buffers /\ tx.len \in 0 .. 2 /\ tx.half \in 0 .. tx.len
    /\ main.op \in {"idle", "send", "receive"}

(* The HAL variant puts what it sends among what it receives.              *)
Mixed == dev = "hal" /\ left.sends < MaxSends

(* When a completion is to be served, the active buffer holds the block    *)
(* that has just come in, whole and not yet decrypted, and the stream      *)
(* writes elsewhere: what the handler decrypts in place is what arrived    *)
(* (dma_uart_example.c:167-192, dma_spi_example.c:163-188,                 *)
(* arcfour_dma_arm.c:32-56).                                               *)
HandlerFindsBlock ==
    rx.done /\ ~Mixed =>
        /\ LET key == mem[Active("rx")][1].key
           IN  mem[Active("rx")] =
                   [h \in Half |-> Raw(rx.block - 1, key + h - 1)]
        /\ rx.running => rx.target # Active("rx")

(* No half of a block, once a handler has decrypted it, reaches the        *)
(* application twice, and none after a later one, although the handler may *)
(* change buffers and raise the flag anywhere in the call                  *)
(* (dma_uart_example.c:267-282, dma_spi_example.c:253-268).                *)
NoBlockTwice ==
    Copied /\ ~Mixed =>
        \A h \in DOMAIN main.got :
            main.got[h].form # "raw" => main.got[h].id > last[h]

(* A copy during which no block was completed is of the newest block.  It  *)
(* is in plain, unless the context was never keyed or is broken, or the    *)
(* block crossed a message: with one context for both directions, neither  *)
(* is readable then, and all that follow are again                         *)
(* (dma_uart_example.c:185, 247, 267-282, dma_spi_example.c:181, 233,      *)
(* 253-268).                                                               *)
CalmCopyIsNewest ==
    Copied /\ main.calm /\ ~Mixed =>
        \A h \in DOMAIN main.got :
            /\ main.got[h].id = rx.block - 1
            /\ ready /\ ~torn /\ <<"rx", rx.block - 1>> \notin crossed =>
                   main.got[h].form = "plain"

(* A message of the examples that crossed no block is encrypted with the   *)
(* pieces that the peer's context comes to next: it can decrypt what goes  *)
(* out (dma_uart_example.c:185, 247, dma_spi_example.c:181, 233).          *)
MessageReadable ==
    /\ dev # "hal" /\ ~torn /\ tx.half < tx.len
    /\ <<"tx", tx.id>> \notin crossed
    => \A h \in 1 .. tx.len :
          mem[tx.source][h] = Cell("tx", tx.id, "cipher", peer + h)

(* The halves that follow each other on the wire: of one message, or the   *)
(* end of one and the start of the next.                                   *)
Follows(a, b) ==
    /\ b.cell.dir = "tx"
    /\ \/ b.half = a.half + 1 /\ b.cell.id = a.cell.id
       \/ a.half = a.len /\ b.half = 1 /\ b.cell.id = a.cell.id + 1

(* What the examples send goes out whole and in order: the buffer is not   *)
(* written while it is transmitted, and no transmission is cut off by the  *)
(* next (dma_uart_example.c:226-265, dma_spi_example.c:212-251).           *)
MessagesGoOutWhole == [][dev = "hal" \/ out' = out \/ Follows(out, out')]_vars

(* If an empty transfer completes and no send gave up, a send that waits   *)
(* does not wait for nothing: the flag is up, or the transmission that     *)
(* will raise it is under way (dma_uart_example.c:232-233,                 *)
(* dma_spi_example.c:218-219).                                             *)
NeverWaitsForNothing ==
    emptyEnds /\ ~gaveUp /\ Waits =>
        complete["tx"] \/ tx.done \/ tx.half < tx.len

(* Then every send returns (dma_uart_example.c:226-265,                    *)
(* dma_spi_example.c:212-251).                                             *)
SendsReturn == emptyEnds /\ ~gaveUp /\ main.op = "send" ~> main = Idle
=============================================================================
