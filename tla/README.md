# A verification project for arcfour

This directory holds TLA+ specifications of the arcfour library, the TLC configurations that
model-check them, and theorems about them that TLAPS checks. Paths below are relative to the
repository's root; `ARCFOUR_*` names are the code's.

## 1. Inventory

| component | code | state | operations | modelled by |
|---|---|---|---|---|
| generator | `src/arcfour_static.c`, `src/arcfour_isr.c`, `src/common/arcfour_generic.c` | S-box, `i`, `j` | key schedule, keystream round | `Rc4`, `Rc4Stream` |
| static context | `src/arcfour_static.c` | `struct arcfour` with its flag | init, encrypt, decrypt, skip, reset, uninit | `ArcfourStatic` |
| heap context | `src/arcfour.c` | the same, allocated | init, uninit, copy, wrappers; `key_setup` | `ArcfourStatic` (not `key_setup`) |
| deferred queue | `src/arcfour_isr.c` 16-19, 173-248 | ring of 8 slots, head, tail | request, process, clear, count | `PendingQueue`, `DeferredQueue` |
| critical sections | `include/arcfour_port.h` 62-143 | PRIMASK, BASEPRI, the stack | enter, exit, per port | `PendingQueue` (PRIMASK), `SharedContext` (PRIMASK and BASEPRI) |
| interrupt-safe encryption | `src/arcfour_isr.c` 79-167, `src/arm/arcfour_isr_arm.c` | a context shared by a task and handlers | `encrypt_isr`, priority, timeout, byte variants | `SharedContext`, `Rc4Stream` |
| DMA buffers | `src/arcfour_dma.c`, `src/arm/arcfour_dma_arm.c` | two buffers and which is active, prepared keystream | swap, encrypt a buffer, prepare and XOR, completion callback, send | `DmaLink`, `ArmKernels` |
| DMA serial links | `examples/arm/dma_uart_example.c`, `dma_spi_example.c` | the streams, two completion flags | init, two interrupt handlers, send, receive | `DmaLink` |
| power management | `src/arcfour_power.c`, `src/arm/arcfour_power_arm.c` | hooks, time of last activity | power-aware calls, idle time, auto-sleep | `PowerAware` |
| power examples | `examples/arm/stm32l4_power_example.c`, `nrf52_power_example.c` | UART, contexts | callbacks, encryption test, main loop | `PowerAware` |
| RTOS example | `examples/arm/rtos_isr_example.c` | queue, semaphore, two contexts, static buffers | receiving handler, crypto task, application task, fast handler | `RtosIsr`, `DeferredQueue` |
| AEAD | `src/aead_rc4.c` | none between calls | encrypt, decrypt | `Aead` (not the Poly1305 arithmetic) |
| file utilities | `src/arcfour_utils.c` | files, buffers | encrypt and decrypt a file | `FileCrypt` |
| ARM kernels | `src/arm/arcfour_arm.c`, `arcfour_arm.S`, `arcfour_thumb2.S` | the generator | unrolled and assembly encryption | `ArmKernels` (not two functions of `arcfour_thumb2.S`) |
| bindings, other examples, tests, fuzzing, benchmark, build | `bindings/`, `examples/`, `test/`, `fuzz/` | | | not modelled (section 7) |

How they interact. Everything ends in the generator: the static context drives it, the heap context
is the static one behind `malloc`, AEAD and power management call the heap context, the file
utilities call AEAD on a whole file in memory. The interrupt-safe functions have their own copy of
the generator and wrap it in a critical section. The deferred queue lets a handler hand work to a
task, which encrypts outside any section; the RTOS example wakes that task with a binary semaphore.
In the DMA links the reception stream, the completion handler and the application share two buffers,
and both directions share one context. The power-aware calls wrap the heap context in callbacks of
the application, and the idle timer is reset from handlers too. The ARM kernels are alternatives to
the loop of `arcfour_static.c`, which a host chooses on its own.

What is hard in this code:

* interleavings: handlers preempt tasks and each other between any two accesses to the ring, the
  shared context, the DMA buffers or the activity time;
* the critical section macros differ per port, and they nest;
* checks made outside a section and used inside it (`arcfour_isr.c:206`);
* long call sequences on one context: reset, copy and skip in any order, on which sender and
  receiver must agree byte for byte;
* limits: the ring when it is full and when it wraps, index arithmetic modulo 256, a tick counter
  that wraps;
* waiting: a send that waits for a completion, a task that waits for a semaphore given once for
  several requests;
* partial failure: every call of the file functions may fail, with another list of things to
  release.

Only files persist. The file functions are the ones that are killed at any step, and meet what an
earlier run has left; everywhere else a crash loses everything and needs no recovery.

What makes each component correct:

* context: the S-box stays a permutation, the discarded prefix is never delivered, the byte
  delivered is the one of the context's stream at its position, and until a reset that stream is the
  key's;
* queue: a bounded FIFO; an accepted request is taken once, in order, unless cleared;
* sections: exclusion, and PRIMASK set exactly while somebody is inside;
* shared context: a round is never torn, a message never split, both mask registers clear again when
  nobody is in a call;
* DMA links: a handler decrypts the block that has just come in, whole, while the stream writes
  elsewhere; no block is read twice; what did not cross anything is readable at the other end; a
  message goes out whole; a send that waits gets its completion;
* RTOS example: no request waits behind a sleeping task, the context stands where the block in hand
  needs it, and the newest block always comes out decrypted;
* power: nothing leaks on any path, the idle time is right across a wrap, and the device sleeps
  again;
* kernels: a host can replace one kernel by another in the middle of a stream;
* AEAD and files: no plaintext before the tag is checked, no leak on a failing path, no partial
  output reported as a success.

## 2. Modules

| module | what it is |
|---|---|
| `Rc4` | the generator as operators over `0..N-1` (`N` is 256 in the code), and the reference stream as recursive functions |
| `Rc4Stream` | abstract: each context is at a position of a stream and can only deliver that stream's next byte |
| `ArcfourStatic` | the contexts, one loop iteration per step |
| `Rc4Proofs` | theorems about `Rc4` |
| `DeferredQueue` | abstract: a bounded FIFO |
| `PendingQueue` | the ring of `arcfour_isr.c` and the macros of `arcfour_port.h`, one shared access per step |
| `PendingQueueProofs` | theorems about it |
| `SharedContext` | the calls of `arcfour_isr.c` and `arm/arcfour_isr_arm.c` on one context that tasks and handlers share |
| `SharedContextProofs` | theorems about it |
| `Aead` | authenticated encryption as operators on cells |
| `FileCrypt` | the two file functions, the files, failing calls, an editor, crashes; uses `Aead` |
| `FileCryptProofs` | theorems about it |
| `ArmKernels` | the kernels of the ARM builds as functions on generators, and two hosts that use any two of them |
| `GeneratorProofs` | theorems about `ArcfourStatic` and `ArmKernels` |
| `DmaLink` | streams, handlers and application of the two serial examples and of the HAL functions |
| `DmaLinkProofs` | theorems about it |
| `PowerAware` | the power-aware API under the main loops of its two examples |
| `PowerAwareProofs` | theorems about it |
| `RtosIsr` | the RTOS example over `DeferredQueue` |
| `RtosIsrProofs` | theorems about it |
| `MCArcfourStatic`, `MCPendingQueue`, `MCSharedContext`, `MCFileCrypt`, `MCArmKernels` | the instances for TLC |

### ArcfourStatic

`gen[c]` holds the fields `S`, `i`, `j` of context `c`, `initialized[c]` its flag. `call[c]` says
which function is running on `c` and at which iteration. `base[c]`, `pos[c]` and `out[c]` are
history: the S-box at the last time `i` and `j` were zeroed, the rounds since, and the last byte
delivered. A function is a `Begin...` action (its tests, up to its first loop), one action per loop
iteration, and a last action (`InitDone`, `Return`). Calls on different contexts interleave freely;
calls on one context do not overlap, because these functions take no lock and leave it to the
caller. `Usable` says so, and that a heap context is used only between its init and its uninit.
Copying to a context that was never keyed, resetting one and re-keying one in use are allowed, as
the code allows them.

Abstractions: the plaintext (a ciphertext byte is plaintext xor keystream, so `out` is the keystream
byte); the identity fill and the clearing loop are one step (nothing can see them half done without
breaking the caller's side); NULL arguments and a failed `malloc` are `Ignored`, which changes
nothing.

### PendingQueue

`slots`, `head`, `tail` are `g_pending_queue` and its indices; `primask` is the register, `saved[a]`
the PRIMASK values actor `a` has pushed; `pc[a]`, `local[a]`, `ret[a]` belong to the call `a` is in.
Each access to a shared variable is a step, and so is each macro. An actor may step when no actor of
a higher level is busy (handlers run to completion) and when interrupts are enabled or it is itself
inside a section. Actors of equal level are threads that switch at any step. `Port` chooses the
macros: `"save"` is Cortex-M4 and M33 (save PRIMASK, restore it), `"enable"` is Cortex-M0, `"none"`
is the generic build. A request is a model value. Reading PRIMASK and disabling interrupts are two
instructions in the code and one step here: a handler that fires between them leaves PRIMASK as it
was. `OpenSection` and `CloseSection` are the application's own sections: the macros are public.

### SharedContext

`gen` and `initialized` are the context; `primask`, `basepri` the registers, `saved[a]` what actor
`a` has pushed; `task` the running task; `pc[a]`, `local[a]` the call `a` is in, with its loop
counter and registers. `base`, `pos`, `out` are history, as in `ArcfourStatic`. Here priorities are
the hardware's (0 is the most urgent), a handler starts if no mask holds its priority back, and runs
to its end before what it preempted goes on. Tasks are switched by the least urgent interrupt, which
a mask holds back like any other. A call is: the entry macro, the test of the flag, per byte a load
of `i`, its store, the store of `j`, the swap and the delivery, and the exit macro; the timeout
variant may leave between two bytes. `arcfour_init_isr` is the schedule in one step (its section is
closed or torn as a whole; the schedule itself is in `ArcfourStatic`), then one step per discarded
round, then the flag. `Port` is the build: on `"m4"` the priority variants use BASEPRI, on the
others they fall back to PRIMASK (`arcfour_isr.c:154-167`). `"none"` has no masks. The timeout and
byte variants do not test the flag; the model has them called on a keyed context only.

### Aead and FileCrypt

A cell of a file is a byte of text, or a whole magic number, nonce or tag. A masked cell carries the
stream (key and nonce) and the position it was masked with; masking again with the same bares it, as
the exclusive or does. The tag is a value that differs when stream, associated data or ciphertext
do: Poly1305 is idealised. Both functions start the text at byte 64 of the stream, after the
one-time key and 32 bytes that nobody uses.

The program `"encrypt"` reads `in` and writes `enc`, `"decrypt"` reads `enc` and writes `out`. The
two functions have the same shape (open, measure, allocate, read, allocate, AEAD, free, create,
write, free, close), so their steps share actions, and `Source` and `Target` say which buffer is
which. `heap[p]` and `open[p]` are what is allocated and opened, `ret` is the value returned by the
step just taken. Each call of the system or of the library is a step, and fails if its kind is in
`Faults`. `fread` is one step per cell, with the error indicator and `errno` in `err`; what `fwrite`
has accepted waits in `wbuf`, and `Flush` moves it at any time. `malloc` of nothing may return NULL,
so an empty file may be refused. A buffer that was not filled holds `Junk`. `Init` starts with what
an earlier encryption left in `enc`: all of it or a beginning. Each file has one program that writes
it. Bad arguments are `Refused`, and the keys in use are of a legal length.

### ArmKernels

A kernel is a function from a generator to a result (`Result`): the generator it leaves and one cell
per output byte, which says with which keystream byte it was combined, and which input byte it is
for. `Then` puts two results together, as the code's pointers move on from one piece to the next;
`Repeat` is a loop that does so with one kernel, and `Turns` the bare loop (`Loops` is the same,
taken by sixteens, which keeps TLC's recursion flat). The C kernels (`KsaArm`, `ByteArm`, `Xor4Arm`,
`Xor16Arm`, `EncryptArm`), the assembly (`ByteAsm`, `ByteThumb2`, `EncryptBlockAsm`) and the
functions of the DMA API (`EncryptDma`, `PrepareKeystream...`, `XorWithKeystream`, `XorBytes`)
follow the order in which the code reads and swaps. The state is two hosts, the message on its way,
where it began in the stream, and what became of it; `Encrypts` and `Decrypts` choose a kernel each.
Nothing in `arcfour.c` calls these kernels: they are what an application may put in its place.

### DmaLink

`mem` is the memory of the four buffers in halves, each half named by the block or message it is of,
by whether it is raw, plain, cipher or garbled, and by the piece of keystream it was encrypted with.
A piece is as long as half a buffer. `spent` and `peer` count the pieces that the two ends have
delivered: one context serves both directions, here as in the examples and at the peer, so a send
that falls between the encryption of a block over there and its decryption here uses the piece the
block was encrypted with, and the block comes out garbled. `crossed` is history: the blocks and
messages to which this happened. The peer is not in the repository; it is taken to encrypt a block
when it starts to send it and to decrypt a message when it has all of it. `rx` and `tx` are the
streams: target or source, how much is transferred, and whether a completion is to be served
(`done`). `dev` says whose code runs: the UART example, the SPI example, or the HAL functions of
`arm/arcfour_dma_arm.c`. A handler decrypts in place and swaps, in one step, as nothing preempts it
but the DMA itself, which writes another buffer; it may come between any two steps of the
application. A send waits for `g_tx_complete`, encrypts half by half, and starts the transmission; a
receive tests the flag, asks for the inactive buffer, copies half by half, and clears the flag. A
block takes longer to arrive than a handler to run (`ReceiveHalf`).

Where the code makes no promise the properties say so, by name: `Mixed` (the HAL send encrypts into
the buffer that is being received into), `gaveUp` (a send refused for its context or its alignment
has already cleared the flag, and the next one waits for ever), `emptyEnds` (the first send waits
for the completion of a transfer that was enabled with nothing to send), `crossed` (a block and a
message that were under way at once are unreadable at either end, and, as both ends have then used
the same number of pieces, what follows is readable again), and `torn` (both directions share a
context without a section, so a completion inside a round breaks the generator: then all that is
decrypted is `garbled`, and the model goes on with it). A completion between two rounds within a
half of a message is not split further: the message crosses the block either way. What goes wrong is
the same as between its halves.

### PowerAware

`main` is where the main loop is: the operation under way, what the low-battery handler said, and
the values of the idle-time computation, which reads `last_activity_ms` twice. An update of the last
activity is two steps, as it reads the tick and then stores it; `stale` is history: the stored time
is older than an activity that a handler had recorded in between. `tick` is what `get_tick_ms`
returns, modulo `TickMod`; `idle` is history, the time that has really passed. `uart` and `heap` are
what the callbacks switch and what is allocated. Every voltage may be read at any time. A print
while the UART is off is lost or hangs, as the driver has it (`Say`, place `"stuck"`). A build
without the heap (`staticOnly`) gives up in init after the before hook, and leaves the UART on.

### RtosIsr

The queue is the one of `DeferredQueue`, which `PendingQueue` implements (`ImplementsFifo`); here it
is instantiated, so the composition costs no ring. A request is processed in two halves, each once
and the first before the second. `received` and `output` are the handler's static
buffers; `served` counts the pieces of keystream the decryption context has delivered. A half of a
block carries the number of its data and of its keystream, and is decrypted when the two agree.
`mode = "bare"` is the build whose main loop processes the queue. `vAppTask` runs when the crypto
task, of higher priority, is blocked; each of its calls is one critical section.

## 3. Runs

| run | instance | checks |
|---|---|---|
| `static_safety` | N = 3, a static and a heap context, two keys (one byte, longer than the box), discard 1, calls of 0 and 2 bytes | type, permutation, counter, prefix, lock step, `ArcfourStatic` implements `Rc4Stream` |
| `static_reset` | the same | finding: what follows a reset is not the key's stream |
| `kernels` | N = 256, discard 256, messages of 1, 4, 5, 16 and 64 bytes, every pair of kernels | hosts in step, keystream of the compiled program, messages restored |
| `kernels_bulk` | the same, the three bulk kernels | finding: the 4-byte kernel does not decrypt what it encrypted |
| `queue_safety` | main loop and two nested handlers, Max = 3, own sections one deep | type, exclusion, masking, FIFO refinement, an accepted request is served |
| `shared_safety` | N = 3, two tasks, handlers of priority 5 and 3, all modes but the plain one, thresholds at 3 | exclusion, whole messages, masks, one stream |
| `shared_deferred` | a task that encrypts without a section, and a handler | finding: a round is torn |
| `file_safety` | one encryption, one decryption, two keys, a text of two bytes that is cut and grows again, all calls may fail but `fclose` | type, no leak, output is a version of the input, success means complete, calls return |
| `dma` | three blocks, two sends, two receives, the UART, SPI and HAL programs | type, handler and stream, no block twice, newest block readable, messages readable, whole messages, sends return |
| `power` | a counter of 16 ticks, timeouts 0, 3 and 5, one reset by a handler, both examples, with and without the heap | idle time, no leak, the device sleeps again and again |
| `power_battery` | a counter of 8 ticks, no resets | finding: the answer of the low-battery handler is read the wrong way round |
| `rtos` | queue of two, six blocks, three turns of the application, two fast calls, both builds | no lost wakeup, keystream in step, which blocks come out decrypted, the newest one does, verification, every request processed |

Why these bounds are enough. The generator treats all byte values alike, so a small N already has
every coincidence that matters (`i = j`, a wrap of each index, a key shorter and one longer than the
box), and the S-box with N = 3 has all six permutations; `MatchesProgram` in `kernels` ties the
operators to the real width: the loop and the kernels that agree with it deliver the bytes that the
compiled program delivers. Two contexts are what copy and lock step relate. `MaxPos` bounds only how
far a stream is followed, past both a wrap of `i` and several calls. A ring of three slots is empty,
half full, full and wrapped, and two pending requests can be swapped; three levels give a handler
that preempts a handler that preempts the main loop. For the shared context `MaxPos` = 5 leaves room
for messages of three actors in a row on each side of a re-keying, with a wrap of `i` at 3. Three
blocks fill each of the two reception buffers and overwrite the first one again; two sends make the
second wait for the first, or for one that gave up. A counter of sixteen ticks is more than twice
the longest idle period, so that an idle time that was computed over a wrap or from a stale activity
is told from a right one, and it wraps again and again in a run; the timeouts lie on both sides of
an operation's length. Six blocks on a queue of two let it fill, overflow, drain and fill again, and
three turns of the application show a first, a second and a later verification. Two bytes let a read
end short after something and after nothing, and a file be one cell short; one call of each
function, on what an earlier one has left, gives every overlap of a reader with a writer that
replaces the file. No bound limits the proofs: they hold for every value of it.

Deadlock is not checked in `kernels`, `dma`, `power` and `rtos`: there the bounds on messages,
blocks, time and turns run out, and then the model stops although the program would not.

Fairness. `PendingQueue`: interrupts come again and again, so the step of an actor that others may
preempt is enabled only from time to time; strong fairness says it is nevertheless executed, that
is, handlers leave the processor some time, as a system that meets its deadlines must. For the actor
that nothing preempts weak fairness does. The main loop is assumed to call `arcfour_process_pending`
for ever, as `examples/arm/rtos_isr_example.c:227-230` does, and sections that were opened to be
closed. `FileCrypt`: a program that has been called goes on, and a read does not fail for ever (an
interruption is not followed by another at once); nothing waits for another program. `DmaLink`: weak
fairness of the transmission, of the handlers and of the steps of a send, that is, the hardware goes
on, pending interrupts are served and the processor runs; the wait loop of a send itself has no time
limit, which is why `SendsReturn` is worth stating. `PowerAware`: time passes and the main loop
runs. `RtosIsr`: the crypto task, which has the highest priority of the tasks, runs when it can; the
others need no fairness.

Each property of a passing run has a mutant in `PROJECT.json`: a plausible slip in the code, written
next to the definition it replaces, that makes TLC report the property violated.

## 4. What the code does otherwise than its texts say

Each of the first four has a run in which TLC shows it.

1. `arcfour_xor_4_arm` (`src/arm/arcfour_arm.c:74`) gathers its result bytes from the low end and
   stores them low byte first, after it has built the keystream word high byte first. Output byte k
   is input byte 5-k: it does not decrypt what it encrypted, nor does the bulk function for a length
   that leaves four to fifteen bytes over. `test/test_arm_opt.c:114` expects a round trip.
2. `arcfour_init_power_aware` and `arcfour_encrypt_power_aware` (`src/arcfour_power.c:85`, 116) give
   up when the low-battery handler answers anything but 0; `include/arcfour_power.h:38` documents 0
   as abort. Both examples, and the default handler of `arm/arcfour_power_arm.c`, answer by the
   document.
3. `arcfour_process_pending` (`src/arcfour_isr.c:217`) encrypts outside any section. If a handler
uses the same context, a round is torn and the two sides of the stream part for good.
4. `arcfour_reset_static` (`src/arcfour_static.c:208`) keeps the permuted S-box and restarts the
indices over it. Its comment (line 194) says "Reset context to initial state (reuse same key)"; what
is delivered from then on is another stream (`Restart` in `Rc4Stream`). `static_reset` shows it. Two
contexts that reset at the same position still agree (`LockStep`).

The following are in the models too, as a behaviour or as a named exception of a property, without a
run of their own:

* `arcfour_process_pending` (`src/arcfour_isr.c:206`) does not repeat its test inside the section. A
  clear by a handler in between makes it take from an empty ring and go on to process what the clear
  discarded (`include/arcfour_isr.h:164` promises that it is not processed). No run has that clear:
  in `queue_safety` only the consumer clears, and the theorems `TakesPending` and `ImplementsFifo`
  have the assumption `OnlyConsumer`.
* A priority section with priority 0 (`include/arcfour_port.h:81`) writes 0 to BASEPRI, which
  switches masking off; `include/arcfour_isr.h:94` documents 0 as the highest threshold (`Shielded`
  excludes it).
* `arcfour_encrypt_file` and `arcfour_decrypt_file` ignore what `fclose` returns
  (`src/arcfour_utils.c:180`, 291): output that is still in the stream's buffer can be lost there,
  and they return 0 (`Faults` without `"close"`).
* An encryption whose input is cut after an interrupted read never returns (`Spins` in
  `CallsReturn`); one whose input is cut otherwise encrypts uninitialised memory and returns 0
  (`cut` in `OutputIsAVersion` and `ZeroMeansWritten`).
* The DMA links: `Mixed`, `gaveUp`, `emptyEnds`, `crossed` and `torn` (section 2). That a block and
  a message which cross cannot be read is a consequence of one context for both directions
  (`examples/arm/dma_uart_example.c:185`, 247; `dma_spi_example.c:181`, 233). A copy by the
  application may mix halves of two blocks, and a block that completes while it copies is forgotten
  with the flag it clears; no property excludes either. A send of the HAL variant has used up
  keystream before it learns that the peripheral is busy.
* `arcfour_should_sleep` reads the last activity twice (`src/arcfour_power.c:179`): a handler that
  resets it in between makes the idle time nearly the counter's whole range (`calm` in
  `IdleIsExact`). `arcfour_update_last_activity` (173) reads the tick and then stores it: a
  handler's newer update in between is overwritten by an older time, and the idle time is too long
  until the next update (`stale`). And the wrap formula supposes a counter that wraps at 2^32; the
  cycle counter scaled to milliseconds (`src/arcfour_power.c:26`) wraps earlier (`TickMod < Width`:
  the theorem has `TickMod = Width`).
* In the power examples a message printed after the before hook has switched the UART off is lost or
  hangs (`stuck`), and an init that gives up for want of a heap leaves the UART as the hook left it.
  The examples' `arcfour_read_battery_mv` is never called; the function that is called returns 0, so
  their batteries are never low.
* In the RTOS example the verification of `vAppTask` succeeds in the first turn only
  (`VerifiesOnlyFreshStream`), and a block dropped at a full queue puts the decryption out of step
  for good (`lost` in `KeystreamInStep`).
* `arcfour_byte_asm` and `arcfour_byte_thumb2` deliver the S-box byte at index i + j, not at S[i] +
  S[j], and the 16-byte C kernel reads its four keystream bytes only after all four swaps. Both are
  other streams than the loop's: they agree with themselves only (`Restorable` in
  `MessagesRestored`).
* With the generic port's empty macros the ring is no FIFO (`Port = "none"`), and the Cortex-M0
  macros end an outer section (`Port = "enable"`). The ring of 8 slots holds 7 requests.
* Both `arcfour_isr.c` and `arm/arcfour_isr_arm.c` define `arcfour_encrypt_isr_priority` on a
  Cortex-M4 or M33, so a build takes one of them; they mask alike on the M4, which is what is
  modelled.
* The expected bytes of `test_known_vector` are those of no discard count; `MatchesProgram` is taken
  from a compiled build instead.

## 5. Proofs

`Rc4Proofs`: swapping keeps a permutation a permutation and bytes bytes; each round of the schedule
and of the generator is a swap; `i` counts modulo `N`. Then what the recursive definitions of `Rc4`
compute. Induction over the rounds is an argument about a smallest counterexample (`LeastNumber`,
`Induction`, from the library's theorem that < on the naturals is well founded), stated over the set
of the good numbers. `RecursionExists` shows that a function defined by recursion exists; with it,
`AfterRounds` says that the state after n + 1 rounds is one round on the state after n, and
`KeyedRounds` that the key schedule is its N rounds.

`GeneratorProofs`, of the loops (`ArcfourStatic`), for every `N`, context set, key set and discard:

* `TypeCorrect`, `PermutationKept`, `CounterCorrect`, `PrefixDiscarded`. The last is not inductive
  alone: it needs that a discard loop at iteration `k` is at position `k`, and that a flag that is
  set belongs to a context that is keying, discarding or past the prefix.
* `InLockStep`, `ImplementsStreams`, the refinement, and `KeysStreamUntilReset`. The invariant
  (`SInv`) says that during the schedule's iteration `k` the S-box is what k rounds make of the
  identity, that otherwise the generator is the base after `pos` rounds, and that only a keyed
  context is encrypting or skipping. Under it each step is a step of `Rc4Stream` or leaves it
  unchanged. The theorems are about any interleaving of calls and any way to cut a message into
  calls. A stream of `Rc4Stream` begins with a keying, at the key's S-box, or with a reset, at the
  S-box that was reached. `KeysStreamUntilReset` says what the first kind is worth by itself: as
  long as nobody resets, every usable context is in the state of a key's stream (`KeyedInv`: only
  the end of a key schedule, and a copy, change what a usable context is based on). It is
  `ResetReusesKey`, which `static_reset` refutes, under the assumption that makes it true.

and of the kernels (`ArmKernels`), for every `N`, key, set of message lengths, and number of bytes
discarded:

* `ArmKeySchedule`: the rows of the C schedule are the rounds of the generator's, by induction over
  the rows, and the words it fills the S-box with are the identity.
* `HostsInStep`, `FaithfulOnStream` and `MessagesAreRestored`. The argument goes from small pieces
  to large ones. A loop satisfies its law (`TurnsLaw`: no turn is the start, one more turn is one
  more application), turns add up, and sixteens of turns are turns (`LoopsTurn`). A result can be
  `On` a generator (a round made for every cell), `Ordered` (each cell for its own input byte as
  well) or `Streaming` (each cell the byte of the stream); each of the three is kept when a piece
  that has it is put behind (`ThenOn`, `ThenOrdered`, `ThenStreaming`), so every loop over pieces
  keeps it. Then each kernel is looked at by itself: all are on the generator; the C byte kernel,
  the assembly block, the loop of the DMA API and its prepared keystream are streaming; the 16-byte
  kernel and the two assembly byte functions are ordered; the 4-byte kernel is not, and with it the
  bulk function. `DeliversLaw` collects this. `WordIsReversed` says what the 4-byte kernel does
  deliver: the right bytes of the stream for the right input bytes, last one first, from every
  generator. That is the cause of the finding of `kernels_bulk`.
* The invariant of the hosts (`HostInv`) says where the receiver is in the stream, that the sender
  is one message further, and that the message on its way is what its kernel makes of the receiver's
  generator. Without the last, nothing relates the cells on their way to the generator that is to
  decrypt them. `OnStream`, which `FaithfulOnStream` proves, is `MatchesProgram` without the vector:
  the bytes of a faithful kernel are those of the key's stream, at any place.

`PendingQueueProofs`, for every set of actors, levels, services, ring size and depth of nesting:
`TypeCorrect` for every port (with `InsideHoldsSection`: an actor at a label inside a section has a
value on its stack); and for the save-and-restore port

* `ExclusionHolds` and `MaskingBalanced`. Neither is inductive. An exit restores what was saved, so
  the proof needs the shape of every stack: the outermost section saved 0, every inner one saved 1
  (`Shaped`).
* `TakesPending`: if one actor alone consumes and clears, every take finds a request, although the
  loop test is outside the section. The invariant (`TakeInv`) says that a producer inside its
  section works on the current head and has room, and that the ring is not empty from the test to
  the take.
* `ImplementsFifo`, the refinement, under the same assumption. The queue is read off the ring: a
  request is in it from the store to `head` on, a take is the store to `tail`, and a clear empties
  it with the first of its two stores; every other step does not show. The invariant adds that what
  an actor has loaded inside its section is still true when it stores (`Known`), which holds because
  nobody else is inside. The rest is arithmetic modulo `Max`: a step of `head` appends to the
  sequence between the indices, a step of `tail` takes its first, and it is full when one slot is
  left.

`SharedContextProofs`, for every set of tasks and handlers, every priority assignment and mixture of
calls that is `Shielded`: the build has sections, nobody uses the functions without a section, and a
priority argument is not 0 and is at most as urgent a number as that of every other user (the
priority ceiling). `OneWorks`, `MasksCleared` and `MessagesAreWhole` follow from `SInv`: the mask of
the one section is in force over nothing (so it saved 0), and whoever else is in a call is a task,
or a handler preempted at its entry. Section 4 shows what happens when one of the conditions is
missing (point 3, and a section with priority 0); the instance of `shared_safety` satisfies them.

`ImplementsStream`, under the same conditions: the context is one stream of `Rc4Stream`, whatever
preempts what. A round of the generator is several assignments that a handler may fall between, so
the invariant (`GInv`) follows the assignments: the generator is what the rounds up to `pos` make of
the base, and as far into the next round as the label of the one actor that is in it says. `SInv`
gives that there is one at most.

`FileCryptProofs`, for every set of faults, keys, texts, edits, crashes and numbers of calls:

* `NothingIsLeft`. The invariant (`HoldInv`) is a table of what a program holds at each step; each
  action moves a program from one row to another, and each error path releases its row.
* `TypeCorrect`, `OutputGenuine` and `SuccessIsComplete`. The invariant (`FInv`) accounts for every
  piece of an output: what is in the file, then what waits in the stream's buffer, then what is
  still to be given to `fwrite` make up the whole, or, after a failed write, a beginning of it. What
  a decryption reads may mix several encryptions, as the other program truncates and rewrites the
  file between two reads. But a tag names one encryption, with its key, nonce and ciphertext, so a
  text whose tag agrees is what that encryption sealed. Nonces need not be fresh for this. It uses
  that `Mask` is its own inverse and `Tag` injective, which are lemmas about the model's operators,
  the second standing for the idealised Poly1305.
* `SuccessIsComplete` has the hypothesis that `fclose` does not fail. Section 4 shows that it is
  needed.

`DmaLinkProofs`, for every number of blocks, sends and receives:

* `HandlersDecryptBlocks`. The invariant (`RxInv`) says where the stream writes: into the active
  buffer, and from a completion to its service into the other one, and that the active buffer then
  holds the block that has come in.
* `WaitsEnd`. A completion is owed for every message that is not being encrypted (`TxInv`), and an
  example sends only from its transmission buffers (`SendInv`). What it says of the wait is a safety
  property; that the wait ends needs fairness and is checked (`SendsReturn`).
* `NoRepeats` and `CalmCopies`. The invariant (`BInv`) relates the numbers of the blocks in the two
  buffers to those the application has been given: what it was given is never newer than what was
  served, and older while the flag is up; what it copies is newer than what it was given, and the
  newest as long as no completion came. That it is in plain rests on `KInv` below.
* `MessagesReadable`, and the second half of `CalmCopies`. The invariant (`KInv`) is an account of
  the keystream: the pieces this end has delivered and those the peer has delivered differ by what
  is under way (`Balance`), so a block that crossed no message meets the piece it was encrypted with
  (`BlockKeys`), and a message that crossed no block is encrypted with those the peer comes to next
  (`MessageKeys`). A crossing changes which pieces a block or a message meets, and not how many are
  used: the account balances, and what follows is readable again.
* `WholeMessages`, an action property. The invariant (`WireInv`) says that the flag, a completion to
  be served, a transmission and an encryption exclude one another (`OnePhase`), that the halves
  still to go out are of the message being sent and those encrypted so far of the next (`Written`),
  and how what went out last stands to both (`OnTheWire`).
* `TypeCorrect`. What has to be shown is that a handler finds a whole block even when streams are
  mixed (`HalRx`), and that no message and no block beyond those sent is in a buffer.

`PowerAwareProofs`, for every counter modulus, set of timeouts and bound:

* `TurnsFree`. The invariant is where an operation has begun (`OpInv`) and where which context may
  be allocated (`HeapInv`).
* `IdleTimeExact`, for a counter that wraps where its width says (`TickMod = Width`): the tick is
  the last activity plus the time passed, or that less one wrap (`ClockInv`), so the code's two
  branches both give the time passed. It holds only while the stored time is that of the newest
  activity: the invariant says so of every state that is not `stale`, and during an update of the
  tick that was read. The theorem leaves out the turns in which a handler came between the two reads
  or the stored time was stale (`calm`).

`RtosIsrProofs`, for every capacity, length of message and number of blocks and turns:

* `WakeupKept` and `KeystreamFollows`. The second rests on `InOrder`: as long as nothing was
  dropped, what was served, is in hand and waits make up what has arrived, and the numbers in the
  queue follow each other.
* `NewestDecrypted`, an action property. The buffer always holds the newest block and the keystream
  stands at the block in hand; the two are the same block exactly if nothing waits behind it
  (`InOrder`) and nothing was dropped. A dropped block makes the two unequal for good.
* `LastDecrypted`. The two halves of the output are written at different times from a buffer that
  the handler overwrites. The invariant (`DInv`) compares what they are stamped with: the second
  half is never ahead of the first nor the first of the request in hand, and while the block in hand
  is the newest each half made of it holds that block, and once it is processed and nothing waits,
  both halves do.
* `FreshStreamOnly`. The invariant (`AppInv`) is that every turn leaves the context beyond the start
  of the stream, and that a decryption nobody disturbed begins at the start.

Assumptions on the constants are the named `ASSUME`s of the modules (sizes are positive, sets of
keys and actors are what the code can be given). Model-checked only:

* liveness, for which TLAPS has no rule under fairness: `EveryRequestServed`, `CallsReturn`,
  `SendsReturn`, `AlwaysSleepsAgain`, `EveryRequestRuns`;
* `MatchesProgram`, which is about one key and the eight bytes that the compiled program delivers
  for it. TLC computes them; no theorem about every key could.

## 6. Plan

What is left:

The bindings' object lifetime around the heap context, and `arcfour_key_setup`.

## 7. Not modelled

* The arithmetic of Poly1305 (`src/aead_rc4.c`), numbers of 130 bits: a tag is an injective function
  of what it covers.
* `arcfour_key_setup` and its `simple_hash` (`src/arcfour.c`): straight-line arithmetic with no
  state of its own. The self-tests in the same file are tests.
* `arcfour_ksa_thumb2` and `arcfour_xor_16_thumb2` (`src/arm/arcfour_thumb2.S`): their 32-bit
  counters are never wrapped, so they address memory beyond the S-box, of whose contents the source
  says nothing.
* `arcfour_dma_alloc_aligned` and its free, and the cache macros of the DMA functions: the macros
  are empty in the generic build, and the Cortex-M builds that fill them name maintenance operations
  those cores do not have, so there is no build whose caches could be modelled. `use_double_buffer`
  of the configuration is set by nothing in the repository.
* The register settings of the DMA streams, clocks and pins: the streams do what the comments beside
  the settings say.
* The nesting counter of `ARCFOUR_ISR_ENTER` and `ARCFOUR_ISR_EXIT`, which the library never reads;
  `arcfour_dwt_enable` and the bare setters of BASEPRI, which it never calls alone.
* The ADC readers of the power examples, which nothing calls, and `shared_resource_access_example`
  of the RTOS example, which nothing calls either.
* The other examples (`uart_isr`, `stm32f1`, `stm32f4`, `no_os`): they set up peripherals and run
  self-tests one call after another; the calls are those of `ArcfourStatic` and `SharedContext`.
* The language bindings (`bindings/`), thin wrappers around the heap context.
* Tests, the fuzzer, benchmarks and build files: they are not part of the program. They were read
  for what they say of it.
* Timing: how long a round or a section takes, and constant-time claims.
