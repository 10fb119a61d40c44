----------------------------- MODULE FileCrypt -----------------------------
(***************************************************************************)
(* arcfour_encrypt_file and arcfour_decrypt_file of arcfour_utils.c, each  *)
(* called again and again by a program of its own: one reads the file "in" *)
(* and writes "enc", the other reads "enc" and writes "out".  Meanwhile    *)
(* somebody edits "in", calls of the system fail, and either program may   *)
(* be killed at any step.                                                  *)
(*                                                                         *)
(* A file is a sequence of cells: the magic number, the nonce and the tag  *)
(* take one each, and so does every byte of the text.  What fwrite accepts *)
(* waits in a buffer of the stream and reaches the file cell by cell, at   *)
(* any time until fclose.                                                  *)
(***************************************************************************)
EXTENDS Aead, FiniteSets, SequencesExt

CONSTANTS
    Keys,     \* the keys in use, all of a legal length
    Nonces,   \* what generate_nonce may return
    Earlier,  \* the nonces of earlier encryptions
    Bytes,    \* the bytes of the text
    Texts,    \* the contents "in" may have at first
    Faults,   \* which system and library calls may fail
    MaxLen,   \* bound: "in" grows no longer than this
    Calls,    \* bound: Calls[p] calls of each program
    MaxTexts  \* bound: "in" has so many different contents

ASSUME FaultsAssumption ==
    Faults \subseteq {"open", "stat", "alloc", "intr", "io", "write", "close"}

ASSUME TextsAssumption ==
    \A text \in Texts :
        /\ Len(text) <= MaxLen
        /\ text \in Seq({text[n] : n \in DOMAIN text})
        /\ \A n \in DOMAIN text : text[n][1] = "byte"

ASSUME CallsAssumption == Calls \in [{"encrypt", "decrypt"} -> Nat]

VARIABLES
    file,      \* file[f]: the contents of f, or Missing
    pc,        \* pc[p]: the next step of the call p is in, or "idle"
    local,     \* local[p]: its arguments and what it has read
    heap,      \* heap[p]: the buffers it has allocated and not freed
    open,      \* open[p]: the streams it has opened and not closed
    ret,       \* ret[p]: what p's call returns at this step, or NoResult
    calls,     \* calls[p]: the calls it has made
    versions,  \* history: every contents "in" has had
    cut        \* history: "in" was cut while a program was reading it

vars == <<file, pc, local, heap, open, ret, calls, versions, cut>>

Program == {"encrypt", "decrypt"}

Missing == <<<<"missing">>>>
Magic == <<"magic">>
Junk == <<"junk">>         \* what malloc leaves in a buffer
Aad == "FILEAEAD"
HeaderSize == 3            \* magic number, nonce and tag

NoResult == [p \in Program |-> 1]

NoCall == [key |-> "none", size |-> 0, head |-> <<>>, data |-> <<>>,
           got |-> FALSE, err |-> "none",
           todo |-> <<>>, wbuf |-> <<>>, code |-> 0]

Encrypts(p) == p = "encrypt"

Input(p) == IF Encrypts(p) THEN "in" ELSE "enc"
Output(p) == IF Encrypts(p) THEN "enc" ELSE "out"

(* The buffer a call reads into, and the one it writes out of.             *)
Source(p) == IF Encrypts(p) THEN "plaintext" ELSE "ciphertext"
Target(p) == IF Encrypts(p) THEN "ciphertext" ELSE "plaintext"

(* What a finished encryption has written.                                 *)
Envelope(key, nonce, text) ==
    LET sealed == Seal(key, nonce, Aad, text)
    IN  <<Magic, nonce, sealed.tag>> \o sealed.cipher

(* What an earlier encryption has left: all it had to write, or a          *)
(* beginning of it.                                                        *)
Leftovers(text) ==
    {SubSeq(Envelope(key, nonce, text), 1, n) :
        key \in Keys, nonce \in Earlier, n \in 0 .. HeaderSize + Len(text)}

Init ==
    /\ \E text \in Texts : \E enc \in Leftovers(text) \cup {Missing} :
          /\ file = [in |-> text, enc |-> enc, out |-> Missing]
          /\ versions = {text}
    /\ pc = [p \in Program |-> "idle"]
    /\ local = [p \in Program |-> NoCall]
    /\ heap = [p \in Program |-> {}]
    /\ open = [p \in Program |-> {}]
    /\ ret = NoResult
    /\ calls = [p \in Program |-> 0]
    /\ cut = FALSE

-----------------------------------------------------------------------------
At(p, label) == pc[p] = label
Goto(p, label) == pc' = [pc EXCEPT ![p] = label]
Set(p, record) == local' = [local EXCEPT ![p] = record]
Allocate(p, b) == heap' = [heap EXCEPT ![p] = @ \cup {b}]
Free(p, bs) == heap' = [heap EXCEPT ![p] = @ \ bs]
Close(p, streams) == open' = [open EXCEPT ![p] = @ \ streams]

May(fault) == fault \in Faults

(* malloc of n cells; of none it may return NULL without an error.         *)
MallocFails(n) == May("alloc") \/ n = 0

(* A return, with what the path to it frees and closes.                    *)
Leave(p, code, buffers, streams) ==
    /\ Goto(p, "idle") /\ Set(p, NoCall)
    /\ Free(p, buffers) /\ Close(p, streams)
    /\ ret' = [NoResult EXCEPT ![p] = code]

Quiet == ret' = NoResult

history == <<calls, versions, cut>>

-----------------------------------------------------------------------------
(* Opening, measuring, allocating.                                         *)

Begin(p, key) ==
    /\ At(p, "idle") /\ calls[p] < Calls[p]
    /\ file[Input(p)] # Missing
    /\ Goto(p, IF Encrypts(p) THEN "size" ELSE "head")
    /\ Set(p, [NoCall EXCEPT !.key = key])
    /\ open' = [open EXCEPT ![p] = {"fin"}]
    /\ calls' = [calls EXCEPT ![p] = @ + 1]
    /\ UNCHANGED <<file, heap, versions, cut>> /\ Quiet

(* Bad arguments, or an input that cannot be opened.                       *)
Refused(p) ==
    /\ At(p, "idle")
    /\ Leave(p, -1, {}, {})
    /\ UNCHANGED <<file, history>>

(* The next cell of the input, read through the stream.                    *)
Offset(p) == Len(local[p].head) + Len(local[p].data)
More(p) == Offset(p) < Len(file[Input(p)])
NextCell(p) == file[Input(p)][Offset(p) + 1]

ReadHead(p) ==
    /\ At(p, "head") /\ More(p)
    /\ LET head == Append(local[p].head, NextCell(p))
       IN  IF head[1] # Magic
           THEN Leave(p, -1, {}, {"fin"})
           ELSE /\ Set(p, [local[p] EXCEPT !.head = head])
                /\ Goto(p, IF Len(head) = HeaderSize THEN "size" ELSE "head")
                /\ UNCHANGED <<heap, open>> /\ Quiet
    /\ UNCHANGED <<file, history>>

ReadHeadFails(p) ==
    /\ At(p, "head")
    /\ ~More(p) \/ May("intr") \/ May("io")
    /\ Leave(p, -1, {}, {"fin"})
    /\ UNCHANGED <<file, history>>

(* The size is asked of the path, not of what is read.                     *)
Size(p) ==
    /\ At(p, "size")
    /\ LET total == Len(file[Input(p)])
           taken == IF Encrypts(p) THEN 0 ELSE HeaderSize
       IN  IF total < taken
           THEN Leave(p, -1, {}, {"fin"})
           ELSE /\ Set(p, [local[p] EXCEPT !.size = total - taken])
                /\ Goto(p, "alloc")
                /\ UNCHANGED <<heap, open>> /\ Quiet
    /\ UNCHANGED <<file, history>>

SizeFails(p) ==
    /\ At(p, "size") /\ May("stat")
    /\ Leave(p, -1, {}, {"fin"})
    /\ UNCHANGED <<file, history>>

AllocSource(p) ==
    /\ At(p, "alloc")
    /\ Allocate(p, Source(p))
    /\ Goto(p, "read")
    /\ UNCHANGED <<file, local, open, history>> /\ Quiet

AllocSourceFails(p) ==
    /\ At(p, "alloc") /\ MallocFails(local[p].size)
    /\ Leave(p, -1, {}, {"fin"})
    /\ UNCHANGED <<file, history>>

-----------------------------------------------------------------------------
(* Reading.  encrypt_file calls fread until it has the size it was told;   *)
(* got says whether the current call has returned anything, err is the     *)
(* error indicator of the stream together with errno.                      *)

(* Mutant: the loop ends one fread late.                                   *)
ReadingPast(p) == At(p, "read") /\ Len(local[p].data) <= local[p].size

Reading(p) == At(p, "read") /\ Len(local[p].data) < local[p].size

ReadCell(p) ==
    /\ Reading(p) /\ More(p)
    /\ Set(p, [local[p] EXCEPT !.data = Append(@, NextCell(p)), !.got = TRUE])
    /\ UNCHANGED <<file, pc, heap, open, history>> /\ Quiet

(* The call ends short: it is repeated if it has brought something.        *)
AgainAfterSome(p, err) ==
    /\ Encrypts(p) /\ local[p].got
    /\ Set(p, [local[p] EXCEPT !.got = FALSE, !.err = err])
    /\ UNCHANGED <<pc, heap, open>> /\ Quiet

(* Mutant: every error is taken for an interruption.                       *)
RetriesAll(err) == err # "none"

Retries(err) == err = "intr"

AgainAfterNothing(p, err) ==
    /\ Encrypts(p) /\ ~local[p].got /\ Retries(err)
    /\ Set(p, [local[p] EXCEPT !.err = err])
    /\ UNCHANGED <<pc, heap, open>> /\ Quiet

(* decrypt_file calls fread once, and is content with nothing less.        *)
GiveUp(p, err) ==
    /\ Encrypts(p) => ~local[p].got /\ err # "none" /\ ~Retries(err)
    /\ Leave(p, -1, {Source(p)}, {"fin"})

(* The file is shorter than it was: the rest of the buffer stays as it is. *)
BreakOff(p, err) ==
    /\ Encrypts(p) /\ ~local[p].got /\ err = "none"
    /\ Set(p, [local[p] EXCEPT
                  !.data = [n \in 1 .. local[p].size |->
                               IF n <= Len(@) THEN @[n] ELSE Junk]])
    /\ UNCHANGED <<pc, heap, open>> /\ Quiet

Short(p, err) ==
    /\ \/ AgainAfterSome(p, err) \/ AgainAfterNothing(p, err)
       \/ GiveUp(p, err) \/ BreakOff(p, err)
    /\ UNCHANGED <<file, history>>

ReadEnd(p) ==
    /\ Reading(p) /\ ~More(p)
    /\ Short(p, local[p].err)

(* Bound: a stream is not interrupted twice in a row.                      *)
ReadInterrupted(p) ==
    /\ Reading(p) /\ May("intr") /\ local[p].err # "intr"
    /\ Short(p, "intr")

ReadError(p) ==
    /\ Reading(p) /\ May("io")
    /\ Short(p, "io")

ReadDone(p) ==
    /\ At(p, "read") /\ Len(local[p].data) = local[p].size
    /\ Close(p, {"fin"})
    /\ Set(p, [local[p] EXCEPT !.got = FALSE, !.err = "none"])
    /\ Goto(p, "target")
    /\ UNCHANGED <<file, heap, history>> /\ Quiet

-----------------------------------------------------------------------------
(* The authenticated encryption, on the whole text in memory.              *)

AllocTarget(p) ==
    /\ At(p, "target")
    /\ Allocate(p, Target(p))
    /\ Goto(p, "aead")
    /\ UNCHANGED <<file, local, open, history>> /\ Quiet

AllocTargetFails(p) ==
    /\ At(p, "target") /\ MallocFails(local[p].size)
    /\ Leave(p, -1, {Source(p)}, {})
    /\ UNCHANGED <<file, history>>

(* What is to be written goes to todo, one piece for each fwrite.          *)
SealText(p, nonce) ==
    /\ At(p, "aead") /\ Encrypts(p)
    /\ LET sealed == Seal(local[p].key, nonce, Aad, local[p].data)
       IN  Set(p, [local[p] EXCEPT !.data = <<>>, !.size = 0,
                      !.todo = << <<Magic>>, <<nonce>>, <<sealed.tag>>,
                                  sealed.cipher >>])
    /\ Free(p, {Source(p)})
    /\ Goto(p, "create")
    /\ UNCHANGED <<file, open, history>> /\ Quiet

Accepts(p) ==
    Verifies(local[p].key, local[p].head[2], Aad, local[p].data,
             local[p].head[3])

UnsealText(p) ==
    /\ At(p, "aead") /\ ~Encrypts(p) /\ Accepts(p)
    /\ Set(p, [local[p] EXCEPT !.head = <<>>, !.data = <<>>, !.size = 0,
                  !.todo = << Unseal(local[p].key, local[p].head[2],
                                     local[p].data) >>])
    /\ Free(p, {Source(p)})
    /\ Goto(p, "create")
    /\ UNCHANGED <<file, open, history>> /\ Quiet

(* Mutant: the path of a failed decryption frees one buffer.               *)
AeadFailsKeeping(p) ==
    /\ At(p, "aead")
    /\ May("alloc") \/ (~Encrypts(p) /\ ~Accepts(p))
    /\ Leave(p, -1, {Source(p)}, {})
    /\ UNCHANGED <<file, history>>

(* A context cannot be allocated, or the tag is not the one that was read. *)
AeadFails(p) ==
    /\ At(p, "aead")
    /\ May("alloc") \/ (~Encrypts(p) /\ ~Accepts(p))
    /\ Leave(p, -1, {Source(p), Target(p)}, {})
    /\ UNCHANGED <<file, history>>

-----------------------------------------------------------------------------
(* Writing.                                                                *)

Create(p) ==
    /\ At(p, "create")
    /\ file' = [file EXCEPT ![Output(p)] = <<>>]
    /\ open' = [open EXCEPT ![p] = {"fout"}]
    /\ Goto(p, "write")
    /\ UNCHANGED <<local, heap, history>> /\ Quiet

CreateFails(p) ==
    /\ At(p, "create") /\ May("open")
    /\ Leave(p, -1, {Target(p)}, {})
    /\ UNCHANGED <<file, history>>

Write(p) ==
    /\ At(p, "write") /\ local[p].todo # <<>>
    /\ Set(p, [local[p] EXCEPT !.wbuf = @ \o Head(local[p].todo),
                               !.todo = Tail(@)])
    /\ UNCHANGED <<file, pc, heap, open, history>> /\ Quiet

(* Mutant: the result of fwrite is not looked at.                          *)
FailedWriteUnseen(p, code) == 0

FailedWrite(p, code) == code

(* fwrite takes less than it was given: the buffer is freed, the stream is *)
(* closed with what it holds, and the call returns -1.                     *)
WriteFails(p) ==
    /\ At(p, "write") /\ local[p].todo # <<>> /\ May("write")
    /\ \E n \in 0 .. Len(Head(local[p].todo)) - 1 :
          Set(p, [local[p] EXCEPT !.todo = <<>>,
                     !.wbuf = @ \o SubSeq(Head(local[p].todo), 1, n),
                     !.code = FailedWrite(p, -1)])
    /\ Free(p, {Target(p)})
    /\ Goto(p, "close")
    /\ UNCHANGED <<file, open, history>> /\ Quiet

WriteDone(p) ==
    /\ At(p, "write") /\ local[p].todo = <<>>
    /\ Free(p, {Target(p)})
    /\ Goto(p, "close")
    /\ UNCHANGED <<file, local, open, history>> /\ Quiet

Flush(p) ==
    /\ pc[p] \in {"write", "close"} /\ local[p].wbuf # <<>>
    /\ file' = [file EXCEPT ![Output(p)] = Append(@, Head(local[p].wbuf))]
    /\ Set(p, [local[p] EXCEPT !.wbuf = Tail(@)])
    /\ UNCHANGED <<pc, heap, open, history>> /\ Quiet

(* fclose; its result is not looked at.                                    *)
CloseOutput(p) ==
    /\ At(p, "close")
    /\ \/ local[p].wbuf = <<>>
       \/ May("close") \/ local[p].code # 0
    /\ Leave(p, local[p].code, {}, {"fout"})
    /\ UNCHANGED <<file, history>>

-----------------------------------------------------------------------------
(* The rest of the world.                                                  *)

(* A program is killed; the system takes back its memory and its streams.  *)
Crash(p) ==
    /\ ~At(p, "idle")
    /\ Goto(p, "idle") /\ Set(p, NoCall)
    /\ Free(p, heap[p]) /\ Close(p, open[p])
    /\ UNCHANGED <<file, history>> /\ Quiet

Edit(text) ==
    /\ Cardinality(versions \cup {text}) <= MaxTexts
    /\ file' = [file EXCEPT !["in"] = text]
    /\ versions' = versions \cup {text}
    /\ UNCHANGED <<pc, local, heap, open, calls>> /\ Quiet

Grow ==
    /\ Len(file["in"]) < MaxLen
    /\ \E b \in Bytes : Edit(Append(file["in"], <<"byte", b>>))
    /\ UNCHANGED cut

Shrink ==
    /\ file["in"] # <<>>
    /\ Edit(Front(file["in"]))
    /\ cut' = (cut \/ \E p \in Program :
                         Encrypts(p) /\ pc[p] \in {"alloc", "read"})

Continue(p) ==
    \/ ReadHead(p) \/ ReadHeadFails(p) \/ Size(p) \/ SizeFails(p)
    \/ AllocSource(p) \/ AllocSourceFails(p)
    \/ ReadCell(p) \/ ReadEnd(p) \/ ReadInterrupted(p) \/ ReadError(p)
    \/ ReadDone(p)
    \/ AllocTarget(p) \/ AllocTargetFails(p)
    \/ \E nonce \in Nonces : SealText(p, nonce)
    \/ UnsealText(p) \/ AeadFails(p)
    \/ Create(p) \/ CreateFails(p)
    \/ Write(p) \/ WriteFails(p) \/ WriteDone(p) \/ Flush(p) \/ CloseOutput(p)

Next ==
    \/ \E p \in Program :
          \/ \E key \in Keys : Begin(p, key)
          \/ Refused(p) \/ Continue(p) \/ Crash(p)
    \/ Grow \/ Shrink

Spec == Init /\ [][Next]_vars

(* A program that has been called goes on.                                 *)
FairSpec == Spec /\ \A p \in Program : WF_vars(Continue(p))

-----------------------------------------------------------------------------
(* Properties.                                                             *)

Labels == {"idle", "head", "size", "alloc", "read", "target", "aead",
           "create", "write", "close"}

(* Every variable has its type; nothing is read or kept beyond the size    *)
(* that was measured (the loop of arcfour_utils.c:93).                     *)
TypeOK ==
    /\ DOMAIN file = {"in", "enc", "out"}
    /\ pc \in [Program -> Labels]
    /\ heap \in [Program -> SUBSET {"plaintext", "ciphertext"}]
    /\ open \in [Program -> SUBSET {"fin", "fout"}]
    /\ ret \in [Program -> {-1, 0, 1}]
    /\ \A p \in Program : calls[p] \in 0 .. Calls[p]
    /\ cut \in BOOLEAN
    /\ \A p \in Program :
          /\ Len(local[p].head) <= HeaderSize
          /\ Len(local[p].data) <= local[p].size
          /\ local[p].err \in {"none", "intr", "io"}

(* No path through the functions, whatever fails on it, keeps a buffer or  *)
(* a stream (the error paths of arcfour_utils.c:77-177 and 209-288).       *)
NothingLeft ==
    \A p \in Program :
        At(p, "idle") => heap[p] = {} /\ open[p] = {}

(* What a decryption has written, at any moment and after any crash, is a  *)
(* beginning of something the input once was: no mixture of two encrypted  *)
(* files, no text of a wrong key, nothing that was never there             *)
(* (arcfour_utils.c:266-288, aead_rc4.c:355-360).                          *)
OutputIsAVersion ==
    file["out"] = Missing \/ cut
        \/ \E text \in versions : IsPrefix(file["out"], text)

(* The text that a program with this key recovers from an encrypted file.  *)
Recovers(f, key, text) ==
    /\ Len(f) >= HeaderSize /\ f[1] = Magic
    /\ LET body == SubSeq(f, HeaderSize + 1, Len(f))
       IN  /\ Verifies(key, f[2], Aad, body, f[3])
           /\ Unseal(key, f[2], body) = text

Reports(p, code) == ~At(p, "idle") /\ At(p, "idle")' /\ ret'[p] = code

(* When a call reports success, the file is complete: an encrypted one     *)
(* can be decrypted to what the input was, a decrypted one is what the     *)
(* input was (the returns of arcfour_utils.c:182 and 293).                 *)
ZeroMeansWritten ==
    [][\A p \in Program :
          Reports(p, 0) /\ ~cut =>
             IF Encrypts(p)
             THEN \E text \in versions :
                     Recovers(file'["enc"], local[p].key, text)
             ELSE file'["out"] \in versions]_vars

(* An encryption whose input was cut after an interrupted read: the error  *)
(* indicator stays set, and errno stays EINTR, so the end of the file is   *)
(* taken for one more interruption.                                        *)
Spins(p) == Reading(p) /\ ~More(p) /\ local[p].err = "intr" /\ cut

(* Every call returns, but for that case (the loop of arcfour_utils.c:93). *)
CallsReturn ==
    \A p \in Program : ~At(p, "idle") ~> At(p, "idle") \/ Spins(p)
=============================================================================
