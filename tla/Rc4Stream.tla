----------------------------- MODULE Rc4Stream -----------------------------
(***************************************************************************)
(* What a set of ARCFOUR contexts promises, with no S-box loop in sight.   *)
(* A context is "off" (no usable key), "busy" (being keyed or restarted)   *)
(* or "on"; when it is on, it is at position pos of the stream that begins *)
(* at the S-box start, and the only byte it can deliver next is the byte   *)
(* of that stream at that position.  Only a key begins the key's stream: a *)
(* restart begins one of its own.  Nothing another context does moves a    *)
(* context, and how a message is cut into calls does not show.             *)
(***************************************************************************)
EXTENDS Rc4

CONSTANTS
    Ctx,        \* the contexts
    Keys,       \* the keys the application uses
    Discard     \* bytes thrown away after every (re)start

VARIABLES
    mode,       \* mode[c] \in {"off", "busy", "on"}
    start,      \* start[c]: the S-box the stream of c began with
    pos,        \* pos[c]: bytes consumed since that start
    out         \* out[c]: the last byte c delivered, or NoByte

svars == <<mode, start, pos, out>>

NoByte == -1

StreamInit ==
    /\ mode = [c \in Ctx |-> "off"]
    /\ start = [c \in Ctx |-> Zeros]
    /\ pos = [c \in Ctx |-> 0]
    /\ out = [c \in Ctx |-> NoByte]

(* A key is being installed: the old stream is gone at once. *)
Rekey(c, key) ==
    /\ mode' = [mode EXCEPT ![c] = "busy"]
    /\ pos' = [pos EXCEPT ![c] = 0]
    /\ UNCHANGED out
    /\ start' = [start EXCEPT ![c] = KeyedSBox(key)]

(* A restart does not return to the beginning of the key's stream: it      *)
(* begins another one, at the S-box that the old one had reached.          *)
Restart(c) ==
    /\ mode[c] = "on"
    /\ mode' = [mode EXCEPT ![c] = "busy"]
    /\ start' = [start EXCEPT ![c] = After(start[c], pos[c]).S]
    /\ pos' = [pos EXCEPT ![c] = 0]
    /\ UNCHANGED out

(* The context becomes usable, Discard bytes into its stream. *)
Ready(c) ==
    /\ mode[c] = "busy"
    /\ mode' = [mode EXCEPT ![c] = "on"]
    /\ pos' = [pos EXCEPT ![c] = Discard]
    /\ UNCHANGED <<start, out>>

Deliver(c) ==
    /\ mode[c] = "on"
    /\ pos' = [pos EXCEPT ![c] = @ + 1]
    /\ out' = [out EXCEPT ![c] = StreamByte(start[c], pos[c] + 1)]
    /\ UNCHANGED <<mode, start>>

Pass(c) ==
    /\ mode[c] = "on"
    /\ pos' = [pos EXCEPT ![c] = @ + 1]
    /\ UNCHANGED <<mode, start, out>>

SwitchOff(c) ==
    /\ mode[c] # "busy"
    /\ mode' = [mode EXCEPT ![c] = "off"]
    /\ start' = [start EXCEPT ![c] = Zeros]
    /\ pos' = [pos EXCEPT ![c] = 0]
    /\ UNCHANGED out

(* A copy is at the same position of the same stream, and then on its own. *)
Fork(d, s) ==
    /\ mode[d] # "busy" /\ mode[s] # "busy"
    /\ mode' = [mode EXCEPT ![d] = mode[s]]
    /\ start' = [start EXCEPT ![d] = start[s]]
    /\ pos' = [pos EXCEPT ![d] = pos[s]]
    /\ UNCHANGED out

StreamNext ==
    \E c \in Ctx :
        \/ \E key \in Keys : Rekey(c, key)
        \/ Restart(c) \/ Ready(c) \/ Deliver(c) \/ Pass(c) \/ SwitchOff(c)
        \/ \E s \in Ctx \ {c} : Fork(c, s)

StreamSpec == StreamInit /\ [][StreamNext]_svars
=============================================================================
