-------------------------- MODULE MCSharedContext --------------------------
(***************************************************************************)
(* Instances of SharedContext for TLC: two tasks and two handlers.         *)
(***************************************************************************)
EXTENDS SharedContext, TLC

CONSTANTS app, crypto, uart, timer

Bits == {<<1>>, <<0>>}

Priorities ==
    [a \in Actor |-> CASE a \in {app, crypto} -> Thread
                       [] a = uart -> 5
                       [] a = timer -> 3]

(* Every call is protected, the priority ones by the most urgent user.     *)
Protected ==
    app :> {"init", "isr"} @@ crypto :> {"priority"}
    @@ uart :> {"priority", "timeout"} @@ timer :> {"isr", "byte"}

Ceiling == [a \in Actor |-> 3]

(* The consumer of the queue and a handler use one context.                *)
Deferred == app :> {"init", "plain"} @@ uart :> {"isr"}
=============================================================================
