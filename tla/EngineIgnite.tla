---------------------------- MODULE EngineIgnite ----------------------------
(***************************************************************************)
(* What one Engine.Ignite promises its caller (src/engine/engine.go and   *)
(* spec section 4.6): the invocation runs to an end in a single step, and *)
(* its outcome -- returned, failed or panicked, the gas the shared meter  *)
(* read, the storage of every contract, the events in emission order --   *)
(* is one of the outcomes the call semantics allow.  Nested calls, the    *)
(* per-engine event lists and meters are not visible at this level.       *)
(***************************************************************************)
CONSTANTS
    Calls,          \* invocations: entry contract, method, gas limit, policy
    Outcomes(_),    \* Outcomes(c): the outcomes the semantics allow for c
    NoResult        \* result before Ignite returns

VARIABLES
    call,           \* the invocation
    result          \* NoResult, then the outcome

Init ==
    /\ call \in Calls
    /\ result = NoResult

(* Ignite returns. *)
Ignite ==
    /\ result = NoResult
    /\ result' \in Outcomes(call)
    /\ UNCHANGED call

Spec == Init /\ [][Ignite]_<<call, result>>

=============================================================================
