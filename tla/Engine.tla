------------------------------ MODULE Engine ------------------------------
(***************************************************************************)
(* Engine.Ignite of src/engine/engine.go, seen from its caller: the set    *)
(* of outcomes one invocation can have.  The WebAssembly interpreter is a  *)
(* black box that burns gas under the policy and either returns or traps;  *)
(* the contract body is the token of module Token.  Cross-contract calls,  *)
(* events and argument marshalling are not modelled at this level.        *)
(***************************************************************************)
EXTENDS GasStation

CONSTANTS
    Decodable,     \* contract bytes that abi.DecodeContract accepts
    Functions,     \* Functions[c]: method names in the header of code c
    Size           \* Size[c]: len(tx.Payload.Contract) in cost units

(* An outcome of Ignite: the state after it, whether it returned an error, *)
(* whether the error was the VM running out of gas, and engine.gas.Used.  *)
Outcome(S, err, oog, gas) == [state |-> S, err |-> err, oog |-> oog, gas |-> gas]

(* What the invoked method does to the state (the token contract). *)
MethodEffect(S, addr, caller, method, arg) ==
    CASE method = "mint"     -> Mint(S, addr, caller, arg.amount)
      [] method = "transfer" -> Transfer(S, addr, caller, arg.to, arg.amount)
      [] OTHER               -> Result(TRUE, S)

(* Ignite(method, args) on the contract at addr under gasLimit.  Under the *)
(* free policy every instruction costs 0, so Used stays 0 and the VM never *)
(* runs out of gas.  Under the alpha policy a run that finishes has used   *)
(* between 1 and gasLimit, and a run can be cut short by the meter, which  *)
(* then reads gasLimit, after some or all of the method's writes.  Any    *)
(* error leaves its writes in the touched accounts; the caller reverts.    *)
Ignite(S, addr, caller, method, arg, gasLimit, policy) ==
    LET eff  == MethodEffect(S, addr, caller, method, arg)
        used == IF policy = "free" THEN {0} ELSE 1..gasLimit
    IN {Outcome(eff.state, ~eff.ok, FALSE, g) : g \in used}
       \cup (IF policy = "free" THEN {}
             ELSE {Outcome(s, TRUE, TRUE, gasLimit) : s \in {S, eff.state}})

=============================================================================
