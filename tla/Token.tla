------------------------------- MODULE Token -------------------------------
(***************************************************************************)
(* The gas token: the Go wrapper of src/token/token.go and the behaviour   *)
(* of the token contract it invokes.  The contract itself is WebAssembly   *)
(* that is not part of src/; its three methods are modelled from the spec  *)
(* (a balance per holder address kept in the contract's storage).          *)
(*                                                                         *)
(* token.invokeContract runs the method in a fresh Engine with the free    *)
(* policy and a gas limit of 0, so it can never run out of gas: an error   *)
(* can only come from the contract refusing the call.                      *)
(***************************************************************************)
EXTENDS StateStorage

(* A result of a state-changing call: did it succeed, and the state after. *)
Result(ok, S) == [ok |-> ok, state |-> S]

(* get_balance(addr): the holder's balance in the token's storage. *)
GetBalance(S, token, holder) == LoadAccount(S, token).storage[holder]

(* transfer(to, amount) called by caller: debit the caller, credit to.    *)
(* Refused when the caller's balance is too small.                         *)
Transfer(S, token, caller, to, amount) ==
    LET from == GetBalance(S, token, caller)
        S1   == SetStorage(S, token, caller, from - amount)
    IN IF from < amount
       THEN Result(FALSE, S)
       ELSE Result(TRUE, SetStorage(S1, token, to,
                                    GetBalance(S1, token, to) + amount))

(* mint(amount) called by caller: credit the caller. *)
Mint(S, token, caller, amount) ==
    Result(TRUE, SetStorage(S, token, caller,
                            GetBalance(S, token, caller) + amount))

=============================================================================
