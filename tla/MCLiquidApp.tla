---------------------------- MODULE MCLiquidApp ----------------------------
(***************************************************************************)
(* A model of LiquidApp for TLC: two users, the gas token deployed by u1  *)
(* as its first transaction (so GasToken = NewDeploymentAddress(u1, 0)),  *)
(* and a handful of transaction templates, each offered at every nonce    *)
(* and gas limit of the bounds.                                           *)
(***************************************************************************)
EXTENDS LiquidApp

CONSTANTS u1, u2, TokenCode, Garbage

MCUsers == {u1, u2}
MaxNonce == 2
MCGasLimits == {1, 2}
MCGasPrice == 18

MCGasToken == <<u1, 0>>
MCAddresses == MCUsers \cup {<<u, n>> : u \in MCUsers, n \in 0..MaxNonce}
(* The gas token's holders: the users and the fee collector. *)
MCStorageKeys == MCUsers \cup {MCGasToken}

MCDecodable == {TokenCode}
MCFunctions == [c \in {TokenCode, Garbage, NoContract} |->
                  IF c = TokenCode THEN {"init", "mint", "transfer", "get_balance"}
                                   ELSE {}]
MCSize == [c \in {TokenCode, Garbage, NoContract} |-> IF c = NoContract THEN 0 ELSE 1]

NoArg == [to |-> u1, amount |-> 0]
Template(sender, receiver, id, contract, arg) ==
    [sender |-> sender, receiver |-> receiver, id |-> id,
     contract |-> contract, arg |-> arg]

(* Deploy the token; mint; transfer both ways; a zero-id call to an      *)
(* address with no account, to the token, and to a plain account; a      *)
(* zero-id deploy of bytes that do not decode.                            *)
Templates ==
    { Template(u1, EmptyAddress, "init", TokenCode, NoArg),
      Template(u1, MCGasToken, "mint", NoContract, [to |-> u1, amount |-> 36]),
      Template(u1, MCGasToken, "transfer", NoContract, [to |-> u2, amount |-> 18]),
      Template(u2, MCGasToken, "transfer", NoContract, [to |-> u1, amount |-> 18]),
      Template(u2, <<u2, 0>>, NoMethod, NoContract, NoArg),
      Template(u2, MCGasToken, NoMethod, NoContract, NoArg),
      Template(u1, u2, NoMethod, NoContract, NoArg),
      Template(u2, EmptyAddress, NoMethod, Garbage, NoArg) }

MCTxs == { [sender |-> t.sender, receiver |-> t.receiver, id |-> t.id,
            contract |-> t.contract, arg |-> t.arg, nonce |-> n,
            gasLimit |-> g, gasPrice |-> MCGasPrice]
             : t \in Templates, n \in 0..MaxNonce, g \in MCGasLimits }

=============================================================================
