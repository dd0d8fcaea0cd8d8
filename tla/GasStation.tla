----------------------------- MODULE GasStation -----------------------------
(***************************************************************************)
(* Gas stations and policies of src/gas/: FreeStation (free_station.go)    *)
(* with FreePolicy, LiquidStation (liquid_station.go) with AlphaPolicy.    *)
(* A station is "free" or "liquid"; App.SetGasStation is the assignment    *)
(* of the new value by the caller of Switch.                               *)
(***************************************************************************)
EXTENDS Token

CONSTANTS
    GasToken,          \* App.gasContractAddress, the designated gas token
    MinimumGasPrice    \* minimumGasPrice of liquid_station.go

Stations == {"free", "liquid"}

(* GetPolicy: the free station prices everything at 0. *)
Policy(st) == IF st = "free" THEN "free" ELSE "alpha"

(* Policy.GetCostForContract(size). *)
CostForContract(policy, size) == IF policy = "free" THEN 0 ELSE size

(* App.GetGasContractToken: the token's account, NoAccount if absent. *)
GasContractToken(S) == LoadAccount(S, GasToken)

(* Station.Sufficient(addr, fee). *)
Sufficient(st, S, addr, fee) ==
    IF st = "free" THEN TRUE ELSE fee <= GetBalance(S, GasToken, addr)

(* Station.CheckGasPrice(price). *)
CheckGasPrice(st, price) ==
    IF st = "free" THEN price > 0 ELSE price >= MinimumGasPrice

(* Station.Burn(addr, fee): the liquid station moves the fee to the        *)
(* collector, the gas token contract's own address, through the token's    *)
(* transfer; a refused transfer makes Burn panic (ok = FALSE).             *)
Burn(st, S, addr, fee) ==
    IF st = "liquid" /\ fee > 0
    THEN Transfer(S, GasToken, addr, GasToken, fee)
    ELSE Result(TRUE, S)

(* Station.Switch: the free station hands over to the liquid station once *)
(* the gas token exists and its creator holds a positive balance.  The    *)
(* liquid station never switches.  Returns the station after the loop     *)
(* `for app.gasStation.Switch() {}` of BeginBlock.                        *)
Switch(st, S) ==
    IF /\ st = "free"
       /\ GasContractToken(S) # NoAccount
       /\ GetBalance(S, GasToken, GasContractToken(S).creator) > 0
    THEN "liquid"
    ELSE st

=============================================================================
