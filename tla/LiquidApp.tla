----------------------------- MODULE LiquidApp -----------------------------
(***************************************************************************)
(* One node's ABCI application, src/consensus/: App with its StateStorage, *)
(* ChainStorage and gas station, driven by Tendermint through BeginBlock,  *)
(* CheckTx, DeliverTx and Commit.  Tendermint's local client serialises    *)
(* the calls, so each handler is one atomic step.  The proposer may be     *)
(* Byzantine, so DeliverTx is offered every transaction of Txs; the node   *)
(* process can crash between two calls and is restarted by NewApp.         *)
(*                                                                         *)
(* A transaction is a record [sender, nonce, receiver, id, contract, arg,  *)
(* gasLimit, gasPrice]; receiver = EmptyAddress deploys tx.contract and    *)
(* id = NoMethod is the zero MethodID.  Signatures are abstracted away:    *)
(* every transaction of Txs is signed by its sender.                       *)
(***************************************************************************)
EXTENDS Engine, Sequences

CONSTANTS
    Txs,            \* transactions a proposer or a client can submit
    EmptyAddress,   \* crypto.EmptyAddress
    NoMethod,       \* the zero MethodID
    NoBlock,        \* ChainStorage.CurrentBlock before any ComposeBlock
    MaxHeight,      \* bound on committed blocks (model bound)
    MaxBlockTxs,    \* bound on DeliverTx calls per block (model bound)
    CrashSites      \* where the process may be killed: "call" (between two
                    \* ABCI calls), "commit" (inside Commit)

VARIABLES
    up,         \* the node process is running
    loaded,     \* StateStorage.stateTrie is set (a LoadState ran)
    state,      \* App.State, a StateStorage record
    station,    \* App.gasStation
    block,      \* ChainStorage.CurrentBlock and its tx/receipt tries
    chain,      \* committed blocks, persisted in chain.db
    meta,       \* MetaStorage (meta.db): latest height, height -> block
    panics      \* sites where the node panicked

vars == <<up, loaded, state, station, block, chain, meta, panics>>

(* crypto.NewDeploymentAddress(sender, nonce). *)
NewDeploymentAddress(sender, nonce) == <<sender, nonce>>

(* The state trie of GenesisBlock: EmptyHash, no account. *)
GenesisState == [a \in Addresses |-> NoAccount]

(* crypto.NewEmptyBlock(parent.Hash(), parent.Height+1), with empty tx    *)
(* and receipt tries.  txs is the tx trie, keyed by transaction hash, so   *)
(* it is a set.                                                            *)
EmptyBlock(height) == [height |-> height, txs |-> {}, receipts |-> <<>>]

(* Info: the height MetaStorage.LatestBlockHeight reports, 0 (the genesis *)
(* height) while meta.db holds none, and the block stored for it.          *)
InfoHeight == meta.latest

(* The block Tendermint names in BeginBlock's header.  After the Info      *)
(* handshake Tendermint replays from the height Info reported, and in a    *)
(* run without restart that height is the last block committed; either    *)
(* way the parent is the block at InfoHeight.                              *)
ParentStored == InfoHeight <= Len(chain)
ParentStateRoot ==
    IF InfoHeight = 0 THEN GenesisState ELSE chain[InfoHeight].stateRoot

(* StoreBlockMetas: the latest height, when the block is higher.  The     *)
(* height -> hash index is read by Info only for the hash it reports,     *)
(* which names the block at that height; the tx -> height and tx ->       *)
(* receipt indexes are not read by the app.  Both are left out.            *)
StoreBlockMetas(m, h) ==
    [latest |-> IF h > m.latest THEN h ELSE m.latest]

(* ChainStorage.Commit: the block is stored under its hash.  Of a stored  *)
(* block the model keeps its state root, the one thing the node reads     *)
(* back (BeginBlock), and the station that executed it (history).  A      *)
(* block replayed at a height already stored replaces it there.           *)
StoredBlock(S) == [stateRoot |-> Root(Commit(S)), station |-> station]
ChainCommit(c, h, S) ==
    IF h = Len(c) + 1 THEN Append(c, StoredBlock(S))
    ELSE [c EXCEPT ![h] = StoredBlock(S)]

NonceOf(S, a) ==
    IF LoadAccount(S, a) = NoAccount THEN 0 ELSE LoadAccount(S, a).nonce

(* validateTx (transaction.go): nonce, method id against the receiver's or *)
(* the deployed contract's header, fee and gas price.  The version,        *)
(* signature and argument checks hold for every member of Txs.             *)
ValidateTx(st, S, tx) ==
    /\ tx.nonce = NonceOf(S, tx.sender)
    /\ tx.id # NoMethod =>
         IF tx.receiver # EmptyAddress
         THEN LET acc == LoadAccount(S, tx.receiver)
              IN /\ acc # NoAccount
                 /\ IsContract(acc)
                 /\ acc.contract \in Decodable
                 /\ tx.id \in Functions[acc.contract]
         ELSE /\ tx.contract \in Decodable
              /\ tx.id \in Functions[tx.contract]
    /\ Sufficient(st, S, tx.sender, tx.gasLimit * tx.gasPrice)
    /\ CheckGasPrice(st, tx.gasPrice)

(* Seeded fault: increaseNonce creates the account without looking. *)
IncreaseNonceAlwaysCreate(S, addr) ==
    SetNonce(CreateAccount(S, addr, addr, NoContract), addr, 1)

(* increaseNonce: create the sender's account on its first tx (creator =   *)
(* itself, no code), then bump its nonce.                                  *)
IncreaseNonce(S, addr) ==
    LET S1 == IF LoadAccount(S, addr) = NoAccount
              THEN CreateAccount(S, addr, addr, NoContract)
              ELSE S
    IN SetNonce(S1, addr, LoadAccount(S1, addr).nonce + 1)

(* The result of applyTransaction: the panic site ("none" when it         *)
(* returned), the state after it and the receipt.                          *)
Receipt(tx, code, gas, post) ==
    [tx |-> tx, code |-> code, gasUsed |-> gas, post |-> post, index |-> 0]
Returned(S, r) == [panic |-> "none", state |-> S, receipt |-> r]
Panicked(site, S) ==
    [panic |-> site, state |-> S, receipt |-> Receipt(NoMethod, "none", 0, ZeroHash)]

(* A receipt returned before any state change: PostState is left zero.    *)
EarlyReturn(S, tx, code, gas) == Returned(S, Receipt(tx, code, gas, ZeroHash))

(* The common tail of deployContract and invokeContract: increaseNonce,   *)
(* Burn the fee, PostState = State.Hash().  A failed Burn panics.          *)
Settle(st, S, tx, code, gas) ==
    LET S1 == IncreaseNonce(S, tx.sender)
        b  == Burn(st, S1, tx.sender, gas * tx.gasPrice)
        S2 == Hash(b.state)
    IN IF b.ok THEN Returned(S2, Receipt(tx, code, gas, Root(S2)))
               ELSE Panicked("burn", b.state)

(* Seeded fault: no fee re-check after a successful Ignite. *)
AfterIgniteNoRecheck(st, tx, o, gas) ==
    IF o.err THEN Settle(st, Revert(o.state), tx, "IgniteError", gas)
             ELSE Settle(st, o.state, tx, "OK", gas)

(* After Ignite: an error reverts and charges the gas used; a fee the     *)
(* sender can no longer pay reverts and charges the whole gas limit.       *)
AfterIgnite(st, tx, o, gas) ==
    IF o.err THEN Settle(st, Revert(o.state), tx, "IgniteError", gas)
    ELSE IF ~Sufficient(st, o.state, tx.sender, gas * tx.gasPrice)
         THEN Settle(st, Revert(o.state), tx, "OutOfGas", tx.gasLimit)
         ELSE Settle(st, o.state, tx, "OK", gas)

(* Seeded fault: init is given the whole gas limit, not what the code *)
(* cost leaves. *)
DeployContractFullLimit(st, S, tx) ==
    LET policy == Policy(st)
        cost   == CostForContract(policy, Size[tx.contract])
        caddr  == NewDeploymentAddress(tx.sender, tx.nonce)
        S1     == CreateAccount(S, tx.sender, caddr, tx.contract)
    IN IF tx.gasLimit < cost THEN {EarlyReturn(S, tx, "OutOfGas", cost)}
       ELSE IF tx.contract \notin Decodable THEN {Panicked("deliver", S)}
       ELSE IF tx.id # "init" THEN {Settle(st, S1, tx, "OK", cost)}
       ELSE IF "init" \notin Functions[tx.contract] THEN {Panicked("deliver", S1)}
       ELSE {AfterIgnite(st, tx, o, cost + o.gas) :
               o \in Ignite(S1, caddr, tx.sender, "init", tx.arg,
                            tx.gasLimit, policy)}

(* deployContract (execution.go). *)
DeployContract(st, S, tx) ==
    LET policy == Policy(st)
        cost   == CostForContract(policy, Size[tx.contract])
        caddr  == NewDeploymentAddress(tx.sender, tx.nonce)
        S1     == CreateAccount(S, tx.sender, caddr, tx.contract)
    IN IF tx.gasLimit < cost THEN {EarlyReturn(S, tx, "OutOfGas", cost)}
       ELSE IF tx.contract \notin Decodable THEN {Panicked("deliver", S)}
       ELSE IF tx.id # "init" THEN {Settle(st, S1, tx, "OK", cost)}
       ELSE IF "init" \notin Functions[tx.contract] THEN {Panicked("deliver", S1)}
       ELSE {AfterIgnite(st, tx, o, cost + o.gas) :
               o \in Ignite(S1, caddr, tx.sender, "init", tx.arg,
                            tx.gasLimit - cost, policy)}

(* invokeContract (execution.go).  GetContract of an account without code *)
(* fails to decode and panics.                                             *)
InvokeContract(st, S, tx) ==
    LET acc == LoadAccount(S, tx.receiver)
    IN IF acc = NoAccount THEN {EarlyReturn(S, tx, "ContractNotFound", 0)}
       ELSE IF acc.contract \notin Decodable THEN {Panicked("deliver", S)}
       ELSE IF tx.id \notin Functions[acc.contract]
            THEN {EarlyReturn(S, tx, "MethodNotFound", 0)}
       ELSE {AfterIgnite(st, tx, o, o.gas) :
               o \in Ignite(S, tx.receiver, tx.sender, tx.id, tx.arg,
                            tx.gasLimit, Policy(st))}

ApplyTransaction(st, S, tx) ==
    IF tx.receiver = EmptyAddress THEN DeployContract(st, S, tx)
                                  ELSE InvokeContract(st, S, tx)

(***************************************************************************)
(* The ABCI handlers.                                                      *)
(***************************************************************************)

(* The process stops.  Its memory is gone: App.State, the current block   *)
(* and the station are what NewApp builds on the restart (no trie, no     *)
(* block, a FreeStation); only chain.db survives.                         *)
Down ==
    /\ up' = FALSE
    /\ loaded' = FALSE
    /\ state' = LoadState(GenesisState)
    /\ station' = "free"
    /\ block' = NoBlock
    /\ UNCHANGED <<chain, meta>>

(* The node dies at a panic: nothing after the panic site runs.           *)
Panic(site) ==
    /\ Down
    /\ panics' = panics \cup {site}

Init ==
    /\ up = TRUE
    /\ loaded = FALSE
    /\ state = LoadState(GenesisState)
    /\ station = "free"
    /\ block = NoBlock
    /\ chain = <<>>
    /\ meta = [latest |-> 0]
    /\ panics = {}

(* BeginBlock: MustGetBlock(parent) (a panic if chain.db lacks it), load  *)
(* its state, compose the new block, then `for app.gasStation.Switch() {}`.*)
BeginBlock ==
    /\ up
    /\ block = NoBlock
    /\ InfoHeight < MaxHeight
    /\ IF ParentStored
       THEN /\ state' = LoadState(ParentStateRoot)
            /\ station' = Switch(station, LoadState(ParentStateRoot))
            /\ block' = EmptyBlock(InfoHeight + 1)
            /\ loaded' = TRUE
            /\ UNCHANGED <<up, chain, meta, panics>>
       ELSE Panic("beginblock")

(* CheckTx runs validateTx on App.State and changes nothing; before the   *)
(* first LoadState the state trie is nil and LoadAccount panics.           *)
CheckTx(tx) ==
    /\ up
    /\ IF loaded THEN UNCHANGED vars
                 ELSE Panic("checktx")

(* DeliverTx: a transaction validateTx refuses is answered NotOK and has  *)
(* no effect; otherwise applyTransaction, State.Commit and                 *)
(* AddTransactionWithReceipt with Index = len(receipts).                   *)
DeliverTx(tx) ==
    /\ up
    /\ block # NoBlock
    /\ Len(block.receipts) < MaxBlockTxs
    /\ ValidateTx(station, state, tx)
    /\ \E o \in ApplyTransaction(station, state, tx) :
         IF o.panic # "none"
         THEN Panic(o.panic)
         ELSE /\ state' = Commit(o.state)
              /\ block' = [block EXCEPT !.txs = @ \cup {tx},
                           !.receipts = Append(@,
                               [o.receipt EXCEPT !.index = Len(block.receipts)])]
              /\ UNCHANGED <<up, loaded, station, chain, meta, panics>>

(* Commit: Chain.Commit(State.Commit()), then Meta.StoreBlockMetas.  The   *)
(* model's block' = NoBlock stands for Tendermint's next BeginBlock.       *)
AppCommit ==
    /\ up
    /\ block # NoBlock
    /\ state' = Commit(state)
    /\ chain' = ChainCommit(chain, block.height, state)
    /\ meta' = StoreBlockMetas(meta, block.height)
    /\ block' = NoBlock
    /\ UNCHANGED <<up, loaded, station, panics>>

(* Seeded fault: the metas are written before the block itself. *)
CrashInCommitMetasFirst ==
    /\ "commit" \in CrashSites
    /\ up
    /\ block # NoBlock
    /\ meta' = StoreBlockMetas(meta, block.height)
    /\ up' = FALSE
    /\ loaded' = FALSE
    /\ state' = LoadState(GenesisState)
    /\ station' = "free"
    /\ block' = NoBlock
    /\ UNCHANGED <<chain, panics>>

(* The process is killed inside Commit, after Chain.Commit has stored the *)
(* block and before StoreBlockMetas: the two databases are written apart. *)
CrashInCommit ==
    /\ "commit" \in CrashSites
    /\ up
    /\ block # NoBlock
    /\ chain' = ChainCommit(chain, block.height, state)
    /\ up' = FALSE
    /\ loaded' = FALSE
    /\ state' = LoadState(GenesisState)
    /\ station' = "free"
    /\ block' = NoBlock
    /\ UNCHANGED <<meta, panics>>

(* The process is killed between two ABCI calls. *)
Crash ==
    /\ "call" \in CrashSites
    /\ up
    /\ Down
    /\ UNCHANGED panics

(* NewApp: the process starts again. *)
Restart ==
    /\ ~up
    /\ up' = TRUE
    /\ UNCHANGED <<loaded, state, station, block, chain, meta, panics>>

Next ==
    \/ BeginBlock
    \/ \E tx \in Txs : CheckTx(tx)
    \/ \E tx \in Txs : DeliverTx(tx)
    \/ AppCommit
    \/ CrashInCommit
    \/ Crash
    \/ Restart

Spec == Init /\ [][Next]_vars

(***************************************************************************)
(* Properties.                                                             *)
(***************************************************************************)

Panics == {"checktx", "deliver", "burn", "beginblock"}

(* Reading a committed trie: a nonce, a balance in the gas token. *)
NonceIn(trie, a) == IF trie[a] = NoAccount THEN 0 ELSE trie[a].nonce
TokenBalanceIn(trie, k) ==
    IF trie[GasToken] = NoAccount \/ trie[GasToken].storageHash = ZeroHash
    THEN 0 ELSE trie[GasToken].storageHash[k]

(* A DeliverTx step that appended a receipt, and that receipt. *)
Delivered == block # NoBlock /\ block' # NoBlock
             /\ Len(block'.receipts) = Len(block.receipts) + 1
NewReceipt == block'.receipts[Len(block'.receipts)]

(* Burn panics when the fee transfer is refused.  validateTx checks the   *)
(* fee against the balance before execution and deploy/invokeContract     *)
(* re-check it after execution, so the fee must always be payable: the    *)
(* node never panics in Burn, even when the call itself spends the        *)
(* sender's tokens.                                                        *)
FeeNeverOverdraws == "burn" \notin panics

(* A transaction that ran to its receipt (PostState set) raised its       *)
(* sender's committed nonce by exactly one, whatever it did, reverted or  *)
(* not: increaseNonce runs once, on the state after any Revert.           *)
NonceBumpedOnce ==
    [][Delivered /\ NewReceipt.post # ZeroHash =>
         NonceIn(state'.checkpoint, NewReceipt.tx.sender)
           = NonceIn(state.checkpoint, NewReceipt.tx.sender) + 1]_vars

(* The PostState a receipt reports (State.Hash) is the root State.Commit  *)
(* then writes, or zero for an early return.                               *)
PostStateIsCommitted ==
    [][Delivered => NewReceipt.post \in {ZeroHash, state'.checkpoint}]_vars

(* A transaction that failed (IgniteError, or OutOfGas after running)     *)
(* leaves every account but its sender's and the gas token's as it was;   *)
(* of the gas token's balances only the sender's and the collector's      *)
(* change, and their sum is kept: the fee moves and nothing else does.    *)
FailedTxOnlyChargesFee ==
    [][Delivered /\ NewReceipt.post # ZeroHash
                 /\ NewReceipt.code \in {"IgniteError", "OutOfGas"} =>
         LET pre  == state.checkpoint
             post == state'.checkpoint
             s    == NewReceipt.tx.sender
         IN /\ \A a \in Addresses \ {s, GasToken} : post[a] = pre[a]
            /\ \A k \in StorageKeys \ {s, GasToken} :
                  TokenBalanceIn(post, k) = TokenBalanceIn(pre, k)
            /\ TokenBalanceIn(post, s) + TokenBalanceIn(post, GasToken)
                 = TokenBalanceIn(pre, s) + TokenBalanceIn(pre, GasToken)]_vars

(* receipt.GasUsed is a uint32 and the fee Burn takes is GasUsed times  *)
(* the gas price.  A transaction that ran to its receipt never reports   *)
(* more gas than its limit (deployContract gives init only what the code *)
(* cost leaves), so the uint32 never truncates and validateTx's check of *)
(* gasLimit * gasPrice covers the fee; and the collector received exactly *)
(* GasUsed * gasPrice under the liquid station, nothing under the free.   *)
FeeMatchesReceipt ==
    [][Delivered /\ NewReceipt.post # ZeroHash =>
         /\ NewReceipt.gasUsed <= NewReceipt.tx.gasLimit
         /\ TokenBalanceIn(state'.checkpoint, GasToken) - TokenBalanceIn(state.checkpoint, GasToken)
              = IF station = "liquid" THEN NewReceipt.gasUsed * NewReceipt.tx.gasPrice
                ELSE 0]_vars

(* What Info reports after any crash names a block chain.db holds: the    *)
(* Info handshake and BeginBlock's MustGetBlock                            *)
(* never ask for a block the node does not have, and BeginBlock never     *)
(* panics.  Commit writes chain.db before meta.db for this.                *)
InfoNamesStoredBlock ==
    /\ InfoHeight <= Len(chain)
    /\ "beginblock" \notin panics

(* Spec, invariant 6 and section 7: every non-fatal outcome of DeliverTx  *)
(* increments the sender's nonce, so a transaction cannot be replayed.    *)
EveryReceiptBumpsNonce ==
    [][Delivered =>
         NonceIn(state'.checkpoint, NewReceipt.tx.sender)
           = NonceIn(state.checkpoint, NewReceipt.tx.sender) + 1]_vars

(* DeliverTx never panics on a transaction that validateTx accepted: a    *)
(* panic there halts every node of the chain.                             *)
DeliverNeverPanics == "deliver" \notin panics

(* CheckTx never panics: the mempool may call it at any time after start. *)
CheckTxNeverPanics == "checktx" \notin panics

(* Spec, gas station: once the chain has switched to the liquid station   *)
(* it stays liquid; every block after a liquid block runs liquid.          *)
StationNeverReverts ==
    \A i, j \in 1..Len(chain) :
        i < j /\ chain[i].station = "liquid" => chain[j].station = "liquid"

=============================================================================
