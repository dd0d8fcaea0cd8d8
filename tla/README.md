# TLA+ models of liquid-chain

This directory holds TLA+ models of the liquid-chain node in `src/`. TLC checks them.
They cover the ABCI application that Tendermint drives, the world state it keeps, the gas stations and the gas token, and the engine as seen by its caller.

## 1. Inventory of the system

| Part | Source | State | Operations |
|---|---|---|---|
| ABCI app | `consensus/app.go` | `State`, `Chain`, `Meta`, `gasStation` | `NewApp`, `BeginBlock`, `CheckTx`, `DeliverTx`, `Commit`, `Info` |
| Execution | `consensus/execution.go` | (through `State`) | `applyTransaction`, `deployContract`, `invokeContract`, `increaseNonce` |
| Validation | `consensus/transaction.go` | reads `State`, station | `validateTx` |
| World state | `storage/state.go`, `storage/state_account.go` | `stateTrie`, `accounts` (the touched map), `accountCheckpoint`; per account: nonce, contract, storage trie, creator, dirty flag | `LoadState`, `LoadAccount`, `GetAccount`, `CreateAccount`, `SetStorage`, `SetNonce`, `Hash`, `Commit`, `Revert` |
| Block storage | `storage/chain.go`, `crypto/block.go` | `CurrentBlock`, tx trie, receipt trie, stored blocks | `ComposeBlock`, `AddTransactionWithReceipt`, `Commit`, `GetBlock` |
| Meta index | `storage/meta.go` | height→hash, tx→height, tx→receipt, latest height | `StoreBlockMetas`, `LatestBlockHeight` |
| Gas | `gas/*.go` | the station (free or liquid), the collector | `Sufficient`, `Burn`, `CheckGasPrice`, `Switch`, `GetPolicy`, the policy costs |
| Gas token | `token/token.go` (+ the token contract, WebAssembly outside `src/`) | balances in the token's storage | `GetBalance`, `Transfer`; the contract's `init`, `mint`, `transfer`, `get_balance` |
| Engine | `engine/engine.go`, `engine/adapter.go` | gas meter, events, call depth, child engines | `Ignite`, host functions, cross-contract calls |
| Trie | `trie/*.go` | nodes (short, branch, value, hash) | `Get`, `Update`, `Delete`, `Hash`, `Commit` |
| API | `api/**` | its own `StateStorage`, shared by requests | `call`, block and tx queries, broadcast |
| ABI, crypto, db, cmd | `abi/`, `crypto/`, `db/`, `cmd/` | none of their own | encoding, signatures, RocksDB, start-up |

**How the parts interact.**
Tendermint calls the app through a local client that holds one mutex, so the app's handlers never run concurrently.

A block runs as follows:
1. `BeginBlock` reopens the state at the last block's root and composes a new block.
2. It lets the station switch.
3. Each `DeliverTx` validates a transaction, executes it and commits the state.
4. Execution calls the engine, and the liquid station calls the token contract.
5. `DeliverTx` then appends the transaction and its receipt to the block.
6. `Commit` stores the block and indexes it in the meta store.

The station and the in-memory state are lost when the process stops. `NewApp` rebuilds them empty, with a free station. Only the databases survive.

**What is hard here:**
- A Byzantine proposer can put any transaction in a block, so `DeliverTx` must survive every transaction that `validateTx` accepts.
- A failed call must be reverted completely, yet it must still pay its fee and bump the nonce.
- The fee is checked before the call, and the call can spend the same tokens.
- A receipt's post state is computed by `Hash` before `Commit`.
- The station is volatile, while the chain state is persistent.
- A crash can fall between any two ABCI calls.

## 2. Modules

| Module | Models | Kind |
|---|---|---|
| `StateStorage` | `storage/state.go`, `state_account.go` | operators on a state record |
| `Token` | `token/token.go` and the token contract (from the spec) | operators |
| `GasStation` | `gas/` | operators |
| `Engine` | `Engine.Ignite` as a set of outcomes | operators |
| `LiquidApp` | `consensus/`, `ChainStorage.Commit` and the latest height of `MetaStorage`: variables, actions, properties | specification |
| `MCLiquidApp` | constants for TLC | model |
| `Trie` | `trie/`: `insert`, `delete`, `get`, `Update`, `Hash`, `Commit` (the hasher), `New` as RECURSIVE operators, and a spec of one `Trie` object | specification |
| `MCTrie` | four keys, two values | model |
| `EngineIgnite` | what `Engine.Ignite` promises its caller: one step from a call to one of its outcomes | abstract specification |
| `EngineCalls` | `engine/`: the host adapter and child engines, step by step; refines `EngineIgnite` | specification |
| `AbiTypes` | `abi/primitive_type.go` and `Parameter`: the types, `IsPointer`, `IsAddress`, `GetMemorySize` | operators |
| `Abi` | `abi/header.go` and `crypto.GetMethodID`: `DecodeHeader`, the lookups, `Encode` over Go's random map order | operators |
| `MCEngineCalls` | two contracts whose headers `Abi` decodes, a plain and an absent account, call depth 2 | model |
| `ApiService` | `api/chain/` requests running concurrently against the node's commits | specification |
| `MCApiService` | two requests, two blocks | model |

`StateStorage`, `Token`, `GasStation` and `Engine` are value-level libraries. Each extends the previous one. An operator takes a state record and returns the record after the Go method has run.

One `DeliverTx` runs many of these methods in sequence. `LiquidApp` threads the record through them in the order of the code, so each ABCI handler is exactly one action.

**StateStorage.**
A state record has three fields:
- `trie`: an address maps to a leaf or to `NoAccount`.
- `checkpoint`: the root written by the last `Commit`.
- `accounts`: the touched map. An address maps to an account or to `NotLoaded`.

A root hash is represented by the content of the trie it commits, and a storage root by the storage function. This is sound as long as the trie is canonical, and `RootHashIsCanonical` in the `Trie` module checks that.

`LoadAccount` memoises its result. An account's mutations go back into `accounts`, which models the shared `*Account` pointer. `Hash` and `Commit` write the leaves of dirty accounts. `Commit` also clears their dirty flags and moves the checkpoint. `Revert` reopens the trie at the checkpoint and empties the touched map.

**Engine.**
`Ignite` returns every outcome the interpreter can produce:
- Under the free policy, the gas used is 0.
- Under the alpha policy, a finished run uses between 1 and the limit.
- A run trapped by the meter is an error with gas used = limit. It keeps either none or all of the method's writes.
- A token method that refuses (for example, an insufficient balance) is an error.

**LiquidApp variables.**
- `up`: whether the process is running.
- `loaded`: whether a `LoadState` has run since start.
- `state`: `App.State`.
- `station`.
- `block`: `CurrentBlock`, with its tx trie as a set and its receipts as a sequence.
- `chain`: the stored blocks. Each keeps its state root and the station that ran it.
- `panics`: where the node panicked.

**LiquidApp actions.**
- `BeginBlock`.
- `CheckTx(tx)`: with no state loaded it panics; otherwise it changes nothing.
- `DeliverTx(tx)`: a rejection is a no-op. Otherwise the action covers all of `applyTransaction`, then `State.Commit`, then `AddTransactionWithReceipt`.
- `AppCommit`.
- `Crash`: the process is killed between two calls.
- `Restart`: `NewApp`.

`Down` sets the volatile variables to what `NewApp` builds.

**Meta and Info.**
`meta` holds `MetaStorage`'s latest height. `Info` reports it and `BeginBlock` builds on the block at that height (`MustGetBlock` of the height's hash). `AppCommit` stores the block (`Chain.Commit`, which overwrites the block of a replayed height) and then the metas. `CrashInCommit` stops the node between the two writes; the constant `CrashSites` says which crashes a run considers ("call": between two ABCI calls; "commit": inside `Commit`).

**Trie.**
A node is a record: nil, value, short (nibble key and child), branch (17 children) or hash (a reference to a stored node). Keys are nibble sequences ending in the terminator 16, as `keybytesToHex` makes them. Short and branch nodes carry the code's `nodeFlag`: a cached hash (`NoHash` when none) and a dirty flag. A hash is modelled by the flagless structure it names (`CShort`, `CBranch`), so two hashes are equal exactly when the encodings are. `HashOf` is `hasher.hash`: a node with a cached hash returns it at once (when committing, only if it is clean, and then collapses to its hash node); otherwise its children are hashed first, `store` names the node by its cached hash if it has one, and the copy kept in the tree caches the hash (and, when committing, is clean). Every changed node on an insert or delete path gets `NewFlag` (no hash, dirty), as `newFlag()` gives it. `Hash` keeps the cached tree, `Commit` keeps the collapsed one and returns the root hash, and `New` decodes the root from it (`LoadNode`, `DecodeRef`); `Get` loads hash nodes on the way down. `Build` is the one trie a set of entries has. Nodes shorter than 32 bytes are embedded by the code instead of hashed; the model hashes every child, which changes no lookup.

**EngineCalls.**
A frame is one `Engine`: its contract, its caller, its pc in the method's program, its call depth, its `methodLookup` and its events. A program is a sequence of abstract instructions, one per host call or block of opcodes: `Compute(cost)`, `StorageSet`, `StoreCaller` (`chain_get_caller` then `chain_storage_set`), `Emit`, `MethodBind`, `InvokeAlias`, `ProcExit`. `meters` is the list of gas meters; a child engine gets the index of its parent's meter, as `newChildEngine` shares the `*vm.Gas`. `InvokeAlias` takes the early returns of `handleInvokeAlias` in code order and pushes a child frame; `Return` pops it. When a burn passes the limit the VM traps; the meter then reads either its old value or the limit, since vertexvm (outside `src/`) decides. `Params` is each contract's header: the `Parameter` list (`isArray` and a type of `AbiTypes`) of every declared function. `MCEngineCalls` builds it by decoding a wire header with `Abi!DecodeHeader` and looking each name up with `Abi!GetFunction`. `AddressFromBytes` is `crypto.AddressFromBytes`: fewer than 3 bytes panic (`decodeAddressBytes` indexes `raw[0]` and slices `raw[1:len-2]`), and otherwise the version byte and the checksum (`Crc16`, a constant operator, since the crc16 package is outside `src/`) must match. Every frame starts at pc 0 with its argument byte strings pending. `LoadArgs` is `Ignite` up to `vm.Invoke`. It fails when the method is not exported by the code, not declared in the header, or called with the wrong number of arguments (`DecodeToBytes`), and when the arguments exceed the cap. An address argument that is no address fails the call, or panics it when shorter than 3 bytes. Otherwise `loadArguments` writes each array argument into the frame's memory at the running offset, records `ptrArgSizeMap[offset]` and passes the offset. An address parameter is laid out like an array (`isArray || IsAddress`). A scalar is copied into a zeroed 8-byte buffer and passed as its little-endian `uint64` (`ScalarValue`), with no check against its type. `InvokeAlias(a, js)` passes the caller's own arguments `js`. `handleInvokeAlias` checks the target's header and the argument count, then reads each array argument back from the caller's memory with the size `ptrArgSizeMap` records (0 when there is none, since the error is dropped), each pointer-typed argument as its type's `GetMemorySize` bytes, and each scalar as the 8 little-endian bytes of its value cut to the callee's type's `GetMemorySize`. `StoreValue(k, i, n)` stores the low n bytes of scalar argument i (an `i64.store`, then `chain_storage_set`). `StoreArg(k, i)` is `chain_arg_size_get` then `chain_storage_set` of argument i. `CopyStorage(k, l, p)` is `chain_storage_size_get` and `chain_storage_get` of key k into memory at p, which burns no gas, then `chain_storage_set` of key l from there. `StoreSelf` and `StoreCreator` store the contract's own address and its account's creator (`Creator`, a constant). Storage values are byte strings. `Loop(cost)` is a loop body: it burns its cost and branches back to pc 1. `ArgsWrite(b, i)` is `chain_arg_size_get` of argument i's pointer, then `chain_args_write`: the pointer goes as a little-endian word to buffer b at the buffer's recorded size (0 when it has none, since the error is dropped), and the buffer's size grows by 4. `ArgsHash(b, h, k)` is `chain_args_hash`: it reads the buffer's pointers back, fails when the buffer or a pointer has no size, writes the Blake2b (a constant operator) of the RLP list of the values to memory at h, and then `chain_storage_set`s it under k. `MethodBind` carries its two name lengths: `chainMethodBind` drops each name's last byte with `[:len-1]`, which panics for length 0. `RunFrom` evaluates the same programs recursively with one counter and one event list, the semantics of spec section 4.6. In it, a callee simply holds the byte strings it was passed (a scalar zero-padded to 8 bytes and cut to the callee's width, spec section 4.6), a buffer is the vector of values written to it, and `RefIgniteStatus` states whether a call fails, panics or runs, with the 1024-byte cap and the address checks written independently of `loadArguments`. `IgniteRefinesSpec` checks that the step-by-step engine implements `EngineIgnite` with `RunFrom`'s outcomes.

**ApiService.**
`api.NewAPI` gives the chain service its own `StateStorage` over the node's database. gorilla/rpc runs each request in its own goroutine, so requests interleave with each other and with the node's `Commit`. The node's side is `ChainCommit` followed by one `MetaPut` per `ms.Put` of `StoreBlockMetas`. A request is a small process with a pc: `SyncTarget` (read the latest height), `SyncStateAt` (resolve the block, `LoadState` the shared storage), `GetAccount`, for a Call `LoadCallee`/`LoadCalleeEnd` (the child engine's `LoadAccount`, a map assignment in two steps so that two can overlap) and `CalleeWrite`, for `GetLatestBlock` `LatestBlockHeight` and `GetLatestBlock`, and for `GetTransaction` its two index reads. A map access that overlaps another goroutine's assignment into the same map is a data race; the Go runtime may abort the process (`fatal`) or not notice, and the model takes both.

## 3. Runs

| Run | cfg | Expect | What it shows |
|---|---|---|---|
| `app_safety` | `MCLiquidApp.cfg` | pass | `FeeNeverOverdraws`, `InfoNamesStoredBlock` (after a crash inside `Commit`), `NonceBumpedOnce`, `PostStateIsCommitted`, `FailedTxOnlyChargesFee`, `FeeMatchesReceipt` |
| `replay_early_return` | `MCLiquidApp_EveryReceiptBumpsNonce.cfg` | violation | a `ContractNotFound` receipt leaves the nonce as it was, so the transaction can be replayed |
| `deliver_panic` | `MCLiquidApp_DeliverNeverPanics.cfg` | violation | a validated zero-id transaction panics `DeliverTx` |
| `checktx_after_restart` | `MCLiquidApp_CheckTxNeverPanics.cfg` | violation | `CheckTx` before the first `BeginBlock` panics |
| `station_after_restart` | `MCLiquidApp_StationNeverReverts.cfg` | violation | after a restart a node runs a block free that the others run liquid |
| `trie_canonical` | `MCTrie.cfg` | pass | `TrieTypeOK`, `GetMatchesContent` (every `Get` returns the last value written), `RootHashIsCanonical` (the root hash `Hash` reports, read through the cached hashes, and the one `Commit` returned, are those of the one trie the content determines, whatever the order of writes, deletes, gets, hashes, commits and reopenings) |
| `engine_calls` | `MCEngineCalls.cfg` | pass | `TypeOK` (depth and gas bounds), `EventsBubbleInOrder`, `HeaderEncodingCanonical`, `IgniteRefinesSpec` (argument cap included), `IgniteTerminates` (under `FairSpec`) |
| `engine_args_alias` | `MCEngineCalls_ArgsReadBack.cfg` | violation | `ArgsReadBack`: an empty array argument before a non-empty one gives both the same pointer |
| `engine_nil_account` | `MCEngineCalls_IgniteNeverPanics.cfg` | violation | an `Ignite` panics: a one-byte address argument (the trace TLC shows), a method bind with an empty name, or a method bound to an address without an account |
| `api_reads` | `MCApiService.cfg` | pass | `TypeOK` (the shared `StateStorage` only holds genesis or a height with a hash entry), `LatestBlockIsLatest`, `TxFoundHasBlock`, `ReceiptGapBeforeLatest` under concurrent requests and commits |
| `api_state_isolation` | `MCApiService_ReadsUseRequestedState.cfg` | violation | a request answers from the state another request loaded |
| `api_concurrent_map` | `MCApiService_ApiNeverFatal.cfg` | violation | two concurrent Calls write the shared accounts map at once |

**Properties of the passing run:**
- `FeeNeverOverdraws`: `Burn` never panics, so the fee can always be paid, even when the call spends the sender's tokens.
- `NonceBumpedOnce`: every receipt with a post state bumps the sender's committed nonce by exactly one.
- `PostStateIsCommitted`: a receipt's `PostState` is zero or the root that `Commit` then writes.
- `FailedTxOnlyChargesFee`: a failed call (`IgniteError`, or `OutOfGas` after running) changes nothing but the sender's nonce. It only moves the fee from the sender to the collector.
- `FeeMatchesReceipt`: every receipt with a post state (not the early `OutOfGas` return of a deploy whose code cost alone exceeds the limit, execution.go:33, whose `GasUsed` is that cost) has its `GasUsed` within the transaction's gas limit, and the collector gains exactly `GasUsed` times the price under the liquid station, nothing under the free one. A deploy adds its code cost to what `init` used, so `init` must be given the limit less that cost.

`app_safety` checks no type invariant: that balances never go below zero is the token contract's own check (WebAssembly, outside `src/`, modelled from the spec), not something the Go code could get wrong.

Each property has a mutant in `PROJECT.json`: a plausible bug in the code that TLC must catch.
- The fee re-check after the call is dropped.
- `increaseNonce` creates the account without looking.
- `Hash` does not refresh storage roots.
- `Revert` keeps the touched map.
- `deployContract` gives `init` the whole gas limit.

**Properties of the other passing runs:**
- `InfoNamesStoredBlock`: after any crash, `Info`'s height names a block the chain holds, so `BeginBlock` never fails to find its parent. It depends on `Commit` writing the chain before the metas.
- `GetMatchesContent`, `RootHashIsCanonical`: the trie against a reference map and against `Build`. The canonical shape is what makes a state root a function of the state's content, which `StateStorage` assumes; the hash-cache half fails as soon as one changed node on a path keeps its old flag (the mutant `InsertToBranchNodeKeepFlags`).
- `EventsBubbleInOrder`: the root engine's event list is every event of the call tree in emission order.
- `IgniteRefinesSpec`: the call tree with its shared meter and the calling contract as the callee's caller yields exactly an outcome of the big-step semantics: status, gas used, storage and events.
- `LatestBlockIsLatest`, `TxFoundHasBlock`: readers that race `StoreBlockMetas` never resolve a height they read to a missing block, because of the order of its Puts.
- `ReceiptGapBeforeLatest`: `StoreBlockMetas` puts the tx -> receipt entries after the tx -> height ones, so a `GetTransaction` can find a transaction without its receipt; only a client to whom the block is not yet the latest sees that, because the latest height is put last.
- `HeaderEncodingCanonical`: over the wire headers a client could build for the called contract, listing the called method, `give` and `shadow` (whose MethodID is `main`'s) in every order and number, and two events in either order or one declared twice, a header `DecodeHeader` accepts has exactly one encoding, which decodes back to it, and the same declarations in another order decode alike or are refused alike. Go visits a map's keys in random order, so this rests on `sortMethodIDs`.

Their mutants: `CollapseBranch` not merging a one-child branch, an off-by-one in `insertToShortNode`, `Update` ignoring empty values; `Commit` writing the metas first; `pushEvent` keeping events local, the child inheriting its parent's caller, the depth check off by one; `StoreBlockMetas` putting the latest height, or the tx index, before the hash index, or the latest height before the receipt index; the block resolved without the index; `getFunctions` listing the functions in map order.

**Bounds** (`MCLiquidApp`):
- Two users, u1 and u2.
- The gas token is deployed by u1 at nonce 0, at address `<<u1, 0>>`.
- Nonces run over 0..2, gas limits over {1, 2}, and the gas price is 18 (the liquid minimum).
- At most 3 blocks and 2 `DeliverTx` per block.

Eight transaction templates, offered at every nonce and gas limit, make 48 transactions:
- deploy the token;
- mint 36;
- transfer 18 in each direction;
- a zero-id call to an empty address;
- a zero-id call to the token;
- a zero-id call to a plain account;
- a zero-id deploy of undecodable bytes.

These bounds are enough for the interesting sequences. Three blocks let the chain switch to liquid (deploy and mint in block 1) and then spend the creator's whole balance. Two transactions per block let a transfer and a fee compete for the same tokens. A gas limit of 2 makes the fee re-check after the call matter.

`app_safety` lets the node crash both inside `DeliverTx`'s call and inside `Commit` (between the chain store and the meta write). It reaches 256,348 distinct states in about 3 min.

**Other bounds.**
- `MCTrie`: the keys `<<0>>`, `<<0,1>>`, `<<1>>`, `<<16>>` (a key that is a prefix of another, keys that share a first nibble and differ after it, and one that differs at once) and two values; 90,453 states. Every node kind and every collapse case occurs.
- `MCEngineCalls`: contract A binds an alias to B and calls it between two events; B stores its caller, emits, stores its argument and its own address, and computes. `pair` also copies a stored value to another key and stores its creator (`dD`, not the sender). Gas limits 3, 7 and 9 under both policies make the meter run out before, inside and after the child call. Depth 2 allows one nested call and refuses the next (A's `loop` method calls itself). The other methods of A cover the remaining paths:
  - `spin` is a loop body that branches back to its start;
  - `pair` stores its two array arguments;
  - `main` passes its array argument on to B's `run`, which stores it;
  - `digest` writes both its array arguments to a buffer and stores the buffer's hash, and `nohash` hashes a buffer never written to;
  - `give` stores its address argument and passes it on to B's `take`, which stores it too; it is called with a valid address (`AddressLength` = 3, version byte 1, checksum `<<0, 0>>`) and one with the wrong version byte;
  - `relay` takes a `uint16` and passes it on to B's `narrow`, a `uint8`, which stores the low two bytes of its value: called with two bytes and with one, the callee sees only the low byte;
  - `hidden`, `ghost`, `nohdr` and `badcount` take the early returns for a method missing from the header, a method missing from the code, and a wrong argument count.

  Each method is called with four argument lists, under `MaxArgBytes` = 3 (the code's 1024 scaled down): none; an array and a scalar (exactly 3 bytes, the boundary, accepted); two 2-byte arrays (over the cap); and two 1-byte arrays. 1,197 states in about 35 s. MethodIDs are positions in a list of the names, and `shadow` shares `main`'s; the codec's wire headers take the called method, `give` and `shadow` in every order and number, and two events in either order or one event declared twice. `engine_args_alias` adds an empty array before a 1-byte array.
- `MCApiService`: two requests of any of the modelled kinds (a Call at a height from 0 to 3 or the latest), two blocks, the contract and the transaction in block 1; 22,061 states, symmetry over the requests.

**Fairness:** `engine_calls` runs `FairSpec`, which adds weak fairness on `Next` to `Spec`. `Ignite` runs the VM on the goroutine that called it, and nothing else holds that VM, so a running engine keeps stepping. Under this fairness, `IgniteTerminates` says that every `Ignite` under the alpha policy returns. It holds because every opcode and host call burns gas from the one shared meter. Under `FreePolicy`, every opcode costs 0, so `spin` loops forever. That is why the property is restricted to alpha; this is a hazard, since API Calls always use the free policy. The other runs check safety only. `EngineCalls` and `ApiService` do not check deadlock: a finished call or a server with all requests answered stops. Tendermint drives the calls, so a node that stops calling is a legal behaviour of the model. Deadlock is checked: `Restart` is enabled when the node is down, and `CheckTx` and `Crash` are enabled when it is up.

## 4. Findings

These are listed in `PROJECT.json`.
1. `invokeContract` returns `ContractNotFound` and `MethodNotFound` before `increaseNonce`. `validateTx` skips the receiver checks for a zero method id. So such a transaction never bumps the nonce and can be replayed forever. The spec says the nonce is bumped on every non-fatal outcome.
2. A zero-id deploy of undecodable bytes, or a zero-id call to a plain account, passes `validateTx` and then panics in `DeliverTx` on every node. One transaction halts the chain.
3. `CheckTx` between `NewApp` and the first `BeginBlock` dereferences the nil state trie.
4. After a restart, the station is recomputed from the creator's current balance. A restarted node can therefore run free while the others run liquid. The spec says the switch is permanent and happens on the same block for all honest nodes.

5. A method bound (`chain_method_bind`) to an address with no account makes `handleInvokeAlias` call `GetContract` on the nil account `LoadAccount` returns: a nil dereference that panics `DeliverTx` on every node. The spec says host errors end the call with `IGNITE_ERROR`.
6. The API's requests share one `StateStorage`, and each re-points it with `syncStateAt`. A request can answer from the state another request loaded, or see the storage writes of another request's dry-run Call. The spec says API reads go through a read-only view of a committed root.
7. The shared accounts map is written without a lock by concurrent Calls whose contracts call other contracts. The Go runtime may abort the node process on such a race.
8. `loadArguments` does not advance the offset past an empty array argument. The next array argument is written at the same offset, gets the same pointer and overwrites the recorded size. The contract then reads the second argument's bytes through the first argument's pointer. The spec says each pointer argument is copied and recorded as `ptr_sizes[offset] = len`.
9. An address argument of 0 to 2 bytes makes `crypto.AddressFromBytes` (called by `loadArguments`, engine.go:135) index past the slice. `validateTx` only checks the argument count, and nothing recovers the panic, so one transaction halts every node in `DeliverTx`. `engine_nil_account` checks every panic route with `IgniteNeverPanics`; TLC shows this shorter one first.
10. `chainMethodBind` drops the trailing NUL of the method and alias names with `[:len-1]` without a length check. A deployed contract that binds a name of length 0 panics `DeliverTx` on every node. `engine_nil_account` reaches this route too (`bindempty`).

Also seen while modelling, without a run of its own:
- `StoreBlockMetas` writes the receipt index after the tx index in separate Puts, so a `GetTransaction` in between fails, although the spec says the indexes are updated atomically. TLC reaches that answer (`receipt_error`) in `ApiService`, and `ReceiptGapBeforeLatest` bounds who can see it.
- `Ignite` and `handleInvokeAlias` look a method up in the header by the MethodID of its name, a 4-byte hash. An exported function whose name's MethodID is that of a declared function is run with the other function's parameters. `MCEngineCalls` gives distinct IDs to the names of its contracts, and uses the colliding `shadow` only in the codec's headers.

## 5. Not modelled, and the plan

Done so far: the ABCI app, execution and validation, the world state, the gas stations and token, the meta index and `Info` (with a crash inside `Commit`), the trie, the engine's host adapter with child engines, and the API's concurrent requests.

Planned next:
1. **Abstract ledger**: a refinement of `LiquidApp` to a spec in which each block applies a sequence of transactions atomically to a map of accounts.
2. **Replay and the meta index**: the tx -> height and tx -> receipt indexes across a replayed block (the tx trie keyed by hash keeps one copy of a repeated transaction while the receipts keep two).
3. **Engine into the app**: the engine composed into `LiquidApp` in place of `Engine`'s outcome set.
4. **Liveness, rest**: that every request gets an answer, and that a node that keeps being called keeps committing blocks, under weak fairness of the goroutines and of Tendermint.

These parts stay outside the model:
- **ABI and crypto encodings at the byte level**: the RLP codec (a decoded struct stands for its bytes, since RLP is injective), `NewArgument`'s per-type conversions, hashing and address encoding. `DecodeContract`'s empty check is not modelled because `LiquidApp` abstracts deploy payloads to whether they decode.
- **`abi/cli_helper.go`, `api/chain/parser.go`, `cmd/`**: these parse and format argument and event strings for clients and the CLI. They change no node state. Their bugs are in the text: for example `parseParam` formats an `int64` through a 32-bit read.
- **Signatures**: every modelled transaction is signed by its sender.
- **RocksDB and start-up wiring**: these are I/O.
- **Per-opcode gas costs**: they are folded into the gas that `Ignite` reports.
