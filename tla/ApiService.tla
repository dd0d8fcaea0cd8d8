----------------------------- MODULE ApiService -----------------------------
(***************************************************************************)
(* The read API of src/api/ served next to a running node.  api.NewAPI     *)
(* builds one chain.Service holding its own StateStorage over the node's   *)
(* state database; gorilla/rpc serves every HTTP request in a goroutine of *)
(* its own, so requests run concurrently and all share that StateStorage:  *)
(* syncStateAt re-points it (LoadState) for every request.  The node       *)
(* writes the same databases from App.Commit: Chain.Commit, then           *)
(* StoreBlockMetas with one Put per index.                                 *)
(*                                                                         *)
(* A state is named by the height of the block whose root it is; the       *)
(* contract and its callee exist from DeployHeight on, the one modelled   *)
(* transaction is in block TxHeight.  A request takes one action per      *)
(* database read or shared-memory access that another goroutine can       *)
(* interleave with.                                                        *)
(***************************************************************************)
EXTENDS Naturals, Sequences, FiniteSets

CONSTANTS
    Reqs,          \* concurrent HTTP requests
    MaxHeight,     \* blocks the node commits
    DeployHeight,  \* first block whose state holds the contract and callee
    TxHeight,      \* block holding the one transaction GetTransaction asks for
    Latest,        \* CallParams.Height = nil: the latest height
    None           \* no value yet

ASSUME DeployHeight \in 1..MaxHeight /\ TxHeight \in 1..MaxHeight

Heights == 0..MaxHeight

(* Requests: chain.Call at a height (possibly not yet committed) or at the *)
(* latest one; chain.GetAccount, chain.GetLatestBlock, chain.GetTransaction.*)
Requests ==
    [kind : {"call"}, height : {Latest} \cup 0..MaxHeight + 1]
      \cup [kind : {"account", "latest_block", "tx"}, height : {Latest}]

VARIABLES
    stored,     \* heights of the blocks in the chain database
    hashIdx,    \* heights with a height -> block hash entry in meta
    txIdx,      \* the tx hash -> height entry is written
    rcptIdx,    \* the tx hash -> receipt hash entry is written
    latest,     \* meta's latest height
    metaPuts,   \* Puts of StoreBlockMetas still to do for block Max(stored)
    view,       \* height whose root the API's StateStorage holds
    gen,        \* LoadStates so far: which accounts map is current
    accounts,   \* the current map: the callee's memoised account, or None
    writers,    \* <<request, map>> pairs inside a map assignment
    fatal,      \* the Go runtime aborted on a concurrent map write
    req         \* per request: kind, height, pc and locals

vars == <<stored, hashIdx, txIdx, rcptIdx, latest, metaPuts, view, gen,
          accounts, writers, fatal, req>>

(***************************************************************************)
(* The node side.                                                          *)
(***************************************************************************)

(* Seeded faults: the latest height, or the tx index, put before the     *)
(* height -> hash index.                                                  *)
StoreBlockMetasLatestFirst(h) ==
    IF h = TxHeight THEN <<"latest", "hash", "tx", "receipt">>
                    ELSE <<"latest", "hash">>

StoreBlockMetasTxFirst(h) ==
    IF h = TxHeight THEN <<"tx", "hash", "receipt", "latest">>
                    ELSE <<"hash", "latest">>

(* Seeded fault: the latest height put before the receipt index. *)
StoreBlockMetasReceiptLast(h) ==
    IF h = TxHeight THEN <<"hash", "tx", "latest", "receipt">>
                    ELSE <<"hash", "latest">>

(* StoreBlockMetas of block h: the Puts in code order (meta.go). *)
StoreBlockMetas(h) ==
    IF h = TxHeight THEN <<"hash", "tx", "receipt", "latest">>
                    ELSE <<"hash", "latest">>

(* App.Commit: Chain.Commit stores the block under its hash. *)
ChainCommit ==
    /\ metaPuts = <<>>
    /\ latest < MaxHeight
    /\ stored' = stored \cup {latest + 1}
    /\ metaPuts' = StoreBlockMetas(latest + 1)
    /\ UNCHANGED <<hashIdx, txIdx, rcptIdx, latest, view, gen, accounts,
                   writers, fatal, req>>

(* One ms.Put of StoreBlockMetas; the latest height only moves forward. *)
MetaPut ==
    LET h == CHOOSE x \in stored : \A y \in stored : y <= x
        p == Head(metaPuts)
    IN /\ metaPuts # <<>>
       /\ metaPuts' = Tail(metaPuts)
       /\ hashIdx' = IF p = "hash" THEN hashIdx \cup {h} ELSE hashIdx
       /\ txIdx' = (txIdx \/ p = "tx")
       /\ rcptIdx' = (rcptIdx \/ p = "receipt")
       /\ latest' = IF p = "latest" /\ h > latest THEN h ELSE latest
       /\ UNCHANGED <<stored, view, gen, accounts, writers, fatal, req>>

(***************************************************************************)
(* The service side.                                                       *)
(***************************************************************************)

(* Seeded fault: the height taken as the block without the index. *)
BlockAtUnchecked(h) == h

(* MustGetBlock(BlockHeightToBlockHash(h)): a height without a hash entry *)
(* gives EmptyHash, and GetBlock(EmptyHash) returns the genesis block.     *)
BlockAt(h) == IF h \in hashIdx THEN h ELSE 0

(* loadAccount: the contract (and the callee) exist from DeployHeight on. *)
Exists(h) == h >= DeployHeight

Init ==
    /\ stored = {} /\ hashIdx = {} /\ txIdx = FALSE /\ rcptIdx = FALSE
    /\ latest = 0 /\ metaPuts = <<>>
    /\ view = None /\ gen = 0 /\ accounts = None /\ writers = {}
    /\ fatal = FALSE
    /\ req \in [Reqs -> {[kind |-> q.kind, height |-> q.height, pc |-> "sync",
                          target |-> None, loaded |-> None, read |-> None,
                          callee |-> None, cg |-> None, out |-> None]
                         : q \in Requests}]

At(r, pc) == ~fatal /\ req[r].pc = pc

Set(r, f) == req' = [req EXCEPT ![r] = f]

(* syncLatestState reads LatestBlockHeight; Call with a height uses it. *)
SyncTarget(r) ==
    /\ At(r, "sync")
    /\ Set(r, [req[r] EXCEPT !.pc = "load",
               !.target = IF req[r].height = Latest THEN latest ELSE req[r].height])
    /\ UNCHANGED <<stored, hashIdx, txIdx, rcptIdx, latest, metaPuts, view,
                   gen, accounts, writers, fatal>>

(* syncStateAt: the block named by the height index, then LoadState:      *)
(* the shared StateStorage now holds that root and a fresh accounts map.  *)
SyncStateAt(r) ==
    /\ At(r, "load")
    /\ view' = BlockAt(req[r].target)
    /\ gen' = gen + 1
    /\ accounts' = None
    /\ Set(r, [req[r] EXCEPT !.loaded = BlockAt(req[r].target),
               !.pc = CASE req[r].kind \in {"call", "account"} -> "get_account"
                        [] req[r].kind = "latest_block"        -> "latest"
                        [] req[r].kind = "tx"                  -> "tx_height"])
    /\ UNCHANGED <<stored, hashIdx, txIdx, rcptIdx, latest, metaPuts,
                   writers, fatal>>

(* state.GetAccount(address): loadAccount from the trie the shared        *)
(* StateStorage holds now.  GetAccount answers; Call gives up on a        *)
(* missing contract and otherwise Ignites it.                             *)
GetAccount(r) ==
    /\ At(r, "get_account")
    /\ Set(r, IF req[r].kind = "account"
              THEN [req[r] EXCEPT !.read = view, !.pc = "done",
                      !.out = IF Exists(view) THEN "ok" ELSE "nil"]
              ELSE IF ~Exists(view)
              THEN [req[r] EXCEPT !.read = view, !.pc = "done", !.out = "missing"]
              ELSE [req[r] EXCEPT !.read = view, !.pc = "load_callee"])
    /\ UNCHANGED <<stored, hashIdx, txIdx, rcptIdx, latest, metaPuts, view,
                   gen, accounts, writers, fatal>>

(* The contract calls its callee: handleInvokeAlias -> state.LoadAccount *)
(* on the shared StateStorage's current map.  A hit returns the memoised  *)
(* *Account; a miss loads it from the current trie and starts a map       *)
(* assignment.  A map access while another goroutine is assigning into    *)
(* the same map is a data race: the runtime may abort the whole process,  *)
(* or may not notice.                                                     *)
LoadCallee(r) ==
    /\ At(r, "load_callee")
    /\ \/ /\ \E w \in writers : w[2] = gen
          /\ fatal' = TRUE
          /\ UNCHANGED <<stored, hashIdx, txIdx, rcptIdx, latest, metaPuts,
                         view, gen, accounts, writers, req>>
       \/ /\ IF accounts # None
             THEN /\ Set(r, [req[r] EXCEPT !.callee = accounts, !.cg = gen,
                                           !.pc = "callee_write"])
                  /\ UNCHANGED writers
             ELSE /\ Set(r, [req[r] EXCEPT !.cg = gen, !.pc = "load_callee_end",
                               !.callee = [height |-> view, dirty |-> FALSE, by |-> r]])
                  /\ writers' = writers \cup {<<r, gen>>}
          /\ UNCHANGED <<stored, hashIdx, txIdx, rcptIdx, latest, metaPuts,
                         view, gen, accounts, fatal>>

(* The assignment state.accounts[address] = loadedAccount ends; it went  *)
(* into the map current when it started, replaced since by a LoadState   *)
(* or not.                                                                *)
LoadCalleeEnd(r) ==
    /\ At(r, "load_callee_end")
    /\ writers' = writers \ {<<r, req[r].cg>>}
    /\ accounts' = IF req[r].cg = gen THEN req[r].callee ELSE accounts
    /\ Set(r, [req[r] EXCEPT !.pc = "callee_write"])
    /\ UNCHANGED <<stored, hashIdx, txIdx, rcptIdx, latest, metaPuts, view,
                   gen, fatal>>

(* The child engine's chainStorageSet: SetStorage on the callee *Account, *)
(* which is the one memoised in the map if nobody replaced either.  The   *)
(* dry-run Call never reverts it.  Call then answers.                     *)
CalleeWrite(r) ==
    /\ At(r, "callee_write")
    /\ accounts' = IF /\ req[r].cg = gen /\ accounts # None
                      /\ accounts.by = req[r].callee.by
                   THEN [accounts EXCEPT !.dirty = TRUE] ELSE accounts
    /\ Set(r, [req[r] EXCEPT !.pc = "done", !.out = "ok"])
    /\ UNCHANGED <<stored, hashIdx, txIdx, rcptIdx, latest, metaPuts, view,
                   gen, writers, fatal>>

(* GetLatestBlock reads LatestBlockHeight again after syncLatestState ... *)
LatestBlockHeight(r) ==
    /\ At(r, "latest")
    /\ Set(r, [req[r] EXCEPT !.read = latest, !.pc = "latest_block"])
    /\ UNCHANGED <<stored, hashIdx, txIdx, rcptIdx, latest, metaPuts, view,
                   gen, accounts, writers, fatal>>

(* ... then GetBlock(BlockHeightToBlockHash(height)) and answers it. *)
GetLatestBlock(r) ==
    /\ At(r, "latest_block")
    /\ Set(r, [req[r] EXCEPT !.pc = "done", !.out = BlockAt(req[r].read)])
    /\ UNCHANGED <<stored, hashIdx, txIdx, rcptIdx, latest, metaPuts, view,
                   gen, accounts, writers, fatal>>

(* GetTransaction: TxHashToBlockHeight, then BlockHeightToBlockHash of   *)
(* that height; both indexes only grow, so reading them in one step      *)
(* loses no outcome.                                                     *)
TxHashToBlockHeight(r) ==
    /\ At(r, "tx_height")
    /\ Set(r, IF ~txIdx THEN [req[r] EXCEPT !.pc = "done", !.out = "not_found"]
              ELSE IF TxHeight \notin hashIdx
              THEN [req[r] EXCEPT !.pc = "done", !.out = "block_not_found"]
              ELSE [req[r] EXCEPT !.pc = "tx_receipt"])
    /\ UNCHANGED <<stored, hashIdx, txIdx, rcptIdx, latest, metaPuts, view,
                   gen, accounts, writers, fatal>>

(* ... the transaction from the block's tx trie, then TxHashToReceiptHash: *)
(* without the entry the receipt trie yields nothing and DecodeReceipt     *)
(* fails.                                                                  *)
TxHashToReceiptHash(r) ==
    /\ At(r, "tx_receipt")
    /\ Set(r, [req[r] EXCEPT !.pc = "done",
                 !.out = IF rcptIdx THEN "ok" ELSE "receipt_error"])
    /\ UNCHANGED <<stored, hashIdx, txIdx, rcptIdx, latest, metaPuts, view,
                   gen, accounts, writers, fatal>>

Next ==
    \/ ChainCommit
    \/ MetaPut
    \/ \E r \in Reqs :
          \/ SyncTarget(r) \/ SyncStateAt(r) \/ GetAccount(r)
          \/ LoadCallee(r) \/ LoadCalleeEnd(r) \/ CalleeWrite(r)
          \/ LatestBlockHeight(r) \/ GetLatestBlock(r)
          \/ TxHashToBlockHeight(r) \/ TxHashToReceiptHash(r)

Spec == Init /\ [][Next]_vars

(***************************************************************************)
(* Properties.                                                             *)
(***************************************************************************)

Pcs == {"sync", "load", "get_account", "load_callee", "load_callee_end",
        "callee_write", "latest", "latest_block", "tx_height", "tx_receipt",
        "done"}

Opt(S) == S \cup {None}

Account == [height : Heights, dirty : BOOLEAN, by : Reqs]

(* Every variable holds a value of its type; the shared StateStorage only *)
(* ever holds the root of a height the chain has.                         *)
TypeOK ==
    /\ stored \subseteq 1..MaxHeight /\ hashIdx \subseteq stored
    /\ latest \in Heights /\ txIdx \in BOOLEAN /\ rcptIdx \in BOOLEAN
    /\ view \in Opt(hashIdx \cup {0}) /\ gen \in 0..Cardinality(Reqs)
    /\ accounts \in Opt(Account) /\ writers \subseteq Reqs \X (1..Cardinality(Reqs))
    /\ fatal \in BOOLEAN
    /\ \A r \in Reqs :
         /\ req[r].pc \in Pcs
         /\ req[r].target \in Opt(0..MaxHeight + 1)
         /\ req[r].loaded \in Opt(Heights) /\ req[r].read \in Opt(Heights)
         /\ req[r].callee \in Opt(Account)

(* GetLatestBlock answers the block at the height it read as latest: the *)
(* node puts the height -> hash entry before it moves the latest height,  *)
(* so a reader that sees a height also finds its block, never genesis.    *)
LatestBlockIsLatest ==
    \A r \in Reqs : req[r].kind = "latest_block" /\ req[r].pc = "done"
                      => req[r].out = req[r].read

(* GetTransaction never finds the transaction's height without finding  *)
(* the block: StoreBlockMetas puts the height -> hash entry before the   *)
(* tx -> height entries.                                                  *)
TxFoundHasBlock ==
    \A r \in Reqs : req[r].kind = "tx" /\ req[r].pc = "done"
                      => req[r].out # "block_not_found"

(* The tx -> receipt entries follow the tx -> height entries in separate *)
(* Puts, so GetTransaction can find a transaction without its receipt.   *)
(* Only a client to whom the block is not yet the latest sees that: a    *)
(* GetTransaction answering receipt_error synced to a latest height below *)
(* the transaction's block, because StoreBlockMetas moves the latest     *)
(* height last.                                                           *)
ReceiptGapBeforeLatest ==
    \A r \in Reqs : req[r].kind = "tx" /\ req[r].out = "receipt_error"
                      => req[r].target < TxHeight

(* Spec section 5: API reads go through a read-only view of a committed  *)
(* root.  A GetAccount or Call that answers read the state its own       *)
(* syncStateAt loaded, contract and callee alike, and saw no write of    *)
(* another request's dry-run call.                                       *)
ReadsUseRequestedState ==
    \A r \in Reqs :
        req[r].kind \in {"call", "account"} /\ req[r].pc = "done"
          => /\ req[r].read = req[r].loaded
             /\ req[r].callee # None
                  => req[r].callee.height = req[r].loaded /\ ~req[r].callee.dirty

(* Concurrent API requests never abort the node process: no map of the   *)
(* shared StateStorage is written by two goroutines at once.             *)
ApiNeverFatal == ~fatal

====
