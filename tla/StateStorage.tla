---------------------------- MODULE StateStorage ----------------------------
(***************************************************************************)
(* The world state of src/storage/state.go and state_account.go.           *)
(*                                                                         *)
(* A StateStorage value is a record                                        *)
(*   trie       : the in-memory state trie, Address -> leaf | NoAccount    *)
(*   checkpoint : accountCheckpoint, the root the last Commit produced     *)
(*   accounts   : the map of touched accounts, Address -> Account |        *)
(*                NotLoaded                                                *)
(* A root hash is abstracted by the content of the trie it commits: two    *)
(* roots are equal exactly when the tries hold the same leaves (the trie   *)
(* is canonical; module Trie checks that).  A storage root is likewise the *)
(* storage function itself.  The operators below are the methods of        *)
(* StateStorage and Account; the callers thread the record through them   *)
(* in the order the Go code calls them.                                    *)
(*                                                                         *)
(* LoadAccount memoises the loaded *Account in state.accounts.  Only       *)
(* mutations of the memoised object are observable, so LoadAccount reads   *)
(* the memoised account if there is one and the trie otherwise, and every  *)
(* mutation writes the account back into accounts (PutAccount).            *)
(***************************************************************************)
EXTENDS Naturals

CONSTANTS
    Addresses,      \* every address an account can live at
    StorageKeys,    \* keys of contract storage
    NoAccount,      \* an absent leaf: loadAccount returns nil
    NotLoaded,      \* an address with no entry in state.accounts
    NoContract,     \* ContractHash = EmptyHash: a plain account
    ZeroHash        \* StorageHash of an account never hashed (common.Hash{})

(* A storage trie: key -> value, 0 standing for an absent key. *)
EmptyStorage == [k \in StorageKeys |-> 0]

NoneLoaded == [a \in Addresses |-> NotLoaded]

(* The RLP-encoded Account value stored at its address (Account struct,   *)
(* exported fields only).                                                 *)
Leaf(acc) ==
    [nonce |-> acc.nonce, contract |-> acc.contract,
     storageHash |-> acc.storageHash, creator |-> acc.creator]

(* loadAccount: decode the leaf, reopen the storage trie at StorageHash.  *)
loadAccount(S, a) ==
    IF S.trie[a] = NoAccount
    THEN NoAccount
    ELSE LET l == S.trie[a]
         IN [nonce |-> l.nonce, contract |-> l.contract,
             storageHash |-> l.storageHash, creator |-> l.creator,
             storage |-> IF l.storageHash = ZeroHash THEN EmptyStorage
                                                     ELSE l.storageHash,
             dirty |-> FALSE]

(* GetAccount bypasses the touched map (read-only queries). *)
GetAccount(S, a) == loadAccount(S, a)

LoadAccount(S, a) ==
    IF S.accounts[a] # NotLoaded THEN S.accounts[a] ELSE loadAccount(S, a)

PutAccount(S, a, acc) == [S EXCEPT !.accounts[a] = acc]

(* LoadState: open the trie at the block's state root. *)
LoadState(root) ==
    [trie |-> root, checkpoint |-> root, accounts |-> NoneLoaded]

(* CreateAccount, including setContract: a fresh dirty account with an    *)
(* empty storage trie; the contract hash is set only for non-empty code.  *)
CreateAccount(S, creator, a, code) ==
    PutAccount(S, a, [nonce |-> 0, contract |-> code, creator |-> creator,
                      storageHash |-> ZeroHash, storage |-> EmptyStorage,
                      dirty |-> TRUE])

SetStorage(S, a, k, v) ==
    PutAccount(S, a, [LoadAccount(S, a) EXCEPT !.storage[k] = v,
                                               !.dirty = TRUE])

SetNonce(S, a, n) ==
    PutAccount(S, a, [LoadAccount(S, a) EXCEPT !.nonce = n, !.dirty = TRUE])

IsContract(acc) == acc.contract # NoContract

DirtyAccounts(S) ==
    {a \in Addresses : S.accounts[a] # NotLoaded /\ S.accounts[a].dirty}

(* Seeded fault: Hash writes the leaf without refreshing StorageHash. *)
HashStaleStorage(S) ==
    [S EXCEPT !.trie = [a \in Addresses |->
                         IF a \in DirtyAccounts(S) THEN Leaf(S.accounts[a])
                                                   ELSE S.trie[a]]]

(* Hash and Commit loop over state.accounts in Go map order; each dirty   *)
(* account updates a distinct key, so the order does not change the trie. *)
(* Hash: refresh StorageHash of every dirty account and write its leaf;   *)
(* the accounts stay dirty and nothing is persisted.                      *)
Hash(S) ==
    LET D == DirtyAccounts(S)
        hashed == [a \in Addresses |->
                     IF a \in D THEN [S.accounts[a] EXCEPT !.storageHash =
                                                          S.accounts[a].storage]
                                ELSE S.accounts[a]]
    IN [S EXCEPT !.accounts = hashed,
                 !.trie = [a \in Addresses |->
                             IF a \in D THEN Leaf(hashed[a]) ELSE S.trie[a]]]

(* Commit: as Hash, but through storage.Commit, clearing every dirty     *)
(* flag, and moving the checkpoint to the committed root.                  *)
Commit(S) ==
    LET D == DirtyAccounts(S)
        committed == [a \in Addresses |->
                        IF a \in D THEN [S.accounts[a] EXCEPT !.storageHash =
                                                                S.accounts[a].storage,
                                                              !.dirty = FALSE]
                                   ELSE S.accounts[a]]
        root == [a \in Addresses |->
                   IF a \in D THEN Leaf(committed[a]) ELSE S.trie[a]]
    IN [S EXCEPT !.accounts = committed, !.trie = root, !.checkpoint = root]

(* Seeded fault: Revert reopens the trie but keeps the touched accounts. *)
RevertKeepTouched(S) == [S EXCEPT !.trie = S.checkpoint]

(* Revert: reopen the trie at the checkpoint and forget every touched     *)
(* account.                                                               *)
Revert(S) ==
    [S EXCEPT !.trie = S.checkpoint, !.accounts = NoneLoaded]

(* The root Hash and Commit return. *)
Root(S) == S.trie

=============================================================================
