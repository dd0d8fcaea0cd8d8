-------------------------------- MODULE Trie --------------------------------
(***************************************************************************)
(* The Merkle Patricia trie of src/trie/ (trie.go, node.go, hasher.go).    *)
(*                                                                         *)
(* A node is a record:                                                     *)
(*   [type |-> "nil"]                          a nil Node                  *)
(*   [type |-> "value", val |-> v]             valueNode                   *)
(*   [type |-> "short", key, val, flags]       shortNode (leaf/extension)  *)
(*   [type |-> "branch", ch, flags]            branchNode, ch : 0..16->node*)
(*   [type |-> "hash", h |-> H]                hashNode                    *)
(* Keys are nibble sequences ending with the terminator 16 (the hex form  *)
(* keybytesToHex gives).  A hash is abstracted by the content it commits  *)
(* to: the node with every child expanded and no flags (CShort, CBranch), *)
(* which Blake2b of the encoding determines.  flags is nodeFlag: the      *)
(* cached hash (NoHash when nil) and dirty.                                *)
(***************************************************************************)
EXTENDS Integers, Sequences, FiniteSets

LOCAL SeqExt == INSTANCE SequencesExt

Terminator == 16
Nil == [type |-> "nil"]
ValueNode(v) == [type |-> "value", val |-> v]
NoHash == [type |-> "nohash"]
ShortNode(k, n, fl) == [type |-> "short", key |-> k, val |-> n, flags |-> fl]
BranchNode(f, fl) == [type |-> "branch", ch |-> f, flags |-> fl]
HashNode(h) == [type |-> "hash", h |-> h]
CShort(k, n) == [type |-> "short", key |-> k, val |-> n]
CBranch(f) == [type |-> "branch", ch |-> f]

(* tree.newFlag: no cached hash, dirty. *)
NewFlag == [hash |-> NoHash, dirty |-> TRUE]

(* keybytesToHex: two nibbles per byte, then the terminator. *)
KeybytesToHex(bytes) ==
    SeqExt!FlattenSeq([i \in 1..Len(bytes) |-> <<bytes[i] \div 16, bytes[i] % 16>>])
      \o <<Terminator>>

(* computeCommonPrefixLength. *)
CommonPrefixLength(a, b) == Len(SeqExt!LongestCommonPrefix({a, b}))

Drop(s, n) == SubSeq(s, n + 1, Len(s))

(* decodeRef: a stored child is a hashNode; a value is inline. *)
DecodeRef(c) == IF c.type \in {"short", "branch"} THEN HashNode(c) ELSE c

(* tree.loadNode and mustDecodeNode: the node stored under hash H, its   *)
(* children hashNodes, its flags the hash it was loaded by, not dirty.   *)
(* The database holds every node a hashNode of the model names.           *)
LoadNode(hn) ==
    LET H == hn.h
        fl == [hash |-> H, dirty |-> FALSE]
    IN IF H.type = "short" THEN ShortNode(H.key, DecodeRef(H.val), fl)
       ELSE BranchNode([i \in 0..16 |-> DecodeRef(H.ch[i])], fl)

(* The result of insert and delete: did the subtree change, the new node. *)
Res(dirty, n) == [dirty |-> dirty, node |-> n]

(***************************************************************************)
(* insert (trie.go 47-136): insertToShortNode, insertToBranchNode,         *)
(* insertToHashNode and the dispatch on the node type.                     *)
(***************************************************************************)
RECURSIVE Insert(_, _, _)

(* Seeded fault: the old node keeps the nibble the new branch consumes. *)
InsertToShortNodeOffByOne(node, key, value) ==
    LET m == CommonPrefixLength(key, node.key)
    IN IF m = Len(node.key)
       THEN LET r == Insert(node.val, Drop(key, m), value)
            IN IF ~r.dirty THEN Res(FALSE, node)
                           ELSE Res(TRUE, ShortNode(node.key, r.node, NewFlag))
       ELSE LET old == Insert(Nil, Drop(node.key, m), node.val).node
                new == Insert(Nil, Drop(key, m + 1), value).node
                br  == BranchNode([i \in 0..16 |->
                          IF i = key[m + 1] THEN new
                          ELSE IF i = node.key[m + 1] THEN old ELSE Nil], NewFlag)
            IN IF m = 0 THEN Res(TRUE, br)
                        ELSE Res(TRUE, ShortNode(SubSeq(key, 1, m), br, NewFlag))

InsertToShortNode(node, key, value) ==
    LET m == CommonPrefixLength(key, node.key)
    IN IF m = Len(node.key)
       THEN LET r == Insert(node.val, Drop(key, m), value)
            IN IF ~r.dirty THEN Res(FALSE, node)
                           ELSE Res(TRUE, ShortNode(node.key, r.node, NewFlag))
       ELSE LET old == Insert(Nil, Drop(node.key, m + 1), node.val).node
                new == Insert(Nil, Drop(key, m + 1), value).node
                br  == BranchNode([i \in 0..16 |->
                          IF i = key[m + 1] THEN new
                          ELSE IF i = node.key[m + 1] THEN old ELSE Nil], NewFlag)
            IN IF m = 0 THEN Res(TRUE, br)
                        ELSE Res(TRUE, ShortNode(SubSeq(key, 1, m), br, NewFlag))

(* Seeded fault: the copy keeps the old node's flags. *)
InsertToBranchNodeKeepFlags(node, key, value) ==
    LET r == Insert(node.ch[key[1]], Tail(key), value)
    IN IF ~r.dirty THEN Res(FALSE, node)
                   ELSE Res(TRUE, [node EXCEPT !.ch[key[1]] = r.node])

InsertToBranchNode(node, key, value) ==
    LET r == Insert(node.ch[key[1]], Tail(key), value)
    IN IF ~r.dirty THEN Res(FALSE, node)
                   ELSE Res(TRUE, [node EXCEPT !.flags = NewFlag, !.ch[key[1]] = r.node])

InsertToHashNode(node, key, value) ==
    LET current == LoadNode(node)
        r == Insert(current, key, value)
    IN IF ~r.dirty THEN Res(FALSE, current) ELSE Res(TRUE, r.node)

Insert(node, key, value) ==
    IF key = <<>>
    THEN IF node.type = "value" THEN Res(node.val # value.val, value)
                                ELSE Res(TRUE, value)
    ELSE CASE node.type = "short"  -> InsertToShortNode(node, key, value)
           [] node.type = "branch" -> InsertToBranchNode(node, key, value)
           [] node.type = "hash"   -> InsertToHashNode(node, key, value)
           [] node.type = "nil"    -> Res(TRUE, ShortNode(key, value, NewFlag))

(***************************************************************************)
(* get (trie.go 196-236): the value at key and the node with every        *)
(* hashNode met on the way replaced by the node it names.                 *)
(***************************************************************************)
RECURSIVE Lookup(_, _, _)
Lookup(node, key, pos) ==
    CASE node.type = "short" ->
           IF \/ Len(key) - pos < Len(node.key)
              \/ node.key # SubSeq(key, pos + 1, pos + Len(node.key))
           THEN [value |-> 0, node |-> node, reached |-> FALSE]
           ELSE LET r == Lookup(node.val, key, pos + Len(node.key))
                IN [r EXCEPT !.node = IF r.reached THEN [node EXCEPT !.val = r.node]
                                                   ELSE node]
      [] node.type = "branch" ->
           LET r == Lookup(node.ch[key[pos + 1]], key, pos + 1)
           IN [r EXCEPT !.node = IF r.reached
                                 THEN [node EXCEPT !.ch[key[pos + 1]] = r.node]
                                 ELSE node]
      [] node.type = "nil"   -> [value |-> 0, node |-> node, reached |-> FALSE]
      [] node.type = "value" -> [value |-> node.val, node |-> node, reached |-> FALSE]
      [] node.type = "hash"  ->
           [Lookup(LoadNode(node), key, pos) EXCEPT !.reached = TRUE]

(* tree.resolve. *)
Resolve(node) == IF node.type = "hash" THEN LoadNode(node) ELSE node

(* The only non-nil child of a branch, -1 if none, -2 if several. *)
OnlyChild(f) ==
    LET used == {i \in 0..16 : f[i] # Nil}
    IN IF used = {} THEN -1
       ELSE IF Cardinality(used) = 1 THEN CHOOSE i \in used : TRUE ELSE -2

(* The end of delete's branch case: a branch left with one child becomes  *)
(* a short node on that child's nibble, merged with the child when the    *)
(* child (resolved) is a short node; a value in slot 16 becomes a leaf.    *)
CollapseBranch(f) ==
    LET pos == OnlyChild(f)
    IN IF pos < 0 THEN BranchNode(f, NewFlag)
       ELSE IF pos # 16 /\ Resolve(f[pos]).type = "short"
            THEN ShortNode(<<pos>> \o Resolve(f[pos]).key, Resolve(f[pos]).val, NewFlag)
            ELSE ShortNode(<<pos>>, f[pos], NewFlag)

(***************************************************************************)
(* delete (trie.go 245-330).  A branch left with one child collapses into *)
(* a short node, merged with that child when it is a short node.           *)
(***************************************************************************)
RECURSIVE Delete(_, _)
Delete(node, key) ==
    CASE node.type = "short" ->
           LET m == CommonPrefixLength(key, node.key)
           IN IF m < Len(node.key) THEN Res(FALSE, node)
              ELSE IF m = Len(key) THEN Res(TRUE, Nil)
              ELSE LET r == Delete(node.val, Drop(key, Len(node.key)))
                   IN IF ~r.dirty THEN Res(FALSE, node)
                      ELSE IF r.node.type = "short"
                           THEN Res(TRUE, ShortNode(node.key \o r.node.key, r.node.val, NewFlag))
                           ELSE Res(TRUE, ShortNode(node.key, r.node, NewFlag))
      [] node.type = "branch" ->
           LET r == Delete(node.ch[key[1]], Tail(key))
           IN IF ~r.dirty THEN Res(FALSE, node)
              ELSE Res(TRUE, CollapseBranch([node.ch EXCEPT ![key[1]] = r.node]))
      [] node.type = "value" -> Res(TRUE, Nil)
      [] node.type = "nil"   -> Res(FALSE, Nil)
      [] node.type = "hash"  ->
           LET loaded == LoadNode(node)
               r == Delete(loaded, key)
           IN IF ~r.dirty THEN Res(FALSE, loaded) ELSE Res(TRUE, r.node)

(* Seeded fault: an empty value is written instead of deleting the key. *)
UpdateNoDelete(root, key, v) == Insert(root, KeybytesToHex(key), ValueNode(v)).node

(* Trie.Update: a non-empty value is inserted, an empty one (0) deletes.  *)
Update(root, key, v) ==
    IF v # 0 THEN Insert(root, KeybytesToHex(key), ValueNode(v)).node
             ELSE Delete(root, KeybytesToHex(key)).node

(* Trie.Get. *)
Get(root, key) == Lookup(root, KeybytesToHex(key), 0)

(***************************************************************************)
(* hasher.hash (hasher.go 54-140) with hasher.store (142-174).  A node    *)
(* with a cached hash returns it at once when not committing, and when    *)
(* committing if it is clean (collapsed to its hashNode).  Otherwise the  *)
(* children are hashed (a short node's value and nil children are not),  *)
(* and store names the node by its cached hash if it has one, else by the *)
(* hash of its encoding; the copy kept in the tree caches that hash and,  *)
(* when committing, is clean.  Which child is embedded instead (encoding  *)
(* under 32 bytes) is not modelled: every child is stored in the          *)
(* database, the case with most loads.  Result: [h, cached].             *)
(***************************************************************************)
StoreHash(n, computed) == IF n.flags.hash # NoHash THEN n.flags.hash ELSE computed

HashedFlags(n, h, commit) == [hash |-> h, dirty |-> n.flags.dirty /\ ~commit]

RECURSIVE HashOf(_, _)
HashOf(n, commit) ==
    IF /\ n.type \in {"short", "branch"} /\ n.flags.hash # NoHash
       /\ (~commit \/ ~n.flags.dirty)
    THEN [h |-> n.flags.hash, cached |-> IF commit THEN HashNode(n.flags.hash) ELSE n]
    ELSE CASE n.type = "short" ->
                LET c == IF n.val.type = "value" THEN [h |-> n.val, cached |-> n.val]
                         ELSE HashOf(n.val, commit)
                    h == StoreHash(n, CShort(n.key, c.h))
                IN [h |-> h, cached |-> [n EXCEPT !.val = c.cached,
                                                  !.flags = HashedFlags(n, h, commit)]]
           [] n.type = "branch" ->
                LET c == [i \in 0..16 |->
                            IF i = 16 \/ n.ch[i].type = "nil"
                            THEN [h |-> n.ch[i], cached |-> n.ch[i]]
                            ELSE HashOf(n.ch[i], commit)]
                    h == StoreHash(n, CBranch([i \in 0..16 |-> c[i].h]))
                IN [h |-> h, cached |-> [n EXCEPT !.ch = [i \in 0..16 |-> c[i].cached],
                                                  !.flags = HashedFlags(n, h, commit)]]
           [] n.type = "hash" -> [h |-> n.h, cached |-> n]
           [] OTHER           -> [h |-> n, cached |-> n]

(***************************************************************************)
(* The reference: the one trie that holds a set of entries [key, val]     *)
(* (hex keys).  No entry: nil.  One: a leaf.  Several with a common        *)
(* prefix: an extension over the trie of the rest.  Otherwise a branch on  *)
(* the first nibble, a key that ends there going to slot 16.                *)
(***************************************************************************)
RECURSIVE Build(_)
Build(E) ==
    IF E = {} THEN Nil
    ELSE IF Cardinality(E) = 1
    THEN LET e == CHOOSE e \in E : TRUE IN CShort(e.key, ValueNode(e.val))
    ELSE LET p == SeqExt!LongestCommonPrefix({e.key : e \in E})
             rest(F, n) == {[key |-> Drop(e.key, n), val |-> e.val] : e \in F}
         IN IF p # <<>> THEN CShort(p, Build(rest(E, Len(p))))
            ELSE CBranch([i \in 0..16 |->
                   LET Ei == {e \in E : e.key[1] = i}
                   IN IF i = Terminator
                      THEN IF Ei = {} THEN Nil
                           ELSE ValueNode((CHOOSE e \in Ei : TRUE).val)
                      ELSE Build(rest(Ei, 1))])

(***************************************************************************)
(* One Trie object used the way StateStorage uses the state trie: Update,  *)
(* Get, Hash (PostState), Commit, and New at the last committed root      *)
(* (Revert, LoadState).                                                   *)
(* content and storedContent record what the trie should hold.           *)
(***************************************************************************)
CONSTANTS
    Keys,       \* keys, as byte sequences
    Values      \* non-empty values; 0 is the empty value

VARIABLES
    root,           \* tree.root
    storedRoot,     \* the root hash the last Commit returned
    content,        \* Keys -> Values \cup {0}: what the trie should hold
    storedContent   \* content at the last Commit

trieVars == <<root, storedRoot, content, storedContent>>

NoContent == [k \in Keys |-> 0]

TrieInit ==
    /\ root = Nil
    /\ storedRoot = Nil
    /\ content = NoContent
    /\ storedContent = NoContent

TrieUpdate(k, v) ==
    /\ root' = Update(root, k, v)
    /\ content' = [content EXCEPT ![k] = v]
    /\ UNCHANGED <<storedRoot, storedContent>>

(* Get replaces the root when the path went through a hashNode. *)
TrieGet(k) ==
    /\ Get(root, k).reached
    /\ root' = Get(root, k).node
    /\ UNCHANGED <<storedRoot, content, storedContent>>

(* Trie.Hash: hashRoot without database; the tree keeps the cached copy. *)
TrieHash ==
    /\ root' = HashOf(root, FALSE).cached
    /\ UNCHANGED <<storedRoot, content, storedContent>>

(* Trie.Commit: hashRoot with the database stores every dirty node; the  *)
(* tree keeps the clean copy and the root hash is returned.              *)
TrieCommit ==
    /\ root' = HashOf(root, TRUE).cached
    /\ storedRoot' = HashOf(root, TRUE).h
    /\ storedContent' = content
    /\ UNCHANGED content

(* trie.New(rootHash): load the committed root from the database (none  *)
(* for the empty trie).                                                   *)
TrieNew ==
    /\ root' = IF storedRoot = Nil THEN Nil ELSE LoadNode(HashNode(storedRoot))
    /\ content' = storedContent
    /\ UNCHANGED <<storedRoot, storedContent>>

TrieNext ==
    \/ \E k \in Keys, v \in Values \cup {0} : TrieUpdate(k, v)
    \/ \E k \in Keys : TrieGet(k)
    \/ TrieHash
    \/ TrieCommit
    \/ TrieNew

TrieSpec == TrieInit /\ [][TrieNext]_trieVars

(***************************************************************************)
(* Properties.                                                             *)
(***************************************************************************)

(* The reference entries of a content map: the non-empty keys as nibbles. *)
Entries(c) == {[key |-> KeybytesToHex(k), val |-> c[k]] : k \in {x \in Keys : c[x] # 0}}

RECURSIVE WellTyped(_)
WellTyped(n) ==
    CASE n.type = "nil"    -> TRUE
      [] n.type = "value"  -> n.val \in Values
      [] n.type = "short"  -> /\ n.key # <<>>
                              /\ \A i \in 1..Len(n.key) : n.key[i] \in 0..16
                              /\ n.flags.dirty \in BOOLEAN
                              /\ WellTyped(n.val)
      [] n.type = "branch" -> /\ n.flags.dirty \in BOOLEAN
                              /\ \A i \in 0..16 : WellTyped(n.ch[i])
      [] n.type = "hash"   -> n.h.type \in {"short", "branch"}

(* Every node is well formed and holds only non-empty values: deleting a  *)
(* key (Update with an empty value) never leaves an empty value behind.   *)
TrieTypeOK ==
    /\ WellTyped(root)
    /\ content \in [Keys -> Values \cup {0}]

(* Get returns, for every key, the last value written to it since the     *)
(* last reopen, through inserts, deletes, commits and hashNode loads.     *)
GetMatchesContent ==
    \A k \in Keys : Get(root, k).value = content[k]

(* The root hash Trie.Hash would report commits to the content alone,    *)
(* whatever the order of inserts, deletes, hashes, commits and reopens:   *)
(* it is the hash of the reference trie, so no hash cached in a node is   *)
(* stale after an insert or a delete below it (every copy on the path    *)
(* gets a new, dirty flag), and the root Commit returned, from which New  *)
(* reloads, is that of the committed content.  This is what makes state  *)
(* roots agree between nodes.                                              *)
RootHashIsCanonical ==
    /\ HashOf(root, FALSE).h = Build(Entries(content))
    /\ storedRoot = Build(Entries(storedContent))

=============================================================================
