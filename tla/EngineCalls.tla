---------------------------- MODULE EngineCalls ----------------------------
(***************************************************************************)
(* Engine.Ignite with its host adapter (src/engine/engine.go, adapter.go, *)
(* event.go), one host function or VM step at a time.  A contract method  *)
(* is a straight-line program of host calls; the interpreter's own work   *)
(* is a "compute" instruction that burns the policy's opcode cost.  A     *)
(* cross-contract call pushes a child engine (newChildEngine) that shares *)
(* the state and the gas meter and forwards its events to its parent.     *)
(*                                                                         *)
(* The imports a VM resolves through Engine.GetFunction are taken to be   *)
(* resolved when called, so an alias bound by chain_method_bind earlier   *)
(* in the same run is found (vertexvm is outside src/).                   *)
(***************************************************************************)
EXTENDS Integers, Sequences, AbiTypes

CONSTANTS
    Contracts,          \* addresses whose account holds decodable code
    Plain,              \* addresses with an account but no code
    Absent,             \* addresses without an account
    Sender,             \* the transaction's sender (root engine's caller)
    Program,            \* Program[c][m]: the instructions of method m of c
    Creator,            \* Creator[c]: the account that deployed contract c
    Params,             \* Params[c][m]: the Parameters of m's declaration in
                        \* c's header, for each method the header declares
    VersionByte,        \* versionByteAccountID, an address's first byte
    Crc16(_),           \* crc16.Checksum: two bytes (package outside src/)
    Blake2b(_),         \* blake2b.Sum256 (package outside src/)
    Keys, Vals,         \* storage keys and values
    Aliases,            \* names a contract can bind with chain_method_bind
    NoBind,             \* methodLookup[alias] when unbound
    MaxEngineCallDepth, \* constant.MaxEngineCallDepth
    Calls,              \* [addr, method, limit, policy, args] of the root Ignite;
                        \* args: the byte strings the payload's RLP list decodes to
    MaxArgBytes,        \* loadArguments' limit on the arguments' total size
    NoResult

Addrs == Contracts \cup Plain \cup Absent

(* Instructions: the host imports of adapter.go and event.go that change  *)
(* state, and the VM's own work.                                          *)
Compute(cost)        == [op |-> "compute", cost |-> cost]
StorageSet(k, v, n)  == [op |-> "storage_set", key |-> k, val |-> <<v>>, size |-> n]
StoreCaller(k, n)    == [op |-> "store_caller", key |-> k, size |-> n]
Emit(e, n)           == [op |-> "event", event |-> e, size |-> n]
MethodBind(a, c, m)  == [op |-> "method_bind", alias |-> a, addr |-> c, method |-> m,
                         mlen |-> 1, alen |-> 1]  \* name lengths, the NUL included
MethodBindEmpty(a, c, m) == [MethodBind(a, c, m) EXCEPT !.mlen = 0]
InvokeAlias(a, js)   == [op |-> "alias", alias |-> a, args |-> js]  \* passes own args js
StoreArg(k, i)       == [op |-> "store_arg", key |-> k, arg |-> i]
StoreValue(k, i, n)  == [op |-> "store_value", key |-> k, arg |-> i, size |-> n]
CopyStorage(k, l, p) == [op |-> "copy_storage", from |-> k, to |-> l, ptr |-> p]
StoreSelf(k, n)      == [op |-> "store_self", key |-> k, size |-> n]
StoreCreator(k, n)   == [op |-> "store_creator", key |-> k, size |-> n]
ProcExit             == [op |-> "proc_exit"]
Loop(cost)           == [op |-> "loop", cost |-> cost]  \* opcodes, then br to the start
ArgsWrite(b, i)      == [op |-> "args_write", buf |-> b, arg |-> i]
ArgsHash(b, h, k)    == [op |-> "args_hash", buf |-> b, ptr |-> h, key |-> k]

(* The policy's price of n units (AlphaPolicy prices an opcode by its     *)
(* table entry, storage and events by their size; FreePolicy prices 0).   *)
Cost(policy, n) == IF policy = "free" THEN 0 ELSE n

NoBinds == [a \in Aliases |-> NoBind]

(***************************************************************************)
(* Arguments.  An argument is a byte slice DecodeToBytes split off the   *)
(* payload; its parameter in the header says its kind.  An array (or    *)
(* address) goes to VM memory after the data end and is passed as a      *)
(* pointer, whose size goes to ptrArgSizeMap; a scalar is passed as its   *)
(* value, the slice read as a little-endian uint64.                        *)
(* Memory is a function from offsets (relative to the data end) to bytes. *)
(***************************************************************************)
NoMem == [o \in {} |-> 0]

(* vm.MemWrite(bytes, offset). *)
MemWrite(mem, bytes, off) ==
    [o \in DOMAIN mem \cup {off + j - 1 : j \in 1..Len(bytes)} |->
       IF o \in off..off + Len(bytes) - 1 THEN bytes[o - off + 1] ELSE mem[o]]

(* crypto.AddressFromBytes on a non-nil slice: decodeAddressBytes indexes *)
(* raw[0] and slices raw[1:len-2], which panics for fewer than 3 bytes;   *)
(* then the version byte and the checksum of the rest must match.         *)
AddressFromBytes(raw) ==
    IF Len(raw) < 3 THEN "panic"
    ELSE IF raw[1] = VersionByte
            /\ Crc16(SubSeq(raw, 1, Len(raw) - 2)) = SubSeq(raw, Len(raw) - 1, Len(raw))
         THEN "ok" ELSE "error"

SeqExt == INSTANCE SequencesExt

(* pointerSize, and binary.LittleEndian.PutUint32 / Uint32 of a pointer *)
(* (a wasm32 offset, so uint32 keeps it whole).                           *)
PointerSize == 4
LE32(v) == [j \in 1..PointerSize |-> (v \div (256 ^ (j - 1))) % 256]
FromLE32(bs) == SeqExt!FoldRight(LAMBDA b, n : b + 256 * n, bs, 0)

(* rlp.EncodeToBytes of a list of byte strings, each and the whole list  *)
(* shorter than 56 bytes: a single byte below 0x80 is itself, a string   *)
(* gets the prefix 0x80 + length, the list 0xc0 + payload length.        *)
RlpString(bs) == IF Len(bs) = 1 /\ bs[1] < 128 THEN bs ELSE <<128 + Len(bs)>> \o bs
RlpList(vs) ==
    LET payload == SeqExt!FoldLeft(LAMBDA acc, v : acc \o RlpString(v), <<>>, vs)
    IN <<192 + Len(payload)>> \o payload

SetSize(sizes, p, n) == [q \in DOMAIN sizes \cup {p} |-> IF q = p THEN n ELSE sizes[q]]

(* loadArguments lays out an array or an address parameter in memory and *)
(* passes its pointer; any other is passed as a value.                   *)
LoadsAsArray(p) == p.isArray \/ IsAddress(p.type)

(* A scalar's bytes copied into a zeroed 8-byte buffer (copy stops at 8) *)
(* and read with binary.LittleEndian.Uint64: no check against the type. *)
ScalarValue(bs) ==
    SeqExt!FoldRight(LAMBDA b, n : b + 256 * n, SubSeq(bs \o [j \in 1..8 |-> 0], 1, 8), 0)

(* binary.LittleEndian.PutUint64 into 8 bytes. *)
RECURSIVE LEBytes(_, _)
LEBytes(v, n) == IF n = 0 THEN <<>> ELSE <<v % 256>> \o LEBytes(v \div 256, n - 1)
LE64(v) == LEBytes(v, 8)

RECURSIVE LoadFrom(_, _, _, _)
LoadFrom(params, args, i, acc) ==
    IF i > Len(args) \/ acc.status # "ok" THEN acc
    ELSE LoadFrom(params, args, i + 1,
           IF IsAddress(params[i].type) /\ AddressFromBytes(args[i]) # "ok"
           THEN [acc EXCEPT !.status = AddressFromBytes(args[i])]
           ELSE IF LoadsAsArray(params[i])
           THEN [acc EXCEPT !.mem = MemWrite(@, args[i], acc.offset),
                            !.argv = Append(@, acc.offset),
                            !.sizes = SetSize(@, acc.offset, Len(args[i])),
                            !.offset = @ + Len(args[i])]
           ELSE [acc EXCEPT !.argv = Append(@, ScalarValue(args[i]))])

RECURSIVE ByteSize(_)
ByteSize(args) == IF args = <<>> THEN 0 ELSE Len(Head(args)) + ByteSize(Tail(args))

NoArgs == [status |-> "ok", mem |-> NoMem, sizes |-> NoMem, argv |-> <<>>, offset |-> 0]

(* Seeded fault: the size limit refuses the boundary as well. *)
LoadArgumentsStrict(params, args) ==
    IF ByteSize(args) >= MaxArgBytes THEN [NoArgs EXCEPT !.status = "error"]
    ELSE LoadFrom(params, args, 1, NoArgs)

(* Engine.loadArguments: refuse more than MaxArgBytes in all, then lay    *)
(* the arguments out in order from the data end.                          *)
LoadArguments(params, args) ==
    IF ByteSize(args) > MaxArgBytes THEN [NoArgs EXCEPT !.status = "error"]
    ELSE LoadFrom(params, args, 1, NoArgs)

(* NewEngine: depth 0, the sender as caller, meter 1 with the gas limit; *)
(* pc 0 until Ignite has loaded its arguments (pending) into the new VM. *)
RootEngine(c) ==
    [addr |-> c.addr, caller |-> Sender, method |-> c.method, pc |-> 0,
     depth |-> 0, lookup |-> NoBinds, gas |-> 1, events |-> <<>>,
     pending |-> c.args, mem |-> NoMem, sizes |-> NoMem, argv |-> <<>>]

Prog(f) == Program[f.addr][f.method]

VARIABLES
    call,       \* the root invocation
    frames,     \* the engines, root first, the running one last
    meters,     \* the vm.Gas meters: [used, limit]
    store,      \* account storage, shared by all engines: <<addr, key>>
    status,     \* "running", "ok", "error" (an Ignite error), "panic"
    emitted     \* history: every event in the order it was emitted

vars == <<call, frames, meters, store, status, emitted>>

Top == frames[Len(frames)]
Instr == Prog(Top)[Top.pc]
Advance(f) == [f EXCEPT !.pc = @ + 1]
SetTop(f) == [frames EXCEPT ![Len(frames)] = f]

(* Storage values are byte strings; an absent key reads as no bytes. *)
EmptyStore == [x \in Contracts \X Keys |-> <<>>]

Init ==
    /\ call \in Calls
    /\ frames = <<RootEngine(call)>>
    /\ meters = <<[used |-> 0, limit |-> call.limit]>>
    /\ store = EmptyStore
    /\ status = "running"
    /\ emitted = <<>>

(* A host function or instruction fails: the VM traps and the error runs *)
(* up through every enclosing host call to Ignite's caller.              *)
Fail(why) ==
    /\ status' = why
    /\ UNCHANGED <<call, frames, meters, store, emitted>>

(* vm.BurnGas(cost) on meter m, then Effect.  Over the limit it fails;    *)
(* what the meter reads then is vertexvm's: as before, or the limit.      *)
BurnThen(m, cost, Effect) ==
    IF meters[m].used + cost <= meters[m].limit
    THEN /\ meters' = [meters EXCEPT ![m].used = @ + cost]
         /\ Effect
    ELSE /\ \E u \in {meters[m].used, meters[m].limit} :
              meters' = [meters EXCEPT ![m].used = u]
         /\ status' = "error"
         /\ UNCHANGED <<call, frames, store, emitted>>

Step(op) == status = "running" /\ Top.pc >= 1 /\ Top.pc <= Len(Prog(Top)) /\ Instr.op = op

(* Header.GetFunction: the method's parameters, by its MethodID. *)
GetFunction(c, m) == Params[c][m]

(* abi.DecodeToBytes: the payload's list must hold one argument per     *)
(* parameter (the RLP decoding itself is below the model).               *)
DecodeToBytesOK(params, args) == Len(params) = Len(args)

(* Engine.Ignite up to vm.Invoke, for the root engine or a child: the    *)
(* method must be an export of the code (GetFunctionIndex) and a function *)
(* of the header; DecodeToBytes wants one argument per parameter; then   *)
(* loadArguments writes them into the VM's memory or fails.               *)
LoadArgs ==
    /\ status = "running" /\ Top.pc = 0
    /\ IF Top.method \notin DOMAIN Program[Top.addr]
          \/ Top.method \notin DOMAIN Params[Top.addr]
          \/ ~DecodeToBytesOK(GetFunction(Top.addr, Top.method), Top.pending)
       THEN Fail("error")
       ELSE LET l == LoadArguments(GetFunction(Top.addr, Top.method), Top.pending)
            IN IF l.status # "ok" THEN Fail(l.status)
               ELSE /\ frames' = SetTop([Top EXCEPT !.pc = 1, !.mem = l.mem,
                                            !.sizes = l.sizes, !.argv = l.argv])
                    /\ UNCHANGED <<call, meters, store, status, emitted>>

(* The VM executes opcodes of the method. *)
ExecCompute ==
    /\ Step("compute")
    /\ BurnThen(Top.gas, Cost(call.policy, Instr.cost),
         /\ frames' = SetTop(Advance(Top))
         /\ UNCHANGED <<call, store, status, emitted>>)

(* Seeded fault: the loop's opcodes are not metered. *)
ExecLoopNoBurn ==
    /\ Step("loop")
    /\ frames' = SetTop([Top EXCEPT !.pc = 1])
    /\ UNCHANGED <<call, meters, store, status, emitted>>

(* The VM executes a loop body of opcodes, then branches to its start.  *)
ExecLoop ==
    /\ Step("loop")
    /\ BurnThen(Top.gas, Cost(call.policy, Instr.cost),
         /\ frames' = SetTop([Top EXCEPT !.pc = 1])
         /\ UNCHANGED <<call, store, status, emitted>>)

(* chainStorageSet: burn policy.storage(size), then write. *)
ChainStorageSet(key, val, size) ==
    BurnThen(Top.gas, Cost(call.policy, size),
         /\ store' = [store EXCEPT ![<<Top.addr, key>>] = val]
         /\ frames' = SetTop(Advance(Top))
         /\ UNCHANGED <<call, status, emitted>>)

ExecStorageSet ==
    /\ Step("storage_set")
    /\ ChainStorageSet(Instr.key, Instr.val, Instr.size)

(* chain_get_caller, then chain_storage_set of the caller address read. *)
ExecStoreCaller ==
    /\ Step("store_caller")
    /\ ChainStorageSet(Instr.key, <<Top.caller>>, Instr.size)

(* chain_get_contract_address, then chain_storage_set of it. *)
ExecStoreSelf ==
    /\ Step("store_self")
    /\ ChainStorageSet(Instr.key, <<Top.addr>>, Instr.size)

(* chain_get_creator (the account's recorded creator), then             *)
(* chain_storage_set of it.                                               *)
ExecStoreCreator ==
    /\ Step("store_creator")
    /\ ChainStorageSet(Instr.key, <<Creator[Top.addr]>>, Instr.size)

(* readAt: size bytes of the VM's memory from ptr (fresh memory is 0). *)
ReadAt(f, ptr, size) ==
    [j \in 1..size |-> IF ptr + j - 1 \in DOMAIN f.mem THEN f.mem[ptr + j - 1] ELSE 0]

(* ptrArgSizeGet, whose error handleInvokeAlias and chainArgsWrite drop: size 0. *)
PtrArgSize(f, p) == IF p \in DOMAIN f.sizes THEN f.sizes[p] ELSE 0

(* chain_storage_size_get and chain_storage_get of key from: the value   *)
(* of the account's storage, which engines of the same contract share, is *)
(* written to memory at ptr (no gas); then chain_storage_set of key to    *)
(* with the bytes at ptr.                                                  *)
ExecCopyStorage ==
    /\ Step("copy_storage")
    /\ LET v == store[<<Top.addr, Instr.from>>]
           f == [Top EXCEPT !.mem = MemWrite(@, v, Instr.ptr)]
       IN BurnThen(Top.gas, Cost(call.policy, Len(v)),
            /\ store' = [store EXCEPT ![<<Top.addr, Instr.to>>] = ReadAt(f, Instr.ptr, Len(v))]
            /\ frames' = SetTop(Advance(f))
            /\ UNCHANGED <<call, status, emitted>>)

(* The contract stores its array argument i: chain_arg_size_get on its   *)
(* pointer (an error for a pointer without size), then chain_storage_set *)
(* of that many bytes from it.                                            *)
ExecStoreArg ==
    /\ Step("store_arg")
    /\ LET p == Top.argv[Instr.arg]
       IN IF p \notin DOMAIN Top.sizes THEN Fail("error")
          ELSE ChainStorageSet(Instr.key, ReadAt(Top, p, Top.sizes[p]), Top.sizes[p])

(* The contract stores the low n bytes of its scalar argument i: an     *)
(* i64.store of the value, then chain_storage_set of n bytes from it.    *)
ExecStoreValue ==
    /\ Step("store_value")
    /\ ChainStorageSet(Instr.key, SubSeq(LE64(Top.argv[Instr.arg]), 1, Instr.size), Instr.size)

(* chain_arg_size_get of argument i's pointer (an error without size),   *)
(* then chain_args_write(b, pointer, size): the buffer's size, 0 when b  *)
(* has none (the error is dropped), says where the pointer goes; the     *)
(* pointer's size is recorded, then the buffer's grows by pointerSize.   *)
ExecArgsWrite ==
    /\ Step("args_write")
    /\ LET v  == Top.argv[Instr.arg]
           b  == Instr.buf
           bs == PtrArgSize(Top, b)
       IN IF v \notin DOMAIN Top.sizes THEN Fail("error")
          ELSE /\ frames' = SetTop([Advance(Top) EXCEPT
                             !.mem = MemWrite(@, LE32(v), b + bs),
                             !.sizes = SetSize(SetSize(@, v, Top.sizes[v]), b, bs + PointerSize)])
               /\ UNCHANGED <<call, meters, store, status, emitted>>

(* The pointers chain_args_hash reads from buffer b: size / pointerSize  *)
(* little-endian words.                                                   *)
BufferPtrs(f, b) ==
    [j \in 1..(f.sizes[b] \div PointerSize) |->
       FromLE32(ReadAt(f, b + (j - 1) * PointerSize, PointerSize))]

(* chain_args_hash(b, h): an error for a buffer or a pointer in it       *)
(* without size; the Blake2b of the RLP list of the values the pointers   *)
(* give goes to memory at h (no gas); then chain_storage_set of key k    *)
(* with the digest read from h.                                           *)
ExecArgsHash ==
    /\ Step("args_hash")
    /\ IF Instr.buf \notin DOMAIN Top.sizes THEN Fail("error")
       ELSE LET ps == BufferPtrs(Top, Instr.buf) IN
            IF \E j \in DOMAIN ps : ps[j] \notin DOMAIN Top.sizes THEN Fail("error")
            ELSE LET d == Blake2b(RlpList([j \in DOMAIN ps |->
                                              ReadAt(Top, ps[j], Top.sizes[ps[j]])]))
                     f == [Top EXCEPT !.mem = MemWrite(@, d, Instr.ptr)]
                 IN BurnThen(Top.gas, Cost(call.policy, Len(d)),
                      /\ store' = [store EXCEPT ![<<Top.addr, Instr.key>>] =
                                                   ReadAt(f, Instr.ptr, Len(d))]
                      /\ frames' = SetTop(Advance(f))
                      /\ UNCHANGED <<call, status, emitted>>)

(* Seeded fault: every engine keeps its own events. *)
PushEventLocal(fs, i, e) == [fs EXCEPT ![i].events = Append(@, e)]

(* pushEvent: an engine with a parent hands the event to it. *)
RECURSIVE PushEvent(_, _, _)
PushEvent(fs, i, e) ==
    IF i > 1 THEN PushEvent(fs, i - 1, e)
             ELSE [fs EXCEPT ![i].events = Append(@, e)]

(* handleEmitEvent: encode, burn policy.event(len), push the event. *)
ExecEmit ==
    /\ Step("event")
    /\ LET e == [contract |-> Top.addr, id |-> Instr.event]
       IN BurnThen(Top.gas, Cost(call.policy, Instr.size),
            /\ frames' = PushEvent(SetTop(Advance(Top)), Len(frames), e)
            /\ emitted' = Append(emitted, e)
            /\ UNCHANGED <<call, store, status>>)

(* chainMethodBind: the names lose their last byte (the NUL), a slice   *)
(* [:len-1] that panics for a name of length 0; then                     *)
(* methodLookup[alias] = foreignMethod{addr, method}.                    *)
ExecMethodBind ==
    /\ Step("method_bind")
    /\ IF Instr.mlen = 0 \/ Instr.alen = 0 THEN Fail("panic")
       ELSE /\ frames' = SetTop([Advance(Top) EXCEPT
                   !.lookup[Instr.alias] = [addr |-> Instr.addr, method |-> Instr.method]])
            /\ UNCHANGED <<call, meters, store, status, emitted>>

(* handleInvokeAlias's loop over the parameters: an array parameter's   *)
(* bytes are read from the caller's memory at the pointer passed, as many *)
(* as ptrArgSizeMap records; a pointer type's are GetMemorySize bytes    *)
(* from the pointer; a scalar's value is put as 8 little-endian bytes    *)
(* and cut to the callee's type's GetMemorySize.                          *)
AliasArgs(f, params, js) ==
    [i \in 1..Len(js) |->
       CASE params[i].isArray         -> ReadAt(f, f.argv[js[i]], PtrArgSize(f, f.argv[js[i]]))
         [] IsPointer(params[i].type) -> ReadAt(f, f.argv[js[i]], GetMemorySize(params[i].type))
         [] OTHER -> SubSeq(LE64(f.argv[js[i]]), 1, GetMemorySize(params[i].type))]

(* Seeded fault: the child inherits its parent's caller. *)
NewChildEngineInheritCaller(parent, target, method, args) ==
    [addr |-> target, caller |-> parent.caller, method |-> method, pc |-> 0,
     depth |-> parent.depth + 1, lookup |-> NoBinds, gas |-> parent.gas,
     events |-> <<>>, pending |-> args, mem |-> NoMem, sizes |-> NoMem, argv |-> <<>>]

(* newChildEngine: same state and meter, the parent contract as caller; *)
(* the child's Ignite then loads the arguments (pending).               *)
NewChildEngine(parent, target, method, args) ==
    [addr |-> target, caller |-> parent.addr, method |-> method, pc |-> 0,
     depth |-> parent.depth + 1, lookup |-> NoBinds, gas |-> parent.gas,
     events |-> <<>>, pending |-> args, mem |-> NoMem, sizes |-> NoMem, argv |-> <<>>]

(* Seeded fault: the depth limit lets one call too many through. *)
DepthExceededLate(depth) == depth > MaxEngineCallDepth

(* handleInvokeAlias refuses a call past constant.MaxEngineCallDepth. *)
DepthExceeded(depth) == depth + 1 > MaxEngineCallDepth

(* Engine.GetFunction for an import of module env that is no built-in:   *)
(* the method bound to the name, NoBind (an unknown import) if none.      *)
ResolveAlias(f, alias) == f.lookup[alias]

(* GetFunction's default case for the alias, then handleInvokeAlias:     *)
(* an unbound name is an unknown import; the depth limit; LoadAccount of  *)
(* the target, nil for an address without account, whose GetContract     *)
(* dereferences nil; a target without code fails, and so do a method    *)
(* the target's header lacks and a call with another argument count;     *)
(* otherwise the arguments are read back from the caller's memory and    *)
(* the child engine Ignites the method with them.                         *)
ExecInvokeAlias ==
    /\ Step("alias")
    /\ LET fm == ResolveAlias(Top, Instr.alias)
       IN IF fm = NoBind THEN Fail("error")
          ELSE IF DepthExceeded(Top.depth) THEN Fail("error")
          ELSE IF fm.addr \in Absent THEN Fail("panic")
          ELSE IF fm.addr \notin Contracts
                  \/ fm.method \notin DOMAIN Params[fm.addr]
                  \/ Len(GetFunction(fm.addr, fm.method)) # Len(Instr.args) THEN Fail("error")
          ELSE /\ frames' = Append(SetTop(Advance(Top)),
                                   NewChildEngine(Top, fm.addr, fm.method,
                                     AliasArgs(Top, GetFunction(fm.addr, fm.method), Instr.args)))
               /\ UNCHANGED <<call, meters, store, status, emitted>>

(* wasi_unstable proc_exit / proc_raise abort the run. *)
ExecProcExit ==
    /\ Step("proc_exit")
    /\ Fail("error")

(* The method returns: a child's Ignite returns into its parent's host   *)
(* call, the root's Ignite to its caller.                                 *)
Return ==
    /\ status = "running"
    /\ Top.pc >= 1 /\ Top.pc > Len(Prog(Top))
    /\ IF Len(frames) = 1
       THEN /\ status' = "ok"
            /\ UNCHANGED <<call, frames, meters, store, emitted>>
       ELSE /\ frames' = SubSeq(frames, 1, Len(frames) - 1)
            /\ UNCHANGED <<call, meters, store, status, emitted>>

Next ==
    \/ LoadArgs
    \/ ExecCompute
    \/ ExecLoop
    \/ ExecStorageSet
    \/ ExecStoreArg
    \/ ExecStoreValue
    \/ ExecArgsWrite
    \/ ExecArgsHash
    \/ ExecCopyStorage
    \/ ExecStoreSelf
    \/ ExecStoreCreator
    \/ ExecStoreCaller
    \/ ExecEmit
    \/ ExecMethodBind
    \/ ExecInvokeAlias
    \/ ExecProcExit
    \/ Return

Spec == Init /\ [][Next]_vars

(* Ignite runs the VM on the goroutine that called it (DeliverTx or an   *)
(* API call) until the method returns or traps: a running engine keeps   *)
(* taking steps.                                                          *)
FairSpec == Spec /\ WF_vars(Next)

(***************************************************************************)
(* The reference: the call semantics of spec section 4.6 as a recursive   *)
(* evaluation, with one gas counter and one event list.  A configuration *)
(* is [status, used, store, events]; Run returns every configuration a    *)
(* method can end in, status "ok" while it has not failed.               *)
(***************************************************************************)
RefBurn(c, cost, limit) ==
    IF c.used + cost <= limit THEN {[c EXCEPT !.used = @ + cost]}
    ELSE {[c EXCEPT !.status = "error", !.used = u] : u \in {c.used, limit}}

RefFail(c, why) == {[c EXCEPT !.status = why]}

(* Spec section 4.6: the decoded arguments total at most 1024 bytes. *)
RefArgsFit(args) ==
    SeqExt!FoldLeft(LAMBDA n, a : n + Len(a), 0, args) <= MaxArgBytes

(* Spec section 4.6: method m of contract c can be called with args when *)
(* the code exports it, the header declares it with one parameter per    *)
(* argument, and the arguments fit the scratch cap; then the first       *)
(* address argument that is no address decides the outcome.               *)
RefIgniteStatus(c, m, args) ==
    IF \/ m \notin DOMAIN Program[c] \/ m \notin DOMAIN Params[c]
       \/ Len(Params[c][m]) # Len(args) \/ ~RefArgsFit(args)
    THEN "error"
    ELSE LET bad == {i \in DOMAIN args : IsAddress(Params[c][m][i].type)
                                         /\ AddressFromBytes(args[i]) # "ok"}
         IN IF bad = {} THEN "ok"
            ELSE AddressFromBytes(args[CHOOSE i \in bad : \A j \in bad : i <= j])

(* Spec section 4.6, host functions: chain_args_write adds a value to    *)
(* the vector buffer b builds; bufs maps each buffer to its vector.      *)
NoBufs == [b \in {} |-> <<>>]
BufAppend(bufs, b, v) ==
    [x \in DOMAIN bufs \cup {b} |->
       IF x # b THEN bufs[x] ELSE Append(IF b \in DOMAIN bufs THEN bufs[b] ELSE <<>>, v)]

(* Spec section 4.6: a scalar argument is zero-padded to 8 bytes.        *)
RefScalar(bs) == SubSeq(bs \o [j \in 1..8 |-> 0], 1, 8)

(* Spec section 4.6: a nested call rebuilds each argument's raw bytes;   *)
(* array and address arguments are the bytes the caller was given, a    *)
(* scalar the callee's width of the caller's padded value.                *)
RefPassed(r, fm, js) ==
    LET ps == IF fm.method \in DOMAIN Params[fm.addr] THEN Params[fm.addr][fm.method] ELSE <<>>
    IN [i \in 1..Len(js) |->
          IF i <= Len(ps) /\ ~LoadsAsArray(ps[i])
          THEN SubSeq(RefScalar(r.args[js[i]]), 1, GetMemorySize(ps[i].type))
          ELSE r.args[js[i]]]

RECURSIVE RunFrom(_, _, _)
RunFrom(r, c, k) ==
    IF c.status # "ok" \/ r.pc > Len(Prog(r)) THEN {c}
    ELSE LET I  == Prog(r)[r.pc]
             nx == [r EXCEPT !.pc = @ + 1]
             then(S) == UNION {RunFrom(nx, c2, k) : c2 \in S}
             write(key, val, size) ==
                 {IF c2.status = "ok" THEN [c2 EXCEPT !.store[<<r.addr, key>>] = val]
                  ELSE c2 : c2 \in RefBurn(c, Cost(k.policy, size), k.limit)}
             fm == IF I.op = "alias" THEN ResolveAlias(r, I.alias) ELSE NoBind
             passed == IF I.op = "alias" THEN RefPassed(r, fm, I.args) ELSE <<>>
         IN CASE I.op = "compute" ->
                   then(RefBurn(c, Cost(k.policy, I.cost), k.limit))
              [] I.op = "loop" ->
                   \* a body that costs nothing loops forever: Ignite never returns
                   IF Cost(k.policy, I.cost) = 0 THEN {}
                   ELSE UNION {RunFrom([r EXCEPT !.pc = 1], c2, k) :
                                 c2 \in RefBurn(c, Cost(k.policy, I.cost), k.limit)}
              [] I.op = "storage_set"  -> then(write(I.key, I.val, I.size))
              [] I.op = "store_caller" -> then(write(I.key, <<r.caller>>, I.size))
              [] I.op = "store_self"    -> then(write(I.key, <<r.addr>>, I.size))
              [] I.op = "store_creator" -> then(write(I.key, <<Creator[r.addr]>>, I.size))
              [] I.op = "copy_storage" ->
                   LET v == c.store[<<r.addr, I.from>>]
                   IN then({IF c2.status = "ok" THEN [c2 EXCEPT !.store[<<r.addr, I.to>>] = v]
                            ELSE c2 : c2 \in RefBurn(c, Cost(k.policy, Len(v)), k.limit)})
              [] I.op = "store_arg" ->
                   then(write(I.key, r.args[I.arg], Len(r.args[I.arg])))
              [] I.op = "store_value" ->
                   then(write(I.key, SubSeq(RefScalar(r.args[I.arg]), 1, I.size), I.size))
              [] I.op = "args_write" ->
                   RunFrom([nx EXCEPT !.bufs = BufAppend(@, I.buf, r.args[I.arg])], c, k)
              [] I.op = "args_hash" ->
                   \* the RLP-Blake2b hash of the buffer's vector; none yet: an error
                   IF I.buf \notin DOMAIN r.bufs THEN RefFail(c, "error")
                   ELSE LET d == Blake2b(RlpList(r.bufs[I.buf]))
                        IN then(write(I.key, d, Len(d)))
              [] I.op = "event" ->
                   then({IF c2.status = "ok"
                         THEN [c2 EXCEPT !.events =
                                 Append(@, [contract |-> r.addr, id |-> I.event])]
                         ELSE c2 : c2 \in RefBurn(c, Cost(k.policy, I.size), k.limit)})
              [] I.op = "method_bind" ->
                   IF I.mlen = 0 \/ I.alen = 0 THEN RefFail(c, "error") ELSE
                   RunFrom([nx EXCEPT !.lookup[I.alias] =
                              [addr |-> I.addr, method |-> I.method]], c, k)
              [] I.op = "alias" ->
                   IF fm = NoBind \/ r.depth + 1 > MaxEngineCallDepth
                   THEN RefFail(c, "error")
                   ELSE IF fm.addr \in Absent THEN RefFail(c, "panic")
                   ELSE IF fm.addr \notin Contracts THEN RefFail(c, "error")
                   ELSE IF RefIgniteStatus(fm.addr, fm.method, passed) # "ok"
                   THEN RefFail(c, RefIgniteStatus(fm.addr, fm.method, passed))
                   ELSE then(RunFrom([addr |-> fm.addr, caller |-> r.addr,
                                      method |-> fm.method, pc |-> 1,
                                      depth |-> r.depth + 1, lookup |-> NoBinds,
                                      args |-> passed, bufs |-> NoBufs],
                                     c, k))
              [] I.op = "proc_exit" -> RefFail(c, "error")

(* The outcomes of the root Ignite of invocation k: a method that cannot *)
(* be called with its arguments fails before the VM runs.                 *)
RefOutcomes(k) ==
    IF RefIgniteStatus(k.addr, k.method, k.args) # "ok"
    THEN {[status |-> RefIgniteStatus(k.addr, k.method, k.args), used |-> 0,
           store |-> EmptyStore, events |-> <<>>]}
    ELSE RunFrom([addr |-> k.addr, caller |-> Sender, method |-> k.method, pc |-> 1,
                  depth |-> 0, lookup |-> NoBinds, args |-> k.args, bufs |-> NoBufs],
            [status |-> "ok", used |-> 0, store |-> EmptyStore, events |-> <<>>], k)

(* What Ignite's caller sees: the status, GetGasUsed (the root engine's   *)
(* meter), the storage, GetEvents (the root engine's list).               *)
IgniteResult ==
    IF status = "running" THEN NoResult
    ELSE [status |-> status, used |-> meters[1].used, store |-> store,
          events |-> frames[1].events]

Abstract == INSTANCE EngineIgnite WITH Outcomes <- RefOutcomes, result <- IgniteResult

(***************************************************************************)
(* Properties.                                                             *)
(***************************************************************************)

Statuses == {"running", "ok", "error", "panic"}

(* Types; and no engine ever runs deeper than constant.MaxEngineCallDepth: *)
(* handleInvokeAlias refuses the call that would go past it.              *)
TypeOK ==
    /\ status \in Statuses
    /\ frames # <<>> /\ Len(frames) <= MaxEngineCallDepth + 1
    /\ \A i \in 1..Len(frames) :
          /\ frames[i].depth = i - 1
          /\ frames[i].depth \in 0..MaxEngineCallDepth
          /\ frames[i].gas \in DOMAIN meters
    /\ \A m \in DOMAIN meters : meters[m].used \in 0..meters[m].limit
    /\ store \in [Contracts \X Keys ->
                   Seq(Vals \cup Addrs \cup {Sender} \cup {Creator[c] : c \in Contracts} \cup 0..255)]

(* Spec section 5: events are listed in emission order, those of nested  *)
(* calls included.  At every step the root engine's list, which Ignite's *)
(* caller reads with GetEvents, is every event emitted so far, in order: *)
(* pushEvent forwards a child's events up the parent chain.              *)
EventsBubbleInOrder == frames[1].events = emitted

(* Every run of the step-by-step engine, through nested calls sharing one *)
(* meter, ends in an outcome the call semantics allow: the same status,  *)
(* gas, storage (child engines run with their parent contract as caller) *)
(* and events as the reference evaluation.                                *)
IgniteRefinesSpec == Abstract!Spec

(* Spec section 4.6: a failing host function traps the VM and a bad      *)
(* argument fails Ignite, which returns IGNITE_ERROR; Ignite never panics *)
(* the node, whatever the payload's arguments and the bound addresses.   *)
IgniteNeverPanics == status # "panic"

(* Under a pricing policy every Ignite returns: each opcode burns gas from *)
(* the one meter all engines share, and the depth limit bounds the nesting, *)
(* so a looping method runs out of gas and the transaction completes.      *)
IgniteTerminates == call.policy = "alpha" ~> status # "running"

(* Spec section 4.6: each array argument is copied to VM memory and its *)
(* pointer passed with ptr_sizes[offset] = len, so every engine that has *)
(* loaded its arguments (past pc 0) reads back, through each pointer and *)
(* the size chain_arg_size_get gives for it, the bytes it was given.     *)
ArgsReadBack ==
    \A n \in DOMAIN frames :
        LET f == frames[n] IN
        f.pc > 0 =>
            \A i \in DOMAIN f.pending :
                LoadsAsArray(GetFunction(f.addr, f.method)[i]) =>
                    /\ f.argv[i] \in DOMAIN f.sizes
                    /\ ReadAt(f, f.argv[i], f.sizes[f.argv[i]]) = f.pending[i]

=============================================================================
