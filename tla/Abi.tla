-------------------------------- MODULE Abi --------------------------------
(***************************************************************************)
(* The contract header codec of src/abi/header.go and GetMethodID of      *)
(* src/crypto/method_signature.go.  A wire header is the struct the RLP   *)
(* decoder fills: Version and the lists of functions and events, each a  *)
(* [name, parameters] record in the order the bytes list them.  A decoded *)
(* Header maps MethodIDs to those records.  RLP encoding is injective and *)
(* deterministic for a given struct, so the struct Encode hands to it     *)
(* stands for the bytes.                                                  *)
(***************************************************************************)
EXTENDS Naturals, Sequences, SequencesExt, AbiTypes

CONSTANT MethodIDOf(_)  \* the first 4 bytes of blake2b.Sum256(name), read
                        \* big-endian, so bytes.Compare on them is <

(* GetMethodID: the first methodIDLength bytes of the name's hash. *)
GetMethodID(name) == MethodIDOf(name)

NoHeader == [version |-> 0, functions |-> <<>>, events |-> <<>>]

(* The MethodID of each declaration, in wire order. *)
DeclIds(ds) == [i \in DOMAIN ds |-> GetMethodID(ds[i].name)]

(* The map the decode loop builds: each id to the declaration with it. *)
ByMethodID(ds) ==
    [id \in Range(DeclIds(ds)) |-> ds[CHOOSE i \in DOMAIN ds : DeclIds(ds)[i] = id]]

(* DecodeHeader: the functions loop returns on the first MethodID seen   *)
(* twice, then the events loop does.                                      *)
DecodeHeader(w) ==
    IF ~IsInjective(DeclIds(w.functions))
    THEN [err |-> "duplicated_functions", header |-> NoHeader]
    ELSE IF ~IsInjective(DeclIds(w.events))
    THEN [err |-> "duplicated_events", header |-> NoHeader]
    ELSE [err |-> "none",
          header |-> [version |-> w.version, functions |-> ByMethodID(w.functions),
                      events |-> ByMethodID(w.events)]]

(* GetFunction / GetFunctionByMethodID / GetEvent: the declaration under *)
(* the name's MethodID, or none.                                           *)
HasFunction(h, name) == GetMethodID(name) \in DOMAIN h.functions
GetFunction(h, name) == h.functions[GetMethodID(name)]
GetFunctionByMethodID(h, id) == h.functions[id]
HasEvent(h, name) == GetMethodID(name) \in DOMAIN h.events
GetEvent(h, name) == h.events[GetMethodID(name)]

(* sortMethodIDs: sort.Slice by bytes.Compare. *)
sortMethodIDs(ids) == SortSeq(ids, LAMBDA a, b : a < b)

(* The orders `for id := range m` can visit the keys of map m in: Go     *)
(* randomises map iteration.                                               *)
MapOrders(m) == SetToSeqs(DOMAIN m)

(* Seeded fault: the ids are listed in map order, unsorted. *)
getFunctionsUnsorted(h) ==
    {[i \in DOMAIN o |-> h.functions[o[i]]] : o \in MapOrders(h.functions)}

(* getFunctions / getEvents: the keys collected in map order, sorted,    *)
(* and the declarations listed in that order.                             *)
getFunctions(h) ==
    {[i \in DOMAIN o |-> h.functions[o[i]]] : o \in {sortMethodIDs(p) : p \in MapOrders(h.functions)}}
getEvents(h) ==
    {[i \in DOMAIN o |-> h.events[o[i]]] : o \in {sortMethodIDs(p) : p \in MapOrders(h.events)}}

(* EncodeRLP: the wire structs Encode can produce for header h. *)
EncodeRLP(h) ==
    {[version |-> h.version, functions |-> fs, events |-> es] :
        fs \in getFunctions(h), es \in getEvents(h)}

=============================================================================
