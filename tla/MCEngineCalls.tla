---------------------------- MODULE MCEngineCalls ----------------------------
(***************************************************************************)
(* EngineCalls for TLC: two contracts, an account without code and an     *)
(* address without account.  cA's methods exercise a nested call that    *)
(* records its caller and emits between the parent's events, recursion   *)
(* into the depth limit, calls to a plain account, to an unbound alias,  *)
(* proc_exit, a loop, a method storing its two array arguments, and the *)
(* header's early returns; each is run under both policies and three gas *)
(* limits, so the meter runs out before, inside and after the nested     *)
(* call, and with argument lists around the size cap (MaxArgBytes 3 for  *)
(* the code's 1024).  main passes its array argument on to cB.run, relay *)
(* its uint16 to cB.narrow's uint8.  The headers are decoded by Abi.     *)
(***************************************************************************)
EXTENDS EngineCalls

CONSTANTS cA, cB, pP, nN, s, dD, k1, k2, k3, aX, aY, aZ, aW

MCPrograms ==
    [c \in {cA, cB} |->
       IF c = cA
       THEN [m \in {"main", "loop", "plain", "unbound", "exit", "spin", "pair",
                    "ghost", "nohdr", "badcount", "hidden", "give",
                    "digest", "nohash", "relay"} |->
              CASE m = "main"     -> << Compute(1), StoreCaller(k1, 1),
                                        MethodBind(aX, cB, "run"), Emit("e1", 1),
                                        InvokeAlias(aX, <<1>>), Emit("e2", 1) >>
                [] m = "loop"     -> << MethodBind(aY, cA, "loop"), Emit("e1", 1),
                                        InvokeAlias(aY, <<>>) >>
                [] m = "plain"    -> << MethodBind(aZ, pP, "run"), InvokeAlias(aZ, <<>>) >>
                [] m = "unbound"  -> << Compute(1), InvokeAlias(aX, <<>>) >>
                [] m = "exit"     -> << StorageSet(k2, 1, 1), ProcExit >>
                [] m = "spin"     -> << Loop(2) >>
                [] m = "pair"     -> << StoreArg(k1, 1), StoreArg(k2, 2),
                                        CopyStorage(k1, k3, 4), StoreCreator(k1, 1) >>
                [] m = "ghost"    -> << MethodBind(aZ, cB, "ghost"), InvokeAlias(aZ, <<>>) >>
                [] m = "nohdr"    -> << MethodBind(aZ, cB, "helper"), InvokeAlias(aZ, <<>>) >>
                [] m = "badcount" -> << MethodBind(aX, cB, "run"), InvokeAlias(aX, <<>>) >>
                [] m = "hidden"   -> << Compute(1) >>
                [] m = "give"     -> << StoreArg(k1, 1), MethodBind(aX, cB, "take"),
                                        InvokeAlias(aX, <<1>>) >>
                [] m = "digest"   -> << ArgsWrite(8, 1), ArgsWrite(8, 2), ArgsHash(8, 16, k3) >>
                [] m = "nohash"   -> << ArgsHash(8, 16, k1) >>
                [] m = "relay"    -> << MethodBind(aX, cB, "narrow"), InvokeAlias(aX, <<1>>) >>]
       ELSE [m \in {"run", "helper", "take", "narrow"} |->
              CASE m = "run"  -> << StoreCaller(k1, 1), Emit("e3", 1), StoreArg(k2, 1),
                                    StoreSelf(k3, 1), Compute(2) >>
                [] m = "take" -> << StoreArg(k2, 1) >>
                [] m = "narrow" -> << StoreValue(k2, 1, 2) >>
                [] OTHER      -> << Compute(1) >>]]

(* MethodIDs: the position of the name in MCNameOrder, and "shadow"     *)
(* collides with "main" (a 4-byte prefix of blake2b shared by two names). *)
MCNameOrder ==
    <<"spin", "main", "loop", "plain", "unbound", "exit", "pair", "ghost", "nohdr",
      "badcount", "hidden", "give", "digest", "nohash", "relay", "run", "helper",
      "take", "narrow", "nil", "bindempty", "e1", "e2", "e3">>
MCIds ==
    [n \in {MCNameOrder[i] : i \in DOMAIN MCNameOrder} \cup {"shadow"} |->
       IF n = "shadow" THEN 2 ELSE CHOOSE i \in DOMAIN MCNameOrder : MCNameOrder[i] = n]
MCMethodID(name) == MCIds[name]

H == INSTANCE Abi WITH MethodIDOf <- MCMethodID

Arr(t) == [isArray |-> TRUE, type |-> t]
Val(t) == [isArray |-> FALSE, type |-> t]
Decl(name, ps) == [name |-> name, parameters |-> ps]

(* A wire header declaring the names in order, ps(name) their parameters. *)
MCWire(names, ps(_), events) ==
    [version |-> 1, functions |-> [i \in DOMAIN names |-> Decl(names[i], ps(names[i]))],
     events |-> [i \in DOMAIN events |-> Decl(events[i], <<>>)]]

(* The headers: "hidden" and cB's "helper" are exported by the code but  *)
(* not declared; cB's "ghost" is declared but not exported.               *)
MCParamsOf(m) ==
    CASE m \in {"main"}           -> << Arr("uint8"), Val("uint8") >>
      [] m \in {"pair", "digest"} -> << Arr("uint8"), Arr("uint8") >>
      [] m \in {"give", "take"}   -> << Val("address") >>
      [] m = "run"                -> << Arr("uint8") >>
      [] m = "relay"              -> << Val("uint16") >>
      [] m = "narrow"             -> << Val("uint8") >>
      [] OTHER                    -> <<>>
MCWires ==
    [c \in {cA, cB} |->
       IF c = cA
       THEN MCWire(<<"nohash", "main", "loop", "plain", "unbound", "exit", "spin", "pair",
                     "ghost", "nohdr", "badcount", "give", "digest", "relay">>,
                   MCParamsOf, <<"e2", "e1">>)
       ELSE MCWire(<<"take", "run", "ghost", "narrow">>, MCParamsOf, <<"e3">>)]

(* Params: each declared method's Parameters, read from the decoded header. *)
ParamsFromWires(wires) ==
    [c \in DOMAIN wires |->
       LET hd == H!DecodeHeader(wires[c]).header
       IN [m \in {wires[c].functions[i].name : i \in DOMAIN wires[c].functions} |->
             H!GetFunction(hd, m).parameters]]

MCParams == ParamsFromWires(MCWires)

(* Wire headers for the codec, as a client would build them for the    *)
(* contract a call runs: the called method's declaration, "give" and     *)
(* "shadow" (whose MethodID is main's), in every order and number; two   *)
(* events in either order, or "e1" declared twice.                        *)
MCCodecWires(m, ps) ==
    LET fs == {Decl(m, ps), Decl("give", << Val("address") >>), Decl("shadow", <<>>)}
        e1 == Decl("e1", <<>>)
        e2 == Decl("e2", << Val("uint64") >>)
    IN {[version |-> 1, functions |-> f, events |-> e] :
          f \in SeqExt!SetToAllKPermutations(fs),
          e \in SeqExt!SetToSeqs({e1, e2}) \cup {<< e1, Decl("e1", << Arr("uint8") >>) >>}}

(* header.go: Header keeps its declarations in maps, and Go visits a    *)
(* map's keys in random order, so Encode gives one byte string per       *)
(* header only because getFunctions and getEvents sort the MethodIDs.    *)
(* For every header declaring the called method: a header DecodeHeader   *)
(* accepts has a single encoding, which decodes back to the same header, *)
(* and the same declarations listed in another order decode to the same  *)
(* header or are refused with the same error.                            *)
HeaderEncodingCanonical ==
    LET ws == MCCodecWires(call.method, IF call.method \in DOMAIN Params[call.addr]
                                        THEN Params[call.addr][call.method] ELSE <<>>)
    IN \A w \in ws :
           LET d == H!DecodeHeader(w) IN
           /\ d.err = "none" =>
                 \E e \in H!EncodeRLP(d.header) :
                     /\ H!EncodeRLP(d.header) = {e}
                     /\ H!DecodeHeader(e) = d
           /\ \A v \in ws :
                 SeqExt!Range(v.functions) = SeqExt!Range(w.functions)
                 /\ SeqExt!Range(v.events) = SeqExt!Range(w.events)
                    => H!DecodeHeader(v) = d

(* A stand-in checksum: addresses are three bytes (AddressLength 3 for   *)
(* the code's 35), version byte 1 and checksum <<0, 0>>.                  *)
MCCrc16(bytes) == <<0, 0>>

(* An injective stand-in for the 32-byte digest. *)
MCBlake2b(bytes) == <<255>> \o bytes

(* Both contracts were deployed by dD, not the sender. *)
MCCreator == [c \in {cA, cB} |-> dD]

(* The nil account: a method bound to an address without account. *)
MCNilPrograms ==
    [c \in {cA, cB} |->
       IF c = cA THEN [m \in {"nil", "give", "bindempty"} |->
                        CASE m = "nil"  -> << MethodBind(aW, nN, "run"), InvokeAlias(aW, <<>>) >>
                          [] m = "give" -> << StoreArg(k1, 1) >>
                          [] OTHER      -> << MethodBindEmpty(aX, cB, "run") >>]
                 ELSE [m \in {"run"} |-> << Compute(1) >>]]

MCNilParams ==
    ParamsFromWires([c \in {cA, cB} |->
       IF c = cA THEN MCWire(<<"give", "nil", "bindempty">>, MCParamsOf, <<>>)
                 ELSE MCWire(<<"run">>, LAMBDA m : <<>>, <<>>)])

(* Argument lists: none; an array and a scalar of 3 bytes in all (the   *)
(* cap); two arrays over the cap; two one-byte arrays.  MCAliasArgs adds *)
(* an empty array before a non-empty one.                                 *)
MCArgs == { <<>>, << <<1, 2>>, <<1>> >>, << <<1, 2>>, <<2, 2>> >>, << <<1>>, <<2>> >> }
MCAliasArgs == MCArgs \cup { << <<>>, <<2>> >> }

(* give takes one address: a valid one, one with the wrong version byte  *)
(* and, in MCShortArgs, a one-byte argument.                              *)
MCAddressArgs == { << <<1, 0, 0>> >>, << <<2, 0, 0>> >> }
MCShortArgs == { << <<1>> >> }

(* relay takes a uint16 and passes it on to cB's narrow, a uint8: two   *)
(* bytes, of which narrow sees the low one, and one byte.                 *)
MCScalarArgs == { << <<3, 2>> >>, << <<5>> >> }

MCCalls(programs, args, addressArgs) ==
    UNION { { [addr |-> cA, method |-> m, limit |-> l, policy |-> p, args |-> a] :
                l \in {3, 7, 9}, p \in {"alpha", "free"},
                a \in CASE m = "give"  -> addressArgs
                         [] m = "relay" -> MCScalarArgs
                         [] OTHER       -> args }
            : m \in DOMAIN programs[cA] }

MCEngineCallsSet == MCCalls(MCPrograms, MCArgs, MCAddressArgs)
MCAliasCallsSet == MCCalls(MCPrograms, MCAliasArgs, MCAddressArgs)
MCNilCallsSet == MCCalls(MCNilPrograms, {<<>>}, MCShortArgs)

=============================================================================
