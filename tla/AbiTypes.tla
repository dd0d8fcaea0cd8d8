------------------------------ MODULE AbiTypes ------------------------------
(***************************************************************************)
(* The parameter types of a contract header (src/abi/primitive_type.go    *)
(* and the Parameter struct of src/abi/header.go).  A PrimitiveType is    *)
(* one of the eleven enum values; a type the header names outside them   *)
(* makes GetMemorySize panic, and the model's headers name none.          *)
(***************************************************************************)
EXTENDS Naturals

CONSTANT AddressLength      \* crypto.AddressLength

PrimitiveTypes ==
    {"uint8", "uint16", "uint32", "uint64", "int8", "int16", "int32", "int64",
     "float32", "float64", "address"}

(* Parameter: Name is left out (nothing reads it), IsArray and Type. *)
Parameters == [isArray : BOOLEAN, type : PrimitiveTypes]

IsPointer(t) == t = "address"

IsAddress(t) == t = "address"

GetMemorySize(t) ==
    CASE t = "address"                          -> AddressLength
      [] t \in {"uint8", "int8"}                -> 1
      [] t \in {"uint16", "int16"}              -> 2
      [] t \in {"uint32", "int32", "float32"}   -> 4
      [] t \in {"uint64", "int64", "float64"}   -> 8

=============================================================================
