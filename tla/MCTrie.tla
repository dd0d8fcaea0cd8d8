------------------------------- MODULE MCTrie -------------------------------
(***************************************************************************)
(* Trie for TLC.  The keys are chosen so that every node shape occurs:     *)
(* <<0>> and <<0,1>> share two nibbles and one ends where the other goes   *)
(* on (a branch with a value in slot 16, under an extension); <<1>> and   *)
(* <<16>> share the nibble 1 then split (an extension over a branch);     *)
(* the first nibbles 0 and 1 split at the root.                           *)
(***************************************************************************)
EXTENDS Trie

MCKeys == {<<0>>, <<0, 1>>, <<1>>, <<16>>}
MCValues == {1, 2}

=============================================================================
