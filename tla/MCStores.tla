-------------------------------- MODULE MCStores --------------------------------
(* TLC instance of the two stores that requests read while others write them, the *)
(* ring of traces and the trie of routes.  They share no variable, so that what   *)
(* each does is the same whatever the other does: a behaviour is of one of them.  *)
(*                                                                                *)
(* RingBuffer: events and readers are model values.  Router: the root, a prefix,  *)
(* a longer one below it and a sibling.                                           *)
EXTENDS RingBuffer, Router, TLC

VARIABLE store  \* the one that is in use

StoresInit == Init /\ TrieInit /\ store \in {"ring", "trie"}

UseRing == store = "ring" /\ Next /\ UNCHANGED <<trieVars, store>>
UseTrie == store = "trie" /\ TrieNext /\ UNCHANGED <<vars, store>>

StoresSpec == StoresInit /\ [][UseRing \/ UseTrie]_<<vars, trieVars, store>>

SomePrefixes == {<< >>, <<"a">>, <<"a", "b">>, <<"a", "c">>}
SomePaths == {<<"a", "b", "c">>, <<"a">>}
Symmetry == Permutations(Event) \cup Permutations(Readers)
===============================================================================
