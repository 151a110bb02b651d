--------------------------- MODULE EnrollRegistry ---------------------------
(***************************************************************************)
(* What enrollment promises, without workers, database calls or crashes:   *)
(* every tree is an append-only list of leaves of bounded length, and an   *)
(* authorization admits at most one leaf, into a slot that already holds   *)
(* it and that no other authorization owns.                                *)
(*                                                                         *)
(* It abstracts POST /v1/membership/enroll/commit (app/routes/enroll.py)   *)
(* and the tables merkle_trees and merkle_leaves (app/db/schema.sql).      *)
(***************************************************************************)
EXTENDS Naturals, Sequences

CONSTANTS
  Event,     \* kind 38200 authorization events
  Leaf,      \* 32-byte leaf commitments
  Tree,      \* tree identifiers
  Capacity   \* leaves a tree can hold, 2^TREE_DEPTH in the code

VARIABLES
  slots,     \* slots[tr]: the leaves of tr, in slot order
  admitted   \* set of [event, tree, index, leaf]: the leaf an event authorized

vars == <<slots, admitted>>

Init ==
  /\ slots = [tr \in Tree |-> <<>>]
  /\ admitted = {}

(* A leaf is put in the next free slot of a tree that has one. *)
AppendSlot(tr, x) ==
  /\ Len(slots[tr]) < Capacity
  /\ slots' = [slots EXCEPT ![tr] = Append(@, x)]
  /\ UNCHANGED admitted

(* An authorization not used before takes the slot `index' of `tr', which  *)
(* holds a leaf and belongs to no other authorization.                     *)
Admit(e, tr, index) ==
  /\ index + 1 \in DOMAIN slots[tr]
  /\ \A a \in admitted : a.event # e
  /\ \A a \in admitted : ~ (a.tree = tr /\ a.index = index)
  /\ admitted' = admitted \cup
       {[event |-> e, tree |-> tr, index |-> index, leaf |-> slots[tr][index + 1]]}
  /\ UNCHANGED slots

Next ==
  \/ \E tr \in Tree, x \in Leaf : AppendSlot(tr, x)
  \/ \E e \in Event, tr \in Tree, index \in 0 .. Capacity : Admit(e, tr, index)

Spec == Init /\ [][Next]_vars
=============================================================================
