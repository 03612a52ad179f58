-------------------------- MODULE MCApprovedDelivery --------------------------
(* An entry, or an entry and a relation that needs it. *)
EXTENDS ApprovedDelivery

One == 1 .. 1
Entry == [o \in One |-> {}]
Two == 1 .. 2
EntryAndRelation == [o \in Two |-> IF o = 2 THEN {1} ELSE {}]
=============================================================================
