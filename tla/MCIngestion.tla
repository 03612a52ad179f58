---------------------------- MODULE MCIngestion ----------------------------
(* A parent, its reply, whose message changes, and an empty message of no   *)
(* user.  Two windows overlap in the reply; in the wider ones they overlap  *)
(* in the empty message too.                                                *)
EXTENDS Ingestion

MCWindows == <<{"reply", "empty"}, {"parent", "reply"}>>
MCWiderWindows == <<{"reply", "empty"}, {"parent", "reply", "empty"}>>
MCParentOf == [id \in Ids |-> IF id = "reply" THEN "parent" ELSE Nobody]
MCArtifacts == {"empty"}
MCChanging == {"reply"}
MCDoubtful == {"reply"}

\* Once nothing more is read it does not matter what becomes of the messages.
StillWhenRead == source' = source \/ MoreToCome
=============================================================================
