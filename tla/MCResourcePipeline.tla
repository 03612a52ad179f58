------------------------- MODULE MCResourcePipeline -------------------------
(* One or two resources under the commands of the operator. *)
EXTENDS ResourcePipeline

OneResource == 1 .. 1
TwoResources == 1 .. 2
=============================================================================
