----------------------- MODULE MCPolicyAttachments -----------------------
(* Constants for the model-checking runs of PolicyAttachments. *)
EXTENDS PolicyAttachments, TLC

CONSTANTS f1, f2, poll, http

FilesSymmetry == Permutations(Files)

==========================================================================
