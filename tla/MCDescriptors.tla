--------------------------- MODULE MCDescriptors ----------------------------
(***************************************************************************)
(* Descriptors with a table that is full before everyone is served.        *)
(***************************************************************************)
EXTENDS Descriptors
=============================================================================
