--------------------------- MODULE MCYamlDocuments ---------------------------
(***************************************************************************)
(* Every file of up to MaxLines lines.                                     *)
(***************************************************************************)
EXTENDS YamlDocuments

CONSTANT MaxLines

MCInputs == UNION {[1..n -> Roles] : n \in 0..MaxLines}
=============================================================================
