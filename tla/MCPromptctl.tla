---------------------------- MODULE MCPromptctl ----------------------------
(* The authoring tool for TLC: the prompt files are interchangeable. *)
EXTENDS Promptctl, TLC

AnyFile == Permutations(Path)

=============================================================================
