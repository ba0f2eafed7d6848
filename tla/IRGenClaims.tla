----------------------------- MODULE IRGenClaims -----------------------------
(***************************************************************************)
(* What comments of the repository say of the IR generator and the code    *)
(* does not do.                                                            *)
(***************************************************************************)
EXTENDS IRGenProperties

(* "Create a `load` instruction if allocation is not a constant. Otherwise,*)
(* get the constant." (include/ir/LLVM.h:33): a literal on the right of an *)
(* assignment is stored as it is.  A string's address is a global variable,*)
(* as a variable's allocation is, so its characters are loaded.            *)
ConstantsAreNotLoaded ==
  Resumes("assignment") /\ Top.node.kind = "Literal" => Loaded(result) = result
============================================================================
