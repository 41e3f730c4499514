--------------------------- MODULE MCAdminModule ---------------------------
(* An instance of AdminModule for TLC. *)
EXTENDS AdminModule, TLC

CONSTANTS b, c   \* the other nodes

MCFiles == {"config", "device"}
MCFullAtomic == {"config"}
MCSymmetry == Permutations(Others) \union Permutations(Keys)
=============================================================================
