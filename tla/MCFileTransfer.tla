--------------------------- MODULE MCFileTransfer ---------------------------
(* An instance of FileTransfer for TLC: a file of one block and one of two, *)
(* whose name begins with the other's: copied over it, "a" reads "ab".      *)
EXTENDS FileTransfer

MCNames == {"a", "ab"}
MCOverlaid == [nf \in MCNames \X (MCNames \union {""}) |-> IF nf[2] = "ab" THEN "ab" ELSE nf[1]]
MCSize == [n \in MCNames |-> IF n = "ab" THEN 2 ELSE 1]
=============================================================================
