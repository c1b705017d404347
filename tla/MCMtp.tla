-------------------------------- MODULE MCMtp --------------------------------
(***************************************************************************)
(* A card with a folder that holds a file longer than the payload buffer.  *)
(***************************************************************************)
EXTENDS MtpResponder, TLC

MCCard == (<<"a">> :> [dir |-> TRUE, ino |-> 1, len |-> 0])
       @@ (<<"a", "b">> :> [dir |-> FALSE, ino |-> 2, len |-> 2])
=============================================================================
