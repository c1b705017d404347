------------------------------ MODULE SaveVault ------------------------------
(***************************************************************************)
(* What restoring saves promises: the files of the saves on the console    *)
(* change one at a time, each to the whole of what a host sent for it, and *)
(* none is ever lost.                                                      *)
(***************************************************************************)
CONSTANTS Saves, Files, Contents, Original

VARIABLE vault   \* save and file -> content

Init == vault = [t \in Saves \X Files |-> Original]

Restore(s, f, c) == vault' = [vault EXCEPT ![<<s, f>>] = c]

Next == \E s \in Saves, f \in Files, c \in Contents : Restore(s, f, c)

Spec == Init /\ [][Next]_vault
=============================================================================
