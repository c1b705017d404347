----------------------------- MODULE MCConsole -----------------------------
(* A game with its update and one add-on, another add-on that can come     *)
(* over MTP; by name, size and id their orders differ.                     *)
EXTENDS Console, MCFirmware

MCCatalog ==
  <<[id |-> 8192,  kind |-> "application", name |-> 2, size |-> 2],
    [id |-> 10240, kind |-> "patch",       name |-> 3, size |-> 3],
    [id |-> 12289, kind |-> "addon",       name |-> 1, size |-> 3],
    [id |-> 12290, kind |-> "addon",       name |-> 4, size |-> 1]>>

\* A mod that is there under both names, and one of another title.
MCModNames == <<<<1, FALSE>>, <<1, TRUE>>, <<2, TRUE>>, <<2, FALSE>>>>

MCTours ==
  {{"titles", "sort"}, {"titles", "remove"}, {"titles", "browse", "fetch"},
   {"browse", "fetch", "remove"}, {"titles", "browse", "receive"}, {"verify", "remove", "receive"},
   {"titles", "verify"}, {"maintenance", "receive", "remove"},
   {"mods"}, {"install"}, {"firmware"}, {"update"}}

MCFolders == {{0, 1}, {0, 2}, {1, 2}, {0, 1, 2}}
MCCut     == [f \in MCFolders |-> IF f = {0, 1, 2} THEN <<1, 3, 4>> ELSE <<2, 4>>]
MCSecure  == <<TRUE, FALSE, TRUE, TRUE>>
=============================================================================
