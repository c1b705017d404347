----------------------------- MODULE MCFirmware -----------------------------
(* A system update of two system titles that shares a content with the     *)
(* firmware in place, a folder with a file of another name in it, a folder *)
(* of game files and the old meta, and one too small to be a set.          *)
EXTENDS Firmware

MCFwFiles == {"update", "system", "old", "game", "shared", "program", "stray"}
MCFwMetas == {"update", "system", "old", "game"}
MCFwDescribes ==
  [m \in MCFwMetas |-> CASE m = "update" -> {}
                         [] m = "old"    -> {"shared"}
                         [] OTHER        -> {"program", "shared"}]
MCFwFolders ==
  {{"update", "system", "program", "shared", "stray"}, {"old", "game", "program"}, {"game"}}
=============================================================================
