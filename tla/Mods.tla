-------------------------------- MODULE Mods --------------------------------
(***************************************************************************)
(* Mods and cheats of titles, folders on the SD card that are enabled or   *)
(* disabled by their name (mods.c), and the screen that lists them.  Over  *)
(* MTP the card changes meanwhile.                                         *)
(***************************************************************************)
EXTENDS Integers, Sequences, Ascending

CONSTANT ModNames     \* the folders there may be, in readdir's order: <<title, enabled>>

VARIABLES
  mdDirs,     \* the folders there are
  mdList,     \* g_mods: of each entry, its title and folder
  mdArmed,    \* g_mod_armed, 0 for none
  mdDoomed,   \* history: the folder shown in the row that was armed
  mdGone      \* history: the folder deleted since, NoDir for none

mdVars == <<mdDirs, mdList, mdArmed, mdDoomed, mdGone>>

NoDir == <<0, FALSE>>
Dirs  == {ModNames[i] : i \in DOMAIN ModNames}

Toggled(d) == <<d[1], ~d[2]>>

\* What has one of its names may get the other.
ASSUME MdAssumption ==
  /\ ModNames \in Seq(Nat \X BOOLEAN)
  /\ \A d \in Dirs : Toggled(d) \in Dirs

\* nexusModsScan: what has a title's id for a name, and a mod in it.
Found(dirs) == LET places == InOrder({i \in DOMAIN ModNames : ModNames[i] \in dirs})
               IN  [k \in DOMAIN places |-> ModNames[places[k]]]

MdInit ==
  /\ mdDirs = Dirs /\ mdList = <<>> /\ mdArmed = 0
  /\ mdDoomed = NoDir /\ mdGone = NoDir

\* rescan_mods
MdRescan ==
  /\ mdList' = Found(mdDirs) /\ mdArmed' = 0
  /\ UNCHANGED <<mdDirs, mdDoomed, mdGone>>

\* nexusModsSetEnabled: the folder is renamed, which fails when it is gone or
\* its other name is taken.  The rows keep their places.
MdToggle ==
  /\ \E i \in DOMAIN mdList :
       LET d == mdList[i]
           renames == d \in mdDirs /\ Toggled(d) \notin mdDirs IN
       /\ mdDirs' = IF renames THEN (mdDirs \ {d}) \cup {Toggled(d)} ELSE mdDirs
       /\ mdList' = IF renames THEN [mdList EXCEPT ![i] = Toggled(d)] ELSE mdList
  /\ mdArmed' = 0
  /\ UNCHANGED <<mdDoomed, mdGone>>

\* X on a row that is not armed
MdArm ==
  /\ \E i \in DOMAIN mdList :
       i # mdArmed /\ mdArmed' = i /\ mdDoomed' = mdList[i]
  /\ mdGone' = NoDir
  /\ UNCHANGED <<mdDirs, mdList>>

\* X on the armed row: nexusModsDelete, remove_tree, and a new scan.  A tree
\* that cannot be removed to its end stays.
MdDelete ==
  /\ mdArmed # 0 /\ mdArmed \in DOMAIN mdList
  /\ mdGone' = mdList[mdArmed]
  /\ \E ok \in BOOLEAN : mdDirs' = IF ok THEN mdDirs \ {mdGone'} ELSE mdDirs
  /\ mdList' = Found(mdDirs')
  /\ mdArmed' = 0
  /\ UNCHANGED mdDoomed

\* Over MTP: a folder is added or renamed.
MdHost ==
  /\ \E d \in Dirs : mdDirs' \in {mdDirs \cup {d}, (mdDirs \ {d}) \cup {Toggled(d)}}
  /\ mdDirs' \subseteq Dirs
  /\ UNCHANGED <<mdList, mdArmed, mdDoomed, mdGone>>
-----------------------------------------------------------------------------
MdTypeOK ==
  /\ mdDirs \subseteq Dirs /\ mdList \in Seq(Dirs)
  /\ mdArmed \in 0..Len(mdList)
  /\ mdDoomed \in Dirs \cup {NoDir} /\ mdGone \in Dirs \cup {NoDir}
=============================================================================
