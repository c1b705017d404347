------------------------------ MODULE Firmware ------------------------------
(***************************************************************************)
(* Installing a folder of loose NCAs as system firmware (firmware.c, over  *)
(* the backend of install_horizon.c): a scan, a pass that registers every  *)
(* file as content, a pass that writes a record for every meta file, and   *)
(* the rollback of both.  The folder is on the SD card, so it may be       *)
(* another one when the installation reads it than when it was scanned.    *)
(*                                                                         *)
(* External: ncm's system partition.  A file stands for its content id.    *)
(***************************************************************************)
EXTENDS Integers, FiniteSets

CONSTANTS
  FwFiles,      \* the ".nca" files there may be
  FwMetas,      \* those named ".cnmt.nca"
  FwOdd,        \* those whose name is no content id
  FwDescribes,  \* the contents each meta file describes, itself left out
  FwUpdates,    \* the meta files of type SystemUpdate
  FwFolders,    \* what sdmc:/firmware may hold
  FwRunning,    \* contents of the firmware in place, its meta files among them
  MinMetas,     \* fewer are no firmware set: 16
  MaxNca,       \* NEXUS_FIRMWARE_MAX_NCA
  MaxRegistered,\* MAX_REGISTERED: contents a rollback remembers
  FwFaults      \* what may fail: "read", "write", "register", "folder", "cnmt", "record"

ASSUME FwAssumption ==
  /\ IsFiniteSet(FwFiles)
  /\ FwMetas \subseteq FwFiles /\ FwOdd \subseteq FwFiles
  /\ FwUpdates \subseteq FwMetas /\ FwRunning \subseteq FwFiles
  /\ FwDescribes \in [FwMetas -> SUBSET FwFiles]
  /\ \A m \in FwRunning \cap FwMetas : FwDescribes[m] \subseteq FwRunning
  /\ FwFolders \subseteq SUBSET FwFiles
  /\ {MinMetas, MaxNca, MaxRegistered} \subseteq Nat

VARIABLES
  fwEmummc,     \* the console booted from an emuMMC
  fwFolder,     \* what sdmc:/firmware holds
  fwValid,      \* g_fw_set.valid, of the last scan
  fwPc,         \* where nexusFirmwareInstall is
  fwTodo,       \* files the pass has still to come to
  fwContent,    \* contents registered in the system partition
  fwMeta,       \* meta records committed
  fwKept,       \* registered[]: what a rollback would delete
  fwSaw,        \* saw_system_update
  fwResult,     \* how the last installation ended
  fwTorn,       \* history: some installation ended badly after it began
  fwBefore      \* history: contents and records when the installation began

fwSet  == <<fwEmummc, fwFolder, fwValid>>
fwVars == <<fwSet, fwPc, fwTodo, fwContent, fwMeta, fwKept, fwSaw, fwResult, fwTorn, fwBefore>>

\* A content is absent, whole, or shorter than its file.
FwKinds == {"none", "whole", "short"}

FwOutcomes(call) == IF call \in FwFaults THEN BOOLEAN ELSE {TRUE}

\* The console runs a firmware: its contents are there, and their records.
FwInit ==
  /\ fwEmummc \in BOOLEAN /\ fwFolder \in FwFolders
  /\ fwValid = FALSE /\ fwPc = "idle" /\ fwTodo = {}
  /\ fwContent = [f \in FwFiles |-> IF f \in FwRunning THEN "whole" ELSE "none"]
  /\ fwMeta = FwRunning \cap FwMetas /\ fwKept = {} /\ fwSaw = FALSE
  /\ fwResult = "none" /\ fwTorn = FALSE
  /\ fwBefore = [content |-> fwContent, meta |-> fwMeta]
-----------------------------------------------------------------------------
\* The SD card's folder is replaced, over MTP.  While an installation reads
\* it, it stays as it is: the bound of this model.
FwReplaceFolder ==
  /\ fwPc = "idle"
  /\ fwFolder' \in FwFolders \ {fwFolder}
  /\ UNCHANGED <<fwEmummc, fwValid, fwPc, fwTodo, fwContent, fwMeta, fwKept, fwSaw,
                 fwResult, fwTorn, fwBefore>>

\* nexusFirmwareScan
FwUsable(folder) ==
  /\ folder # {} /\ Cardinality(folder) <= MaxNca
  /\ Cardinality(folder \cap FwMetas) >= MinMetas

FwScan ==
  /\ fwPc = "idle"
  /\ fwValid' = FwUsable(fwFolder)
  /\ UNCHANGED <<fwEmummc, fwFolder, fwPc, fwTodo, fwContent, fwMeta, fwKept, fwSaw,
                 fwResult, fwTorn, fwBefore>>

\* nexusFirmwareInstall: only a set once found valid, only on an emuMMC.
FwRefused == ~fwValid \/ ~fwEmummc

FwRefuse ==
  /\ fwPc = "idle" /\ FwRefused
  /\ fwResult' = "refused"
  /\ UNCHANGED <<fwSet, fwPc, fwTodo, fwContent, fwMeta, fwKept, fwSaw, fwTorn, fwBefore>>

FwBegin ==
  /\ fwPc = "idle" /\ ~FwRefused
  /\ fwPc' = "content" /\ fwTodo' = fwFolder
  /\ fwKept' = {} /\ fwSaw' = FALSE /\ fwResult' = "none"
  /\ fwBefore' = [content |-> fwContent, meta |-> fwMeta]
  /\ UNCHANGED <<fwSet, fwContent, fwMeta, fwTorn>>

\* hz_content_commit remembers no more than MAX_REGISTERED contents.
Remembered(kept, f) == IF Cardinality(kept) < MaxRegistered THEN kept \cup {f} ELSE kept

\* Mutant: records are written as the contents come, in one pass.
FwOnePass ==
  /\ fwPc = "content"
  /\ \E f \in fwTodo :
       /\ f \notin FwOdd
       /\ fwTodo' = fwTodo \ {f}
       /\ fwContent' = [fwContent EXCEPT ![f] = "whole"]
       /\ fwKept' = Remembered(fwKept, f)
       /\ fwMeta' = fwMeta \cup ({f} \cap FwMetas)
       /\ fwSaw' = (fwSaw \/ f \in FwUpdates)
  /\ UNCHANGED <<fwSet, fwPc, fwResult, fwTorn, fwBefore>>

\* install_one_nca, in whatever order readdir lists the files.  A content
\* that is there is deleted before its new copy is registered; the end of a
\* failing read is taken for the end of the file.
FwContent ==
  /\ fwPc = "content"
  /\ \E f \in fwTodo :
       /\ fwTodo' = fwTodo \ {f}
       /\ \/ /\ f \in FwOdd
             /\ UNCHANGED <<fwPc, fwContent, fwKept>>
          \/ /\ f \notin FwOdd
             /\ \E read \in FwOutcomes("read") :
                  fwContent' = [fwContent EXCEPT ![f] = IF read THEN "whole" ELSE "short"]
             /\ fwKept' = Remembered(fwKept, f)
             /\ UNCHANGED fwPc
          \/ /\ f \notin FwOdd /\ "write" \in FwFaults
             /\ fwPc' = "rollback"
             /\ UNCHANGED <<fwContent, fwKept>>
          \/ /\ f \notin FwOdd /\ "register" \in FwFaults
             /\ fwPc' = "rollback"
             /\ fwContent' = [fwContent EXCEPT ![f] = "none"]
             /\ UNCHANGED fwKept
  /\ UNCHANGED <<fwSet, fwMeta, fwSaw, fwResult, fwTorn, fwBefore>>

\* The folder is opened anew for the second pass.
FwContentEnds ==
  /\ fwPc = "content" /\ fwTodo = {}
  /\ fwPc' = "metas" /\ fwTodo' = fwFolder \cap FwMetas
  /\ UNCHANGED <<fwSet, fwContent, fwMeta, fwKept, fwSaw, fwResult, fwTorn, fwBefore>>
-----------------------------------------------------------------------------
\* register_one_meta: Horizon reads the meta file's content back; what it
\* describes is taken as it is written there.
FwRecord ==
  /\ fwPc = "metas"
  /\ \E m \in fwTodo :
       /\ fwTodo' = fwTodo \ {m}
       /\ \/ /\ m \in FwOdd
             /\ UNCHANGED <<fwPc, fwMeta, fwSaw>>
          \/ /\ m \notin FwOdd /\ fwContent[m] = "whole"
             /\ \E record \in FwOutcomes("record") :
                  /\ fwMeta' = IF record THEN fwMeta \cup {m} ELSE fwMeta
                  /\ fwPc' = IF record THEN "metas" ELSE "rollback"
             /\ fwSaw' = (fwSaw \/ m \in FwUpdates)
          \/ /\ m \notin FwOdd /\ (fwContent[m] # "whole" \/ "cnmt" \in FwFaults)
             /\ fwPc' = "rollback"
             /\ UNCHANGED <<fwMeta, fwSaw>>
  /\ UNCHANGED <<fwSet, fwContent, fwKept, fwResult, fwTorn, fwBefore>>

\* A set in which nothing declared itself a system update is rolled back.
FwEnd ==
  /\ fwPc = "metas" /\ fwTodo = {}
  /\ fwPc' = IF fwSaw THEN "idle" ELSE "rollback"
  /\ fwResult' = IF fwSaw THEN "ok" ELSE fwResult
  /\ UNCHANGED <<fwSet, fwTodo, fwContent, fwMeta, fwKept, fwSaw, fwTorn, fwBefore>>

\* The folder cannot be opened for the second pass: the contents stay.
FwNoFolder ==
  /\ "folder" \in FwFaults
  /\ fwPc = "content" /\ fwTodo = {}
  /\ fwPc' = "idle" /\ fwResult' = "failed" /\ fwTorn' = TRUE
  /\ UNCHANGED <<fwSet, fwTodo, fwContent, fwMeta, fwKept, fwSaw, fwBefore>>

\* hz_rollback without a meta: the remembered contents go, the records the
\* second pass has committed stay.
FwRollback ==
  /\ fwPc = "rollback"
  /\ fwPc' = "idle" /\ fwTodo' = {} /\ fwResult' = "failed" /\ fwTorn' = TRUE
  /\ fwContent' = [f \in FwFiles |-> IF f \in fwKept THEN "none" ELSE fwContent[f]]
  /\ fwKept' = {}
  /\ UNCHANGED <<fwSet, fwMeta, fwSaw, fwBefore>>

FwInstall == FwContent \/ FwContentEnds \/ FwRecord \/ FwEnd \/ FwNoFolder \/ FwRollback

FwNext == FwReplaceFolder \/ FwScan \/ FwRefuse \/ FwBegin \/ FwInstall

FwSpec == FwInit /\ [][FwNext]_fwVars
-----------------------------------------------------------------------------
FwTypeOK ==
  /\ fwEmummc \in BOOLEAN /\ fwFolder \in FwFolders /\ fwValid \in BOOLEAN
  /\ fwPc \in {"idle", "content", "metas", "rollback"}
  /\ fwTodo \subseteq FwFiles
  /\ fwContent \in [FwFiles -> FwKinds]
  /\ fwMeta \subseteq FwMetas
  /\ fwKept \subseteq FwFiles
  /\ fwSaw \in BOOLEAN
  /\ fwResult \in {"none", "ok", "failed", "refused"}
  /\ fwTorn \in BOOLEAN
  /\ fwBefore \in [content : [FwFiles -> FwKinds], meta : SUBSET FwMetas]

\* What the system describes is there ("the system never briefly describes
\* content that is not there"): until an installation has ended badly, every
\* record's own file is registered whole, so is whatever the records of the
\* running firmware describe, though contents it shares with the new one are
\* deleted and registered again, and while an installation runs so is whatever
\* its new records describe and its folder has.  After a success a system
\* update is among the records, though the folder need not be the one that
\* was scanned.
FwWholeSet ==
  /\ ~fwTorn /\ fwPc # "rollback" =>
       \A m \in fwMeta :
         /\ fwContent[m] = "whole"
         /\ m \in FwRunning => \A f \in FwDescribes[m] : fwContent[f] = "whole"
         /\ fwPc # "idle" /\ m \notin fwBefore.meta =>
              \A f \in (FwDescribes[m] \cap fwFolder) \ FwOdd : fwContent[f] = "whole"
  /\ fwPc = "idle" /\ fwResult = "ok" => fwMeta \cap FwUpdates # {}

\* "Any failure rolls the whole thing back" (docs/USAGE.md): after a failed
\* installation the system partition is what it was.
FwRolledBack ==
  fwPc = "idle" /\ fwResult = "failed" => fwBefore = [content |-> fwContent, meta |-> fwMeta]
=============================================================================
