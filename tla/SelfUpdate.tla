----------------------------- MODULE SelfUpdate -----------------------------
(***************************************************************************)
(* The self-update (update.c): a check finds a newer release, applying it  *)
(* downloads the program beside the running one, looks at it, keeps the    *)
(* old one as a backup and puts the new one in its place, file by file.    *)
(* Power may go between any two steps.                                     *)
(*                                                                         *)
(* External: the server, and Horizon's file system, whose rename wants a   *)
(* source that is there and a target that is not.                          *)
(***************************************************************************)
EXTENDS Integers

CONSTANTS
  UpFaults,   \* what may go wrong: "torn", "remove", "keep", "swap", "undo"
  UpLimit     \* mishaps are counted up to this bound

ASSUME UpAssumption == UpLimit \in Nat \ {0, 1}

VARIABLES
  upFile,     \* the program, its download and its backup
  upPc,       \* where nexusUpdateApply is; "off" when the console lost power
  upOffer,    \* g_state.checked && g_state.available_is_newer
  upMishaps   \* history: failures the code ignores or cannot mend

upVars == <<upFile, upPc, upOffer, upMishaps>>

UpPlaces == {"nro", "new", "bak"}
\* What a file may be: a program, the beginning of one, some other document.
UpKinds  == {"none", "whole", "part", "page"}

UpInit ==
  /\ upFile = [p \in UpPlaces |-> IF p = "nro" THEN "whole" ELSE "none"]
  /\ upPc = "idle" /\ upOffer = FALSE /\ upMishaps = 0

UpOutcomes(call) == IF call \in UpFaults THEN BOOLEAN ELSE {TRUE}
UpCount(n, ok)   == IF ok \/ n = UpLimit THEN n ELSE n + 1

Renamed(files, from, to) == [files EXCEPT ![to] = files[from], ![from] = "none"]
Renames(files, from, to) == files[from] # "none" /\ files[to] = "none"
-----------------------------------------------------------------------------
\* nexusUpdateCheck: the state of an earlier check is gone before anything
\* is asked, and a manifest that cannot be had or read leaves no offer.
UpCheck ==
  /\ upPc = "idle"
  /\ upOffer' \in BOOLEAN
  /\ UNCHANGED <<upFile, upPc, upMishaps>>

\* nexusUpdateApply up to the download.  The offer stays: the same release
\* may be applied again.
UpBegin ==
  /\ upPc = "idle" /\ upOffer
  /\ \E opens \in BOOLEAN :
       /\ upFile' = [upFile EXCEPT !["new"] = IF opens THEN "part" ELSE "none"]
       /\ upPc' = IF opens THEN "getting" ELSE "idle"
  /\ UNCHANGED <<upOffer, upMishaps>>

\* The download fails, or something came.  A program cut short passes for a
\* whole one when the server gives no length, or the last flush fails in the
\* fclose nobody looks at.
UpDownload ==
  /\ upPc = "getting"
  /\ \E got \in {"none", "whole", "page"} \cup (IF "torn" \in UpFaults THEN {"part"} ELSE {}) :
       /\ upFile' = [upFile EXCEPT !["new"] = got]
       /\ upPc' = IF got = "none" THEN "idle" ELSE "got"
       /\ upMishaps' = UpCount(upMishaps, got # "part")
  /\ UNCHANGED upOffer

\* Mutant: the magic number is not looked at.
UpVerifyNot ==
  /\ upPc = "got" /\ upPc' = "keep"
  /\ UNCHANGED <<upFile, upOffer, upMishaps>>

\* "NRO0" at 0x10: no document has it, the beginning of a program may.
UpVerify ==
  /\ upPc = "got"
  /\ \E magic \in CASE upFile["new"] = "whole" -> {TRUE}
                    [] upFile["new"] = "page"  -> {FALSE}
                    [] OTHER                   -> BOOLEAN :
       /\ upPc' = IF magic THEN "keep" ELSE "idle"
       /\ upFile' = IF magic THEN upFile ELSE [upFile EXCEPT !["new"] = "none"]
  /\ UNCHANGED <<upOffer, upMishaps>>

\* remove(backup)
UpForget ==
  /\ upPc = "keep" /\ upPc' = "backup"
  /\ \E ok \in UpOutcomes("remove") :
       /\ upFile' = IF ok THEN [upFile EXCEPT !["bak"] = "none"] ELSE upFile
       /\ upMishaps' = UpCount(upMishaps, ok)
  /\ UNCHANGED upOffer

\* rename(final, backup), whose result is not looked at.
UpKeep ==
  /\ upPc = "backup" /\ upPc' = "swap"
  /\ \E ok \in UpOutcomes("keep") :
       /\ upFile' = IF ok /\ Renames(upFile, "nro", "bak")
                      THEN Renamed(upFile, "nro", "bak") ELSE upFile
       /\ upMishaps' = UpCount(upMishaps, ok)
  /\ UNCHANGED upOffer

\* rename(tmp, final)
UpSwap ==
  /\ upPc = "swap"
  /\ \E ok \in UpOutcomes("swap") :
       LET done == ok /\ Renames(upFile, "new", "nro") IN
       /\ upFile' = IF done THEN Renamed(upFile, "new", "nro") ELSE upFile
       /\ upPc' = IF done THEN "idle" ELSE "undo"
       /\ upMishaps' = UpCount(upMishaps, ok)
  /\ UNCHANGED upOffer

\* rename(backup, final), remove(tmp)
UpUndo ==
  /\ upPc = "undo" /\ upPc' = "idle"
  /\ \E ok \in UpOutcomes("undo") :
       LET back == IF ok /\ Renames(upFile, "bak", "nro")
                     THEN Renamed(upFile, "bak", "nro") ELSE upFile IN
       /\ upFile' = [back EXCEPT !["new"] = "none"]
       /\ upMishaps' = UpCount(upMishaps, ok)
  /\ UNCHANGED upOffer

\* The power goes; only a whole program can be started again.
UpPowerLoss ==
  /\ upPc # "off" /\ upPc' = "off"
  /\ UNCHANGED <<upFile, upOffer, upMishaps>>

UpStart ==
  /\ upPc = "off" /\ upFile["nro"] = "whole"
  /\ upPc' = "idle" /\ upOffer' = FALSE
  /\ UNCHANGED <<upFile, upMishaps>>

UpNext ==
  \/ UpCheck \/ UpBegin \/ UpDownload \/ UpVerify
  \/ UpForget \/ UpKeep \/ UpSwap \/ UpUndo
  \/ UpPowerLoss \/ UpStart

UpSpec == UpInit /\ [][UpNext]_upVars
-----------------------------------------------------------------------------
UpTypeOK ==
  /\ upFile \in [UpPlaces -> UpKinds]
  /\ upPc \in {"idle", "getting", "got", "keep", "backup", "swap", "undo", "off"}
  /\ upOffer \in BOOLEAN
  /\ upMishaps \in 0..UpLimit

\* Wherever the power goes, and with one mishap at any step, a whole program
\* is left to go back to ("Keep the previous build so a bad update can be
\* undone by hand"); without a mishap an update that is over leaves one in
\* place, not an error page and not nothing.
UpNeverStranded ==
  /\ upMishaps < 2 => \E p \in UpPlaces : upFile[p] = "whole"
  /\ upMishaps = 0 /\ upPc = "idle" => upFile["nro"] = "whole"
=============================================================================
