------------------------------ MODULE Feeders ------------------------------
(***************************************************************************)
(* Where an installation on the console gets its bytes: a file over HTTP   *)
(* that survives a dropped connection (netinstall.c, http.c), a file or a  *)
(* split file on the SD card (local_install.c), the secure partition of a  *)
(* game card or its image behind a header made up for it (xci_install.c,   *)
(* xci.c).  Each feeds the installer one stream; what the installer does   *)
(* with it is module Installer's, which here takes the units in turn, may  *)
(* refuse any of them, and finishes only when none of them is missing.     *)
(*                                                                         *)
(* External: the server and libcurl, the SD card, the card in the slot.    *)
(***************************************************************************)
EXTENDS Integers, Sequences, Ascending

CONSTANTS
  Size,        \* units of the container, of which 1 is its header
  MaxResumes,  \* MAX_RESUMES
  Folders,     \* the part numbers a folder of parts may hold
  Cut,         \* of each folder: the last unit of every part, in their order
  Secure,      \* files of the secure partition: is each of them a content
  EntryCap,    \* NSP_MAX_ENTRIES: contents the made-up header has room for
  FdFaults     \* what may fail: "open", "read", "refuse", "finish", "errorbody"

ASSUME FdAssumption ==
  /\ Size \in Nat \ {0} /\ MaxResumes \in Nat \ {0}
  /\ Folders \subseteq SUBSET Nat
  /\ Cut \in [Folders -> Seq(1..Size)]
  /\ \A folder \in Folders :
       /\ \A i \in folder : 0..i \subseteq folder => i < Len(Cut[folder])
       /\ \A r \in 2..Len(Cut[folder]) : Cut[folder][r - 1] <= Cut[folder][r]
  /\ Secure \in Seq(BOOLEAN) /\ EntryCap \in Nat

VARIABLES
  fdKind,     \* what is installed from: "net", "nsp", "split" or "xci"
  fdPc,       \* where the installation is
  fdFed,      \* the units the installer has taken
  fdAt,       \* the next unit of the source
  fdBase,     \* resume_base: the offset of this request
  fdAttempt,  \* retries so far
  fdServer,   \* "ranges" answers 206, "whole" ignores the Range header
  fdParts,    \* what the chosen folder holds
  fdCount,    \* item->parts, counted when the folder was scanned
  fdPart,     \* the part being fed
  fdResult    \* how it ended

fdSource == <<fdKind, fdServer, fdParts, fdCount>>
fdVars   == <<fdSource, fdPc, fdFed, fdAt, fdBase, fdAttempt, fdPart, fdResult>>

FdKinds  == {"net", "nsp", "split", "xci"}
ErrorPage == Size + 1      \* what a server sends with an error

FdOutcomes(call) == IF call \in FdFaults THEN BOOLEAN ELSE {TRUE}

FdInit ==
  /\ fdKind = "nsp" /\ fdServer = "ranges" /\ fdParts = {} /\ fdCount = 0
  /\ fdPc = "idle" /\ fdFed = <<>> /\ fdAt = 1
  /\ fdBase = 0 /\ fdAttempt = 0 /\ fdPart = 0 /\ fdResult = "none"

\* nexusInstallFeed: the installer takes a unit or refuses the stream.
Takes(unit) == fdFed' = Append(fdFed, unit)
Refuses     == "refuse" \in FdFaults /\ fdPc' = "abort" /\ UNCHANGED fdFed
-----------------------------------------------------------------------------
(* Choosing what to install, and opening it.                               *)

\* measure_split, nexusLocalScan: every file must be a number, the count is
\* kept with the item; the parts themselves are looked up when installing,
\* in a folder that need no longer be the one that was scanned.
FdBegin ==
  /\ fdPc = "idle"
  /\ fdKind' \in FdKinds
  /\ fdServer' \in IF fdKind' = "net" THEN {"ranges", "whole"} ELSE {"ranges"}
  /\ IF fdKind' = "split"
       THEN \E scanned \in Folders : fdParts' \in Folders /\ fdCount' = Len(Cut[scanned])
       ELSE fdParts' = {} /\ fdCount' = 0
  /\ fdFed' = <<>> /\ fdAt' = 1 /\ fdBase' = 0 /\ fdAttempt' = 0 /\ fdPart' = 0
  /\ \E opens \in FdOutcomes("open") :
       /\ fdPc' = IF ~opens THEN "idle"
                  ELSE CASE fdKind' = "net"   -> "request"
                         [] fdKind' = "nsp"   -> "file"
                         [] fdKind' = "split" -> "part"
                         [] fdKind' = "xci"   -> "layout"
       /\ fdResult' = IF opens THEN "none" ELSE "failed"
-----------------------------------------------------------------------------
(* Over the network: nexusNetInstall, nexusHttpGetFrom, net_sink.          *)

\* The request starts at the very unit the installer wants next.  It may be
\* answered with an error page (416 too, when nothing is left to send), or
\* not at all; a server without ranges is refused by libcurl, or has its
\* first byte taken for the one asked for.
FdRequest ==
  /\ fdPc = "request"
  /\ fdBase' = Len(fdFed)
  /\ \/ /\ fdServer = "ranges" /\ Len(fdFed) < Size
        /\ fdAt' = Len(fdFed) + 1 /\ fdPc' = "stream"
     \/ /\ fdServer = "whole"
        /\ fdAt' = 1 /\ fdPc' = "stream"
     \/ /\ fdPc' = "error" /\ UNCHANGED fdAt
     \/ /\ fdPc' = "lost" /\ UNCHANGED fdAt
  /\ UNCHANGED <<fdSource, fdFed, fdAttempt, fdPart, fdResult>>

FdChunk ==
  /\ fdPc = "stream" /\ fdAt <= Size
  /\ \/ Takes(fdAt) /\ fdAt' = fdAt + 1 /\ UNCHANGED fdPc
     \/ Refuses /\ UNCHANGED fdAt
  /\ UNCHANGED <<fdSource, fdBase, fdAttempt, fdPart, fdResult>>

\* The connection goes; libcurl gives a silent one up after a minute.
FdDrop ==
  /\ fdPc = "stream" /\ fdPc' = "lost"
  /\ UNCHANGED <<fdSource, fdFed, fdAt, fdBase, fdAttempt, fdPart, fdResult>>

\* Mutant: an answer without ranges to a request for a range is accepted.
ReplayAccepted ==
  /\ fdPc = "stream" /\ fdAt > Size /\ fdPc' = "finish"
  /\ UNCHANGED <<fdSource, fdFed, fdAt, fdBase, fdAttempt, fdPart, fdResult>>

\* Only 206 is an answer to a request that did not start at 0.
FdAnswered ==
  /\ fdPc = "stream" /\ fdAt > Size
  /\ fdPc' = IF fdBase > 0 /\ fdServer = "whole" THEN "abort" ELSE "finish"
  /\ UNCHANGED <<fdSource, fdFed, fdAt, fdBase, fdAttempt, fdPart, fdResult>>

\* The page that comes with an error goes to the installer like any other
\* bytes: as a header it is refused, as a continuation it is not.
FdError ==
  /\ fdPc = "error"
  /\ \E taken \in IF "errorbody" \in FdFaults /\ fdFed # <<>> THEN BOOLEAN ELSE {FALSE} :
       /\ fdFed' = IF taken THEN Append(fdFed, ErrorPage) ELSE fdFed
       /\ fdPc' = IF taken THEN "lost" ELSE "abort"
  /\ UNCHANGED <<fdSource, fdAt, fdBase, fdAttempt, fdPart, fdResult>>

\* Mutant: a retry that brought nothing does not count.
RetryUncounted ==
  /\ fdPc = "lost"
  /\ fdPc' = IF fdAttempt + 1 >= MaxResumes THEN "abort" ELSE "request"
  /\ fdAttempt' = IF fdAttempt + 1 >= MaxResumes \/ Len(fdFed) = fdBase
                    THEN fdAttempt ELSE fdAttempt + 1
  /\ UNCHANGED <<fdSource, fdFed, fdAt, fdBase, fdPart, fdResult>>

\* A lost connection is picked up again, MAX_RESUMES times at most, and not
\* after a retry that brought nothing.
GivenUp == fdAttempt + 1 >= MaxResumes \/ (Len(fdFed) = fdBase /\ fdAttempt > 0)

FdLost ==
  /\ fdPc = "lost"
  /\ fdPc' = IF GivenUp THEN "abort" ELSE "request"
  /\ fdAttempt' = IF GivenUp THEN fdAttempt ELSE fdAttempt + 1
  /\ UNCHANGED <<fdSource, fdFed, fdAt, fdBase, fdPart, fdResult>>
-----------------------------------------------------------------------------
(* From the SD card: nexusLocalInstall, feed_file, feed_split.             *)

\* A read that fails is the end of the file.
FdFile ==
  /\ fdPc = "file"
  /\ \/ fdAt <= Size /\ Takes(fdAt) /\ fdAt' = fdAt + 1 /\ UNCHANGED fdPc
     \/ fdAt <= Size /\ Refuses /\ UNCHANGED fdAt
     \/ (fdAt > Size \/ "read" \in FdFaults) /\ fdPc' = "finish" /\ UNCHANGED <<fdFed, fdAt>>
  /\ UNCHANGED <<fdSource, fdBase, fdAttempt, fdPart, fdResult>>

\* Parts 00, 01, ... as many as were counted; one that is not there ends it.
FdPartOpens ==
  /\ fdPc = "part"
  /\ fdPc' = IF fdPart = fdCount THEN "finish"
             ELSE IF fdPart \in fdParts THEN "inpart" ELSE "abort"
  /\ UNCHANGED <<fdSource, fdFed, fdAt, fdBase, fdAttempt, fdPart, fdResult>>

\* With every part before it there, part i is the (i+1)th of the folder.
PartEnd == Cut[fdParts][fdPart + 1]

FdPart ==
  /\ fdPc = "inpart"
  /\ \/ /\ fdAt <= PartEnd /\ Takes(fdAt)
        /\ fdAt' = fdAt + 1 /\ UNCHANGED <<fdPc, fdPart>>
     \/ /\ fdAt <= PartEnd /\ Refuses
        /\ UNCHANGED <<fdAt, fdPart>>
     \/ /\ fdAt > PartEnd \/ "read" \in FdFaults
        /\ fdPc' = "part" /\ fdPart' = fdPart + 1
        /\ fdAt' = PartEnd + 1 /\ UNCHANGED fdFed
  /\ UNCHANGED <<fdSource, fdBase, fdAttempt, fdResult>>
-----------------------------------------------------------------------------
(* From a game card or its image: run_install.                             *)

\* The contents of the secure partition, by their place in it, and as many of
\* them as the builder takes: the rest is left out without a word.
Contents == InOrder({k \in DOMAIN Secure : Secure[k]})
Picked   == SubSeq(Contents, 1, IF Len(Contents) < EntryCap THEN Len(Contents) ELSE EntryCap)

\* resolve_layout: the card's header, the root table and the secure table
\* are read and checked before anything is installed.
FdLayout ==
  /\ fdPc = "layout"
  /\ \E readable \in FdOutcomes("read") :
       LET ok == readable /\ Picked # <<>> IN
       /\ fdPc' = IF ok THEN "card" ELSE "idle"
       /\ fdResult' = IF ok THEN fdResult ELSE "failed"
       /\ fdFed' = IF ok THEN <<1>> ELSE fdFed
  /\ UNCHANGED <<fdSource, fdAt, fdBase, fdAttempt, fdPart>>

\* Each entry is read from where the partition has it; a read that fails, a
\* card pulled out, ends it.
FdCard ==
  /\ fdPc = "card"
  /\ \/ fdAt <= Len(Picked) /\ Takes(Picked[fdAt] + 1) /\ fdAt' = fdAt + 1 /\ UNCHANGED fdPc
     \/ fdAt <= Len(Picked) /\ Refuses /\ UNCHANGED fdAt
     \/ fdAt <= Len(Picked) /\ "read" \in FdFaults /\ fdPc' = "abort" /\ UNCHANGED <<fdFed, fdAt>>
     \/ fdAt > Len(Picked) /\ fdPc' = "finish" /\ UNCHANGED <<fdFed, fdAt>>
  /\ UNCHANGED <<fdSource, fdBase, fdAttempt, fdPart, fdResult>>
-----------------------------------------------------------------------------
\* What the container holds, from beginning to end: of a card, behind the
\* header made up for it, all its contents.
Container(kind) ==
  IF kind = "xci" THEN <<1>> \o [k \in 1..Len(Contents) |-> Contents[k] + 1]
                  ELSE [k \in 1..Size |-> k]

\* What the header the installer was given declares, itself included.
Declared == IF fdKind = "xci" THEN Len(Picked) + 1 ELSE Size

\* nexusInstallFinish: a stream that ended early is refused, one that went
\* on is not.  nexusInstallAbort rolls back.
FdFinish ==
  /\ fdPc = "finish"
  /\ \E finishes \in FdOutcomes("finish") :
       fdResult' = IF finishes /\ Len(fdFed) >= Declared THEN "installed" ELSE "failed"
  /\ fdPc' = "idle"
  /\ UNCHANGED <<fdSource, fdFed, fdAt, fdBase, fdAttempt, fdPart>>

FdAbort ==
  /\ fdPc = "abort" /\ fdPc' = "idle" /\ fdResult' = "failed"
  /\ UNCHANGED <<fdSource, fdFed, fdAt, fdBase, fdAttempt, fdPart>>

FdStep ==
  \/ FdRequest \/ FdChunk \/ FdDrop \/ FdAnswered \/ FdError \/ FdLost
  \/ FdFile \/ FdPartOpens \/ FdPart \/ FdLayout \/ FdCard
  \/ FdFinish \/ FdAbort

FdNext == FdBegin \/ FdStep

FdSpec == FdInit /\ [][FdNext]_fdVars
-----------------------------------------------------------------------------
FdTypeOK ==
  /\ fdKind \in FdKinds /\ fdServer \in {"ranges", "whole"}
  /\ fdParts \in Folders \cup {{}} /\ fdCount \in Nat
  /\ fdPc \in {"idle", "request", "stream", "error", "lost", "file", "part", "inpart",
               "layout", "card", "finish", "abort"}
  /\ fdFed \in Seq((1..ErrorPage) \cup {k + 1 : k \in DOMAIN Secure})
  /\ fdAt \in Nat /\ fdBase \in Nat /\ fdAttempt \in 0..MaxResumes /\ fdPart \in Nat
  /\ fdResult \in {"none", "installed", "failed"}

\* What is reported as installed is the container, every unit once and in its
\* place, whatever connections were lost on the way, whatever parts are
\* missing and whatever reads failed; of a card with more than EntryCap
\* contents it would not be.
InstalledIsContainer == fdResult = "installed" => fdFed = Container(fdKind)

\* An installation ends, however often the connection goes: the screen comes
\* back to the menu.
InstallEnds == fdPc # "idle" ~> fdPc = "idle"
=============================================================================
