------------------------------- MODULE Console -------------------------------
(***************************************************************************)
(* The main thread (main.c): its screens, and what they do to titles,      *)
(* mods, firmware, the program itself, and the console's storage, while    *)
(* the MTP worker serves the titles store.  An action on a screen runs to  *)
(* its end before the next button is looked at, but not at once.           *)
(*                                                                         *)
(* Screens share little but the titles, so a behaviour shows a part of     *)
(* what user and host may do, one of the constant Tours.                   *)
(***************************************************************************)
EXTENDS Verify, Mods, Feeders, Firmware, SelfUpdate

CONSTANT Tours   \* bound: the sets of things done in one behaviour

VARIABLES
  csTour,      \* the tour of this behaviour
  csScreen,    \* screen
  csSort,      \* g_title_sort
  csFilter,    \* g_title_filter
  csList,      \* g_titles, the titles by row
  csMenu,      \* sub: the rows of g_titles it offers
  csArmed,     \* g_title_armed, 0 for none
  csDoomed,    \* history: the title shown in the row that was armed
  csReport,    \* placeholders the last scan counted
  csFwScanned, \* g_fw_scanned
  csFwArmed    \* g_fw_armed

csTitles == <<csSort, csFilter, csList, csMenu, csArmed, csDoomed>>
csFw     == <<csFwScanned, csFwArmed>>
csRest   == <<csReport, csFw>>
csVars   == <<csTour, csScreen, csTitles, csRest>>

vars == <<tlVars, tsVars, vfVars, mdVars, fdVars, fwVars, upVars, csVars>>

Does(what) == what \in csTour

Screens == {"titles", "mods", "maintenance", "verify", "install", "update", "firmware"}

\* The main thread is in none of the actions that take their time.
MainFree ==
  /\ At("main", "idle") /\ vfPc = "idle"
  /\ fdPc = "idle" /\ fwPc = "idle" /\ upPc = "idle"

On(screen) == csScreen = screen /\ MainFree

\* Where a part plays no role in the tour it starts in one way only.
Init ==
  /\ TlInit /\ TsInit /\ VfInit /\ MdInit /\ FdInit /\ FwInit /\ UpInit
  /\ csTour \in Tours
  /\ Does("firmware") \/ (fwEmummc /\ fwFolder = CHOOSE f \in FwFolders : TRUE)
  /\ csScreen = "main" /\ csSort = 0 /\ csFilter = 0
  /\ csList = <<>> /\ csMenu = {} /\ csArmed = 0 /\ csDoomed = 0
  /\ csReport = 0 /\ csFwScanned = FALSE /\ csFwArmed = FALSE
-----------------------------------------------------------------------------
(* The titles screen.                                                      *)

\* compare: by name, or by size and the largest first, or by id; names, then
\* ids, break ties.
Before(mode, t, u) ==
  LET a == Catalog[t] b == Catalog[u]
      Later == \/ a.name < b.name
               \/ a.name = b.name /\ a.id < b.id
  IN CASE mode = 1 -> a.size > b.size \/ (a.size = b.size /\ Later)
       [] mode = 2 -> a.id < b.id \/ (a.id = b.id /\ Later)
       [] OTHER    -> Later

\* nexusTitleListSort: titles that compare equal come in any order.
Sorted(mode, titles) ==
  {list \in [DOMAIN titles -> {t \in Titles : \E i \in DOMAIN titles : titles[i] = t}] :
     \A i, j \in DOMAIN titles :
       i < j => list[i] # list[j] /\ ~Before(mode, list[j], list[i])}

\* nexusTitleListMatches
Shows(filter, t) ==
  CASE filter = 1 -> Catalog[t].kind = "application"
    [] filter = 2 -> Catalog[t].kind = "patch"
    [] filter = 3 -> Catalog[t].kind = "addon"
    [] OTHER      -> TRUE

\* build_titles_menu
Menu(filter, list) == {i \in DOMAIN list : Shows(filter, list[i])}

Listed(mode, filter, titles) ==
  /\ csSort' = mode /\ csFilter' = filter
  /\ csList' \in Sorted(mode, titles)
  /\ csMenu' = Menu(filter, csList')
  /\ UNCHANGED csDoomed

\* rebuild_titles
RebuildTitles == Listed(csSort, csFilter, InNcm) /\ csArmed' = 0

\* Mutant: the row stays armed while another title takes its place.
SortArmed ==
  /\ On("titles") /\ Does("sort")
  /\ Listed((csSort + 1) % 3, csFilter, csList) /\ UNCHANGED csArmed
  /\ UNCHANGED <<tlVars, vfVars, mdVars, fdVars, fwVars, upVars, csScreen, csRest>>

CsSort ==
  /\ On("titles") /\ Does("sort")
  /\ Listed((csSort + 1) % 3, csFilter, csList) /\ csArmed' = 0
  /\ UNCHANGED <<tlVars, vfVars, mdVars, fdVars, fwVars, upVars, csScreen, csRest>>

\* Mutant: the row stays armed though the filter hides it.
FilterArmed ==
  /\ On("titles") /\ Does("sort")
  /\ Listed(csSort, (csFilter + 1) % 4, csList) /\ UNCHANGED csArmed
  /\ UNCHANGED <<tlVars, vfVars, mdVars, fdVars, fwVars, upVars, csScreen, csRest>>

CsFilter ==
  /\ On("titles") /\ Does("sort")
  /\ Listed(csSort, (csFilter + 1) % 4, csList) /\ csArmed' = 0
  /\ UNCHANGED <<tlVars, vfVars, mdVars, fdVars, fwVars, upVars, csScreen, csRest>>

\* X on a row: the first press arms it, the second deletes its title.
CsArm ==
  /\ On("titles")
  /\ \E i \in csMenu : i # csArmed /\ csArmed' = i /\ csDoomed' = csList[i]
  /\ UNCHANGED <<tlVars, vfVars, mdVars, fdVars, fwVars, upVars, csScreen, csSort,
                 csFilter, csList, csMenu, csRest>>

CsDelete ==
  /\ On("titles") /\ csArmed # 0 /\ csArmed \in csMenu
  /\ BeginDelete("main", csList[csArmed])
  /\ UNCHANGED <<vfVars, mdVars, fdVars, fwVars, upVars, csScreen, csTitles, csRest>>

CsDeleting ==
  /\ TlDelete("main")
  /\ UNCHANGED <<vfVars, mdVars, fdVars, fwVars, upVars, csScreen, csTitles, csRest>>

\* Whatever came of it, the titles are read anew.
CsDeleted ==
  /\ TlEnd("main") /\ RebuildTitles
  /\ UNCHANGED <<vfVars, mdVars, fdVars, fwVars, upVars, csScreen, csRest>>

\* A on a row verifies its title.
CsVerifyOne ==
  /\ On("titles") /\ Does("verify")
  /\ \E i \in csMenu : VfBegin(<<csList[i]>>)
  /\ csScreen' = "verify" /\ csArmed' = 0
  /\ UNCHANGED <<tlVars, mdVars, fdVars, fwVars, upVars, csSort, csFilter, csList,
                 csMenu, csDoomed, csRest>>

CsVerifyAll ==
  /\ On("main") /\ Does("verify")
  /\ VfBegin(InNcm)
  /\ csScreen' = "verify"
  /\ UNCHANGED <<tlVars, mdVars, fdVars, fwVars, upVars, csTitles, csRest>>

CsVerifying ==
  /\ VfStep
  /\ UNCHANGED <<tlVars, mdVars, fdVars, fwVars, upVars, csScreen, csTitles, csRest>>
-----------------------------------------------------------------------------
(* Entering and leaving.                                                   *)

\* What a screen shows is read when it is entered; entering the firmware
\* screen disarms it.
CsEnter ==
  /\ On("main")
  /\ csScreen' \in (Screens \ {"verify"}) \cap csTour
  /\ IF csScreen' = "titles" THEN RebuildTitles ELSE UNCHANGED csTitles
  /\ IF csScreen' = "mods" THEN MdRescan ELSE UNCHANGED mdVars
  /\ csFwArmed' = (csFwArmed /\ csScreen' # "firmware")
  /\ UNCHANGED <<tlVars, vfVars, fdVars, fwVars, upVars, csReport, csFwScanned>>

CsBack ==
  /\ MainFree /\ csScreen \in Screens /\ csScreen' = "main"
  /\ UNCHANGED <<tlVars, vfVars, mdVars, fdVars, fwVars, upVars, csTitles, csRest>>

\* A, X and what the host does to the SD card
CsMods ==
  /\ \/ On("mods") /\ (MdToggle \/ MdArm \/ MdDelete)
     \/ Does("mods") /\ MdHost
  /\ UNCHANGED <<tlVars, vfVars, fdVars, fwVars, upVars, csScreen, csTitles, csRest>>
-----------------------------------------------------------------------------
(* Maintenance.                                                            *)

\* nexusMaintenanceScan takes every placeholder for a stray one.
Scan == csReport' = Cardinality(tlPlaces')

CsScan ==
  /\ On("maintenance")
  /\ UNCHANGED tlVars /\ Scan
  /\ UNCHANGED <<vfVars, mdVars, fdVars, fwVars, upVars, csScreen, csTitles, csFw>>

\* Each sweep is followed by a scan.
CsClean ==
  /\ On("maintenance")
  /\ TlCleanPlaceholders \/ TlCleanOrphans
  /\ Scan
  /\ UNCHANGED <<vfVars, mdVars, fdVars, fwVars, upVars, csScreen, csTitles, csFw>>
-----------------------------------------------------------------------------
(* Installing, from the network, the SD card or a game card.               *)

CsInstall ==
  /\ On("install") /\ FdBegin
  /\ UNCHANGED <<tlVars, vfVars, mdVars, fwVars, upVars, csScreen, csTitles, csRest>>

CsInstalling ==
  /\ FdStep
  /\ UNCHANGED <<tlVars, vfVars, mdVars, fwVars, upVars, csScreen, csTitles, csRest>>
-----------------------------------------------------------------------------
(* Firmware: scan, arm, install; the menu offers no more than the next.    *)

CsFwScan ==
  /\ On("firmware") /\ FwScan
  /\ csFwScanned' = TRUE /\ csFwArmed' = FALSE
  /\ UNCHANGED <<tlVars, vfVars, mdVars, fdVars, upVars, csScreen, csTitles, csReport>>

FwOffered == On("firmware") /\ fwEmummc /\ csFwScanned /\ fwValid

CsFwArm ==
  /\ FwOffered /\ ~csFwArmed /\ csFwArmed' = TRUE
  /\ UNCHANGED <<tlVars, vfVars, mdVars, fdVars, fwVars, upVars, csScreen, csTitles,
                 csReport, csFwScanned>>

\* It is disarmed by the end of it, which here is the beginning: nothing
\* looks at it meanwhile.
CsFwInstall ==
  /\ FwOffered /\ csFwArmed /\ FwBegin
  /\ csFwArmed' = FALSE
  /\ UNCHANGED <<tlVars, vfVars, mdVars, fdVars, upVars, csScreen, csTitles,
                 csReport, csFwScanned>>

CsFwInstalling ==
  /\ FwInstall \/ (Does("firmware") /\ FwReplaceFolder)
  /\ UNCHANGED <<tlVars, vfVars, mdVars, fdVars, upVars, csScreen, csTitles, csRest>>
-----------------------------------------------------------------------------
(* The program's own update.                                               *)

CsUpdate ==
  /\ On("update") /\ (UpCheck \/ UpBegin)
  /\ UNCHANGED <<tlVars, vfVars, mdVars, fdVars, fwVars, csScreen, csTitles, csRest>>

CsUpdating ==
  /\ UpDownload \/ UpVerify \/ UpForget \/ UpKeep \/ UpSwap \/ UpUndo
  /\ UNCHANGED <<tlVars, vfVars, mdVars, fdVars, fwVars, csScreen, csTitles, csRest>>

CsPower ==
  /\ Does("update") /\ (UpPowerLoss \/ UpStart) /\ csScreen' = "main"
  /\ UNCHANGED <<tlVars, vfVars, mdVars, fdVars, fwVars, csTitles, csRest>>
-----------------------------------------------------------------------------
CsMain ==
  /\ \/ CsSort \/ CsFilter \/ CsArm \/ CsDelete \/ CsDeleting \/ CsDeleted
     \/ CsVerifyOne \/ CsVerifyAll \/ CsVerifying
     \/ CsEnter \/ CsBack \/ CsMods \/ CsScan \/ CsClean
     \/ CsInstall \/ CsInstalling
     \/ CsFwScan \/ CsFwArm \/ CsFwInstall \/ CsFwInstalling
     \/ CsUpdate \/ CsUpdating \/ CsPower
  /\ UNCHANGED <<tsVars, csTour>>

\* The MTP worker, as far as the tour has it.
CsWorker ==
  /\ \/ Does("browse") /\ (TsBrowse \/ TsBrowseFolder \/ TsInvalidate)
     \/ Does("fetch") /\ (TsGetObject \/ TsGetPartial)
     \/ Does("remove") /\ TsRemove
     \/ Does("receive") /\ TsInstall
     \/ TsRead \/ TsSent \/ TsJobOver \/ TsWorker
  /\ VfWatch
  /\ UNCHANGED <<mdVars, fdVars, fwVars, upVars, csVars>>

Next == CsMain \/ CsWorker

Spec == Init /\ [][Next]_vars /\ WF_fdVars(FdStep)
-----------------------------------------------------------------------------
CsTypeOK ==
  /\ csTour \in Tours /\ csScreen \in Screens \cup {"main"}
  /\ csSort \in 0..2 /\ csFilter \in 0..3
  /\ csList \in Seq(Titles) /\ csMenu \subseteq DOMAIN csList
  /\ csArmed \in csMenu \cup {0} /\ csDoomed \in Titles \cup {0}
  /\ csReport \in Nat /\ csFwScanned \in BOOLEAN /\ csFwArmed \in BOOLEAN

\* The state of every part has its type; an armed row is one that is shown.
ConsoleTypeOK ==
  /\ TlTypeOK /\ TsTypeOK /\ VfTypeOK /\ MdTypeOK
  /\ FdTypeOK /\ FwTypeOK /\ UpTypeOK /\ CsTypeOK

\* What is deleted is what the row showed when it was armed, title or mod:
\* not what sorting, filtering, a deletion or a change made over MTP has put
\* in its place since ("the row under the cursor is about to be a different
\* title").
DeletesWhatWasArmed ==
  /\ ~At("main", "idle") => tlJob["main"].title = csDoomed
  /\ mdGone # NoDir => mdGone = mdDoomed
=============================================================================
