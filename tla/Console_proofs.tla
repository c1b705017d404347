--------------------------- MODULE Console_proofs ---------------------------
(***************************************************************************)
(* The console implements each of its parts: what user, main thread and    *)
(* worker do together is, to the titles' records, to an installation, to   *)
(* the firmware and to the program itself, a behaviour of that part alone. *)
(* What is proved of the parts then holds of the console, whatever the     *)
(* tours and constants.                                                    *)
(***************************************************************************)
EXTENDS Console, TitleRecords_proofs, Jobs_proofs

-----------------------------------------------------------------------------
(* Listings.                                                               *)

LEMMA TitlesListed ==
  ASSUME TlTypeOK
  PROVE  /\ Cardinality(tlMeta) \in Nat /\ Cardinality(tlMeta) <= Len(Catalog)
         /\ InNcm \in Seq(Titles) /\ Len(InNcm) = Cardinality(tlMeta)
         /\ \A t \in tlMeta : \E i \in DOMAIN InNcm : InNcm[i] = t
<1>1. Len(Catalog) \in Nat
  BY TlAssumption
<1>2. IsFiniteSet(Titles) /\ Cardinality(Titles) = Len(Catalog)
  <2>1. 1 \in Int /\ Len(Catalog) \in Int
    BY <1>1
  <2> DEFINE n == Len(Catalog)
  <2>2. /\ IsFiniteSet(1..n)
        /\ Cardinality(1..n) = IF 1 > n THEN 0 ELSE n - 1 + 1
    BY <2>1, FS_Interval, Zenon
  <2> QED BY <1>1, <2>2 DEF Titles
<1>3. tlMeta \in SUBSET Titles
  BY DEF TlTypeOK
<1>4. IsFiniteSet(tlMeta) /\ Cardinality(tlMeta) <= Len(Catalog)
  BY <1>2, <1>3, FS_Subset
<1>5. tlMeta \in SUBSET Int
  BY <1>1, <1>3 DEF Titles
<1>6. InNcm \in Seq(tlMeta) => InNcm \in Seq(Titles)
  BY <1>3
<1> QED BY <1>4, <1>5, <1>6, ListsAll DEF InNcm
-----------------------------------------------------------------------------
\* A row of the menu has a title.
RowsHaveTitles == csMenu \subseteq DOMAIN csList /\ \A i \in csMenu : csList[i] \in Titles

LEMMA ListedTitles ==
  ASSUME NEW mode, NEW filter, NEW titles, Listed(mode, filter, titles)
  PROVE  RowsHaveTitles'
<1>1. csList' \in [DOMAIN titles -> {t \in Titles : \E i \in DOMAIN titles : titles[i] = t}]
  BY DEF Listed, Sorted
<1>2. csMenu' \subseteq DOMAIN csList'
  BY DEF Listed, Menu
<1> QED BY <1>1, <1>2 DEF RowsHaveTitles

LEMMA RowsInitial == Init => RowsHaveTitles
BY DEF Init, RowsHaveTitles

LEMMA RowsInductive == RowsHaveTitles /\ [Next]_vars => RowsHaveTitles'
<1> SUFFICES ASSUME RowsHaveTitles, [Next]_vars PROVE RowsHaveTitles'
  OBVIOUS
<1>1. CASE UNCHANGED csTitles
  BY <1>1 DEF csTitles, RowsHaveTitles
<1>2. CASE CsSort BY <1>2, ListedTitles DEF CsSort
<1>3. CASE CsFilter BY <1>3, ListedTitles DEF CsFilter
<1>4. CASE CsDeleted BY <1>4, ListedTitles DEF CsDeleted, RebuildTitles
<1>5. CASE CsEnter BY <1>1, <1>5, ListedTitles DEF CsEnter, RebuildTitles
<1>6. CASE CsArm \/ CsVerifyOne
  BY <1>6 DEF CsArm, CsVerifyOne, RowsHaveTitles
<1>7. ASSUME CsMain, ~CsSort, ~CsFilter, ~CsDeleted, ~CsEnter, ~CsArm, ~CsVerifyOne
      PROVE  UNCHANGED csTitles
  BY <1>7
  DEF CsMain, CsDelete, CsDeleting, CsVerifyAll, CsVerifying, CsBack, CsMods, CsScan, CsClean,
      CsInstall, CsInstalling, CsFwScan, CsFwArm, CsFwInstall, CsFwInstalling,
      CsUpdate, CsUpdating, CsPower
<1>8. CASE CsWorker BY <1>1, <1>8 DEF CsWorker, csVars
<1>9. CASE UNCHANGED vars BY <1>1, <1>9 DEF vars, csVars
<1> QED BY <1>1, <1>2, <1>3, <1>4, <1>5, <1>6, <1>7, <1>8, <1>9 DEF Next
-----------------------------------------------------------------------------
(* A step of the console is a step of each part, or leaves it alone.       *)

LEMMA TitlesStep == RowsHaveTitles /\ [Next]_vars => [TlNext]_tlVars
<1> SUFFICES ASSUME RowsHaveTitles, [Next]_vars PROVE [TlNext]_tlVars
  OBVIOUS
<1> USE DEF TlNext
<1>1. ASSUME CsMain PROVE [TlNext]_tlVars
  <2>1. CASE CsDelete
    <3>1. PICK t \in Titles : BeginDelete("main", t)
      BY <2>1 DEF CsDelete, RowsHaveTitles
    <3> QED BY <3>1 DEF Threads
  <2>2. CASE CsDeleting BY <2>2 DEF CsDeleting, TlStep, Threads
  <2>3. CASE CsDeleted BY <2>3 DEF CsDeleted, Threads
  <2>4. CASE CsClean BY <2>4 DEF CsClean
  <2>5. CASE CsSort \/ CsFilter \/ CsArm \/ CsVerifyOne \/ CsVerifyAll \/ CsVerifying
    BY <2>5 DEF CsSort, CsFilter, CsArm, CsVerifyOne, CsVerifyAll, CsVerifying
  <2>6. CASE CsEnter \/ CsBack \/ CsMods \/ CsScan \/ CsInstall \/ CsInstalling
    BY <2>6 DEF CsEnter, CsBack, CsMods, CsScan, CsInstall, CsInstalling
  <2>7. CASE CsFwScan \/ CsFwArm \/ CsFwInstall \/ CsFwInstalling
    BY <2>7 DEF CsFwScan, CsFwArm, CsFwInstall, CsFwInstalling
  <2>8. CASE CsUpdate \/ CsUpdating \/ CsPower
    BY <2>8 DEF CsUpdate, CsUpdating, CsPower
  <2> QED BY <1>1, <2>1, <2>2, <2>3, <2>4, <2>5, <2>6, <2>7, <2>8 DEF CsMain
<1>2. ASSUME CsWorker PROVE [TlNext]_tlVars
  <2>1. CASE TsRemove
    <3>1. PICK t \in Titles : BeginDelete("worker", t)
      BY <2>1 DEF TsRemove
    <3> QED BY <3>1 DEF Threads
  <2>2. CASE TsInstall
    <3>1. PICK t \in Spare : TlBeginInstall(t)
      BY <2>2 DEF TsInstall
    <3> QED BY <3>1, TlAssumption
  <2>3. CASE TsJobOver BY <2>3 DEF TsJobOver, Threads
  <2>4. CASE TsWorker BY <2>4 DEF TsWorker, TlStep, Threads
  <2>5. CASE TsBrowse \/ TsBrowseFolder \/ TsInvalidate \/ TsGetObject \/ TsGetPartial
             \/ TsRead \/ TsSent
    BY <2>5 DEF TsBrowse, TsBrowseFolder, TsInvalidate, TsGetObject, TsGetPartial, TsRead, TsSent
  <2> QED BY <1>2, <2>1, <2>2, <2>3, <2>4, <2>5 DEF CsWorker
<1>3. CASE UNCHANGED vars
  BY <1>3 DEF vars
<1> QED BY <1>1, <1>2, <1>3 DEF Next

LEMMA InstallationStep == [Next]_vars => [FdNext]_fdVars
<1> SUFFICES ASSUME [Next]_vars PROVE [FdNext]_fdVars
  OBVIOUS
<1>1. CASE CsInstall BY <1>1 DEF CsInstall, FdNext
<1>2. CASE CsInstalling BY <1>2 DEF CsInstalling, FdNext
<1>3. ASSUME CsMain, ~CsInstall, ~CsInstalling PROVE UNCHANGED fdVars
  BY <1>3
  DEF CsMain, CsSort, CsFilter, CsArm, CsDelete, CsDeleting, CsDeleted, CsVerifyOne, CsVerifyAll,
      CsVerifying, CsEnter, CsBack, CsMods, CsScan, CsClean, CsFwScan, CsFwArm, CsFwInstall,
      CsFwInstalling, CsUpdate, CsUpdating, CsPower
<1>4. CASE CsWorker BY <1>4 DEF CsWorker
<1>5. CASE UNCHANGED vars BY <1>5 DEF vars
<1> QED BY <1>1, <1>2, <1>3, <1>4, <1>5 DEF Next

LEMMA FirmwareStep == [Next]_vars => [FwNext]_fwVars
<1> SUFFICES ASSUME [Next]_vars PROVE [FwNext]_fwVars
  OBVIOUS
<1>1. CASE CsFwScan BY <1>1 DEF CsFwScan, FwNext
<1>2. CASE CsFwInstall BY <1>2 DEF CsFwInstall, FwNext
<1>3. CASE CsFwInstalling BY <1>3 DEF CsFwInstalling, FwNext
<1>4. ASSUME CsMain, ~CsFwScan, ~CsFwInstall, ~CsFwInstalling PROVE UNCHANGED fwVars
  BY <1>4
  DEF CsMain, CsSort, CsFilter, CsArm, CsDelete, CsDeleting, CsDeleted, CsVerifyOne, CsVerifyAll,
      CsVerifying, CsEnter, CsBack, CsMods, CsScan, CsClean, CsInstall, CsInstalling, CsFwArm,
      CsUpdate, CsUpdating, CsPower
<1>5. CASE CsWorker BY <1>5 DEF CsWorker
<1>6. CASE UNCHANGED vars BY <1>6 DEF vars
<1> QED BY <1>1, <1>2, <1>3, <1>4, <1>5, <1>6 DEF Next

LEMMA UpdateStep == [Next]_vars => [UpNext]_upVars
<1> SUFFICES ASSUME [Next]_vars PROVE [UpNext]_upVars
  OBVIOUS
<1>1. CASE CsUpdate BY <1>1 DEF CsUpdate, UpNext
<1>2. CASE CsUpdating BY <1>2 DEF CsUpdating, UpNext
<1>3. CASE CsPower BY <1>3 DEF CsPower, UpNext
<1>4. ASSUME CsMain, ~CsUpdate, ~CsUpdating, ~CsPower PROVE UNCHANGED upVars
  BY <1>4
  DEF CsMain, CsSort, CsFilter, CsArm, CsDelete, CsDeleting, CsDeleted, CsVerifyOne, CsVerifyAll,
      CsVerifying, CsEnter, CsBack, CsMods, CsScan, CsClean, CsInstall, CsInstalling,
      CsFwScan, CsFwArm, CsFwInstall, CsFwInstalling
<1>5. CASE CsWorker BY <1>5 DEF CsWorker
<1>6. CASE UNCHANGED vars BY <1>6 DEF vars
<1> QED BY <1>1, <1>2, <1>3, <1>4, <1>5, <1>6 DEF Next
-----------------------------------------------------------------------------
\* The console implements its parts: the screens of main.c and the MTP
\* worker call nothing of them out of turn.
THEOREM ConsoleImplementsParts == Spec => TlSpec /\ FdSpec /\ FwSpec /\ UpSpec
<1>1. Init => TlInit /\ FdInit /\ FwInit /\ UpInit
  BY DEF Init
<1> QED
  BY <1>1, RowsInitial, RowsInductive, TitlesStep, InstallationStep, FirmwareStep, UpdateStep, PTL
  DEF Spec, TlSpec, FdSpec, FwSpec, UpSpec

\* So whatever the user does on the screens while a host does what it likes,
\* no record dangles, what is reported as installed is the container, no
\* firmware record describes what is not there and the program survives its
\* update: as long as ns lists what it has, no file of a firmware folder is
\* cut short unseen, no error page continues a download and a card has no
\* more contents than fit the header made up for it.
THEOREM ConsoleIsSafe ==
  ASSUME "list" \notin TlFaults, "read" \notin FwFaults, "errorbody" \notin FdFaults,
         Len(Contents) <= EntryCap
  PROVE  Spec => [](/\ NoDanglingRecord /\ FwWholeSet /\ UpNeverStranded
                    /\ InstalledIsContainer)
BY ConsoleImplementsParts, RecordsNeverDangle, FwDescribesWhatIsThere, UpKeepsAProgram,
   InstalledWhole, PTL
-----------------------------------------------------------------------------
(* What a row was armed for.                                               *)

\* The armed row still shows what it showed, and a deletion under way is of
\* that title.
ArmedTitle ==
  /\ csArmed # 0 => csArmed \in csMenu /\ csList[csArmed] = csDoomed
  /\ tlJob["main"].pc # "idle" => tlJob["main"].title = csDoomed

ArmedMod ==
  /\ mdArmed # 0 => mdArmed \in DOMAIN mdList /\ mdList[mdArmed] = mdDoomed
  /\ mdGone # NoDir => mdGone = mdDoomed

\* The worker's jobs are its own.
LEMMA WorkerJobs ==
  ASSUME TlTypeOK, CsWorker
  PROVE  tlJob'["main"] = tlJob["main"]
<1>0. tlJob \in [Threads -> [pc : JobPcs, title : Titles \cup {0}, kept : SUBSET Titles]]
  BY DEF TlTypeOK
<1>1. CASE TsRemove BY <1>0, <1>1 DEF TsRemove, BeginDelete, Begins, Threads
<1>2. CASE TsInstall BY <1>0, <1>2 DEF TsInstall, TlBeginInstall, Begins, Threads
<1>3. CASE TsJobOver BY <1>0, <1>3 DEF TsJobOver, TlEnd, Threads
<1>4. CASE TlDelete("worker")
  BY <1>0, <1>4
  DEF TlDelete, TlDeleteApp, TlList, TlDrop, TlPush, TlOpen, TlDeletePart, TlRemoveMeta, Goes, Threads
<1>5. CASE TlInstall
  BY <1>0, <1>5 DEF TlInstall, TlRegister, TlMerge, TlReplace, TlAdd, Goes, Threads
<1>6. CASE TsBrowse \/ TsBrowseFolder \/ TsInvalidate \/ TsGetObject \/ TsGetPartial
           \/ TsRead \/ TsSent
  BY <1>6 DEF TsBrowse, TsBrowseFolder, TsInvalidate, TsGetObject, TsGetPartial, TsRead, TsSent,
              tlVars
<1> QED BY <1>1, <1>2, <1>3, <1>4, <1>5, <1>6 DEF CsWorker, TsWorker

\* Steps of a deletion stay with its title.
LEMMA DeletingKeepsTitle ==
  ASSUME TlTypeOK, NEW th \in Threads, TlDelete(th)
  PROVE  tlJob[th].pc # "idle" /\ tlJob'[th].title = tlJob[th].title
<1>0. tlJob \in [Threads -> [pc : JobPcs, title : Titles \cup {0}, kept : SUBSET Titles]]
  BY DEF TlTypeOK
<1>1. tlJob[th].pc # "idle"
  BY DEF TlDelete, TlDeleteApp, TlList, TlDrop, TlPush, TlOpen, TlDeletePart, TlRemoveMeta, At, Parts
<1>2. tlJob'[th].title = tlJob[th].title
  BY <1>0
  DEF TlDelete, TlDeleteApp, TlList, TlDrop, TlPush, TlOpen, TlDeletePart, TlRemoveMeta, Goes
<1> QED BY <1>1, <1>2

LEMMA ArmedTitleInductive ==
  TlTypeOK /\ RowsHaveTitles /\ ArmedTitle /\ [Next]_vars => ArmedTitle'
<1> SUFFICES ASSUME TlTypeOK, RowsHaveTitles, ArmedTitle, [Next]_vars PROVE ArmedTitle'
  OBVIOUS
<1>0. /\ tlJob \in [Threads -> [pc : JobPcs, title : Titles \cup {0}, kept : SUBSET Titles]]
      /\ "main" \in Threads
  BY DEF TlTypeOK, Threads
<1>1. CASE UNCHANGED csTitles /\ tlJob'["main"] = tlJob["main"]
  BY <1>1 DEF ArmedTitle, csTitles
<1>2. CASE CsArm
  BY <1>2 DEF CsArm, On, MainFree, At, ArmedTitle, tlVars
<1>3. CASE CsDelete
  <2>1. csArmed # 0 => csList[csArmed] = csDoomed
    BY DEF ArmedTitle
  <2>2. /\ tlJob'["main"].title = csList[csArmed] /\ UNCHANGED csTitles
        /\ csArmed # 0 /\ csArmed \in csMenu
    BY <1>0, <1>3 DEF CsDelete, BeginDelete, Begins
  <2> QED BY <2>1, <2>2 DEF ArmedTitle, csTitles
<1>4. CASE CsDeleting
  BY <1>0, <1>4, DeletingKeepsTitle DEF CsDeleting, ArmedTitle, csTitles
<1>5. CASE CsDeleted
  <2>1. tlJob'["main"].pc = "idle" /\ csArmed' = 0
    BY <1>0, <1>5 DEF CsDeleted, TlEnd, NoJob, RebuildTitles
  <2> QED BY <2>1 DEF ArmedTitle
<1>6. CASE CsSort \/ CsFilter \/ CsVerifyOne
  BY <1>6 DEF CsSort, CsFilter, CsVerifyOne, On, MainFree, At, ArmedTitle, tlVars
<1>7. CASE CsEnter
  BY <1>7 DEF CsEnter, RebuildTitles, On, MainFree, At, ArmedTitle, tlVars, csTitles
<1>8. CASE CsClean
  BY <1>1, <1>8 DEF CsClean, TlCleanPlaceholders, TlCleanOrphans
<1>9. ASSUME CsMain, ~CsArm, ~CsDelete, ~CsDeleting, ~CsDeleted, ~CsSort, ~CsFilter,
             ~CsVerifyOne, ~CsEnter, ~CsClean
      PROVE  UNCHANGED <<csTitles, tlVars>>
  BY <1>9
  DEF CsMain, CsVerifyAll, CsVerifying, CsBack, CsMods, CsScan,
      CsInstall, CsInstalling, CsFwScan, CsFwArm, CsFwInstall, CsFwInstalling,
      CsUpdate, CsUpdating, CsPower
<1>10. CASE CsWorker
  BY <1>1, <1>10, WorkerJobs DEF CsWorker, csVars
<1>11. CASE UNCHANGED vars
  BY <1>1, <1>11 DEF vars, csVars, tlVars
<1> QED
  BY <1>1, <1>2, <1>3, <1>4, <1>5, <1>6, <1>7, <1>8, <1>9, <1>10, <1>11 DEF Next, tlVars

LEMMA ArmedModInductive == ArmedMod /\ [Next]_vars => ArmedMod'
<1> SUFFICES ASSUME ArmedMod, [Next]_vars PROVE ArmedMod'
  OBVIOUS
<1>1. CASE UNCHANGED mdVars BY <1>1 DEF mdVars, ArmedMod
<1>2. CASE MdRescan BY <1>2 DEF MdRescan, ArmedMod
<1>3. CASE MdToggle
  <2>1. mdArmed' = 0 /\ mdDoomed' = mdDoomed /\ mdGone' = mdGone
    BY <1>3 DEF MdToggle
  <2> QED BY <2>1 DEF ArmedMod
<1>4. CASE MdArm BY <1>4 DEF MdArm, ArmedMod
<1>5. CASE MdDelete
  <2>1. mdArmed' = 0 /\ mdDoomed' = mdDoomed /\ mdGone' = mdList[mdArmed]
    BY <1>5 DEF MdDelete
  <2>2. mdArmed # 0 /\ mdArmed \in DOMAIN mdList
    BY <1>5 DEF MdDelete
  <2> QED BY <2>1, <2>2 DEF ArmedMod
<1>6. CASE MdHost BY <1>6 DEF MdHost, ArmedMod
<1>7. ASSUME CsMain, ~CsEnter, ~CsMods PROVE UNCHANGED mdVars
  BY <1>7
  DEF CsMain, CsSort, CsFilter, CsArm, CsDelete, CsDeleting, CsDeleted, CsVerifyOne, CsVerifyAll,
      CsVerifying, CsBack, CsScan, CsClean, CsInstall, CsInstalling, CsFwScan, CsFwArm,
      CsFwInstall, CsFwInstalling, CsUpdate, CsUpdating, CsPower
<1>8. CASE CsEnter BY <1>1, <1>2, <1>8 DEF CsEnter
<1>9. CASE CsMods BY <1>3, <1>4, <1>5, <1>6, <1>9 DEF CsMods
<1>10. CASE CsWorker BY <1>1, <1>10 DEF CsWorker
<1>11. CASE UNCHANGED vars BY <1>1, <1>11 DEF vars
<1> QED BY <1>1, <1>7, <1>8, <1>9, <1>10, <1>11 DEF Next

\* The second press of X deletes the title or mod its row showed at the first:
\* whatever sorts, filters, deletes or changes the card in between disarms it
\* or leaves the row as it was.
THEOREM ArmedIsDeleted == Spec => []DeletesWhatWasArmed
<1>1. Init => ArmedTitle /\ ArmedMod
  BY DEF Init, TlInit, MdInit, NoJob, Threads, ArmedTitle, ArmedMod
<1>2. ArmedTitle /\ ArmedMod => DeletesWhatWasArmed
  BY DEF ArmedTitle, ArmedMod, DeletesWhatWasArmed, At
<1>3. TlSpec => []TlTypeOK
  BY TlTypeCorrect, PTL
<1> QED
  BY <1>1, <1>2, <1>3, ConsoleImplementsParts, RowsInitial, RowsInductive, ArmedTitleInductive,
     ArmedModInductive, PTL
  DEF Spec
-----------------------------------------------------------------------------
(* What the worker sends as a title's file.                                *)

Units == {Layout[i] : i \in DOMAIN Layout}

SendTyped ==
  tsSend \in [folder : Titles \cup {0}, file : Titles \cup {0}, from : 1..3,
             sent : Seq(Titles \X Units)]

LEMMA SendInitial == Init => SendTyped /\ NspIsTitle
BY DEF Init, TsInit, NoSend, SendTyped, NspIsTitle

\* A transfer begins with nothing sent.
LEMMA FreshSend ==
  ASSUME NEW f \in Titles, NEW g \in Titles, NEW from \in 1..3,
         tsSend' = [folder |-> f, file |-> g, from |-> from, sent |-> <<>>]
  PROVE  SendTyped' /\ NspIsTitle'
BY DEF SendTyped, NspIsTitle

\* A unit that is read is the next of the file that was asked for.
LEMMA ReadInductive ==
  ASSUME SendTyped, NspIsTitle, TsRead
  PROVE  SendTyped' /\ NspIsTitle'
<1> DEFINE unit == <<tsSend.file, Layout[Due]>>
<1>1. /\ tsSend' = [tsSend EXCEPT !.sent = Append(@, unit)]
      /\ tsSend.file # 0 /\ Due <= 3
  BY DEF TsRead, Served, Sending, Layout
<1>2. /\ tsSend.file \in Titles /\ tsSend.from \in 1..3
      /\ tsSend.sent \in Seq(Titles \X Units) /\ Len(tsSend.sent) \in Nat
  BY <1>1 DEF SendTyped
<1>3. Due \in 1..3 /\ unit \in Titles \X Units
  BY <1>1, <1>2 DEF Due, Layout, Units
<1>4. SendTyped'
  <2>1. Append(tsSend.sent, unit) \in Seq(Titles \X Units)
    BY <1>2, <1>3
  <2> HIDE DEF unit
  <2> QED BY <1>1, <2>1 DEF SendTyped
<1>5. /\ tsSend'.sent = Append(tsSend.sent, unit)
      /\ tsSend'.file = tsSend.file /\ tsSend'.from = tsSend.from
  BY <1>1 DEF SendTyped
<1>6. ASSUME NEW i \in DOMAIN tsSend'.sent
      PROVE  tsSend'.sent[i] = <<tsSend'.file, Layout[tsSend'.from + i - 1]>>
  <2>1. i \in 1..(Len(tsSend.sent) + 1)
    BY <1>2, <1>3, <1>5, <1>6
  <2>2. CASE i = Len(tsSend.sent) + 1
    <3>1. tsSend.from + i - 1 = Due
      BY <1>2, <2>2 DEF Due
    <3> QED BY <1>2, <1>3, <1>5, <2>2, <3>1
  <2>3. CASE i # Len(tsSend.sent) + 1
    <3>1. i \in DOMAIN tsSend.sent /\ tsSend'.sent[i] = tsSend.sent[i]
      BY <1>2, <1>3, <1>5, <2>1, <2>3
    <3> QED BY <1>5, <3>1 DEF NspIsTitle
  <2> QED BY <2>2, <2>3
<1> QED BY <1>4, <1>6 DEF NspIsTitle

LEMMA SendInductive == SendTyped /\ NspIsTitle /\ [Next]_vars => (SendTyped /\ NspIsTitle)'
<1> SUFFICES ASSUME SendTyped, NspIsTitle, [Next]_vars PROVE SendTyped' /\ NspIsTitle'
  OBVIOUS
<1>1. CASE UNCHANGED tsSend BY <1>1 DEF SendTyped, NspIsTitle
<1>2. CASE TsRead BY <1>2, ReadInductive
<1>3. CASE TsSent BY <1>3 DEF TsSent, NoSend, SendTyped, NspIsTitle
<1>4. CASE TsGetObject
  <2>1. PICK f \in Titles, g \in Titles : tsSend' = [NoSend EXCEPT !.folder = f, !.file = g]
    BY <1>4 DEF TsGetObject
  <2>2. tsSend' = [folder |-> f, file |-> g, from |-> 1, sent |-> <<>>]
    BY <2>1 DEF NoSend
  <2>3. 1 \in 1..3
    OBVIOUS
  <2> QED BY <2>2, <2>3, FreshSend, Zenon
<1>5. CASE TsGetPartial
  <2>1. PICK f \in Titles, g \in Titles, from \in DOMAIN Layout :
          tsSend' = [NoSend EXCEPT !.folder = f, !.file = g, !.from = from]
    BY <1>5 DEF TsGetPartial
  <2>2. from \in 1..3
    BY DEF Layout
  <2>3. tsSend' = [folder |-> f, file |-> g, from |-> from, sent |-> <<>>]
    BY <2>1 DEF NoSend
  <2> QED BY <2>2, <2>3, FreshSend
<1>6. ASSUME CsWorker, ~TsRead, ~TsSent, ~TsGetObject, ~TsGetPartial PROVE UNCHANGED tsSend
  BY <1>6
  DEF CsWorker, TsBrowse, TsBrowseFolder, TsInvalidate, TsRemove, TsJobOver, TsInstall, TsWorker,
      tsVars
<1>7. CASE CsMain BY <1>1, <1>7 DEF CsMain, tsVars
<1>8. CASE UNCHANGED vars BY <1>1, <1>8 DEF vars, tsVars
<1> QED BY <1>1, <1>2, <1>3, <1>4, <1>5, <1>6, <1>7, <1>8 DEF Next

\* A title's .nsp is that title's unit by unit, whichever titles are deleted,
\* installed or opened while it is read, although the store remembers the
\* open title by its place in a listing that deletions renumber.
THEOREM NspStaysTitle == Spec => []NspIsTitle
<1> QED BY SendInitial, SendInductive, PTL DEF Spec
-----------------------------------------------------------------------------
(* What a verification says.                                               *)

\* The titles that are still to be checked.
Pending == {vfTodo[i] : i \in DOMAIN vfTodo}

\* A verification that has counted no issue has every broken title before
\* it, and the one whose contents it is hashing does not match.
VerifyInv ==
  /\ VfTypeOK
  /\ \A t \in vfBroken : t \in Damaged \/ tlContent[t] # Parts
  /\ vfPc # "idle" /\ vfReport.bad = 0 => vfBroken \subseteq Pending
  /\ vfPc = "hash" => vfTodo # <<>> /\ (Head(vfTodo) \in vfBroken => ~Matches(Head(vfTodo)))
  /\ MatchIsTrue

LEMMA VerifyInitial == Init => VerifyInv
<1> SUFFICES ASSUME Init PROVE VerifyInv
  OBVIOUS
<1>1. VfTypeOK /\ vfBroken = {} /\ vfPc = "idle"
  <2>1. 0 \in 0..MaxIssues /\ 0 \in Nat
    BY VfAssumption
  <2>2. Blank \in [bad : Nat, issues : 0..MaxIssues, checked : Nat, cancelled : BOOLEAN]
    BY <2>1 DEF Blank
  <2>3. vfPc = "idle" /\ vfTodo = <<>> /\ vfReport = Blank /\ vfDone = FALSE /\ vfBroken = {}
    BY DEF Init, VfInit
  <2>4. vfTodo \in Seq(Titles) /\ vfBroken \subseteq Titles
    BY <2>3
  <2>5. vfPc \in {"idle", "title", "hash"} /\ vfDone \in BOOLEAN
    BY <2>3
  <2> QED BY <2>2, <2>3, <2>4, <2>5, Zenon DEF VfTypeOK
<1> QED BY <1>1 DEF VerifyInv, MatchIsTrue

\* What is deleted is no less broken than it was, what is installed is whole.
LEMMA DeletionsBreak ==
  ASSUME TlTypeOK, NEW th \in Threads, TlDelete(th)
  PROVE  \A t \in Titles : tlContent'[t] \subseteq tlContent[t]
<1>0. tlContent \in [Titles -> SUBSET Parts]
  BY DEF TlTypeOK
<1>1. CASE TlDeleteApp(th) BY <1>0, <1>1 DEF TlDeleteApp
<1>2. CASE TlDeletePart(th) BY <1>0, <1>2 DEF TlDeletePart
<1>3. ASSUME ~TlDeleteApp(th), ~TlDeletePart(th) PROVE UNCHANGED tlContent
  BY <1>3 DEF TlDelete, TlList, TlDrop, TlPush, TlOpen, TlRemoveMeta, tlData
<1> QED BY <1>1, <1>2, <1>3

LEMMA InstallationsMend ==
  ASSUME TlTypeOK, TlInstall
  PROVE  \A t \in Titles : tlContent'[t] \subseteq tlContent[t] \/ tlContent'[t] = Parts
<1>0. tlContent \in [Titles -> SUBSET Parts]
  BY DEF TlTypeOK
<1>1. CASE TlRegister BY <1>0, <1>1 DEF TlRegister
<1>2. CASE TlAdd BY <1>0, <1>2 DEF TlAdd
<1>3. CASE TlMerge \/ TlReplace BY <1>3 DEF TlMerge, TlReplace, tlData
<1> QED BY <1>1, <1>2, <1>3 DEF TlInstall

LEMMA WorkersContents ==
  ASSUME TlTypeOK, CsWorker
  PROVE  \A t \in Titles : tlContent'[t] \subseteq tlContent[t] \/ tlContent'[t] = Parts
<1>1. CASE TsRemove BY <1>1 DEF TsRemove, BeginDelete, tlData
<1>2. CASE TsInstall BY <1>2 DEF TsInstall, TlBeginInstall
<1>3. CASE TsJobOver BY <1>3 DEF TsJobOver, TlEnd, tlData
<1>4. CASE TsWorker
  BY <1>4, DeletionsBreak, InstallationsMend DEF TsWorker, Threads
<1>5. CASE TsBrowse \/ TsBrowseFolder \/ TsInvalidate \/ TsGetObject \/ TsGetPartial
           \/ TsRead \/ TsSent
  BY <1>5 DEF TsBrowse, TsBrowseFolder, TsInvalidate, TsGetObject, TsGetPartial, TsRead, TsSent,
              tlVars, tlData
<1> QED BY <1>1, <1>2, <1>3, <1>4, <1>5 DEF CsWorker

\* The worker may break or mend what is verified; a title it mends is watched
\* no longer.
LEMMA WorkerKeepsVerifyInv ==
  ASSUME TlTypeOK, VerifyInv, CsWorker
  PROVE  VerifyInv'
<1>0. tlContent \in [Titles -> SUBSET Parts] /\ vfBroken \subseteq Titles
  BY DEF TlTypeOK, VerifyInv, VfTypeOK
<1>1. /\ vfBroken' = {t \in vfBroken : t \in Damaged \/ tlContent'[t] # Parts}
      /\ UNCHANGED <<vfPc, vfTodo, vfReport, vfDone>>
  BY DEF CsWorker, VfWatch, Broken
<1>2. vfBroken' \subseteq vfBroken
  BY <1>1
<1>3. VfTypeOK'
  BY <1>1, <1>2 DEF VerifyInv, VfTypeOK
<1>4. ASSUME NEW t \in vfBroken', ~Matches(t) PROVE ~Matches(t)'
  BY <1>0, <1>1, <1>4, WorkersContents DEF Matches
<1>5. vfPc = "hash" => vfTodo # <<>> /\ (Head(vfTodo) \in vfBroken => ~Matches(Head(vfTodo)))
  BY DEF VerifyInv
<1>6. (vfPc = "hash" => vfTodo # <<>> /\ (Head(vfTodo) \in vfBroken => ~Matches(Head(vfTodo))))'
  BY <1>1, <1>2, <1>4, <1>5 DEF Matches
<1>7. (vfPc # "idle" /\ vfReport.bad = 0 => vfBroken \subseteq Pending)'
  BY <1>1, <1>2 DEF VerifyInv, Pending
<1>8. MatchIsTrue'
  BY <1>1, <1>2 DEF VerifyInv, MatchIsTrue, EverythingMatches
<1> QED BY <1>1, <1>3, <1>6, <1>7, <1>8 DEF VerifyInv

LEMMA BeginVerifies ==
  ASSUME TlTypeOK, VerifyInv, NEW titles \in Seq(Titles), VfBegin(titles), UNCHANGED tlVars
  PROVE  VerifyInv'
<1>1. /\ vfPc' = "title" /\ vfTodo' = titles /\ vfReport' = Blank /\ vfDone' = TRUE
      /\ vfBroken' = {t \in {titles[i] : i \in DOMAIN titles} :
                        t \in Damaged \/ tlContent[t] # Parts}
      /\ tlContent' = tlContent
  BY DEF VfBegin, Broken, tlVars, tlData
<1>2. vfBroken' \subseteq Titles /\ vfBroken' \subseteq Pending'
  BY <1>1 DEF Pending
<1>3. Blank \in [bad : Nat, issues : 0..MaxIssues, checked : Nat, cancelled : BOOLEAN]
  BY VfAssumption DEF Blank
<1> QED BY <1>1, <1>2, <1>3 DEF VerifyInv, VfTypeOK, MatchIsTrue, EverythingMatches

Reports == [bad : Nat, issues : 0..MaxIssues, checked : Nat, cancelled : BOOLEAN]

LEMMA ReportsTyped ==
  ASSUME NEW report \in Reports
  PROVE  /\ Issue(report) \in Reports /\ Issue(report).bad # 0
         /\ [report EXCEPT !.checked = @ + 1] \in Reports
         /\ [report EXCEPT !.checked = @ + 1].bad = report.bad
         /\ [report EXCEPT !.cancelled = TRUE, !.checked = @ + 1] \in Reports
         /\ [report EXCEPT !.cancelled = TRUE, !.checked = @ + 1].cancelled
<1>1. /\ report.bad \in Nat /\ report.checked \in Nat
      /\ report.issues \in 0..MaxIssues /\ report.cancelled \in BOOLEAN
      /\ report = [bad |-> report.bad, issues |-> report.issues, checked |-> report.checked,
                   cancelled |-> report.cancelled]
  BY DEF Reports
<1>2. report.bad + 1 \in Nat /\ report.bad + 1 # 0 /\ report.checked + 1 \in Nat
  BY <1>1
<1> DEFINE more == IF report.issues < MaxIssues THEN report.issues + 1 ELSE report.issues
<1>3. more \in 0..MaxIssues
  BY <1>1, VfAssumption
<1>4. Issue(report) = [bad |-> report.bad + 1, issues |-> more, checked |-> report.checked,
                       cancelled |-> report.cancelled]
  <2>1. Issue(report) = [report EXCEPT !.bad = report.bad + 1, !.issues = more]
    BY DEF Issue
  <2> HIDE DEF more
  <2> QED BY <1>1, <2>1
<1>5. Issue(report) \in Reports /\ Issue(report).bad # 0
  <2> HIDE DEF more
  <2> QED BY <1>1, <1>2, <1>3, <1>4 DEF Reports
<1>6. [report EXCEPT !.checked = @ + 1]
      = [bad |-> report.bad, issues |-> report.issues, checked |-> report.checked + 1,
         cancelled |-> report.cancelled]
  BY <1>1
<1>7. /\ [report EXCEPT !.cancelled = TRUE, !.checked = @ + 1] \in Reports
      /\ [report EXCEPT !.cancelled = TRUE, !.checked = @ + 1].cancelled
  <2> DEFINE n == report.checked + 1
             yes == TRUE
  <2>1. n \in Nat /\ yes \in BOOLEAN
    BY <1>2
  <2> HIDE DEF n, yes
  <2>2. /\ [report EXCEPT !.cancelled = yes, !.checked = n] \in Reports
        /\ [report EXCEPT !.cancelled = yes, !.checked = n].cancelled = yes
    BY <2>1 DEF Reports
  <2> QED BY <2>2, Zenon DEF n, yes
<1> QED BY <1>1, <1>2, <1>5, <1>6, <1>7 DEF Reports

\* The next title: one that was not broken, or an issue counted.
LEMMA NextVerifies ==
  ASSUME VerifyInv, UNCHANGED <<tlContent, vfDone, vfBroken>>, vfTodo # <<>>,
         NEW report, NextTitle(report), vfPc # "idle",
         \/ report = Issue(vfReport)
         \/ report = vfReport /\ Head(vfTodo) \notin vfBroken
  PROVE  VerifyInv'
<1>1. /\ vfTodo \in Seq(Titles) /\ vfReport \in Reports
      /\ vfPc' = "title" /\ vfTodo' = Tail(vfTodo)
      /\ vfReport' = [report EXCEPT !.checked = @ + 1]
  BY DEF VerifyInv, VfTypeOK, NextTitle, Reports
<1>2. Issue(vfReport) \in Reports /\ Issue(vfReport).bad # 0
  BY <1>1, ReportsTyped
<1>3. report \in Reports
  BY <1>1, <1>2
<1>4. vfReport' \in Reports /\ vfReport'.bad = report.bad
  BY <1>1, <1>3, ReportsTyped
<1>5. VfTypeOK'
  BY <1>1, <1>4 DEF VerifyInv, VfTypeOK, Reports
<1>6. ASSUME vfReport'.bad = 0 PROVE vfBroken' \subseteq Pending'
  <2>1. report = vfReport /\ Head(vfTodo) \notin vfBroken /\ vfBroken \subseteq Pending
    BY <1>2, <1>4, <1>6 DEF VerifyInv
  <2>2. ASSUME NEW t \in vfBroken PROVE t \in Pending'
    <3>1. PICK i \in DOMAIN vfTodo : vfTodo[i] = t
      BY <2>1 DEF Pending
    <3>2. i # 1
      BY <1>1, <2>1, <3>1
    <3>3. i - 1 \in DOMAIN Tail(vfTodo) /\ Tail(vfTodo)[i - 1] = t
      BY <1>1, <3>1, <3>2
    <3> QED BY <1>1, <3>3 DEF Pending
  <2> QED BY <2>2
<1> QED BY <1>1, <1>5, <1>6 DEF VerifyInv, MatchIsTrue, EverythingMatches

LEMMA StepVerifies ==
  ASSUME "verify" \notin TlFaults, TlTypeOK, VerifyInv, VfStep, UNCHANGED tlVars
  PROVE  VerifyInv'
<1>0. UNCHANGED tlContent /\ tlContent \in [Titles -> SUBSET Parts]
  BY DEF tlVars, tlData, TlTypeOK
<1>1. CASE VfTitle
  <2> DEFINE manifest == Head(vfTodo) \in tlMeta /\ "cnmt" \in tlContent[Head(vfTodo)]
  <2>1. /\ vfPc = "title" /\ vfTodo # <<>> /\ UNCHANGED <<vfDone, vfBroken>>
        /\ IF manifest THEN vfPc' = "hash" /\ UNCHANGED <<vfTodo, vfReport>>
                       ELSE NextTitle(Issue(vfReport))
    BY <1>1 DEF VfTitle, TlOutcomes
  <2>2. CASE manifest
    <3>1. Head(vfTodo) \in vfBroken => ~Matches(Head(vfTodo))
      <4>1. vfBroken \subseteq Titles
        BY DEF VerifyInv, VfTypeOK
      <4> QED BY <1>0, <2>2, <4>1 DEF VerifyInv, Matches, Parts
    <3> QED BY <1>0, <2>1, <2>2, <3>1
            DEF VerifyInv, VfTypeOK, Pending, Matches, MatchIsTrue, EverythingMatches
  <2>3. CASE ~manifest
    BY <1>0, <2>1, <2>3, NextVerifies
  <2> QED BY <2>2, <2>3
<1>2. CASE VfHash
  <2>1. /\ vfPc = "hash" /\ vfTodo # <<>> /\ UNCHANGED <<vfDone, vfBroken>>
        /\ NextTitle(IF Matches(Head(vfTodo)) THEN vfReport ELSE Issue(vfReport))
        /\ Matches(Head(vfTodo)) => Head(vfTodo) \notin vfBroken
    BY <1>2 DEF VfHash, VerifyInv
  <2> QED BY <1>0, <2>1, NextVerifies
<1>3. CASE VfCancel
  <2>1. /\ vfReport' = [vfReport EXCEPT !.cancelled = TRUE, !.checked = @ + 1]
        /\ vfPc' = "idle" /\ vfTodo' = <<>> /\ UNCHANGED <<vfDone, vfBroken>>
    BY <1>3 DEF VfCancel
  <2>2. vfReport' \in Reports /\ vfReport'.cancelled
    BY <2>1, ReportsTyped DEF VerifyInv, VfTypeOK, Reports
  <2> QED BY <1>0, <2>1, <2>2 DEF VerifyInv, VfTypeOK, Reports, MatchIsTrue, EverythingMatches
<1>4. CASE VfEnd
  <2>1. /\ vfPc = "title" /\ vfTodo = <<>> /\ vfPc' = "idle"
        /\ UNCHANGED <<vfTodo, vfReport, vfDone, vfBroken>>
    BY <1>4 DEF VfEnd
  <2>2. vfReport.bad = 0 => vfBroken = {}
    BY <2>1 DEF VerifyInv, Pending
  <2> QED BY <1>0, <2>1, <2>2 DEF VerifyInv, VfTypeOK, MatchIsTrue, EverythingMatches
<1> QED BY <1>1, <1>2, <1>3, <1>4 DEF VfStep

LEMMA VerifyInductive ==
  ASSUME "verify" \notin TlFaults
  PROVE  TlTypeOK /\ RowsHaveTitles /\ VerifyInv /\ [Next]_vars => VerifyInv'
<1> SUFFICES ASSUME TlTypeOK, RowsHaveTitles, VerifyInv, [Next]_vars PROVE VerifyInv'
  OBVIOUS
<1>1. ASSUME UNCHANGED vfVars, \A t \in Titles : tlContent'[t] \subseteq tlContent[t]
      PROVE  VerifyInv'
  <2>1. tlContent \in [Titles -> SUBSET Parts] /\ vfBroken \subseteq Titles
    BY DEF TlTypeOK, VerifyInv, VfTypeOK
  <2>2. \A t \in vfBroken : t \in Damaged \/ tlContent'[t] # Parts
    BY <1>1, <2>1 DEF VerifyInv
  <2>3. \A t \in vfBroken : Matches(t)' => Matches(t)
    BY <1>1, <2>1 DEF Matches
  <2>4. vfPc = "hash" /\ Head(vfTodo) \in vfBroken => ~Matches(Head(vfTodo))'
    BY <1>1, <2>3 DEF VerifyInv, vfVars, Matches
  <2> QED BY <1>1, <2>2, <2>4
          DEF VerifyInv, VfTypeOK, vfVars, Pending, Matches, MatchIsTrue, EverythingMatches
<1>2. CASE UNCHANGED <<vfVars, tlVars>>
  BY <1>1, <1>2 DEF tlVars, tlData
<1>3. CASE CsDeleting
  BY <1>1, <1>3, DeletionsBreak DEF CsDeleting, Threads
<1>4. CASE CsClean
  <2>1. tlContent \in [Titles -> SUBSET Parts]
    BY DEF TlTypeOK
  <2>2. \A t \in Titles : tlContent'[t] \subseteq tlContent[t]
    BY <1>4, <2>1 DEF CsClean, TlCleanPlaceholders, TlCleanOrphans
  <2> QED BY <1>1, <1>4, <2>2 DEF CsClean
<1>5. CASE CsDelete \/ CsDeleted
  BY <1>1, <1>5 DEF CsDelete, CsDeleted, BeginDelete, TlEnd, tlData
<1>6. CASE CsVerifyOne
  <2>1. PICK i \in csMenu : VfBegin(<<csList[i]>>)
    BY <1>6 DEF CsVerifyOne
  <2>2. <<csList[i]>> \in Seq(Titles)
    BY DEF RowsHaveTitles
  <2> QED BY <1>6, <2>1, <2>2, BeginVerifies DEF CsVerifyOne
<1>7. CASE CsVerifyAll
  BY <1>7, BeginVerifies, TitlesListed DEF CsVerifyAll
<1>8. CASE CsVerifying
  BY <1>8, StepVerifies DEF CsVerifying
<1>9. ASSUME CsMain, ~CsDeleting, ~CsClean, ~CsDelete, ~CsDeleted, ~CsVerifyOne, ~CsVerifyAll,
             ~CsVerifying
      PROVE  UNCHANGED <<vfVars, tlVars>>
  BY <1>9
  DEF CsMain, CsSort, CsFilter, CsArm, CsEnter, CsBack, CsMods, CsScan, CsInstall, CsInstalling,
      CsFwScan, CsFwArm, CsFwInstall, CsFwInstalling, CsUpdate, CsUpdating, CsPower
<1>10. CASE CsWorker BY <1>10, WorkerKeepsVerifyInv
<1>11. CASE UNCHANGED vars BY <1>2, <1>11 DEF vars
<1> QED BY <1>2, <1>3, <1>4, <1>5, <1>6, <1>7, <1>8, <1>9, <1>10, <1>11 DEF Next

\* "Everything matches its manifest" is said of no title that was broken when
\* the verification was asked for and has been ever since, whatever is
\* deleted or installed while it runs: as long as a title that cannot be
\* opened is not passed over.
THEOREM VerificationIsTrue ==
  ASSUME "verify" \notin TlFaults PROVE Spec => []MatchIsTrue
<1>1. VerifyInv => MatchIsTrue
  BY DEF VerifyInv
<1>2. TlSpec => []TlTypeOK
  BY TlTypeCorrect, PTL
<1> QED
  BY <1>1, <1>2, ConsoleImplementsParts, RowsInitial, RowsInductive, VerifyInitial,
     VerifyInductive, PTL
  DEF Spec
-----------------------------------------------------------------------------
(* Types.                                                                  *)

\* The cached listing is as long as a listing can be.
StoreTyped == TsTypeOK /\ Len(tsList) <= Len(Catalog)

LEMMA StoreInitial == Init => StoreTyped
<1> SUFFICES ASSUME Init PROVE StoreTyped
  OBVIOUS
<1>1. Len(Catalog) \in Nat
  BY TlAssumption
<1>2. tsListed = FALSE /\ tsList = <<>> /\ tsOpen = [index |-> 0, title |-> 0]
  BY DEF Init, TsInit, Closed
<1>3. tsSend \in [folder : Titles \cup {0}, file : Titles \cup {0}, from : 1..3,
                  sent : Seq(Titles \X {Layout[i] : i \in DOMAIN Layout})]
  BY SendInitial DEF SendTyped, Units
<1>4. tsOpen \in [index : 0..Len(Catalog), title : Titles \cup {0}]
  BY <1>1, <1>2
<1>5. tsList \in Seq(Titles) /\ Len(tsList) <= Len(Catalog)
  <2>1. <<>> \in Seq(Titles) /\ Len(<<>>) = 0
    OBVIOUS
  <2> QED BY <1>1, <1>2, <2>1
<1>6. tsListed \in BOOLEAN
  BY <1>2
<1> QED BY <1>3, <1>4, <1>5, <1>6 DEF StoreTyped, TsTypeOK

LEMMA StoreInductive ==
  ASSUME TlTypeOK, StoreTyped, SendTyped', [Next]_vars
  PROVE  StoreTyped'
<1> DEFINE Opens_ == [index : 0..Len(Catalog), title : Titles \cup {0}]
<1>0. /\ tsListed \in BOOLEAN /\ tsList \in Seq(Titles) /\ Len(tsList) <= Len(Catalog)
      /\ tsOpen \in Opens_ /\ Len(Catalog) \in Nat /\ tlMeta \subseteq Titles
  BY TlAssumption DEF StoreTyped, TsTypeOK, TlTypeOK
<1>1. Listing \in Seq(Titles) /\ Len(Listing) <= Len(Catalog)
  BY <1>0, TitlesListed DEF Listing
<1>2. ASSUME NEW f PROVE Opened(f) \in Opens_
  <2>1. Place(f) \in 0..Len(Catalog)
    <3>1. CASE \E i \in DOMAIN Listing : Listing[i] = f
      <4>1. Place(f) \in DOMAIN Listing
        BY <3>1 DEF Place
      <4> QED BY <1>0, <1>1, <4>1
    <3>2. CASE ~\E i \in DOMAIN Listing : Listing[i] = f
      BY <1>0, <3>2 DEF Place
    <3> QED BY <3>1, <3>2
  <2> QED BY <1>0, <2>1 DEF Opened, Closed
<1>3. Closed \in Opens_
  BY <1>0 DEF Closed
<1>4. tsOpen' = tsOpen \/ tsOpen' = Closed \/ \E f : tsOpen' = Opened(f)
  <2>1. CASE CsMain BY <2>1 DEF CsMain, tsVars
  <2>2. CASE UNCHANGED vars BY <2>2 DEF vars, tsVars
  <2>3. CASE TsBrowse \/ TsBrowseFolder \/ TsInvalidate \/ TsGetObject \/ TsGetPartial
    BY <2>3 DEF TsBrowse, TsBrowseFolder, TsInvalidate, TsGetObject, TsGetPartial
  <2>4. CASE TsRead \/ TsSent BY <2>4 DEF TsRead, TsSent
  <2>5. CASE TsRemove \/ TsInstall \/ TsJobOver \/ TsWorker
    BY <2>5 DEF TsRemove, TsInstall, TsJobOver, TsWorker, tsVars
  <2> QED BY <2>1, <2>2, <2>3, <2>4, <2>5 DEF Next, CsWorker
<1>5. tsOpen' \in Opens_
  BY <1>0, <1>2, <1>3, <1>4
<1>6. \/ UNCHANGED <<tsListed, tsList>> \/ TsList
      \/ tsListed' \in BOOLEAN /\ tsList' \in {<<>>, tsList}
  <2>1. CASE CsMain BY <2>1 DEF CsMain, tsVars
  <2>2. CASE UNCHANGED vars BY <2>2 DEF vars, tsVars
  <2>3. CASE TsBrowse \/ TsBrowseFolder \/ TsInvalidate \/ TsGetObject \/ TsGetPartial
    BY <2>3 DEF TsBrowse, TsBrowseFolder, TsInvalidate, TsGetObject, TsGetPartial
  <2>4. CASE TsRead \/ TsSent BY <2>4 DEF TsRead, TsSent
  <2>5. CASE TsRemove \/ TsInstall \/ TsJobOver \/ TsWorker
    BY <2>5, <1>0 DEF TsRemove, TsInstall, TsJobOver, TsWorker, tsVars
  <2> QED BY <2>1, <2>2, <2>3, <2>4, <2>5 DEF Next, CsWorker
<1>7. tsListed' \in BOOLEAN /\ tsList' \in Seq(Titles) /\ Len(tsList') <= Len(Catalog)
  <2>1. CASE UNCHANGED <<tsListed, tsList>> BY <1>0, <2>1
  <2>2. CASE TsList BY <1>1, <2>2 DEF TsList
  <2>3. CASE tsListed' \in BOOLEAN /\ tsList' = tsList BY <1>0, <2>3
  <2>4. CASE tsListed' \in BOOLEAN /\ tsList' = <<>>
    <3>1. <<>> \in Seq(Titles) /\ Len(<<>>) = 0
      OBVIOUS
    <3> QED BY <1>0, <2>4, <3>1
  <2> QED BY <1>6, <2>1, <2>2, <2>3, <2>4
<1> HIDE DEF Opens_
<1> QED BY <1>5, <1>7 DEF StoreTyped, TsTypeOK, SendTyped, Units, Opens_

\* What a scan finds are folders there may be.
LEMMA FoundTyped ==
  ASSUME NEW dirs PROVE Found(dirs) \in Seq(Dirs)
<1> DEFINE S == {i \in DOMAIN ModNames : ModNames[i] \in dirs}
<1>1. Len(ModNames) \in Nat /\ DOMAIN ModNames = 1..Len(ModNames)
  BY MdAssumption
<1>2. IsFiniteSet(DOMAIN ModNames)
  <2>1. 1 \in Int /\ Len(ModNames) \in Int
    BY <1>1
  <2> QED BY <1>1, <2>1, FS_Interval
<1>3. S \in SUBSET Int /\ IsFiniteSet(S) /\ S \subseteq DOMAIN ModNames
  BY <1>1, <1>2, FS_Subset
<1>4. InOrder(S) \in Seq(S)
  BY <1>3, ListsAll
<1>5. \A i \in S : ModNames[i] \in Dirs
  BY DEF Dirs
<1> HIDE DEF S
<1>6. InOrder(S) \in [1..Len(InOrder(S)) -> S] /\ Len(InOrder(S)) \in Nat
      /\ DOMAIN InOrder(S) = 1..Len(InOrder(S))
  BY <1>4, LenProperties
<1>7. [k \in DOMAIN InOrder(S) |-> ModNames[InOrder(S)[k]]] \in [1..Len(InOrder(S)) -> Dirs]
  BY <1>5, <1>6
<1>8. [k \in DOMAIN InOrder(S) |-> ModNames[InOrder(S)[k]]] \in Seq(Dirs)
  BY <1>6, <1>7, SeqDef
<1> QED BY <1>8 DEF Found, S

LEMMA MdInductive == MdTypeOK /\ [Next]_vars => MdTypeOK'
<1> SUFFICES ASSUME MdTypeOK, [Next]_vars PROVE MdTypeOK'
  OBVIOUS
<1>0. /\ mdDirs \subseteq Dirs /\ mdList \in Seq(Dirs) /\ mdArmed \in 0..Len(mdList)
      /\ mdDoomed \in Dirs \cup {NoDir} /\ mdGone \in Dirs \cup {NoDir}
      /\ Len(mdList) \in Nat /\ DOMAIN mdList = 1..Len(mdList)
      /\ \A i \in DOMAIN mdList : mdList[i] \in Dirs
  BY DEF MdTypeOK
<1>1. CASE UNCHANGED mdVars BY <1>1 DEF mdVars, MdTypeOK
<1>2. CASE MdRescan
  <2>1. mdList' \in Seq(Dirs) /\ mdArmed' = 0
    BY <1>2, FoundTyped DEF MdRescan
  <2> QED BY <1>0, <1>2, <2>1 DEF MdRescan, MdTypeOK
<1>3. CASE MdToggle
  <2>1. PICK i \in DOMAIN mdList :
          LET d == mdList[i]
              renames == d \in mdDirs /\ Toggled(d) \notin mdDirs IN
          /\ mdDirs' = IF renames THEN (mdDirs \ {d}) \cup {Toggled(d)} ELSE mdDirs
          /\ mdList' = IF renames THEN [mdList EXCEPT ![i] = Toggled(d)] ELSE mdList
    BY <1>3 DEF MdToggle
  <2>2. Toggled(mdList[i]) \in Dirs
    BY <1>0, MdAssumption
  <2>3. mdDirs' \subseteq Dirs
    BY <1>0, <2>1, <2>2
  <2>4. mdList' \in Seq(Dirs)
    <3> HIDE DEF Toggled
    <3> QED BY <1>0, <2>1, <2>2
  <2> QED BY <1>0, <1>3, <2>3, <2>4 DEF MdToggle, MdTypeOK
<1>4. CASE MdArm BY <1>0, <1>4 DEF MdArm, MdTypeOK
<1>5. CASE MdDelete
  <2>1. mdGone' \in Dirs /\ mdDirs' \subseteq Dirs
    BY <1>0, <1>5 DEF MdDelete
  <2>2. mdList' \in Seq(Dirs) /\ mdArmed' = 0
    BY <1>5, FoundTyped DEF MdDelete
  <2> QED BY <1>0, <1>5, <2>1, <2>2 DEF MdDelete, MdTypeOK
<1>6. CASE MdHost BY <1>6 DEF MdHost, MdTypeOK
<1>7. ASSUME CsMain, ~CsEnter, ~CsMods PROVE UNCHANGED mdVars
  BY <1>7
  DEF CsMain, CsSort, CsFilter, CsArm, CsDelete, CsDeleting, CsDeleted, CsVerifyOne, CsVerifyAll,
      CsVerifying, CsBack, CsScan, CsClean, CsInstall, CsInstalling, CsFwScan, CsFwArm,
      CsFwInstall, CsFwInstalling, CsUpdate, CsUpdating, CsPower
<1>8. CASE CsEnter BY <1>1, <1>2, <1>8 DEF CsEnter
<1>9. CASE CsMods BY <1>3, <1>4, <1>5, <1>6, <1>9 DEF CsMods
<1>10. CASE CsWorker BY <1>1, <1>10 DEF CsWorker
<1>11. CASE UNCHANGED vars BY <1>1, <1>11 DEF vars
<1> QED BY <1>1, <1>7, <1>8, <1>9, <1>10, <1>11 DEF Next

\* A title is hashed only when there is one.
VfTyped == VfTypeOK /\ (vfPc = "hash" => vfTodo # <<>>)

LEMMA VfInductive == TlTypeOK /\ RowsHaveTitles /\ VfTyped /\ [Next]_vars => VfTyped'
<1> SUFFICES ASSUME TlTypeOK, RowsHaveTitles, VfTyped, [Next]_vars PROVE VfTyped'
  OBVIOUS
<1>0. /\ vfPc \in {"idle", "title", "hash"} /\ vfTodo \in Seq(Titles) /\ vfDone \in BOOLEAN
      /\ vfReport \in Reports /\ vfBroken \subseteq Titles
      /\ vfPc = "hash" => vfTodo # <<>>
  BY DEF VfTyped, VfTypeOK, Reports
<1>1. CASE UNCHANGED vfVars BY <1>1 DEF vfVars, VfTyped, VfTypeOK
<1>2. ASSUME NEW titles \in Seq(Titles), VfBegin(titles) PROVE VfTyped'
  <2>1. Blank \in Reports
    BY VfAssumption DEF Blank, Reports
  <2>2. vfBroken' \subseteq Titles
    BY <1>2 DEF VfBegin, Broken
  <2> QED BY <1>2, <2>1, <2>2 DEF VfBegin, VfTyped, VfTypeOK, Reports
<1>3. ASSUME VfTitle \/ VfHash PROVE VfTyped'
  <2>1. /\ vfTodo # <<>> /\ UNCHANGED <<vfDone, vfBroken>>
        /\ \/ vfPc' = "hash" /\ UNCHANGED <<vfTodo, vfReport>>
           \/ NextTitle(vfReport) \/ NextTitle(Issue(vfReport))
    BY <1>0, <1>3 DEF VfTitle, VfHash
  <2>2. CASE vfPc' = "hash" /\ UNCHANGED <<vfTodo, vfReport>>
    BY <1>0, <2>1, <2>2 DEF VfTyped, VfTypeOK, Reports
  <2>3. ASSUME NEW report \in Reports, NextTitle(report) PROVE VfTyped'
    <3>1. vfReport' \in Reports
      BY <2>3, ReportsTyped DEF NextTitle
    <3>2. vfTodo' \in Seq(Titles) /\ vfPc' = "title"
      BY <1>0, <2>1, <2>3 DEF NextTitle
    <3> QED BY <1>0, <2>1, <3>1, <3>2 DEF VfTyped, VfTypeOK, Reports
  <2> QED BY <1>0, <2>1, <2>2, <2>3, ReportsTyped
<1>4. CASE VfCancel
  <2>1. vfReport' \in Reports /\ vfTodo' = <<>> /\ vfPc' = "idle" /\ UNCHANGED <<vfDone, vfBroken>>
    BY <1>0, <1>4, ReportsTyped DEF VfCancel
  <2>2. <<>> \in Seq(Titles)
    OBVIOUS
  <2> QED BY <1>0, <2>1, <2>2 DEF VfTyped, VfTypeOK, Reports
<1>5. CASE VfEnd BY <1>0, <1>5 DEF VfEnd, VfTyped, VfTypeOK, Reports
<1>6. CASE CsVerifyOne
  <2>1. PICK i \in csMenu : VfBegin(<<csList[i]>>)
    BY <1>6 DEF CsVerifyOne
  <2>2. <<csList[i]>> \in Seq(Titles)
    BY DEF RowsHaveTitles
  <2> QED BY <1>2, <2>1, <2>2
<1>7. CASE CsVerifyAll BY <1>2, <1>7, TitlesListed DEF CsVerifyAll
<1>8. CASE CsVerifying BY <1>3, <1>4, <1>5, <1>8 DEF CsVerifying, VfStep
<1>9. ASSUME CsMain, ~CsVerifyOne, ~CsVerifyAll, ~CsVerifying PROVE UNCHANGED vfVars
  BY <1>9
  DEF CsMain, CsSort, CsFilter, CsArm, CsDelete, CsDeleting, CsDeleted, CsEnter, CsBack, CsMods,
      CsScan, CsClean, CsInstall, CsInstalling, CsFwScan, CsFwArm, CsFwInstall, CsFwInstalling,
      CsUpdate, CsUpdating, CsPower
<1>10. CASE CsWorker
  <2>1. vfBroken' \subseteq vfBroken /\ UNCHANGED <<vfPc, vfTodo, vfReport, vfDone>>
    BY <1>10 DEF CsWorker, VfWatch, Broken
  <2> QED BY <1>0, <2>1 DEF VfTyped, VfTypeOK, Reports
<1>11. CASE UNCHANGED vars BY <1>1, <1>11 DEF vars
<1> QED BY <1>1, <1>6, <1>7, <1>8, <1>9, <1>10, <1>11 DEF Next

\* A menu made anew has rows of the list, which has titles.
LEMMA ListedTyped ==
  ASSUME NEW mode \in 0..2, NEW filter \in 0..3, NEW titles \in Seq(Titles),
         Listed(mode, filter, titles)
  PROVE  /\ csSort' \in 0..2 /\ csFilter' \in 0..3 /\ csList' \in Seq(Titles)
         /\ csMenu' \subseteq DOMAIN csList' /\ UNCHANGED csDoomed
<1>1. csList' \in [DOMAIN titles -> {t \in Titles : \E i \in DOMAIN titles : titles[i] = t}]
  BY DEF Listed, Sorted
<1>2. Len(titles) \in Nat /\ DOMAIN titles = 1..Len(titles)
  BY LenProperties
<1>3. csList' \in [1..Len(titles) -> Titles]
  BY <1>1, <1>2
<1>4. csList' \in Seq(Titles)
  BY <1>2, <1>3, SeqDef
<1> QED BY <1>4 DEF Listed, Menu

LEMMA CsInductive ==
  ASSUME TlTypeOK, TlTypeOK', CsTypeOK, [Next]_vars
  PROVE  CsTypeOK'
<1>0. /\ csTour \in Tours /\ csScreen \in Screens \cup {"main"}
      /\ csSort \in 0..2 /\ csFilter \in 0..3
      /\ csList \in Seq(Titles) /\ csMenu \subseteq DOMAIN csList
      /\ csArmed \in csMenu \cup {0} /\ csDoomed \in Titles \cup {0}
      /\ csReport \in Nat /\ csFwScanned \in BOOLEAN /\ csFwArmed \in BOOLEAN
      /\ InNcm \in Seq(Titles)
      /\ \A i \in DOMAIN csList : csList[i] \in Titles
  BY TitlesListed DEF CsTypeOK
<1>1. csTour' = csTour
  BY DEF Next, CsMain, CsWorker, csVars, vars
<1>2. csScreen' \in Screens \cup {"main"}
  BY <1>0
  DEF Next, CsMain, CsSort, CsFilter, CsArm, CsDelete, CsDeleting, CsDeleted, CsVerifyOne,
      CsVerifyAll, CsVerifying, CsEnter, CsBack, CsMods, CsScan, CsClean, CsInstall,
      CsInstalling, CsFwScan, CsFwArm, CsFwInstall, CsFwInstalling, CsUpdate, CsUpdating,
      CsPower, CsWorker, csVars, vars, Screens
<1>3. csFwScanned' \in BOOLEAN /\ csFwArmed' \in BOOLEAN
  <2>1. CASE UNCHANGED csFw BY <1>0, <2>1 DEF csFw
  <2>2. CASE CsFwScan BY <2>2 DEF CsFwScan
  <2>3. CASE CsEnter BY <1>0, <2>3 DEF CsEnter
  <2>4. CASE CsFwArm \/ CsFwInstall BY <1>0, <2>4 DEF CsFwArm, CsFwInstall
  <2>5. ASSUME CsMain, ~CsFwScan, ~CsEnter, ~CsFwArm, ~CsFwInstall PROVE UNCHANGED csFw
    BY <2>5
    DEF CsMain, CsSort, CsFilter, CsArm, CsDelete, CsDeleting, CsDeleted, CsVerifyOne,
        CsVerifyAll, CsVerifying, CsBack, CsMods, CsScan, CsClean, CsInstall,
        CsInstalling, CsFwInstalling, CsUpdate, CsUpdating, CsPower, csRest
  <2>6. CASE CsWorker BY <2>1, <2>6 DEF CsWorker, csVars, csRest
  <2>7. CASE UNCHANGED vars BY <2>1, <2>7 DEF vars, csVars, csRest
  <2> QED BY <2>1, <2>2, <2>3, <2>4, <2>5, <2>6, <2>7 DEF Next
<1>4. csReport' \in Nat
  <2>1. CASE UNCHANGED csReport BY <1>0, <2>1
  <2>2. CASE Scan
    <3>1. tlPlaces' \subseteq {"stray", "live"}
      BY DEF TlTypeOK
    <3>2. IsFiniteSet({"stray", "live"})
      <4>1. IsFiniteSet({} \cup {"stray"})
        BY FS_EmptySet, FS_AddElement
      <4>2. IsFiniteSet(({} \cup {"stray"}) \cup {"live"})
        BY <4>1, FS_AddElement
      <4>3. ({} \cup {"stray"}) \cup {"live"} = {"stray", "live"}
        OBVIOUS
      <4> QED BY <4>2, <4>3
    <3>3. IsFiniteSet(tlPlaces')
      BY <3>1, <3>2, FS_Subset
    <3> QED BY <2>2, <3>3, FS_CardinalityType DEF Scan
  <2>3. CASE CsScan \/ CsClean BY <2>2, <2>3 DEF CsScan, CsClean
  <2>4. ASSUME CsMain, ~CsScan, ~CsClean PROVE UNCHANGED csReport
    BY <2>4
    DEF CsMain, CsSort, CsFilter, CsArm, CsDelete, CsDeleting, CsDeleted, CsVerifyOne,
        CsVerifyAll, CsVerifying, CsEnter, CsBack, CsMods, CsInstall, CsInstalling, CsFwScan,
        CsFwArm, CsFwInstall, CsFwInstalling, CsUpdate, CsUpdating, CsPower, csRest
  <2>5. CASE CsWorker BY <2>1, <2>5 DEF CsWorker, csVars, csRest
  <2>6. CASE UNCHANGED vars BY <2>1, <2>6 DEF vars, csVars, csRest
  <2> QED BY <2>1, <2>3, <2>4, <2>5, <2>6 DEF Next
<1> DEFINE TitlesTyped ==
      /\ csSort' \in 0..2 /\ csFilter' \in 0..3
      /\ csList' \in Seq(Titles) /\ csMenu' \subseteq DOMAIN csList'
      /\ csArmed' \in csMenu' \cup {0} /\ csDoomed' \in Titles \cup {0}
<1>5. CASE UNCHANGED csTitles
  <2>1. TitlesTyped
    BY <1>0, <1>5 DEF csTitles
  <2> QED BY <1>0, <1>1, <1>2, <1>3, <1>4, <2>1 DEF CsTypeOK
<1>6. CASE CsSort \/ CsFilter
  <2>1. (csSort + 1) % 3 \in 0..2 /\ (csFilter + 1) % 4 \in 0..3
    BY <1>0
  <2>2. csArmed' = 0 /\ (\/ Listed((csSort + 1) % 3, csFilter, csList)
                         \/ Listed(csSort, (csFilter + 1) % 4, csList))
    BY <1>6 DEF CsSort, CsFilter
  <2>3. TitlesTyped
    BY <1>0, <2>1, <2>2, ListedTyped
  <2> QED BY <1>0, <1>1, <1>2, <1>3, <1>4, <2>3 DEF CsTypeOK
<1>7. CASE RebuildTitles
  <2>1. TitlesTyped
    BY <1>0, <1>7, ListedTyped DEF RebuildTitles
  <2> QED BY <1>0, <1>1, <1>2, <1>3, <1>4, <2>1 DEF CsTypeOK
<1>8. CASE CsArm
  <2>1. TitlesTyped
    BY <1>0, <1>8 DEF CsArm
  <2> QED BY <1>0, <1>1, <1>2, <1>3, <1>4, <2>1 DEF CsTypeOK
<1>9. CASE CsVerifyOne
  <2>1. TitlesTyped
    BY <1>0, <1>9 DEF CsVerifyOne
  <2> QED BY <1>0, <1>1, <1>2, <1>3, <1>4, <2>1 DEF CsTypeOK
<1>10. CASE CsDeleted BY <1>7, <1>10 DEF CsDeleted
<1>11. CASE CsEnter BY <1>5, <1>7, <1>11 DEF CsEnter
<1>12. ASSUME CsMain, ~CsSort, ~CsFilter, ~CsDeleted, ~CsEnter, ~CsArm, ~CsVerifyOne
       PROVE  UNCHANGED csTitles
  BY <1>12
  DEF CsMain, CsDelete, CsDeleting, CsVerifyAll, CsVerifying, CsBack, CsMods, CsScan, CsClean,
      CsInstall, CsInstalling, CsFwScan, CsFwArm, CsFwInstall, CsFwInstalling,
      CsUpdate, CsUpdating, CsPower
<1>13. CASE CsWorker BY <1>5, <1>13 DEF CsWorker, csVars
<1>14. CASE UNCHANGED vars BY <1>5, <1>14 DEF vars, csVars
<1> QED BY <1>5, <1>6, <1>8, <1>9, <1>10, <1>11, <1>12, <1>13, <1>14 DEF Next

\* Whatever the user and a host do, the state of every part has its type, and
\* an armed row is one of the menu: the stored rows, numbers and cached places
\* are never out of the range of what they index.
THEOREM ConsoleTypeCorrect == Spec => []ConsoleTypeOK
<1>1. Init => StoreTyped /\ VfTyped /\ MdTypeOK /\ CsTypeOK
  <2>1. Init => MdTypeOK
    <3> SUFFICES ASSUME Init PROVE MdTypeOK
      OBVIOUS
    <3>1. mdDirs = Dirs /\ mdList = <<>> /\ mdArmed = 0 /\ mdDoomed = NoDir /\ mdGone = NoDir
      BY DEF Init, MdInit
    <3> QED BY <3>1 DEF MdTypeOK
  <2>2. Init => CsTypeOK
    <3> SUFFICES ASSUME Init PROVE CsTypeOK
      OBVIOUS
    <3>1. /\ csTour \in Tours /\ csScreen = "main" /\ csSort = 0 /\ csFilter = 0
          /\ csList = <<>> /\ csMenu = {} /\ csArmed = 0 /\ csDoomed = 0
          /\ csReport = 0 /\ csFwScanned = FALSE /\ csFwArmed = FALSE
      BY DEF Init
    <3>2. csList \in Seq(Titles) /\ csMenu \subseteq DOMAIN csList /\ csReport \in Nat
      BY <3>1
    <3>3. csSort \in 0..2 /\ csFilter \in 0..3
      BY <3>1
    <3>4. csFwScanned \in BOOLEAN /\ csFwArmed \in BOOLEAN
      BY <3>1
    <3> QED BY <3>1, <3>2, <3>3, <3>4, Zenon DEF CsTypeOK
  <2>3. Init => VfTyped
    BY VerifyInitial DEF VerifyInv, VfTyped, Init, VfInit
  <2> QED BY <2>1, <2>2, <2>3, StoreInitial
<1>2. ASSUME TlTypeOK, TlTypeOK', RowsHaveTitles, SendTyped, NspIsTitle,
             StoreTyped, VfTyped, MdTypeOK, CsTypeOK, [Next]_vars
      PROVE  /\ RowsHaveTitles' /\ SendTyped' /\ NspIsTitle'
             /\ StoreTyped' /\ VfTyped' /\ MdTypeOK' /\ CsTypeOK'
  BY <1>2, RowsInductive, SendInductive, StoreInductive, VfInductive, MdInductive,
     CsInductive
<1>3. TlTypeOK /\ StoreTyped /\ VfTyped /\ MdTypeOK /\ CsTypeOK /\ FdTypeOK /\ FwTypeOK
      /\ UpTypeOK => ConsoleTypeOK
  <2>1. StoreTyped => TsTypeOK
    BY DEF StoreTyped
  <2>2. VfTyped => VfTypeOK
    BY DEF VfTyped
  <2> QED BY <2>1, <2>2 DEF ConsoleTypeOK
<1>4. TlSpec => []TlTypeOK
  BY TlTypeCorrect, PTL
<1>5. FdSpec => []FdTypeOK
  BY FdTypeCorrect, PTL
<1>6. FwSpec => []FwTypeOK
  BY FwTypeCorrect, PTL
<1>7. UpSpec => []UpTypeOK
  BY UpTypeCorrect, PTL
<1> QED
  BY <1>1, <1>2, <1>3, <1>4, <1>5, <1>6, <1>7, ConsoleImplementsParts, RowsInitial, SendInitial,
     PTL
  DEF Spec
=============================================================================
