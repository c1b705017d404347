----------------------------- MODULE TitlesStore -----------------------------
(***************************************************************************)
(* The store of installed titles as MTP's worker serves it                 *)
(* (storage_titles.c, nsp_builder.c): a folder for every title, with an    *)
(* .nsp in it that is made up while it is read, and whose deletion deletes *)
(* the title.  The listing is cached, and so is the one open title, by its *)
(* place in the listing.  The main thread may delete titles meanwhile.     *)
(*                                                                         *)
(* A folder's or a file's name stands for the title it was made from: it   *)
(* has the title's id, version and kind in it.                             *)
(***************************************************************************)
EXTENDS TitleRecords, Ascending

VARIABLES
  tsListed,    \* s->listed
  tsList,      \* s->entries
  tsOpen,      \* open_index, and the title its layout was built for
  tsSend       \* the file being sent: folder, file, first unit, what was sent

tsVars == <<tsListed, tsList, tsOpen, tsSend>>

Closed  == [index |-> 0, title |-> 0]
NoSend  == [folder |-> 0, file |-> 0, from |-> 1, sent |-> <<>>]
Sending == tsSend.file # 0

\* The units of an .nsp, in the order nspBuilderFinalize lays them out: the
\* header, then the contents.
Layout == <<"header", "content", "cnmt">>

TsInit ==
  /\ tsListed = FALSE /\ tsList = <<>> /\ tsOpen = Closed /\ tsSend = NoSend

WorkerFree == At("worker", "idle") /\ ~Sending
-----------------------------------------------------------------------------
\* titles_list, list_storage
InNcm   == InOrder(tlMeta)
Listing == IF tsListed THEN tsList ELSE InNcm

TsList == tsListed' = TRUE /\ tsList' = Listing

\* titles_find
Place(f) == IF \E i \in DOMAIN Listing : Listing[i] = f
              THEN CHOOSE i \in DOMAIN Listing : Listing[i] = f ELSE 0

\* titles_open: what is open already is not looked at again; what ncm no
\* longer has cannot be opened.
Opened(f) ==
  IF Place(f) \in {0, tsOpen.index} THEN tsOpen
  ELSE IF f \in tlMeta THEN [index |-> Place(f), title |-> f] ELSE Closed

Opens(f) == Place(f) # 0 /\ Opened(f) # Closed

\* titles_enumerate of the store, titles_thumbnail, titles_get_info
TsBrowse ==
  /\ WorkerFree /\ TsList
  /\ UNCHANGED <<tlVars, tsOpen, tsSend>>

\* titles_enumerate of a folder, titles_stat of a file in it
TsBrowseFolder ==
  /\ WorkerFree /\ TsList
  /\ \E f \in Titles : tsOpen' = Opened(f)
  /\ UNCHANGED <<tlVars, tsSend>>
-----------------------------------------------------------------------------
\* op_get_object looks the size up first, op_get_partial_object starts
\* anywhere.
TsGetObject ==
  /\ WorkerFree /\ TsList
  /\ \E f, g \in Titles :
       /\ tsOpen' = Opened(f)
       /\ Opens(f) /\ Opened(f).title = g
       /\ tsSend' = [NoSend EXCEPT !.folder = f, !.file = g]
  /\ UNCHANGED tlVars

TsGetPartial ==
  /\ WorkerFree
  /\ \E f, g \in Titles, from \in DOMAIN Layout :
       tsSend' = [NoSend EXCEPT !.folder = f, !.file = g, !.from = from]
  /\ UNCHANGED <<tlVars, tsListed, tsList, tsOpen>>

\* nspBuilderLocate, read_virtual_nsp: the header is in memory, a content is
\* read from where ncm has it.
Due == tsSend.from + Len(tsSend.sent)

Readable(t) == Layout[Due] \in tlContent[t] \cup {"header"}

\* Mutant: the name of the file is not compared with the open title's.
ReadUnnamed ==
  /\ Sending /\ Due <= Len(Layout) /\ TsList
  /\ tsOpen' = Opened(tsSend.folder)
  /\ Opens(tsSend.folder)
  /\ tsSend' = [tsSend EXCEPT !.sent = Append(@, <<Opened(tsSend.folder).title, Layout[Due]>>)]
  /\ UNCHANGED tlVars

\* titles_read: every read finds its folder and its title anew.
Served ==
  /\ Due <= Len(Layout)
  /\ Opens(tsSend.folder)
  /\ Opened(tsSend.folder).title = tsSend.file
  /\ Readable(tsSend.file)

TsRead ==
  /\ Sending /\ Served /\ TsList
  /\ tsOpen' = Opened(tsSend.folder)
  /\ tsSend' = [tsSend EXCEPT !.sent = Append(@, <<Opened(tsSend.folder).title, Layout[Due]>>)]
  /\ UNCHANGED tlVars

\* send_object_range ends with the file, or with a read that fails.
TsSent ==
  /\ Sending /\ ~Served /\ TsList
  /\ tsOpen' = IF Due > Len(Layout) THEN tsOpen ELSE Opened(tsSend.folder)
  /\ tsSend' = NoSend
  /\ UNCHANGED tlVars
-----------------------------------------------------------------------------
\* titles_remove; the folder may be a title that is gone.
TsRemove ==
  /\ WorkerFree /\ TsList
  /\ \E f \in Titles :
       /\ Place(f) # 0
       /\ BeginDelete("worker", f)
       /\ tsOpen' = IF tsOpen.index = Place(f) THEN Closed ELSE tsOpen
  /\ UNCHANGED tsSend

\* After a deletion the listing is made anew; an installation, through
\* another store, leaves it as it is.
TsJobOver ==
  /\ TlEnd("worker")
  /\ tsListed' = (tsListed /\ ~At("worker", "deleted"))
  /\ UNCHANGED <<tsList, tsOpen, tsSend>>

TsInstall ==
  /\ WorkerFree
  /\ \E t \in Spare : TlBeginInstall(t)
  /\ UNCHANGED tsVars

\* A new session begins: nexusStorageTitlesInvalidate
TsInvalidate ==
  /\ WorkerFree
  /\ tsListed' = FALSE /\ tsList' = <<>> /\ tsOpen' = Closed
  /\ UNCHANGED <<tlVars, tsSend>>

TsWorker ==
  /\ TlDelete("worker") \/ TlInstall
  /\ UNCHANGED tsVars

TsNext ==
  \/ TsBrowse \/ TsBrowseFolder \/ TsGetObject \/ TsGetPartial \/ TsRead \/ TsSent
  \/ TsRemove \/ TsJobOver \/ TsInstall \/ TsInvalidate \/ TsWorker
-----------------------------------------------------------------------------
TsTypeOK ==
  /\ tsListed \in BOOLEAN
  /\ tsList \in Seq(Titles)
  /\ tsOpen \in [index : 0..Len(Catalog), title : Titles \cup {0}]
  /\ tsSend \in [folder : Titles \cup {0}, file : Titles \cup {0}, from : 1..3,
                 sent : Seq(Titles \X {Layout[i] : i \in DOMAIN Layout})]

\* What the host is sent as a title's .nsp is that title's, header and
\* contents each in its place: not a mixture of two titles, though a
\* deletion renumbers the listing, the open title is remembered by its
\* number, and titles go and come while the file is read.
NspIsTitle ==
  \A i \in DOMAIN tsSend.sent : tsSend.sent[i] = <<tsSend.file, Layout[tsSend.from + i - 1]>>
=============================================================================
