---------------------------- MODULE TitleRecords ----------------------------
(***************************************************************************)
(* The installed titles as Horizon keeps them, and who changes them by     *)
(* hand: the deletion of one content meta or of a whole application        *)
(* (title_list.c over ns_ext.c), on the main thread and on the MTP worker, *)
(* an installation on the worker, as far as records and placeholders go    *)
(* (the rest is module Installer's), and the sweeps of maintenance.c.      *)
(*                                                                         *)
(* External: ncm's contents and meta database, ns's application records.   *)
(***************************************************************************)
EXTENDS Integers, Sequences, FiniteSets

CONSTANTS
  Catalog,    \* the content metas there may be, in the order ncm lists them
  Spare,      \* of those, by place: what is not installed at first
  TlFaults,   \* what may fail: "list", "drop", "push", "open", "delete", "meta", "app", "verify"
  AfterOverlap\* bound: do jobs begin even after two have overlapped

Titles  == 1..Len(Catalog)
Kinds   == {"application", "patch", "addon"}
Parts   == {"content", "cnmt"}
Threads == {"main", "worker"}

ASSUME TlAssumption ==
  /\ Catalog \in Seq([id : Nat, kind : Kinds, name : Nat, size : Nat])
  /\ Spare \subseteq Titles
  /\ AfterOverlap \in BOOLEAN

VARIABLES
  tlContent,  \* of each title, the contents registered
  tlMeta,     \* the titles with a meta record
  tlRecord,   \* the titles their application's record lists
  tlPlaces,   \* placeholders
  tlJob,      \* of each thread: the deletion or installation it is in
  tlShared    \* history: two jobs ran at once, or a sweep during a job

tlData == <<tlContent, tlMeta, tlRecord, tlPlaces>>
tlVars == <<tlData, tlJob, tlShared>>

\* base_application_id: a patch's id has bit 11 set, an add-on's bit 12.
Flipped(id, bit) == IF (id \div bit) % 2 = 1 THEN id - bit ELSE id + bit

BaseId(t) ==
  CASE Catalog[t].kind = "patch" -> Flipped(Catalog[t].id, 2048)
    [] Catalog[t].kind = "addon" -> LET id == Flipped(Catalog[t].id, 4096) IN 4096 * (id \div 4096)
    [] OTHER                     -> Catalog[t].id

Family(t)    == {u \in Titles : BaseId(u) = BaseId(t)}
RecordsOf(t) == tlRecord \cap Family(t)

TlOutcomes(call) == IF call \in TlFaults THEN BOOLEAN ELSE {TRUE}
Other(th) == IF th = "main" THEN "worker" ELSE "main"

NoJob == [pc |-> "idle", title |-> 0, kept |-> {}]
Over  == {"deleted", "installed", "failed"}   \* for the caller to pick up

TlInit ==
  /\ tlContent = [t \in Titles |-> IF t \in Spare THEN {} ELSE Parts]
  /\ tlMeta = Titles \ Spare /\ tlRecord = Titles \ Spare
  /\ tlPlaces = {"stray"}
  /\ tlJob = [th \in Threads |-> NoJob] /\ tlShared = FALSE

Begins(th, pc, t) ==
  /\ tlJob[th].pc = "idle"
  /\ AfterOverlap \/ ~tlShared
  /\ tlJob' = [tlJob EXCEPT ![th] = [pc |-> pc, title |-> t, kept |-> {}]]
  /\ tlShared' = (tlShared \/ tlJob[Other(th)].pc # "idle")

At(th, pc)       == tlJob[th].pc = pc
Goes(th, pc)     == tlJob' = [tlJob EXCEPT ![th].pc = pc]
-----------------------------------------------------------------------------
\* nexusTitleListDelete of a title that was listed once and may be gone.
BeginDelete(th, t) ==
  /\ Begins(th, IF Catalog[t].kind = "application" THEN "app" ELSE "list", t)
  /\ UNCHANGED tlData

\* nsDeleteApplicationCompletely takes updates and add-ons with it.
TlDeleteApp(th) ==
  /\ At(th, "app")
  /\ \E ok \in TlOutcomes("app") :
       LET gone == IF ok THEN Family(tlJob[th].title) ELSE {} IN
       /\ tlContent' = [t \in Titles |-> IF t \in gone THEN {} ELSE tlContent[t]]
       /\ tlMeta' = tlMeta \ gone /\ tlRecord' = tlRecord \ gone
       /\ Goes(th, IF ok THEN "deleted" ELSE "failed")
  /\ UNCHANGED <<tlPlaces, tlShared>>

\* nexusNsReadApplicationRecords: a listing that fails is the end of the
\* records, be it at the first of them.
Seen(t) == IF "list" \in TlFaults THEN SUBSET RecordsOf(t) ELSE {RecordsOf(t)}

\* Mutant: the contents go first, the record is trimmed after them.
ListLate(th) ==
  /\ At(th, "list") /\ tlContent' = [tlContent EXCEPT ![tlJob[th].title] = {}]
  /\ tlJob' = [tlJob EXCEPT ![th].pc = "drop",
                            ![th].kept = RecordsOf(tlJob[th].title) \ {tlJob[th].title}]
  /\ UNCHANGED <<tlMeta, tlRecord, tlPlaces, tlShared>>

\* nexusNsRemoveContentMetaFromRecord: when the records do not have the
\* title, nothing is trimmed and the deletion goes on.
TlList(th) ==
  /\ At(th, "list")
  /\ \E seen \in Seen(tlJob[th].title) :
       tlJob' = [tlJob EXCEPT ![th].pc = IF tlJob[th].title \in seen THEN "drop" ELSE "open",
                              ![th].kept = seen \ {tlJob[th].title}]
  /\ UNCHANGED <<tlData, tlShared>>

TlDrop(th) ==
  /\ At(th, "drop")
  /\ \E ok \in TlOutcomes("drop") :
       /\ tlRecord' = IF ok THEN tlRecord \ Family(tlJob[th].title) ELSE tlRecord
       /\ Goes(th, CASE ~ok                        -> "failed"
                     [] ok /\ tlJob[th].kept # {} -> "push"
                     [] OTHER                      -> "open")
  /\ UNCHANGED <<tlContent, tlMeta, tlPlaces, tlShared>>

\* PushApplicationRecord does not overwrite.  A push that fails leaves the
\* application without its record.
TlPush(th) ==
  /\ At(th, "push")
  /\ \E ok \in TlOutcomes("push") :
       LET pushed == ok /\ RecordsOf(tlJob[th].title) = {} IN
       /\ tlRecord' = IF pushed THEN tlRecord \cup tlJob[th].kept ELSE tlRecord
       /\ Goes(th, IF pushed THEN "open" ELSE "failed")
  /\ UNCHANGED <<tlContent, tlMeta, tlPlaces, tlShared>>

TlOpen(th) ==
  /\ At(th, "open")
  /\ \E ok \in TlOutcomes("open") : Goes(th, IF ok THEN "content" ELSE "failed")
  /\ UNCHANGED <<tlData, tlShared>>

\* The contents, then the file of the meta itself, as the meta record names
\* them; what cannot be deleted stays.
TlDeletePart(th) ==
  \E part \in Parts :
    /\ At(th, part)
    /\ \E ok \in TlOutcomes("delete") :
         tlContent' = IF ok /\ tlJob[th].title \in tlMeta
                        THEN [tlContent EXCEPT ![tlJob[th].title] = @ \ {part}] ELSE tlContent
    /\ Goes(th, IF part = "content" THEN "cnmt" ELSE "meta")
    /\ UNCHANGED <<tlMeta, tlRecord, tlPlaces, tlShared>>

TlRemoveMeta(th) ==
  /\ At(th, "meta")
  /\ \E ok \in TlOutcomes("meta") :
       LET there == tlJob[th].title \in tlMeta IN
       /\ tlMeta' = IF ok THEN tlMeta \ {tlJob[th].title} ELSE tlMeta
       /\ Goes(th, IF ok /\ there THEN "deleted" ELSE "failed")
  /\ UNCHANGED <<tlContent, tlRecord, tlPlaces, tlShared>>

TlDelete(th) ==
  \/ TlDeleteApp(th) \/ TlList(th) \/ TlDrop(th) \/ TlPush(th)
  \/ TlOpen(th) \/ TlDeletePart(th) \/ TlRemoveMeta(th)
-----------------------------------------------------------------------------
(* An installation on the worker: a placeholder, its registration with the *)
(* meta record, the application's records read, dropped and pushed anew.   *)

TlBeginInstall(t) ==
  /\ t \notin tlMeta
  /\ Begins("worker", "write", t)
  /\ tlPlaces' = tlPlaces \cup {"live"}
  /\ UNCHANGED <<tlContent, tlMeta, tlRecord>>

TlRegister ==
  /\ At("worker", "write")
  /\ LET t == tlJob["worker"].title IN
     IF "live" \in tlPlaces
       THEN /\ tlContent' = [tlContent EXCEPT ![t] = Parts]
            /\ tlMeta' = tlMeta \cup {t} /\ Goes("worker", "merge")
       ELSE /\ UNCHANGED <<tlContent, tlMeta>> /\ Goes("worker", "failed")
  /\ tlPlaces' = tlPlaces \ {"live"}
  /\ UNCHANGED <<tlRecord, tlShared>>

TlMerge ==
  /\ At("worker", "merge")
  /\ \E seen \in Seen(tlJob["worker"].title) :
       tlJob' = [tlJob EXCEPT !["worker"].pc = "replace",
                              !["worker"].kept = seen \cup {tlJob["worker"].title}]
  /\ UNCHANGED <<tlData, tlShared>>

TlReplace ==
  /\ At("worker", "replace")
  /\ tlRecord' = tlRecord \ Family(tlJob["worker"].title)
  /\ Goes("worker", "add")
  /\ UNCHANGED <<tlContent, tlMeta, tlPlaces, tlShared>>

\* When another's record is in the way, the installation rolls back.
TlAdd ==
  /\ At("worker", "add")
  /\ LET t == tlJob["worker"].title IN
     IF RecordsOf(t) = {}
       THEN /\ tlRecord' = tlRecord \cup tlJob["worker"].kept
            /\ UNCHANGED <<tlContent, tlMeta>> /\ Goes("worker", "installed")
       ELSE /\ tlContent' = [tlContent EXCEPT ![t] = {}]
            /\ tlMeta' = tlMeta \ {t}
            /\ UNCHANGED tlRecord /\ Goes("worker", "failed")
  /\ UNCHANGED <<tlPlaces, tlShared>>

TlInstall == TlRegister \/ TlMerge \/ TlReplace \/ TlAdd
-----------------------------------------------------------------------------
(* maintenance.c                                                           *)

Busy == \E th \in Threads : ~At(th, "idle")

\* Every placeholder goes, a live installation's too.
TlCleanPlaceholders ==
  /\ tlPlaces' = {}
  /\ UNCHANGED <<tlContent, tlMeta, tlRecord, tlJob, tlShared>>

\* nsDeleteRedundantApplicationEntity: what no record stands behind.
TlCleanOrphans ==
  LET kept == {t \in Titles : RecordsOf(t) # {}} IN
  /\ tlContent' = [t \in Titles |-> IF t \in kept THEN tlContent[t] ELSE {}]
  /\ tlMeta' = tlMeta \cap kept
  /\ tlShared' = (tlShared \/ Busy)
  /\ UNCHANGED <<tlRecord, tlPlaces, tlJob>>

\* The caller goes on when its job is over.
TlEnd(th) ==
  /\ tlJob[th].pc \in Over
  /\ tlJob' = [tlJob EXCEPT ![th] = NoJob]
  /\ UNCHANGED <<tlData, tlShared>>

TlStep == \E th \in Threads : TlDelete(th) \/ (th = "worker" /\ TlInstall)

\* Any title at any time; modules TitlesStore and Console say which.
TlNext ==
  \/ \E th \in Threads, t \in Titles : BeginDelete(th, t)
  \/ \E t \in Titles : TlBeginInstall(t)
  \/ TlStep
  \/ \E th \in Threads : TlEnd(th)
  \/ TlCleanPlaceholders \/ TlCleanOrphans

TlSpec == TlInit /\ [][TlNext]_tlVars
-----------------------------------------------------------------------------
JobPcs == {"idle", "app", "list", "drop", "push", "open", "content", "cnmt", "meta",
           "write", "merge", "replace", "add"} \cup Over

TlTypeOK ==
  /\ tlContent \in [Titles -> SUBSET Parts]
  /\ tlMeta \subseteq Titles /\ tlRecord \subseteq Titles
  /\ tlPlaces \subseteq {"stray", "live"}
  /\ tlJob \in [Threads -> [pc : JobPcs, title : Titles \cup {0}, kept : SUBSET Titles]]
  /\ tlShared \in BOOLEAN

\* "Horizon is never left with a record pointing at content that has already
\* been deleted": whatever call of an uninstallation fails, and through any
\* sequence of deletions, installations and sweeps that do not overlap, what
\* a record lists has its meta and all of its contents.  (When two jobs
\* overlap, one puts back what the other has deleted.)
NoDanglingRecord ==
  tlShared \/ \A t \in tlRecord : t \in tlMeta /\ tlContent[t] = Parts
=============================================================================
