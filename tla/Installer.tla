------------------------------ MODULE Installer ------------------------------
(***************************************************************************)
(* The streaming installer: one drop-target store (storage_install.c), the *)
(* orchestrator it drives (installer.c), the Horizon backend               *)
(* (install_horizon.c) and the console state those write through ncm, es   *)
(* and ns.                                                                 *)
(*                                                                         *)
(* A file is streamed in chunks of any size.  Inside nexusInstallFeed one  *)
(* action is one turn of its while loop; inside nexusInstallFinish one     *)
(* action is one call of a system service, because a power loss may fall   *)
(* between any two of them.  Stream positions, sizes and chunk lengths are *)
(* in units: one unit stands for any block of bytes none of the code's     *)
(* boundaries falls in.                                                    *)
(***************************************************************************)
EXTENDS Integers, Sequences, FiniteSets, SequencesExt

CONSTANTS
  Files,           \* names of the containers a host may send
  Container,       \* Container[f]: what the PFS0 named f holds
  Apps,            \* application ids
  MetaTypes,       \* which content meta: the application, its patch, one add-on content
  Versions,        \* content meta versions
  ContentIds,      \* content ids, as found in NCA file names
  NoFile, NoId,    \* the absence of a file, of a content id
  Faults,          \* the system calls that may fail
  AllowReinstall,  \* may content that an installed title has be sent again?
  MaxChunk,        \* bound: largest chunk the transport delivers
  MaxInstalls,     \* bound: transfers begun
  MaxCrashes,      \* bound: power losses
  MagicSize,       \* PARTITION_FS_HEADER_SIZE
  MaxHeader,       \* NEXUS_INSTALL_MAX_HEADER
  MaxContents,     \* NEXUS_INSTALL_MAX_CONTENTS
  MaxTicket,       \* NEXUS_INSTALL_MAX_TICKET
  MaxCert,         \* NEXUS_INSTALL_MAX_CERT
  MaxRecords       \* NEXUS_NS_MAX_APP_RECORDS

\* NexusEntryKind, and the macros of installer.h over it.
MetaKinds       == {"MetaNca", "MetaNcz"}
CompressedKinds == {"Ncz", "MetaNcz"}
ContentKinds    == {"Nca", "MetaNca", "Ncz", "MetaNcz"}
EntryKinds      == ContentKinds \cup {"Ticket", "Cert", "Ignore"}

\* A content meta: base_application_id() maps it to the application it is
\* filed under, which is its "app" here.
Titles == [app : Apps, type : MetaTypes, version : Versions]
SameMeta(s, t) == s.app = t.app /\ s.type = t.type

\* One file of the container; "off" and "end" are what the u64 additions that
\* compute abs_offset and entry_end give.  For a compressed one, "prelude" is
\* how much of it the decoder reads before it knows the NCA's size, "declared"
\* that size and "out" how much decoding the whole entry yields.
Entry == [kind : EntryKinds, id : ContentIds \cup {NoId}, off : Nat, size : Nat, end : Nat,
          prelude : Nat, declared : Nat, out : Nat]

\* build_entries() drops what it cannot install and orders the rest by offset.
Entries(f) ==
  SortSeq(SelectSeq(Container[f].table, LAMBDA e : e.kind # "Ignore"),
          LAMBDA d, e : d.off < e.off)

ContentsOf(f) == {e.id : e \in {x \in Range(Entries(f)) : x.kind \in ContentKinds}}

\* The Meta NCA, and should there be several the last of the table.
MetaEntry(f) == Last(SelectSeq(Container[f].table, LAMBDA x : x.kind \in MetaKinds))

ASSUME ContainerAssumption ==
  /\ Container \in [Files -> [title : Titles, len : Nat, hdr : Nat, table : Seq(Entry),
                              bad : {"no", "magic", "names"},
                              ticketOk : BOOLEAN, cnmtOk : BOOLEAN,
                              cnmt : SUBSET [id : ContentIds, delta : BOOLEAN]]]
  /\ NoFile \notin Files /\ NoId \notin ContentIds
  /\ MagicSize \in Nat \ {0}
  /\ {MaxChunk, MaxInstalls, MaxCrashes, MaxHeader, MaxContents, MaxTicket, MaxCert,
      MaxRecords} \subseteq Nat
  /\ AllowReinstall \in BOOLEAN

\* What nexusInstallClassify makes of a name, and that filtering and sorting the
\* table leaves the entries to install: true of any table.
ASSUME TableAssumption ==
  \A f \in Files : LET T == Entries(f) IN
    /\ T \in Seq(Entry)
    /\ MagicSize <= Container[f].hdr
    /\ \A i \in DOMAIN T : /\ T[i].kind # "Ignore"
                           /\ T[i].kind \in ContentKinds => T[i].id \in ContentIds
                           /\ T[i].kind \in CompressedKinds => T[i].declared > 0
    /\ (\E i \in DOMAIN T : T[i].kind \in MetaKinds)
         => \E i \in DOMAIN T : T[i] = MetaEntry(f) /\ T[i].kind \in MetaKinds

\* Up to the k-th, the entries lie one after the other behind the header, with
\* gaps at most.  Neither partition_fs.c nor build_entries() checks that they
\* do: a table may have entries that overlap, or wrap around in u64.
InSequence(f, k) ==
  \A i \in 1 .. k : LET x == Entries(f)[i] IN
    /\ Container[f].hdr <= x.off /\ x.end = x.off + x.size
    /\ \A j \in 1 .. i - 1 : Entries(f)[j].end <= x.off

\* A container as packers make them: its entries lie in sequence, no content is
\* there twice, and one of them is the Meta NCA.
LaidOut(f) == LET T == Entries(f) IN
  /\ InSequence(f, Len(T))
  /\ \A i, j \in DOMAIN T :
       i < j => /\ T[i].id = T[j].id => T[i].id = NoId
                /\ ~(T[i].kind \in MetaKinds /\ T[j].kind \in MetaKinds)

-----------------------------------------------------------------------------
VARIABLES
  \* lost with the process
  active,    \* InstallStorage.active
  pc,        \* which call is running: "idle", "feed", or a step of Finish
  file,      \* the file being sent
  rest,      \* what nexusInstallFeed has still to consume of the chunk
  ins,       \* NexusInstaller
  be,        \* NexusHorizonBackend
  \* kept by the console
  content,   \* ncm content storage: content id -> registered content
  stale,     \* placeholders no backend holds
  metas,     \* the content meta database, as every client sees it
  durable,   \* the content meta database as of its last Commit
  records,   \* ns: application -> the content metas it lists on HOME
  tickets,   \* es: the titles whose ticket is imported
  \* history and bounds
  owned,     \* the titles whose installation was reported to have succeeded
  installs, crashes

volatile == <<active, pc, file, rest, ins, be>>
console  == <<content, stale, metas, durable, records, tickets>>
vars     == <<volatile, console, owned, installs, crashes>>

NoPlaceHolder == [id |-> NoId, data |-> <<>>]

BlankIns == [stage |-> "Idle", pos |-> 0, cursor |-> 0, open |-> FALSE, tik |-> 0,
             cert |-> 0, metaSize |-> 0, decoder |-> FALSE, ncz |-> FALSE, fed |-> 0,
             out |-> 0, ticket |-> FALSE]
BlankBe  == [open |-> FALSE, ph |-> NoPlaceHolder, registered |-> {},
             committed |-> FALSE, saved |-> {}]

title == Container[file].title
E     == Entries(file)
e     == E[ins.cursor]

Init ==
  /\ active = FALSE /\ pc = "idle" /\ file = NoFile /\ rest = 0
  /\ ins = BlankIns /\ be = BlankBe
  /\ content = [i \in {} |-> 0] /\ stale = 0 /\ metas = {} /\ durable = {}
  /\ records = [a \in Apps |-> {}] /\ tickets = {}
  /\ owned = {} /\ installs = 0 /\ crashes = 0

\* Whether a call of the system succeeds.
Outcomes(call) == IF call \in Faults THEN BOOLEAN ELSE {TRUE}
-----------------------------------------------------------------------------
(* Failure.  fail() discards the open placeholder and has hz_rollback undo   *)
(* what this install did; the store then frees installer and backend.        *)

\* Mutant: contents that are never deleted.
NothingDeleted(cs, ids) == cs

Without(cs, ids) == [i \in DOMAIN cs \ ids |-> cs[i]]

\* hz_rollback's record branch is left out: push_record is the last thing an
\* install does, so nothing that rolls back has pushed a record.
RollbackInto(cs) ==
  /\ content' = Without(cs, be.registered)
  /\ tickets' = IF ins.ticket THEN tickets \ {title} ELSE tickets
  /\ IF be.committed
       THEN /\ metas' = {m \in metas : m.title # title}
            /\ durable' = metas'
       ELSE UNCHANGED <<metas, durable>>

\* Mutant: installer and backend survive their transfer.
TeardownForgotten ==
  /\ active' = FALSE /\ pc' = "idle" /\ file' = NoFile /\ rest' = 0
  /\ UNCHANGED <<ins, be>>

Teardown ==
  /\ active' = FALSE /\ pc' = "idle" /\ file' = NoFile /\ rest' = 0
  /\ ins' = BlankIns /\ be' = BlankBe

FailWith(cs) ==
  /\ RollbackInto(cs)
  /\ Teardown
  /\ UNCHANGED <<stale, owned, installs, crashes>>

Fail == FailWith(content) /\ UNCHANGED records
-----------------------------------------------------------------------------
(* The store's entry points.                                                 *)

\* f brings no content that an installed title has.
Fresh(f) == \A g \in Files : Container[g].title \in owned =>
              Container[g].title # Container[f].title /\ ContentsOf(f) \cap ContentsOf(g) = {}

\* inst_write_begin: an abandoned transfer is aborted first.
WriteBegin(f) ==
  /\ pc = "idle" /\ installs < MaxInstalls
  /\ AllowReinstall \/ Fresh(f)
  /\ RollbackInto(content)
  /\ \E decoder \in Outcomes("decoder") :
       ins' = [BlankIns EXCEPT !.stage = "Magic", !.decoder = decoder]
  /\ be' = BlankBe /\ active' = TRUE /\ file' = f /\ installs' = installs + 1
  /\ UNCHANGED <<pc, rest, stale, records, owned, crashes>>

\* inst_write_chunk: hands a chunk to nexusInstallFeed.
WriteChunk(n) ==
  /\ pc = "idle" /\ active /\ ins.pos + n <= Container[file].len
  /\ pc' = "feed" /\ rest' = n
  /\ UNCHANGED <<active, file, ins, be, console, owned, installs, crashes>>

\* inst_write_end(FALSE): the host cancelled or the cable was pulled.
Cancel ==
  /\ pc = "idle" /\ active
  /\ Fail

\* inst_write_end(TRUE) enters nexusInstallFinish.
Finish ==
  /\ pc = "idle" /\ active
  /\ IF ins.stage = "Complete"
       THEN /\ pc' = "ticket"
            /\ UNCHANGED <<active, file, rest, ins, be, console, owned, installs, crashes>>
       ELSE Fail
-----------------------------------------------------------------------------
(* nexusInstallFeed: one turn of its loop.                                   *)

\* Consumes n units and moves the installer to state i.
Consume(n, i) ==
  /\ ins' = [i EXCEPT !.pos = ins.pos + n]
  /\ rest' = rest - n
  /\ pc' = IF rest = n THEN "idle" ELSE "feed"
  /\ UNCHANGED <<active, file, stale, metas, durable, records, tickets, owned, installs,
                 crashes>>

MinOf(a, b) == IF a <= b THEN a ELSE b

\* absorb_header() up to `want`, then the next stage.
Absorb(stage, want, rejected, i) ==
  /\ pc = "feed" /\ ins.stage = stage
  /\ LET used == MinOf(rest, want - ins.pos) IN
       IF ins.pos + used < want
         THEN Consume(used, ins) /\ UNCHANGED <<be, content>>
         ELSE IF rejected THEN Fail
                          ELSE Consume(used, i) /\ UNCHANGED <<be, content>>

FeedMagic ==
  LET c == Container[file] IN
  Absorb("Magic", MagicSize, c.bad = "magic" \/ c.hdr > MaxHeader,
         [ins EXCEPT !.stage = "Header"])

\* build_entries() fails on too many contents and on a missing Meta NCA.
FeedHeader ==
  Absorb("Header", Container[file].hdr,
         \/ Container[file].bad = "names"
         \/ Len(E) > MaxContents
         \/ \A x \in Range(E) : x.kind \notin MetaKinds,
         [ins EXCEPT !.stage = "Streaming", !.cursor = 1, !.metaSize = MetaEntry(file).size])

\* Padding before the next entry.
FeedGap ==
  /\ pc = "feed" /\ ins.stage = "Streaming" /\ ins.pos < e.off
  /\ Consume(MinOf(rest, e.off - ins.pos), ins)
  /\ UNCHANGED <<be, content>>

\* Anything after the last entry is padding.
FeedTrailing ==
  /\ pc = "feed" /\ ins.stage = "Complete"
  /\ Consume(rest, ins)
  /\ UNCHANGED <<be, content>>

\* Mutant: the chunk is not cut at the end of the entry.
TakeUncut == rest

\* How much of the chunk goes into the entry.  Behind the end of the entry, as
\* where the one before overlaps it, the u64 entry_end - stream_pos wraps to
\* more than any chunk holds.
Take     == IF e.end < ins.pos THEN rest ELSE MinOf(rest, e.end - ins.pos)
\* Mutant: > for >= in the test for the end of an entry.
FinishedPast == ins.pos + Take > e.end

Finished == ins.pos + Take >= e.end

\* Mutant: content_open is not reset behind the entry.
AdvancedStillOpen(i) ==
  IF ~Finished THEN i
  ELSE [i EXCEPT !.cursor = @ + 1, !.ncz = FALSE, !.fed = 0,
                 !.stage = IF ins.cursor = Len(E) THEN "Complete" ELSE "Streaming"]

\* The installer after this turn, the cursor moved on if the entry is finished.
Advanced(i) ==
  IF ~Finished THEN i
  ELSE [i EXCEPT !.cursor = @ + 1, !.open = FALSE, !.ncz = FALSE, !.fed = 0,
                 !.stage = IF ins.cursor = Len(E) THEN "Complete" ELSE "Streaming"]

\* hz_content_write: n units appended at write_offset, holding what units
\* `from`, `from` + 1, ... of the source hold.
WritePlaceHolder(ph, n, from) ==
  [ph EXCEPT !.data = [o \in 1 .. (Len(ph.data) + n) |->
                         IF o <= Len(ph.data) THEN ph.data[o]
                                              ELSE from + (o - Len(ph.data)) - 1]]

\* hz_content_begin, unless the placeholder is open already.
Placeholder == IF ins.open THEN be.ph ELSE [NoPlaceHolder EXCEPT !.id = e.id]

\* hz_content_commit: Register does not overwrite, so an existing copy of the
\* content goes first, and stays gone if Register fails.
Register(ph) ==
  /\ content' = [i \in DOMAIN content \cup {ph.id} |->
                   IF i = ph.id THEN [from |-> file, data |-> ph.data] ELSE content[i]]
  /\ be' = [be EXCEPT !.open = FALSE, !.ph = NoPlaceHolder,
                      !.registered = @ \cup {ph.id}]

Hold(ph) == be' = [be EXCEPT !.open = TRUE, !.ph = ph] /\ UNCHANGED content

InEntry(kinds) ==
  pc = "feed" /\ ins.stage = "Streaming" /\ ins.pos >= e.off /\ e.kind \in kinds

\* A plain NCA: straight into its placeholder.
FeedNca ==
  /\ InEntry({"Nca", "MetaNca"})
  /\ LET ph == WritePlaceHolder(Placeholder, Take, ins.pos) IN
     \E created \in IF ins.open THEN {TRUE} ELSE Outcomes("create"),
        written \in IF Take = 0 THEN {TRUE} ELSE Outcomes("write"),
        registered \in IF Finished THEN Outcomes("register") ELSE {TRUE} :
       IF ~(created /\ written) THEN Fail
       ELSE IF ~registered THEN FailWith(Without(content, {e.id})) /\ UNCHANGED records
       ELSE /\ Consume(Take, Advanced([ins EXCEPT !.open = TRUE]))
            /\ IF Finished THEN Register(ph) ELSE Hold(ph)

\* What the decoder knows of the NCA's size once it has been fed this turn.
Consumed  == ins.fed + Take
NczSize   == IF Consumed >= e.prelude THEN e.declared ELSE 0

\* Was the entry entered past its first unit?  Its decoder then misses the
\* section table, and rejects what it is fed unless that happens to be a part
\* of another NCZ.
Skewed == ins.pos - ins.fed # e.off

\* A compressed NCA goes through the decoder, which hands ncz_sink what it can
\* rebuild so far; ncz_sink opens the placeholder at the first output.
FeedNcz ==
  /\ InEntry(CompressedKinds)
  /\ LET out0 == IF ins.ncz THEN ins.out ELSE 0
         Emissions == IF Consumed < e.prelude THEN {0}
                      ELSE IF Finished THEN {e.out - out0} ELSE 0 .. (e.out - out0) IN
     \E n \in Emissions,
        decodes \in IF Skewed THEN BOOLEAN ELSE Outcomes("ncz"),
        created \in IF ins.open THEN {TRUE} ELSE Outcomes("create"),
        written \in Outcomes("write"),
        registered \in Outcomes("register") :
       LET out    == out0 + n
           opened == ins.open \/ n > 0
           ph     == WritePlaceHolder(Placeholder, n, out0)
           rejected ==
             \/ ~ins.decoder \/ ~decodes
             \/ n > 0 /\ ~(created /\ written)
             \/ out > NczSize
             \/ Finished /\ out # NczSize
           next   == [ins EXCEPT !.ncz = TRUE, !.fed = Consumed, !.out = out, !.open = opened,
                        !.metaSize = IF Finished /\ e.kind \in MetaKinds /\ NczSize > 0
                                       THEN NczSize ELSE @]
       IN IF rejected THEN Fail
          ELSE IF Finished /\ opened /\ ~registered
                 THEN FailWith(Without(content, {e.id})) /\ UNCHANGED records
          ELSE /\ Consume(Take, Advanced(next))
               /\ IF ~opened THEN UNCHANGED <<be, content>>
                  ELSE IF Finished THEN Register(ph) ELSE Hold(ph)

\* A ticket or certificate is buffered whole.
FeedBlob ==
  /\ InEntry({"Ticket", "Cert"})
  /\ LET i == IF e.kind = "Ticket" THEN [ins EXCEPT !.tik = @ + Take]
                                   ELSE [ins EXCEPT !.cert = @ + Take] IN
     IF i.tik > MaxTicket \/ i.cert > MaxCert THEN Fail
     ELSE Consume(Take, Advanced(i)) /\ UNCHANGED <<be, content>>

FeedStep == FeedMagic \/ FeedHeader \/ FeedGap \/ FeedNca \/ FeedNcz \/ FeedBlob
              \/ FeedTrailing
-----------------------------------------------------------------------------
(* nexusInstallFinish, one system call a step.                               *)

At(step) == pc = step
GoTo(step, i, b) ==
  /\ pc' = step /\ ins' = i /\ be' = b
  /\ UNCHANGED <<active, file, rest, content, stale, owned, installs, crashes>>

\* A ticket without its certificate chain is fatal; no ticket is fine.  Only of
\* one that ticketInit parses does the installer know the rights id.
TicketRead == ins.tik > 0 /\ Container[file].ticketOk

ImportTicket ==
  /\ At("ticket")
  /\ \E imported \in Outcomes("import") :
       IF ins.tik > 0 /\ (ins.cert = 0 \/ ~imported) THEN Fail
       ELSE /\ GoTo("cnmt", [ins EXCEPT !.ticket = TicketRead], be)
            /\ tickets' = IF ins.tik > 0 THEN tickets \cup {title} ELSE tickets
            /\ UNCHANGED <<metas, durable, records>>

\* The contents the meta record will list: the Meta NCA, and what the CNMT
\* names, delta fragments excepted.
ListedBy(f)  == {x.id : x \in {y \in Container[f].cnmt : ~y.delta}}
Listed(f)    == {MetaEntry(f).id} \cup ListedBy(f)

\* read_cnmt and build_meta.
ReadCnmt ==
  /\ At("cnmt")
  /\ \E mounted \in Outcomes("cnmt") :
       IF \/ ~mounted \/ ~Container[file].cnmtOk
          \/ Cardinality(Container[file].cnmt) + 1 > MaxContents
          \/ ~(ListedBy(file) \subseteq ContentsOf(file))
       THEN Fail
       ELSE GoTo("set", ins, be) /\ UNCHANGED <<metas, durable, records, tickets>>

\* hz_register_meta: Set, then Commit; meta_committed only after both.
SetMeta ==
  /\ At("set")
  /\ \E ok \in Outcomes("set") :
       IF ~ok THEN Fail
       ELSE /\ GoTo("commit", ins, be)
            /\ metas' = {m \in metas : m.title # title}
                          \cup {[title |-> title, ids |-> Listed(file),
                                 meta |-> MetaEntry(file).id, size |-> ins.metaSize]}
            /\ UNCHANGED <<durable, records, tickets>>

\* Mutant: no ncmContentMetaDatabaseCommit after Set.
CommitMissing ==
  /\ At("commit")
  /\ GoTo("read", ins, [be EXCEPT !.committed = TRUE])
  /\ UNCHANGED <<metas, durable, records, tickets>>

CommitMeta ==
  /\ At("commit")
  /\ \E ok \in Outcomes("commit") :
       IF ~ok THEN Fail
       ELSE /\ GoTo("read", ins, [be EXCEPT !.committed = TRUE])
            /\ durable' = metas
            /\ UNCHANGED <<metas, records, tickets>>

\* hz_push_record.  A failed listing reads as "no records yet".
\* Mutant: the record is replaced, not merged.
OthersDropped == {}

Others == {t \in be.saved : ~SameMeta(t, title)}

ReadRecords ==
  /\ At("read")
  /\ \E listed \in Outcomes("list") :
       GoTo("merge", ins, [be EXCEPT !.saved = IF listed THEN records[title.app] ELSE {}])
  /\ UNCHANGED <<metas, durable, records, tickets>>

\* Push does not overwrite, so the list is deleted first.
DeleteRecord ==
  /\ At("merge")
  /\ IF Cardinality(Others) > MaxRecords - 1 THEN Fail
     ELSE /\ GoTo("push", ins, be)
          /\ records' = [records EXCEPT ![title.app] = {}]
          /\ UNCHANGED <<metas, durable, tickets>>

\* Mutant: a failed push leaves the record deleted.
RestoreMissing(restored) == records[title.app]

\* What a failed push leaves: hz_push_record puts the saved list back.
Restore(restored) == IF restored THEN be.saved ELSE records[title.app]

PushRecord ==
  /\ At("push")
  /\ \E ok \in Outcomes("push"), restored \in Outcomes("restore") :
       IF ok
       THEN /\ records' = [records EXCEPT ![title.app] = Others \cup {title}]
            /\ owned' = {t \in owned : ~SameMeta(t, title)} \cup {title}
            /\ Teardown
            /\ UNCHANGED <<content, stale, metas, durable, tickets, installs, crashes>>
       ELSE /\ records' = [records EXCEPT ![title.app] = Restore(restored)]
            /\ FailWith(content)

FinishStep == ImportTicket \/ ReadCnmt \/ SetMeta \/ CommitMeta \/ ReadRecords
                \/ DeleteRecord \/ PushRecord
-----------------------------------------------------------------------------
(* The environment.                                                          *)

\* Power loss, or the process killed: what is in memory is gone, with every
\* uncommitted change of the meta database; a placeholder stays behind.
Crash ==
  /\ crashes < MaxCrashes
  /\ crashes' = crashes + 1
  /\ stale' = stale + (IF be.open THEN 1 ELSE 0)
  /\ metas' = durable
  /\ Teardown
  /\ UNCHANGED <<content, durable, records, tickets, owned, installs>>

\* nexusMaintenanceCleanPlaceholders, while no install runs.
CleanPlaceholders ==
  /\ ~active /\ stale > 0
  /\ stale' = 0
  /\ UNCHANGED <<volatile, content, metas, durable, records, tickets, owned, installs,
                 crashes>>

Next ==
  \/ \E f \in Files : WriteBegin(f)
  \/ \E n \in 1 .. MaxChunk : WriteChunk(n)
  \/ Cancel \/ Finish
  \/ FeedStep \/ FinishStep
  \/ Crash \/ CleanPlaceholders

\* A call that has been made runs to its end; no host need ever send anything.
Fairness == WF_vars(FeedStep) /\ WF_vars(FinishStep)

Spec == Init /\ [][Next]_vars /\ Fairness
-----------------------------------------------------------------------------
(* Properties.                                                               *)

Stages == {"Idle", "Magic", "Header", "Streaming", "Complete"}
Steps  == {"ticket", "cnmt", "set", "commit", "read", "merge", "push"}

Instances == [stage : Stages, pos : Nat, cursor : Nat, open : BOOLEAN, tik : Nat,
              cert : Nat, metaSize : Nat, decoder : BOOLEAN, ncz : BOOLEAN, fed : Nat,
              out : Nat, ticket : BOOLEAN]
PlaceHolders == [id : ContentIds \cup {NoId}, data : Seq(Nat)]
Backends     == [open : BOOLEAN, ph : PlaceHolders, registered : SUBSET ContentIds,
                 committed : BOOLEAN, saved : SUBSET Titles]
MetaRecords  == [title : Titles, ids : SUBSET ContentIds, meta : ContentIds, size : Nat]
Registered   == [from : Files, data : Seq(Nat)]

\* The types of the state, and which of it is blank while no transfer runs.
TypeOK ==
  /\ active \in BOOLEAN /\ pc \in {"idle", "feed"} \cup Steps
  /\ file \in Files \cup {NoFile} /\ rest \in Nat
  /\ ins \in Instances /\ be \in Backends
  /\ DOMAIN content \in SUBSET ContentIds
  /\ \A i \in DOMAIN content : content[i] \in Registered
  /\ stale \in Nat /\ metas \in SUBSET MetaRecords /\ durable \in SUBSET MetaRecords
  /\ records \in [Apps -> SUBSET Titles] /\ tickets \in SUBSET Titles
  /\ owned \in SUBSET Titles /\ installs \in Nat /\ crashes \in Nat
  /\ IF active THEN file \in Files ELSE pc = "idle" /\ ins = BlankIns /\ be = BlankBe

\* What a content registered from entry x must hold: every unit of the NCA,
\* once and in order.
Image(x) == IF x.kind \in CompressedKinds
            THEN [o \in 1 .. x.declared |-> o - 1]
            ELSE [o \in 1 .. x.size |-> x.off + o - 1]

\* The cursor never leaves the table, and until it meets an entry that overlaps
\* one before, cursor and stream position never part: the position is past
\* every entry before the one that streams and not past its end, so that the
\* u64 subtraction entry_end - stream_pos does not wrap, and the placeholder
\* has received exactly the units of its entry that went by.
StreamAligned ==
  ins.stage = "Streaming" =>
    /\ ins.cursor \in DOMAIN E
    /\ InSequence(file, ins.cursor) =>
         /\ ins.pos <= e.end
         /\ \A i \in 1 .. ins.cursor - 1 : E[i].end <= ins.pos
         /\ be.open /\ e.kind \notin CompressedKinds => Len(be.ph.data) = ins.pos - e.off

\* However the transport cuts the stream, whatever order the container's table
\* is in, and wherever transfers fail or are abandoned, what is registered
\* under a content id is exactly the entry of that name: route_bytes, the gap
\* skipping and ncz_sink never drop, repeat or misplace a byte, and a short
\* content is never registered.  An entry that overlaps one before it, and
\* those behind, are what this cannot be said of.
ContentIntact ==
  \A i \in DOMAIN content : LET f == content[i].from IN
    \E k \in DOMAIN Entries(f) :
      /\ Entries(f)[k].id = i /\ Entries(f)[k].kind \in ContentKinds
      /\ InSequence(f, k) => content[i].data = Image(Entries(f)[k])

\* A content meta is complete: all it lists is registered, and the size it
\* gives the Meta NCA is the size of the NCA on the console, not that of a
\* compressed entry.
Backed(m) ==
  /\ m.ids \cup {m.meta} \subseteq DOMAIN content
  /\ Len(content[m.meta].data) = m.size

\* HOME never lists half a title: at any moment, a power loss included, what
\* ns lists is in the committed meta database with all of its content.  This
\* is what the order of nexusInstallFinish and of hz_rollback is for.
RecordsBacked ==
  \A a \in Apps : \A t \in records[a] : \E m \in durable : m.title = t /\ Backed(m)

\* What was reported as installed stays on HOME, whatever later installs do or
\* fail to do, except in the window in which hz_push_record has deleted the
\* list and not yet pushed the merged one.
NothingLost ==
  crashes = 0 /\ pc # "push" => \A t \in owned : t \in records[t.app]

\* Titles with a ticket that imports but does not parse.
Unparsable == {Container[f].title : f \in {g \in Files : ~Container[g].ticketOk}}

\* With no transfer running and no power loss there is no debris: no
\* placeholder, and no content and no ticket of a title that no committed meta
\* accounts for.  This is what fail() and hz_rollback promise; a ticket whose
\* rights id the installer could not read it cannot take back.
NoDebris ==
  ~active /\ crashes = 0 =>
    /\ stale = 0
    /\ {Container[content[i].from].title : i \in DOMAIN content} \cup (tickets \ Unparsable)
         \subseteq {m.title : m \in durable}

\* Every call the store makes into the installer returns: the loop of
\* nexusInstallFeed consumes its chunk, whatever the entry table.
CallReturns == pc # "idle" ~> pc = "idle"

\* The library HOME shows, seen without the window of hz_push_record.
library == [a \in Apps |-> IF pc = "push" /\ title.app = a THEN be.saved ELSE records[a]]
Lib == INSTANCE Library WITH losses <- crashes

\* An install changes the library in one step, by its own content meta only,
\* or not at all: the abstract specification of module Library.
LibrarySpec == Lib!Spec
=============================================================================
