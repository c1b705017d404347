# A verification development for NX-Nexus

NX-Nexus is a homebrew program for the Nintendo Switch: an MTP responder that
shows the console's storages to a PC, with drop targets that install what is
copied to them, and menus that install from SD card, game card and network,
manage titles, saves, mods and firmware.  These modules model its logic in
TLA+; TLC checks them on small instances and TLAPS proves what is most
important for all of them.

## The system

| Component | State | Operations | Talks to |
|---|---|---|---|
| Worker and menus (`main.c`) | run flag, server up | start and stop of the server, every menu action | everything, on the main thread |
| USB transport (`usb_transport.c`) | endpoints, initialised | read, write, cancel with a timeout | `usb:ds` |
| MTP server (`mtp_server.c`) | session, pending upload, payload buffer | one transaction at a time, data phases, response | transport, operations |
| MTP operations (`mtp_ops.c`) | - | one handler per command | handle table, stores |
| Object handle table (`object_db.c`) | entries, handle = position | intern, find, invalidate, rename, clear | under a mutex |
| Storage registry (`storage_registry.c`) | stores and their presence | refresh, session open | stores, table |
| Stores (`storage_*.c`) | an open upload, cached mounts and listings | enumerate, stat, read, write transaction, mkdir, remove, move, copy | file systems, installer |
| Streaming installer (`installer.c`) | stage, position, cursor, open content, ticket | begin, feed, finish, abort | backend, decoder |
| Horizon backend (`install_horizon.c`) | placeholder, what was registered, saved records | content, meta, record, ticket, rollback | `ncm`, `ns`, `es` |
| NCZ decoder (`ncz_decode.c`) | prelude, section, emitted bytes | feed, end | sink of the installer |
| Installers from SD, XCI, network (`local_install.c`, `xci_install.c`, `netinstall.c`) | progress, resume offset | run | installer, `http.c` |
| Installed titles (`storage_titles.c`, `nsp_builder.c`) | cached listing, one open title by its place in it | browse, read a made-up .nsp, delete | `ncm`, `title_list.c` |
| Title list and deletion (`title_list.c`, `ns_ext.c`), sweeps (`maintenance.c`) | - | list, delete, clean placeholders and orphans | `ncm`, `ns` |
| Verification (`verify.c`) | report | one title, all of them | `ncm` |
| Mods (`mods.c`) | - | scan, rename, delete | SD card |
| Firmware (`firmware.c`) | the scanned set | scan, two passes, rollback | Horizon backend |
| Self update (`update.c`) | the offer of the last check | check, download, replace | `http.c`, SD card |
| Formats (`format/*.c`) | - | parsers and the NSP builder | pure |

What is hard in it:

* **Streaming.** A container arrives in chunks of any size, with its files in
  any table order; cursor, position and open content must agree at every cut.
* **Failure.** An installation or a deletion is a sequence of calls to three
  services without transactions.  Any call may fail, the host may cancel, the
  power may go.
* **Retries.** A download survives lost connections; the byte it goes on with
  must be the one the installer expects.
* **Handles and places.** A host caches handles while it and others rename,
  move, delete and abandon objects; the titles store and the menus remember
  titles by their place in lists that change.
* **Two-step uploads.** `SendObjectInfo` opens a file for bytes that may not
  come.
* **Concurrency.** The worker serves MTP while the main thread runs menu
  actions on the same services; stopping the server must wake the worker.
* **Removable media.** Cards are swapped behind cached mounts and listings.

`PROJECT.json` lists every component, the hazards of the code at the lines
where they bite, and for every definition of a module the source lines it
stands for.

## Modules

| Module | Models |
|---|---|
| `Installer` | `storage_install.c`, `installer.c`, `install_horizon.c` and what the services keep |
| `Library` | what an installation promises: HOME's lists change by one content meta or not at all |
| `Installer_proofs` | theorems about `Installer` |
| `MCInstaller` | containers for TLC |
| `ObjectDb` | the handle table, as a value and operators on it |
| `MtpResponder` | dispatch, sessions, transfers, uploads and file operations over the handle table and the SD card store |
| `MCMtp` | a card for TLC |
| `SaveStore` | the store over game saves: one mount, restores through scratch files, commits |
| `SaveVault` | what restoring promises: files change one at a time, each to the whole of what was sent |
| `MCSaveStore` | saves, files and contents as model values, for TLC |
| `SaveStore_proofs` | theorems about `SaveStore` |
| `UsbServer` | starting and stopping the server, the worker's loop, transfers with timeouts and cancellation |
| `UsbServer_proofs` | theorems about `UsbServer` |
| `MtpResponder_proofs` | theorems about `MtpResponder` and `ObjectDb` |
| `GameCard` | the game card store and the registry's refresh, across card swaps |
| `GameCard_proofs` | theorems about `GameCard` |
| `MCGameCard` | cards for TLC |
| `TitleRecords` | contents, meta records, application records and placeholders under deletions, an installation's record steps and the sweeps |
| `TitleRecords_proofs` | theorems about `TitleRecords` |
| `TitlesStore` | the store of installed titles, on top of `TitleRecords` |
| `Verify` | verification, on top of `TitlesStore` |
| `Mods` | mods and their list |
| `Ascending` | the order in which a directory, a partition or a service lists what it has |
| `Feeders` | what feeds the installer on the console: network, SD card, split files, game card |
| `Firmware`, `MCFirmware` | firmware installation, a folder for TLC |
| `SelfUpdate` | the program's own update, with power losses |
| `Jobs_proofs` | theorems about `Feeders`, `Firmware` and `SelfUpdate` |
| `Console`, `MCConsole` | the composition: the main thread's screens over all of the above, beside the MTP worker; titles and mods for TLC |
| `Console_proofs` | the composition implements its parts; theorems about it |

### Installer

State of the process: `active` (a transfer is open), `pc` and `rest` (which call
is running and what `nexusInstallFeed` has left of its chunk), `ins`
(`NexusInstaller`), `be` (`NexusHorizonBackend`).  State of the console:
`content` (registered contents), `stale` (placeholders nobody holds), `metas`
and `durable` (the content meta database and its last commit), `records` (ns),
`tickets` (es).  `owned` is history: the titles whose installation was reported
to have succeeded.

`WriteBegin`, `WriteChunk`, `Cancel` and `Finish` are the store's entry points.
Inside `nexusInstallFeed` an action is one turn of its loop (`FeedMagic`,
`FeedHeader`, `FeedGap`, `FeedNca`, `FeedNcz`, `FeedBlob`, `FeedTrailing`).
Inside `nexusInstallFinish` an action is one call of a service (`ImportTicket`,
`ReadCnmt`, `SetMeta`, `CommitMeta`, `ReadRecords`, `DeleteRecord`,
`PushRecord`), because `Crash`, a power loss, may fall between any two.
`Fail` is `fail()` with the whole of `hz_rollback` and the store's teardown.
A content's data is the sequence of stream units written to it, so that a lost,
repeated or foreign unit shows.  A container is its entry table, its cnmt and
what is wrong with it.

Nothing checks an entry table beyond the names in it, and neither does the model:
entries may overlap, an entry's end (`abs_offset + size`, in u64) may lie before
its start, a content or the Meta NCA may be there twice, and titles may share
contents.  `InSequence` says of a container that its entries up to one lie one
behind the other, `LaidOut` that it is as packers make them; they are predicates
for properties and theorems to use, not assumptions.  A decoder entered past the
start of its entry, which an overlap can do, finds a section table or not
(`Skewed`). `AllowReinstall` says whether content that an installed title has may
be sent again (`Fresh`).  Assumed: the deletions a rollback makes do not fail.

### MtpResponder

`session`, `pending` are `MtpServerState`; `db` is the table; `writer` is the
file `storage_sdmc.c` has open; `sd` is the card, a function from paths to
inodes.  One worker thread runs a handler to its end, and nothing else touches
the table or the open upload, so a handler is one action; the abandonment of a
pending upload that `mtpHandleCommand` does first is part of each of them (`Db`,
`Sd`, `Writer` are the state behind it).  `shown` is history: what each valid
handle was given to the host for.  `answer` is how the last transaction ended:
the responses sent, whether the cable worked, what the data phase declared and
carried.  An invalidated entry keeps nothing (`Ended`): nothing reads it.  The
cached size and parent of an entry are only echoed to the host and left out.
Assumed of libnx: `rename` does not replace its destination, a file that is
open for reading cannot be opened for writing.

### SaveStore

`mount`, with its mode, and `write` (the scratch file that is open) are
`SavesStorage`; `view` is what the mounted file system shows, `durable` what its
journal has committed.  `told` is history: what the host was last told each
file holds.  A data entry is a content and whether it is whole.  A power loss
inside a handler leaves what one before or behind it leaves, since only
`fsFsCommit` changes what lasts; so a handler is one action, from the mount it
needs to the commit.  The dispatcher's abandonment of a pending restore is part
of each (`Ended`).  No result of `fsFsDeleteFile` is looked at, so a deletion
may leave what it was to remove (`Deletions`); `stuck` is history, the entries
that stayed.  Only files that were there can be restored into; a host's new
file adds nothing the properties tell apart.  The listing of the saves is fixed.

### UsbServer

`main` is where the main thread is in `server_stop`, between its calls to
`usbTransportCancel` for each endpoint; `worker` is where `worker_main` is, in
which transfer of which command; `urb`, `event` and `report` are what `usb:ds`
keeps of each endpoint.  Posting, the end of the wait, the timeout, the
cancellation and the drain are steps of their own, as the controller, the host,
the cable and the other thread act between them.  A command is its transfers (data
phase of up to `Chunks`, response), the session and the pending upload; what it
does to stores is `MtpResponder`'s.  `alive.threads` counts the threads that were
created and not closed: one that was created and cannot be started is not closed
(`main.c:116`).  A stop with an upload pending leaves its store's file open
(`mtp_server.c:63`); at the next start nobody knows of it (`stale`), until that
store begins to write again or, for a save, a session opens.  History are `late`,
command reads posted after the stop began, `unstarted`, starts whose thread could
not be started, and `cut`, a stop that met a pending upload.  Assumed of `usb:ds`:
a transfer that was cancelled or lost its bus ends; one posted without a bus is
refused.

### GameCard

`mount` and `raw` are the cached file system and raw view, each with the
insertion it was opened in; `present` is the store's flag, `handle` the object
handles with the insertion they were listed from, `job` the command the worker
is in.  The root listing mounts partition after partition and a transfer reads
chunk after chunk; cards are pulled and put in between any two steps.  Assumed
of Horizon: an access through a mount succeeds exactly while the card of its
insertion is in the slot.  `missed` is history: a card came in that no refresh
told from the one before.

### TitleRecords

`tlContent`, `tlMeta`, `tlRecord`, `tlPlaces` are what `ncm` and `ns` keep;
`tlJob` is the deletion or installation each thread is in.  A deletion is one
action per call: the records are listed, dropped and pushed without the title
(`TlList`, `TlDrop`, `TlPush`: `nexusNsRemoveContentMetaFromRecord`), then the
contents and the meta record go (`TlOpen`, `TlDeletePart`, `TlRemoveMeta`:
`delete_content_meta`); an application goes in one call of `ns` with all its
family.  The worker's installation appears with the steps that touch records
and placeholders (`TlRegister` to `TlAdd`: `hz_content_commit`,
`hz_push_record`); what it streams is `Installer`'s.  `tlShared` is history: two
jobs ran at once, or a sweep ran during one.

### TitlesStore, Verify, Mods

`tsList` is the cached listing, `tsOpen` the open title with its place in the
listing (`open_index`), `tsSend` the .nsp being sent, unit by unit: header,
contents, meta file.  A folder or file name stands for the title it was made
from, as it has the title's id, version and kind in it.  Every read finds
folder and title anew, as `titles_read` does; the main thread may delete titles
between any two.  `Verify` takes a list of titles one by one, with the titles
that were broken when it began and have been ever since as history (`vfBroken`;
`VfWatch` takes out what the worker installs anew).  `Mods` has the folders
by title and state, the list on the screen, and a host that adds and renames
folders.

### Feeders

`fdPc` is where an installation from the console is, `fdFed` what the installer
has taken.  Over the network an action is a request, a chunk, a loss, an
answer's end, a decision to resume (`FdRequest` to `FdLost`); a server may
ignore ranges.  Split files are counted when the folder is scanned, looked up
part by part when installed, in a folder that may have changed.  A game card's
stream is the header made up for its contents, then each content from where the
partition has it.  The container is `Size` units, or all contents the card
has; the header takes `EntryCap` of them.

### Firmware

The running firmware has contents and the records that describe them.  Two
passes over a folder that need not be the one that was scanned: contents
(`FwContent`, in any order, over contents of the running firmware), then
records (`FwRecord`), then the check that a system update was among them, and
`hz_rollback`, which knows `MaxRegistered` contents and no record.  While an
installation reads the folder it stays as it is.

### SelfUpdate

Three files: the program, its download, its backup.  Every call that changes
one is a step; power may go between any two, and only a whole program can be
started again.  `upMishaps` counts the failures the code ignores.

### Console

`csScreen`, the title list with its sorting, filter and armed row, the scan of
the firmware and its arming.  An action that takes its time (a deletion, a
verification, an installation, the firmware, the update) keeps the main thread
(`MainFree`), but the worker goes on meanwhile.  `csDoomed` is history: what an
armed row showed when it was armed.  The screen `install` stands for the
network, local and game card screens.  Two buttons in one frame are not
modelled.

## Runs

| Run | Shows |
|---|---|
| `installer` | the properties below, for 23 containers, in every chunking, with faults in every call but the listing and restoring of records, cancellations, a power loss |
| `reinstall` | a title sent again, or an update that brings an unchanged content of the version before, loses what the first installation registered if its transfer fails (`RecordsBacked` violated) |
| `mtp` | the properties below, for every sequence of commands with failing cables and card operations |
| `mtp_partial` | `GetPartialObject` behind the end of a file declares more than it carries (`DeclaredIsSent` violated) |
| `mtp_card_full` | a store that refuses a chunk leaves the host without a response (`AnsweredOnce` violated) |
| `saves` | the properties below, for two saves, two files and a folder, restores cut off, cancelled and followed by others, power losses; every call may fail, deletions included, but renames and commits |
| `saves_rename` | a restore whose rename fails has deleted the original, and a later commit makes that last (`OriginalKept` violated) |
| `server` | the properties below, for starts that fail, stops in the middle of anything, silent hosts, cables pulled and back |
| `server_stop` | a stop that falls between the worker's look at its flag and its command read waits for the host (`StopReturns` violated) |
| `gamecard` | the properties below, for two cards with different partitions put in and pulled between any two calls |
| `console` | the properties below, for every sequence of menu actions and commands to the titles store, in twelve combinations |
| `firmware_rollback` | an installation of firmware that fails in its second pass leaves records of contents it has taken back (`FwRolledBack` violated) |

Properties of `installer`: `StreamAligned` (up to the first entry that overlaps one
before it, the position never overtakes the entry under the cursor: no unsigned
wrap), `ContentIntact` (what is registered is exactly the entry, with the same
exception), `RecordsBacked` (HOME lists only titles whose meta and
contents are there, through crashes), `NothingLost` (what was installed stays
listed), `NoDebris` (a failed installation leaves nothing), `CallReturns`
(every call of the store comes to its end), `LibrarySpec` (refinement).

Properties of `mtp`: `HandleStable` (a valid handle stands for the object it was
given for), `UniquePaths` (one handle per object), `UploadOwned` (a file is open
for writing exactly while an upload is pending, at its handle's path),
`AnsweredOnce`, `DeclaredIsSent`, `NeverReused` (handles end for good within a
session), `UploadWhole` (an upload is whole and its handle good, or it and its
handle are gone).

Properties of `saves`: `OriginalKept` (every file a save had is there, whole,
after a power loss), `ScratchGone` (no commit makes a scratch file last whose
deletion did not fail), `ToldIsDurable` (what the host was told survives, unless
the file it replaces could not be deleted), `VaultSpec` (refinement).

Properties of `server`: `NoUseAfterFree` (neither a thread nor a transfer reaches
freed buffers), `AllReleased` (a server that is down holds nothing but a thread
for each start that failed at its last call, and a store's file only if a stop met
its upload: no other end of an upload leaves one), `Drained` (a transfer that
timed out or was cancelled is over before the next), `AtMostOneMore` (one command
at most is read after a stop began), `SessionEnds` (a session ends with its
cable), `StopReturnsOrParked` (only a parked command read can keep `server_stop`;
`server_stop` shows that it does).

Properties of `gamecard`: `NoMixedImage` (no transfer mixes two cards),
`HandleOfCard` (a handle yields the card it was listed from), `CacheUsable` (no
mount of a former card stays).  The last two hold up to a swap between two
refreshes, which the code cannot see.

Properties of `console`: `NoDanglingRecord` (what a record lists has its meta and
contents, through failing calls and retries, until two jobs overlap), `NspIsTitle`
(an .nsp is of one title, its units in their places), `MatchIsTrue` ("Everything
matches its manifest" is not said when a title was broken), `DeletesWhatWasArmed`
(the second press deletes what the row showed at the first),
`InstalledIsContainer` (what is reported as installed is the container, each unit
once, through resumed downloads and changed folders), `FwWholeSet` (no firmware
record before its contents, and the records of the running firmware keep theirs,
until a rollback; a success has a system update), `UpNeverStranded` (a whole
program is left through power losses and one mishap), `InstallEnds` (an
installation comes to its end however often the connection goes).

Bounds.  `installer`: three transfers (an installation, one that updates it or
adds to it, one that fails), one power loss, chunks of up to two units, one more
than the shortest header, gap and entry, so every boundary is met inside, at and
behind a chunk's end.  The 23 containers are four good ones, an update that shares
a content, fifteen to be refused or that just pass, and three whose entries
overlap, wrap around or repeat.  A decoder that cannot be allocated (`"decoder"`)
ends a transfer like a decoder that rejects its first byte and is left out for
time.  `mtp`: two names, two levels of folders, three handles, three objects,
files of up to two units with a payload buffer of one, so that a transfer has a
first and a further chunk; with them a folder, what is in it and a third object
are renamed, moved into and out of each other, overwritten and deleted.  `saves`:
a second save and a second file are what a wrong mount or commit would touch, and
a content to restore is told from the original; saves and files are symmetric,
which all properties of the run are; nothing else is bounded (`saves_rename` has
two contents).  `server`: data phases of two transfers, so that one may be cut
between; one thread that cannot be started, which no later step forgets; nothing
else is bounded.  `gamecard`: three insertions, so that a card comes back after
another; two partitions, so that the cached mount is given up and taken again;
files of two reads.  `console`: a game with an update and an add-on, so that a
record has what must stay and what must go, and one more add-on that can be
installed; their orders by name, size and id differ, so that sorting moves an
armed row.  A behaviour has one of `Tours`, a set of two or three activities that
share state: each pair that can disturb the other is in one of them.  No job
begins after two have overlapped (`AfterOverlap`), as nothing is promised from
there on.  Downloads of four units with three attempts, folders of three parts; a
card with exactly as many contents as a header takes; a firmware limit of three
remembered contents for sets of four and more, so that a rollback forgets one.

Faults the runs leave out, because the code does not survive them: a listing of an
application's records that fails (`"list"`, `ns_ext.c:111`: taken for its end, so
a deletion leaves a dangling record and a push replaces records it has not seen);
a title whose database cannot be opened (`"verify"`: counted as checked, so
"Everything matches" may be said); the error page of a resumed download
(`"errorbody"`, `http.c:196`: fed to the installer as its continuation, if libcurl
lets it through); a file of the firmware folder whose read fails (`"read"`, taken
for its end).  The constants keep them, so that each can be seen.

Fairness.  `Installer`'s `Spec` has weak fairness on the steps inside a call
(`FeedStep` and `FinishStep` are straight-line code on a running thread), none on
what the host does.  `UsbServer`'s has it on the worker's steps (a running
thread; a timed wait ends by its timeout), on those of `server_stop`, and on the
ending of transfers that were cancelled or lost their bus, which `usb:ds` does;
none on host, cable and user, who may do nothing for ever.  `Console`'s has it on
the steps of an installation (`FdStep`): the main thread runs it to its end, and
libcurl ends every request, a silent one after a minute.  The other modules state
no liveness: hosts may stop.

Deadlock is not checked: a host may stop at any point.

## Proofs

Every invariant and action property of the passing runs is proved, for all values
of the constants that satisfy the assumptions; only liveness is left to TLC.  The
assumptions on constants (`ContainerAssumption`, `TableAssumption`, ...) are
evaluated by TLC in the runs.  A theorem whose run leaves a fault out has the
absence of that fault as its hypothesis; the sections below say why it is needed.
`TypeCorrect` and its like are needed by all others and not mentioned again.

### Installer (`Installer_proofs`)

For every set of containers, every chunking, fault, number of transfers and
crashes:

* `Aligned` (`StreamAligned`).  The invariant says where the position is in each
  stage: before the header's end, or, for as long as the entries lie in sequence
  (`InSequence`), behind the entry before the cursor's and not behind the cursor's
  end.  That the cursor stays in the table holds whatever the table is.
* `Intact` (`ContentIntact`).  The invariant adds what is in the open placeholder:
  the units of the current entry up to the position for a plain NCA, the first
  `out` units for a compressed one, under the current entry's id, and nothing
  between entries; a registration then sees the whole entry.  What lies further
  down the table does not matter, so one bad entry spoils none before it.
* `Refinement` (`LibrarySpec`), if ns lists and restores records
  (`RecordServiceWorks`).  Only `PushRecord` changes what HOME lists for good,
  `Crash` may drop a record that was deleted to be pushed again; every other step
  stutters.
* `NothingIsLost` (`NothingLost`), under the same hypothesis: what was reported is
  what the refinement mapping shows.
* `HomeIsWhole` (`RecordsBacked`) and `NoDebrisLeft` (`NoDebris`).  Both rest on
  `Stored`, what a transfer has put on the console so far: what it registered are
  its own contents (`RegisteredOwn`), every content entry behind the cursor is
  among them (`PassedStored`), the Meta NCA's size is the true one (`MetaSized`),
  a ticket was noticed as soon as a byte of it was read (`TicketNoticed`), and each
  step of `nexusInstallFinish` has done what the steps before it do (`Finishing`).
  Lemma `StoredInduction` shows it inductive and that every step is of one of few
  `Kinds`, so the two proofs look at those only.  `OwnInv` then says that
  records are owned titles whose committed record and contents belong to no other
  transfer, `DebrisInv` that what no committed record accounts for is what the
  running transfer would take back.

Hypotheses of the last two.  `Packed`: every container is laid out as packers make
it; an NCZ entered past its start may end unnoticed, and with two Meta NCAs, or
one id twice, the size and the contents a record gives need not be those
registered. `PreludesWhole` (no NCZ ends inside its section table) excludes what
`ncz_decode.c:308` lets pass. `HomeIsWhole` needs `~AllowReinstall`: contents are
deleted and registered anew (`install_horizon.c:124`), so the rollback of an
update takes those it shares with the installed version; the run `reinstall` shows
it.  `NoDebrisLeft` needs `OneContainerEach` (two containers of one title have the
same contents and both or neither a ticket): a rollback removes the meta record of
a title by name, and with it what accounts for the contents of another container
of that name.  The run `installer` has containers that are not packed, and several
of one title, and finds both properties kept within its bounds.

### MtpResponder (`MtpResponder_proofs`)

For every card (`CardAssumption`: a tree, one path to an object), any number of
names, handles and objects.  The first half are lemmas on paths (prefixes as a
tree), on the card (what `Removed`, `Put`, `Moved` and copying leave a tree, and
which objects they keep) and on the table (`Intern`, `Invalidate`, `Rename`).

* `UploadsOwned` (`UploadOwned`) and the action properties `EndedForGood`
  (`NeverReused`) and `UploadsWhole` (`UploadWhole`) hold whatever fails: `Base` says
  that an upload that is pending has its file open under the path of its handle,
  which is not valid yet, and that the file is the object the handle was shown for.
* `HandlesStandForTheirObject` (`HandleStable`) and `OneHandleEach` (`UniquePaths`)
  are inductive only together (`Tracked`): a valid handle's path exists and leads to
  the object it was shown for, so a rename's free destination has no handle, and
  renaming a folder moves the handles of exactly what is below it; a handle
  to a folder was listed as one, so no handle is left below a file.  They need writes
  that do not fail: a copy that fails removes the file that was there and leaves its
  handle valid (a hazard at `storage_sdmc.c:344`).
* `OneAnswer` (`AnsweredOnce`) needs reads and writes that do not fail
  (`mtp_card_full`), `DeclaredArrives` (`DeclaredIsSent`) reads that do not fail and
  hosts that do not ask behind the end of a file (`mtp_partial`).

### GameCard (`GameCard_proofs`)

For every set of cards, order of partitions and number of insertions: `NoStaleMount`
(`CacheUsable`), `HandleStaysWithCard` (`HandleOfCard`), `OneCardPerTransfer`
(`NoMixedImage`).  The invariant: nothing is kept of any card while the registry
believes the slot empty (`Released`); what is kept is of the card last put in, if no
swap was missed (`Current`); a transfer reads through the mount or view it began
with, which is never replaced while it is open (`Reading`), so what it
serves is of one insertion, missed swaps or not (`Served`).

### SaveStore (`SaveStore_proofs`)

For every number of saves, files, folders and contents:

* `NoScratchLasts` (`ScratchGone`), whatever fails.  The invariant (`ScratchFree`) is
  about the entries that last and those mounted: a scratch file among them is the
  pending restore's, or its deletion has failed; every commit commits entries
  from which the pending one has been taken or resisted.
* `NoSaveLost` (`OriginalKept`), if renames work, whether or not deletions and
  commits do.  What lasts and what is mounted have every file, whole; lemma
  `Effects` says what a step may do to them.
* `ToldSurvives` (`ToldIsDurable`) and `Refinement` (`VaultSpec`), if renames and
  commits work: what is mounted then holds in every file what lasts in it.  A
  deletion that fails keeps the old file, and the host is told OK: the refinement
  holds even then, only `told` is excused.

The run `saves_rename` shows that the assumption on renames is needed.

### UsbServer (`UsbServer_proofs`)

For data phases of any length and whatever fails at the start: `MemorySafe`
(`NoUseAfterFree`), `HeldNoMore` (`AllReleased`), `TransfersDrained` (`Drained`)
and `OneMoreAtMost` (`AtMostOneMore`).  The invariant says that a transfer is out
only in the worker's waiting states, on its endpoint, and not ended and posted at
once (`OneTransfer`); what is allocated in each state of the main thread (`Held`);
that a file is open for writing without an upload only after a stop that met one
(`Cut`); and that the worker is past its look at the flag when a late read has
been counted (`LastRead`).

### TitleRecords, Feeders, Firmware, SelfUpdate (`TitleRecords_proofs`, `Jobs_proofs`)

* `RecordsNeverDangle` (`NoDanglingRecord`), for every catalogue and every fault but
  `"list"`.  The invariant gives each step of a job what it has ready for the next
  (`Stage`): the title is out of the records before a content goes, what is
  pushed back is whole.
* `InstalledWhole` (`InstalledIsContainer`), for any size, number of attempts,
  cutting and secure partition; of downloads without `"errorbody"`, of cards with
  no more contents than a header takes (`xci_install.c:343` drops the rest).  What
  has been fed is the units up to where the source is; a request starts where it
  ends.  For a game card the contents are picked in the partition's order:
  `ListsAll` shows of `InOrder` that it lists every place once, ascending, with
  what is finite and ranked by how many come before (`RankGrows`).
  `FdTypeCorrect` is without hypothesis.
* `FwDescribesWhatIsThere` (`FwWholeSet`) without `"read"`, for every folder and
  limit: behind the first pass every file is registered, and so is at every moment
  what the running firmware's records describe, until a rollback begins.
* `UpKeepsAProgram` (`UpNeverStranded`): in each place of the update, which of the
  three files is whole after no mishap and after one.

### Console (`Console_proofs`)

* `ConsoleImplementsParts`: `Spec => TlSpec /\ FdSpec /\ FwSpec /\ UpSpec`, for all
  constants and tours (lemma `ListedTitles`: a row of the menu has a title), so the
  theorems above hold of the composition (`ConsoleIsSafe`).
* `ConsoleTypeCorrect` (`ConsoleTypeOK`), for every fault: that an armed row, a mod's
  row, a listing's place and a verification's list stay in the range of what they
  index, whatever the other thread changes.
* `ArmedIsDeleted` (`DeletesWhatWasArmed`): an armed row shows what it showed.
* `NspStaysTitle` (`NspIsTitle`), by what has been sent so far.
* `VerificationIsTrue` (`MatchIsTrue`), without `"verify"`: while no issue has been
  counted every broken title is still to be checked, and the one being hashed does
  not match if it is broken.  The worker can only make a title whole by installing
  all of it, which takes it out of `vfBroken`.

### Not proved

Liveness (`CallReturns`, `SessionEnds`, `StopReturnsOrParked`, `InstallEnds`) is
model-checked only, since the prover has no fairness and no `ENABLED`.  What the
hypotheses above exclude is, where it goes wrong, shown by a run that ends in a
violation or described with its hazard in `PROJECT.json`.  `TypeOK` of `SaveStore`
is proved and in no run.

## What the code does otherwise than it says

Each run that ends in a violation quotes its line in `PROJECT.json`.  Met while
modelling, not given a run:

* `ncz_decode.c:308`: an NCZ whose entry ends inside its section table has rebuilt
  0 of 0 bytes and is accepted.  No content was begun, none is registered, and
  `build_meta` looks for its name in the container's table only, though
  `installer.c:478` says "Every content the CNMT lists must have actually
  arrived": the title is published without it.  Found by the proof of
  `HomeIsWhole`; a container with such an entry violates `RecordsBacked` in TLC
  within one transfer.
* `partition_fs.c`, `build_entries` (`installer.c`): an entry table whose entries
  overlap, wrap around or repeat is taken as it is.  Behind an entry that overlaps
  one before it `entry_end - stream_pos` (`installer.c:379`) wraps, and a plain
  NCA is registered under its name with what does not belong to it; the NCA's hash
  is not looked at.
* `docs/USAGE.md:345`: "the record is replaced rather than merged, so installing a
  patch for a title already present may drop the base game's record".
  `hz_push_record` (`install_horizon.c:290`) reads the records that are there and
  merges; the "known limitation" is none any more, as `NothingLost` shows.
* `install_horizon.c:124`: a content that is there already is deleted and registered
  anew, and the rollback deletes it: an update that brings an unchanged content of the
  installed version, or a title sent again, takes it away when its transfer fails (run
  `reinstall`).
* `install_horizon.c:229`: a meta record that was set and whose commit fails is
  not removed by `hz_rollback`, which looks at `meta_committed` only (line 382).
  Its contents are deleted, and the next title's commit makes the record last;
  HOME lists nothing of it.
* `xci_install.c:343`: contents of a card past the 64th are left out of the made-up
  header, and the installation is reported as successful.
* `storage_saves.c:415`, `469`, `474`, `480`: the results of deletions are not
  looked at. A scratch file that stays is made to last by the next commit (`517`,
  `486`); an original that stays keeps the restored file from its name, though the
  host is told OK.
* `main.c:116`: a thread that was created and cannot be started is not closed.
* `mtp_server.c:63`: `mtpServerExit` forgets a pending upload without ending it; the
  next upload to that store begins by closing the file, which on the SD card
  keeps the part that came.
* `installer.c:474`: delta fragments are "never installed" (`docs/USAGE.md:276`), but
  every .nca of a container is registered as it streams by, and which of them are
  delta fragments is known only from the CNMT at the end: one that is in the
  container stays registered with no record that lists it.
* `storage_titles.c:331`: after a deletion has renumbered the listing, a folder
  shows the name, icon and info of the title that is open under its place; the
  contents of the .nsp are protected by a comparison of names at line 680, which
  `NspIsTitle` depends on.
* `maintenance.c:38`, `102`: placeholders are "always debris" and the orphan sweep
  "far safer" only while the worker installs nothing: the sweep takes a live
  installation's placeholder, whose registration then fails.
* `ns_ext.c:167`: a push that fails leaves the application without the record that
  was dropped for it.  A deletion and an installation that overlap on one
  application put back what the other has dropped (`tlShared`).
* `main.c:1183`: the first X arms the row, but the menu is not built anew and the
  row never says so.
* `update.c:295`: applied twice, the backup is the new program; two mishaps leave
  nothing to start.
* `firmware.c:357`: a folder that cannot be opened for the second pass ends the
  installation without a rollback; a rollback remembers 64 contents of some 200,
  and takes with it those it shared with the running firmware, whose records then
  describe what is gone.

Smaller ones, in no hazard: a packet of length zero is never posted
(`mtp_server.c:126`); a moved object's entry keeps its old parent
(`mtp_ops.c:1143`); `SetObjectPropValue` answers an unknown handle before it takes
the data (`mtp_ops.c:1056`); `mkdir` accepts a file (`storage_sdmc.c:250`); a card
swapped between two refreshes is taken for the one before
(`storage_gamecard.c:317`, `missed` in `GameCard`).

## Plan

1. Done: `Installer`, `SaveStore`, `UsbServer` with their proofs, `MtpResponder` for
   the SD store, `GameCard`; `TitleRecords`, `TitlesStore`, `Verify`, `Mods`,
   `Feeders`, `Firmware`, `SelfUpdate` and their composition `Console`, all with
   proofs.
2. Models: `NczDecoder` (prelude, sections and blocks over any cut of the stream);
   connections told apart in `UsbServer`, for the clean slate a reconnecting host is
   promised (`mtp_server.h:57`); writes that fail in the SD store.
3. Proofs: every invariant and action property of the passing runs is proved. Left
   are what an NCZ decoder of its own would promise; what remains of
   `HandleStable` and `UniquePaths` when a copy fails (all handles but the
   destination's).

## Not modelled

Cryptography and compression; the parsing of bytes (partition tables, cnmt, JSON,
MTP datasets and names: pure, covered by unit tests), so offsets and names are
abstract everywhere; drawing, the cursor, the log; TLS, redaction and the list of
sources; the NAND and album views and console information, which only read; the
splitting and bounce buffer of long USB transfers.  Limits of the code that no
instance reaches: 320 records of an application, 512 titles in a verification.
