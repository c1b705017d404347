------------------------------- MODULE GameCard -------------------------------
(***************************************************************************)
(* The store over the game card (storage_gamecard.c), which keeps a mount  *)
(* of one partition and a raw view of the whole card, under the refresh of *)
(* the registry (storage_registry.c), while cards are pulled and put in    *)
(* between any two calls.                                                  *)
(*                                                                         *)
(* What Horizon does is external: a mount or view belongs to the insertion *)
(* it was opened in, and every access through it fails once that is over.  *)
(***************************************************************************)
EXTENDS Integers, Sequences, FiniteSets

CONSTANTS
  Cards,
  Order,          \* the partitions in the order of g_partitions
  Has,            \* card -> the partitions that mount
  Chunks,         \* reads of a file
  MaxInsertions,  \* bound on how often a card is put in
  Faults          \* what may fail: "raw" (raw access needs permissions)

Partitions == {Order[i] : i \in DOMAIN Order}
ASSUME CardAssumption ==
  /\ Order \in Seq(Partitions) /\ Order # <<>> /\ "none" \notin Partitions
  /\ Has \in [Cards -> SUBSET Partitions]
  /\ Chunks \in Nat \ {0} /\ MaxInsertions \in Nat

\* Objects of the store: the image, a partition's folder, the file in it.
Image      == <<"card.xci">>
Folder(p)  == <<p>>
File(p)    == <<p, "file">>
Objects    == {Image} \cup {Folder(p) : p \in Partitions} \cup {File(p) : p \in Partitions}

VARIABLES
  cards,    \* the cards put in so far, the last one in the slot if any is
  in,       \* a card is in the slot
  present,  \* self->present, as of the last refresh
  mount,    \* mounted partition and the insertion it was opened in
  raw,      \* the insertion the raw view was opened in, 0: not open
  handle,   \* the object handles of the store: object -> insertion it was listed from
  job,      \* the command the worker is in
  served,   \* history: the insertions the current transfer took anything from
  missed    \* history: a card was put in that no refresh told from the one before

cache == <<mount, raw>>
vars  == <<cards, in, present, mount, raw, handle, job, served, missed>>

Slot       == Len(cards)
NoMount    == [part |-> "none", ins |-> 0]
NoJob      == [op |-> "idle", at |-> 0, obj |-> Image, from |-> 0]
NoHandles  == [o \in {} |-> 0]
Interned(o, ins) == [x \in DOMAIN handle \cup {o} |-> IF x = o THEN ins ELSE handle[x]]

Init ==
  /\ cards = <<>> /\ in = FALSE /\ present = FALSE
  /\ mount = NoMount /\ raw = 0
  /\ handle = NoHandles /\ job = NoJob /\ served = {} /\ missed = FALSE
-----------------------------------------------------------------------------
Outcomes(call) == IF call \in Faults THEN BOOLEAN ELSE {TRUE}

\* Mutant: the raw view is opened again for every read.
RawAnew == IF in THEN Slot ELSE 0

\* Mutant: one turn too many.
HasNextPast(i, n) == i <= n

HasNext(i, n) == i < n

\* gc_raw_open: a view that is open is used again.
Raw == IF raw # 0 THEN raw ELSE IF in THEN Slot ELSE 0

\* gc_mount: so is the mount of the partition that is wanted.
Mount(p) ==
  IF mount.part = p THEN mount
  ELSE IF in /\ p \in Has[cards[Slot]] THEN [part |-> p, ins |-> Slot]
  ELSE NoMount

\* An access through a mount or view of insertion k succeeds.
Lives(k) == in /\ k = Slot

\* The insertion an object's bytes and size come from, 0: none.
Source(o, m, r) == IF o = Image THEN r ELSE m.ins

\* Mount or view that a command on object o leaves.
Reach(o) ==
  IF o = Image
    THEN /\ \E able \in Outcomes("raw") : raw' = IF able THEN Raw ELSE raw
         /\ UNCHANGED mount
    ELSE mount' = Mount(o[1]) /\ UNCHANGED raw
-----------------------------------------------------------------------------
\* The registry's refresh, at GetStorageIDs and OpenSession; the latter clears
\* the handles of all stores.

\* Mutant: the handles of a card outlive it.
KeptHandles(open) == IF open THEN NoHandles ELSE handle

HandlesLeft(open) == IF open \/ present # in THEN NoHandles ELSE handle

\* Mutant: the raw view of a card outlives it.
ReleaseMount == mount' = NoMount /\ UNCHANGED raw

\* gc_release_all
ReleaseAll == mount' = NoMount /\ raw' = 0

Refresh ==
  /\ job.op = "idle"
  /\ \E open \in BOOLEAN : handle' = HandlesLeft(open)
  /\ IF present # in THEN ReleaseAll /\ missed' = FALSE ELSE UNCHANGED <<cache, missed>>
  /\ present' = in
  /\ served' = {}
  /\ UNCHANGED <<cards, in, job>>

\* GetObjectHandles of the root: the image, then the partitions one by one.
ListRoot ==
  /\ job.op = "idle" /\ present
  /\ Reach(Image)
  /\ handle' = IF raw' # 0 THEN Interned(Image, raw') ELSE handle
  /\ job' = [NoJob EXCEPT !.op = "list", !.at = 1]
  /\ served' = {}
  /\ UNCHANGED <<cards, in, present, missed>>

ListNext ==
  /\ job.op = "list"
  /\ LET p == Order[job.at] IN
       /\ Reach(Folder(p))
       /\ handle' = IF mount'.part = p THEN Interned(Folder(p), mount'.ins) ELSE handle
  /\ job' = IF HasNext(job.at, Len(Order)) THEN [job EXCEPT !.at = @ + 1] ELSE NoJob
  /\ UNCHANGED <<cards, in, present, served, missed>>

\* GetObjectHandles of a partition's folder.
ListPartition(p) ==
  /\ job.op = "idle" /\ present /\ Folder(p) \in DOMAIN handle
  /\ Reach(Folder(p))
  /\ handle' = IF Lives(mount'.ins) THEN Interned(File(p), mount'.ins) ELSE handle
  /\ served' = {}
  /\ UNCHANGED <<cards, in, present, job, missed>>

\* GetObject: gc_stat first; the image's size is cached with the view.
GetObject(o) ==
  /\ job.op = "idle" /\ present /\ o \in DOMAIN handle /\ o \notin {Folder(p) : p \in Partitions}
  /\ Reach(o)
  /\ LET k  == Source(o, mount', raw')
         ok == IF o = Image THEN k # 0 ELSE Lives(k) IN
       /\ job' = IF ok THEN [op |-> "get", at |-> 1, obj |-> o, from |-> handle[o]] ELSE NoJob
       /\ served' = IF ok THEN {k} ELSE {}
  /\ UNCHANGED <<cards, in, present, handle, missed>>

\* One read of send_object_range; a failing one ends the transfer.
Read ==
  /\ job.op = "get"
  /\ Reach(job.obj)
  /\ LET k == Source(job.obj, mount', raw') IN
       /\ served' = IF Lives(k) THEN served \cup {k} ELSE served
       /\ job' = IF Lives(k) /\ HasNext(job.at, Chunks) THEN [job EXCEPT !.at = @ + 1]
                 ELSE [job EXCEPT !.op = "done"]
  /\ UNCHANGED <<cards, in, present, handle, missed>>

Response ==
  /\ job.op = "done" /\ job' = NoJob
  /\ served' = {}
  /\ UNCHANGED <<cards, in, present, cache, handle, missed>>

PutIn(c) ==
  /\ ~in /\ in' = TRUE
  /\ Len(cards) < MaxInsertions /\ cards' = Append(cards, c)
  /\ missed' = (missed \/ present)
  /\ UNCHANGED <<present, cache, handle, job, served>>

Pull ==
  /\ in /\ in' = FALSE
  /\ UNCHANGED <<cards, present, cache, handle, job, served, missed>>

Next ==
  \/ Refresh \/ ListRoot \/ ListNext \/ Read \/ Response \/ Pull
  \/ \E p \in Partitions : ListPartition(p)
  \/ \E o \in Objects : GetObject(o)
  \/ \E c \in Cards : PutIn(c)

Spec == Init /\ [][Next]_vars
-----------------------------------------------------------------------------
Insertions == 0..MaxInsertions

TypeOK ==
  /\ cards \in Seq(Cards) /\ Len(cards) \in Insertions
  /\ {in, present, missed} \subseteq BOOLEAN
  /\ in => cards # <<>>
  /\ mount \in [part : Partitions \cup {"none"}, ins : Insertions]
  /\ (mount.part = "none") = (mount.ins = 0)
  /\ raw \in Insertions
  /\ handle \in UNION {[D -> Insertions \ {0}] : D \in SUBSET Objects}
  /\ job.op \in {"idle", "list", "get", "done"}
  /\ job.op = "list" => job.at \in DOMAIN Order
  /\ job.op \in {"get", "done"} => job.at \in 1..Chunks
  /\ served \subseteq Insertions \ {0}
  /\ mount.ins <= Slot /\ raw <= Slot

\* What a host gets as one object comes from one card, however the cards are
\* swapped between its reads: a dump never mixes two cartridges.
NoMixedImage == Cardinality(served) <= 1

\* What a handle yields is of the card it was listed from, unless cards were
\* swapped between two refreshes: then the registry takes the new card for the
\* one it knows, and a handle of the former yields the file of its name on the
\* new one as soon as its partition is mounted again.
HandleOfCard ==
  job.op \in {"get", "done"} /\ ~missed => served \subseteq {job.from}

\* After a refresh, mount and raw view are of the card that is in the slot:
\* none of a former card is left that every access would fail through.
CacheUsable ==
  present /\ in /\ ~missed => mount.ins \in {0, Slot} /\ raw \in {0, Slot}
=============================================================================
