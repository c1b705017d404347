--------------------------- MODULE GameCard_proofs ---------------------------
(***************************************************************************)
(* One card to a transfer, one card to a handle: what the store over the   *)
(* game card keeps true for any number of cards, partitions, reads and     *)
(* insertions, wherever between two calls a card is pulled or put in.      *)
(***************************************************************************)
EXTENDS GameCard, FiniteSetTheorems, TLAPS

\* While the registry believes the slot empty nothing is kept of any card.
Released ==
  ~present => mount = NoMount /\ raw = 0 /\ handle = NoHandles /\ job.op = "idle"

\* As long as no exchange was missed everything is of the card last put in.
Current ==
  present /\ ~missed =>
    /\ mount.ins \in {0, Slot} /\ raw \in {0, Slot}
    /\ \A o \in DOMAIN handle : handle[o] = Slot
    /\ job.op \in {"get", "done"} => job.from = Slot /\ served \subseteq {Slot}

\* A transfer reads through the one mount or view it began with: Reach never
\* replaces one that is there.
Reading ==
  job.op = "get" =>
    /\ job.obj \in Objects
    /\ Source(job.obj, mount, raw) # 0 /\ served = {Source(job.obj, mount, raw)}
    /\ job.obj # Image => mount.part = job.obj[1]

Served ==
  /\ job.op \in {"idle", "list"} => served = {}
  /\ job.op = "done" => \E k \in Insertions : served \subseteq {k}

GcInv == TypeOK /\ Released /\ Current /\ Reading /\ Served
-----------------------------------------------------------------------------
\* The mounts and the handles of the store, by their types.
Mounts  == [part : Partitions \cup {"none"}, ins : Insertions]
Handles == UNION {[D -> Insertions \ {0}] : D \in SUBSET Objects}

\* The slot's number, and what lives in it.
LEMMA SlotFacts ==
  ASSUME TypeOK
  PROVE  /\ Slot \in Insertions /\ Slot \in Nat /\ (in => Slot # 0)
         /\ \A k : Lives(k) => k = Slot /\ k # 0 /\ k \in Insertions
<1>1. Slot \in Insertions /\ Slot \in Nat
  BY CardAssumption DEF TypeOK, Slot, Insertions
<1>2. in => Slot # 0
  BY DEF TypeOK, Slot
<1> QED BY <1>1, <1>2 DEF Lives

\* An object but the image is in a partition.
LEMMA ObjectFacts ==
  /\ Image \in Objects
  /\ \A p \in Partitions : Folder(p) \in Objects /\ File(p) \in Objects
  /\ \A p \in Partitions : Folder(p)[1] = p /\ File(p)[1] = p
  /\ \A o \in Objects : o # Image => o[1] \in Partitions
BY DEF Objects, Folder, File

\* Mounting leaves a mount that is there, opens one of the slot's card or has
\* none left.
LEMMA MountFacts ==
  ASSUME TypeOK, NEW p \in Partitions
  PROVE  /\ Mount(p) \in Mounts /\ Mount(p).ins <= Slot
         /\ (Mount(p).part = "none") = (Mount(p).ins = 0)
         /\ mount.part = p => Mount(p) = mount
         /\ Mount(p).part = p <=> Mount(p).ins # 0
         /\ Mount(p).ins \in {0, mount.ins, Slot}
<1>1. CASE mount.part = p
  BY <1>1, CardAssumption DEF Mount, TypeOK, Mounts
<1>2. CASE mount.part # p /\ in /\ p \in Has[cards[Slot]]
  <2>1. Mount(p) = [part |-> p, ins |-> Slot]
    BY <1>2 DEF Mount
  <2> QED BY <1>2, <2>1, SlotFacts, CardAssumption DEF Mounts
<1>3. CASE mount.part # p /\ ~(in /\ p \in Has[cards[Slot]])
  <2>1. Mount(p) = NoMount
    BY <1>3 DEF Mount
  <2> QED BY <1>3, <2>1, SlotFacts, CardAssumption DEF Mounts, NoMount, Insertions
<1> QED BY <1>1, <1>2, <1>3

\* The same of the raw view.
LEMMA RawFacts ==
  ASSUME TypeOK
  PROVE  Raw \in Insertions /\ Raw <= Slot /\ Raw \in {0, raw, Slot} /\ (raw # 0 => Raw = raw)
<1>1. raw \in Insertions /\ raw <= Slot
  BY DEF TypeOK
<1> QED BY <1>1, SlotFacts DEF Raw, Insertions

\* What reaching an object leaves of mount and view.
LEMMA ReachFacts ==
  ASSUME TypeOK, NEW o \in Objects, Reach(o)
  PROVE  /\ mount' \in Mounts /\ mount'.ins <= Slot
         /\ (mount'.part = "none") = (mount'.ins = 0)
         /\ mount'.ins \in {0, mount.ins, Slot}
         /\ raw' \in Insertions /\ raw' <= Slot /\ raw' \in {0, raw, Slot}
         /\ o = Image => mount' = mount /\ (raw # 0 => raw' = raw)
         /\ o # Image => /\ raw' = raw /\ (mount'.part = o[1] <=> mount'.ins # 0)
                         /\ mount.part = o[1] => mount' = mount
         /\ \A s \in Insertions : Source(o, mount', raw') = s => s <= Slot
<1>1. mount \in Mounts /\ mount.ins <= Slot /\ (mount.part = "none") = (mount.ins = 0)
      /\ raw \in Insertions /\ raw <= Slot
  BY DEF TypeOK, Mounts
<1>2. CASE o = Image
  <2>1. mount' = mount /\ raw' \in {raw, Raw}
    BY <1>2 DEF Reach
  <2> QED BY <1>1, <1>2, <2>1, RawFacts DEF Source
<1>3. CASE o # Image
  <2>1. mount' = Mount(o[1]) /\ raw' = raw
    BY <1>3 DEF Reach
  <2>2. o[1] \in Partitions
    BY <1>3, ObjectFacts
  <2> QED BY <1>1, <1>3, <2>1, <2>2, MountFacts DEF Source
<1> QED BY <1>2, <1>3

\* A handle that is interned has its type, the others keep their card.
LEMMA InternedFacts ==
  ASSUME TypeOK, NEW o \in Objects, NEW k \in Insertions \ {0}
  PROVE  /\ Interned(o, k) \in Handles
         /\ \A x \in DOMAIN Interned(o, k) :
              Interned(o, k)[x] = k \/ (x \in DOMAIN handle /\ Interned(o, k)[x] = handle[x])
<1>1. PICK D \in SUBSET Objects : handle \in [D -> Insertions \ {0}]
  BY DEF TypeOK
<1>2. D \cup {o} \in SUBSET Objects
  OBVIOUS
<1>3. Interned(o, k) \in [D \cup {o} -> Insertions \ {0}]
  BY <1>1 DEF Interned
<1> QED BY <1>2, <1>3 DEF Handles, Interned
-----------------------------------------------------------------------------
\* What one command of the worker may change keeps the rest.
LEMMA Kept ==
  ASSUME GcInv, UNCHANGED <<cards, in>>, present' \in {present, in},
         mount' \in Mounts, mount'.ins <= Slot, (mount'.part = "none") = (mount'.ins = 0),
         raw' \in Insertions, raw' <= Slot, handle' \in Handles,
         missed' \in BOOLEAN, served' \subseteq Insertions \ {0},
         job'.op \in {"idle", "list", "get", "done"},
         job'.op = "list" => job'.at \in DOMAIN Order,
         job'.op \in {"get", "done"} => job'.at \in 1..Chunks
  PROVE  TypeOK'
BY DEF GcInv, TypeOK, Slot, Insertions, Mounts, Handles

LEMMA RefreshInv == GcInv /\ Refresh => GcInv'
<1> SUFFICES ASSUME GcInv, Refresh PROVE GcInv'
  OBVIOUS
<1>0. /\ TypeOK /\ job.op = "idle" /\ job' = job /\ UNCHANGED <<cards, in>>
      /\ present' = in /\ served' = {} /\ Slot' = Slot
  BY DEF GcInv, Refresh, Slot
<1>1. NoHandles \in Handles /\ DOMAIN NoHandles = {} /\ handle \in Handles
  <2>1. NoHandles \in [{} -> Insertions \ {0}]
    BY DEF NoHandles
  <2> QED BY <1>0, <2>1 DEF Handles, TypeOK, NoHandles
<1>2. CASE present # in
  <2>1. mount' = NoMount /\ raw' = 0 /\ missed' = FALSE /\ handle' = NoHandles
    BY <1>2 DEF Refresh, ReleaseAll, HandlesLeft
  <2>2. TypeOK'
    <3>1. /\ mount' \in Mounts /\ mount'.ins = 0 /\ mount'.part = "none"
          /\ 0 \in Insertions /\ 0 <= Slot
      BY <1>0, <2>1, SlotFacts, CardAssumption DEF NoMount, Mounts, Insertions
    <3> QED BY <1>0, <1>1, <2>1, <3>1, Kept
  <2> QED
    BY <1>0, <1>1, <2>1, <2>2 DEF GcInv, Released, Current, Reading, Served, NoMount
<1>3. CASE present = in
  <2>1. /\ UNCHANGED <<cache, missed>>
        /\ handle' = NoHandles \/ handle' = handle
    BY <1>3 DEF Refresh, HandlesLeft
  <2>2. TypeOK'
    BY <1>0, <1>1, <1>3, <2>1 DEF TypeOK, Insertions, Slot, Handles, cache
  <2>3. Released' /\ Current'
    BY <1>0, <1>1, <1>3, <2>1 DEF GcInv, Released, Current, cache
  <2> QED
    BY <1>0, <2>2, <2>3 DEF GcInv, Reading, Served
<1> QED BY <1>2, <1>3

LEMMA ListRootInv == GcInv /\ ListRoot => GcInv'
<1> SUFFICES ASSUME GcInv, ListRoot PROVE GcInv'
  OBVIOUS
<1>0. /\ TypeOK /\ present /\ Reach(Image) /\ UNCHANGED <<cards, in, present, missed>>
      /\ job'.op = "list" /\ job'.at = 1 /\ served' = {} /\ Slot' = Slot
  BY DEF GcInv, ListRoot, NoJob, Slot
<1>1. /\ mount' = mount /\ raw' \in Insertions /\ raw' <= Slot /\ raw' \in {0, raw, Slot}
  BY <1>0, ReachFacts, ObjectFacts
<1>2. /\ handle' \in Handles
      /\ \A x \in DOMAIN handle' :
           (handle'[x] = raw' /\ raw' # 0) \/ (x \in DOMAIN handle /\ handle'[x] = handle[x])
  <2>1. CASE raw' # 0
    <3>1. handle' = Interned(Image, raw')
      BY <2>1 DEF ListRoot
    <3>2. raw' \in Insertions \ {0} /\ Image \in Objects
      BY <1>1, <2>1, ObjectFacts
    <3> QED BY <1>0, <2>1, <3>1, <3>2, InternedFacts
  <2>2. CASE raw' = 0
    BY <1>0, <2>2 DEF ListRoot, TypeOK, Handles
  <2> QED BY <2>1, <2>2
<1>3. 1 \in DOMAIN Order
  BY CardAssumption
<1>4. TypeOK'
  <2>1. mount \in Mounts /\ mount.ins <= Slot /\ (mount.part = "none") = (mount.ins = 0)
        /\ missed \in BOOLEAN
    BY <1>0 DEF TypeOK, Mounts
  <2> QED BY <1>0, <1>1, <1>2, <1>3, <2>1, Kept
<1>5. Current'
  BY <1>0, <1>1, <1>2 DEF GcInv, Current
<1> QED BY <1>0, <1>4, <1>5 DEF GcInv, Released, Reading, Served

LEMMA ListNextInv == GcInv /\ ListNext => GcInv'
<1> SUFFICES ASSUME GcInv, ListNext PROVE GcInv'
  OBVIOUS
<1> DEFINE p == Order[job.at]
<1>0. /\ TypeOK /\ job.op = "list" /\ Reach(Folder(p)) /\ served' = {}
      /\ UNCHANGED <<cards, in, present, missed>> /\ Slot' = Slot /\ present
  BY DEF GcInv, Released, Served, ListNext, Slot
<1>1. job.at \in DOMAIN Order /\ p \in Partitions /\ Folder(p) \in Objects
  BY <1>0, ObjectFacts DEF TypeOK, Partitions
<1>2. /\ mount' \in Mounts /\ mount'.ins <= Slot /\ (mount'.part = "none") = (mount'.ins = 0)
      /\ mount'.ins \in {0, mount.ins, Slot}
      /\ raw' \in Insertions /\ raw' <= Slot /\ raw' \in {0, raw, Slot}
  BY <1>0, <1>1, ReachFacts
<1>3. /\ handle' \in Handles
      /\ \A x \in DOMAIN handle' :
           (handle'[x] = mount'.ins /\ mount'.ins # 0)
           \/ (x \in DOMAIN handle /\ handle'[x] = handle[x])
  <2>1. CASE mount'.part = p
    <3>1. handle' = Interned(Folder(p), mount'.ins)
      BY <2>1 DEF ListNext
    <3>2. mount'.ins \in Insertions \ {0}
      BY <1>1, <1>2, <2>1, CardAssumption DEF Mounts
    <3> QED BY <1>0, <1>1, <3>1, <3>2, InternedFacts
  <2>2. CASE mount'.part # p
    BY <1>0, <2>2 DEF ListNext, TypeOK, Handles
  <2> QED BY <2>1, <2>2
<1>4. /\ job'.op \in {"idle", "list"}
      /\ job'.op = "list" => job'.at \in DOMAIN Order
  <2>1. CASE HasNext(job.at, Len(Order))
    <3>1. job'.op = "list" /\ job'.at = job.at + 1
      BY <1>0, <2>1 DEF ListNext, TypeOK
    <3> QED BY <1>1, <2>1, <3>1, CardAssumption DEF HasNext
  <2>2. CASE ~HasNext(job.at, Len(Order))
    BY <2>2 DEF ListNext, NoJob
  <2> QED BY <2>1, <2>2
<1>5. TypeOK'
  <2>1. missed \in BOOLEAN
    BY <1>0 DEF TypeOK
  <2> QED BY <1>0, <1>2, <1>3, <1>4, <2>1, Kept
<1>6. Current'
  BY <1>0, <1>2, <1>3, <1>4 DEF GcInv, Current
<1> QED BY <1>0, <1>4, <1>5, <1>6 DEF GcInv, Released, Reading, Served

LEMMA ListPartitionInv == ASSUME NEW p \in Partitions PROVE GcInv /\ ListPartition(p) => GcInv'
<1> SUFFICES ASSUME GcInv, ListPartition(p) PROVE GcInv'
  OBVIOUS
<1>0. /\ TypeOK /\ job.op = "idle" /\ job' = job /\ Reach(Folder(p)) /\ served' = {}
      /\ UNCHANGED <<cards, in, present, missed>> /\ Slot' = Slot /\ present
  BY DEF GcInv, ListPartition, Slot
<1>1. Folder(p) \in Objects /\ File(p) \in Objects
  BY ObjectFacts
<1>2. /\ mount' \in Mounts /\ mount'.ins <= Slot /\ (mount'.part = "none") = (mount'.ins = 0)
      /\ mount'.ins \in {0, mount.ins, Slot}
      /\ raw' \in Insertions /\ raw' <= Slot /\ raw' \in {0, raw, Slot}
  BY <1>0, <1>1, ReachFacts
<1>3. /\ handle' \in Handles
      /\ \A x \in DOMAIN handle' :
           (handle'[x] = mount'.ins /\ mount'.ins # 0)
           \/ (x \in DOMAIN handle /\ handle'[x] = handle[x])
  <2>1. CASE Lives(mount'.ins)
    <3>1. handle' = Interned(File(p), mount'.ins)
      BY <2>1 DEF ListPartition
    <3>2. mount'.ins \in Insertions \ {0}
      BY <1>0, <2>1, SlotFacts
    <3> QED BY <1>0, <1>1, <3>1, <3>2, InternedFacts
  <2>2. CASE ~Lives(mount'.ins)
    BY <1>0, <2>2 DEF ListPartition, TypeOK, Handles
  <2> QED BY <2>1, <2>2
<1>4. TypeOK'
  <2>1. missed \in BOOLEAN
    BY <1>0 DEF TypeOK
  <2> QED BY <1>0, <1>2, <1>3, <2>1, Kept
<1>5. Current'
  BY <1>0, <1>2, <1>3 DEF GcInv, Current
<1> QED BY <1>0, <1>4, <1>5 DEF GcInv, Released, Reading, Served

LEMMA GetObjectInv == ASSUME NEW o \in Objects PROVE GcInv /\ GetObject(o) => GcInv'
<1> SUFFICES ASSUME GcInv, GetObject(o) PROVE GcInv'
  OBVIOUS
<1> DEFINE k  == Source(o, mount', raw')
           ok == IF o = Image THEN k # 0 ELSE Lives(k)
<1>0. /\ TypeOK /\ present /\ o \in DOMAIN handle /\ Reach(o)
      /\ UNCHANGED <<cards, in, present, handle, missed>> /\ Slot' = Slot
  BY DEF GcInv, GetObject, Slot
<1>1. /\ mount' \in Mounts /\ mount'.ins <= Slot /\ (mount'.part = "none") = (mount'.ins = 0)
      /\ mount'.ins \in {0, mount.ins, Slot}
      /\ raw' \in Insertions /\ raw' <= Slot /\ raw' \in {0, raw, Slot}
      /\ o # Image => (mount'.part = o[1] <=> mount'.ins # 0)
  BY <1>0, ReachFacts
<1>2. handle' \in Handles /\ missed' \in BOOLEAN
  BY <1>0 DEF TypeOK, Handles
<1>3. k \in {raw', mount'.ins} /\ k \in Insertions
  BY <1>1 DEF Source, Mounts
<1>4. CASE ok
  <2>1. /\ job' = [op |-> "get", at |-> 1, obj |-> o, from |-> handle[o]]
        /\ served' = {k}
    BY <1>4 DEF GetObject
  <2>2. k # 0
    BY <1>0, <1>4, SlotFacts
  <2>3. TypeOK'
    BY <1>0, <1>1, <1>2, <1>3, <2>1, <2>2, CardAssumption, Kept
  <2>4. Current'
    BY <1>0, <1>1, <1>3, <2>1, <2>2 DEF GcInv, Current
  <2>5. Reading'
    BY <1>1, <2>1, <2>2 DEF Reading, Source
  <2> QED BY <1>0, <2>1, <2>3, <2>4, <2>5 DEF GcInv, Released, Served
<1>5. CASE ~ok
  <2>1. job' = NoJob /\ served' = {}
    BY <1>5 DEF GetObject
  <2>2. TypeOK'
    BY <1>0, <1>1, <1>2, <2>1, Kept DEF NoJob
  <2>3. Current'
    BY <1>0, <1>1, <2>1 DEF GcInv, Current, NoJob
  <2> QED BY <1>0, <2>1, <2>2, <2>3 DEF GcInv, Released, Reading, Served, NoJob
<1> QED BY <1>4, <1>5

LEMMA ReadInv == GcInv /\ Read => GcInv'
<1> SUFFICES ASSUME GcInv, Read PROVE GcInv'
  OBVIOUS
<1> DEFINE o == job.obj
           k == Source(o, mount', raw')
<1>0. /\ TypeOK /\ job.op = "get" /\ Reach(o) /\ o \in Objects /\ present
      /\ UNCHANGED <<cards, in, present, handle, missed>> /\ Slot' = Slot
      /\ served \subseteq Insertions \ {0}
  BY DEF GcInv, Released, Reading, Read, Slot, TypeOK
<1>1. /\ mount' \in Mounts /\ mount'.ins <= Slot /\ (mount'.part = "none") = (mount'.ins = 0)
      /\ mount'.ins \in {0, mount.ins, Slot}
      /\ raw' \in Insertions /\ raw' <= Slot /\ raw' \in {0, raw, Slot}
  BY <1>0, ReachFacts
<1>2. handle' \in Handles /\ missed' \in BOOLEAN
  BY <1>0 DEF TypeOK, Handles
<1>3. /\ k = Source(o, mount, raw) /\ k # 0 /\ served = {k} /\ k \in Insertions
      /\ o # Image => mount'.part = o[1]
  <2>1. CASE o = Image
    BY <1>0, <2>1, ReachFacts DEF GcInv, Reading, Source
  <2>2. CASE o # Image
    BY <1>0, <2>2, ReachFacts DEF GcInv, Reading, Source
  <2> QED BY <2>1, <2>2
<1>4. served' = {k}
  BY <1>3 DEF Read
<1>5. /\ job'.op \in {"get", "done"} /\ job'.at \in 1..Chunks
      /\ job'.obj = o /\ job'.from = job.from
  BY <1>0, CardAssumption DEF Read, HasNext, TypeOK
<1>6. TypeOK'
  BY <1>0, <1>1, <1>2, <1>3, <1>4, <1>5, Kept
<1>7. Current'
  BY <1>0, <1>1, <1>3, <1>4, <1>5 DEF GcInv, Current
<1>8. Reading' /\ Served'
  BY <1>0, <1>3, <1>4, <1>5 DEF Reading, Served, Source, Insertions
<1> QED BY <1>0, <1>6, <1>7, <1>8 DEF GcInv, Released

\* A card that is put in behind the registry's back is a missed exchange; one
\* that is pulled leaves the number of the slot.
LEMMA CardInv == GcInv /\ (Pull \/ \E c \in Cards : PutIn(c)) => GcInv'
<1>1. ASSUME GcInv, Pull PROVE GcInv'
  <2>1. /\ in' = FALSE /\ UNCHANGED <<cards, present, mount, raw, handle, job, served, missed>>
        /\ Slot' = Slot
    BY <1>1 DEF Pull, cache, Slot
  <2> QED BY <1>1, <2>1 DEF GcInv, TypeOK, Released, Current, Reading, Served, Source
<1>2. ASSUME GcInv, NEW c \in Cards, PutIn(c) PROVE GcInv'
  <2>1. /\ in' = TRUE /\ cards' = Append(cards, c) /\ Len(cards) < MaxInsertions
        /\ missed' = (missed \/ present)
        /\ UNCHANGED <<present, mount, raw, handle, job, served>>
    BY <1>2 DEF PutIn, cache
  <2>2. cards' \in Seq(Cards) /\ Slot' = Slot + 1 /\ Slot' \in Insertions /\ Slot \in Nat
        /\ cards' # <<>>
    BY <1>2, <2>1, CardAssumption DEF GcInv, TypeOK, Slot, Insertions
  <2>3. TypeOK'
    BY <1>2, <2>1, <2>2 DEF GcInv, TypeOK, Slot, Insertions
  <2>4. Released' /\ Reading' /\ Served' /\ Current'
    BY <1>2, <2>1 DEF GcInv, TypeOK, Released, Reading, Served, Current, Source, Insertions
  <2> QED BY <2>3, <2>4 DEF GcInv
<1> QED BY <1>1, <1>2
-----------------------------------------------------------------------------
LEMMA GcInitial == Init => GcInv
<1> SUFFICES ASSUME Init PROVE GcInv
  OBVIOUS
<1>1. handle \in [{} -> Insertions \ {0}] /\ {} \in SUBSET Objects
  BY DEF Init, NoHandles
<1>2. TypeOK
  <2>1. cards = <<>> /\ cards \in Seq(Cards) /\ Len(cards) = 0 /\ 0 \in Insertions
    BY CardAssumption DEF Init, Insertions
  <2>2. handle \in UNION {[D -> Insertions \ {0}] : D \in SUBSET Objects}
    BY <1>1
  <2>3. /\ {in, present, missed} \subseteq BOOLEAN /\ in = FALSE /\ raw = 0 /\ served = {}
        /\ mount = [part |-> "none", ins |-> 0] /\ job.op = "idle"
    BY DEF Init, NoMount, NoJob
  <2> QED BY <2>1, <2>2, <2>3 DEF TypeOK, Slot
<1> QED BY <1>2 DEF Init, GcInv, Released, Current, Reading, Served, NoJob

LEMMA GcInductive == GcInv /\ [Next]_vars => GcInv'
<1> SUFFICES ASSUME GcInv, [Next]_vars PROVE GcInv'
  OBVIOUS
<1>1. CASE Response
  BY <1>1 DEF Response, NoJob, cache, GcInv, TypeOK, Released, Current, Reading, Served, Slot,
              Insertions
<1>2. CASE UNCHANGED vars
  BY <1>2 DEF vars, cache, GcInv, TypeOK, Released, Current, Reading, Served, Source, Slot
<1> QED
  BY <1>1, <1>2, RefreshInv, ListRootInv, ListNextInv, ListPartitionInv, GetObjectInv, ReadInv,
     CardInv
  DEF Next

LEMMA GcInvariant == Spec => []GcInv
BY GcInitial, GcInductive, PTL DEF Spec

\* The state of the store has its type: among the rest, no mount or view is of
\* an insertion that has not been.
THEOREM TypeCorrect == Spec => []TypeOK
BY GcInvariant, PTL DEF GcInv

\* A dump never mixes two cartridges: whenever cards are pulled and put in
\* between its reads, what a transfer serves is of one insertion.
THEOREM OneCardPerTransfer == Spec => []NoMixedImage
<1>1. GcInv => NoMixedImage
  <2> SUFFICES ASSUME GcInv PROVE Cardinality(served) <= 1
    BY DEF NoMixedImage
  <2>1. PICK k : served \subseteq {k}
    BY DEF GcInv, TypeOK, Reading, Served
  <2>2. served = {} \/ served = {k}
    BY <2>1
  <2>3. CASE served = {}
    BY <2>3, FS_EmptySet
  <2>4. CASE served = {k}
    <3>1. Cardinality({k}) = 1
      BY FS_Singleton
    <3> QED BY <2>4, <3>1
  <2> QED BY <2>2, <2>3, <2>4
<1> QED BY <1>1, GcInvariant, PTL

\* A handle yields the card it was listed from, unless cards were exchanged
\* between two refreshes.
THEOREM HandleStaysWithCard == Spec => []HandleOfCard
<1>1. GcInv => HandleOfCard
  BY DEF GcInv, TypeOK, Released, Current, HandleOfCard
<1> QED BY <1>1, GcInvariant, PTL

\* No mount or view of a former card is left behind a refresh.
THEOREM NoStaleMount == Spec => []CacheUsable
<1>1. GcInv => CacheUsable
  BY DEF GcInv, Current, CacheUsable
<1> QED BY <1>1, GcInvariant, PTL
=============================================================================
