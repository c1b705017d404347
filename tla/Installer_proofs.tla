--------------------------- MODULE Installer_proofs ---------------------------
(***************************************************************************)
(* Proofs about module Installer: its types, the alignment of stream and   *)
(* entry table, the integrity of what is registered, and that it           *)
(* implements module Library.  Everything but the last rests on IInv: the  *)
(* stage says how far position and cursor are (StageInv), and the          *)
(* placeholder holds the units of its entry that went by (StreamInv).      *)
(***************************************************************************)
EXTENDS Installer, TLAPS

\* What the assumptions say of one entry of one container.
LEMMA EntryFacts ==
  ASSUME NEW f \in Files, NEW i \in DOMAIN Entries(f)
  PROVE  LET x == Entries(f)[i] IN
         /\ x \in Entry /\ x.off \in Nat /\ x.size \in Nat /\ x.end \in Nat
         /\ x.prelude \in Nat /\ x.declared \in Nat /\ x.out \in Nat /\ x.kind \in EntryKinds
         /\ x.id \in ContentIds \cup {NoId}
         /\ x.kind \in ContentKinds => x.id \in ContentIds
         /\ x.kind \in CompressedKinds => x.declared > 0
         /\ x \in Range(Entries(f)) /\ i \in Nat
<1> DEFINE T == Entries(f)
           x == T[i]
<1>1. T \in Seq(Entry)
  BY TableAssumption
<1>2. x \in Entry /\ i \in Nat
  BY <1>1
<1>3. /\ x.kind \in ContentKinds => x.id \in ContentIds
      /\ x.kind \in CompressedKinds => x.declared > 0
  BY TableAssumption
<1>4. x \in Range(T)
  BY DEF Range
<1> QED
  BY <1>2, <1>3, <1>4 DEF Entry

\* An entry that lies in sequence: behind the header and what is before it.
LEMMA SequenceFacts ==
  ASSUME NEW f \in Files, NEW k \in DOMAIN Entries(f), InSequence(f, k)
  PROVE  LET x == Entries(f)[k] IN
         /\ Container[f].hdr <= x.off /\ x.end = x.off + x.size /\ x.off <= x.end
         /\ \A j \in 1 .. k - 1 : Entries(f)[j].end <= x.off
         /\ \A j \in 1 .. k : InSequence(f, j)
<1>1. k \in Nat /\ k \in 1 .. k
  <2>1. Entries(f) \in Seq(Entry)
    BY TableAssumption
  <2> QED
    BY <2>1
<1>2. /\ Container[f].hdr <= Entries(f)[k].off
      /\ Entries(f)[k].end = Entries(f)[k].off + Entries(f)[k].size
      /\ \A j \in 1 .. k - 1 : Entries(f)[j].end <= Entries(f)[k].off
  BY <1>1 DEF InSequence
<1>3. ASSUME NEW j \in 1 .. k PROVE InSequence(f, j)
  BY <1>1, <1>3 DEF InSequence
<1> QED
  BY <1>2, <1>3, EntryFacts

\* The types of what is known of a container.
LEMMA ContainerFacts ==
  ASSUME NEW f \in Files
  PROVE  /\ Container[f].title \in Titles /\ Container[f].title.app \in Apps
         /\ Container[f].len \in Nat /\ Container[f].hdr \in Nat
         /\ MagicSize \in Nat \ {0} /\ MagicSize <= Container[f].hdr
         /\ Entries(f) \in Seq(Entry) /\ f # NoFile
BY ContainerAssumption, TableAssumption DEF Titles

\* A table that build_entries accepts has a Meta NCA, with a content id.
LEMMA MetaEntryFacts ==
  ASSUME NEW f \in Files, \E x \in Range(Entries(f)) : x.kind \in MetaKinds
  PROVE  /\ MetaEntry(f) \in Range(Entries(f)) /\ MetaEntry(f).kind \in MetaKinds
         /\ MetaEntry(f).id \in ContentIds /\ MetaEntry(f).size \in Nat
<1>1. PICK j \in DOMAIN Entries(f) : Entries(f)[j].kind \in MetaKinds
  BY DEF Range
<1>2. PICK i \in DOMAIN Entries(f) :
        Entries(f)[i] = MetaEntry(f) /\ Entries(f)[i].kind \in MetaKinds
  BY <1>1, TableAssumption
<1>3. MetaEntry(f).kind \in ContentKinds
  BY <1>2 DEF MetaKinds, ContentKinds
<1> QED
  BY <1>2, <1>3, EntryFacts

-----------------------------------------------------------------------------
\* The first n units of a content, numbered from `base`.
Prefix(base, n) == [o \in 1 .. n |-> base + o - 1]

\* A prefix of a content is a sequence of units.
LEMMA PrefixType ==
  ASSUME NEW base \in Nat, NEW n \in Nat
  PROVE  Prefix(base, n) \in Seq(Nat) /\ Len(Prefix(base, n)) = n
BY DEF Prefix

\* Appending n units that follow a prefix makes the longer prefix.
LEMMA AppendPrefix ==
  ASSUME NEW base \in Nat, NEW k \in Nat, NEW n \in Nat, NEW ph \in PlaceHolders,
         ph.data = Prefix(base, k)
  PROVE  /\ WritePlaceHolder(ph, n, base + k).data = Prefix(base, k + n)
         /\ WritePlaceHolder(ph, n, base + k).id = ph.id
         /\ WritePlaceHolder(ph, n, base + k) \in PlaceHolders
<1> DEFINE new == [o \in 1 .. (Len(ph.data) + n) |->
                      IF o <= Len(ph.data) THEN ph.data[o]
                      ELSE base + k + (o - Len(ph.data)) - 1]
<1>1. WritePlaceHolder(ph, n, base + k) = [ph EXCEPT !.data = new]
  BY DEF WritePlaceHolder
<1>2. Len(ph.data) = k
  BY PrefixType
<1>3. new = Prefix(base, k + n)
  BY <1>2 DEF Prefix
<1>4. Prefix(base, k + n) \in Seq(Nat)
  BY PrefixType
<1> HIDE DEF new
<1> QED
  BY <1>1, <1>3, <1>4 DEF PlaceHolders

\* Whatever is appended to a placeholder, it stays one of its content.
LEMMA WriteType ==
  ASSUME NEW ph \in PlaceHolders, NEW n \in Nat, NEW from \in Nat
  PROVE  /\ WritePlaceHolder(ph, n, from) \in PlaceHolders
         /\ WritePlaceHolder(ph, n, from).id = ph.id
<1> DEFINE new == [o \in 1 .. (Len(ph.data) + n) |->
                      IF o <= Len(ph.data) THEN ph.data[o] ELSE from + (o - Len(ph.data)) - 1]
<1>1. ph.data \in Seq(Nat) /\ Len(ph.data) \in Nat /\ Len(ph.data) + n \in Nat
  BY DEF PlaceHolders
<1>2. \A o \in 1 .. (Len(ph.data) + n) : new[o] \in Nat
  BY <1>1
<1>3. new \in Seq(Nat)
  BY <1>1, <1>2
<1> HIDE DEF new
<1>4. WritePlaceHolder(ph, n, from) = [ph EXCEPT !.data = new]
  BY DEF WritePlaceHolder, new
<1> QED
  BY <1>3, <1>4 DEF PlaceHolders

-----------------------------------------------------------------------------
\* Where in the stream each stage is, and what it has seen.
StageInv ==
  /\ ins.stage = "Magic" => ins.pos < MagicSize
  /\ ins.stage = "Header" => ins.pos <= Container[file].hdr
  /\ ins.stage \in {"Streaming", "Complete"} => \E x \in Range(E) : x.kind \in MetaKinds
  /\ ins.stage # "Streaming" => ~ins.open /\ ~be.open /\ ~ins.ncz
  /\ ~ins.ncz => ins.fed = 0
  /\ pc \in Steps => ins.stage = "Complete"

\* Which entry streams, what is open for it, and how far its decoder is.
StreamInv ==
  ins.stage = "Streaming" =>
    /\ ins.cursor \in DOMAIN E
    /\ ins.open = be.open
    /\ ins.open => e.kind \in ContentKinds /\ be.ph.id = e.id
    /\ e.kind \in CompressedKinds =>
         /\ ins.open => ins.ncz /\ ins.out > 0 /\ be.ph.data = Prefix(0, ins.out)
         /\ ins.ncz /\ ~ins.open => ins.out = 0
         /\ ins.ncz => ins.out <= e.out

\* As long as the entries lie in sequence: how far into its entry the stream is,
\* and what its placeholder or its decoder has of it.
AlignedInv ==
  ins.stage = "Streaming" /\ InSequence(file, ins.cursor) =>
    /\ ins.pos <= e.end
    /\ \A i \in 1 .. ins.cursor - 1 : E[i].end <= ins.pos
    /\ e.kind \in {"Nca", "MetaNca"} =>
         IF ins.open THEN e.off <= ins.pos /\ be.ph.data = Prefix(e.off, ins.pos - e.off)
                     ELSE ins.pos <= e.off
    /\ e.kind \in CompressedKinds =>
         IF ins.ncz THEN e.off <= ins.pos /\ ins.fed = ins.pos - e.off ELSE ins.pos <= e.off

\* The inductive invariant behind TypeOK, StreamAligned and ContentIntact.
IInv == TypeOK /\ StageInv /\ StreamInv /\ AlignedInv /\ ContentIntact

\* A blank installer and a blank backend are of their types.
LEMMA BlankType == BlankIns \in Instances /\ BlankBe \in Backends
BY DEF BlankIns, BlankBe, Instances, Backends, PlaceHolders, NoPlaceHolder, Stages

\* An installer that is past Idle belongs to a running transfer.
LEMMA ActiveFacts ==
  ASSUME TypeOK, ins.stage # "Idle"
  PROVE  active /\ file \in Files
BY DEF TypeOK, BlankIns

\* The invariant holds before the first transfer.
LEMMA InitInv == Init => IInv
<1> SUFFICES ASSUME Init PROVE IInv
  OBVIOUS
<1> USE DEF Init
<1>1. TypeOK
  BY BlankType, ContainerAssumption DEF TypeOK
<1>2. StageInv /\ StreamInv /\ AlignedInv
  BY DEF StageInv, StreamInv, AlignedInv, BlankIns, BlankBe, Steps
<1>3. ContentIntact
  BY DEF ContentIntact
<1> QED
  BY <1>1, <1>2, <1>3 DEF IInv

\* Whatever fails, and whenever, leaves the invariant behind.
LEMMA FailInv ==
  ASSUME IInv, NEW cs, DOMAIN cs \subseteq DOMAIN content, \A i \in DOMAIN cs : cs[i] = content[i],
         FailWith(cs), records' \in [Apps -> SUBSET Titles]
  PROVE  IInv'
<1> USE DEF FailWith, RollbackInto, Teardown
<1>1. /\ DOMAIN content' \subseteq DOMAIN content
      /\ \A i \in DOMAIN content' : content'[i] = content[i]
  BY DEF Without
<1>2. TypeOK'
  BY <1>1, BlankType, ContainerAssumption DEF IInv, TypeOK
<1>3. StageInv' /\ StreamInv' /\ AlignedInv'
  BY DEF StageInv, StreamInv, AlignedInv, BlankIns, BlankBe, Steps
<1>4. ContentIntact'
  BY <1>1 DEF IInv, ContentIntact
<1> QED
  BY <1>2, <1>3, <1>4 DEF IInv

\* A turn of the feed loop changes only the installer, the backend, what is
\* left of the chunk and, when a content is complete, the content storage.
LEMMA ConsumeType ==
  ASSUME TypeOK, active, NEW n \in Nat, n <= rest, NEW i, Consume(n, i),
         ins' \in Instances, be' \in Backends,
         DOMAIN content' \in SUBSET ContentIds,
         \A c \in DOMAIN content' : content'[c] \in Registered
  PROVE  TypeOK'
BY DEF TypeOK, Consume

\* What Consume makes of the fields of the installer it is given.
LEMMA Moved ==
  ASSUME NEW i \in Instances, NEW p \in Nat
  PROVE  LET m == [i EXCEPT !.pos = p] IN
         /\ m \in Instances /\ m.pos = p /\ m.stage = i.stage /\ m.cursor = i.cursor
         /\ m.open = i.open /\ m.ncz = i.ncz /\ m.out = i.out /\ m.fed = i.fed
BY DEF Instances

\* Absorbing the fixed header preserves the invariant.
LEMMA FeedMagicInv == IInv /\ FeedMagic => IInv'
<1> SUFFICES ASSUME IInv, FeedMagic PROVE IInv'
  OBVIOUS
<1> DEFINE used == MinOf(rest, MagicSize - ins.pos)
           next == [ins EXCEPT !.stage = "Header"]
<1>1. /\ TypeOK /\ pc = "feed" /\ ins.stage = "Magic" /\ ins.pos < MagicSize
      /\ active /\ file \in Files /\ ins \in Instances /\ ins.pos \in Nat /\ rest \in Nat
      /\ ~ins.open /\ ~be.open /\ ~ins.ncz /\ ins.fed = 0
  BY ActiveFacts DEF FeedMagic, Absorb, IInv, StageInv, TypeOK, Instances
<1>2. /\ MagicSize \in Nat /\ MagicSize <= Container[file].hdr /\ Container[file].hdr \in Nat
  BY <1>1, ContainerFacts
<1>3. used \in Nat /\ used <= rest /\ ins.pos + used <= MagicSize
  BY <1>1, <1>2 DEF MinOf
<1>4. CASE Fail
  BY <1>4, <1>1, FailInv DEF Fail, TypeOK
<1>5. CASE ins.pos + used < MagicSize /\ Consume(used, ins) /\ UNCHANGED <<be, content>>
  <2>1. ins' = [ins EXCEPT !.pos = ins.pos + used] /\ file' = file
    BY <1>5 DEF Consume
  <2>2. TypeOK'
    <3>1. ins' \in Instances
      BY <2>1, <1>1, <1>3 DEF Instances
    <3> QED
      BY <3>1, <1>1, <1>3, <1>5, ConsumeType DEF TypeOK
  <2>3. StageInv' /\ StreamInv' /\ AlignedInv'
    BY <2>1, <1>1, <1>5 DEF StageInv, StreamInv, AlignedInv, Instances, Consume, Steps
  <2> QED
    BY <2>2, <2>3, <1>5 DEF IInv, ContentIntact
<1>6. CASE ~(ins.pos + used < MagicSize) /\ Consume(used, next) /\ UNCHANGED <<be, content>>
  <2>1. ins' = [next EXCEPT !.pos = ins.pos + used] /\ file' = file
    BY <1>6 DEF Consume
  <2>2. TypeOK'
    <3>1. ins' \in Instances
      <4>1. next \in Instances
        BY <1>1 DEF Instances, Stages
      <4> HIDE DEF next, used
      <4> QED
        BY <4>1, <2>1, <1>1, <1>3, Moved
    <3> QED
      BY <3>1, <1>1, <1>3, <1>6, ConsumeType DEF TypeOK
  <2>3. StageInv' /\ StreamInv' /\ AlignedInv'
    BY <2>1, <1>1, <1>2, <1>3, <1>6 DEF StageInv, StreamInv, AlignedInv, Instances, Consume, Steps
  <2> QED
    BY <2>2, <2>3, <1>6 DEF IInv, ContentIntact
<1> QED
  BY <1>4, <1>5, <1>6 DEF FeedMagic, Absorb

\* Absorbing the rest of the header, and building the entry table from it,
\* preserves the invariant: streaming starts in front of the first entry.
LEMMA FeedHeaderInv == IInv /\ FeedHeader => IInv'
<1> SUFFICES ASSUME IInv, FeedHeader PROVE IInv'
  OBVIOUS
<1> DEFINE hdr  == Container[file].hdr
           used == MinOf(rest, hdr - ins.pos)
           next == [ins EXCEPT !.stage = "Streaming", !.cursor = 1,
                               !.metaSize = MetaEntry(file).size]
<1>1. /\ TypeOK /\ pc = "feed" /\ ins.stage = "Header" /\ ins.pos <= hdr
      /\ active /\ file \in Files /\ ins \in Instances /\ ins.pos \in Nat /\ rest \in Nat
      /\ ~ins.open /\ ~be.open /\ ~ins.ncz /\ ins.fed = 0
  BY ActiveFacts DEF FeedHeader, Absorb, IInv, StageInv, TypeOK, Instances
<1>2. /\ hdr \in Nat /\ E \in Seq(Entry)
  BY <1>1, ContainerFacts DEF E
<1>3. used \in Nat /\ used <= rest /\ ins.pos + used <= hdr
  BY <1>1, <1>2 DEF MinOf
<1>4. CASE Fail
  BY <1>4, <1>1, FailInv DEF Fail, TypeOK
<1>5. CASE ins.pos + used < hdr /\ Consume(used, ins) /\ UNCHANGED <<be, content>>
  <2>1. ins' = [ins EXCEPT !.pos = ins.pos + used] /\ file' = file
    BY <1>5 DEF Consume
  <2> HIDE DEF used
  <2>2. /\ ins' \in Instances /\ ins'.pos = ins.pos + used /\ ins'.stage = "Header"
        /\ ins'.open = ins.open /\ ins'.ncz = ins.ncz /\ ins'.fed = ins.fed
    BY <2>1, <1>1, <1>3, Moved
  <2>3. TypeOK'
    BY <2>2, <1>1, <1>3, <1>5, ConsumeType DEF TypeOK
  <2>4. StageInv' /\ StreamInv' /\ AlignedInv'
    BY <2>1, <2>2, <1>1, <1>2, <1>3, <1>5 DEF StageInv, StreamInv, AlignedInv, Consume, Steps
  <2> QED
    BY <2>3, <2>4, <1>5 DEF IInv, ContentIntact
<1>6. CASE /\ ~(ins.pos + used < hdr) /\ ~(\A x \in Range(E) : x.kind \notin MetaKinds)
           /\ Consume(used, next) /\ UNCHANGED <<be, content>>
  <2>1. ins' = [next EXCEPT !.pos = ins.pos + used] /\ file' = file
    BY <1>6 DEF Consume
  <2>2. ins.pos + used = hdr
    BY <1>6, <1>1, <1>2, <1>3
  <2>3. PICK x \in Range(E) : x.kind \in MetaKinds
    BY <1>6
  <2>4. /\ next \in Instances /\ next.stage = "Streaming" /\ next.cursor = 1
        /\ next.open = ins.open /\ next.ncz = ins.ncz /\ next.out = ins.out
        /\ next.fed = ins.fed
    <3>1. MetaEntry(file).size \in Nat
      BY <2>3, <1>1, MetaEntryFacts DEF E
    <3> QED
      BY <3>1, <1>1 DEF Instances, Stages
  <2> HIDE DEF next, used
  <2>5. /\ ins' \in Instances /\ ins'.pos = hdr /\ ins'.stage = "Streaming"
        /\ ins'.cursor = 1 /\ ~ins'.open /\ ~ins'.ncz /\ ins'.fed = 0
    BY <2>1, <2>2, <2>4, <1>1, <1>2, Moved
  <2>6. TypeOK'
    BY <2>5, <1>1, <1>3, <1>6, ConsumeType DEF TypeOK
  <2>7. 1 \in DOMAIN E /\ E' = E
    BY <2>1, <2>3, <1>2 DEF E, Range
  <2>8. /\ E[1].off \in Nat /\ E[1].end \in Nat
        /\ InSequence(file, 1) => hdr <= E[1].off /\ E[1].off <= E[1].end
    BY <2>7, <1>1, EntryFacts, SequenceFacts DEF E
  <2>9. StageInv'
    BY <2>1, <2>3, <2>5, <2>7, <1>1, <1>6 DEF StageInv, Consume, Steps
  <2>10. e' = E[1]
    BY <2>5, <2>7 DEF e
  <2>11. StreamInv'
    <3>1. be'.open = ins'.open
      BY <2>5, <1>1, <1>6 DEF TypeOK, Backends, Instances
    <3> QED
      BY <2>5, <2>7, <2>10, <3>1 DEF StreamInv
  <2>12. AlignedInv'
    <3>1. InSequence(file, 1) => ins'.pos <= E[1].off /\ ins'.pos <= E[1].end
      BY <2>5, <2>8, <1>2
    <3> QED
      BY <2>1, <2>5, <2>7, <2>10, <3>1 DEF AlignedInv
  <2> QED
    BY <2>6, <2>9, <2>11, <2>12, <1>6 DEF IInv, ContentIntact
<1> QED
  BY <1>4, <1>5, <1>6 DEF FeedHeader, Absorb

-----------------------------------------------------------------------------
\* The entry being streamed.
LEMMA StreamingFacts ==
  ASSUME IInv, ins.stage = "Streaming"
  PROVE  /\ TypeOK /\ active /\ file \in Files /\ ins \in Instances /\ be \in Backends
         /\ ins.pos \in Nat /\ rest \in Nat /\ ins.out \in Nat /\ ins.cursor \in Nat
         /\ ins.open \in BOOLEAN /\ ins.ncz \in BOOLEAN /\ be.open \in BOOLEAN
         /\ ins.fed \in Nat /\ E \in Seq(Entry) /\ ins.cursor \in DOMAIN E
         /\ e.off \in Nat /\ e.size \in Nat /\ e.declared \in Nat /\ e.out \in Nat
         /\ e.prelude \in Nat
         /\ e.kind \in EntryKinds /\ e.end \in Nat
         /\ e.kind \in ContentKinds => e.id \in ContentIds
         /\ e.kind \in CompressedKinds => e.declared > 0
         /\ e \in Range(E)
<1>1. /\ TypeOK /\ active /\ file \in Files /\ ins \in Instances /\ be \in Backends
      /\ ins.pos \in Nat /\ rest \in Nat /\ ins.out \in Nat /\ ins.cursor \in Nat
      /\ ins.open \in BOOLEAN /\ ins.ncz \in BOOLEAN /\ be.open \in BOOLEAN
      /\ ins.fed \in Nat
  BY ActiveFacts DEF IInv, TypeOK, Instances, Backends
<1>2. ins.cursor \in DOMAIN E
  BY DEF IInv, StreamInv
<1>3. E \in Seq(Entry)
  BY <1>1, ContainerFacts DEF E
<1> QED
  BY <1>1, <1>2, <1>3, EntryFacts DEF E, e

\* What the cursor has passed ends where the stream has come to, as long as the
\* entries lie in sequence.
LEMMA PassedFacts ==
  ASSUME IInv, ins.stage = "Streaming", InSequence(file, ins.cursor)
  PROVE  \A k \in 1 .. ins.cursor - 1 : E[k].end <= ins.pos /\ E[k].end \in Nat
<1>1. file \in Files /\ ins.cursor \in Nat /\ ins.cursor \in DOMAIN E /\ E \in Seq(Entry)
  BY StreamingFacts
<1>2. \A k \in 1 .. ins.cursor - 1 : E[k].end <= ins.pos
  BY DEF IInv, AlignedInv
<1>3. \A k \in 1 .. ins.cursor - 1 : k \in DOMAIN E
  BY <1>1
<1>4. \A k \in DOMAIN E : E[k].end \in Nat
  BY <1>1, EntryFacts DEF E
<1> QED
  BY <1>2, <1>3, <1>4

\* A turn that stays in its entry, and not past its end, keeps stream and table
\* aligned.
LEMMA Staying ==
  ASSUME IInv, ins.stage = "Streaming", file' = file, ins'.cursor = ins.cursor,
         ins'.pos \in Nat, ins.pos <= ins'.pos,
         InSequence(file, ins.cursor) =>
           /\ ins'.pos <= e.end
           /\ e.kind \in {"Nca", "MetaNca"} =>
                IF ins'.open
                  THEN e.off <= ins'.pos /\ be'.ph.data = Prefix(e.off, ins'.pos - e.off)
                  ELSE ins'.pos <= e.off
           /\ e.kind \in CompressedKinds =>
                IF ins'.ncz THEN e.off <= ins'.pos /\ ins'.fed = ins'.pos - e.off
                            ELSE ins'.pos <= e.off
  PROVE  AlignedInv'
<1>1. E' = E /\ e' = e
  BY DEF E, e
<1>2. InSequence(file, ins.cursor) => \A k \in 1 .. ins.cursor - 1 : E[k].end <= ins'.pos
  <2> SUFFICES ASSUME InSequence(file, ins.cursor), NEW k \in 1 .. ins.cursor - 1
               PROVE  E[k].end <= ins'.pos
    OBVIOUS
  <2>1. E[k].end <= ins.pos /\ E[k].end \in Nat /\ ins.pos \in Nat
    BY PassedFacts, StreamingFacts
  <2> QED
    BY <2>1
<1> QED
  BY <1>1, <1>2 DEF AlignedInv

\* Skipping padding stops at the entry behind it.
LEMMA FeedGapInv == IInv /\ FeedGap => IInv'
<1> SUFFICES ASSUME IInv, FeedGap PROVE IInv'
  OBVIOUS
<1> DEFINE n == MinOf(rest, e.off - ins.pos)
<1>1. pc = "feed" /\ ins.stage = "Streaming" /\ ins.pos < e.off
      /\ Consume(n, ins) /\ UNCHANGED <<be, content>>
  BY DEF FeedGap
<1>2. /\ n \in Nat /\ n <= rest /\ ins.pos + n \in Nat /\ ins.pos + n <= e.off
      /\ ins \in Instances
  BY <1>1, StreamingFacts DEF MinOf
<1>3. ins' = [ins EXCEPT !.pos = ins.pos + n] /\ file' = file
  BY <1>1 DEF Consume
<1> HIDE DEF n
<1>4. /\ ins' \in Instances /\ ins'.pos = ins.pos + n /\ ins'.stage = ins.stage
      /\ ins'.cursor = ins.cursor /\ ins'.open = ins.open /\ ins'.ncz = ins.ncz
      /\ ins'.out = ins.out /\ ins'.fed = ins.fed
  BY <1>2, <1>3, Moved
<1>5. TypeOK'
  BY <1>1, <1>2, <1>4, StreamingFacts, ConsumeType DEF TypeOK
<1>6. E' = E /\ e' = e
  BY <1>3, <1>4 DEF E, e
<1>7. StageInv'
  BY <1>1, <1>3, <1>4, <1>6 DEF IInv, StageInv, Consume, Steps
<1>8. StreamInv'
  BY <1>1, <1>4, <1>6 DEF IInv, StreamInv
<1>9. AlignedInv'
  <2>1. /\ ins.pos \in Nat /\ ins.pos <= ins'.pos /\ ins'.pos <= e.off
        /\ e.off \in Nat /\ e.end \in Nat
    BY <1>1, <1>2, <1>4, StreamingFacts
  <2>2. ASSUME InSequence(file, ins.cursor)
        PROVE  /\ e.off <= e.end
               /\ e.kind \in {"Nca", "MetaNca"} => ~ins.open
               /\ e.kind \in CompressedKinds => ~ins.ncz
    <3>1. e.off <= e.end
      BY <1>1, <2>2, StreamingFacts, SequenceFacts DEF E, e
    <3> QED
      BY <1>1, <2>1, <2>2, <3>1 DEF IInv, AlignedInv
  <2> QED
    BY <1>1, <1>2, <1>3, <1>4, <2>1, <2>2, Staying
<1> QED
  BY <1>1, <1>5, <1>7, <1>8, <1>9 DEF IInv, ContentIntact

\* Padding behind the last entry disturbs nothing.
LEMMA FeedTrailingInv == IInv /\ FeedTrailing => IInv'
<1> SUFFICES ASSUME IInv, FeedTrailing PROVE IInv'
  OBVIOUS
<1>1. /\ pc = "feed" /\ ins.stage = "Complete" /\ Consume(rest, ins)
      /\ UNCHANGED <<be, content>>
  BY DEF FeedTrailing
<1>2. TypeOK /\ active /\ ins \in Instances /\ rest \in Nat /\ ins.pos + rest \in Nat
  BY <1>1, ActiveFacts DEF IInv, TypeOK, Instances
<1>3. ins' = [ins EXCEPT !.pos = ins.pos + rest] /\ file' = file
  BY <1>1 DEF Consume
<1>4. /\ ins' \in Instances /\ ins'.stage = "Complete" /\ ins'.open = ins.open
      /\ ins'.ncz = ins.ncz /\ ins'.fed = ins.fed
  BY <1>1, <1>2, <1>3, Moved
<1>5. TypeOK'
  BY <1>1, <1>2, <1>4, ConsumeType DEF TypeOK
<1>6. StageInv' /\ StreamInv' /\ AlignedInv'
  BY <1>1, <1>3, <1>4 DEF IInv, StageInv, StreamInv, AlignedInv, E
<1> QED
  BY <1>1, <1>5, <1>6 DEF IInv, ContentIntact

\* A turn inside an entry takes no more than the chunk and the entry hold.
LEMMA TakeFacts ==
  ASSUME IInv, NEW kinds, InEntry(kinds)
  PROVE  /\ Take \in Nat /\ Take <= rest /\ ins.pos + Take \in Nat /\ ins.pos <= ins.pos + Take
         /\ e.off <= ins.pos
<1>1. ins.stage = "Streaming" /\ ins.pos >= e.off
  BY DEF InEntry
<1>2. ins.pos \in Nat /\ rest \in Nat /\ e.end \in Nat /\ e.off \in Nat
  BY <1>1, StreamingFacts
<1>3. Take \in Nat /\ Take <= rest
  BY <1>2 DEF Take, MinOf
<1> QED
  BY <1>1, <1>2, <1>3

\* In an entry that lies in sequence it ends with the entry at the latest.
LEMMA AlignedTake ==
  ASSUME IInv, NEW kinds, InEntry(kinds), InSequence(file, ins.cursor)
  PROVE  /\ ins.pos + Take <= e.end /\ (Finished <=> ins.pos + Take = e.end)
         /\ e.end = e.off + e.size /\ e.off <= e.end
         /\ \A j \in 1 .. ins.cursor : E[j].end <= e.end /\ InSequence(file, j)
<1>1. ins.stage = "Streaming"
  BY DEF InEntry
<1>2. /\ ins.pos \in Nat /\ rest \in Nat /\ e.end \in Nat /\ file \in Files /\ ins.cursor \in Nat
      /\ ins.cursor \in DOMAIN E /\ e.off \in Nat
  BY <1>1, StreamingFacts
<1>3. ins.pos <= e.end
  BY <1>1 DEF IInv, AlignedInv
<1>4. Take <= e.end - ins.pos /\ Take \in Nat
  BY <1>2, <1>3 DEF Take, MinOf
<1>5. /\ e.end = e.off + e.size /\ e.off <= e.end
      /\ \A j \in 1 .. ins.cursor : InSequence(file, j)
  BY <1>2, SequenceFacts DEF E, e
<1>6. \A j \in 1 .. ins.cursor : E[j].end <= e.end
  <2>1. \A j \in 1 .. ins.cursor - 1 : E[j].end <= ins.pos /\ E[j].end \in Nat
    BY <1>1, PassedFacts
  <2> QED
    BY <2>1, <1>2, <1>3 DEF e
<1>7. ins.pos + Take <= e.end /\ (Finished <=> ins.pos + Take = e.end)
  BY <1>2, <1>3, <1>4 DEF Finished
<1> QED
  BY <1>5, <1>6, <1>7

\* Behind an entry: the next one starts fresh, or the stream is complete.
LEMMA EntryDone ==
  ASSUME IInv, NEW kinds, InEntry(kinds), Finished, NEW i \in Instances,
         i.cursor = ins.cursor, Consume(Take, Advanced(i)),
         be'.open = FALSE
  PROVE  ins' \in Instances /\ StageInv' /\ StreamInv' /\ AlignedInv'
<1> DEFINE last == ins.cursor = Len(E)
           stage == IF last THEN "Complete" ELSE "Streaming"
           next == [i EXCEPT !.cursor = @ + 1, !.open = FALSE, !.ncz = FALSE, !.fed = 0,
                             !.stage = stage]
<1>1. pc = "feed" /\ ins.stage = "Streaming" /\ e.off <= ins.pos
  BY TakeFacts DEF InEntry
<1>2. /\ file' = file /\ ins' = [next EXCEPT !.pos = ins.pos + Take]
      /\ pc' \in {"idle", "feed"}
  BY DEF Consume, Advanced
<1>3. /\ next \in Instances /\ next.cursor = ins.cursor + 1 /\ ~next.open /\ ~next.ncz
      /\ next.open = FALSE /\ next.stage = stage /\ next.fed = 0
  <2>1. i.cursor + 1 \in Nat /\ stage \in Stages
    BY <1>1, StreamingFacts DEF Stages
  <2> HIDE DEF stage, last
  <2> QED
    BY <2>1 DEF Instances
<1> HIDE DEF next
<1>4. /\ ins' \in Instances /\ ins'.cursor = ins.cursor + 1 /\ ~ins'.open /\ ~ins'.ncz
      /\ ins'.open = FALSE /\ ins'.fed = 0
      /\ ins'.pos = ins.pos + Take /\ ins'.stage = stage
  BY <1>2, <1>3, TakeFacts, Moved
<1>5. E' = E
  BY <1>2 DEF E
<1>6. StageInv'
  BY <1>1, <1>2, <1>4, <1>5 DEF IInv, StageInv, Steps
<1>7. CASE last
  <2>1. ins'.stage = "Complete"
    BY <1>4, <1>7
  <2> QED
    BY <1>4, <1>6, <2>1 DEF StreamInv, AlignedInv
<1>8. CASE ~last
  <2>1. /\ ins.cursor + 1 \in DOMAIN E /\ e' = E[ins.cursor + 1] /\ ins'.cursor = ins.cursor + 1
        /\ ins.cursor \in Nat /\ file \in Files
    BY <1>1, <1>4, <1>5, <1>8, StreamingFacts DEF E, e
  <2>2. StreamInv'
    <3>1. ins'.open = be'.open
      BY <1>4
    <3> HIDE DEF last, stage
    <3> QED
      BY <1>4, <1>5, <2>1, <3>1 DEF StreamInv
  <2>3. ASSUME InSequence(file, ins.cursor + 1)
        PROVE  /\ ins'.pos <= E[ins.cursor + 1].off /\ ins'.pos <= E[ins.cursor + 1].end
               /\ \A k \in 1 .. ins.cursor : E[k].end <= ins'.pos
    <3> DEFINE second == ins.cursor + 1
    <3>0. second \in DOMAIN Entries(file) /\ ins.cursor \in 1 .. second /\ ins.cursor \in 1 .. second - 1
      <4>1. second \in DOMAIN Entries(file)
        BY <2>1 DEF E
      <4>2. ins.cursor \in Nat \ {0}
        BY <1>1, StreamingFacts, EntryFacts
      <4>3. ins.cursor \in 1 .. second /\ ins.cursor \in 1 .. second - 1
        BY <4>2
      <4> QED
        BY <4>1, <4>3
    <3>1. /\ InSequence(file, ins.cursor) /\ e.end <= E[second].off
          /\ E[second].off <= E[second].end
      <4> HIDE DEF second
      <4>1. InSequence(file, second)
        BY <2>3 DEF second
      <4> QED
        BY <2>1, <3>0, <4>1, SequenceFacts DEF E, e
    <3>2. ins'.pos = e.end
      BY <1>4, <3>1, AlignedTake
    <3>3. \A k \in 1 .. ins.cursor : E[k].end <= e.end
      BY <3>1, AlignedTake
    <3>4. E[ins.cursor + 1].off \in Nat /\ E[ins.cursor + 1].end \in Nat /\ e.end \in Nat
      BY <1>1, <2>1, StreamingFacts, EntryFacts DEF E
    <3> QED
      BY <3>1, <3>2, <3>3, <3>4
  <2>4. AlignedInv'
    <3> HIDE DEF last, stage
    <3> QED
      BY <1>2, <1>4, <1>5, <2>1, <2>3 DEF AlignedInv
  <2> QED
    BY <1>4, <1>6, <2>2, <2>4
<1> QED
  BY <1>4, <1>6, <1>7, <1>8

\* A ticket or a certificate disturbs no content.
LEMMA FeedBlobInv == IInv /\ FeedBlob => IInv'
<1> SUFFICES ASSUME IInv, FeedBlob PROVE IInv'
  OBVIOUS
<1> DEFINE kinds == {"Ticket", "Cert"}
<1>1. InEntry(kinds) /\ ins.stage = "Streaming" /\ e.kind \in kinds /\ pc = "feed"
  BY DEF FeedBlob, InEntry
<1>2. ins.tik \in Nat /\ ins.cert \in Nat
  BY <1>1, StreamingFacts DEF Instances
<1>3. Take \in Nat /\ Take <= rest /\ ins.pos + Take \in Nat /\ ins.pos <= ins.pos + Take
  BY <1>1, TakeFacts
<1>4. /\ ~ins.open /\ ~be.open
      /\ e.kind \notin {"Nca", "MetaNca"} /\ e.kind \notin CompressedKinds
  BY <1>1, StreamingFacts DEF IInv, StreamInv, ContentKinds, CompressedKinds
<1>5. CASE Fail
  BY <1>5, <1>1, StreamingFacts, FailInv DEF Fail, TypeOK
<1>6. ASSUME NEW i \in Instances, i.cursor = ins.cursor, i.stage = ins.stage,
             i.open = ins.open, i.ncz = ins.ncz, i.out = ins.out, i.fed = ins.fed,
             Consume(Take, Advanced(i)), UNCHANGED <<be, content>>
      PROVE  IInv'
  <2>1. ins' \in Instances /\ StageInv' /\ StreamInv' /\ AlignedInv'
    <3>1. CASE Finished
      BY <3>1, <1>1, <1>4, <1>6, StreamingFacts, EntryDone
    <3>2. CASE ~Finished
      <4>1. ins' = [i EXCEPT !.pos = ins.pos + Take] /\ file' = file
            /\ pc' \in {"idle", "feed"}
        BY <1>6, <3>2 DEF Consume, Advanced
      <4>2. /\ ins' \in Instances /\ ins'.pos = ins.pos + Take /\ ins'.stage = ins.stage
            /\ ins'.cursor = ins.cursor /\ ins'.open = ins.open /\ ins'.ncz = ins.ncz
            /\ ins'.out = ins.out /\ ins'.fed = ins.fed
        BY <4>1, <1>3, <1>6, Moved
      <4>3. E' = E /\ e' = e
        BY <4>1, <4>2 DEF E, e
      <4>4. AlignedInv'
        <5>1. InSequence(file, ins.cursor) => ins'.pos <= e.end
          BY <1>1, <4>2, AlignedTake
        <5> QED
          BY <5>1, <1>1, <1>3, <1>4, <4>1, <4>2, Staying
      <4>5. StageInv'
        BY <1>1, <1>6, <4>1, <4>2, <4>3 DEF IInv, StageInv, Steps
      <4>6. StreamInv'
        BY <1>1, <1>4, <1>6, <4>2, <4>3, StreamingFacts DEF StreamInv, IInv
      <4> QED
        BY <4>2, <4>4, <4>5, <4>6
    <3> QED
      BY <3>1, <3>2
  <2>2. TypeOK'
    BY <1>1, <1>3, <1>6, <2>1, StreamingFacts, ConsumeType DEF TypeOK
  <2> QED
    BY <1>6, <2>1, <2>2 DEF IInv, ContentIntact
<1>7. CASE ~Fail
  <2> DEFINE i == IF e.kind = "Ticket" THEN [ins EXCEPT !.tik = @ + Take]
                                       ELSE [ins EXCEPT !.cert = @ + Take]
  <2>1. Consume(Take, Advanced(i)) /\ UNCHANGED <<be, content>>
    BY <1>7 DEF FeedBlob
  <2>2. /\ i \in Instances /\ i.cursor = ins.cursor /\ i.stage = ins.stage
        /\ i.open = ins.open /\ i.ncz = ins.ncz /\ i.out = ins.out /\ i.fed = ins.fed
    <3>1. ins \in Instances
      BY <1>1, StreamingFacts
    <3> HIDE DEF kinds
    <3>2. CASE e.kind = "Ticket"
      BY <1>2, <1>3, <3>1, <3>2 DEF Instances
    <3>3. CASE e.kind # "Ticket"
      BY <1>2, <1>3, <3>1, <3>3 DEF Instances
    <3> QED
      BY <3>2, <3>3
  <2> HIDE DEF i
  <2> QED
    BY <1>6, <2>1, <2>2
<1> QED
  BY <1>5, <1>7

-----------------------------------------------------------------------------
\* Registering a placeholder that, should its entry lie in sequence, holds all
\* of it.
LEMMA RegisterInv ==
  ASSUME IInv, ins.stage = "Streaming", e.kind \in ContentKinds,
         NEW ph \in PlaceHolders, ph.id = e.id, Register(ph),
         InSequence(file, ins.cursor) => ph.data = Image(e)
  PROVE  /\ be' \in Backends /\ be'.open = FALSE
         /\ DOMAIN content' \in SUBSET ContentIds
         /\ \A c \in DOMAIN content' : content'[c] \in Registered
         /\ ContentIntact'
<1>1. /\ TypeOK /\ file \in Files /\ be \in Backends /\ e.id \in ContentIds
      /\ ins.cursor \in DOMAIN Entries(file) /\ e = Entries(file)[ins.cursor]
  BY StreamingFacts DEF E, e
<1>2. be' \in Backends /\ be'.open = FALSE
  <2>1. NoPlaceHolder \in PlaceHolders
    BY DEF NoPlaceHolder, PlaceHolders
  <2>2. be.registered \cup {ph.id} \in SUBSET ContentIds
    BY <1>1 DEF Backends
  <2> HIDE DEF NoPlaceHolder
  <2> QED
    BY <1>1, <2>1, <2>2 DEF Register, Backends
<1>3. /\ DOMAIN content' = DOMAIN content \cup {e.id}
      /\ content'[e.id] = [from |-> file, data |-> ph.data]
      /\ \A c \in DOMAIN content \ {e.id} : content'[c] = content[c]
  BY DEF Register
<1>4. [from |-> file, data |-> ph.data] \in Registered
  BY <1>1 DEF Registered, PlaceHolders
<1>5. /\ DOMAIN content' \in SUBSET ContentIds
      /\ \A c \in DOMAIN content' : content'[c] \in Registered
  BY <1>1, <1>3, <1>4 DEF TypeOK
<1>6. ContentIntact'
  <2> SUFFICES ASSUME NEW c \in DOMAIN content'
               PROVE  LET f == content'[c].from IN
                      \E k \in DOMAIN Entries(f) :
                        /\ Entries(f)[k].id = c /\ Entries(f)[k].kind \in ContentKinds
                        /\ InSequence(f, k) => content'[c].data = Image(Entries(f)[k])
    BY DEF ContentIntact
  <2>1. CASE c = e.id
    <3>1. content'[c].from = file /\ content'[c].data = ph.data
      BY <2>1, <1>3
    <3>2. /\ Entries(file)[ins.cursor].id = c /\ Entries(file)[ins.cursor].kind \in ContentKinds
          /\ InSequence(file, ins.cursor) => ph.data = Image(Entries(file)[ins.cursor])
      BY <1>1, <2>1
    <3> QED
      BY <1>1, <3>1, <3>2
  <2>2. CASE c # e.id
    <3>1. c \in DOMAIN content /\ content'[c] = content[c]
      BY <2>2, <1>3
    <3> QED
      BY <3>1 DEF IInv, ContentIntact
  <2> QED
    BY <2>1, <2>2
<1> QED
  BY <1>2, <1>5, <1>6

\* A placeholder that stays open.
LEMMA HoldType ==
  ASSUME be \in Backends, NEW ph \in PlaceHolders, Hold(ph)
  PROVE  be' \in Backends /\ be'.open = TRUE /\ be'.ph = ph /\ content' = content
BY DEF Hold, Backends

\* A turn inside a plain NCA appends the next units of it to its placeholder,
\* and registers the placeholder only when the entry is through.
LEMMA FeedNcaInv == IInv /\ FeedNca => IInv'
<1> SUFFICES ASSUME IInv, FeedNca PROVE IInv'
  OBVIOUS
<1> DEFINE kinds == {"Nca", "MetaNca"}
           ph    == WritePlaceHolder(Placeholder, Take, ins.pos)
           next  == [ins EXCEPT !.open = TRUE]
<1>1. /\ InEntry(kinds) /\ ins.stage = "Streaming" /\ e.kind \in kinds /\ pc = "feed"
      /\ e.kind \in ContentKinds /\ e.kind \notin CompressedKinds
  BY DEF FeedNca, InEntry, ContentKinds, CompressedKinds
<1>2. /\ Take \in Nat /\ Take <= rest /\ ins.pos + Take \in Nat /\ ins.pos <= ins.pos + Take
      /\ e.off <= ins.pos
  BY <1>1, TakeFacts
<1>3. /\ TypeOK /\ active /\ file \in Files /\ ins \in Instances /\ be \in Backends
      /\ ins.pos \in Nat /\ e.off \in Nat /\ e.size \in Nat /\ e.id \in ContentIds
  BY <1>1, StreamingFacts
<1>4. /\ Placeholder \in PlaceHolders /\ Placeholder.id = e.id
      /\ InSequence(file, ins.cursor) => Placeholder.data = Prefix(e.off, ins.pos - e.off)
  <2>1. CASE ins.open
    BY <2>1, <1>1, <1>3 DEF Placeholder, IInv, StreamInv, AlignedInv, Backends
  <2>2. CASE ~ins.open
    <3>1. InSequence(file, ins.cursor) => ins.pos - e.off = 0
      BY <2>2, <1>1, <1>2, <1>3 DEF IInv, AlignedInv
    <3>2. Prefix(e.off, 0) = <<>> /\ <<>> \in Seq(Nat)
      BY <1>3 DEF Prefix
    <3>3. Placeholder = [id |-> e.id, data |-> <<>>]
      BY <2>2 DEF Placeholder, NoPlaceHolder
    <3> QED
      BY <3>1, <3>2, <3>3, <1>3 DEF PlaceHolders
  <2> QED
    BY <2>1, <2>2
<1>5. /\ ph \in PlaceHolders /\ ph.id = e.id
      /\ InSequence(file, ins.cursor) => ph.data = Prefix(e.off, ins.pos + Take - e.off)
  <2> DEFINE k == ins.pos - e.off
  <2>0. ph \in PlaceHolders /\ ph.id = e.id
    BY <1>2, <1>3, <1>4, WriteType
  <2> SUFFICES ASSUME InSequence(file, ins.cursor)
               PROVE  ph.data = Prefix(e.off, ins.pos + Take - e.off)
    BY <2>0
  <2>1. /\ k \in Nat /\ e.off + k = ins.pos /\ k + Take = ins.pos + Take - e.off
        /\ Placeholder.data = Prefix(e.off, k)
    BY <1>2, <1>3, <1>4
  <2>2. e.off \in Nat /\ Take \in Nat /\ Placeholder \in PlaceHolders
    BY <1>2, <1>3, <1>4
  <2> HIDE DEF k
  <2>3. WritePlaceHolder(Placeholder, Take, e.off + k).data = Prefix(e.off, k + Take)
    BY <2>1, <2>2, AppendPrefix
  <2> QED
    BY <2>1, <2>3
<1>6. /\ next \in Instances /\ next.cursor = ins.cursor /\ next.stage = ins.stage
      /\ next.open = TRUE /\ next.ncz = ins.ncz /\ next.out = ins.out /\ next.fed = ins.fed
  BY <1>3 DEF Instances
<1> HIDE DEF ph, next
<1>7. CASE Fail
  BY <1>7, <1>3, FailInv DEF Fail, TypeOK
<1>8. CASE FailWith(Without(content, {e.id})) /\ UNCHANGED records
  <2> DEFINE cs == Without(content, {e.id})
  <2>1. DOMAIN cs \subseteq DOMAIN content /\ \A c \in DOMAIN cs : cs[c] = content[c]
    BY DEF Without
  <2> HIDE DEF cs
  <2> QED
    BY <1>8, <2>1, <1>3, FailInv DEF TypeOK, cs
<1>9. CASE Consume(Take, Advanced(next)) /\ Finished /\ Register(ph)
  <2>1. ASSUME InSequence(file, ins.cursor) PROVE ph.data = Image(e)
    <3>1. ins.pos + Take - e.off = e.size
      <4>1. ins.pos + Take = e.off + e.size
        BY <1>1, <1>9, <2>1, AlignedTake
      <4> QED
        BY <4>1, <1>2, <1>3
    <3> QED
      BY <2>1, <3>1, <1>1, <1>5 DEF Image, Prefix
  <2>2. /\ be' \in Backends /\ be'.open = FALSE
        /\ DOMAIN content' \in SUBSET ContentIds
        /\ \A c \in DOMAIN content' : content'[c] \in Registered
        /\ ContentIntact'
    BY <1>1, <1>5, <1>9, <2>1, RegisterInv
  <2>3. ins' \in Instances /\ StageInv' /\ StreamInv' /\ AlignedInv'
    BY <1>1, <1>6, <1>9, <2>2, EntryDone
  <2>4. TypeOK'
    BY <1>2, <1>3, <1>9, <2>2, <2>3, ConsumeType
  <2> QED
    BY <2>2, <2>3, <2>4 DEF IInv
<1>10. CASE Consume(Take, Advanced(next)) /\ ~Finished /\ Hold(ph)
  <2>1. be' \in Backends /\ be'.open = TRUE /\ be'.ph = ph /\ content' = content
    BY <1>3, <1>5, <1>10, HoldType
  <2>2. ins' = [next EXCEPT !.pos = ins.pos + Take] /\ file' = file /\ pc' \in {"idle", "feed"}
    BY <1>10 DEF Consume, Advanced
  <2>3. /\ ins' \in Instances /\ ins'.pos = ins.pos + Take /\ ins'.stage = "Streaming"
        /\ ins'.cursor = ins.cursor /\ ins'.open = TRUE /\ ins'.ncz = ins.ncz
        /\ ins'.fed = ins.fed
    BY <2>2, <1>1, <1>2, <1>6, Moved
  <2>4. E' = E /\ e' = e
    BY <2>2, <2>3 DEF E, e
  <2>5. AlignedInv'
    <3>1. e.off <= ins'.pos
      BY <1>2, <1>3, <2>3
    <3>2. InSequence(file, ins.cursor)
            => ins'.pos <= e.end /\ be'.ph.data = Prefix(e.off, ins'.pos - e.off)
      <4>1. InSequence(file, ins.cursor) => ins.pos + Take <= e.end
        BY <1>1, AlignedTake
      <4> DEFINE to == ins.pos + Take
      <4>2. InSequence(file, ins.cursor) => to <= e.end /\ ph.data = Prefix(e.off, to - e.off)
        <5>1. to - e.off = ins.pos + Take - e.off
          BY <1>2, <1>3
        <5> QED
          BY <4>1, <5>1, <1>5
      <4>3. ins'.pos = to /\ be'.ph = ph
        BY <2>1, <2>3
      <4> HIDE DEF to
      <4> QED
        BY <4>2, <4>3
    <3> QED
      BY <1>1, <1>2, <2>2, <2>3, <3>1, <3>2, Staying
  <2>6. ins'.cursor \in DOMAIN E'
    BY <1>1, <2>3, <2>4, StreamingFacts
  <2>7. StageInv'
    BY <1>1, <2>2, <2>3, <2>4 DEF IInv, StageInv, Steps
  <2>8. StreamInv'
    <3>1. be'.ph.id = e'.id
      BY <1>5, <2>1, <2>4
    <3>2. e'.kind \in ContentKinds /\ e'.kind \notin CompressedKinds
      BY <1>1, <2>4
    <3> QED
      BY <3>1, <3>2, <2>1, <2>3, <2>4, <2>6 DEF StreamInv
  <2>9. TypeOK'
    BY <1>2, <1>3, <1>10, <2>1, <2>3, ConsumeType DEF TypeOK
  <2> QED
    BY <2>1, <2>2, <2>5, <2>7, <2>8, <2>9 DEF IInv, ContentIntact
<1> QED
  BY <1>7, <1>8, <1>9, <1>10 DEF FeedNca, ph, next

\* The decoder's output so far.
Out0 == IF ins.ncz THEN ins.out ELSE 0

\* The same of a compressed NCA: what the decoder yields is appended in order,
\* and what is registered is all of the NCA its header declares.
LEMMA FeedNczInv == IInv /\ FeedNcz => IInv'
<1> SUFFICES ASSUME IInv, FeedNcz PROVE IInv'
  OBVIOUS
<1>1. /\ InEntry(CompressedKinds) /\ ins.stage = "Streaming" /\ pc = "feed"
      /\ e.kind \in CompressedKinds /\ e.kind \in ContentKinds
      /\ e.kind \notin {"Nca", "MetaNca"}
  BY DEF FeedNcz, InEntry, ContentKinds, CompressedKinds
<1>2. /\ Take \in Nat /\ Take <= rest /\ ins.pos + Take \in Nat /\ ins.pos <= ins.pos + Take
      /\ e.off <= ins.pos
  BY <1>1, TakeFacts
<1>3. /\ TypeOK /\ active /\ file \in Files /\ ins \in Instances /\ be \in Backends
      /\ ins.pos \in Nat /\ ins.out \in Nat /\ ins.metaSize \in Nat /\ e.off \in Nat
      /\ e.out \in Nat /\ e.declared \in Nat /\ e.declared > 0 /\ e.id \in ContentIds
      /\ ins.open \in BOOLEAN /\ ins.fed \in Nat /\ Consumed \in Nat
  <2>1. /\ ins \in Instances /\ ins.fed \in Nat /\ e.kind \in CompressedKinds
        /\ e.kind \in ContentKinds
    BY <1>1, StreamingFacts
  <2>2. ins.metaSize \in Nat
    BY <2>1 DEF Instances
  <2>3. Consumed \in Nat
    BY <2>1, <1>2 DEF Consumed
  <2> QED
    BY <1>1, <2>1, <2>2, <2>3, StreamingFacts
<1>4. /\ Out0 \in Nat /\ NczSize \in {0, e.declared}
  BY <1>3 DEF Out0, NczSize
<1>5. CASE Fail
  BY <1>5, <1>3, FailInv DEF Fail, TypeOK
<1>6. CASE FailWith(Without(content, {e.id})) /\ UNCHANGED records
  <2> DEFINE cs == Without(content, {e.id})
  <2>1. DOMAIN cs \subseteq DOMAIN content /\ \A c \in DOMAIN cs : cs[c] = content[c]
    BY DEF Without
  <2> HIDE DEF cs
  <2> QED
    BY <1>6, <2>1, <1>3, FailInv DEF TypeOK, cs
<1>7. ASSUME NEW n \in Nat, Out0 + n <= e.out, Out0 + n <= NczSize,
             Finished => Out0 + n = NczSize,
             Consume(Take, Advanced(
               [ins EXCEPT !.ncz = TRUE, !.fed = Consumed, !.out = Out0 + n,
                  !.open = ins.open \/ n > 0,
                  !.metaSize = IF Finished /\ e.kind \in MetaKinds /\ NczSize > 0
                                 THEN NczSize ELSE @])),
             IF ~(ins.open \/ n > 0) THEN UNCHANGED <<be, content>>
             ELSE LET ph == WritePlaceHolder(Placeholder, n, Out0) IN
                  IF Finished THEN Register(ph) ELSE Hold(ph)
      PROVE  IInv'
  <2> DEFINE opened == ins.open \/ n > 0
             ph     == WritePlaceHolder(Placeholder, n, Out0)
             size   == IF Finished /\ e.kind \in MetaKinds /\ NczSize > 0
                         THEN NczSize ELSE ins.metaSize
             next   == [ins EXCEPT !.ncz = TRUE, !.fed = Consumed, !.out = Out0 + n,
                                   !.open = opened, !.metaSize = size]
  <2>1. Consume(Take, Advanced(next))
    BY <1>7
  <2>2. /\ next \in Instances /\ next.cursor = ins.cursor /\ next.stage = ins.stage
        /\ next.open = opened /\ next.ncz = TRUE /\ next.out = Out0 + n
        /\ next.fed = Consumed
    <3>1. size \in Nat /\ opened \in BOOLEAN /\ Out0 + n \in Nat
      BY <1>3, <1>4, <1>7
    <3> HIDE DEF size, opened
    <3> QED
      BY <3>1, <1>3 DEF Instances
  <2>3. /\ Placeholder \in PlaceHolders /\ Placeholder.id = e.id
        /\ Placeholder.data = Prefix(0, Out0)
    <3>1. CASE ins.open
      <4>1. ins.ncz /\ be.ph.id = e.id /\ be.ph.data = Prefix(0, ins.out)
        BY <3>1, <1>1 DEF IInv, StreamInv
      <4> QED
        BY <3>1, <4>1, <1>3 DEF Placeholder, Out0, Backends
    <3>2. CASE ~ins.open
      <4>1. Out0 = 0
        BY <3>2, <1>1 DEF IInv, StreamInv, Out0
      <4>2. Prefix(0, 0) = <<>> /\ <<>> \in Seq(Nat)
        BY DEF Prefix
      <4>3. Placeholder = [id |-> e.id, data |-> <<>>]
        BY <3>2 DEF Placeholder, NoPlaceHolder
      <4> QED
        BY <4>1, <4>2, <4>3, <1>3 DEF PlaceHolders
    <3> QED
      BY <3>1, <3>2
  <2>4. ph \in PlaceHolders /\ ph.id = e.id /\ ph.data = Prefix(0, Out0 + n)
    <3>1. 0 + Out0 = Out0
      BY <1>4
    <3>2. LET new == WritePlaceHolder(Placeholder, n, 0 + Out0) IN
          new \in PlaceHolders /\ new.id = e.id /\ new.data = Prefix(0, Out0 + n)
      BY <2>3, <1>4, <1>7, AppendPrefix
    <3> QED
      BY <3>1, <3>2
  <2>5. opened => Out0 + n > 0
    BY <1>1, <1>3, <1>4, <1>7 DEF IInv, StreamInv, Out0
  <2> HIDE DEF next, ph, size
  <2>6. CASE Finished
    <3>1. /\ be' \in Backends /\ be'.open = FALSE
          /\ DOMAIN content' \in SUBSET ContentIds
          /\ \A c \in DOMAIN content' : content'[c] \in Registered
          /\ ContentIntact'
      <4>1. CASE opened
        <5>1. Register(ph)
          BY <1>7, <2>6, <4>1 DEF ph
        <5>2. Out0 + n = e.declared
          BY <1>3, <1>4, <1>7, <2>5, <2>6, <4>1
        <5>3. ph.data = Image(e)
          <6>1. Prefix(0, e.declared) = [o \in 1 .. e.declared |-> o - 1]
            BY <1>3 DEF Prefix
          <6> QED
            BY <6>1, <5>2, <1>1, <2>4 DEF Image
        <5> QED
          BY <5>1, <5>3, <1>1, <2>4, RegisterInv
      <4>2. CASE ~opened
        <5>1. UNCHANGED <<be, content>>
          BY <1>7, <4>2
        <5>2. be.open = FALSE
          BY <1>1, <1>3, <4>2, StreamingFacts DEF IInv, StreamInv
        <5> QED
          BY <5>1, <5>2, <1>3 DEF TypeOK, IInv, ContentIntact
      <4> QED
        BY <4>1, <4>2
    <3>2. ins' \in Instances /\ StageInv' /\ StreamInv' /\ AlignedInv'
      BY <1>1, <2>1, <2>2, <2>6, <3>1, EntryDone
    <3>3. TypeOK'
      BY <1>2, <1>3, <2>1, <3>1, <3>2, ConsumeType
    <3> QED
      BY <3>1, <3>2, <3>3 DEF IInv
  <2>7. CASE ~Finished
    <3>1. /\ be' \in Backends /\ be'.open = opened /\ content' = content
          /\ opened => be'.ph = ph
      <4>1. CASE opened
        BY <1>3, <1>7, <2>4, <2>7, <4>1, HoldType DEF ph
      <4>2. CASE ~opened
        <5>1. UNCHANGED <<be, content>>
          BY <1>7, <4>2
        <5>2. be.open = FALSE
          BY <1>1, <1>3, <4>2, StreamingFacts DEF IInv, StreamInv
        <5> QED
          BY <5>1, <5>2, <1>3, <4>2
      <4> QED
        BY <4>1, <4>2
    <3>2. ins' = [next EXCEPT !.pos = ins.pos + Take] /\ file' = file /\ pc' \in {"idle", "feed"}
      BY <2>1, <2>7 DEF Consume, Advanced
    <3>3. /\ ins' \in Instances /\ ins'.pos = ins.pos + Take /\ ins'.stage = "Streaming"
          /\ ins'.cursor = ins.cursor /\ ins'.open = opened /\ ins'.ncz = TRUE
          /\ ins'.out = Out0 + n /\ ins'.fed = Consumed
      BY <3>2, <1>1, <1>2, <2>2, Moved
    <3>4. E' = E /\ e' = e
      BY <3>2, <3>3 DEF E, e
    <3>5. AlignedInv'
      <4>1. e.off <= ins'.pos
        BY <1>2, <1>3, <3>3
      <4>2. ASSUME InSequence(file, ins.cursor)
            PROVE  ins'.pos <= e.end /\ ins'.fed = ins'.pos - e.off
        <5>1. ins.fed = ins.pos - e.off
          <6>1. CASE ins.ncz
            BY <1>1, <4>2, <6>1 DEF IInv, AlignedInv
          <6>2. CASE ~ins.ncz
            <7>1. ins.fed = 0 /\ ins.pos <= e.off
              BY <1>1, <4>2, <6>2 DEF IInv, AlignedInv, StageInv
            <7> QED
              BY <7>1, <1>2, <1>3
          <6> QED
            BY <6>1, <6>2, <1>1, StreamingFacts
        <5> QED
          BY <5>1, <1>1, <1>2, <1>3, <3>3, <4>2, AlignedTake DEF Consumed
      <4> QED
        BY <1>1, <1>2, <3>2, <3>3, <4>1, <4>2, Staying
    <3>6. ins'.cursor \in DOMAIN E'
      BY <1>1, <3>3, <3>4, StreamingFacts
    <3>7. StageInv'
      BY <1>1, <3>2, <3>3, <3>4 DEF IInv, StageInv, Steps
    <3>8. StreamInv'
      <4>1. opened => be'.ph.id = e'.id /\ be'.ph.data = Prefix(0, ins'.out) /\ ins'.out > 0
        BY <2>4, <2>5, <3>1, <3>3, <3>4
      <4>2. ~opened => ins'.out = 0
        BY <1>1, <1>3, <1>7, <3>3 DEF IInv, StreamInv, Out0
      <4>3. /\ e'.kind \in ContentKinds /\ e'.kind \in CompressedKinds
            /\ e'.kind \notin {"Nca", "MetaNca"}
        BY <1>1, <3>4
      <4> HIDE DEF opened
      <4> QED
        BY <4>1, <4>2, <4>3, <1>7, <3>1, <3>3, <3>4, <3>6 DEF StreamInv
    <3>9. TypeOK'
      BY <1>2, <1>3, <2>1, <3>1, <3>3, ConsumeType DEF TypeOK
    <3> QED
      BY <3>1, <3>2, <3>5, <3>7, <3>8, <3>9 DEF IInv, ContentIntact
  <2> QED
    BY <2>6, <2>7
<1>8. ASSUME ~Fail, ~(FailWith(Without(content, {e.id})) /\ UNCHANGED records)
      PROVE  IInv'
  <2>1. PICK n \in IF Consumed < e.prelude THEN {0}
                   ELSE IF Finished THEN {e.out - Out0} ELSE 0 .. (e.out - Out0) :
          /\ ~(Out0 + n > NczSize) /\ ~(Finished /\ Out0 + n # NczSize)
          /\ Consume(Take, Advanced(
               [ins EXCEPT !.ncz = TRUE, !.fed = Consumed, !.out = Out0 + n,
                  !.open = ins.open \/ n > 0,
                  !.metaSize = IF Finished /\ e.kind \in MetaKinds /\ NczSize > 0
                                 THEN NczSize ELSE @]))
          /\ IF ~(ins.open \/ n > 0) THEN UNCHANGED <<be, content>>
             ELSE LET ph == WritePlaceHolder(Placeholder, n, Out0) IN
                  IF Finished THEN Register(ph) ELSE Hold(ph)
    <3>1. PICK n \in IF Consumed < e.prelude THEN {0}
                     ELSE IF Finished THEN {e.out - Out0} ELSE 0 .. (e.out - Out0),
               decodes \in IF Skewed THEN BOOLEAN ELSE Outcomes("ncz"),
               created \in IF ins.open THEN {TRUE} ELSE Outcomes("create"),
               written \in Outcomes("write"),
               registered \in Outcomes("register") :
            LET rejected == \/ ~ins.decoder \/ ~decodes
                            \/ n > 0 /\ ~(created /\ written)
                            \/ Out0 + n > NczSize
                            \/ Finished /\ Out0 + n # NczSize
                next     == [ins EXCEPT !.ncz = TRUE, !.fed = Consumed, !.out = Out0 + n,
                               !.open = ins.open \/ n > 0,
                               !.metaSize = IF Finished /\ e.kind \in MetaKinds /\ NczSize > 0
                                              THEN NczSize ELSE @]
                ph       == WritePlaceHolder(Placeholder, n, Out0)
            IN IF rejected THEN Fail
               ELSE IF Finished /\ (ins.open \/ n > 0) /\ ~registered
                      THEN FailWith(Without(content, {e.id})) /\ UNCHANGED records
               ELSE /\ Consume(Take, Advanced(next))
                    /\ IF ~(ins.open \/ n > 0) THEN UNCHANGED <<be, content>>
                       ELSE IF Finished THEN Register(ph) ELSE Hold(ph)
      BY DEF FeedNcz, Out0
    <3> QED
      BY <3>1, <1>8
  <2>2. Out0 <= e.out
    BY <1>1, <1>3 DEF IInv, StreamInv, Out0
  <2>3. n \in Nat /\ Out0 + n <= e.out
    BY <2>1, <2>2, <1>3, <1>4
  <2>4. Out0 + n <= NczSize /\ (Finished => Out0 + n = NczSize)
    BY <2>1, <2>3, <1>3, <1>4
  <2> QED
    BY <2>1, <2>3, <2>4, <1>7
<1> QED
  BY <1>5, <1>6, <1>8

-----------------------------------------------------------------------------
\* The store's entry points, and the steps of nexusInstallFinish.

\* A chunk handed to the installer, a cancelled transfer, and entering Finish.
LEMMA StoreInv ==
  ASSUME IInv, Finish \/ Cancel \/ (\E n \in 1 .. MaxChunk : WriteChunk(n))
  PROVE  IInv'
<1>1. TypeOK /\ records \in [Apps -> SUBSET Titles]
  BY DEF IInv, TypeOK
<1>2. CASE Fail
  BY <1>1, <1>2, FailInv DEF Fail
<1>3. CASE Finish /\ ~Fail
  <2>1. /\ pc' = "ticket" /\ ins.stage = "Complete" /\ active
        /\ UNCHANGED <<active, file, rest, ins, be, console, owned, installs, crashes>>
    BY <1>3 DEF Finish
  <2>2. TypeOK'
    BY <2>1, <1>1 DEF TypeOK, console, Steps
  <2>3. StageInv' /\ StreamInv' /\ AlignedInv'
    BY <2>1 DEF IInv, StageInv, StreamInv, AlignedInv, E, e
  <2> QED
    BY <2>1, <2>2, <2>3 DEF IInv, ContentIntact, console
<1>4. ASSUME NEW n \in 1 .. MaxChunk, WriteChunk(n) PROVE IInv'
  <2>1. /\ pc' = "feed" /\ rest' = n /\ active
        /\ UNCHANGED <<active, file, ins, be, console, owned, installs, crashes>>
    BY <1>4 DEF WriteChunk
  <2>2. TypeOK'
    BY <2>1, <1>1 DEF TypeOK, console
  <2>3. StageInv' /\ StreamInv' /\ AlignedInv'
    BY <2>1 DEF IInv, StageInv, StreamInv, AlignedInv, E, e, Steps
  <2> QED
    BY <2>1, <2>2, <2>3 DEF IInv, ContentIntact, console
<1> QED
  BY <1>2, <1>3, <1>4 DEF Cancel

\* A new transfer starts from a blank installer and backend.
LEMMA WriteBeginInv == ASSUME IInv, NEW f \in Files, WriteBegin(f) PROVE IInv'
<1>1. PICK decoder \in BOOLEAN :
        ins' = [BlankIns EXCEPT !.stage = "Magic", !.decoder = decoder]
  BY DEF WriteBegin, Outcomes
<1>2. /\ ins' \in Instances /\ ins'.stage = "Magic" /\ ins'.pos = 0 /\ ~ins'.open
      /\ ~ins'.ncz /\ ins'.fed = 0
  BY <1>1 DEF BlankIns, Instances, Stages
<1>3. /\ pc = "idle" /\ be' = BlankBe /\ active' = TRUE /\ file' = f
      /\ installs' = installs + 1 /\ RollbackInto(content)
      /\ UNCHANGED <<pc, rest, stale, records, owned, crashes>>
  BY DEF WriteBegin
<1>4. /\ DOMAIN content' \subseteq DOMAIN content
      /\ \A i \in DOMAIN content' : content'[i] = content[i]
  BY <1>3 DEF RollbackInto, Without
<1>5. TypeOK'
  BY <1>2, <1>3, <1>4, BlankType DEF IInv, TypeOK, RollbackInto
<1>6. StageInv' /\ StreamInv' /\ AlignedInv'
  BY <1>2, <1>3, ContainerAssumption DEF StageInv, StreamInv, AlignedInv, BlankBe, Steps
<1>7. ContentIntact'
  BY <1>4 DEF IInv, ContentIntact
<1> QED
  BY <1>5, <1>6, <1>7 DEF IInv

\* A step of nexusInstallFinish that goes on to the next.
LEMMA GoToInv ==
  ASSUME IInv, pc \in Steps, NEW step \in Steps,
         NEW i \in Instances, i.stage = ins.stage, i.open = ins.open, i.ncz = ins.ncz,
         i.fed = ins.fed, NEW b \in Backends, b.open = be.open, GoTo(step, i, b),
         metas' \in SUBSET MetaRecords, durable' \in SUBSET MetaRecords,
         records' \in [Apps -> SUBSET Titles], tickets' \in SUBSET Titles
  PROVE  IInv'
<1>1. ins.stage = "Complete" /\ active
  BY DEF IInv, StageInv, TypeOK, Steps
<1>2. TypeOK'
  BY <1>1 DEF IInv, TypeOK, GoTo
<1>3. StageInv' /\ StreamInv' /\ AlignedInv'
  BY <1>1 DEF IInv, StageInv, StreamInv, AlignedInv, GoTo, E
<1> QED
  BY <1>2, <1>3 DEF IInv, ContentIntact, GoTo

\* No step of nexusInstallFinish registers a content.
LEMMA FinishStepInv == ASSUME IInv, FinishStep PROVE IInv'
<1>1. /\ TypeOK /\ pc \in Steps /\ ins.stage = "Complete" /\ active /\ file \in Files
      /\ ins \in Instances /\ be \in Backends /\ title \in Titles /\ title.app \in Apps
      /\ metas \in SUBSET MetaRecords /\ durable \in SUBSET MetaRecords
      /\ records \in [Apps -> SUBSET Titles] /\ tickets \in SUBSET Titles
  <2>1. pc \in Steps
    BY DEF FinishStep, ImportTicket, ReadCnmt, SetMeta, CommitMeta, ReadRecords,
           DeleteRecord, PushRecord, At, Steps
  <2>2. ins.stage = "Complete"
    BY <2>1 DEF IInv, StageInv
  <2> QED
    BY <2>1, <2>2, ActiveFacts, ContainerFacts DEF IInv, TypeOK, title
<1>2. CASE Fail
  BY <1>1, <1>2, FailInv DEF Fail
<1>3. CASE ImportTicket /\ ~Fail
  <2> DEFINE i == [ins EXCEPT !.ticket = TicketRead]
  <2>1. /\ GoTo("cnmt", i, be) /\ UNCHANGED <<metas, durable, records>>
        /\ tickets' = IF ins.tik > 0 THEN tickets \cup {title} ELSE tickets
    BY <1>3 DEF ImportTicket
  <2>2. /\ i \in Instances /\ i.stage = ins.stage /\ i.open = ins.open /\ i.ncz = ins.ncz
        /\ i.fed = ins.fed
    <3>1. TicketRead \in BOOLEAN
      BY DEF TicketRead
    <3> QED
      BY <3>1, <1>1 DEF Instances
  <2> HIDE DEF i
  <2> QED
    BY <2>1, <2>2, <1>1, GoToInv DEF Steps
<1>4. CASE ReadCnmt /\ ~Fail
  BY <1>1, <1>4, GoToInv DEF ReadCnmt, Steps
<1>5. CASE SetMeta /\ ~Fail
  <2> DEFINE m == [title |-> title, ids |-> Listed(file),
                   meta |-> MetaEntry(file).id, size |-> ins.metaSize]
  <2>1. /\ GoTo("commit", ins, be) /\ UNCHANGED <<durable, records, tickets>>
        /\ metas' = {x \in metas : x.title # title} \cup {m}
    BY <1>5 DEF SetMeta
  <2>2. m \in MetaRecords
    <3>1. MetaEntry(file).id \in ContentIds
      BY <1>1, MetaEntryFacts DEF IInv, StageInv, E
    <3>2. ListedBy(file) \in SUBSET ContentIds
      BY <1>1, ContainerAssumption DEF ListedBy
    <3> QED
      BY <1>1, <3>1, <3>2 DEF MetaRecords, Listed, Instances
  <2> HIDE DEF m
  <2> QED
    BY <2>1, <2>2, <1>1, GoToInv DEF Steps
<1>6. CASE CommitMeta /\ ~Fail
  <2> DEFINE b == [be EXCEPT !.committed = TRUE]
  <2>1. /\ GoTo("read", ins, b) /\ durable' = metas /\ UNCHANGED <<metas, records, tickets>>
    BY <1>6 DEF CommitMeta
  <2>2. b \in Backends /\ b.open = be.open
    BY <1>1 DEF Backends
  <2> HIDE DEF b
  <2> QED
    BY <2>1, <2>2, <1>1, GoToInv DEF Steps
<1>7. CASE ReadRecords
  <2>1. PICK listed \in BOOLEAN :
          GoTo("merge", ins, [be EXCEPT !.saved = IF listed THEN records[title.app] ELSE {}])
    BY <1>7 DEF ReadRecords, Outcomes
  <2> DEFINE saved == IF listed THEN records[title.app] ELSE {}
             b == [be EXCEPT !.saved = saved]
  <2>2. b \in Backends /\ b.open = be.open
    <3>1. saved \in SUBSET Titles
      BY <1>1
    <3> HIDE DEF saved
    <3> QED
      BY <1>1, <3>1 DEF Backends
  <2>3. UNCHANGED <<metas, durable, records, tickets>>
    BY <1>7 DEF ReadRecords
  <2> HIDE DEF b
  <2> QED
    BY <2>1, <2>2, <2>3, <1>1, GoToInv DEF Steps, b
<1>8. CASE DeleteRecord /\ ~Fail
  BY <1>1, <1>8, GoToInv DEF DeleteRecord, Steps
<1>9. CASE PushRecord
  <2>1. be.saved \in SUBSET Titles /\ Others \in SUBSET Titles
    BY <1>1 DEF Backends, Others
  <2>2. records' \in [Apps -> SUBSET Titles]
    BY <2>1, <1>1, <1>9 DEF PushRecord, Restore
  <2>3. CASE FailWith(content)
    BY <2>2, <2>3, FailInv
  <2>4. CASE ~FailWith(content)
    <3>1. /\ owned' = {t \in owned : ~SameMeta(t, title)} \cup {title} /\ Teardown
          /\ UNCHANGED <<content, stale, metas, durable, tickets, installs, crashes>>
      BY <1>9, <2>4 DEF PushRecord
    <3>2. TypeOK'
      BY <3>1, <2>2, <1>1, BlankType, ContainerAssumption DEF TypeOK, Teardown
    <3>3. StageInv' /\ StreamInv' /\ AlignedInv'
      BY <3>1 DEF StageInv, StreamInv, AlignedInv, BlankIns, BlankBe, Steps, Teardown
    <3> QED
      BY <3>1, <3>2, <3>3 DEF IInv, ContentIntact
  <2> QED
    BY <2>3, <2>4
<1> QED
  BY <1>2, <1>3, <1>4, <1>5, <1>6, <1>7, <1>8, <1>9 DEF FinishStep

\* A power loss and the placeholder cleanup of the maintenance menu.
LEMMA EnvironmentInv == ASSUME IInv, Crash \/ CleanPlaceholders PROVE IInv'
<1>1. CASE Crash
  <2>1. TypeOK'
    <3>1. stale' \in Nat /\ crashes' \in Nat /\ metas' = durable
      BY <1>1 DEF IInv, TypeOK, Crash
    <3> QED
      BY <1>1, <3>1, BlankType, ContainerAssumption DEF IInv, TypeOK, Crash, Teardown
  <2>2. StageInv' /\ StreamInv' /\ AlignedInv'
    BY <1>1 DEF StageInv, StreamInv, AlignedInv, BlankIns, BlankBe, Steps, Crash, Teardown
  <2> QED
    BY <1>1, <2>1, <2>2 DEF IInv, ContentIntact, Crash
<1>2. CASE CleanPlaceholders
  BY <1>2 DEF CleanPlaceholders, IInv, TypeOK, StageInv, StreamInv, AlignedInv, ContentIntact, E, e,
              volatile
<1> QED
  BY <1>1, <1>2

\* The invariant is inductive.
LEMMA Induction == IInv /\ [Next]_vars => IInv'
<1> SUFFICES ASSUME IInv, [Next]_vars PROVE IInv'
  OBVIOUS
<1>1. CASE UNCHANGED vars
  BY <1>1 DEF vars, volatile, console, IInv, TypeOK, StageInv, StreamInv, AlignedInv, ContentIntact, E, e
<1>2. CASE FeedStep
  BY <1>2, FeedMagicInv, FeedHeaderInv, FeedGapInv, FeedTrailingInv, FeedBlobInv,
     FeedNcaInv, FeedNczInv DEF FeedStep
<1>3. CASE FinishStep
  BY <1>3, FinishStepInv
<1>4. CASE \E f \in Files : WriteBegin(f)
  BY <1>4, WriteBeginInv
<1>5. CASE Finish \/ Cancel \/ (\E n \in 1 .. MaxChunk : WriteChunk(n))
  BY <1>5, StoreInv
<1>6. CASE Crash \/ CleanPlaceholders
  BY <1>6, EnvironmentInv
<1> QED
  BY <1>1, <1>2, <1>3, <1>4, <1>5, <1>6 DEF Next

\* The invariant holds at every moment.
LEMMA Invariance == Spec => []IInv
BY InitInv, Induction, PTL DEF Spec

\* The types of installer, backend and console state hold whatever the
\* container, the chunks, the faults and the number of transfers.
THEOREM TypeCorrect == Spec => []TypeOK
<1>1. IInv => TypeOK
  BY DEF IInv
<1> QED
  BY <1>1, Invariance, PTL

\* Whatever entry table the container has, the cursor of nexusInstallFeed never
\* leaves it; and for as long as the entries lie in sequence the u64 subtraction
\* of the position never wraps and the placeholder holds the units that went by,
\* however the transport cuts the stream and whatever comes later in the table.
THEOREM Aligned == Spec => []StreamAligned
<1>1. IInv => StreamAligned
  <2> SUFFICES ASSUME IInv, ins.stage = "Streaming"
               PROVE  /\ ins.cursor \in DOMAIN E
                      /\ InSequence(file, ins.cursor) =>
                           /\ ins.pos <= e.end
                           /\ \A i \in 1 .. ins.cursor - 1 : E[i].end <= ins.pos
                           /\ be.open /\ e.kind \notin CompressedKinds
                                => Len(be.ph.data) = ins.pos - e.off
    BY DEF StreamAligned
  <2>1. ins.cursor \in DOMAIN E
    BY DEF IInv, StreamInv
  <2>2. ASSUME InSequence(file, ins.cursor)
        PROVE  ins.pos <= e.end /\ \A i \in 1 .. ins.cursor - 1 : E[i].end <= ins.pos
    BY <2>2 DEF IInv, AlignedInv
  <2>3. ASSUME InSequence(file, ins.cursor), be.open, e.kind \notin CompressedKinds
        PROVE  Len(be.ph.data) = ins.pos - e.off
    <3>1. ins.open /\ e.kind \in {"Nca", "MetaNca"}
      BY <2>3 DEF IInv, StreamInv, ContentKinds, CompressedKinds
    <3>2. e.off <= ins.pos /\ be.ph.data = Prefix(e.off, ins.pos - e.off)
      BY <2>3, <3>1 DEF IInv, AlignedInv
    <3>3. ins.pos - e.off \in Nat /\ e.off \in Nat
      BY <3>2, StreamingFacts
    <3> QED
      BY <3>2, <3>3, PrefixType
  <2> QED
    BY <2>1, <2>2, <2>3
<1> QED
  BY <1>1, Invariance, PTL

\* Whatever is registered from an entry that lies in sequence holds exactly that
\* entry: no cut of the stream, no order of the table, nothing that lies behind
\* it in the table, no failure, cancellation or power loss makes the installer
\* drop, repeat or misplace a unit of a content.
THEOREM Intact == Spec => []ContentIntact
<1>1. IInv => ContentIntact
  BY DEF IInv
<1> QED
  BY <1>1, Invariance, PTL

-----------------------------------------------------------------------------
\* Refinement of module Library.

\* What hz_push_record holds between its calls: the list it read is the one it
\* deletes, and every list names content metas of its own application.
RecordInv ==
  /\ \A a \in Apps : \A t \in records[a] : t.app = a
  /\ pc = "merge" => be.saved = records[title.app]
  /\ pc = "push" => records[title.app] = {} /\ \A t \in be.saved : t.app = title.app

\* Listing and restoring the record do not fail.
RecordServiceWorks == "list" \notin Faults /\ "restore" \notin Faults

\* The steps that touch no record.
LEMMA OtherSteps ==
  ASSUME [Next]_vars, ~ReadRecords, ~DeleteRecord, ~PushRecord, ~Crash
  PROVE  /\ records' = records /\ crashes' = crashes /\ owned' = owned
         /\ pc' \notin {"merge", "push"}
              \/ (UNCHANGED <<pc, file, be>> /\ pc \in {"merge", "push"})
         /\ pc \in {"merge", "push"} => UNCHANGED <<pc, file, be>>
<1>1. CASE UNCHANGED vars
  BY <1>1 DEF vars, volatile, console
<1>2. CASE FeedStep
  <2> DEFINE Frame == pc = "feed" /\ UNCHANGED <<records, crashes, owned>>
                        /\ pc' \in {"idle", "feed"}
  <2> USE DEF Consume, Fail, FailWith, Teardown
  <2>1. CASE FeedMagic \/ FeedHeader \/ FeedGap \/ FeedTrailing
    <3>1. Frame
      BY <2>1 DEF FeedMagic, FeedHeader, FeedGap, FeedTrailing, Absorb
    <3> QED
      BY <3>1
  <2>2. CASE FeedBlob
    <3>1. Frame
      BY <2>2 DEF FeedBlob, InEntry
    <3> QED
      BY <3>1
  <2>3. CASE FeedNca
    <3>1. Frame
      BY <2>3 DEF FeedNca, InEntry
    <3> QED
      BY <3>1
  <2>4. CASE FeedNcz
    <3>1. Frame
      BY <2>4 DEF FeedNcz, InEntry
    <3> QED
      BY <3>1
  <2> QED
    BY <1>2, <2>1, <2>2, <2>3, <2>4 DEF FeedStep
<1>3. CASE FinishStep
  <2>1. /\ pc \in {"ticket", "cnmt", "set", "commit"} /\ records' = records
        /\ crashes' = crashes /\ owned' = owned /\ pc' \in {"idle", "cnmt", "set", "commit", "read"}
    BY <1>3 DEF FinishStep, ImportTicket, ReadCnmt, SetMeta, CommitMeta, At, GoTo, Fail,
                FailWith, Teardown
  <2> QED
    BY <2>1
<1>4. CASE \E f \in Files : WriteBegin(f)
  BY <1>4 DEF WriteBegin
<1>5. CASE Finish \/ Cancel \/ \E n \in 1 .. MaxChunk : WriteChunk(n)
  BY <1>5 DEF Finish, Cancel, WriteChunk, Fail, FailWith, Teardown, console
<1>6. CASE CleanPlaceholders
  BY <1>6 DEF CleanPlaceholders, volatile
<1> QED
  BY <1>1, <1>2, <1>3, <1>4, <1>5, <1>6 DEF Next

\* What a step that touches records needs of the types.
LEMMA RecordTypes ==
  ASSUME IInv, pc \in {"read", "merge", "push"}
  PROVE  /\ active /\ file \in Files /\ title \in Titles /\ title.app \in Apps
         /\ be.saved \in SUBSET Titles /\ records \in [Apps -> SUBSET Titles]
         /\ be \in Backends
<1>1. active /\ file \in Files
  BY DEF IInv, TypeOK
<1> QED
  BY <1>1, ContainerFacts DEF IInv, TypeOK, Backends, title

\* While the list of an application is deleted, be.saved is what it held.
LEMMA RecordInduction ==
  ASSUME IInv, RecordInv, [Next]_vars, RecordServiceWorks
  PROVE  RecordInv'
<1>1. records \in [Apps -> SUBSET Titles]
  BY DEF IInv, TypeOK
<1>2. CASE ReadRecords
  <2>1. /\ pc = "read" /\ pc' = "merge" /\ UNCHANGED <<file, records>>
        /\ be' = [be EXCEPT !.saved = records[title.app]]
    BY <1>2 DEF ReadRecords, GoTo, At, Outcomes, RecordServiceWorks
  <2>2. be'.saved = records[title.app]
    BY <2>1, RecordTypes DEF Backends
  <2> QED
    BY <2>1, <2>2 DEF RecordInv, title
<1>3. CASE DeleteRecord
  <2>1. CASE Fail
    BY <2>1 DEF Fail, FailWith, Teardown, RecordInv
  <2>2. CASE ~Fail
    <3>1. /\ pc = "merge" /\ pc' = "push" /\ UNCHANGED <<file, be>>
          /\ records' = [records EXCEPT ![title.app] = {}]
      BY <1>3, <2>2 DEF DeleteRecord, GoTo, At
    <3> QED
      BY <3>1, <1>1, RecordTypes DEF RecordInv, title
  <2> QED
    BY <2>1, <2>2
<1>4. CASE PushRecord
  <2>1. /\ pc = "push" /\ pc' = "idle"
        /\ \/ records' = [records EXCEPT ![title.app] = Others \cup {title}]
           \/ records' = [records EXCEPT ![title.app] = be.saved]
    BY <1>4 DEF PushRecord, Restore, FailWith, Teardown, At, Outcomes, RecordServiceWorks
  <2> QED
    BY <2>1, <1>1, RecordTypes DEF RecordInv, Others
<1>5. CASE Crash
  BY <1>5 DEF Crash, Teardown, RecordInv
<1>6. CASE ~ReadRecords /\ ~DeleteRecord /\ ~PushRecord /\ ~Crash
  BY <1>6, OtherSteps DEF RecordInv, title
<1> QED
  BY <1>2, <1>3, <1>4, <1>5, <1>6

\* Every step maps to a step of the library, or to none.
LEMMA RefinementStep ==
  ASSUME IInv, RecordInv, [Next]_vars, RecordServiceWorks
  PROVE  [Lib!Next]_<<library, crashes>>
<1>1. records \in [Apps -> SUBSET Titles] /\ crashes \in Nat
  BY DEF IInv, TypeOK
<1>2. CASE ReadRecords \/ DeleteRecord
  <2>1. CASE ReadRecords
    BY <2>1 DEF ReadRecords, GoTo, At, library
  <2>2. CASE DeleteRecord /\ Fail
    BY <2>2 DEF DeleteRecord, At, Fail, FailWith, Teardown, library
  <2>3. CASE DeleteRecord /\ ~Fail
    <3>1. /\ pc = "merge" /\ pc' = "push" /\ UNCHANGED <<file, be, crashes>>
          /\ records' = [records EXCEPT ![title.app] = {}] /\ be.saved = records[title.app]
      BY <2>3 DEF DeleteRecord, GoTo, At, RecordInv
    <3>2. library' = library
      BY <3>1, <1>1, RecordTypes DEF library, title
    <3> QED
      BY <3>1, <3>2
  <2> QED
    BY <1>2, <2>1, <2>2, <2>3
<1>3. CASE PushRecord
  <2>1. pc = "push" /\ pc' = "idle" /\ crashes' = crashes
    BY <1>3 DEF PushRecord, FailWith, Teardown, At
  <2>2. library = [records EXCEPT ![title.app] = be.saved]
    BY <2>1, <1>1, RecordTypes DEF library
  <2>3. library' = [a \in Apps |-> records'[a]]
    BY <2>1 DEF library
  <2>4. CASE records' = [records EXCEPT ![title.app] = be.saved]
    BY <2>1, <2>2, <2>3, <2>4, <1>1, RecordTypes
  <2>5. CASE records' = [records EXCEPT ![title.app] = Others \cup {title}]
    <3>1. library[title.app] = be.saved
      BY <2>1, <2>2, <1>1, RecordTypes
    <3>2. Others = {s \in be.saved : s.type # title.type}
      BY <2>1, RecordTypes DEF Others, SameMeta, RecordInv
    <3>3. Lib!Merged(title) = Others \cup {title}
      BY <3>1, <3>2 DEF Lib!Merged
    <3>4. library' = [library EXCEPT ![title.app] = Lib!Merged(title)]
      BY <2>1, <2>2, <2>3, <2>5, <3>3, <1>1, RecordTypes
    <3>5. title \in Lib!Titles
      BY <2>1, RecordTypes DEF Lib!Titles, Titles
    <3> QED
      BY <2>1, <3>4, <3>5 DEF Lib!Next, Lib!Publish
  <2> QED
    BY <1>3, <2>4, <2>5 DEF PushRecord, Restore, Outcomes, RecordServiceWorks
<1>4. CASE Crash
  <2>1. crashes' = crashes + 1 /\ records' = records /\ pc' = "idle"
    BY <1>4 DEF Crash, Teardown
  <2>2. library' = [a \in Apps |-> records[a]]
    BY <2>1 DEF library
  <2>3. CASE pc = "push"
    <3>1. library' = [library EXCEPT ![title.app] = {}]
      BY <2>2, <2>3, <1>1, RecordTypes DEF library, RecordInv
    <3> QED
      BY <2>1, <2>3, <3>1, RecordTypes DEF Lib!Next, Lib!PowerLoss
  <2>4. CASE pc # "push"
    BY <2>1, <2>2, <2>4 DEF library, Lib!Next, Lib!PowerLoss
  <2> QED
    BY <2>3, <2>4
<1>5. CASE ~ReadRecords /\ ~DeleteRecord /\ ~PushRecord /\ ~Crash
  BY <1>5, OtherSteps DEF library, title
<1> QED
  BY <1>2, <1>3, <1>4, <1>5

\* The installer implements the library: for every application, container and
\* chunking, and any number of transfers, failures and power losses, HOME's
\* lists change by publishing one content meta in one step, or not at all.
THEOREM Refinement == ASSUME RecordServiceWorks PROVE Spec => LibrarySpec
<1>1. Init => RecordInv
  BY DEF Init, RecordInv
<1>2. IInv /\ RecordInv /\ [Next]_vars => RecordInv'
  BY RecordInduction
<1>3. Init => Lib!Init
  BY DEF Init, Lib!Init, library
<1>4. IInv /\ RecordInv /\ [Next]_vars => [Lib!Next]_<<library, crashes>>
  BY RefinementStep
<1> QED
  BY <1>1, <1>2, <1>3, <1>4, Invariance, PTL DEF Spec, LibrarySpec, Lib!Spec

-----------------------------------------------------------------------------
(* What a transfer has put on the console so far, which is what hz_rollback *)
(* takes away again.                                                        *)

\* A compressed NCA that breaks off before its section table ends is passed
\* over in silence; here no container has such a one.
PreludesWhole ==
  \A f \in Files : \A i \in DOMAIN Entries(f) :
    Entries(f)[i].kind \in CompressedKinds => Entries(f)[i].prelude <= Entries(f)[i].size

\* Every container is laid out as packers make them, which no code checks.
Packed == \A f \in Files : LaidOut(f)

\* Then each entry lies behind the ones before it, and no other shares its
\* content id or is a second Meta NCA.
LEMMA PackedFacts ==
  ASSUME Packed, NEW f \in Files, NEW i \in DOMAIN Entries(f)
  PROVE  LET T == Entries(f) IN
         /\ InSequence(f, i)
         /\ \A j \in DOMAIN T : j # i =>
              /\ T[j].id = T[i].id => T[i].id = NoId
              /\ ~(T[j].kind \in MetaKinds /\ T[i].kind \in MetaKinds)
<1> DEFINE T == Entries(f)
<1>1. T \in Seq(Entry) /\ i \in Nat /\ i \in 1 .. Len(T)
  <2>1. T \in Seq(Entry)
    BY TableAssumption
  <2> QED
    BY <2>1
<1>2. LaidOut(f)
  BY DEF Packed
<1>3. InSequence(f, i)
  BY <1>1, <1>2 DEF LaidOut, InSequence
<1>4. ASSUME NEW j \in DOMAIN T, j # i
      PROVE  /\ T[j].id = T[i].id => T[i].id = NoId
             /\ ~(T[j].kind \in MetaKinds /\ T[i].kind \in MetaKinds)
  <2>1. j < i \/ i < j
    BY <1>1, <1>4
  <2> QED
    BY <1>2, <1>4, <2>1 DEF LaidOut
<1> QED
  BY <1>3, <1>4

\* The container has a ticket, and one whose rights id the installer can read.
Ticketed(f) == \E i \in DOMAIN Entries(f) :
                 Entries(f)[i].kind = "Ticket" /\ Entries(f)[i].size > 0
Readable(f) == Ticketed(f) /\ Container[f].ticketOk

\* The stream is past entry j.
Passed(j) == ins.stage = "Complete" \/ (ins.stage = "Streaming" /\ j < ins.cursor)

\* Something of the ticket in entry j has been read.
TicketSeen(j) ==
  /\ E[j].kind = "Ticket" /\ E[j].size > 0
  /\ Passed(j) \/ (j = ins.cursor /\ E[j].off < ins.pos)

HasTable == ins.stage \in {"Streaming", "Complete"}

\* What is to be deleted on failure is this container's, and is there.
RegisteredOwn ==
  /\ be.registered \subseteq ContentsOf(file)
  /\ \A i \in be.registered : i \in DOMAIN content /\ content[i].from = file

\* Every content behind the stream is registered, the meta record will have the
\* size of the Meta NCA, and the ticket is noticed.
PassedStored ==
  HasTable => \A j \in DOMAIN E : Passed(j) /\ E[j].kind \in ContentKinds => E[j].id \in be.registered

MetaSized ==
  HasTable => \A j \in DOMAIN E : E[j].kind \in MetaKinds =>
    ins.metaSize = IF E[j].kind = "MetaNcz" /\ Passed(j) THEN E[j].declared ELSE E[j].size

TicketNoticed ==
  /\ HasTable => (ins.tik > 0 <=> \E j \in DOMAIN E : TicketSeen(j))
  /\ ~HasTable => ins.tik = 0

\* What each step of nexusInstallFinish has behind it.
MetaRecord == [title |-> title, ids |-> Listed(file), meta |-> MetaEntry(file).id,
               size |-> ins.metaSize]

Finishing ==
  /\ be.committed <=> pc \in {"read", "merge", "push"}
  /\ ins.ticket => pc \in Steps \ {"ticket"}
  /\ pc \in Steps \ {"ticket"} => (ins.ticket <=> Readable(file))
  /\ pc \in Steps \ {"ticket", "cnmt"} => Listed(file) \subseteq ContentsOf(file)
  /\ pc \in {"commit", "read", "merge", "push"} => MetaRecord \in metas
  /\ pc \in {"read", "merge", "push"} => MetaRecord \in durable

Stored == active => RegisteredOwn /\ PassedStored /\ MetaSized /\ TicketNoticed /\ Finishing

\* An entry that is a content is one of the container's contents.
LEMMA EntryContent ==
  ASSUME NEW f \in Files, NEW i \in DOMAIN Entries(f), Entries(f)[i].kind \in ContentKinds
  PROVE  Entries(f)[i].id \in ContentsOf(f)
BY EntryFacts DEF ContentsOf

\* What is registered is a content of the container it came from.
LEMMA ContentOfItsFile ==
  ASSUME IInv, NEW i \in DOMAIN content
  PROVE  /\ content[i].from \in Files /\ i \in ContentsOf(content[i].from)
         /\ Container[content[i].from].title \in Titles
<1>1. content[i].from \in Files
  BY DEF IInv, TypeOK, Registered
<1>2. PICK k \in DOMAIN Entries(content[i].from) :
        /\ Entries(content[i].from)[k].id = i
        /\ Entries(content[i].from)[k].kind \in ContentKinds
  BY DEF IInv, ContentIntact
<1>3. i \in ContentsOf(content[i].from)
  BY <1>1, <1>2, EntryContent
<1> QED
  BY <1>1, <1>3, ContainerFacts

\* What fail() and a transfer that takes another's place leave.
Undoes ==
  /\ DOMAIN content' \subseteq DOMAIN content \ be.registered
  /\ \A i \in DOMAIN content : i \in DOMAIN content' \cup be.registered
                                 \/ (active /\ i \in ContentsOf(file))
  /\ \A i \in DOMAIN content' : content'[i] = content[i]
  /\ tickets' = IF ins.ticket THEN tickets \ {title} ELSE tickets
  /\ IF be.committed THEN metas' = {m \in metas : m.title # title} /\ durable' = metas'
                     ELSE UNCHANGED <<metas, durable>>
  /\ UNCHANGED <<stale, owned, crashes>>

LEMMA RollbackUndoes ==
  ASSUME NEW cs, DOMAIN cs \subseteq DOMAIN content,
         \A i \in DOMAIN cs : cs[i] = content[i],
         \A i \in DOMAIN content : i \in DOMAIN cs \/ (active /\ i \in ContentsOf(file)),
         RollbackInto(cs), UNCHANGED <<stale, owned, crashes>>
  PROVE  Undoes
<1>1. /\ DOMAIN content' = DOMAIN cs \ be.registered
      /\ \A i \in DOMAIN content' : content'[i] = cs[i]
  BY DEF RollbackInto, Without
<1>2. /\ DOMAIN content' \subseteq DOMAIN content \ be.registered
      /\ \A i \in DOMAIN content : i \in DOMAIN content' \cup be.registered
                                     \/ (active /\ i \in ContentsOf(file))
      /\ \A i \in DOMAIN content' : content'[i] = content[i]
  BY <1>1
<1> QED
  BY <1>2 DEF Undoes, RollbackInto

LEMMA FailUndoes ==
  ASSUME FailWith(content)
  PROVE  Undoes /\ ~active'
BY RollbackUndoes DEF FailWith, Teardown

\* Where Register fails, the content whose place it was to take is gone too.
LEMMA UnregisteredUndoes ==
  ASSUME IInv, ins.stage = "Streaming", e.kind \in ContentKinds, FailWith(Without(content, {e.id}))
  PROVE  Undoes /\ ~active'
<1> DEFINE cs == Without(content, {e.id})
<1>1. active /\ e.id \in ContentsOf(file)
  BY StreamingFacts, EntryContent DEF E, e
<1>2. /\ DOMAIN cs \subseteq DOMAIN content /\ \A i \in DOMAIN cs : cs[i] = content[i]
      /\ \A i \in DOMAIN content : i \in DOMAIN cs \/ (active /\ i \in ContentsOf(file))
  BY <1>1 DEF Without
<1>3. RollbackInto(cs) /\ UNCHANGED <<stale, owned, crashes>> /\ ~active'
  BY DEF FailWith, Teardown
<1> HIDE DEF cs
<1> QED
  BY <1>2, <1>3, RollbackUndoes

\* A turn of the feed loop that goes on.
Streams ==
  /\ active' = active /\ file' = file /\ pc = "feed" /\ pc' \in {"idle", "feed"}
  /\ be'.saved = be.saved /\ be'.committed = be.committed /\ ins'.ticket = ins.ticket
  /\ be.registered \subseteq be'.registered
  /\ \A i \in DOMAIN content : i \in DOMAIN content'
  /\ \A i \in DOMAIN content' : i \in be'.registered
                                  \/ (i \in DOMAIN content /\ content'[i] = content[i])
  /\ UNCHANGED <<stale, metas, durable, records, tickets, owned, crashes>>

\* The fields that Consume and Advanced leave as they are given.
LEMMA Carried ==
  ASSUME NEW i \in Instances, NEW n, Consume(n, i), ins.pos + n \in Nat
  PROVE  /\ ins'.pos = ins.pos + n /\ ins'.stage = i.stage /\ ins'.cursor = i.cursor
         /\ ins'.tik = i.tik /\ ins'.metaSize = i.metaSize /\ ins'.ticket = i.ticket
BY DEF Consume, Instances

\* Where no content is registered the turn only moves the stream.
LEMMA QuietStreams ==
  ASSUME NEW n, NEW i, Consume(n, i), pc = "feed", UNCHANGED <<be, content>>,
         ins'.ticket = ins.ticket
  PROVE  Streams
BY DEF Streams, Consume

LEMMA StreamsFinishing ==
  ASSUME Streams, Finishing
  PROVE  Finishing'
BY DEF Streams, Finishing, Steps

\* Nothing that is in the header is an entry.
LEMMA MagicStored ==
  ASSUME IInv, Stored, FeedMagic
  PROVE  (Undoes /\ ~active' /\ records' = records) \/ (Streams /\ Stored')
<1> DEFINE used == MinOf(rest, MagicSize - ins.pos)
           next == [ins EXCEPT !.stage = "Header"]
<1>1. /\ TypeOK /\ pc = "feed" /\ ins.stage = "Magic" /\ ins.pos < MagicSize
      /\ active /\ file \in Files /\ ins \in Instances /\ ins.pos \in Nat /\ rest \in Nat
  BY ActiveFacts DEF FeedMagic, Absorb, IInv, StageInv, TypeOK, Instances
<1>2. used \in Nat /\ ins.pos + used \in Nat
  <2>1. MagicSize \in Nat
    BY ContainerAssumption
  <2> QED
    BY <1>1, <2>1 DEF MinOf
<1>3. CASE Fail
  BY <1>3, FailUndoes DEF Fail
<1>4. ASSUME NEW i \in {ins, next}, Consume(used, i), UNCHANGED <<be, content>>
      PROVE  Streams /\ Stored'
  <2>1. /\ i \in Instances /\ i.stage \in {"Magic", "Header"} /\ i.tik = ins.tik
        /\ i.ticket = ins.ticket
    BY <1>1, <1>4 DEF Instances, Stages
  <2>2. /\ ins'.stage \in {"Magic", "Header"} /\ ins'.tik = ins.tik
        /\ ins'.ticket = ins.ticket
    BY <1>2, <1>4, <2>1, Carried
  <2>3. Streams
    BY <1>1, <1>4, <2>2, QuietStreams
  <2>4. RegisteredOwn'
    BY <1>1, <1>4 DEF Stored, RegisteredOwn, Consume
  <2>5. ~HasTable /\ ~HasTable'
    BY <1>1, <2>2 DEF HasTable
  <2>6. PassedStored' /\ MetaSized' /\ TicketNoticed'
    BY <1>1, <2>2, <2>5 DEF PassedStored, MetaSized, TicketNoticed, Stored
  <2>7. Finishing'
    BY <1>1, <2>3, StreamsFinishing DEF Stored
  <2> QED
    BY <2>3, <2>4, <2>6, <2>7 DEF Stored
<1> QED
  BY <1>1, <1>3, <1>4 DEF FeedMagic, Absorb

\* Where streaming begins nothing has been passed, and the size of the Meta
\* NCA is that of its entry.
LEMMA HeaderStored ==
  ASSUME IInv, Stored, Packed, FeedHeader
  PROVE  (Undoes /\ ~active' /\ records' = records) \/ (Streams /\ Stored')
<1> DEFINE want == Container[file].hdr
           used == MinOf(rest, want - ins.pos)
           next == [ins EXCEPT !.stage = "Streaming", !.cursor = 1,
                               !.metaSize = MetaEntry(file).size]
<1>1. /\ TypeOK /\ pc = "feed" /\ ins.stage = "Header" /\ ins.pos <= want
      /\ active /\ file \in Files /\ ins \in Instances /\ ins.pos \in Nat /\ rest \in Nat
  BY ActiveFacts DEF FeedHeader, Absorb, IInv, StageInv, TypeOK, Instances
<1>2. want \in Nat /\ used \in Nat /\ ins.pos + used \in Nat /\ ins.pos + used <= want
  BY <1>1, ContainerFacts DEF MinOf
<1>3. /\ RegisteredOwn /\ Finishing /\ TicketNoticed /\ ~HasTable
  BY <1>1 DEF Stored, HasTable
<1>4. CASE Fail
  BY <1>4, FailUndoes DEF Fail
<1>5. ASSUME Consume(used, ins), UNCHANGED <<be, content>>
      PROVE  Streams /\ Stored'
  <2>1. ins'.stage = "Header" /\ ins'.tik = ins.tik /\ ins'.ticket = ins.ticket
    BY <1>1, <1>2, <1>5, Carried
  <2>2. Streams
    BY <1>1, <1>5, <2>1, QuietStreams
  <2>3. ~HasTable'
    BY <2>1 DEF HasTable
  <2>4. RegisteredOwn' /\ PassedStored' /\ MetaSized' /\ TicketNoticed'
    BY <1>3, <1>5, <2>1, <2>3
    DEF RegisteredOwn, PassedStored, MetaSized, TicketNoticed, Consume
  <2> QED
    BY <1>3, <2>2, <2>4, StreamsFinishing DEF Stored
<1>6. ASSUME ~(ins.pos + used < want), \E x \in Range(E) : x.kind \in MetaKinds,
             Consume(used, next), UNCHANGED <<be, content>>
      PROVE  Streams /\ Stored'
  <2>1. MetaEntry(file) \in Range(Entries(file)) /\ MetaEntry(file).kind \in MetaKinds
        /\ MetaEntry(file).size \in Nat
    BY <1>1, <1>6, MetaEntryFacts DEF E
  <2>2. /\ next \in Instances /\ next.stage = "Streaming" /\ next.cursor = 1
        /\ next.tik = ins.tik /\ next.metaSize = MetaEntry(file).size
        /\ next.ticket = ins.ticket
    BY <1>1, <2>1 DEF Instances, Stages
  <2> HIDE DEF next
  <2>3. /\ ins'.pos = ins.pos + used /\ ins'.stage = "Streaming" /\ ins'.cursor = 1
        /\ ins'.tik = ins.tik /\ ins'.metaSize = MetaEntry(file).size
        /\ ins'.ticket = ins.ticket
    BY <1>2, <1>6, <2>2, Carried
  <2>4. Streams
    BY <1>1, <1>6, <2>3, QuietStreams
  <2>5. E' = E /\ file' = file /\ E = Entries(file) /\ E \in Seq(Entry)
    BY <1>1, <1>6, ContainerFacts DEF Consume, E
  <2>6. \A j \in DOMAIN E : ~Passed(j)'
    BY <2>3, <2>5 DEF Passed
  <2>7. RegisteredOwn' /\ PassedStored'
    BY <1>3, <1>6, <2>5, <2>6 DEF RegisteredOwn, PassedStored
  <2>8. MetaSized'
    <3>1. ASSUME NEW j \in DOMAIN E, E[j].kind \in MetaKinds PROVE E[j] = MetaEntry(file)
      <4>1. PICK k \in DOMAIN E : MetaEntry(file) = E[k]
        BY <2>1, <2>5 DEF Range
      <4>2. j = k
        BY <1>1, <2>1, <2>5, <3>1, <4>1, PackedFacts
      <4> QED
        BY <4>1, <4>2
    <3> QED
      BY <2>3, <2>5, <2>6, <3>1 DEF MetaSized
  <2>9. TicketNoticed'
    <3>1. ins'.tik = 0
      BY <1>3, <2>3 DEF TicketNoticed
    <3>2. ASSUME NEW j \in DOMAIN E PROVE ~TicketSeen(j)'
      <4>1. Container[file].hdr <= E[j].off /\ E[j].off \in Nat
        BY <1>1, <2>5, EntryFacts, PackedFacts, SequenceFacts
      <4>2. ~(E[j].off < ins'.pos)
        BY <1>2, <2>3, <4>1
      <4> QED
        BY <2>5, <2>6, <4>2 DEF TicketSeen
    <3>3. HasTable'
      BY <2>3 DEF HasTable
    <3> QED
      BY <2>5, <3>1, <3>2, <3>3 DEF TicketNoticed
  <2> QED
    BY <1>3, <2>4, <2>7, <2>8, <2>9, StreamsFinishing DEF Stored
<1> QED
  BY <1>1, <1>4, <1>5, <1>6 DEF FeedHeader, Absorb

\* Padding, before an entry and behind the last.
LEMMA PaddingStored ==
  ASSUME IInv, Stored, FeedGap \/ FeedTrailing
  PROVE  Streams /\ Stored'
<1>1. /\ pc = "feed" /\ HasTable /\ UNCHANGED <<be, content>>
      /\ active /\ file \in Files /\ ins \in Instances /\ ins.pos \in Nat /\ rest \in Nat
  BY ActiveFacts DEF FeedGap, FeedTrailing, HasTable, IInv, TypeOK, Instances
<1>2. PICK n \in Nat : /\ Consume(n, ins)
                       /\ ins.stage = "Streaming" => ins.pos < e.off /\ ins.pos + n <= e.off
  <2>1. CASE FeedGap
    <3>1. ins.stage = "Streaming" /\ ins.pos < e.off /\ Consume(MinOf(rest, e.off - ins.pos), ins)
      BY <2>1 DEF FeedGap
    <3>2. e.off \in Nat
      BY <3>1, StreamingFacts
    <3>3. MinOf(rest, e.off - ins.pos) \in Nat /\ ins.pos + MinOf(rest, e.off - ins.pos) <= e.off
      BY <1>1, <3>1, <3>2 DEF MinOf
    <3> QED
      BY <3>1, <3>3
  <2>2. CASE FeedTrailing
    BY <1>1, <2>2 DEF FeedTrailing
  <2> QED
    BY <2>1, <2>2
<1>3. /\ ins'.pos = ins.pos + n /\ ins'.stage = ins.stage /\ ins'.cursor = ins.cursor
      /\ ins'.tik = ins.tik /\ ins'.metaSize = ins.metaSize /\ ins'.ticket = ins.ticket
  BY <1>1, <1>2, Carried
<1>4. Streams
  BY <1>1, <1>2, <1>3, QuietStreams
<1>5. E' = E /\ file' = file /\ HasTable' /\ \A j : Passed(j)' <=> Passed(j)
  BY <1>1, <1>2, <1>3 DEF E, Consume, HasTable, Passed
<1>6. ASSUME NEW j \in DOMAIN E PROVE TicketSeen(j)' <=> TicketSeen(j)
  <2>1. CASE ins.stage = "Streaming"
    <3>1. e.off \in Nat /\ ~(e.off < ins.pos) /\ ~(e.off < ins'.pos)
      BY <1>1, <1>2, <1>3, <2>1, StreamingFacts
    <3> QED
      BY <1>3, <1>5, <3>1 DEF TicketSeen, e
  <2>2. CASE ins.stage = "Complete"
    BY <1>3, <1>5, <2>2 DEF TicketSeen, Passed
  <2> QED
    BY <1>1, <2>1, <2>2 DEF HasTable
<1>7. RegisteredOwn /\ PassedStored /\ MetaSized /\ TicketNoticed /\ Finishing
  BY <1>1 DEF Stored
<1>8. RegisteredOwn' /\ PassedStored' /\ MetaSized'
  BY <1>1, <1>3, <1>5, <1>7 DEF RegisteredOwn, PassedStored, MetaSized
<1>9. TicketNoticed'
  BY <1>1, <1>3, <1>5, <1>6, <1>7 DEF TicketNoticed
<1> QED
  BY <1>4, <1>7, <1>8, <1>9, StreamsFinishing DEF Stored

\* The installer behind a turn in an entry.
LEMMA AfterTurn ==
  ASSUME IInv, NEW kinds, InEntry(kinds), NEW i \in Instances,
         i.stage = ins.stage, i.cursor = ins.cursor, Consume(Take, Advanced(i))
  PROVE  /\ file' = file /\ E' = E /\ HasTable /\ HasTable'
         /\ ins'.pos = ins.pos + Take /\ ins'.tik = i.tik /\ ins'.metaSize = i.metaSize
         /\ ins'.ticket = i.ticket
         /\ Finished => ins'.cursor = ins.cursor + 1
         /\ ~Finished => ins'.cursor = ins.cursor
         /\ \A j \in DOMAIN E : Passed(j)' <=> Passed(j) \/ (Finished /\ j = ins.cursor)
<1> DEFINE stage == IF ins.cursor = Len(E) THEN "Complete" ELSE "Streaming"
           next  == [i EXCEPT !.cursor = @ + 1, !.open = FALSE, !.ncz = FALSE, !.fed = 0,
                              !.stage = stage]
<1>1. ins.stage = "Streaming" /\ ins.pos + Take \in Nat
  BY TakeFacts DEF InEntry
<1>2. ins.cursor \in Nat /\ ins.cursor \in DOMAIN E /\ E \in Seq(Entry)
  BY <1>1, StreamingFacts
<1>3. file' = file /\ E' = E
  BY DEF Consume, E
<1>4. CASE Finished
  <2>1. /\ next \in Instances /\ next.stage = stage /\ next.cursor = ins.cursor + 1
        /\ next.tik = i.tik /\ next.metaSize = i.metaSize /\ next.ticket = i.ticket
    <3>1. i.cursor + 1 \in Nat /\ stage \in Stages
      BY <1>2 DEF Stages
    <3> HIDE DEF stage
    <3> QED
      BY <3>1 DEF Instances
  <2>2. Advanced(i) = next
    BY <1>4 DEF Advanced
  <2> HIDE DEF next, stage
  <2>3. /\ ins'.pos = ins.pos + Take /\ ins'.stage = stage /\ ins'.cursor = ins.cursor + 1
        /\ ins'.tik = i.tik /\ ins'.metaSize = i.metaSize /\ ins'.ticket = i.ticket
    BY <1>1, <2>1, <2>2, Carried
  <2>4. ASSUME NEW j \in DOMAIN E PROVE Passed(j)' <=> Passed(j) \/ j = ins.cursor
    BY <1>1, <1>2, <2>3 DEF Passed, stage
  <2> QED
    BY <1>1, <1>3, <1>4, <2>3, <2>4 DEF HasTable, stage
<1>5. CASE ~Finished
  <2>1. Advanced(i) = i
    BY <1>5 DEF Advanced
  <2>2. /\ ins'.pos = ins.pos + Take /\ ins'.stage = i.stage /\ ins'.cursor = i.cursor
        /\ ins'.tik = i.tik /\ ins'.metaSize = i.metaSize /\ ins'.ticket = i.ticket
    BY <1>1, <2>1, Carried
  <2> QED
    BY <1>1, <1>3, <1>5, <2>2 DEF HasTable, Passed
<1> QED
  BY <1>4, <1>5

\* What a turn in an entry has to do for the invariant: register the content
\* when the entry is through, know its size, and count the ticket.
LEMMA TurnStored ==
  ASSUME IInv, Stored, Packed, NEW kinds, InEntry(kinds), NEW i \in Instances,
         i.stage = ins.stage, i.cursor = ins.cursor, i.ticket = ins.ticket,
         i.tik = ins.tik + (IF e.kind = "Ticket" THEN Take ELSE 0),
         Finished /\ e.kind \in MetaKinds =>
           i.metaSize = IF e.kind = "MetaNcz" THEN e.declared ELSE ins.metaSize,
         ~(Finished /\ e.kind \in MetaKinds) => i.metaSize = ins.metaSize,
         Consume(Take, Advanced(i)),
         RegisteredOwn', be.registered \subseteq be'.registered,
         Finished /\ e.kind \in ContentKinds => e.id \in be'.registered,
         Streams
  PROVE  Stored'
<1>1. /\ ins.stage = "Streaming" /\ active /\ ins.pos \in Nat /\ Take \in Nat
      /\ e.off \in Nat /\ e.size \in Nat /\ e.end \in Nat /\ ins.tik \in Nat
      /\ e.off <= ins.pos /\ file \in Files
      /\ ins.cursor \in DOMAIN E /\ ins.cursor \in Nat /\ E \in Seq(Entry) /\ e = E[ins.cursor]
  BY TakeFacts, StreamingFacts DEF InEntry, e, Instances
<1>0. /\ ins.pos + Take <= e.end /\ (Finished <=> ins.pos + Take = e.end)
      /\ e.end = e.off + e.size
  <2>1. InSequence(file, ins.cursor)
    BY <1>1, PackedFacts DEF E
  <2> QED
    BY <2>1, AlignedTake
<1>2. RegisteredOwn /\ PassedStored /\ MetaSized /\ TicketNoticed /\ Finishing
  BY <1>1 DEF Stored
<1>3. /\ file' = file /\ E' = E /\ HasTable /\ HasTable'
      /\ ins'.pos = ins.pos + Take /\ ins'.tik = i.tik /\ ins'.metaSize = i.metaSize
      /\ ins'.ticket = i.ticket
      /\ Finished => ins'.cursor = ins.cursor + 1
      /\ ~Finished => ins'.cursor = ins.cursor
      /\ \A j \in DOMAIN E : Passed(j)' <=> Passed(j) \/ (Finished /\ j = ins.cursor)
  BY AfterTurn
<1>4. PassedStored'
  BY <1>1, <1>2, <1>3 DEF PassedStored
<1>5. MetaSized'
  <2>1. ASSUME NEW j \in DOMAIN E, E[j].kind \in MetaKinds
        PROVE  ins'.metaSize = IF E[j].kind = "MetaNcz" /\ Passed(j)' THEN E[j].declared ELSE E[j].size
    <3>1. ins.metaSize = IF E[j].kind = "MetaNcz" /\ Passed(j) THEN E[j].declared ELSE E[j].size
      BY <1>2, <1>3, <2>1 DEF MetaSized
    <3>2. CASE Finished /\ e.kind \in MetaKinds
      <4>2. j = ins.cursor
        BY <1>1, <2>1, <3>2, PackedFacts DEF E
      <4>3. ~Passed(j)
        BY <1>1, <4>2 DEF Passed
      <4> QED
        BY <1>1, <1>3, <2>1, <3>1, <3>2, <4>2, <4>3
    <3>3. CASE ~(Finished /\ e.kind \in MetaKinds)
      <4>1. ins'.metaSize = ins.metaSize
        BY <1>3, <3>3
      <4>2. Passed(j)' <=> Passed(j)
        BY <1>1, <1>3, <2>1, <3>3
      <4> QED
        BY <3>1, <4>1, <4>2
    <3> QED
      BY <3>2, <3>3
  <2> QED
    BY <1>3, <2>1 DEF MetaSized
<1>6. TicketNoticed'
  <2>1. ASSUME NEW j \in DOMAIN E
        PROVE  TicketSeen(j)' <=> TicketSeen(j) \/ (j = ins.cursor /\ e.kind = "Ticket" /\ Take > 0)
    <3>1. CASE j = ins.cursor
      <4>1. ~Passed(j)
        BY <1>1, <3>1 DEF Passed
      <4>2. e.size > 0 <=> e.off < e.end
        <5>1. e.off \in Nat /\ e.size \in Nat /\ e.end = e.off + e.size
          BY <1>0, <1>1
        <5> QED
          BY <5>1
      <4>3. TicketSeen(j)' <=> e.kind = "Ticket" /\ e.size > 0 /\ (Finished \/ e.off < ins.pos + Take)
        BY <1>1, <1>3, <3>1, <4>1 DEF TicketSeen
      <4>4. TicketSeen(j) <=> e.kind = "Ticket" /\ e.size > 0 /\ e.off < ins.pos
        BY <1>1, <3>1, <4>1 DEF TicketSeen
      <4> QED
        BY <1>0, <1>1, <3>1, <4>2, <4>3, <4>4
    <3>2. CASE j # ins.cursor
      <4>1. Passed(j)' <=> Passed(j)
        BY <1>3, <3>2
      <4>2. ~(j = ins'.cursor /\ E[j].off < ins'.pos)
        <5>1. CASE Finished /\ j = ins.cursor + 1
          <6>1. e.end <= E[j].off /\ E[j].off \in Nat
            <7>1. j \in DOMAIN Entries(file) /\ ins.cursor \in 1 .. j - 1
              BY <1>1, <5>1 DEF E
            <7>2. InSequence(file, j)
              BY <1>1, <7>1, PackedFacts
            <7> QED
              BY <1>1, <7>1, <7>2, SequenceFacts, EntryFacts DEF E
          <6> QED
            BY <1>0, <1>1, <1>3, <5>1, <6>1
        <5>2. CASE ~(Finished /\ j = ins.cursor + 1)
          BY <1>3, <3>2, <5>2
        <5> QED
          BY <5>1, <5>2
      <4> QED
        BY <1>3, <3>2, <4>1, <4>2 DEF TicketSeen
    <3> QED
      BY <3>1, <3>2
  <2>2. ins.tik > 0 <=> \E j \in DOMAIN E : TicketSeen(j)
    BY <1>2, <1>3 DEF TicketNoticed
  <2>3. ins'.tik > 0 <=> ins.tik > 0 \/ (e.kind = "Ticket" /\ Take > 0)
    BY <1>1, <1>3
  <2>4. ins'.tik > 0 <=> \E j \in DOMAIN E : TicketSeen(j)'
    BY <1>1, <2>1, <2>2, <2>3
  <2> QED
    BY <1>3, <2>4 DEF TicketNoticed
<1> QED
  BY <1>2, <1>4, <1>5, <1>6, StreamsFinishing DEF Stored

\* A ticket is counted, a certificate is not.
LEMMA BlobStored ==
  ASSUME IInv, Stored, Packed, FeedBlob
  PROVE  (Undoes /\ ~active' /\ records' = records) \/ (Streams /\ Stored')
<1> DEFINE kinds == {"Ticket", "Cert"}
           i == IF e.kind = "Ticket" THEN [ins EXCEPT !.tik = @ + Take]
                                     ELSE [ins EXCEPT !.cert = @ + Take]
<1>1. InEntry(kinds) /\ ins.stage = "Streaming" /\ e.kind \in kinds /\ pc = "feed"
  BY DEF FeedBlob, InEntry
<1>2. /\ ins \in Instances /\ ins.tik \in Nat /\ ins.cert \in Nat /\ Take \in Nat /\ active
      /\ e.kind \notin ContentKinds /\ e.kind \notin MetaKinds
  BY <1>1, StreamingFacts, TakeFacts DEF Instances, ContentKinds, MetaKinds
<1>3. CASE Fail
  BY <1>3, FailUndoes DEF Fail
<1>4. CASE ~Fail
  <2>1. Consume(Take, Advanced(i)) /\ UNCHANGED <<be, content>>
    BY <1>4 DEF FeedBlob
  <2>2. /\ i \in Instances /\ i.stage = ins.stage /\ i.cursor = ins.cursor
        /\ i.ticket = ins.ticket /\ i.metaSize = ins.metaSize
        /\ i.tik = ins.tik + (IF e.kind = "Ticket" THEN Take ELSE 0)
    <3>1. CASE e.kind = "Ticket"
      BY <1>2, <3>1 DEF Instances
    <3>2. CASE e.kind # "Ticket"
      BY <1>2, <3>2 DEF Instances
    <3> QED
      BY <3>1, <3>2
  <2> HIDE DEF i, kinds
  <2>3. ins'.ticket = ins.ticket
    BY <1>1, <2>1, <2>2, AfterTurn
  <2>4. Streams
    BY <1>1, <2>1, <2>3, QuietStreams
  <2>5. RegisteredOwn' /\ be.registered \subseteq be'.registered
    BY <1>2, <2>1 DEF Stored, RegisteredOwn, Consume
  <2>6. Stored'
    BY <1>1, <1>2, <2>1, <2>2, <2>4, <2>5, TurnStored
  <2> QED
    BY <2>4, <2>6
<1> QED
  BY <1>3, <1>4

\* A placeholder that is registered, and one that stays open.
LEMMA RegisterStreams ==
  ASSUME IInv, Stored, ins.stage = "Streaming", pc = "feed", e.kind \in ContentKinds,
         NEW ph, ph.id = e.id, Register(ph), NEW n, NEW i, Consume(n, i),
         ins'.ticket = ins.ticket
  PROVE  /\ Streams /\ RegisteredOwn' /\ be.registered \subseteq be'.registered
         /\ e.id \in be'.registered
<1>1. /\ active /\ file \in Files /\ be \in Backends /\ e.id \in ContentsOf(file)
  BY StreamingFacts, EntryContent DEF E, e
<1>2. /\ be'.registered = be.registered \cup {e.id} /\ be'.saved = be.saved
      /\ be'.committed = be.committed
  BY <1>1 DEF Register, Backends
<1>3. /\ DOMAIN content' = DOMAIN content \cup {e.id}
      /\ content'[e.id].from = file
      /\ \A c \in DOMAIN content \ {e.id} : content'[c] = content[c]
  BY DEF Register
<1>4. RegisteredOwn
  BY <1>1 DEF Stored
<1>5. file' = file
  BY DEF Consume
<1>6. RegisteredOwn'
  <2>1. be'.registered \subseteq ContentsOf(file)
    BY <1>1, <1>2, <1>4 DEF RegisteredOwn
  <2>2. ASSUME NEW c \in be'.registered PROVE c \in DOMAIN content' /\ content'[c].from = file
    <3>1. CASE c = e.id
      BY <1>3, <3>1
    <3>2. CASE c # e.id
      BY <1>2, <1>3, <1>4, <2>2, <3>2 DEF RegisteredOwn
    <3> QED
      BY <3>1, <3>2
  <2> QED
    BY <1>5, <2>1, <2>2 DEF RegisteredOwn
<1>7. Streams
  <2>1. /\ be.registered \subseteq be'.registered
        /\ \A c \in DOMAIN content : c \in DOMAIN content'
        /\ \A c \in DOMAIN content' : c \in be'.registered
                                        \/ (c \in DOMAIN content /\ content'[c] = content[c])
    BY <1>2, <1>3
  <2> QED
    BY <1>2, <2>1 DEF Streams, Consume
<1> QED
  BY <1>2, <1>6, <1>7

LEMMA HoldStreams ==
  ASSUME IInv, Stored, ins.stage = "Streaming", pc = "feed",
         NEW ph, Hold(ph), NEW n, NEW i, Consume(n, i), ins'.ticket = ins.ticket
  PROVE  Streams /\ RegisteredOwn' /\ be.registered \subseteq be'.registered
<1>1. active /\ be \in Backends
  BY StreamingFacts
<1>2. /\ be'.registered = be.registered /\ be'.saved = be.saved
      /\ be'.committed = be.committed /\ content' = content
  BY <1>1 DEF Hold, Backends
<1>3. RegisteredOwn
  BY <1>1 DEF Stored
<1> QED
  BY <1>2, <1>3 DEF RegisteredOwn, Streams, Consume

LEMMA NcaStored ==
  ASSUME IInv, Stored, Packed, FeedNca
  PROVE  (Undoes /\ ~active' /\ records' = records) \/ (Streams /\ Stored')
<1> DEFINE kinds == {"Nca", "MetaNca"}
           ph    == WritePlaceHolder(Placeholder, Take, ins.pos)
           next  == [ins EXCEPT !.open = TRUE]
<1>1. /\ InEntry(kinds) /\ ins.stage = "Streaming" /\ pc = "feed"
      /\ e.kind \in ContentKinds /\ e.kind # "MetaNcz" /\ e.kind # "Ticket"
  BY DEF FeedNca, InEntry, ContentKinds
<1>2. /\ ins \in Instances /\ be \in Backends /\ ins.tik \in Nat
      /\ ins.open => be.ph.id = e.id
  BY <1>1, StreamingFacts DEF IInv, StreamInv, Instances
<1>3. /\ next \in Instances /\ next.stage = ins.stage /\ next.cursor = ins.cursor
      /\ next.ticket = ins.ticket /\ next.metaSize = ins.metaSize
      /\ next.tik = ins.tik + (IF e.kind = "Ticket" THEN Take ELSE 0)
  <2>1. /\ next \in Instances /\ next.stage = ins.stage /\ next.cursor = ins.cursor
        /\ next.ticket = ins.ticket /\ next.metaSize = ins.metaSize /\ next.tik = ins.tik
    BY <1>2 DEF Instances
  <2> HIDE DEF next
  <2> QED
    BY <1>1, <1>2, <2>1
<1>4. ph.id = e.id
  <2>1. CASE ins.open
    BY <1>2, <2>1 DEF WritePlaceHolder, Placeholder, Backends, PlaceHolders
  <2>2. CASE ~ins.open
    BY <2>2 DEF WritePlaceHolder, Placeholder, NoPlaceHolder
  <2> QED
    BY <2>1, <2>2
<1> HIDE DEF ph, next, kinds
<1>5. CASE Fail
  BY <1>5, FailUndoes DEF Fail
<1>6. CASE FailWith(Without(content, {e.id})) /\ UNCHANGED records
  BY <1>1, <1>6, UnregisteredUndoes
<1>7. ASSUME Consume(Take, Advanced(next)), IF Finished THEN Register(ph) ELSE Hold(ph)
      PROVE  Streams /\ Stored'
  <2>1. ins'.ticket = ins.ticket
    BY <1>1, <1>3, <1>7, AfterTurn
  <2>2. /\ Streams /\ RegisteredOwn' /\ be.registered \subseteq be'.registered
        /\ Finished => e.id \in be'.registered
    BY <1>1, <1>4, <1>7, <2>1, RegisterStreams, HoldStreams
  <2> QED
    BY <1>1, <1>3, <1>7, <2>2, TurnStored
<1> QED
  BY <1>5, <1>6, <1>7 DEF FeedNca, ph, next

\* A compressed NCA whose section table is there is registered when its entry
\* is through, and its size is known.
LEMMA NczStored ==
  ASSUME IInv, Stored, Packed, PreludesWhole, FeedNcz
  PROVE  (Undoes /\ ~active' /\ records' = records) \/ (Streams /\ Stored')
<1>1. /\ InEntry(CompressedKinds) /\ ins.stage = "Streaming" /\ pc = "feed"
      /\ e.kind \in CompressedKinds /\ e.kind \in ContentKinds /\ e.kind # "Ticket"
      /\ e.kind \in MetaKinds => e.kind = "MetaNcz"
  BY DEF FeedNcz, InEntry, ContentKinds, CompressedKinds, MetaKinds
<1>2. /\ ins \in Instances /\ be \in Backends /\ ins.tik \in Nat /\ ins.metaSize \in Nat
      /\ ins.out \in Nat /\ e.declared \in Nat /\ e.declared > 0 /\ e.out \in Nat
      /\ ins.open \in BOOLEAN /\ active /\ Take \in Nat
      /\ ins.open => be.ph.id = e.id /\ ins.ncz /\ ins.out > 0
  BY <1>1, StreamingFacts, TakeFacts DEF IInv, StreamInv, Instances
<1>3. Finished => NczSize = e.declared
  <2>1. e.prelude <= e.size
    BY <1>1, StreamingFacts DEF PreludesWhole, E, e
  <2>2. Finished => Consumed = e.size
    <3>1. /\ InSequence(file, ins.cursor) /\ e.off <= ins.pos
          /\ ins.pos \in Nat /\ ins.fed \in Nat /\ e.off \in Nat /\ e.size \in Nat
      BY <1>1, TakeFacts, StreamingFacts, PackedFacts DEF E
    <3>2. Finished => ins.pos + Take = e.off + e.size
      BY <1>1, <3>1, AlignedTake
    <3>3. ins.fed = ins.pos - e.off
      <4>1. CASE ins.ncz
        BY <1>1, <3>1, <4>1 DEF IInv, AlignedInv
      <4>2. CASE ~ins.ncz
        <5>1. ins.fed = 0 /\ ins.pos <= e.off
          BY <1>1, <3>1, <4>2 DEF IInv, AlignedInv, StageInv
        <5> QED
          BY <3>1, <5>1
      <4> QED
        BY <4>1, <4>2, <1>1, StreamingFacts
    <3> QED
      BY <1>2, <3>1, <3>2, <3>3 DEF Consumed
  <2>3. e.prelude \in Nat /\ e.size \in Nat
    BY <1>1, StreamingFacts
  <2> QED
    BY <2>1, <2>2, <2>3 DEF NczSize
<1>4. CASE Fail
  BY <1>4, FailUndoes DEF Fail
<1>5. CASE FailWith(Without(content, {e.id})) /\ UNCHANGED records
  BY <1>1, <1>5, UnregisteredUndoes
<1>6. ASSUME NEW n \in Nat, Finished => Out0 + n = NczSize,
             Consume(Take, Advanced(
               [ins EXCEPT !.ncz = TRUE, !.fed = Consumed, !.out = Out0 + n,
                  !.open = ins.open \/ n > 0,
                  !.metaSize = IF Finished /\ e.kind \in MetaKinds /\ NczSize > 0
                                 THEN NczSize ELSE @])),
             IF ~(ins.open \/ n > 0) THEN UNCHANGED <<be, content>>
             ELSE LET ph == WritePlaceHolder(Placeholder, n, Out0) IN
                  IF Finished THEN Register(ph) ELSE Hold(ph)
      PROVE  Streams /\ Stored'
  <2> DEFINE opened == ins.open \/ n > 0
             ph     == WritePlaceHolder(Placeholder, n, Out0)
             size   == IF Finished /\ e.kind \in MetaKinds /\ NczSize > 0
                         THEN NczSize ELSE ins.metaSize
             next   == [ins EXCEPT !.ncz = TRUE, !.fed = Consumed, !.out = Out0 + n,
                                   !.open = opened, !.metaSize = size]
  <2>1. Consume(Take, Advanced(next))
    BY <1>6
  <2>2. /\ size \in Nat /\ Out0 + n \in Nat /\ opened \in BOOLEAN /\ Out0 \in Nat
        /\ Consumed \in Nat
    <3>1. ins.fed \in Nat /\ ins.ncz \in BOOLEAN
      BY <1>1, StreamingFacts
    <3>2. Out0 \in Nat
      BY <1>2 DEF Out0
    <3>3. Consumed \in Nat
      BY <1>2, <3>1 DEF Consumed
    <3>4. NczSize \in Nat
      BY <1>2 DEF NczSize
    <3> QED
      BY <1>2, <3>2, <3>3, <3>4
  <2>3. Finished => opened
    <3>1. ~ins.open => Out0 = 0
      BY <1>1 DEF IInv, StreamInv, Out0
    <3> QED
      BY <1>2, <1>3, <1>6, <3>1
  <2>4. /\ Finished /\ e.kind \in MetaKinds =>
             size = IF e.kind = "MetaNcz" THEN e.declared ELSE ins.metaSize
        /\ ~(Finished /\ e.kind \in MetaKinds) => size = ins.metaSize
    BY <1>1, <1>2, <1>3
  <2>5. ph.id = e.id
    <3>1. CASE ins.open
      BY <1>2, <3>1 DEF WritePlaceHolder, Placeholder, Backends, PlaceHolders
    <3>2. CASE ~ins.open
      BY <3>2 DEF WritePlaceHolder, Placeholder, NoPlaceHolder
    <3> QED
      BY <3>1, <3>2
  <2>6. IF ~opened THEN UNCHANGED <<be, content>>
        ELSE IF Finished THEN Register(ph) ELSE Hold(ph)
    BY <1>6
  <2> HIDE DEF size, opened, ph
  <2>7. /\ next \in Instances /\ next.stage = ins.stage /\ next.cursor = ins.cursor
        /\ next.ticket = ins.ticket /\ next.metaSize = size /\ next.tik = ins.tik
    BY <1>2, <2>2 DEF Instances
  <2> HIDE DEF next
  <2>8. next.tik = ins.tik + (IF e.kind = "Ticket" THEN Take ELSE 0)
    BY <1>1, <1>2, <2>7
  <2>9. ins'.ticket = ins.ticket
    BY <1>1, <2>1, <2>7, AfterTurn
  <2>10. /\ Streams /\ RegisteredOwn' /\ be.registered \subseteq be'.registered
         /\ Finished => e.id \in be'.registered
    <3>1. CASE opened
      BY <1>1, <2>1, <2>5, <2>6, <2>9, <3>1, RegisterStreams, HoldStreams
    <3>2. CASE ~opened
      <4>1. UNCHANGED <<be, content>> /\ ~Finished
        BY <2>3, <2>6, <3>2
      <4>2. RegisteredOwn' /\ be.registered \subseteq be'.registered
        BY <1>2, <2>1, <4>1 DEF Stored, RegisteredOwn, Consume
      <4> QED
        BY <1>1, <2>1, <2>9, <4>1, <4>2, QuietStreams
    <3> QED
      BY <3>1, <3>2
  <2>11. Stored'
    BY <1>1, <2>1, <2>4, <2>7, <2>8, <2>10, TurnStored
  <2> QED
    BY <2>10, <2>11
<1>7. ASSUME ~Fail, ~(FailWith(Without(content, {e.id})) /\ UNCHANGED records)
      PROVE  Streams /\ Stored'
  <2>1. PICK n \in IF Consumed < e.prelude THEN {0}
                   ELSE IF Finished THEN {e.out - Out0} ELSE 0 .. (e.out - Out0) :
          /\ ~(Finished /\ Out0 + n # NczSize)
          /\ Consume(Take, Advanced(
               [ins EXCEPT !.ncz = TRUE, !.fed = Consumed, !.out = Out0 + n,
                  !.open = ins.open \/ n > 0,
                  !.metaSize = IF Finished /\ e.kind \in MetaKinds /\ NczSize > 0
                                 THEN NczSize ELSE @]))
          /\ IF ~(ins.open \/ n > 0) THEN UNCHANGED <<be, content>>
             ELSE LET ph == WritePlaceHolder(Placeholder, n, Out0) IN
                  IF Finished THEN Register(ph) ELSE Hold(ph)
    <3>1. PICK n \in IF Consumed < e.prelude THEN {0}
                     ELSE IF Finished THEN {e.out - Out0} ELSE 0 .. (e.out - Out0),
               decodes \in IF Skewed THEN BOOLEAN ELSE Outcomes("ncz"),
               created \in IF ins.open THEN {TRUE} ELSE Outcomes("create"),
               written \in Outcomes("write"),
               registered \in Outcomes("register") :
            LET rejected == \/ ~ins.decoder \/ ~decodes
                            \/ n > 0 /\ ~(created /\ written)
                            \/ Out0 + n > NczSize
                            \/ Finished /\ Out0 + n # NczSize
                next     == [ins EXCEPT !.ncz = TRUE, !.fed = Consumed, !.out = Out0 + n,
                               !.open = ins.open \/ n > 0,
                               !.metaSize = IF Finished /\ e.kind \in MetaKinds /\ NczSize > 0
                                              THEN NczSize ELSE @]
                ph       == WritePlaceHolder(Placeholder, n, Out0)
            IN IF rejected THEN Fail
               ELSE IF Finished /\ (ins.open \/ n > 0) /\ ~registered
                      THEN FailWith(Without(content, {e.id})) /\ UNCHANGED records
               ELSE /\ Consume(Take, Advanced(next))
                    /\ IF ~(ins.open \/ n > 0) THEN UNCHANGED <<be, content>>
                       ELSE IF Finished THEN Register(ph) ELSE Hold(ph)
      BY DEF FeedNcz, Out0
    <3> QED
      BY <3>1, <1>7
  <2>2. n \in Nat
    <3>1. Out0 <= e.out /\ Out0 \in Nat
      BY <1>1, <1>2 DEF IInv, StreamInv, Out0
    <3> QED
      BY <1>2, <2>1, <3>1
  <2> QED
    BY <1>6, <2>1, <2>2
<1> QED
  BY <1>4, <1>5, <1>7

\* A turn of the feed loop undoes the transfer or takes it on.
LEMMA FeedStored ==
  ASSUME IInv, Stored, Packed, PreludesWhole, FeedStep
  PROVE  (Undoes /\ ~active' /\ records' = records) \/ (Streams /\ Stored')
BY MagicStored, HeaderStored, PaddingStored, BlobStored, NcaStored, NczStored DEF FeedStep

-----------------------------------------------------------------------------
\* The steps of nexusInstallFinish: one undoes the transfer, ends it with its
\* record pushed, or goes on and has Finishing say what it knows.

\* By the time Finish runs, everything of the container is registered.
LEMMA AllRegistered ==
  ASSUME IInv, Stored, pc \in Steps
  PROVE  /\ active /\ file \in Files /\ ins.stage = "Complete" /\ HasTable
         /\ be.registered = ContentsOf(file)
         /\ \A j \in DOMAIN E : Passed(j)
<1>1. active /\ file \in Files /\ ins.stage = "Complete" /\ HasTable
  BY ActiveFacts DEF IInv, StageInv, HasTable
<1>2. \A j \in DOMAIN E : Passed(j)
  BY <1>1 DEF Passed
<1>3. ASSUME NEW i \in ContentsOf(file) PROVE i \in be.registered
  <2>1. PICK j \in DOMAIN E : E[j].id = i /\ E[j].kind \in ContentKinds
    BY <1>3 DEF ContentsOf, Range, E
  <2> QED
    BY <1>1, <1>2, <2>1 DEF Stored, PassedStored
<1> QED
  BY <1>1, <1>2, <1>3 DEF Stored, RegisteredOwn

\* What stays as it is from one step of Finish to the next.
LEMMA GoToStored ==
  ASSUME IInv, Stored, pc \in Steps, NEW step \in Steps, NEW i, NEW b, GoTo(step, i, b),
         i.stage = ins.stage, i.cursor = ins.cursor, i.tik = ins.tik, i.pos = ins.pos,
         i.metaSize = ins.metaSize, b.registered = be.registered, Finishing'
  PROVE  Stored'
<1>1. active /\ HasTable
  BY AllRegistered
<1>2. /\ file' = file /\ content' = content /\ ins' = i /\ be' = b
  BY DEF GoTo
<1>3. E' = E /\ HasTable' /\ \A j : /\ Passed(j)' <=> Passed(j)
                                    /\ TicketSeen(j)' <=> TicketSeen(j)
  BY <1>1, <1>2 DEF E, HasTable, Passed, TicketSeen
<1>4. RegisteredOwn /\ PassedStored /\ MetaSized /\ TicketNoticed
  BY <1>1 DEF Stored
<1>5. RegisteredOwn' /\ PassedStored' /\ MetaSized' /\ TicketNoticed'
  BY <1>1, <1>2, <1>3, <1>4 DEF RegisteredOwn, PassedStored, MetaSized, TicketNoticed
<1> QED
  BY <1>5 DEF Stored

\* The ticket is imported if the container has one.
LEMMA TicketStored ==
  ASSUME IInv, Stored, ImportTicket
  PROVE  \/ Undoes /\ ~active' /\ records' = records
         \/ /\ Stored' /\ pc' = "cnmt" /\ be' = be
            /\ tickets' = IF Ticketed(file) THEN tickets \cup {title} ELSE tickets
            /\ ins'.ticket <=> Readable(file)
            /\ UNCHANGED <<active, file, content, stale, metas, durable, records, owned, crashes>>
<1>1. pc = "ticket" /\ pc \in Steps
  BY DEF ImportTicket, At, Steps
<1>2. active /\ file \in Files /\ ins \in Instances /\ Finishing /\ TicketNoticed /\ HasTable
  BY <1>1, AllRegistered DEF IInv, TypeOK, Stored
<1>3. ins.tik > 0 <=> Ticketed(file)
  <2>1. \A j \in DOMAIN E : Passed(j)
    BY <1>1, AllRegistered
  <2> QED
    BY <1>2, <2>1 DEF TicketNoticed, TicketSeen, Ticketed, E
<1>4. CASE Fail
  BY <1>4, FailUndoes DEF Fail
<1>5. CASE ~Fail
  <2> DEFINE i == [ins EXCEPT !.ticket = TicketRead]
  <2>1. /\ GoTo("cnmt", i, be) /\ UNCHANGED <<metas, durable, records>>
        /\ tickets' = IF ins.tik > 0 THEN tickets \cup {title} ELSE tickets
    BY <1>5 DEF ImportTicket
  <2>2. /\ i.stage = ins.stage /\ i.cursor = ins.cursor /\ i.tik = ins.tik
        /\ i.pos = ins.pos /\ i.metaSize = ins.metaSize /\ (i.ticket <=> TicketRead)
    BY <1>2 DEF Instances
  <2> HIDE DEF i
  <2>3. /\ pc' = "cnmt" /\ be' = be /\ file' = file /\ (ins'.ticket <=> Readable(file))
        /\ UNCHANGED <<active, file, content, stale, owned, crashes>>
    BY <1>3, <2>1, <2>2 DEF GoTo, TicketRead, Readable
  <2>4. Finishing'
    BY <1>1, <1>2, <2>3 DEF Finishing, Steps
  <2>5. Stored'
    BY <1>1, <2>1, <2>2, <2>4, GoToStored DEF Steps
  <2> QED
    BY <1>3, <2>1, <2>3, <2>5
<1> QED
  BY <1>4, <1>5

\* What the CNMT lists is in the container.
LEMMA CnmtStored ==
  ASSUME IInv, Stored, ReadCnmt
  PROVE  \/ Undoes /\ ~active' /\ records' = records
         \/ /\ Stored' /\ pc' = "set" /\ ins' = ins /\ be' = be
            /\ UNCHANGED <<active, file, content, stale, metas, durable, records, tickets,
                           owned, crashes>>
<1>1. pc = "cnmt" /\ pc \in Steps
  BY DEF ReadCnmt, At, Steps
<1>2. active /\ file \in Files /\ Finishing /\ \E x \in Range(E) : x.kind \in MetaKinds
  BY <1>1, AllRegistered DEF Stored, IInv, StageInv
<1>3. CASE Fail
  BY <1>3, FailUndoes DEF Fail
<1>4. CASE ~Fail
  <2>1. /\ GoTo("set", ins, be) /\ UNCHANGED <<metas, durable, records, tickets>>
        /\ ListedBy(file) \subseteq ContentsOf(file)
    BY <1>4 DEF ReadCnmt
  <2>2. Listed(file) \subseteq ContentsOf(file)
    <3>1. MetaEntry(file) \in Range(Entries(file)) /\ MetaEntry(file).kind \in MetaKinds
      BY <1>2, MetaEntryFacts DEF E
    <3>2. MetaEntry(file).id \in ContentsOf(file)
      BY <3>1 DEF ContentsOf, MetaKinds, ContentKinds
    <3> QED
      BY <2>1, <3>2 DEF Listed
  <2>3. /\ pc' = "set" /\ ins' = ins /\ be' = be
        /\ UNCHANGED <<active, file, content, stale, owned, crashes>>
    BY <2>1 DEF GoTo
  <2>4. Finishing'
    BY <1>1, <1>2, <2>2, <2>3 DEF Finishing, Steps
  <2>5. Stored'
    BY <1>1, <2>1, <2>4, GoToStored DEF Steps
  <2> QED
    BY <2>1, <2>3, <2>5
<1> QED
  BY <1>3, <1>4

\* Set and Commit.
LEMMA MetaStored ==
  ASSUME IInv, Stored, SetMeta \/ CommitMeta
  PROVE  \/ Undoes /\ ~active' /\ records' = records
         \/ /\ Stored' /\ active /\ pc' \in {"commit", "read"} /\ ins' = ins
            /\ be'.registered = be.registered /\ be'.saved = be.saved
            /\ \/ /\ metas' = {m \in metas : m.title # title} \cup {MetaRecord}
                  /\ durable' = durable
               \/ metas' = metas /\ durable' = metas
            /\ UNCHANGED <<active, file, content, stale, records, tickets, owned, crashes>>
<1>1. pc \in {"set", "commit"} /\ pc \in Steps
  BY DEF SetMeta, CommitMeta, At, Steps
<1>2. active /\ Finishing /\ be \in Backends
  BY <1>1, AllRegistered DEF Stored, IInv, TypeOK
<1>3. CASE Fail
  BY <1>3, FailUndoes DEF Fail
<1>4. CASE SetMeta /\ ~Fail
  <2>1. /\ GoTo("commit", ins, be) /\ UNCHANGED <<durable, records, tickets>>
        /\ metas' = {m \in metas : m.title # title} \cup {MetaRecord} /\ pc = "set"
    BY <1>4 DEF SetMeta, MetaRecord, At
  <2>2. /\ pc' = "commit" /\ ins' = ins /\ be' = be
        /\ UNCHANGED <<active, file, content, stale, owned, crashes>>
    BY <2>1 DEF GoTo
  <2>3. MetaRecord' = MetaRecord
    BY <2>2 DEF MetaRecord, title
  <2>4. MetaRecord' \in metas'
    BY <2>1, <2>3
  <2>5. Finishing'
    BY <1>2, <2>1, <2>2, <2>4 DEF Finishing, Steps
  <2>6. Stored'
    BY <1>1, <2>1, <2>5, GoToStored DEF Steps
  <2> QED
    BY <1>2, <2>1, <2>2, <2>6
<1>5. CASE CommitMeta /\ ~Fail
  <2> DEFINE b == [be EXCEPT !.committed = TRUE]
  <2>1. /\ GoTo("read", ins, b) /\ durable' = metas /\ UNCHANGED <<metas, records, tickets>>
        /\ pc = "commit"
    BY <1>5 DEF CommitMeta, At
  <2>2. b.committed = TRUE /\ b.registered = be.registered /\ b.saved = be.saved
    BY <1>2 DEF Backends
  <2> HIDE DEF b
  <2>3. /\ pc' = "read" /\ ins' = ins /\ be' = b
        /\ UNCHANGED <<active, file, content, stale, owned, crashes>>
    BY <2>1 DEF GoTo
  <2>4. MetaRecord' = MetaRecord
    BY <2>3 DEF MetaRecord, title
  <2>5. Finishing'
    BY <1>2, <2>1, <2>2, <2>3, <2>4 DEF Finishing, Steps
  <2>6. Stored'
    BY <1>1, <2>1, <2>2, <2>5, GoToStored DEF Steps
  <2> QED
    BY <1>2, <2>1, <2>2, <2>3, <2>6
<1> QED
  BY <1>3, <1>4, <1>5

\* What stays of everything but the running call.
Quiet ==
  /\ ins' = ins /\ be' = be /\ stale' \in {stale, 0}
  /\ UNCHANGED <<active, file, content, metas, durable, records, tickets, owned, crashes>>

\* A transfer that takes another's place has put nothing on the console yet.
LEMMA BeginStored ==
  ASSUME NEW f \in Files, WriteBegin(f)
  PROVE  /\ Undoes /\ Stored' /\ file' = f /\ be' = BlankBe /\ ~ins'.ticket
         /\ records' = records
<1>1. /\ pc = "idle" /\ pc' = pc /\ file' = f /\ be' = BlankBe /\ RollbackInto(content)
      /\ UNCHANGED <<stale, records, owned, crashes>>
  BY DEF WriteBegin
<1>2. ins'.stage = "Magic" /\ ins'.tik = 0 /\ ins'.ticket = FALSE
  BY DEF WriteBegin, BlankIns
<1>3. Undoes
  BY <1>1, RollbackUndoes
<1>4. RegisteredOwn' /\ ~HasTable' /\ be'.committed = FALSE
  BY <1>1, <1>2 DEF RegisteredOwn, HasTable, BlankBe
<1>5. PassedStored' /\ MetaSized' /\ TicketNoticed' /\ Finishing'
  BY <1>1, <1>2, <1>4 DEF PassedStored, MetaSized, TicketNoticed, Finishing, Steps
<1> QED
  BY <1>1, <1>2, <1>3, <1>4, <1>5 DEF Stored

\* The other entry points of the store, the placeholder cleanup and a stutter.
LEMMA StoreStored ==
  ASSUME IInv, Stored,
         \/ Finish \/ Cancel \/ (\E n \in 1 .. MaxChunk : WriteChunk(n))
         \/ CleanPlaceholders \/ UNCHANGED vars
  PROVE  (Undoes /\ ~active' /\ records' = records) \/ (Quiet /\ Stored')
<1>1. CASE Fail
  BY <1>1, FailUndoes DEF Fail
<1>2. CASE ~Fail
  <2>1. Quiet /\ (pc' = pc \/ (pc = "idle" /\ pc' \in {"feed", "ticket"}))
    BY <1>2 DEF Finish, Cancel, WriteChunk, CleanPlaceholders, Quiet, vars, volatile, console
  <2>2. /\ E' = E /\ HasTable' = HasTable /\ title' = title /\ MetaRecord' = MetaRecord
        /\ \A j : (Passed(j)' <=> Passed(j)) /\ (TicketSeen(j)' <=> TicketSeen(j))
    BY <2>1 DEF Quiet, E, HasTable, title, MetaRecord, Passed, TicketSeen
  <2>3. ASSUME active PROVE Stored'
    <3>1. RegisteredOwn' /\ PassedStored' /\ MetaSized' /\ TicketNoticed'
      BY <2>1, <2>2, <2>3
      DEF Stored, Quiet, RegisteredOwn, PassedStored, MetaSized, TicketNoticed
    <3>2. Finishing'
      BY <2>1, <2>2, <2>3 DEF Stored, Quiet, Finishing, Steps
    <3> QED
      BY <3>1, <3>2 DEF Stored
  <2> QED
    BY <2>1, <2>3 DEF Quiet, Stored
<1> QED
  BY <1>1, <1>2

\* Reading the list of records, and deleting it.
Recording ==
  /\ active /\ ins' = ins /\ be'.registered = be.registered
  /\ \/ be'.saved \subseteq records[title.app] /\ records' = records
     \/ be'.saved = be.saved /\ records' = [records EXCEPT ![title.app] = {}]
  /\ UNCHANGED <<active, file, content, stale, metas, durable, tickets, owned, crashes>>

LEMMA RecordStored ==
  ASSUME IInv, Stored, ReadRecords \/ DeleteRecord
  PROVE  (Undoes /\ ~active' /\ records' = records) \/ (Recording /\ Stored')
<1>1. pc \in {"read", "merge"} /\ pc \in Steps
  BY DEF ReadRecords, DeleteRecord, At, Steps
<1>2. active /\ Finishing /\ be \in Backends
  BY <1>1, AllRegistered DEF Stored, IInv, TypeOK
<1>3. CASE Fail
  BY <1>3, FailUndoes DEF Fail
<1>4. CASE ~Fail
  <2>1. PICK saved : \E step \in {"merge", "push"} :
          /\ GoTo(step, ins, [be EXCEPT !.saved = saved])
          /\ \/ saved \subseteq records[title.app] /\ records' = records
             \/ saved = be.saved /\ records' = [records EXCEPT ![title.app] = {}]
          /\ UNCHANGED <<metas, durable, tickets>>
    <3> DEFINE Goes(saved, step) ==
                 /\ GoTo(step, ins, [be EXCEPT !.saved = saved])
                 /\ \/ saved \subseteq records[title.app] /\ records' = records
                    \/ saved = be.saved /\ records' = [records EXCEPT ![title.app] = {}]
                 /\ UNCHANGED <<metas, durable, tickets>>
    <3>1. ASSUME ReadRecords PROVE \E saved : Goes(saved, "merge")
      <4>1. PICK listed \in Outcomes("list") :
              Goes(IF listed THEN records[title.app] ELSE {}, "merge")
        BY <3>1 DEF ReadRecords
      <4> HIDE DEF Goes
      <4> QED
        BY <4>1
    <3>2. ASSUME DeleteRecord PROVE \E saved : Goes(saved, "push")
      <4>1. /\ GoTo("push", ins, be) /\ UNCHANGED <<metas, durable, tickets>>
            /\ records' = [records EXCEPT ![title.app] = {}]
        BY <3>2, <1>4 DEF DeleteRecord
      <4>2. [be EXCEPT !.saved = be.saved] = be
        BY <1>2 DEF Backends
      <4>3. Goes(be.saved, "push")
        BY <4>1, <4>2
      <4> HIDE DEF Goes
      <4> QED
        BY <4>3
    <3>3. \E saved : \E step \in {"merge", "push"} : Goes(saved, step)
      <4> HIDE DEF Goes
      <4> QED
        BY <3>1, <3>2
    <3> QED
      BY <3>3
  <2> DEFINE b == [be EXCEPT !.saved = saved]
  <2>2. b.committed = be.committed /\ b.registered = be.registered /\ b.saved = saved
    BY <1>2 DEF Backends
  <2>3. PICK step \in {"merge", "push"} : GoTo(step, ins, b)
    BY <2>1
  <2> HIDE DEF b
  <2>4. /\ pc' = step /\ ins' = ins /\ be' = b
        /\ UNCHANGED <<active, file, content, stale, owned, crashes>>
    BY <2>3 DEF GoTo
  <2>5. MetaRecord' = MetaRecord
    BY <2>4 DEF MetaRecord, title
  <2>6. Finishing'
    BY <1>1, <1>2, <2>1, <2>2, <2>4, <2>5 DEF Finishing, Steps
  <2>7. Stored'
    BY <1>1, <2>2, <2>3, <2>6, GoToStored DEF Steps
  <2> QED
    BY <1>2, <2>1, <2>2, <2>4, <2>7 DEF Recording
<1> QED
  BY <1>3, <1>4

\* The push, which ends the transfer either way.
Pushed ==
  /\ pc = "push"
  /\ records' = [records EXCEPT ![title.app] = Others \cup {title}]
  /\ owned' = {t \in owned : ~SameMeta(t, title)} \cup {title}
  /\ UNCHANGED <<content, stale, metas, durable, tickets, crashes>>

LEMMA PushStored ==
  ASSUME IInv, PushRecord
  PROVE  /\ ~active'
         /\ \/ Undoes /\ records' \in {records, [records EXCEPT ![title.app] = be.saved]}
            \/ Pushed
<1>1. CASE FailWith(content) /\ \E restored \in BOOLEAN :
             records' = [records EXCEPT ![title.app] = Restore(restored)]
  <2>1. records' \in {[records EXCEPT ![title.app] = @],
                      [records EXCEPT ![title.app] = be.saved]}
    BY <1>1 DEF Restore
  <2>2. [records EXCEPT ![title.app] = @] = records
    BY DEF IInv, TypeOK
  <2> QED
    BY <1>1, <2>1, <2>2, FailUndoes
<1>2. CASE Pushed /\ Teardown
  BY <1>2 DEF Teardown
<1> QED
  BY <1>1, <1>2 DEF PushRecord, Pushed, At, Outcomes

\* A step that takes a transfer on through its Finish.
Importing ==
  /\ pc' = "cnmt" /\ be' = be
  /\ tickets' = IF Ticketed(file) THEN tickets \cup {title} ELSE tickets
  /\ ins'.ticket <=> Readable(file)
  /\ UNCHANGED <<active, file, content, stale, metas, durable, records, owned, crashes>>

Committing ==
  /\ active /\ be'.registered = be.registered /\ be'.saved = be.saved /\ ins' = ins
  /\ \/ metas' = {m \in metas : m.title # title} \cup {MetaRecord} /\ durable' = durable
     \/ metas' = metas /\ durable' = metas
  /\ UNCHANGED <<active, file, content, stale, records, tickets, owned, crashes>>

\* What a step can do to the console.
Kinds ==
  \/ /\ Undoes /\ ~active'
     /\ records' \in {records, [records EXCEPT ![title.app] = be.saved]}
  \/ \E f \in Files : /\ Undoes /\ WriteBegin(f) /\ file' = f /\ be' = BlankBe
                      /\ ~ins'.ticket /\ records' = records
  \/ Streams \/ Quiet \/ Importing \/ Committing \/ Recording
  \/ Pushed /\ ~active'
  \/ Crash

\* What a transfer has put on the console is always known, and each step is of
\* one of these kinds.
LEMMA StoredInduction ==
  ASSUME IInv, Stored, Packed, PreludesWhole, [Next]_vars
  PROVE  Stored' /\ Kinds
<1> USE DEF Kinds
<1>1. CASE \E f \in Files : WriteBegin(f)
  BY <1>1, BeginStored
<1>2. CASE \/ Finish \/ Cancel \/ (\E n \in 1 .. MaxChunk : WriteChunk(n))
           \/ CleanPlaceholders \/ UNCHANGED vars
  BY <1>2, StoreStored DEF Stored
<1>3. CASE FeedStep
  BY <1>3, FeedStored DEF Stored
<1>4. CASE ImportTicket
  BY <1>4, TicketStored DEF Stored, Importing
<1>5. CASE ReadCnmt
  <2>1. (Undoes /\ ~active' /\ records' = records) \/ (Stored' /\ Quiet)
    BY <1>5, CnmtStored DEF Quiet
  <2> QED
    BY <2>1 DEF Stored
<1>6. CASE SetMeta \/ CommitMeta
  BY <1>6, MetaStored DEF Stored, Committing
<1>7. CASE ReadRecords \/ DeleteRecord
  BY <1>7, RecordStored DEF Stored
<1>8. CASE PushRecord
  BY <1>8, PushStored DEF Stored
<1>9. CASE Crash
  BY <1>9 DEF Crash, Teardown, Stored
<1> QED
  BY <1>1, <1>2, <1>3, <1>4, <1>5, <1>6, <1>7, <1>8, <1>9 DEF Next, FinishStep

-----------------------------------------------------------------------------
(* Nothing on HOME is half there.                                            *)

\* The committed and visible meta record of t, its content there and its own.
OwnRecord(t) ==
  \E m \in durable \cap metas :
    /\ m.title = t /\ Backed(m)
    /\ \A i \in m.ids \cup {m.meta} : Container[content[i].from].title = t

\* HOME lists only what was reported as installed, and that is whole: no
\* transfer of another title can have touched it.
OwnInv ==
  /\ \A a \in Apps : \A t \in records[a] : t \in owned /\ t.app = a
  /\ \A t \in be.saved : t \in owned /\ t.app = title.app
  /\ active => Fresh(file)
  /\ \A t \in owned : OwnRecord(t)

\* What must not change for a title's record to stay whole.
LEMMA OwnKept ==
  ASSUME NEW t, OwnRecord(t),
         \A m \in durable \cap metas : m.title = t => m \in durable' /\ m \in metas',
         \A i \in DOMAIN content : Container[content[i].from].title = t
                                   => i \in DOMAIN content' /\ content'[i] = content[i]
  PROVE  OwnRecord(t)'
<1>1. PICK m \in durable \cap metas :
        /\ m.title = t /\ Backed(m)
        /\ \A i \in m.ids \cup {m.meta} : Container[content[i].from].title = t
  BY DEF OwnRecord
<1>2. \A i \in m.ids \cup {m.meta} : i \in DOMAIN content' /\ content'[i] = content[i]
  BY <1>1 DEF Backed
<1>3. Backed(m)'
  BY <1>1, <1>2 DEF Backed
<1> QED
  BY <1>1, <1>2, <1>3 DEF OwnRecord

\* A content of an installed title is none of a fresh container's.
LEMMA ForeignContent ==
  ASSUME IInv, active, Fresh(file), NEW i \in DOMAIN content,
         Container[content[i].from].title \in owned
  PROVE  i \notin ContentsOf(file)
<1>1. content[i].from \in Files /\ i \in ContentsOf(content[i].from)
  BY ContentOfItsFile
<1> QED
  BY <1>1 DEF Fresh

\* Nor is its title that container's.
LEMMA FreshTitle ==
  ASSUME IInv, active, Fresh(file)
  PROVE  title \notin owned
<1>1. file \in Files
  BY DEF IInv, TypeOK
<1> QED
  BY <1>1 DEF Fresh, title

\* Rolling back takes nothing from an installed title.
LEMMA UndoesOwn ==
  ASSUME IInv, Stored, Undoes, active => Fresh(file), NEW t \in owned, OwnRecord(t)
  PROVE  OwnRecord(t)'
<1>1. ~active => be.registered = {} /\ be.committed = FALSE
  BY DEF IInv, TypeOK, BlankBe
<1>2. \A m \in durable \cap metas : m.title = t => m \in durable' /\ m \in metas'
  BY <1>1, FreshTitle DEF Undoes
<1>3. ASSUME NEW i \in DOMAIN content, Container[content[i].from].title = t
      PROVE  i \in DOMAIN content' /\ content'[i] = content[i]
  <2>1. active => i \notin ContentsOf(file)
    BY <1>3, ForeignContent
  <2>2. i \notin be.registered
    BY <1>1, <2>1 DEF Stored, RegisteredOwn
  <2> QED
    BY <2>1, <2>2 DEF Undoes
<1> QED
  BY <1>2, <1>3, OwnKept

\* A turn of the feed loop writes this container's contents only.
LEMMA StreamsOwn ==
  ASSUME IInv, Streams, Stored', Fresh(file), NEW t \in owned, OwnRecord(t)
  PROVE  OwnRecord(t)'
<1>1. active /\ file \in Files /\ file' = file /\ be'.registered \subseteq ContentsOf(file)
  BY DEF IInv, TypeOK, Streams, Stored, RegisteredOwn
<1>2. ASSUME NEW i \in DOMAIN content, Container[content[i].from].title = t
      PROVE  i \in DOMAIN content' /\ content'[i] = content[i]
  <2>1. i \notin ContentsOf(file)
    BY <1>1, <1>2, ForeignContent
  <2> QED
    BY <1>1, <2>1 DEF Streams
<1> QED
  BY <1>2, OwnKept DEF Streams

\* The record that is pushed is that of a whole title.
LEMMA NewOwn ==
  ASSUME IInv, Stored, Packed, pc = "push"
  PROVE  OwnRecord(title)
<1>1. /\ active /\ file \in Files /\ be.registered = ContentsOf(file) /\ HasTable
      /\ \A j \in DOMAIN E : Passed(j)
  BY AllRegistered DEF Steps
<1>2. /\ MetaRecord \in durable \cap metas /\ Listed(file) \subseteq ContentsOf(file)
      /\ RegisteredOwn /\ MetaSized
  BY <1>1 DEF Stored, Finishing, Steps
<1>3. MetaEntry(file) \in Range(Entries(file)) /\ MetaEntry(file).kind \in MetaKinds
  BY <1>1, MetaEntryFacts DEF IInv, StageInv, HasTable, E
<1>4. PICK j \in DOMAIN E : E[j] = MetaEntry(file)
  BY <1>3 DEF Range, E
<1>5. /\ E[j].kind \in ContentKinds /\ E[j].id \in ContentIds /\ E[j].size \in Nat
      /\ E[j].declared \in Nat
  BY <1>1, <1>3, <1>4, EntryFacts DEF MetaKinds, ContentKinds, E
<1>6. ins.metaSize = IF E[j].kind = "MetaNcz" THEN E[j].declared ELSE E[j].size
  BY <1>1, <1>2, <1>3, <1>4 DEF MetaSized
<1>7. E[j].id \in be.registered /\ content[E[j].id].from = file /\ E[j].id \in DOMAIN content
  BY <1>1, <1>2, <1>4, <1>5, EntryContent DEF RegisteredOwn, E
<1>8. content[E[j].id].data = Image(E[j])
  <2>1. PICK k \in DOMAIN E : /\ E[k].id = E[j].id
                              /\ InSequence(file, k) => content[E[j].id].data = Image(E[k])
    BY <1>7 DEF IInv, ContentIntact, E
  <2>2. NoId \notin ContentIds
    BY ContainerAssumption
  <2>3. k = j /\ InSequence(file, k)
    BY <1>1, <1>5, <2>1, <2>2, PackedFacts DEF E
  <2> QED
    BY <2>1, <2>3
<1>9. Len(content[E[j].id].data) = ins.metaSize
  <2>1. E[j].kind = "MetaNcz" <=> E[j].kind \in CompressedKinds
    BY <1>3, <1>4 DEF MetaKinds, CompressedKinds
  <2> QED
    BY <1>5, <1>6, <1>8, <2>1 DEF Image
<1>10. /\ MetaRecord.title = title /\ MetaRecord.ids = Listed(file)
       /\ MetaRecord.meta = E[j].id /\ MetaRecord.size = ins.metaSize
       /\ E[j].id \in Listed(file)
  BY <1>4 DEF MetaRecord, Listed
<1>11. \A i \in Listed(file) : i \in DOMAIN content /\ content[i].from = file
  BY <1>1, <1>2 DEF RegisteredOwn
<1>12. Backed(MetaRecord)
  BY <1>9, <1>10, <1>11 DEF Backed
<1>13. \A i \in MetaRecord.ids \cup {MetaRecord.meta} :
         Container[content[i].from].title = title
  BY <1>10, <1>11 DEF title
<1> QED
  BY <1>2, <1>10, <1>12, <1>13 DEF OwnRecord

\* Each kind of step keeps what was reported as installed whole.
LEMMA OwnInduction ==
  ASSUME IInv, IInv', Stored, Stored', Kinds, OwnInv, Packed, ~AllowReinstall
  PROVE  OwnInv'
<1> DEFINE Lists(t) == t \in owned /\ t.app = title.app
<1>1. /\ \A a \in Apps : \A t \in records[a] : t \in owned /\ t.app = a
      /\ \A t \in be.saved : Lists(t)
      /\ active => Fresh(file) /\ title \notin owned
      /\ \A t \in owned : OwnRecord(t)
      /\ records \in [Apps -> SUBSET Titles] /\ owned \in SUBSET Titles
  BY FreshTitle DEF OwnInv, IInv, TypeOK
<1>2. ~active' => be'.saved = {}
  BY DEF IInv, TypeOK, BlankBe
<1>0. UNCHANGED <<file, owned>> => Fresh(file)' = Fresh(file)
  BY DEF Fresh
<1>3. CASE /\ Undoes /\ ~active'
           /\ records' \in {records, [records EXCEPT ![title.app] = be.saved]}
  <2>1. owned' = owned /\ \A t \in owned : OwnRecord(t)'
    BY <1>1, <1>3, UndoesOwn DEF Undoes
  <2>2. ASSUME NEW a \in Apps, NEW t \in records'[a] PROVE t \in owned /\ t.app = a
    BY <1>1, <1>3, <2>2
  <2> QED
    BY <1>2, <1>3, <2>1, <2>2 DEF OwnInv
<1>4. CASE \E f \in Files : /\ Undoes /\ WriteBegin(f) /\ file' = f /\ be' = BlankBe
                            /\ ~ins'.ticket /\ records' = records
  <2>1. PICK f \in Files : /\ Undoes /\ WriteBegin(f) /\ file' = f /\ be' = BlankBe
                           /\ records' = records
    BY <1>4
  <2>2. owned' = owned /\ \A t \in owned : OwnRecord(t)'
    BY <1>1, <2>1, UndoesOwn DEF Undoes
  <2>3. Fresh(file)'
    BY <2>1, <2>2 DEF WriteBegin, Fresh
  <2> QED
    BY <1>1, <2>1, <2>2, <2>3 DEF OwnInv, BlankBe
<1>5. CASE Streams
  <2>1. active /\ title' = title /\ UNCHANGED <<file, owned, records>>
        /\ be'.saved = be.saved /\ active' = active
    BY <1>5 DEF Streams, IInv, TypeOK, title
  <2>2. \A t \in owned : OwnRecord(t)'
    BY <1>1, <1>5, <2>1, StreamsOwn
  <2> QED
    BY <1>0, <1>1, <2>1, <2>2 DEF OwnInv
<1>6. CASE Quiet \/ Importing
  <2>1. /\ UNCHANGED <<active, file, content, metas, durable, records, owned>>
        /\ be' = be /\ title' = title
    BY <1>6 DEF Quiet, Importing, title
  <2>2. \A t \in owned : OwnRecord(t)'
    BY <1>1, <2>1, OwnKept
  <2> QED
    BY <1>0, <1>1, <2>1, <2>2 DEF OwnInv
<1>7. CASE Committing
  <2>1. /\ active /\ UNCHANGED <<active, file, content, records, owned>>
        /\ be'.saved = be.saved /\ title' = title
    BY <1>7 DEF Committing, title
  <2>2. \A m \in durable \cap metas : m.title # title => m \in durable' /\ m \in metas'
    BY <1>7 DEF Committing
  <2>3. \A t \in owned : OwnRecord(t)'
    BY <1>1, <2>1, <2>2, OwnKept
  <2> QED
    BY <1>0, <1>1, <2>1, <2>3 DEF OwnInv
<1>8. CASE Recording
  <2>1. /\ active /\ UNCHANGED <<active, file, content, metas, durable, owned>>
        /\ title' = title
        /\ \/ be'.saved \subseteq records[title.app] /\ records' = records
           \/ be'.saved = be.saved /\ records' = [records EXCEPT ![title.app] = {}]
    BY <1>8 DEF Recording, title
  <2>2. \A t \in owned : OwnRecord(t)'
    BY <1>1, <2>1, OwnKept
  <2>3. title.app \in Apps
    BY <2>1, ContainerFacts DEF IInv, TypeOK, title
  <2>4. \A a \in Apps : \A t \in records'[a] : t \in owned /\ t.app = a
    BY <1>1, <2>1
  <2>5. \A t \in be'.saved : Lists(t)
    BY <1>1, <2>1, <2>3
  <2> QED
    BY <1>0, <1>1, <2>1, <2>2, <2>4, <2>5 DEF OwnInv
<1>9. CASE Pushed /\ ~active'
  <2>1. /\ records' = [records EXCEPT ![title.app] = Others \cup {title}]
        /\ owned' = {t \in owned : ~SameMeta(t, title)} \cup {title}
        /\ UNCHANGED <<content, metas, durable>>
    BY <1>9 DEF Pushed
  <2>2. OwnRecord(title)
    BY <1>9, NewOwn DEF Pushed
  <2>3. \A t \in owned' : OwnRecord(t)'
    BY <1>1, <2>1, <2>2, OwnKept
  <2>4. ASSUME NEW a \in Apps, NEW t \in records'[a] PROVE t \in owned' /\ t.app = a
    <3>1. CASE a = title.app
      BY <1>1, <2>1, <2>4, <3>1 DEF Others
    <3>2. CASE a # title.app
      <4>1. t \in owned /\ t.app = a
        BY <1>1, <2>1, <2>4, <3>2
      <4> QED
        BY <2>1, <3>2, <4>1 DEF SameMeta
    <3> QED
      BY <3>1, <3>2
  <2> QED
    BY <1>2, <1>9, <2>3, <2>4 DEF OwnInv
<1>10. CASE Crash
  <2>1. /\ UNCHANGED <<content, durable, records, owned>> /\ metas' = durable /\ ~active'
    BY <1>10 DEF Crash, Teardown
  <2>2. \A t \in owned : OwnRecord(t)'
    BY <1>1, <2>1, OwnKept
  <2> QED
    BY <1>1, <1>2, <2>1, <2>2 DEF OwnInv
<1> QED
  BY <1>3, <1>4, <1>5, <1>6, <1>7, <1>8, <1>9, <1>10 DEF Kinds

\* At every moment, a power loss included, what ns lists on HOME is in the
\* committed meta database with all of its content and the true size of its
\* Meta NCA: for every chunking and every fault, and for every container whose
\* entries are laid out one behind the other and, if compressed, whole, as long
\* as nothing that an installed title has is sent again.  The code sees to
\* neither: see the README.
THEOREM HomeIsWhole ==
  ASSUME Packed, PreludesWhole, ~AllowReinstall
  PROVE  Spec => []RecordsBacked
<1>1. Init => IInv /\ Stored /\ OwnInv
  BY InitInv DEF Init, Stored, OwnInv, BlankBe
<1>2. IInv /\ Stored /\ OwnInv /\ IInv' /\ [Next]_vars => Stored' /\ OwnInv'
  BY StoredInduction, OwnInduction
<1>3. IInv /\ OwnInv => RecordsBacked
  BY DEF OwnInv, OwnRecord, RecordsBacked
<1> QED
  BY <1>1, <1>2, <1>3, Invariance, PTL DEF Spec

-----------------------------------------------------------------------------
(* Nothing that was installed is lost.                                       *)

\* Until a power loss, all that was reported as installed is in the library.
LostInv == crashes = 0 => \A t \in owned : t \in library[t.app]

\* Only a push changes what is reported, and it changes the library alike.
LEMMA LostInduction ==
  ASSUME IInv, RecordInv, RecordInv', LostInv, [Next]_vars, RecordServiceWorks
  PROVE  LostInv'
<1>1. records \in [Apps -> SUBSET Titles] /\ crashes \in Nat /\ owned \in SUBSET Titles
  BY DEF IInv, TypeOK
<1>2. CASE ReadRecords \/ (DeleteRecord /\ ~Fail)
  <2>1. /\ pc \in {"read", "merge"} /\ pc' \in {"merge", "push"}
        /\ pc = "merge" => be.saved = records[title.app] /\ be' = be
        /\ UNCHANGED <<file, owned, crashes>>
        /\ records' = IF pc = "merge" THEN [records EXCEPT ![title.app] = {}] ELSE records
        /\ pc = "read" <=> pc' = "merge"
    BY <1>2 DEF ReadRecords, DeleteRecord, GoTo, At, RecordInv
  <2>2. library' = library
    BY <2>1, <1>1, RecordTypes DEF library, title
  <2> QED
    BY <2>1, <2>2 DEF LostInv
<1>3. CASE PushRecord
  <2>1. pc = "push" /\ pc' = "idle" /\ crashes' = crashes
    BY <1>3 DEF PushRecord, FailWith, Teardown, At
  <2>2. library = [records EXCEPT ![title.app] = be.saved]
    BY <2>1, <1>1, RecordTypes DEF library
  <2>3. library' = [a \in Apps |-> records'[a]]
    BY <2>1 DEF library
  <2>4. CASE FailWith(content) /\ records' = [records EXCEPT ![title.app] = be.saved]
    <3>1. library' = library /\ owned' = owned
      BY <2>2, <2>3, <2>4, <1>1, <2>1, RecordTypes DEF FailWith
    <3> QED
      BY <2>1, <3>1 DEF LostInv
  <2>5. CASE Pushed
    <3>1. /\ owned' = {t \in owned : ~SameMeta(t, title)} \cup {title}
          /\ records' = [records EXCEPT ![title.app] = Others \cup {title}]
      BY <2>5 DEF Pushed
    <3>2. ASSUME crashes' = 0, NEW t \in owned' PROVE t \in library'[t.app]
      <4>1. title.app \in Apps /\ title \in Titles
        BY <2>1, RecordTypes
      <4>2. CASE t = title
        BY <2>3, <3>1, <4>1, <4>2, <1>1
      <4>3. CASE t # title
        <5>1. t \in owned /\ ~SameMeta(t, title) /\ t.app \in Apps /\ t \in library[t.app]
          BY <1>1, <2>1, <3>1, <3>2, <4>3 DEF LostInv, Titles
        <5>2. CASE t.app = title.app
          <6>1. t \in be.saved
            BY <2>2, <4>1, <5>1, <5>2, <1>1
          <6>2. t \in Others
            BY <5>1, <6>1 DEF Others
          <6> QED
            BY <2>3, <3>1, <4>1, <5>2, <6>2, <1>1
        <5>3. CASE t.app # title.app
          BY <2>2, <2>3, <3>1, <4>1, <5>1, <5>3, <1>1
        <5> QED
          BY <5>2, <5>3
      <4> QED
        BY <4>2, <4>3
    <3> QED
      BY <3>2 DEF LostInv
  <2> QED
    BY <1>3, <2>4, <2>5 DEF PushRecord, Pushed, At, Restore, Outcomes, RecordServiceWorks
<1>4. CASE Crash
  <2>1. crashes' # 0
    BY <1>1, <1>4 DEF Crash
  <2> QED
    BY <2>1 DEF LostInv
<1>5. CASE ~ReadRecords /\ ~(DeleteRecord /\ ~Fail) /\ ~PushRecord /\ ~Crash
  <2>1. owned' = owned /\ library' = library /\ crashes' = crashes
    <3>1. CASE ~DeleteRecord
      BY <1>5, <3>1, OtherSteps DEF library, title
    <3>2. CASE DeleteRecord /\ Fail
      BY <3>2 DEF DeleteRecord, At, Fail, FailWith, Teardown, library
    <3> QED
      BY <1>5, <3>1, <3>2
  <2> QED
    BY <2>1 DEF LostInv
<1> QED
  BY <1>2, <1>3, <1>4, <1>5

\* What was reported as installed stays on HOME, whatever later installs do or
\* fail to do, as long as listing and restoring the record do not fail.
THEOREM NothingIsLost ==
  ASSUME RecordServiceWorks
  PROVE  Spec => []NothingLost
<1>1. Init => RecordInv /\ LostInv
  BY DEF Init, RecordInv, LostInv
<1>2. IInv /\ RecordInv /\ LostInv /\ [Next]_vars => RecordInv' /\ LostInv'
  BY RecordInduction, LostInduction
<1>3. IInv /\ LostInv => NothingLost
  <2> SUFFICES ASSUME IInv, LostInv, crashes = 0, pc # "push", NEW t \in owned
               PROVE  t \in records[t.app]
    BY DEF NothingLost
  <2>1. t.app \in Apps
    BY DEF IInv, TypeOK, Titles
  <2> QED
    BY <2>1 DEF LostInv, library
<1> QED
  BY <1>1, <1>2, <1>3, Invariance, PTL DEF Spec

-----------------------------------------------------------------------------
(* Without a power loss a failed install leaves no debris.                   *)

\* Two containers of one title are the same to what a rollback deletes.
OneContainerEach ==
  \A f, g \in Files : Container[f].title = Container[g].title
                      => ContentsOf(f) = ContentsOf(g) /\ (Ticketed(f) <=> Ticketed(g))

TitlesIn(db) == {m.title : m \in db}
ContentTitle(i) == Container[content[i].from].title

\* What is on the console without being in the committed meta database is what
\* the running transfer would roll back.
DebrisInv ==
  crashes = 0 =>
    /\ stale = 0
    /\ TitlesIn(durable) \subseteq TitlesIn(metas)
    /\ \A i \in DOMAIN content : i \in be.registered \/ ContentTitle(i) \in TitlesIn(durable)
    /\ \A t \in tickets \ Unparsable :
         (active /\ ins.ticket /\ t = title) \/ t \in TitlesIn(durable)
    /\ \A t \in tickets : \E f \in Files : Container[f].title = t /\ Ticketed(f)

\* Nothing on the console is debris.
Clean ==
  /\ stale = 0
  /\ TitlesIn(durable) \subseteq TitlesIn(metas)
  /\ \A i \in DOMAIN content : ContentTitle(i) \in TitlesIn(durable)
  /\ \A t \in tickets \ Unparsable : t \in TitlesIn(durable)
  /\ \A t \in tickets : \E f \in Files : Container[f].title = t /\ Ticketed(f)

\* A rollback takes away everything the transfer has left on the console: the
\* meta record it removes is one that no content and no ticket is left for.
LEMMA UndoesClean ==
  ASSUME IInv, Stored, Undoes, DebrisInv, crashes = 0, OneContainerEach
  PROVE  Clean'
<1> DEFINE Kept == {m \in metas : m.title # title}
<1>1. /\ stale = 0 /\ TitlesIn(durable) \subseteq TitlesIn(metas)
      /\ \A i \in DOMAIN content : i \in be.registered \/ ContentTitle(i) \in TitlesIn(durable)
      /\ \A t \in tickets \ Unparsable :
           (active /\ ins.ticket /\ t = title) \/ t \in TitlesIn(durable)
      /\ \A t \in tickets : \E f \in Files : Container[f].title = t /\ Ticketed(f)
  BY DEF DebrisInv
<1>2. ~active => be.committed = FALSE /\ ins.ticket = FALSE
  BY DEF IInv, TypeOK, BlankBe, BlankIns
<1>3. ASSUME NEW i \in DOMAIN content'
      PROVE  /\ i \in DOMAIN content /\ i \notin be.registered
             /\ ContentTitle(i)' = ContentTitle(i) /\ ContentTitle(i) \in TitlesIn(durable)
  BY <1>1, <1>3 DEF Undoes, ContentTitle
<1>4. ASSUME NEW t \in tickets' \ Unparsable PROVE t \in tickets /\ t \in TitlesIn(durable)
  <2>1. t \in tickets /\ ~(ins.ticket /\ t = title)
    BY <1>4 DEF Undoes
  <2> QED
    BY <2>1, <1>1
<1>7. \A t \in tickets' : \E f \in Files : Container[f].title = t /\ Ticketed(f)
  <2>1. tickets' \subseteq tickets
    BY DEF Undoes
  <2> QED
    BY <1>1, <2>1
<1>5. CASE ~be.committed
  <2>1. UNCHANGED <<metas, durable, stale>>
    BY <1>5 DEF Undoes
  <2> QED
    BY <1>1, <1>3, <1>4, <1>7, <2>1 DEF Clean, TitlesIn
<1>6. CASE be.committed
  <2>1. active /\ pc \in Steps /\ file \in Files
    <3>1. active
      BY <1>2, <1>6
    <3> QED
      BY <1>6, <3>1 DEF Stored, Finishing, Steps, IInv, TypeOK
  <2>2. be.registered = ContentsOf(file) /\ (ins.ticket <=> Readable(file))
    BY <1>6, <2>1, AllRegistered DEF Stored, Finishing, Steps
  <2>3. durable' = Kept /\ metas' = Kept /\ stale' = stale
    BY <1>6 DEF Undoes
  <2>4. \A t \in TitlesIn(durable) : t # title => t \in TitlesIn(durable')
    BY <1>1, <2>3 DEF TitlesIn
  <2>5. ASSUME NEW i \in DOMAIN content' PROVE ContentTitle(i) # title
    <3>1. i \in DOMAIN content /\ i \notin be.registered
      BY <1>3, <2>5
    <3>2. content[i].from \in Files /\ i \in ContentsOf(content[i].from)
      BY <3>1, ContentOfItsFile
    <3> QED
      BY <2>1, <2>2, <3>1, <3>2 DEF OneContainerEach, ContentTitle, title
  <2>6. ASSUME NEW t \in tickets' \ Unparsable PROVE t # title
    <3>1. t \in tickets /\ ~(ins.ticket /\ t = title)
      BY <2>6 DEF Undoes
    <3>2. PICK f \in Files : Container[f].title = t /\ Ticketed(f)
      BY <1>1, <3>1
    <3> QED
      BY <2>1, <2>2, <2>6, <3>1, <3>2 DEF OneContainerEach, title, Readable, Unparsable
  <2>7. \A i \in DOMAIN content' : ContentTitle(i)' \in TitlesIn(durable')
    BY <1>3, <2>4, <2>5
  <2>8. \A t \in tickets' \ Unparsable : t \in TitlesIn(durable')
    BY <1>4, <2>4, <2>6
  <2> QED
    BY <1>1, <1>7, <2>3, <2>7, <2>8 DEF Clean, TitlesIn
<1> QED
  BY <1>5, <1>6

\* Each kind of step leaves no more than a rollback would take away.
LEMMA DebrisInduction ==
  ASSUME IInv, IInv', Stored, Stored', Kinds, DebrisInv, OneContainerEach
  PROVE  DebrisInv'
<1> SUFFICES ASSUME crashes' = 0 PROVE DebrisInv'
  BY DEF DebrisInv
<1> DEFINE HasTicket(t) == \E f \in Files : Container[f].title = t /\ Ticketed(f)
<1>1. ~active' => be'.registered = {}
  BY DEF IInv, TypeOK, BlankBe
<1>2. crashes = 0 =>
        /\ stale = 0 /\ TitlesIn(durable) \subseteq TitlesIn(metas)
        /\ \A i \in DOMAIN content : i \in be.registered \/ ContentTitle(i) \in TitlesIn(durable)
        /\ \A t \in tickets \ Unparsable :
             (active /\ ins.ticket /\ t = title) \/ t \in TitlesIn(durable)
        /\ \A t \in tickets : HasTicket(t)
  BY DEF DebrisInv
<1>3. CASE Undoes
  <2>1. Clean'
    BY <1>3, UndoesClean DEF Undoes
  <2> QED
    BY <2>1 DEF Clean, DebrisInv
<1>4. CASE Streams
  <2>1. /\ crashes = 0 /\ UNCHANGED <<active, stale, metas, durable, tickets>>
        /\ ins'.ticket = ins.ticket /\ title' = title
    BY <1>4 DEF Streams, title
  <2>2. ASSUME NEW i \in DOMAIN content'
        PROVE  i \in be'.registered \/ ContentTitle(i)' \in TitlesIn(durable')
    BY <1>2, <1>4, <2>1, <2>2 DEF Streams, ContentTitle, TitlesIn
  <2> QED
    BY <1>2, <2>1, <2>2 DEF DebrisInv, TitlesIn
<1>5. CASE Quiet \/ Recording
  <2>1. /\ crashes = 0 /\ UNCHANGED <<active, content, metas, durable, tickets>>
        /\ ins'.ticket = ins.ticket /\ be'.registered = be.registered /\ title' = title
        /\ stale' \in {stale, 0}
    BY <1>5 DEF Quiet, Recording, title
  <2> QED
    BY <1>2, <2>1 DEF DebrisInv, ContentTitle, TitlesIn
<1>6. CASE Importing
  <2>1. /\ crashes = 0 /\ UNCHANGED <<active, content, metas, durable, be, stale>>
        /\ title' = title /\ (ins'.ticket <=> Readable(file))
        /\ tickets' = IF Ticketed(file) THEN tickets \cup {title} ELSE tickets
    BY <1>6 DEF Importing, title
  <2>2. active /\ file \in Files
    <3>1. pc' = "cnmt"
      BY <1>6 DEF Importing
    <3> QED
      BY <2>1, <3>1, <1>6 DEF IInv, TypeOK, Importing
  <2>3. ASSUME NEW t \in tickets' PROVE HasTicket(t)
    BY <1>2, <2>1, <2>2, <2>3 DEF title
  <2>4. ASSUME NEW t \in tickets' \ Unparsable, t = title PROVE ins'.ticket
    <3>1. PICK f \in Files : Container[f].title = t /\ Ticketed(f)
      BY <2>3, <2>4
    <3> QED
      BY <2>1, <2>2, <2>4, <3>1 DEF OneContainerEach, title, Readable, Unparsable
  <2>5. ASSUME NEW t \in tickets' \ Unparsable
        PROVE  (active' /\ ins'.ticket /\ t = title') \/ t \in TitlesIn(durable')
    BY <1>2, <2>1, <2>2, <2>4, <2>5 DEF TitlesIn
  <2> QED
    BY <1>2, <2>1, <2>3, <2>5 DEF DebrisInv, ContentTitle, TitlesIn
<1>7. CASE Committing
  <2>1. /\ crashes = 0 /\ UNCHANGED <<active, content, tickets, stale>> /\ title' = title
        /\ ins'.ticket = ins.ticket /\ be'.registered = be.registered
        /\ \/ metas' = {m \in metas : m.title # title} \cup {MetaRecord} /\ durable' = durable
           \/ metas' = metas /\ durable' = metas
    BY <1>7 DEF Committing, title
  <2>2. TitlesIn(durable) \subseteq TitlesIn(durable')
    BY <1>2, <2>1 DEF TitlesIn
  <2>3. TitlesIn(durable') \subseteq TitlesIn(metas')
    <3>1. MetaRecord.title = title
      BY DEF MetaRecord
    <3>2. TitlesIn(metas) \subseteq TitlesIn(metas')
      BY <2>1, <3>1 DEF TitlesIn
    <3> QED
      BY <1>2, <2>1, <3>2 DEF TitlesIn
  <2> QED
    BY <1>2, <2>1, <2>2, <2>3 DEF DebrisInv, ContentTitle
<1>8. CASE Pushed /\ ~active'
  <2>1. pc = "push" /\ UNCHANGED <<content, stale, metas, durable, tickets>> /\ crashes = 0
    BY <1>8 DEF Pushed
  <2>2. active /\ file \in Files /\ RegisteredOwn /\ MetaRecord \in durable
    BY <2>1, AllRegistered DEF Steps, Stored, Finishing
  <2>3. title \in TitlesIn(durable)
    BY <2>2 DEF TitlesIn, MetaRecord
  <2>4. \A i \in be.registered : ContentTitle(i) = title
    BY <2>2 DEF RegisteredOwn, ContentTitle, title
  <2> QED
    BY <1>2, <2>1, <2>3, <2>4 DEF DebrisInv, ContentTitle, TitlesIn
<1>9. CASE Crash
  <2>1. crashes \in Nat /\ crashes' = crashes + 1
    BY <1>9 DEF Crash, IInv, TypeOK
  <2> QED
    BY <2>1
<1> QED
  BY <1>3, <1>4, <1>5, <1>6, <1>7, <1>8, <1>9 DEF Kinds

\* Where no transfer runs and no power was lost, no placeholder is left, and no
\* content and no ticket of a title that no committed meta record accounts for,
\* whatever failed: what fail() and hz_rollback promise, for containers laid out
\* as packers make them.
THEOREM NoDebrisLeft ==
  ASSUME Packed, PreludesWhole, OneContainerEach
  PROVE  Spec => []NoDebris
<1>1. Init => IInv /\ Stored /\ DebrisInv
  BY InitInv DEF Init, Stored, DebrisInv, TitlesIn
<1>2. IInv /\ Stored /\ DebrisInv /\ IInv' /\ [Next]_vars => Stored' /\ DebrisInv'
  BY StoredInduction, DebrisInduction
<1>3. IInv /\ DebrisInv => NoDebris
  <2> SUFFICES ASSUME IInv, DebrisInv, ~active, crashes = 0
               PROVE  /\ stale = 0
                      /\ {Container[content[i].from].title : i \in DOMAIN content}
                           \cup (tickets \ Unparsable) \subseteq {m.title : m \in durable}
    BY DEF NoDebris
  <2>1. be.registered = {}
    BY DEF IInv, TypeOK, BlankBe
  <2> QED
    BY <2>1 DEF DebrisInv, ContentTitle, TitlesIn
<1> QED
  BY <1>1, <1>2, <1>3, Invariance, PTL DEF Spec

=============================================================================
