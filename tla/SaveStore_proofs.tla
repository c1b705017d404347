--------------------------- MODULE SaveStore_proofs ---------------------------
(***************************************************************************)
(* Theorems about SaveStore, for every number of saves, files, folders and *)
(* contents.  The entries behind a pending restore hold no scratch file    *)
(* but those whose deletion failed, so no commit makes another one last;   *)
(* the files of a mount are followed apart from its scratch files.         *)
(***************************************************************************)
EXTENDS SaveStore, TLAPS

\* A tree is a function on entries.
LEMMA TreeFacts ==
  ASSUME NEW t \in Trees
  PROVE  /\ DOMAIN t \subseteq Entries
         /\ t = [m \in DOMAIN t |-> t[m]]
         /\ \A m \in DOMAIN t : t[m] \in Data
BY DEF Trees

\* Conversely.
LEMMA IsTree ==
  ASSUME NEW t, DOMAIN t \subseteq Entries, t = [m \in DOMAIN t |-> t[m]],
         \A m \in DOMAIN t : t[m] \in Data
  PROVE  t \in Trees
<1>1. t \in [DOMAIN t -> Data]
  OBVIOUS
<1> QED
  BY <1>1 DEF Trees

\* Removing an entry: what remains is as it was.
LEMMA WithoutFacts ==
  ASSUME NEW t \in Trees, NEW n
  PROVE  /\ Without(t, n) \in Trees
         /\ DOMAIN Without(t, n) = DOMAIN t \ {n}
         /\ \A m \in DOMAIN t \ {n} : Without(t, n)[m] = t[m]
<1>1. /\ DOMAIN Without(t, n) = DOMAIN t \ {n}
      /\ \A m \in DOMAIN t \ {n} : Without(t, n)[m] = t[m]
      /\ Without(t, n) = [m \in DOMAIN Without(t, n) |-> Without(t, n)[m]]
  BY DEF Without
<1>2. \A m \in DOMAIN Without(t, n) : Without(t, n)[m] \in Data
  BY <1>1, TreeFacts
<1> QED
  BY <1>1, <1>2, TreeFacts, IsTree

\* Putting an entry: it holds what it was given, the others what they held.
LEMMA WithFacts ==
  ASSUME NEW t \in Trees, NEW n \in Entries, NEW x \in Data
  PROVE  /\ With(t, n, x) \in Trees
         /\ DOMAIN With(t, n, x) = DOMAIN t \cup {n}
         /\ With(t, n, x)[n] = x
         /\ \A m \in DOMAIN t \ {n} : With(t, n, x)[m] = t[m]
<1>1. /\ DOMAIN With(t, n, x) = DOMAIN t \cup {n}
      /\ With(t, n, x)[n] = x
      /\ \A m \in DOMAIN t \ {n} : With(t, n, x)[m] = t[m]
      /\ With(t, n, x) = [m \in DOMAIN With(t, n, x) |-> With(t, n, x)[m]]
  BY DEF With
<1>2. \A m \in DOMAIN With(t, n, x) : With(t, n, x)[m] \in Data
  BY <1>1, TreeFacts
<1> QED
  BY <1>1, <1>2, TreeFacts, IsTree

\* Entries of different kinds or names are different.
LEMMA EntryFacts ==
  /\ \A f \in Files : File(f) \in Entries /\ Scratch(f) \in Entries
  /\ \A d \in Folders : Folder(d) \in Entries
  /\ \A f, g : File(f) # Scratch(g) /\ Folder(f) # Scratch(g) /\ Folder(f) # File(g)
  /\ \A f, g : File(f) = File(g) => f = g
  /\ \A f, g : Scratch(f) = Scratch(g) => f = g
BY DEF File, Scratch, Folder, Entries

\* What is put into an entry is data.
LEMMA DataFacts ==
  /\ \A c \in Contents \cup {Original} : Whole(c) \in Data /\ Part(c) \in Data
                                         /\ Whole(c).whole /\ Whole(c).of = c
BY DEF Whole, Part, Data

\* A mount shows nothing before it is opened.
LEMMA EmptyIsTree == Empty \in Trees /\ DOMAIN Empty = {}
BY IsTree DEF Empty

\* A deletion removes that entry or nothing.
LEMMA DeletionFacts ==
  ASSUME NEW t \in Trees, NEW n, NEW u \in Deletions(t, n)
  PROVE  /\ u \in Trees
         /\ DOMAIN u \subseteq DOMAIN t
         /\ \A m \in DOMAIN t : m # n => m \in DOMAIN u
         /\ \A m \in DOMAIN u : u[m] = t[m]
<1>1. u = t \/ u = Without(t, n)
  BY DEF Deletions
<1>2. CASE u = t
  BY <1>2
<1>3. CASE u = Without(t, n)
  BY <1>3, WithoutFacts
<1> QED
  BY <1>1, <1>2, <1>3
-----------------------------------------------------------------------------
\* A tree of save s holds no scratch file but those in gone.
Excused(t, s, gone) ==
  \A f \in Files : Scratch(f) \in DOMAIN t => <<s, Scratch(f)>> \in gone

\* What lasts and what is mounted hold none but those whose deletion failed
\* and the pending one.
ScratchFree ==
  /\ ScratchGone
  /\ \A f \in Files : Scratch(f) \in DOMAIN view =>
       \/ <<mount.save, Scratch(f)>> \in stuck
       \/ write # NoWrite /\ write.file = f

IInv == TypeOK /\ ScratchFree

\* Two trees hold the same files.
SameFiles(t, u) ==
  \A f \in Files : /\ File(f) \in DOMAIN t <=> File(f) \in DOMAIN u
                   /\ File(f) \in DOMAIN u => t[File(f)] = u[File(f)]

\* Behind a pending restore are the files the mount shows, and no scratch
\* file but those whose deletion failed.
LEMMA EndedFacts ==
  ASSUME IInv, NEW ended \in Ended
  PROVE  /\ ended \in Trees /\ SameFiles(ended, view)
         /\ mount = NoMount => ended = Empty
         /\ Excused(ended, mount.save, stuck \cup EndResisted(ended))
         /\ EndResisted(ended) \subseteq Saves \X Entries
<1>1. CASE write = NoWrite
  BY <1>1 DEF IInv, TypeOK, ScratchFree, Ended, EndResisted, Excused, SameFiles
<1>2. CASE write # NoWrite
  <2> DEFINE n == Scratch(write.file)
  <2>1. view \in Trees /\ write.file \in Files /\ mount # NoMount /\ mount.save \in Saves
    BY <1>2 DEF IInv, TypeOK
  <2>2. ended \in Deletions(view, n)
    BY <1>2 DEF Ended
  <2>3. n \in Entries /\ \A f \in Files : n # File(f)
    BY <2>1, EntryFacts
  <2>4. EndResisted(ended) = Resisting(mount.save, ended, n)
    BY <1>2 DEF EndResisted
  <2> HIDE DEF n
  <2>5. /\ ended \in Trees
        /\ DOMAIN ended \subseteq DOMAIN view
        /\ \A m \in DOMAIN view : m # n => m \in DOMAIN ended
        /\ \A m \in DOMAIN ended : ended[m] = view[m]
    BY <2>1, <2>2, DeletionFacts
  <2>6. SameFiles(ended, view)
    BY <2>3, <2>5 DEF SameFiles
  <2>7. ASSUME NEW f \in Files, Scratch(f) \in DOMAIN ended
        PROVE  <<mount.save, Scratch(f)>> \in stuck \cup EndResisted(ended)
    <3>1. CASE write.file = f
      BY <2>4, <2>7, <3>1 DEF Resisting, n
    <3>2. CASE write.file # f
      BY <2>5, <2>7, <3>2 DEF IInv, ScratchFree
    <3> QED
      BY <3>1, <3>2
  <2>8. EndResisted(ended) \subseteq Saves \X Entries
    BY <2>1, <2>3, <2>4 DEF Resisting
  <2> QED
    BY <2>1, <2>5, <2>6, <2>7, <2>8 DEF Excused
<1> QED
  BY <1>1, <1>2

\* The tree a command finds in the mount it uses.
LEMMA ShownFacts ==
  ASSUME IInv, NEW s \in Saves, NEW w, NEW ended \in Ended
  PROVE  /\ Shown(s, w, ended) \in Trees
         /\ Excused(Shown(s, w, ended), s, stuck \cup EndResisted(ended))
         /\ SameFiles(Shown(s, w, ended), IF Mounted(s, w) THEN view ELSE durable[s])
<1>1. CASE Mounted(s, w)
  <2>1. mount.save = s
    BY <1>1 DEF Mounted
  <2> QED
    BY <1>1, <2>1, EndedFacts DEF Shown
<1>2. CASE ~Mounted(s, w)
  BY <1>2 DEF Shown, IInv, TypeOK, ScratchFree, ScratchGone, Excused, SameFiles
<1> QED
  BY <1>1, <1>2

\* After a mount that succeeded the mount is of that save and mode.
LEMMA MountFacts ==
  ASSUME NEW s \in Saves, NEW w \in BOOLEAN, Mount(s, w)
  PROVE  /\ mount' = [save |-> s, writable |-> w]
         /\ mount' # NoMount
         /\ mount' \in [save : Saves, writable : BOOLEAN]
         /\ mount'.save = s /\ mount'.writable = w
BY SaveAssumption DEF Mount, Mounted

\* The invariant holds of a console where nothing is mounted,
LEMMA InitInv == Init => IInv
<1> SUFFICES ASSUME Init PROVE IInv
  OBVIOUS
<1> DEFINE T == [n \in {File(f) : f \in Files} |-> Whole(Original)]
<1>1. T \in Trees /\ \A f \in Files : Scratch(f) \notin DOMAIN T
  <2>1. Whole(Original) \in Data /\ DOMAIN T \subseteq Entries
    BY DataFacts, EntryFacts
  <2> QED
    BY <2>1, IsTree, EntryFacts
<1>2. TypeOK
  <2>1. durable \in [Saves -> Trees]
    BY <1>1 DEF Init
  <2>2. told \in [Saves \X Files -> Contents \cup {Original}]
    BY DEF Init
  <2> QED
    BY <2>1, <2>2, EmptyIsTree DEF Init, TypeOK
<1>3. ScratchFree
  BY <1>1, EmptyIsTree DEF Init, ScratchFree, ScratchGone
<1> QED
  BY <1>2, <1>3 DEF IInv

\* The invariant after a command that leaves no restore pending: what the
\* mount shows and what lasts hold only scratch files that are stuck.
LEMMA Settled ==
  ASSUME IInv, write' = NoWrite,
         \/ mount' = NoMount /\ view' = Empty
         \/ /\ mount' # NoMount /\ mount' \in [save : Saves, writable : BOOLEAN]
            /\ view' \in Trees /\ Excused(view', mount'.save, stuck'),
         \/ durable' = durable
         \/ mount' # NoMount /\ durable' = [durable EXCEPT ![mount'.save] = view'],
         told' \in [Saves \X Files -> Contents \cup {Original}],
         stuck \subseteq stuck', stuck' \subseteq Saves \X Entries
  PROVE  IInv'
<1>1. view' \in Trees /\ (mount' = NoMount => view' = Empty)
  BY EmptyIsTree
<1>2. /\ durable' \in [Saves -> Trees]
      /\ \A s \in Saves : \/ durable'[s] = durable[s]
                          \/ mount' # NoMount /\ s = mount'.save /\ durable'[s] = view'
  BY <1>1 DEF IInv, TypeOK
<1>3. TypeOK'
  BY <1>1, <1>2, EmptyIsTree DEF TypeOK
<1>4. ScratchGone'
  BY <1>2, EmptyIsTree DEF IInv, ScratchFree, ScratchGone, Excused
<1>5. \A f \in Files : Scratch(f) \in DOMAIN view' => <<mount'.save, Scratch(f)>> \in stuck'
  BY EmptyIsTree DEF Excused
<1> QED
  BY <1>3, <1>4, <1>5 DEF IInv, ScratchFree

\* and every command, failure and power loss keeps it.
LEMMA NextInv == IInv /\ [Next]_vars => IInv'
<1> SUFFICES ASSUME IInv, [Next]_vars PROVE IInv'
  OBVIOUS
<1>0. /\ durable \in [Saves -> Trees] /\ view \in Trees
      /\ told \in [Saves \X Files -> Contents \cup {Original}]
      /\ stuck \subseteq Saves \X Entries
      /\ mount # NoMount => mount \in [save : Saves, writable : BOOLEAN]
  BY DEF IInv, TypeOK
<1>1. ASSUME NEW s \in Saves, Browse(s) PROVE IInv'
  <2>1. PICK ended \in Ended :
          /\ \/ Mount(s, FALSE) /\ view' = Shown(s, FALSE, ended)
             \/ Unmounted
          /\ stuck' = stuck \cup EndResisted(ended)
    BY <1>1 DEF Browse
  <2>2. stuck \subseteq stuck' /\ stuck' \subseteq Saves \X Entries
    BY <1>0, <2>1, EndedFacts
  <2>3. write' = NoWrite /\ durable' = durable /\ told' = told
    BY <1>1 DEF Browse
  <2>4. CASE Mount(s, FALSE) /\ view' = Shown(s, FALSE, ended)
    BY <1>0, <2>1, <2>2, <2>3, <2>4, ShownFacts, MountFacts, Settled
  <2>5. CASE Unmounted
    BY <1>0, <2>2, <2>3, <2>5, Settled DEF Unmounted
  <2> QED
    BY <2>1, <2>4, <2>5
<1>2. ASSUME NEW s \in Saves, NEW f \in Files, NEW c \in Contents, WriteBegin(s, f, c)
      PROVE  IInv'
  <2>0. told' = told /\ durable' = durable
    BY <1>2 DEF WriteBegin
  <2>1. PICK ended \in Ended :
          LET old == stuck \cup EndResisted(ended) IN
          \/ Unmounted /\ write' = NoWrite /\ stuck' = old
          \/ /\ Mount(s, TRUE)
             /\ \E cleared \in Deletions(Shown(s, TRUE, ended), Scratch(f)),
                   created \in Outcomes("create") :
                  LET made == With(cleared, Scratch(f), Part(c)) IN
                  IF Scratch(f) \notin DOMAIN cleared /\ created
                    THEN /\ view' = made /\ write' = [file |-> f, of |-> c]
                         /\ stuck' = old
                    ELSE /\ write' = NoWrite
                         /\ view' \in {cleared} \cup
                              (IF created THEN {} ELSE Deletions(made, Scratch(f)))
                         /\ stuck' = old \cup Resisting(s, view', Scratch(f))
    BY <1>2 DEF WriteBegin
  <2> DEFINE old   == stuck \cup EndResisted(ended)
             shown == Shown(s, TRUE, ended)
  <2>2. stuck \subseteq old /\ old \subseteq Saves \X Entries
    BY <1>0, EndedFacts
  <2>3. shown \in Trees /\ Excused(shown, s, old)
    BY ShownFacts
  <2>4. Scratch(f) \in Entries /\ Part(c) \in Data
    BY EntryFacts, DataFacts
  <2> HIDE DEF old, shown
  <2>5. CASE Unmounted /\ write' = NoWrite /\ stuck' = old
    BY <1>0, <2>0, <2>2, <2>5, Settled DEF Unmounted
  <2>6. ASSUME NEW cleared \in Deletions(shown, Scratch(f)), NEW created,
               Mount(s, TRUE),
               LET made == With(cleared, Scratch(f), Part(c)) IN
               IF Scratch(f) \notin DOMAIN cleared /\ created
                 THEN /\ view' = made /\ write' = [file |-> f, of |-> c]
                      /\ stuck' = old
                 ELSE /\ write' = NoWrite
                      /\ view' \in {cleared} \cup
                           (IF created THEN {} ELSE Deletions(made, Scratch(f)))
                      /\ stuck' = old \cup Resisting(s, view', Scratch(f))
        PROVE  IInv'
    <3> DEFINE made == With(cleared, Scratch(f), Part(c))
    <3>1. cleared \in Trees /\ DOMAIN cleared \subseteq DOMAIN shown
      BY <2>3, DeletionFacts
    <3>2. made \in Trees /\ DOMAIN made = DOMAIN cleared \cup {Scratch(f)}
      BY <2>4, <3>1, WithFacts
    <3>3. /\ mount' # NoMount /\ mount'.save = s /\ mount'.writable
          /\ mount' \in [save : Saves, writable : BOOLEAN]
      BY <2>6, MountFacts
    <3> HIDE DEF made
    <3>4. CASE /\ view' = made /\ write' = [file |-> f, of |-> c]
               /\ stuck' = old
      <4>1. /\ write' # NoWrite /\ write'.file = f
            /\ write' \in [file : Files, of : Contents]
        BY <3>4, SaveAssumption
      <4>2. TypeOK'
        BY <1>0, <2>0, <2>2, <3>2, <3>3, <3>4, <4>1 DEF TypeOK
      <4>3. ScratchGone'
        BY <2>0, <2>2, <3>4 DEF IInv, ScratchFree, ScratchGone
      <4>4. ASSUME NEW g \in Files, Scratch(g) \in DOMAIN view', g # f
            PROVE  <<mount'.save, Scratch(g)>> \in stuck'
        <5>1. Scratch(g) # Scratch(f)
          BY <4>4, EntryFacts
        <5> QED
          BY <2>3, <3>1, <3>2, <3>3, <3>4, <4>4, <5>1 DEF Excused
      <4> QED
        BY <4>1, <4>2, <4>3, <4>4 DEF IInv, ScratchFree
    <3>5. CASE /\ write' = NoWrite
               /\ view' \in {cleared} \cup Deletions(made, Scratch(f))
               /\ stuck' = old \cup Resisting(s, view', Scratch(f))
      <4>1. view' \in Trees /\ DOMAIN view' \subseteq DOMAIN shown \cup {Scratch(f)}
        BY <3>1, <3>2, <3>5, DeletionFacts
      <4>2. stuck \subseteq stuck' /\ stuck' \subseteq Saves \X Entries
        BY <2>2, <2>4, <3>5 DEF Resisting
      <4>3. Excused(view', s, stuck')
        BY <2>3, <3>5, <4>1 DEF Excused, Resisting
      <4> QED
        BY <1>0, <2>0, <3>3, <3>5, <4>1, <4>2, <4>3, Settled
    <3> QED
      BY <2>6, <3>4, <3>5 DEF made
  <2> QED
    BY <2>1, <2>5, <2>6 DEF old, shown
<1>3. ASSUME NEW s \in Saves, NEW d \in Folders, MakeFolder(s, d) PROVE IInv'
  <2>1. PICK ended \in Ended :
          LET fs   == Shown(s, TRUE, ended)
              made == With(fs, Folder(d), Whole(Original)) IN
          /\ stuck' = stuck \cup EndResisted(ended)
          /\ \/ Unmounted /\ UNCHANGED durable
             \/ /\ Mount(s, TRUE) /\ view' \in {fs, made}
                /\ Commit(s, view') \/ UNCHANGED durable
    BY <1>3 DEF MakeFolder
  <2> DEFINE fs   == Shown(s, TRUE, ended)
             made == With(fs, Folder(d), Whole(Original))
  <2>2. stuck \subseteq stuck' /\ stuck' \subseteq Saves \X Entries
    BY <1>0, <2>1, EndedFacts
  <2>3. fs \in Trees /\ Excused(fs, s, stuck')
    BY <2>1, ShownFacts
  <2>4. made \in Trees /\ Excused(made, s, stuck')
    <3>1. Folder(d) \in Entries /\ Whole(Original) \in Data
      BY EntryFacts, DataFacts
    <3> HIDE DEF fs
    <3>2. made \in Trees /\ DOMAIN made = DOMAIN fs \cup {Folder(d)}
      BY <2>3, <3>1, WithFacts
    <3> QED
      BY <2>3, <3>2, EntryFacts DEF Excused
  <2>5. write' = NoWrite /\ told' = told
    BY <1>3 DEF MakeFolder
  <2>6. CASE Unmounted /\ UNCHANGED durable
    BY <1>0, <2>2, <2>5, <2>6, Settled DEF Unmounted
  <2>7. CASE /\ Mount(s, TRUE) /\ view' \in {fs, made}
             /\ Commit(s, view') \/ UNCHANGED durable
    <3>1. /\ mount' # NoMount /\ mount'.save = s
          /\ mount' \in [save : Saves, writable : BOOLEAN]
      BY <2>7, MountFacts
    <3> QED
      BY <1>0, <2>2, <2>3, <2>4, <2>5, <2>7, <3>1, Settled DEF Commit
  <2> QED
    BY <2>1, <2>6, <2>7
<1>4. ASSUME CutShort, write' = NoWrite, mount' = mount, mount # NoMount PROVE IInv'
  <2>1. /\ view' \in Ended /\ stuck' = stuck \cup EndResisted(view')
        /\ durable' = durable /\ told' = told
    BY <1>4 DEF CutShort
  <2>2. stuck \subseteq stuck' /\ stuck' \subseteq Saves \X Entries
    BY <1>0, <2>1, EndedFacts
  <2>3. view' \in Trees /\ Excused(view', mount'.save, stuck')
    BY <1>4, <2>1, EndedFacts
  <2> QED
    BY <1>0, <1>4, <2>1, <2>2, <2>3, Settled
<1>5. ASSUME Replace, write # NoWrite, write' = NoWrite, mount' = mount PROVE IInv'
  <2> DEFINE s == mount.save
             f == write.file
  <2>1. s \in Saves /\ f \in Files /\ write.of \in Contents /\ mount # NoMount
    BY <1>5 DEF IInv, TypeOK
  <2>2. PICK gone \in Deletions(view, File(f)) :
          LET final == With(Without(gone, Scratch(f)), File(f), Whole(write.of)) IN
          /\ told' = [told EXCEPT ![<<s, f>>] = write.of]
          /\ \/ /\ view' = final /\ UNCHANGED stuck
                /\ Commit(s, final) \/ UNCHANGED durable
             \/ /\ view' \in Deletions(gone, Scratch(f)) /\ UNCHANGED durable
                /\ stuck' = stuck \cup Resisting(s, view', File(f))
                                  \cup Resisting(s, view', Scratch(f))
    BY <1>5 DEF Replace
  <2> DEFINE final == With(Without(gone, Scratch(f)), File(f), Whole(write.of))
  <2>3. File(f) \in Entries /\ Scratch(f) \in Entries /\ Whole(write.of) \in Data
    BY <2>1, EntryFacts, DataFacts
  <2>4. gone \in Trees /\ DOMAIN gone \subseteq DOMAIN view
    BY <1>0, DeletionFacts
  <2>5. told' \in [Saves \X Files -> Contents \cup {Original}]
    BY <1>0, <2>1, <2>2
  <2>6. \A g \in Files : Scratch(g) \in DOMAIN view /\ g # f => <<s, Scratch(g)>> \in stuck
    BY DEF IInv, ScratchFree
  <2> HIDE DEF s, f
  <2>7. /\ final \in Trees
        /\ DOMAIN final \subseteq (DOMAIN view \ {Scratch(f)}) \cup {File(f)}
    <3> DEFINE bare == Without(gone, Scratch(f))
    <3>1. bare \in Trees /\ DOMAIN bare = DOMAIN gone \ {Scratch(f)}
      BY <2>4, WithoutFacts
    <3> HIDE DEF bare
    <3>2. /\ With(bare, File(f), Whole(write.of)) \in Trees
          /\ DOMAIN With(bare, File(f), Whole(write.of)) = DOMAIN bare \cup {File(f)}
      BY <2>3, <3>1, WithFacts
    <3> QED
      BY <2>4, <3>1, <3>2 DEF bare
  <2> HIDE DEF final
  <2>8. CASE /\ view' = final /\ UNCHANGED stuck
             /\ Commit(s, final) \/ UNCHANGED durable
    <3>1. Excused(view', s, stuck')
      BY <2>6, <2>7, <2>8, EntryFacts DEF Excused
    <3> QED
      BY <1>0, <1>5, <2>1, <2>5, <2>7, <2>8, <3>1, Settled DEF Commit, s
  <2>9. CASE /\ view' \in Deletions(gone, Scratch(f)) /\ UNCHANGED durable
             /\ stuck' = stuck \cup Resisting(s, view', File(f))
                               \cup Resisting(s, view', Scratch(f))
    <3>1. view' \in Trees /\ DOMAIN view' \subseteq DOMAIN view
      BY <2>4, <2>9, DeletionFacts
    <3>2. stuck \subseteq stuck' /\ stuck' \subseteq Saves \X Entries
      BY <1>0, <2>1, <2>3, <2>9 DEF Resisting
    <3>3. Excused(view', s, stuck')
      BY <2>6, <2>9, <3>1 DEF Excused, Resisting
    <3> QED
      BY <1>0, <1>5, <2>1, <2>5, <2>9, <3>1, <3>2, <3>3, Settled DEF s
  <2> QED
    BY <2>2, <2>8, <2>9 DEF final, s, f
<1>6. CASE SendObject
  <2>1. mount # NoMount
    BY <1>6 DEF SendObject, IInv, TypeOK
  <2> QED
    BY <1>4, <1>5, <1>6, <2>1 DEF SendObject
<1>7. CASE Abandon
  <2>1. mount # NoMount
    BY <1>7 DEF Abandon, IInv, TypeOK
  <2> QED
    BY <1>4, <1>7, <2>1 DEF Abandon
<1>8. CASE Invalidate \/ PowerLoss
  BY <1>0, <1>8, Settled DEF Invalidate, PowerLoss, Unmounted
<1>9. CASE UNCHANGED vars
  BY <1>9 DEF vars, IInv, TypeOK, ScratchFree, ScratchGone
<1> QED
  BY <1>1, <1>2, <1>3, <1>6, <1>7, <1>8, <1>9 DEF Next

\* So it holds for ever.
LEMMA Invariance == Spec => []IInv
BY InitInv, NextInv, PTL DEF Spec

\* Types of what lasts, mount, view and pending restore, whatever fails.
THEOREM TypeCorrect == Spec => []TypeOK
BY Invariance, PTL DEF IInv

\* Whatever fails, and however restores, folders, cancellations and power
\* losses follow each other, no scratch file is made to last but one whose own
\* deletion failed; so none is if deletions work.
THEOREM NoScratchLasts == Spec => []ScratchGone
BY Invariance, PTL DEF IInv, ScratchFree
-----------------------------------------------------------------------------
(* What a step does to the files that are mounted and to those that last.  *)

\* The files a command meets.
Found(s, w) == IF Mounted(s, w) THEN view ELSE durable[s]

\* Tree u is t with c restored into f.
HasRestored(u, t, f, c) ==
  /\ File(f) \in DOMAIN u /\ u[File(f)] = Whole(c)
  /\ \A g \in Files \ {f} : /\ File(g) \in DOMAIN u <=> File(g) \in DOMAIN t
                            /\ File(g) \in DOMAIN t => u[File(g)] = t[File(g)]

Unmounts == mount' = NoMount /\ UNCHANGED <<durable, told>>
Shows(s, w) == Mount(s, w) /\ SameFiles(view', Found(s, w)) /\ UNCHANGED <<durable, told>>
Makes(s) ==
  /\ Mount(s, TRUE) /\ SameFiles(view', Found(s, TRUE))
  /\ Commit(s, view') \/ ("commit" \in Faults /\ UNCHANGED durable)
  /\ UNCHANGED told
Keeps ==
  /\ mount # NoMount /\ mount' = mount /\ SameFiles(view', view)
  /\ UNCHANGED durable
  /\ \/ UNCHANGED told
     \/ \E f \in Files, c \in Contents :
          /\ told' = [told EXCEPT ![<<mount.save, f>>] = c]
          /\ <<mount.save, File(f)>> \in stuck'
Restores(f, c) ==
  /\ mount # NoMount /\ mount' = mount
  /\ HasRestored(view', view, f, c)
  /\ Commit(mount.save, view') \/ ("commit" \in Faults /\ UNCHANGED durable)
  /\ told' = [told EXCEPT ![<<mount.save, f>>] = c]

Effect ==
  \/ Unmounts \/ Keeps
  \/ \E s \in Saves, w \in BOOLEAN : Shows(s, w)
  \/ \E s \in Saves : Makes(s)
  \/ \E f \in Files, c \in Contents : Restores(f, c)

\* The files of a tree are those of another with the same files.
LEMMA SameTrans ==
  ASSUME NEW t, NEW u, NEW v, SameFiles(t, u), SameFiles(u, v)
  PROVE  SameFiles(t, v)
BY DEF SameFiles

\* Removing or putting a scratch file leaves the files alone.
LEMMA ScratchAside ==
  ASSUME NEW t \in Trees, NEW f \in Files, NEW c \in Contents
  PROVE  /\ \A u \in Deletions(t, Scratch(f)) : SameFiles(u, t)
         /\ SameFiles(With(t, Scratch(f), Part(c)), t)
<1>1. Scratch(f) \in Entries /\ Part(c) \in Data /\ \A g \in Files : File(g) # Scratch(f)
  BY EntryFacts, DataFacts
<1>2. ASSUME NEW u \in Deletions(t, Scratch(f)) PROVE SameFiles(u, t)
  BY <1>1, DeletionFacts DEF SameFiles
<1>3. SameFiles(With(t, Scratch(f), Part(c)), t)
  <2> DEFINE u == With(t, Scratch(f), Part(c))
  <2>1. /\ DOMAIN u = DOMAIN t \cup {Scratch(f)}
        /\ \A m \in DOMAIN t \ {Scratch(f)} : u[m] = t[m]
    BY <1>1, WithFacts
  <2> HIDE DEF u
  <2>2. SameFiles(u, t)
    BY <1>1, <2>1 DEF SameFiles
  <2> QED
    BY <2>2 DEF u
<1> QED
  BY <1>2, <1>3

\* SendObject, with renames that work: the file is restored, or what was there
\* could not be deleted and stays.
LEMMA ReplaceEffect ==
  ASSUME IInv, "rename" \notin Faults, Replace, write # NoWrite, mount' = mount
  PROVE  Keeps \/ Restores(write.file, write.of)
<1> DEFINE s == mount.save
           f == write.file
           c == write.of
<1>1. s \in Saves /\ f \in Files /\ c \in Contents /\ mount # NoMount /\ view \in Trees
  BY DEF IInv, TypeOK
<1>2. PICK gone \in Deletions(view, File(f)), renamed \in Outcomes("rename"),
           committed \in Outcomes("commit") :
        LET final == With(Without(gone, Scratch(f)), File(f), Whole(c)) IN
        /\ told' = [told EXCEPT ![<<s, f>>] = c]
        /\ IF renamed /\ File(f) \notin DOMAIN gone
             THEN /\ view' = final
                  /\ IF committed THEN Commit(s, final) ELSE UNCHANGED durable
             ELSE /\ view' \in Deletions(gone, Scratch(f)) /\ UNCHANGED durable
                  /\ stuck' = stuck \cup Resisting(s, view', File(f))
                                    \cup Resisting(s, view', Scratch(f))
  BY DEF Replace
<1>3. renamed = TRUE /\ (committed \/ "commit" \in Faults)
  BY DEF Outcomes
<1> HIDE DEF s, f, c
<1>4. /\ gone \in Trees /\ DOMAIN gone \subseteq DOMAIN view
      /\ \A m \in DOMAIN view : m # File(f) => m \in DOMAIN gone
      /\ \A m \in DOMAIN gone : gone[m] = view[m]
  BY <1>1, DeletionFacts
<1>5. /\ File(f) \in Entries /\ Scratch(f) \in Entries /\ Whole(c) \in Data
      /\ \A g \in Files : File(g) # Scratch(f)
      /\ \A g \in Files \ {f} : File(g) # File(f)
  BY <1>1, EntryFacts, DataFacts
<1>6. CASE File(f) \in DOMAIN gone
  <2>1. /\ view' \in Deletions(gone, Scratch(f)) /\ durable' = durable
        /\ Resisting(s, view', File(f)) \subseteq stuck'
    BY <1>2, <1>6
  <2>2. SameFiles(view', gone)
    BY <1>1, <1>4, <2>1, ScratchAside
  <2>3. SameFiles(gone, view)
    BY <1>4, <1>6 DEF SameFiles
  <2>4. SameFiles(view', view)
    BY <2>2, <2>3, SameTrans
  <2>5. File(f) \in DOMAIN view'
    BY <1>1, <1>6, <2>2 DEF SameFiles
  <2>6. <<s, File(f)>> \in stuck'
    BY <2>1, <2>5 DEF Resisting
  <2> QED
    BY <1>1, <1>2, <2>1, <2>4, <2>6 DEF Keeps, s
<1>7. CASE File(f) \notin DOMAIN gone
  <2> DEFINE bare  == Without(gone, Scratch(f))
             final == With(bare, File(f), Whole(c))
  <2>1. view' = final /\ (Commit(s, final) \/ ("commit" \in Faults /\ UNCHANGED durable))
    BY <1>2, <1>3, <1>7
  <2>2. /\ bare \in Trees /\ DOMAIN bare = DOMAIN gone \ {Scratch(f)}
        /\ \A m \in DOMAIN gone \ {Scratch(f)} : bare[m] = gone[m]
    BY <1>4, WithoutFacts
  <2> HIDE DEF bare
  <2>3. /\ DOMAIN final = DOMAIN bare \cup {File(f)}
        /\ final[File(f)] = Whole(c)
        /\ \A m \in DOMAIN bare \ {File(f)} : final[m] = bare[m]
    <3>1. /\ DOMAIN With(bare, File(f), Whole(c)) = DOMAIN bare \cup {File(f)}
          /\ With(bare, File(f), Whole(c))[File(f)] = Whole(c)
          /\ \A m \in DOMAIN bare \ {File(f)} : With(bare, File(f), Whole(c))[m] = bare[m]
      <4>1. bare \in Trees /\ File(f) \in Entries /\ Whole(c) \in Data
        BY <1>5, <2>2
      <4>2. ASSUME NEW t \in Trees, NEW n \in Entries, NEW x \in Data
            PROVE  /\ DOMAIN With(t, n, x) = DOMAIN t \cup {n}
                   /\ With(t, n, x)[n] = x
                   /\ \A m \in DOMAIN t \ {n} : With(t, n, x)[m] = t[m]
        BY WithFacts
      <4> QED
        BY <4>1, <4>2
    <3> QED
      BY <3>1
  <2> HIDE DEF final
  <2>4. ASSUME NEW g \in Files \ {f}
        PROVE  /\ File(g) \in DOMAIN final <=> File(g) \in DOMAIN view
               /\ File(g) \in DOMAIN view => final[File(g)] = view[File(g)]
    BY <1>4, <1>5, <2>2, <2>3
  <2>5. HasRestored(view', view, f, c)
    BY <2>1, <2>3, <2>4 DEF HasRestored
  <2> QED
    BY <1>1, <1>2, <2>1, <2>5 DEF Restores, s, f, c
<1> QED
  BY <1>6, <1>7

\* As long as renames work, every step has one of these effects.
LEMMA Effects ==
  ASSUME IInv, Next, "rename" \notin Faults
  PROVE  Effect /\ stuck \subseteq stuck'
<1>1. ASSUME NEW s \in Saves, Browse(s) PROVE Effect /\ stuck \subseteq stuck'
  <2>1. PICK ended \in Ended :
          \/ Mount(s, FALSE) /\ view' = Shown(s, FALSE, ended)
          \/ Unmounted
    BY <1>1 DEF Browse
  <2>2. SameFiles(Shown(s, FALSE, ended), Found(s, FALSE))
    BY ShownFacts DEF Found
  <2>3. UNCHANGED <<durable, told>> /\ stuck \subseteq stuck'
    BY <1>1 DEF Browse
  <2>4. CASE Mount(s, FALSE) /\ view' = Shown(s, FALSE, ended)
    BY <2>2, <2>3, <2>4 DEF Effect, Shows
  <2>5. CASE Unmounted
    BY <2>3, <2>5 DEF Unmounted, Effect, Unmounts
  <2> QED
    BY <2>1, <2>4, <2>5
<1>2. ASSUME NEW s \in Saves, NEW f \in Files, NEW c \in Contents, WriteBegin(s, f, c)
      PROVE  Effect /\ stuck \subseteq stuck'
  <2>0. UNCHANGED <<durable, told>> /\ stuck \subseteq stuck'
    BY <1>2 DEF WriteBegin
  <2>1. PICK ended \in Ended :
          \/ Unmounted
          \/ /\ Mount(s, TRUE)
             /\ \E cleared \in Deletions(Shown(s, TRUE, ended), Scratch(f)) :
                  \/ view' = cleared
                  \/ view' = With(cleared, Scratch(f), Part(c))
                  \/ view' \in Deletions(With(cleared, Scratch(f), Part(c)), Scratch(f))
    BY <1>2 DEF WriteBegin
  <2> DEFINE shown == Shown(s, TRUE, ended)
  <2>2. shown \in Trees /\ SameFiles(shown, Found(s, TRUE))
    BY ShownFacts DEF Found
  <2> HIDE DEF shown
  <2>3. CASE Unmounted
    BY <2>0, <2>3 DEF Unmounted, Effect, Unmounts
  <2>4. ASSUME NEW cleared \in Deletions(shown, Scratch(f)),
               \/ view' = cleared
               \/ view' = With(cleared, Scratch(f), Part(c))
               \/ view' \in Deletions(With(cleared, Scratch(f), Part(c)), Scratch(f))
        PROVE  SameFiles(view', Found(s, TRUE))
    <3> DEFINE made == With(cleared, Scratch(f), Part(c))
    <3>1. cleared \in Trees /\ SameFiles(cleared, shown)
      BY <2>2, DeletionFacts, ScratchAside
    <3>2. made \in Trees /\ SameFiles(made, cleared)
      <4>1. Scratch(f) \in Entries /\ Part(c) \in Data
        BY EntryFacts, DataFacts
      <4> QED
        BY <3>1, <4>1, WithFacts, ScratchAside
    <3> HIDE DEF made
    <3>3. \A u \in Deletions(made, Scratch(f)) : SameFiles(u, made)
      BY <3>2, ScratchAside
    <3>4. SameFiles(view', cleared)
      <4>1. CASE view' = cleared
        BY <4>1 DEF SameFiles
      <4>2. CASE view' = made
        BY <3>2, <4>2
      <4>3. CASE view' \in Deletions(made, Scratch(f))
        BY <3>2, <3>3, <4>3, SameTrans
      <4> QED
        BY <2>4, <4>1, <4>2, <4>3 DEF made
    <3>5. SameFiles(view', shown)
      BY <3>1, <3>4, SameTrans
    <3> QED
      BY <2>2, <3>5, SameTrans
  <2>5. CASE /\ Mount(s, TRUE)
             /\ \E cleared \in Deletions(shown, Scratch(f)) :
                  \/ view' = cleared
                  \/ view' = With(cleared, Scratch(f), Part(c))
                  \/ view' \in Deletions(With(cleared, Scratch(f), Part(c)), Scratch(f))
    <3>1. SameFiles(view', Found(s, TRUE))
      BY <2>4, <2>5
    <3> QED
      BY <2>0, <2>5, <3>1 DEF Effect, Shows
  <2> QED
    BY <2>1, <2>3, <2>5 DEF shown
<1>3. ASSUME NEW s \in Saves, NEW d \in Folders, MakeFolder(s, d)
      PROVE  Effect /\ stuck \subseteq stuck'
  <2>0. told' = told /\ stuck \subseteq stuck'
    BY <1>3 DEF MakeFolder
  <2>1. PICK ended \in Ended :
          LET fs   == Shown(s, TRUE, ended)
              made == With(fs, Folder(d), Whole(Original)) IN
          \/ Unmounted /\ UNCHANGED durable
          \/ Mount(s, TRUE) /\ view' = fs /\ UNCHANGED durable
          \/ /\ Mount(s, TRUE) /\ view' = made
             /\ Commit(s, view') \/ ("commit" \in Faults /\ UNCHANGED durable)
    BY <1>3 DEF MakeFolder, Outcomes
  <2> DEFINE fs   == Shown(s, TRUE, ended)
             made == With(fs, Folder(d), Whole(Original))
  <2>2. fs \in Trees /\ SameFiles(fs, Found(s, TRUE))
    BY ShownFacts DEF Found
  <2> HIDE DEF fs
  <2>3. SameFiles(made, Found(s, TRUE))
    <3>1. /\ Folder(d) \in Entries /\ Whole(Original) \in Data
          /\ \A f \in Files : Folder(d) # File(f)
      BY EntryFacts, DataFacts
    <3>2. /\ DOMAIN With(fs, Folder(d), Whole(Original)) = DOMAIN fs \cup {Folder(d)}
          /\ \A m \in DOMAIN fs \ {Folder(d)} : With(fs, Folder(d), Whole(Original))[m] = fs[m]
      BY <2>2, <3>1, WithFacts
    <3>3. SameFiles(made, fs)
      BY <3>1, <3>2 DEF SameFiles
    <3> QED
      BY <2>2, <3>3, SameTrans
  <2> HIDE DEF made
  <2>4. CASE Unmounted /\ UNCHANGED durable
    BY <2>0, <2>4 DEF Unmounted, Effect, Unmounts
  <2>5. CASE Mount(s, TRUE) /\ view' = fs /\ UNCHANGED durable
    BY <2>0, <2>2, <2>5 DEF Effect, Shows
  <2>6. CASE /\ Mount(s, TRUE) /\ view' = made
             /\ Commit(s, view') \/ ("commit" \in Faults /\ UNCHANGED durable)
    BY <2>0, <2>3, <2>6 DEF Effect, Makes
  <2> QED
    BY <2>1, <2>4, <2>5, <2>6 DEF fs, made
<1>4. ASSUME CutShort, mount' = mount, mount # NoMount PROVE Effect /\ stuck \subseteq stuck'
  BY <1>4, EndedFacts DEF CutShort, Effect, Keeps
<1>5. CASE SendObject
  <2>1. mount # NoMount /\ mount' = mount /\ write.file \in Files /\ write.of \in Contents
    BY <1>5 DEF SendObject, IInv, TypeOK
  <2>2. CASE Replace
    <3>1. stuck \subseteq stuck'
      BY <2>2 DEF Replace
    <3> QED
      BY <1>5, <2>1, <2>2, <3>1, ReplaceEffect DEF SendObject, Effect
  <2> QED
    BY <1>4, <1>5, <2>1, <2>2 DEF SendObject
<1>6. CASE Abandon
  <2>1. mount # NoMount
    BY <1>6 DEF Abandon, IInv, TypeOK
  <2> QED
    BY <1>4, <1>6, <2>1 DEF Abandon
<1>7. CASE Invalidate \/ PowerLoss
  BY <1>7 DEF Invalidate, PowerLoss, Unmounted, Effect, Unmounts
<1> QED
  BY <1>1, <1>2, <1>3, <1>5, <1>6, <1>7 DEF Next
-----------------------------------------------------------------------------
(* No save loses a file: through renames that work, what is mounted always *)
(* has every file, whole, whether or not deletions and commits work.       *)

AllWhole(t) == \A f \in Files : File(f) \in DOMAIN t /\ t[File(f)].whole

WholeInv == IInv /\ OriginalKept /\ (mount # NoMount => AllWhole(view))

\* The same files are as whole, and a restored file is whole.
LEMMA WholeFacts ==
  ASSUME NEW t, AllWhole(t), NEW u
  PROVE  /\ SameFiles(u, t) => AllWhole(u)
         /\ \A f \in Files, c \in Contents : HasRestored(u, t, f, c) => AllWhole(u)
<1>1. SameFiles(u, t) => AllWhole(u)
  BY DEF SameFiles, AllWhole
<1>2. ASSUME NEW f \in Files, NEW c \in Contents, HasRestored(u, t, f, c) PROVE AllWhole(u)
  BY <1>2, DataFacts DEF HasRestored, AllWhole
<1> QED
  BY <1>1, <1>2

\* What a command finds has every file, whole: it is what lasts or what is mounted.
LEMMA FoundWhole ==
  ASSUME WholeInv, NEW s \in Saves, NEW w \in BOOLEAN
  PROVE  AllWhole(Found(s, w))
<1>1. Mounted(s, w) => mount # NoMount
  BY SaveAssumption DEF Mounted
<1> QED
  BY <1>1 DEF WholeInv, OriginalKept, AllWhole, Found

\* Every step keeps WholeInv.
LEMMA WholeNext ==
  ASSUME "rename" \notin Faults, WholeInv, [Next]_vars
  PROVE  WholeInv'
<1>1. IInv'
  BY NextInv DEF WholeInv
<1> DEFINE Goal == OriginalKept' /\ (mount' # NoMount => AllWhole(view'))
<1>2. CASE UNCHANGED vars
  <2>1. Goal
    BY <1>2 DEF vars, WholeInv, OriginalKept, AllWhole
  <2> QED
    BY <1>1, <2>1 DEF WholeInv, AllWhole
<1>3. CASE Next
  <2>1. Effect
    BY <1>3, Effects DEF WholeInv
  <2>2. ASSUME Unmounts PROVE Goal
    BY <2>2 DEF Unmounts, WholeInv, OriginalKept
  <2>3. ASSUME Keeps PROVE Goal
    <3>1. AllWhole(view')
      BY <2>3, WholeFacts DEF Keeps, WholeInv
    <3> QED
      BY <2>3, <3>1 DEF Keeps, WholeInv, OriginalKept
  <2>4. ASSUME NEW s \in Saves, NEW w \in BOOLEAN, Shows(s, w) PROVE Goal
    <3>1. AllWhole(view')
      BY <2>4, FoundWhole, WholeFacts DEF Shows
    <3> QED
      BY <2>4, <3>1 DEF Shows, WholeInv, OriginalKept
  <2>5. ASSUME NEW s \in Saves, Makes(s) PROVE Goal
    <3>1. AllWhole(view')
      BY <2>5, FoundWhole, WholeFacts DEF Makes
    <3>2. \A t \in Saves : durable'[t] \in {durable[t], view'}
      BY <2>5 DEF Makes, Commit, WholeInv, IInv, TypeOK
    <3> QED
      BY <3>1, <3>2 DEF WholeInv, OriginalKept, AllWhole
  <2>6. ASSUME NEW f \in Files, NEW c \in Contents, Restores(f, c) PROVE Goal
    <3>1. AllWhole(view')
      BY <2>6, WholeFacts DEF Restores, WholeInv
    <3>2. \A t \in Saves : durable'[t] \in {durable[t], view'}
      BY <2>6 DEF Restores, Commit, WholeInv, IInv, TypeOK
    <3> QED
      BY <3>1, <3>2 DEF WholeInv, OriginalKept, AllWhole
  <2> HIDE DEF Goal
  <2>7. Goal
    BY <2>1, <2>2, <2>3, <2>4, <2>5, <2>6 DEF Effect
  <2> QED
    BY <1>1, <2>7 DEF WholeInv, Goal, AllWhole
<1> QED
  BY <1>2, <1>3

\* It holds at first.
LEMMA WholeInit == Init => WholeInv
<1> SUFFICES ASSUME Init PROVE WholeInv
  OBVIOUS
<1>1. \A s \in Saves, f \in Files :
        File(f) \in DOMAIN durable[s] /\ durable[s][File(f)] = Whole(Original)
  BY DEF Init
<1>2. Whole(Original).whole
  BY DataFacts
<1>3. mount = NoMount
  BY DEF Init
<1> QED
  BY <1>1, <1>2, <1>3, InitInv DEF WholeInv, OriginalKept

\* As long as renames work, every file a save had is there and whole, however
\* transfers, mounts, deletions and commits fail and whenever the power goes.
THEOREM NoSaveLost == "rename" \notin Faults /\ Spec => []OriginalKept
<1> SUFFICES ASSUME "rename" \notin Faults PROVE Spec => []OriginalKept
  OBVIOUS
<1>1. Init => WholeInv
  BY WholeInit
<1>2. WholeInv /\ [Next]_vars => WholeInv'
  BY WholeNext
<1>3. WholeInv => OriginalKept
  BY DEF WholeInv
<1> QED
  BY <1>1, <1>2, <1>3, PTL DEF Spec
-----------------------------------------------------------------------------
(* If commits work too, the files that are mounted are those that last,    *)
(* and what the host was told of, but where a deletion failed.             *)

SyncInv ==
  /\ WholeInv /\ ToldIsDurable
  /\ mount # NoMount => mount.save \in Saves /\ SameFiles(view, durable[mount.save])

\* What a command finds is what lasts.
LEMMA FoundSync ==
  ASSUME SyncInv, NEW s \in Saves, NEW w \in BOOLEAN
  PROVE  SameFiles(Found(s, w), durable[s])
<1>1. Mounted(s, w) => mount # NoMount /\ mount.save = s
  BY SaveAssumption DEF Mounted
<1> QED
  BY <1>1 DEF SyncInv, Found, SameFiles

\* Every step keeps SyncInv.
LEMMA SyncNext ==
  ASSUME "rename" \notin Faults, "commit" \notin Faults, SyncInv, [Next]_vars
  PROVE  SyncInv'
<1>1. WholeInv'
  BY WholeNext DEF SyncInv
<1>2. /\ durable \in [Saves -> Trees]
      /\ told \in [Saves \X Files -> Contents \cup {Original}]
      /\ \A s \in Saves : AllWhole(durable[s])
  BY DEF SyncInv, WholeInv, OriginalKept, AllWhole, IInv, TypeOK
<1> DEFINE Synced == mount' # NoMount =>
             mount'.save \in Saves /\ SameFiles(view', durable'[mount'.save])
<1>3. CASE UNCHANGED vars
  <2>1. ToldIsDurable' /\ Synced
    BY <1>3 DEF vars, SyncInv, ToldIsDurable, SameFiles
  <2> QED
    BY <1>1, <2>1 DEF SyncInv, SameFiles
<1>4. CASE Next
  <2>1. Effect /\ stuck \subseteq stuck'
    BY <1>4, Effects DEF SyncInv, WholeInv
  <2>2. ASSUME durable' = durable, told' = told PROVE ToldIsDurable'
    BY <2>1, <2>2 DEF SyncInv, ToldIsDurable
  <2>3. ASSUME Unmounts PROVE ToldIsDurable' /\ Synced
    BY <2>2, <2>3 DEF Unmounts
  <2>4. ASSUME Keeps PROVE ToldIsDurable' /\ Synced
    <3>1. /\ mount # NoMount /\ mount' = mount /\ durable' = durable
          /\ mount.save \in Saves /\ SameFiles(view, durable[mount.save])
          /\ SameFiles(view', view)
      BY <2>4 DEF Keeps, SyncInv
    <3>2. Synced
      BY <3>1, SameTrans
    <3>3. CASE told' = told
      BY <2>2, <3>1, <3>2, <3>3
    <3>4. ASSUME NEW f \in Files, NEW c \in Contents,
                 told' = [told EXCEPT ![<<mount.save, f>>] = c],
                 <<mount.save, File(f)>> \in stuck'
          PROVE  ToldIsDurable'
      <4>1. ASSUME NEW t \in Saves, NEW g \in Files, <<t, File(g)>> \notin stuck',
                   File(g) \in DOMAIN durable'[t]
            PROVE  durable'[t][File(g)].of = told'[<<t, g>>]
        <5>1. <<t, g>> # <<mount.save, f>>
          BY <3>4, <4>1
        <5>2. told'[<<t, g>>] = told[<<t, g>>]
          BY <1>2, <3>4, <5>1
        <5> QED
          BY <2>1, <3>1, <4>1, <5>2 DEF SyncInv, ToldIsDurable
      <4> QED
        BY <4>1 DEF ToldIsDurable
    <3> QED
      BY <2>4, <3>2, <3>3, <3>4 DEF Keeps
  <2>5. ASSUME NEW s \in Saves, NEW w \in BOOLEAN, Shows(s, w) PROVE ToldIsDurable' /\ Synced
    <3>1. mount'.save = s /\ durable' = durable /\ told' = told
      BY <2>5, MountFacts DEF Shows
    <3>2. SameFiles(view', durable[s])
      BY <2>5, FoundSync, SameTrans DEF Shows
    <3> QED
      BY <2>2, <3>1, <3>2
  <2>6. ASSUME NEW s \in Saves, Makes(s) PROVE ToldIsDurable' /\ Synced
    <3>1. durable' = [durable EXCEPT ![s] = view'] /\ told' = told /\ mount'.save = s
      BY <2>6, MountFacts DEF Makes, Commit
    <3>2. SameFiles(view', durable[s])
      BY <2>6, FoundSync, SameTrans DEF Makes
    <3>3. ASSUME NEW t \in Saves PROVE SameFiles(durable'[t], durable[t])
      BY <1>2, <3>1, <3>2 DEF SameFiles
    <3>4. ASSUME NEW t \in Saves, NEW g \in Files, <<t, File(g)>> \notin stuck',
                 File(g) \in DOMAIN durable'[t]
          PROVE  durable'[t][File(g)].of = told'[<<t, g>>]
      <4>1. File(g) \in DOMAIN durable[t] /\ durable'[t][File(g)] = durable[t][File(g)]
        BY <3>3, <3>4 DEF SameFiles
      <4> QED
        BY <2>1, <3>1, <3>4, <4>1 DEF SyncInv, ToldIsDurable
    <3>7. ToldIsDurable'
      BY <3>4 DEF ToldIsDurable
    <3>5. durable'[s] = view'
      BY <1>2, <3>1
    <3>6. Synced
      BY <3>1, <3>5 DEF SameFiles
    <3> QED
      BY <3>6, <3>7
  <2>7. ASSUME NEW f \in Files, NEW c \in Contents, Restores(f, c) PROVE ToldIsDurable' /\ Synced
    <3> DEFINE s == mount.save
    <3>1. s \in Saves /\ SameFiles(view, durable[s]) /\ mount # NoMount
      BY <2>7 DEF Restores, SyncInv
    <3>2. /\ durable' = [durable EXCEPT ![s] = view']
          /\ told' = [told EXCEPT ![<<s, f>>] = c]
          /\ HasRestored(view', view, f, c) /\ mount' = mount
      BY <2>7 DEF Restores, Commit
    <3> HIDE DEF s
    <3>3. durable'[s] = view'
      BY <1>2, <3>1, <3>2
    <3>4. ASSUME NEW t \in Saves, NEW g \in Files, <<t, File(g)>> \notin stuck',
                 File(g) \in DOMAIN durable'[t]
          PROVE  durable'[t][File(g)].of = told'[<<t, g>>]
      <4>1. CASE t = s /\ g = f
        <5>1. told'[<<t, g>>] = c
          BY <1>2, <3>1, <3>2, <4>1
        <5> QED
          BY <3>2, <3>3, <4>1, <5>1, DataFacts DEF HasRestored
      <4>2. CASE ~(t = s /\ g = f)
        <5>1. told'[<<t, g>>] = told[<<t, g>>]
          BY <1>2, <3>2, <4>2
        <5>2. File(g) \in DOMAIN durable[t] /\ durable'[t][File(g)] = durable[t][File(g)]
          <6>1. CASE t # s
            BY <1>2, <3>2, <3>4, <6>1
          <6>2. CASE t = s
            BY <3>1, <3>2, <3>3, <3>4, <4>2, <6>2 DEF HasRestored, SameFiles
          <6> QED
            BY <6>1, <6>2
        <5> QED
          BY <2>1, <3>4, <5>1, <5>2 DEF SyncInv, ToldIsDurable
      <4> QED
        BY <4>1, <4>2
    <3>5. ToldIsDurable'
      BY <3>4 DEF ToldIsDurable
    <3>6. Synced
      BY <3>1, <3>2, <3>3 DEF SameFiles, s
    <3> QED
      BY <3>5, <3>6
  <2> HIDE DEF Synced
  <2>8. ToldIsDurable' /\ Synced
    BY <2>1, <2>3, <2>4, <2>5, <2>6, <2>7 DEF Effect
  <2> QED
    BY <1>1, <2>8 DEF SyncInv, Synced, SameFiles
<1> QED
  BY <1>3, <1>4

\* It holds at first.
LEMMA SyncInit == Init => SyncInv
<1> SUFFICES ASSUME Init PROVE SyncInv
  OBVIOUS
<1>1. \A s \in Saves, f \in Files :
        durable[s][File(f)] = Whole(Original) /\ told[<<s, f>>] = Original
  BY DEF Init
<1>2. Whole(Original).of = Original
  BY DataFacts
<1>3. mount = NoMount
  BY DEF Init
<1> QED
  BY <1>1, <1>2, <1>3, WholeInit DEF SyncInv, ToldIsDurable

\* If renames and commits work, what the host was told is restored survives
\* whatever follows, a power loss at any point included, but where the file
\* to be replaced could not be deleted.
THEOREM ToldSurvives == "rename" \notin Faults /\ "commit" \notin Faults /\ Spec => []ToldIsDurable
<1> SUFFICES ASSUME "rename" \notin Faults, "commit" \notin Faults PROVE Spec => []ToldIsDurable
  OBVIOUS
<1>1. Init => SyncInv
  BY SyncInit
<1>2. SyncInv /\ [Next]_vars => SyncInv'
  BY SyncNext
<1>3. SyncInv => ToldIsDurable
  BY DEF SyncInv
<1> QED
  BY <1>1, <1>2, <1>3, PTL DEF Spec

\* In such a state every file lasts with what it holds.
LEMMA LastingFacts ==
  ASSUME SyncInv, NEW s \in Saves, NEW f \in Files
  PROVE  File(f) \in DOMAIN durable[s] /\ Lasting(s, f) = durable[s][File(f)].of
BY DEF SyncInv, WholeInv, OriginalKept, Lasting

\* Then restoring implements SaveVault: the saves change one file at a time,
\* to the whole of what was sent, or not at all, whether deletions work or not.
THEOREM Refinement == "rename" \notin Faults /\ "commit" \notin Faults /\ Spec => VaultSpec
<1> SUFFICES ASSUME "rename" \notin Faults, "commit" \notin Faults PROVE Spec => VaultSpec
  OBVIOUS
<1>1. Init => SyncInv
  BY SyncInit
<1>2. SyncInv /\ [Next]_vars => SyncInv'
  BY SyncNext
<1>3. Init => Vault!Init
  <2> SUFFICES ASSUME Init PROVE Vault!Init
    OBVIOUS
  <2>1. \A s \in Saves, f \in Files : Lasting(s, f) = Original
    <3>1. \A s \in Saves, f \in Files : durable[s][File(f)] = Whole(Original)
      BY DEF Init
    <3> QED
      BY <3>1, SyncInit, LastingFacts, DataFacts
  <2>2. LastingContents = [t \in Saves \X Files |-> Original]
    BY <2>1 DEF LastingContents
  <2> QED
    BY <2>2 DEF Vault!Init
<1>0. SyncInv => \A s \in Saves, f \in Files :
         File(f) \in DOMAIN durable[s] /\ Lasting(s, f) = durable[s][File(f)].of
  BY LastingFacts
<1>4. (SyncInv => \A s \in Saves, f \in Files :
         File(f) \in DOMAIN durable[s] /\ Lasting(s, f) = durable[s][File(f)].of)'
  BY <1>0, PTL
<1>5. SyncInv /\ [Next]_vars => [Vault!Next]_LastingContents
  <2> SUFFICES ASSUME SyncInv, [Next]_vars PROVE [Vault!Next]_LastingContents
    OBVIOUS
  <2>0. /\ SyncInv'
        /\ \A s \in Saves, f \in Files :
             File(f) \in DOMAIN durable'[s] /\ Lasting(s, f)' = durable'[s][File(f)].of
        /\ \A s \in Saves, f \in Files :
             File(f) \in DOMAIN durable[s] /\ Lasting(s, f) = durable[s][File(f)].of
    BY <1>2, <1>4, LastingFacts
  <2>1. durable \in [Saves -> Trees]
    BY DEF SyncInv, WholeInv, IInv, TypeOK
  <2>2. ASSUME \A s \in Saves, f \in Files : durable'[s][File(f)] = durable[s][File(f)]
        PROVE  LastingContents' = LastingContents
    <3>1. \A t \in Saves \X Files : Lasting(t[1], t[2])' = Lasting(t[1], t[2])
      BY <2>0, <2>2
    <3> QED
      BY <3>1 DEF LastingContents
  <2>3. ASSUME NEW s \in Saves, NEW f \in Files, NEW c \in Contents,
               s = mount.save, Restores(f, c)
        PROVE  Vault!Next
    <3>1. /\ durable' = [durable EXCEPT ![s] = view']
          /\ HasRestored(view', view, f, c) /\ SameFiles(view, durable[s])
      BY <2>3 DEF Restores, SyncInv, Commit
    <3>2. durable'[s] = view'
      BY <2>1, <3>1
    <3>3. Lasting(s, f)' = c
      <4>1. durable'[s][File(f)] = Whole(c) /\ Whole(c).of = c
        BY <3>1, <3>2, DataFacts DEF HasRestored
      <4> QED
        BY <2>0, <3>1, <4>1
    <3>4. ASSUME NEW r \in Saves, NEW g \in Files, ~(r = s /\ g = f)
          PROVE  Lasting(r, g)' = Lasting(r, g)
      <4>1. CASE r # s
        BY <2>0, <2>1, <3>1, <4>1
      <4>2. CASE r = s
        BY <2>0, <3>1, <3>2, <3>4, <4>2 DEF HasRestored, SameFiles
      <4> QED
        BY <4>1, <4>2
    <3>5. ASSUME NEW t \in Saves \X Files
          PROVE  Lasting(t[1], t[2])' = IF t = <<s, f>> THEN c ELSE Lasting(t[1], t[2])
      <4>1. t[1] \in Saves /\ t[2] \in Files /\ t = <<t[1], t[2]>>
        OBVIOUS
      <4>2. CASE t = <<s, f>>
        BY <3>3, <4>2
      <4>3. CASE t # <<s, f>>
        BY <3>4, <4>1, <4>3
      <4> QED
        BY <4>2, <4>3
    <3>6. LastingContents' = [LastingContents EXCEPT ![<<s, f>>] = c]
      BY <3>5 DEF LastingContents
    <3> QED
      BY <3>6 DEF Vault!Next, Vault!Restore
  <2>4. CASE durable' = durable
    BY <2>2, <2>4
  <2>5. ASSUME NEW s \in Saves, Makes(s) PROVE LastingContents' = LastingContents
    <3>1. durable' = [durable EXCEPT ![s] = view']
      BY <2>5 DEF Makes, Commit
    <3>2. SameFiles(view', durable[s])
      BY <2>5, FoundSync, SameTrans DEF Makes
    <3> QED
      BY <2>0, <2>1, <2>2, <3>1, <3>2 DEF SameFiles
  <2>6. CASE Next
    <3>1. Effect
      BY <2>6, Effects DEF SyncInv, WholeInv
    <3>2. ASSUME NEW f \in Files, NEW c \in Contents, Restores(f, c) PROVE Vault!Next
      <4>1. mount.save \in Saves
        BY <3>2 DEF Restores, SyncInv
      <4> QED
        BY <2>3, <3>2, <4>1
    <3> QED
      BY <2>4, <2>5, <3>1, <3>2 DEF Effect, Unmounts, Keeps, Shows
  <2> QED
    BY <2>4, <2>6 DEF vars
<1> QED
  BY <1>1, <1>2, <1>3, <1>5, PTL DEF Spec, VaultSpec, Vault!Spec
=============================================================================
