------------------------------- MODULE ObjectDb -------------------------------
(***************************************************************************)
(* The MTP object handle table (object_db.c): a growing array in which a   *)
(* handle is a position, so that handles are never used twice in a         *)
(* session.  The table is a value here; each operation is an operator that *)
(* gives the table it leaves behind.  Every caller holds the table's mutex *)
(* for a whole operation.                                                  *)
(***************************************************************************)
EXTENDS Integers, Sequences, FiniteSets, SequencesExt

\* MTP_HANDLE_ROOT: the parent of what lies at a store's root.
RootHandle == 0

\* An entry, and what is left of one that was invalidated: nothing reads the
\* rest of it.  The cached size and parent are only echoed to the host.
Object(path, dir) == [path |-> path, dir |-> dir, valid |-> TRUE]
Ended == [path |-> <<>>, dir |-> FALSE, valid |-> FALSE]
Objects(Paths) == [path : Paths, dir : BOOLEAN, valid : {TRUE}] \cup {Ended}

Valid(db, h) == h \in DOMAIN db /\ db[h].valid

\* nexusObjectDbClear
Cleared == <<>>

\* Mutant: a path is never recognised.
FindNothing(db, path) == {}

\* The valid entries for a path.
Find(db, path) == {h \in DOMAIN db : db[h].valid /\ db[h].path = path}

\* The handle that interning a path gives: a known pair keeps its handle.
HandleFor(db, path) ==
  IF Find(db, path) = {} THEN Len(db) + 1
  ELSE CHOOSE h \in Find(db, path) : \A g \in Find(db, path) : h <= g

\* Mutant: the first slot that was invalidated is taken again.
InternReuses(db, path, dir) ==
  LET free == {h \in DOMAIN db : ~db[h].valid}
      h    == IF Find(db, path) # {} \/ free = {} THEN HandleFor(db, path)
              ELSE CHOOSE f \in free : \A g \in free : f <= g
  IN [g \in DOMAIN db \cup {h} |-> IF g = h THEN Object(path, dir) ELSE db[g]]

\* nexusObjectDbIntern, when there is memory: a known entry is refreshed.
Intern(db, path, dir) ==
  [g \in DOMAIN db \cup {HandleFor(db, path)} |->
     IF g = HandleFor(db, path) THEN Object(path, dir) ELSE db[g]]

\* nexusObjectDbInvalidate
Invalidate(db, h) ==
  [g \in DOMAIN db |-> IF g = h THEN Ended ELSE db[g]]

\* Mutant: the descendants of a renamed directory keep their handles.
DescendantsKept(db, h) == {}

\* The handles below the directory of h.
Descendants(db, h) ==
  {c \in DOMAIN db : db[h].dir /\ db[c].valid /\ IsStrictPrefix(db[h].path, db[c].path)}

\* nexusObjectDbRename: the handle keeps standing for its object, those of the
\* descendants of a directory end.
Rename(db, h, path) ==
  [c \in DOMAIN db |->
     IF c = h THEN [db[c] EXCEPT !.path = path]
     ELSE IF c \in Descendants(db, h) THEN Ended ELSE db[c]]
=============================================================================
