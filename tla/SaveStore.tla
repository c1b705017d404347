------------------------------ MODULE SaveStore ------------------------------
(***************************************************************************)
(* The store over game saves (storage_saves.c) behind the MTP dispatcher:  *)
(* browsing through a read-only mount and restoring through a scratch file *)
(* on a writable one.  One mount is kept at a time.                        *)
(*                                                                         *)
(* A save's file system is journalled: what is done through a mount is     *)
(* seen through that mount only, until fsFsCommit makes all of it last,    *)
(* and a mount that is closed forgets what was not committed.  So a power  *)
(* loss inside a handler leaves what one before or behind it leaves, and a *)
(* handler is one action.                                                  *)
(***************************************************************************)
EXTENDS Integers, FiniteSets

CONSTANTS
  Saves,     \* the saves listed on the console
  Files,     \* files in each of them
  Folders,   \* folders a host may create
  Contents,  \* what a host may restore into a file
  Original,  \* what every file holds at first
  NoMount, NoWrite,
  Faults     \* what may fail: "mount", "create", "delete", "rename", "commit"

ASSUME SaveAssumption == NoMount \notin [save : Saves, writable : BOOLEAN]
                         /\ NoWrite \notin [file : Files, of : Contents]
                         /\ Original \notin Contents

File(f)    == <<"file", f>>
Scratch(f) == <<"nxtmp", f>>
Folder(d)  == <<"folder", d>>
Entries    == {File(f) : f \in Files} \cup {Scratch(f) : f \in Files}
              \cup {Folder(d) : d \in Folders}

\* What an entry holds: all of a content, or not all of it (yet).
Data  == [of : Contents \cup {Original}, whole : BOOLEAN]
Whole(c) == [of |-> c, whole |-> TRUE]
Part(c)  == [of |-> c, whole |-> FALSE]

VARIABLES
  durable,  \* the entries of each save as of its last commit
  mount,    \* which save is mounted, and how
  view,     \* the entries as the mount shows them
  write,    \* the restore whose scratch file is open, which is the pending upload
  told,     \* history: what the host was last told each file holds
  stuck     \* history: the entries whose deletion has failed

vars == <<durable, mount, view, write, told, stuck>>

Empty   == [n \in {} |-> 0]
Init ==
  /\ durable = [s \in Saves |-> [n \in {File(f) : f \in Files} |-> Whole(Original)]]
  /\ mount = NoMount /\ view = Empty /\ write = NoWrite
  /\ told = [t \in Saves \X Files |-> Original] /\ stuck = {}

Outcomes(call) == IF call \in Faults THEN BOOLEAN ELSE {TRUE}

Without(fs, n)   == [m \in DOMAIN fs \ {n} |-> fs[m]]
With(fs, n, x)   == [m \in DOMAIN fs \cup {n} |-> IF m = n THEN x ELSE fs[m]]
-----------------------------------------------------------------------------
\* fsFsDeleteFile, whose result the store never looks at: what fs may be
\* after it.  An entry that is not there is deleted in vain.
Deletions(fs, n) == {Without(fs, n)} \cup (IF "delete" \in Faults THEN {fs} ELSE {})

\* The history's part of it: whether the entry resisted.
Resisting(s, fs, n) == IF n \in DOMAIN fs THEN {<<s, n>>} ELSE {}

\* The entries behind the dispatcher, which ends a pending restore:
\* saves_write_end without a commit removes the scratch file.
Ended == IF write = NoWrite THEN {view} ELSE Deletions(view, Scratch(write.file))
EndResisted(ended) ==
  IF write = NoWrite THEN {} ELSE Resisting(mount.save, ended, Scratch(write.file))

\* saves_unmount
Unmounted == mount' = NoMount /\ view' = Empty

\* Mutant: which save is mounted is not looked at.
MountedAny(s, w) == mount # NoMount /\ mount.writable = w

\* Mutant: a command acts before the pending restore is ended.
ShownBefore(s, w, ended) == IF mount = [save |-> s, writable |-> w] THEN view ELSE durable[s]

\* saves_mount_mode: a mount that fits is used again.
Mounted(s, w) == mount = [save |-> s, writable |-> w]
Mounts(s, w)  == IF Mounted(s, w) THEN {TRUE} ELSE Outcomes("mount")
Shown(s, w, ended) == IF Mounted(s, w) THEN ended ELSE durable[s]
Mount(s, w)   == mount' = IF Mounted(s, w) THEN mount ELSE [save |-> s, writable |-> w]

\* saves_enumerate, saves_stat, saves_read
Browse(s) ==
  /\ \E mounted \in Mounts(s, FALSE), ended \in Ended :
       /\ IF mounted THEN Mount(s, FALSE) /\ view' = Shown(s, FALSE, ended) ELSE Unmounted
       /\ stuck' = stuck \cup EndResisted(ended)
  /\ write' = NoWrite
  /\ UNCHANGED <<durable, told>>

\* Mutant: the bytes go into the file itself.
BeginInPlace(s, f, c) ==
  /\ \E mounted \in Mounts(s, TRUE), ended \in Ended :
       IF ~mounted THEN Unmounted /\ write' = NoWrite
       ELSE /\ Mount(s, TRUE)
            /\ view' = With(Shown(s, TRUE, ended), File(f), Part(c))
            /\ write' = [file |-> f, of |-> c]
  /\ UNCHANGED <<durable, told, stuck>>

\* saves_write_begin: a scratch file left over is deleted, and keeps the new
\* one from being created when that fails; that there is no room shows here.
\* A scratch file that cannot be opened is deleted again.
WriteBegin(s, f, c) ==
  /\ \E mounted \in Mounts(s, TRUE), ended \in Ended :
       LET old == stuck \cup EndResisted(ended) IN
       IF ~mounted THEN Unmounted /\ write' = NoWrite /\ stuck' = old
       ELSE
         /\ Mount(s, TRUE)
         /\ \E cleared \in Deletions(Shown(s, TRUE, ended), Scratch(f)),
               created \in Outcomes("create") :
              LET made == With(cleared, Scratch(f), Part(c)) IN
              IF Scratch(f) \notin DOMAIN cleared /\ created
                THEN /\ view' = made /\ write' = [file |-> f, of |-> c]
                     /\ stuck' = old
                ELSE /\ write' = NoWrite
                     /\ view' \in {cleared} \cup
                          (IF created THEN {} ELSE Deletions(made, Scratch(f)))
                     /\ stuck' = old \cup Resisting(s, view', Scratch(f))
  /\ UNCHANGED <<durable, told>>

\* Mutant: no commit.
CommitNothing(s, fs) == UNCHANGED durable

\* fsFsCommit
Commit(s, fs) == durable' = [durable EXCEPT ![s] = fs]

\* SendObject that is cut short, by the host, by the cable or by a chunk the
\* save does not take: saves_write_end, not committed.
CutShort ==
  /\ view' \in Ended
  /\ stuck' = stuck \cup EndResisted(view')
  /\ UNCHANGED <<durable, told>>

\* SendObject with all of it: saves_write_end deletes the file and gives its
\* name to the scratch file, which cannot take the name of one that is there.
\* Its result is not looked at: the host is told OK.
Replace ==
  \E gone \in Deletions(view, File(write.file)), renamed \in Outcomes("rename"),
     committed \in Outcomes("commit") :
    LET s     == mount.save
        f     == write.file
        final == With(Without(gone, Scratch(f)), File(f), Whole(write.of)) IN
    /\ told' = [told EXCEPT ![<<s, f>>] = write.of]
    /\ IF renamed /\ File(f) \notin DOMAIN gone
         THEN /\ view' = final /\ UNCHANGED stuck
              /\ IF committed THEN Commit(s, final) ELSE UNCHANGED durable
         ELSE /\ view' \in Deletions(gone, Scratch(f)) /\ UNCHANGED durable
              /\ stuck' = stuck \cup Resisting(s, view', File(f))
                                \cup Resisting(s, view', Scratch(f))

\* SendObject
SendObject ==
  /\ write # NoWrite
  /\ Replace \/ CutShort
  /\ write' = NoWrite
  /\ UNCHANGED mount

\* saves_mkdir
MakeFolder(s, d) ==
  /\ \E mounted \in Mounts(s, TRUE), ended \in Ended, committed \in Outcomes("commit") :
       LET fs   == Shown(s, TRUE, ended)
           made == With(fs, Folder(d), Whole(Original)) IN
       /\ stuck' = stuck \cup EndResisted(ended)
       /\ IF ~mounted THEN Unmounted /\ UNCHANGED durable
          ELSE IF Folder(d) \in DOMAIN fs
                 THEN Mount(s, TRUE) /\ view' = fs /\ UNCHANGED durable
          ELSE /\ Mount(s, TRUE) /\ view' = made
               /\ IF committed THEN Commit(s, made) ELSE UNCHANGED durable
  /\ write' = NoWrite
  /\ UNCHANGED told

\* Any other command of the host, the end of a session or a pulled cable.
Abandon ==
  /\ write # NoWrite /\ write' = NoWrite
  /\ CutShort /\ UNCHANGED mount

\* nexusStorageSavesInvalidate, when a session opens.
Invalidate ==
  /\ Unmounted /\ write' = NoWrite
  /\ UNCHANGED <<durable, told, stuck>>

\* Power loss, or the end of the program.
PowerLoss ==
  /\ Unmounted /\ write' = NoWrite
  /\ UNCHANGED <<durable, told, stuck>>

Next ==
  \/ \E s \in Saves :
       \/ Browse(s)
       \/ \E f \in Files, c \in Contents : WriteBegin(s, f, c)
       \/ \E d \in Folders : MakeFolder(s, d)
  \/ SendObject \/ Abandon \/ Invalidate \/ PowerLoss

Spec == Init /\ [][Next]_vars
-----------------------------------------------------------------------------
Trees == UNION {[N -> Data] : N \in SUBSET Entries}

TypeOK ==
  /\ durable \in [Saves -> Trees]
  /\ mount \in [save : Saves, writable : BOOLEAN] \cup {NoMount}
  /\ view \in Trees /\ (mount = NoMount => view = Empty)
  /\ write \in [file : Files, of : Contents] \cup {NoWrite}
  /\ write # NoWrite => /\ mount # NoMount /\ mount.writable
                        /\ Scratch(write.file) \in DOMAIN view
  /\ told \in [Saves \X Files -> Contents \cup {Original}]
  /\ stuck \subseteq Saves \X Entries

\* Every file a save had is there after a power loss, and holds the whole of
\* what it held or of what was restored ("a half-written save is worse than no
\* save", storage_saves.c:11).
OriginalKept ==
  \A s \in Saves, f \in Files :
    File(f) \in DOMAIN durable[s] /\ durable[s][File(f)].whole

\* A scratch file is never made to last, whatever commits while a restore is
\* pending or was cancelled, unless its own deletion failed.
ScratchGone ==
  \A s \in Saves, f \in Files :
    Scratch(f) \in DOMAIN durable[s] => <<s, Scratch(f)>> \in stuck

\* What the host was told is restored survives the power, unless the file it
\* replaces could not be deleted.
ToldIsDurable ==
  \A s \in Saves, f \in Files :
    \/ <<s, File(f)>> \in stuck
    \/ File(f) \in DOMAIN durable[s] => durable[s][File(f)].of = told[<<s, f>>]

\* Restoring through scratch files implements SaveVault.
Lasting(s, f) == IF File(f) \in DOMAIN durable[s] /\ durable[s][File(f)].whole
                   THEN durable[s][File(f)].of ELSE NoWrite
LastingContents == [t \in Saves \X Files |-> Lasting(t[1], t[2])]

Vault == INSTANCE SaveVault WITH vault <- LastingContents
VaultSpec == Vault!Spec
=============================================================================
