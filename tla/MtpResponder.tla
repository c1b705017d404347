----------------------------- MODULE MtpResponder -----------------------------
(***************************************************************************)
(* The MTP responder: dispatch and the operations that change something    *)
(* (mtp_ops.c), the session and data-phase primitives (mtp_server.c), the  *)
(* object table (ObjectDb) and the SD card store (storage_sdmc.c) they     *)
(* work on.                                                                *)
(*                                                                         *)
(* One worker thread handles one command at a time and nothing else of the *)
(* program touches the table or an open upload, so a handler is one        *)
(* action; what a handler does to the table, the card and the pending      *)
(* upload, with the abandonment of that upload by the dispatcher, is all   *)
(* in it.  File sizes and lengths are in units, Cap of them to the payload *)
(* buffer.                                                                 *)
(***************************************************************************)
EXTENDS ObjectDb

CONSTANTS
  Names,       \* what files and folders may be called
  Card,        \* the card at start: path -> [dir, ino, len]
  MaxSize,     \* bound: the longest file a host sends
  Cap,         \* MTP_PAYLOAD_BUF_SIZE - MTP_CONTAINER_HEADER_SIZE
  Unknown,     \* a declared size of 0xFFFFFFFF
  NoUpload,    \* the absence of a pending upload, of an open file
  Faults,      \* what may fail: "usb", "sd", "read", "write"
  AskPastEnd,  \* may a host ask for more than a file holds?
  MaxDepth,    \* bound: the deepest path
  MaxHandles,  \* bound: handles of one session
  MaxInodes    \* bound: what the card and the host know of at a time

ASSUME MtpAssumption ==
  /\ {MaxSize, Cap, MaxDepth, MaxHandles, MaxInodes} \subseteq Nat /\ Cap > 0
  /\ Unknown \notin Nat /\ AskPastEnd \in BOOLEAN
  /\ NoUpload \notin Seq(Names)
  /\ NoUpload \notin [handle : Nat, path : Seq(Names), size : Nat \cup {Unknown}]

Paths == {p \in Seq(Names) : Len(p) >= 1}
\* What is written anew has an "ino" that nothing on the card has and that the
\* host knows nothing by.
Inode == [dir : BOOLEAN, ino : Nat, len : Nat]

\* The card at start is a tree: whatever a path leads through is a folder.
ASSUME CardAssumption ==
  /\ DOMAIN Card \subseteq Paths /\ Card \in [DOMAIN Card -> Inode]
  /\ IsFiniteSet(DOMAIN Card)
  /\ \A p \in DOMAIN Card : \A n \in 1 .. (Len(p) - 1) :
       SubSeq(p, 1, n) \in DOMAIN Card /\ Card[SubSeq(p, 1, n)].dir
  /\ \A p, q \in DOMAIN Card : Card[p].ino = Card[q].ino => p = q

VARIABLES
  session,  \* MtpServerState.session_open
  db,       \* the object table
  pending,  \* the upload a SendObjectInfo announced
  writer,   \* SdmcStorage.write_file: the path it is open for
  sd,       \* what the card holds
  shown,    \* history: the ino each valid handle was given to the host for
  answer    \* history: how the last transaction ended

vars == <<session, db, pending, writer, sd, shown, answer>>
-----------------------------------------------------------------------------
(* The file system of the card, as libnx offers it: no call follows an open *)
(* file, rename() does not replace its destination.                         *)

IsFolder(fs, p) == p = <<>> \/ (p \in DOMAIN fs /\ fs[p].dir)
InFolder(fs, p) == {q \in DOMAIN fs : Front(q) = p}
Below(p, q)     == q = p \/ IsStrictPrefix(p, q)

Removed(fs, p)  == [q \in DOMAIN fs \ {p} |-> fs[q]]
Put(fs, p, i)   == [q \in DOMAIN fs \cup {p} |-> IF q = p THEN i ELSE fs[q]]

\* Whether fopen(p, "wb"), mkdir, remove and rename work.
CanWrite(fs, p)   == IsFolder(fs, Front(p)) /\ ~IsFolder(fs, p)
CanMkdir(fs, p)   == IsFolder(fs, Front(p))
CanRemove(fs, p, dir) ==
  p \in DOMAIN fs /\ fs[p].dir = dir /\ InFolder(fs, p) = {}
CanMove(fs, p, to) ==
  p \in DOMAIN fs /\ to \notin DOMAIN fs /\ IsFolder(fs, Front(to)) /\ ~Below(p, to)

\* Where a path is after its folder moved.
Rebased(p, to, q) == to \o SubSeq(q, Len(p) + 1, Len(q))
Moved(fs, p, to) ==
  LET stay == {q \in DOMAIN fs : ~Below(p, q)}
      from(q) == CHOOSE r \in DOMAIN fs \ stay : Rebased(p, to, r) = q
  IN [q \in stay \cup {Rebased(p, to, r) : r \in DOMAIN fs \ stay} |->
        IF q \in stay THEN fs[q] ELSE fs[from(q)]]
-----------------------------------------------------------------------------
\* How a transaction ended: the responses sent, whether the transfers worked,
\* and what the data phase declared and carried.
Silent    == [codes |-> <<>>, usb |-> TRUE, declared |-> 0, sent |-> 0]
CutOff    == [Silent EXCEPT !.usb = FALSE]
Reply(cs) == answer' = [Silent EXCEPT !.codes = cs]

Init ==
  /\ session = FALSE /\ db = Cleared /\ pending = NoUpload /\ writer = NoUpload
  /\ sd = Card /\ shown = <<>>
  /\ answer = CutOff

\* Whether what may fail does not.
Outcomes(what) == IF what \in Faults THEN BOOLEAN ELSE {TRUE}
-----------------------------------------------------------------------------
(* Dispatch.  Any command but SendObject abandons a pending upload before it *)
(* is handled: the handlers below start from Db, Sd and Writer.              *)

\* sdmc_write_end: a file that is not committed is removed.
WriteEnd(fs, p, committed) == IF p = NoUpload \/ committed THEN fs ELSE Removed(fs, p)

\* Mutant: the file of an abandoned upload stays open.
WriterKept == writer

Db     == IF pending = NoUpload THEN db ELSE Invalidate(db, pending.handle)
Sd     == IF pending = NoUpload THEN sd ELSE WriteEnd(sd, writer, FALSE)
Writer == IF pending = NoUpload THEN writer ELSE NoUpload

\* A handler leaves table t and card fs and ends no upload.
Leave(t, fs) == /\ db' = t /\ sd' = fs /\ writer' = Writer /\ pending' = NoUpload
                /\ UNCHANGED session

\* The host is given handles hs, for what now lies at their paths.
Show(hs) ==
  shown' = [h \in DOMAIN db' |-> IF ~db'[h].valid THEN 0
                                 ELSE IF h \in hs THEN sd'[db'[h].path].ino ELSE shown[h]]

\* A handler that changes nothing.
Untouched == Leave(Db, Sd) /\ Show({})
Refuse    == Untouched /\ Reply(<<"Refused">>)

\* No session: everything but GetDeviceInfo and OpenSession is refused.
RejectCommand ==
  /\ ~session
  /\ Reply(<<"Refused">>)
  /\ UNCHANGED <<session, db, pending, writer, sd, shown>>

\* Mutant: a command for an open session falls through.
OpenAgain ==
  IF session THEN Untouched /\ Reply(<<"Refused", "OK">>)
  ELSE /\ session' = TRUE /\ db' = Cleared /\ shown' = <<>>
       /\ Reply(<<"OK">>)
       /\ UNCHANGED <<pending, writer, sd>>

OpenSession ==
  IF session THEN Refuse
  ELSE /\ session' = TRUE /\ db' = Cleared /\ shown' = <<>>
       /\ Reply(<<"OK">>)
       /\ UNCHANGED <<pending, writer, sd>>

\* Mutant: the handle table outlives the session.
ResetKeepsTable ==
  /\ session' = FALSE /\ db' = Db /\ shown' = <<>>
  /\ sd' = Sd /\ writer' = Writer /\ pending' = NoUpload

\* mtpServerResetSession
Reset == /\ session' = FALSE /\ db' = Cleared /\ shown' = <<>>
         /\ sd' = Sd /\ writer' = Writer /\ pending' = NoUpload

CloseSession == session /\ Reset /\ Reply(<<"OK">>)

\* The worker finds the cable gone.
Disconnect == session /\ Reset /\ answer' = CutOff
-----------------------------------------------------------------------------
(* Operations that read.                                                     *)

\* resolve_parent
IsParent(h)  == h = RootHandle \/ (Valid(Db, h) /\ Db[h].dir)
FolderOf(h)  == IF h = RootHandle THEN <<>> ELSE Db[h].path

\* GetObjectInfo, GetObjectPropValue, GetObjectPropList of one object.
Inspect(h) ==
  /\ session
  /\ IF Valid(Db, h) /\ Db[h].path \in DOMAIN Sd THEN Untouched /\ Reply(<<"OK">>)
                                                 ELSE Refuse

\* What interning every child of a folder leaves, the unknown ones in order.
Listed(kids, order) ==
  [h \in 1 .. (Len(Db) + Len(order)) |->
     IF h > Len(Db) THEN Object(order[h - Len(Db)], Sd[order[h - Len(Db)]].dir)
     ELSE IF \E p \in kids : h \in Find(Db, p)
       THEN Object(Db[h].path, Sd[Db[h].path].dir)
     ELSE Db[h]]

\* GetObjectHandles, and GetObjectPropList of a folder's children.
Browse(h) ==
  /\ session
  /\ IF ~(IsParent(h) /\ IsFolder(Sd, FolderOf(h))) THEN Refuse
     ELSE LET kids    == InFolder(Sd, FolderOf(h))
              unknown == {p \in kids : Find(Db, p) = {}} IN
       /\ Len(Db) + Cardinality(unknown) <= MaxHandles
       /\ \E order \in SetToSeqs(unknown) : Leave(Listed(kids, order), Sd)
       /\ Show({g \in DOMAIN db' : db'[g].path \in kids})
       /\ Reply(<<"OK">>)

MinOf(a, b) == IF a <= b THEN a ELSE b
\* What of a range of n from off a file of size len has.
Held(len, off, n) == IF off >= len THEN 0 ELSE MinOf(n, len - off)

\* Mutant: the header promises the first read only.
DeclaredFirst(len, off, n) == Held(len, off, MinOf(n, Cap))

\* send_object_range: the header is written with what the first read showed.
Declared(len, off, n) ==
  IF n > Cap /\ Held(len, off, Cap) = Cap THEN n ELSE Held(len, off, MinOf(n, Cap))

\* Answered by the data phase and `code`; a first read that fails answers for
\* itself, and the handler answers again.
SendRange(h, off, n) ==
  LET readable == Db[h].path \in DOMAIN Sd
      len == IF readable THEN Sd[Db[h].path].len ELSE 0 IN
  \E first \in Outcomes("read"), usb \in Outcomes("usb"),
     sent \in (IF "read" \in Faults THEN Held(len, off, MinOf(n, Cap)) ELSE Held(len, off, n))
              .. Held(len, off, n) :
    answer' =
      IF n > 0 /\ ~(first /\ readable) THEN [Silent EXCEPT !.codes = <<"Refused", "OK">>]
      ELSE IF ~usb THEN CutOff
      ELSE [codes |-> <<"OK">>, usb |-> TRUE, declared |-> Declared(len, off, n), sent |-> sent]

IsFile(h) == Valid(Db, h) /\ ~Db[h].dir

GetObject(h) ==
  /\ session
  /\ IF IsFile(h) /\ Db[h].path \in DOMAIN Sd
       THEN Untouched /\ SendRange(h, 0, Sd[Db[h].path].len)
       ELSE Refuse

GetPartialObject(h, off, n) ==
  /\ session
  /\ IF IsFile(h) THEN /\ \/ AskPastEnd
                          \/ Db[h].path \in DOMAIN Sd /\ off + n <= Sd[Db[h].path].len
                       /\ Untouched /\ SendRange(h, off, n)
     ELSE Refuse
-----------------------------------------------------------------------------
(* Uploads.                                                                  *)

Inodes == {Sd[p].ino : p \in DOMAIN Sd} \cup {shown[h] : h \in DOMAIN shown}
Unused == (1 .. MaxInodes) \ Inodes
Made(dir, len) == [dir |-> dir, ino |-> CHOOSE i \in Unused : TRUE, len |-> len]

\* Bounds, for a path about to be interned.
Fits(p) == Len(p) <= MaxDepth /\ HandleFor(Db, p) <= MaxHandles

\* SendObjectInfo of a file: the handle is reserved before the file is opened.
SendObjectInfo(parent, name, size) ==
  /\ session
  /\ IF ~IsParent(parent) THEN Refuse
     ELSE LET p == Append(FolderOf(parent), name)
              h == HandleFor(Db, p)
              t == Intern(Db, p, FALSE) IN
       /\ Fits(p)
       /\ \E ok \in Outcomes("sd") :
            IF ok /\ CanWrite(Sd, p)
              THEN /\ Unused # {}
                   /\ db' = t /\ writer' = p /\ sd' = Put(Sd, p, Made(FALSE, 0))
                   /\ pending' = [handle |-> h, path |-> p, size |-> size]
                   /\ Show({h}) /\ Reply(<<"OK">>) /\ UNCHANGED session
              ELSE Leave(Invalidate(t, h), Sd) /\ Show({}) /\ Reply(<<"Refused">>)

\* SendObjectInfo of a folder: mkdir takes one that is there for made.
MakeFolder(parent, name) ==
  /\ session
  /\ IF ~IsParent(parent) THEN Refuse
     ELSE LET p == Append(FolderOf(parent), name)
              h == HandleFor(Db, p)
              t == Intern(Db, p, TRUE) IN
       /\ Fits(p)
       /\ \E ok \in Outcomes("sd") :
            IF ~(ok /\ CanMkdir(Sd, p)) THEN Refuse
            ELSE /\ IF p \in DOMAIN Sd THEN Leave(t, Sd)
                    ELSE Unused # {} /\ Leave(t, Put(Sd, p, Made(TRUE, 0)))
                 /\ Show({h}) /\ Reply(<<"OK">>)

\* Mutant: a transfer shorter than announced is kept.
KeepAnything(n, size) == TRUE

\* Is what arrived all of the file?
Whole(n, size) == size = Unknown \/ n >= size

\* SendObject: n units arrive before the data phase ends; it ends early when
\* the store cannot take them or the cable is pulled.
SendObject(n) ==
  /\ session
  /\ IF pending = NoUpload THEN Refuse
     ELSE \E written \in Outcomes("write"), usb \in Outcomes("usb") :
       LET committed == written /\ usb /\ Whole(n, pending.size)
           closed == WriteEnd(sd, writer, committed) IN
       /\ sd' = IF committed /\ writer # NoUpload
                  THEN [closed EXCEPT ![writer].len = n] ELSE closed
       /\ db' = IF committed THEN db ELSE Invalidate(db, pending.handle)
       /\ writer' = NoUpload /\ pending' = NoUpload
       /\ answer' = IF committed THEN [Silent EXCEPT !.codes = <<"OK">>, !.sent = n,
                                                     !.declared = n]
                    ELSE IF written /\ usb THEN [Silent EXCEPT !.codes = <<"Refused">>]
                    ELSE [Silent EXCEPT !.usb = usb]
       /\ Show({}) /\ UNCHANGED session
-----------------------------------------------------------------------------
(* Operations on what is there.                                              *)

DeleteObject(h) ==
  /\ session
  /\ \E ok \in Outcomes("sd") :
       IF Valid(Db, h) /\ ok /\ CanRemove(Sd, Db[h].path, Db[h].dir)
         THEN /\ Leave(Invalidate(Db, h), Removed(Sd, Db[h].path))
              /\ Show({}) /\ Reply(<<"OK">>)
         ELSE Refuse

\* Renaming and moving: the handle follows.
MoveTo(h, to) ==
  \E ok \in Outcomes("sd") :
    IF ok /\ CanMove(Sd, Db[h].path, to)
      THEN /\ Leave(Rename(Db, h, to), Moved(Sd, Db[h].path, to))
           /\ Show({}) /\ Reply(<<"OK">>)
      ELSE Refuse

\* Bound: the subtree at p stays within MaxDepth when it moves to `to`.
DepthKept(p, to) ==
  \A q \in DOMAIN Sd : Below(p, q) => Len(q) - Len(p) + Len(to) <= MaxDepth

\* SetObjectPropValue of the file name.
SetName(h, name) ==
  /\ session
  /\ IF Valid(Db, h) THEN MoveTo(h, Append(Front(Db[h].path), name)) ELSE Refuse

MoveObject(h, parent) ==
  /\ session
  /\ IF ~(Valid(Db, h) /\ IsParent(parent)) THEN Refuse
     ELSE LET to == Append(FolderOf(parent), Last(Db[h].path)) IN
          DepthKept(Db[h].path, to) /\ MoveTo(h, to)

\* A file being read cannot be opened for writing, so a copy onto itself fails;
\* a copy that fails later removes what lies at its destination.
CopyObject(h, parent) ==
  /\ session
  /\ IF ~(Valid(Db, h) /\ IsParent(parent) /\ ~Db[h].dir) THEN Refuse
     ELSE LET from == Db[h].path
              to   == Append(FolderOf(parent), Last(from)) IN
       /\ Fits(to)
       /\ IF ~(from \in DOMAIN Sd /\ from # to /\ CanWrite(Sd, to)) THEN Refuse
          ELSE \E written \in Outcomes("write") :
            IF written
              THEN /\ Unused # {}
                   /\ Leave(Intern(Db, to, FALSE), Put(Sd, to, Made(FALSE, Sd[from].len)))
                   /\ Show({HandleFor(Db, to)}) /\ Reply(<<"OK">>)
              ELSE Leave(Db, Removed(Sd, to)) /\ Show({}) /\ Reply(<<"Refused">>)
-----------------------------------------------------------------------------
Handles == 1 .. MaxHandles

Next ==
  \/ RejectCommand \/ OpenSession \/ CloseSession \/ Disconnect
  \/ \E h \in Handles : Inspect(h) \/ GetObject(h) \/ DeleteObject(h)
  \/ \E h \in Handles, off \in 0 .. MaxSize, n \in 0 .. MaxSize : GetPartialObject(h, off, n)
  \/ \E h \in Handles, name \in Names : SetName(h, name)
  \/ \E n \in 0 .. MaxSize : SendObject(n)
  \/ \E parent \in {RootHandle} \cup Handles :
       \/ Browse(parent)
       \/ \E h \in Handles : MoveObject(h, parent) \/ CopyObject(h, parent)
       \/ \E name \in Names :
            \/ MakeFolder(parent, name)
            \/ \E size \in (0 .. MaxSize) \cup {Unknown} : SendObjectInfo(parent, name, size)

Spec == Init /\ [][Next]_vars
-----------------------------------------------------------------------------
TypeOK ==
  /\ session \in BOOLEAN
  /\ db \in Seq(Objects(Paths))
  /\ pending = NoUpload \/ pending \in [handle : Nat \ {0}, path : Paths, size : Nat \cup {Unknown}]
  /\ writer \in Paths \cup {NoUpload}
  /\ DOMAIN sd \subseteq Paths /\ sd \in [DOMAIN sd -> Inode]
  /\ DOMAIN shown = DOMAIN db /\ \A h \in DOMAIN shown : shown[h] \in Nat
  /\ answer \in [codes : Seq({"OK", "Refused"}), usb : BOOLEAN, declared : Nat, sent : Nat]

\* A handle the responder takes stands for the very object the host was given
\* it for, wherever that was renamed or moved: never for another file, and
\* never for one that is gone ("must stay stable for the lifetime of a
\* session", object_db.h:5).
HandleStable ==
  \A h \in DOMAIN db : db[h].valid => /\ db[h].path \in DOMAIN sd
                                      /\ sd[db[h].path].ino = shown[h]

\* An object has one handle, however it came under its path.
UniquePaths ==
  \A g, h \in DOMAIN db :
    db[g].valid /\ db[h].valid /\ db[g].path = db[h].path => g = h

\* A file is open for writing exactly while an announced upload is pending, at
\* the path its handle stands for, so that whatever ends the session, closes
\* or removes the right file.
UploadOwned ==
  /\ (writer = NoUpload) = (pending = NoUpload)
  /\ pending # NoUpload => /\ writer = pending.path
                           /\ Valid(db, pending.handle)
                           /\ db[pending.handle].path = pending.path
                           /\ session

\* A transaction is answered once, unless the cable failed.
AnsweredOnce == answer.usb => Len(answer.codes) = 1

\* The data phase carries what its header declares.
DeclaredIsSent == answer.declared = answer.sent

\* Within a session a handle that ended never means anything again.
NeverReused ==
  [][session /\ session' =>
       /\ DOMAIN db \subseteq DOMAIN db'
       /\ \A h \in DOMAIN db : db'[h].valid => db[h].valid]_vars

\* An upload that ends is on the card as a whole, or not at all, and the host
\* is told which: its handle stays good with the file, and ends without it.
UploadWhole ==
  [][pending # NoUpload /\ pending' # pending =>
       \/ /\ answer'.codes = <<"OK">> /\ pending.path \in DOMAIN sd'
          /\ sd'[pending.path].len >= (IF pending.size = Unknown THEN 0 ELSE pending.size)
          /\ Valid(db', pending.handle)
       \/ /\ pending.path \notin DOMAIN sd' \/ sd'[pending.path].ino # sd[pending.path].ino
          /\ ~Valid(db', pending.handle)]_vars
=============================================================================
