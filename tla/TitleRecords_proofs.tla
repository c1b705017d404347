------------------------- MODULE TitleRecords_proofs -------------------------
(***************************************************************************)
(* What module TitleRecords promises, for every catalogue of titles and    *)
(* every set of faults without "list": a record lists no title that is not *)
(* wholly there.  The strengthening TlInv says of every step of a deletion *)
(* or an installation what it has ready for the next one.                  *)
(***************************************************************************)
EXTENDS TitleRecords, TLAPS

LEMMA FamilyFacts ==
  ASSUME NEW t \in Titles
  PROVE  t \in Family(t) /\ Family(t) \subseteq Titles
BY DEF Family

\* A job beyond its beginning has a title.
Titled == \A th \in Threads : tlJob[th].pc # "idle" => tlJob[th].title \in Titles

Good(u) == u \in tlMeta /\ tlContent[u] = Parts

RecordsWhole == \A u \in tlRecord : Good(u)

Alone == tlJob["main"].pc = "idle" \/ tlJob["worker"].pc = "idle"

\* What each step relies on: a deletion touches contents only when no record
\* lists its title, and what is pushed is whole.
Stage(th) ==
  /\ tlJob[th].pc \in {"open", "content", "cnmt", "meta"} => tlJob[th].title \notin tlRecord
  /\ tlJob[th].pc = "drop" =>
       tlJob[th].title \notin tlJob[th].kept /\ tlJob[th].kept \subseteq tlRecord
  /\ tlJob[th].pc = "push" =>
       tlJob[th].title \notin tlJob[th].kept /\ \A u \in tlJob[th].kept : Good(u)
  /\ tlJob[th].pc = "write" => tlJob[th].title \notin tlRecord
  /\ tlJob[th].pc = "merge" => Good(tlJob[th].title)
  /\ tlJob[th].pc \in {"replace", "add"} => \A u \in tlJob[th].kept : Good(u)
  /\ tlJob[th].pc = "add" => RecordsOf(tlJob[th].title) = {}

TlSafe == RecordsWhole /\ Alone /\ \A th \in Threads : Stage(th)

TlInv == TlTypeOK /\ Titled /\ (tlShared \/ TlSafe)
-----------------------------------------------------------------------------
LEMMA TlInitial == TlInit => TlInv
<1> SUFFICES ASSUME TlInit PROVE TlInv
  OBVIOUS
<1>1. TlTypeOK
  BY TlAssumption DEF TlInit, TlTypeOK, NoJob, JobPcs, Threads
<1>2. Titled
  BY DEF TlInit, Titled, NoJob, Threads
<1>3. TlSafe
  BY DEF TlInit, TlSafe, RecordsWhole, Good, Alone, Stage, NoJob, Threads
<1> QED BY <1>1, <1>2, <1>3 DEF TlInv
-----------------------------------------------------------------------------
(* Types, and a title for every job, step by step.                         *)

LEMMA JobTyped ==
  ASSUME TlTypeOK, NEW th \in Threads
  PROVE  /\ tlJob[th].pc \in JobPcs
         /\ tlJob[th].title \in Titles \cup {0}
         /\ tlJob[th].kept \in SUBSET Titles
         /\ tlJob[th] = [pc |-> tlJob[th].pc, title |-> tlJob[th].title, kept |-> tlJob[th].kept]
BY DEF TlTypeOK

LEMMA GoesTyped ==
  ASSUME TlTypeOK, Titled, NEW th \in Threads, NEW pc \in JobPcs,
         tlJob[th].pc # "idle", Goes(th, pc)
  PROVE  /\ tlJob' \in [Threads -> [pc : JobPcs, title : Titles \cup {0}, kept : SUBSET Titles]]
         /\ Titled'
BY DEF TlTypeOK, Titled, Goes

\* A listing moves a job on with the records it is to keep.
LEMMA KeepsTyped ==
  ASSUME TlTypeOK, NEW th \in Threads, NEW pc \in JobPcs, NEW kept \in SUBSET Titles,
         tlJob' = [tlJob EXCEPT ![th].pc = pc, ![th].kept = kept]
  PROVE  tlJob' \in [Threads -> [pc : JobPcs, title : Titles \cup {0}, kept : SUBSET Titles]]
BY DEF TlTypeOK

LEMMA BeginsTyped ==
  ASSUME TlTypeOK, Titled, NEW th \in Threads, NEW pc \in JobPcs, NEW t \in Titles,
         Begins(th, pc, t)
  PROVE  /\ tlJob' \in [Threads -> [pc : JobPcs, title : Titles \cup {0}, kept : SUBSET Titles]]
         /\ tlShared' \in BOOLEAN
         /\ Titled'
BY DEF TlTypeOK, Titled, Begins

LEMMA DeleteTyped ==
  ASSUME TlTypeOK, Titled, NEW th \in Threads, TlDelete(th)
  PROVE  TlTypeOK' /\ Titled'
<1> DEFINE j == tlJob[th]
<1>0. /\ tlJob \in [Threads -> [pc : JobPcs, title : Titles \cup {0}, kept : SUBSET Titles]]
      /\ tlContent \in [Titles -> SUBSET Parts] /\ tlMeta \subseteq Titles
      /\ tlRecord \subseteq Titles
      /\ tlJob[th].kept \in SUBSET Titles
  BY JobTyped DEF TlTypeOK
<1>1. CASE TlDeleteApp(th)
  <2>1. PICK pc \in {"deleted", "failed"} : Goes(th, pc) /\ tlJob[th].pc # "idle"
    BY <1>1 DEF TlDeleteApp, At
  <2>2. tlContent' \in [Titles -> SUBSET Parts] /\ tlMeta' \subseteq Titles /\ tlRecord' \subseteq Titles
    BY <1>0, <1>1 DEF TlDeleteApp
  <2> QED BY <2>1, <2>2, <1>1, GoesTyped DEF TlDeleteApp, TlTypeOK, JobPcs, Over
<1>2. CASE TlList(th)
  <2>1. PICK seen \in Seen(tlJob[th].title) :
          tlJob' = [tlJob EXCEPT ![th].pc = IF tlJob[th].title \in seen THEN "drop" ELSE "open",
                                 ![th].kept = seen \ {tlJob[th].title}]
    BY <1>2 DEF TlList
  <2>2. seen \subseteq Titles
    BY <2>1, <1>0 DEF Seen, RecordsOf
  <2>3. tlJob[th].pc = "list"
    BY <1>2 DEF TlList, At
  <2>4. tlJob' \in [Threads -> [pc : JobPcs, title : Titles \cup {0}, kept : SUBSET Titles]]
    <3>1. {"drop", "open"} \subseteq JobPcs
      BY DEF JobPcs
    <3>2. seen \ {tlJob[th].title} \in SUBSET Titles
      BY <2>2
    <3> DEFINE pc == IF tlJob[th].title \in seen THEN "drop" ELSE "open"
               left == seen \ {tlJob[th].title}
    <3>3. tlJob' = [tlJob EXCEPT ![th].pc = pc, ![th].kept = left]
      BY <2>1
    <3>4. pc \in JobPcs /\ left \in SUBSET Titles
      BY <3>1, <3>2
    <3> HIDE DEF pc, left
    <3> QED BY <3>3, <3>4, KeepsTyped
  <2>5. Titled'
    BY <2>1, <2>3, <1>0 DEF Titled
  <2> QED BY <2>4, <2>5, <1>2 DEF TlList, TlTypeOK, tlData
<1>3. CASE TlDrop(th)
  <2>1. PICK pc \in {"failed", "push", "open"} : Goes(th, pc) /\ tlJob[th].pc # "idle"
    BY <1>3 DEF TlDrop, At
  <2>2. tlRecord' \subseteq Titles
    BY <1>0, <1>3 DEF TlDrop
  <2> QED BY <2>1, <2>2, <1>3, GoesTyped DEF TlDrop, TlTypeOK, JobPcs, Over
<1>4. CASE TlPush(th)
  <2>1. PICK pc \in {"failed", "open"} : Goes(th, pc) /\ tlJob[th].pc # "idle"
    BY <1>4 DEF TlPush, At
  <2>2. tlRecord' \subseteq Titles
    BY <1>0, <1>4 DEF TlPush
  <2> QED BY <2>1, <2>2, <1>4, GoesTyped DEF TlPush, TlTypeOK, JobPcs, Over
<1>5. CASE TlOpen(th)
  <2>1. PICK pc \in {"failed", "content"} : Goes(th, pc) /\ tlJob[th].pc # "idle"
    BY <1>5 DEF TlOpen, At
  <2> QED BY <2>1, <1>5, GoesTyped DEF TlOpen, TlTypeOK, JobPcs, Over, tlData
<1>6. CASE TlDeletePart(th)
  <2>1. PICK pc \in {"cnmt", "meta"} : Goes(th, pc) /\ tlJob[th].pc # "idle"
    BY <1>6 DEF TlDeletePart, At, Parts
  <2>2. tlContent' \in [Titles -> SUBSET Parts]
    BY <1>0, <1>6 DEF TlDeletePart
  <2> QED BY <2>1, <2>2, <1>6, GoesTyped DEF TlDeletePart, TlTypeOK, JobPcs, Over
<1>7. CASE TlRemoveMeta(th)
  <2>1. PICK pc \in {"deleted", "failed"} : Goes(th, pc) /\ tlJob[th].pc # "idle"
    BY <1>7 DEF TlRemoveMeta, At
  <2>2. tlMeta' \subseteq Titles
    BY <1>0, <1>7 DEF TlRemoveMeta
  <2> QED BY <2>1, <2>2, <1>7, GoesTyped DEF TlRemoveMeta, TlTypeOK, JobPcs, Over
<1> QED BY <1>1, <1>2, <1>3, <1>4, <1>5, <1>6, <1>7 DEF TlDelete

LEMMA InstallTyped ==
  ASSUME TlTypeOK, Titled, TlInstall
  PROVE  TlTypeOK' /\ Titled'
<1>0. /\ tlJob \in [Threads -> [pc : JobPcs, title : Titles \cup {0}, kept : SUBSET Titles]]
      /\ tlContent \in [Titles -> SUBSET Parts] /\ tlMeta \subseteq Titles
      /\ tlRecord \subseteq Titles /\ tlPlaces \subseteq {"stray", "live"}
      /\ tlJob["worker"].kept \in SUBSET Titles
      /\ "worker" \in Threads
  BY JobTyped DEF TlTypeOK, Threads
<1>1. CASE TlRegister
  <2>1. PICK pc \in {"merge", "failed"} : Goes("worker", pc) /\ tlJob["worker"].pc = "write"
    BY <1>1 DEF TlRegister, At
  <2>2. tlJob["worker"].title \in Titles
    BY <2>1, <1>0 DEF Titled
  <2>3. tlContent' \in [Titles -> SUBSET Parts] /\ tlMeta' \subseteq Titles
        /\ tlPlaces' \subseteq {"stray", "live"}
    BY <1>0, <1>1, <2>2 DEF TlRegister
  <2> QED BY <2>1, <2>3, <1>0, <1>1, GoesTyped DEF TlRegister, TlTypeOK, JobPcs, Over
<1>2. CASE TlMerge
  <2>1. PICK seen \in Seen(tlJob["worker"].title) :
          tlJob' = [tlJob EXCEPT !["worker"].pc = "replace",
                                 !["worker"].kept = seen \cup {tlJob["worker"].title}]
    BY <1>2 DEF TlMerge
  <2>2. tlJob["worker"].title \in Titles /\ tlJob["worker"].pc = "merge"
    BY <1>2, <1>0 DEF TlMerge, At, Titled
  <2>3. seen \subseteq Titles
    BY <2>1, <1>0 DEF Seen, RecordsOf
  <2>4. tlJob' \in [Threads -> [pc : JobPcs, title : Titles \cup {0}, kept : SUBSET Titles]]
    <3>1. "replace" \in JobPcs
      BY DEF JobPcs
    <3>2. seen \cup {tlJob["worker"].title} \in SUBSET Titles
      BY <2>2, <2>3
    <3> QED BY <2>1, <3>1, <3>2, <1>0, KeepsTyped
  <2>5. Titled'
    BY <2>1, <2>2, <1>0 DEF Titled
  <2> QED BY <2>4, <2>5, <1>2 DEF TlMerge, TlTypeOK, tlData
<1>3. CASE TlReplace
  <2>1. Goes("worker", "add") /\ tlJob["worker"].pc # "idle"
    BY <1>3 DEF TlReplace, At
  <2>2. tlRecord' \subseteq Titles
    BY <1>0, <1>3 DEF TlReplace
  <2> QED BY <2>1, <2>2, <1>0, <1>3, GoesTyped DEF TlReplace, TlTypeOK, JobPcs
<1>4. CASE TlAdd
  <2>1. PICK pc \in {"installed", "failed"} : Goes("worker", pc) /\ tlJob["worker"].pc # "idle"
    BY <1>4 DEF TlAdd, At
  <2>2. tlContent' \in [Titles -> SUBSET Parts] /\ tlMeta' \subseteq Titles /\ tlRecord' \subseteq Titles
    BY <1>0, <1>4 DEF TlAdd
  <2> QED BY <2>1, <2>2, <1>0, <1>4, GoesTyped DEF TlAdd, TlTypeOK, JobPcs, Over
<1> QED BY <1>1, <1>2, <1>3, <1>4 DEF TlInstall

LEMMA NextTyped ==
  ASSUME TlTypeOK, Titled, [TlNext]_tlVars
  PROVE  TlTypeOK' /\ Titled'
<1>0. /\ tlJob \in [Threads -> [pc : JobPcs, title : Titles \cup {0}, kept : SUBSET Titles]]
      /\ tlContent \in [Titles -> SUBSET Parts] /\ tlMeta \subseteq Titles
      /\ tlRecord \subseteq Titles /\ tlPlaces \subseteq {"stray", "live"}
      /\ "worker" \in Threads /\ tlShared \in BOOLEAN
  BY DEF TlTypeOK, Threads
<1>1. ASSUME NEW th \in Threads, NEW t \in Titles, BeginDelete(th, t)
      PROVE  TlTypeOK' /\ Titled'
  <2>1. PICK pc \in {"app", "list"} : Begins(th, pc, t)
    BY <1>1 DEF BeginDelete
  <2> QED BY <2>1, <1>1, BeginsTyped DEF BeginDelete, TlTypeOK, JobPcs, tlData
<1>2. ASSUME NEW t \in Titles, TlBeginInstall(t)
      PROVE  TlTypeOK' /\ Titled'
  <2>1. Begins("worker", "write", t) /\ tlPlaces' \subseteq {"stray", "live"}
    BY <1>0, <1>2 DEF TlBeginInstall
  <2> QED BY <2>1, <1>0, <1>2, BeginsTyped DEF TlBeginInstall, TlTypeOK, JobPcs
<1>3. CASE TlStep
  BY <1>3, DeleteTyped, InstallTyped DEF TlStep
<1>4. ASSUME NEW th \in Threads, TlEnd(th)
      PROVE  TlTypeOK' /\ Titled'
  <2>1. tlJob' \in [Threads -> [pc : JobPcs, title : Titles \cup {0}, kept : SUBSET Titles]]
    BY <1>0, <1>4 DEF TlEnd, NoJob, JobPcs
  <2>2. Titled'
    BY <1>0, <1>4 DEF TlEnd, NoJob, Titled
  <2> QED BY <2>1, <2>2, <1>4 DEF TlEnd, TlTypeOK, tlData
<1>5. CASE TlCleanPlaceholders
  BY <1>5 DEF TlCleanPlaceholders, TlTypeOK, Titled
<1>6. CASE TlCleanOrphans
  BY <1>0, <1>6 DEF TlCleanOrphans, TlTypeOK, Titled
<1>7. CASE UNCHANGED tlVars
  BY <1>7 DEF tlVars, tlData, TlTypeOK, Titled
<1> QED BY <1>1, <1>2, <1>3, <1>4, <1>5, <1>6, <1>7 DEF TlNext
-----------------------------------------------------------------------------
(* What a record lists, step by step, as long as no two jobs overlap.      *)

\* A step of one job that leaves the other idle has only its own stage to
\* answer for.
LEMMA OneJob ==
  ASSUME TlTypeOK, TlSafe, NEW th \in Threads, tlJob[th].pc # "idle"
  PROVE  /\ tlJob[Other(th)].pc = "idle"
         /\ Other(th) \in Threads /\ Other(th) # th
         /\ \A o \in Threads : o = th \/ o = Other(th)
         /\ Stage(th)
BY DEF TlSafe, Alone, Other, Threads

LEMMA StepSafe ==
  ASSUME TlTypeOK, TlSafe, NEW th \in Threads, tlJob[th].pc # "idle",
         tlJob'[Other(th)] = tlJob[Other(th)], RecordsWhole', Stage(th)'
  PROVE  TlSafe'
<1>1. tlJob'[Other(th)].pc = "idle"
  BY OneJob
<1>2. \A o \in Threads : o # th => o = Other(th)
  BY OneJob
<1>3. Alone'
  BY <1>1 DEF Alone, Other, Threads
<1>4. Stage(Other(th))'
  BY <1>1 DEF Stage
<1> QED BY <1>2, <1>3, <1>4 DEF TlSafe

LEMMA DeleteSafe ==
  ASSUME "list" \notin TlFaults, TlTypeOK, Titled, TlSafe, NEW th \in Threads, TlDelete(th)
  PROVE  TlSafe'
<1>0. /\ tlJob \in [Threads -> [pc : JobPcs, title : Titles \cup {0}, kept : SUBSET Titles]]
      /\ tlContent \in [Titles -> SUBSET Parts] /\ tlMeta \subseteq Titles
      /\ tlRecord \subseteq Titles
      /\ RecordsWhole
  BY DEF TlTypeOK, TlSafe
<1>1. tlJob[th].pc # "idle"
  BY DEF TlDelete, TlDeleteApp, TlList, TlDrop, TlPush, TlOpen, TlDeletePart, TlRemoveMeta, At, Parts
<1>2. tlJob[th].title \in Titles
  BY <1>1 DEF Titled
<1>3. tlJob'[Other(th)] = tlJob[Other(th)]
  <2>1. Other(th) # th /\ Other(th) \in Threads
    BY <1>1, OneJob
  <2> QED
    BY <2>1, <1>0
    DEF TlDelete, TlDeleteApp, TlList, TlDrop, TlPush, TlOpen, TlDeletePart, TlRemoveMeta, Goes
<1>4. Stage(th)
  BY <1>1, OneJob
<1>5. tlJob[th].title \in Family(tlJob[th].title) /\ Family(tlJob[th].title) \subseteq Titles
  BY <1>2, FamilyFacts
<1> SUFFICES RecordsWhole' /\ Stage(th)'
  BY <1>1, <1>3, StepSafe
<1>a. CASE TlDeleteApp(th)
  <2>1. PICK ok \in BOOLEAN :
          LET gone == IF ok THEN Family(tlJob[th].title) ELSE {} IN
          /\ tlContent' = [t \in Titles |-> IF t \in gone THEN {} ELSE tlContent[t]]
          /\ tlMeta' = tlMeta \ gone /\ tlRecord' = tlRecord \ gone
          /\ Goes(th, IF ok THEN "deleted" ELSE "failed")
    BY <1>a DEF TlDeleteApp, TlOutcomes
  <2>2. RecordsWhole'
    BY <2>1, <1>0 DEF RecordsWhole, Good
  <2>3. tlJob'[th].pc \in {"deleted", "failed"}
    BY <2>1, <1>0 DEF Goes
  <2> QED BY <2>2, <2>3 DEF Stage
<1>b. CASE TlList(th)
  <2>1. tlJob' = [tlJob EXCEPT
                    ![th].pc = IF tlJob[th].title \in RecordsOf(tlJob[th].title) THEN "drop" ELSE "open",
                    ![th].kept = RecordsOf(tlJob[th].title) \ {tlJob[th].title}]
    BY <1>b DEF TlList, Seen
  <2>2. UNCHANGED <<tlContent, tlMeta, tlRecord>>
    BY <1>b DEF TlList, tlData
  <2>3. RecordsWhole'
    BY <2>2, <1>0 DEF RecordsWhole, Good
  <2>4. /\ tlJob'[th].pc = IF tlJob[th].title \in RecordsOf(tlJob[th].title) THEN "drop" ELSE "open"
        /\ tlJob'[th].kept = RecordsOf(tlJob[th].title) \ {tlJob[th].title}
        /\ tlJob'[th].title = tlJob[th].title
    BY <2>1, <1>0
  <2> QED BY <2>2, <2>3, <2>4, <1>5 DEF Stage, RecordsOf
<1>c. CASE TlDrop(th)
  <2>1. PICK ok \in BOOLEAN :
          /\ tlJob[th].pc = "drop"
          /\ tlRecord' = IF ok THEN tlRecord \ Family(tlJob[th].title) ELSE tlRecord
          /\ Goes(th, CASE ~ok                        -> "failed"
                        [] ok /\ tlJob[th].kept # {} -> "push"
                        [] OTHER                      -> "open")
          /\ UNCHANGED <<tlContent, tlMeta>>
    BY <1>c DEF TlDrop, TlOutcomes, At
  <2>2. tlJob'[th].title = tlJob[th].title /\ tlJob'[th].kept = tlJob[th].kept
    BY <2>1, <1>0 DEF Goes
  <2>3. CASE ok
    <3>1. tlJob'[th].pc = IF tlJob[th].kept # {} THEN "push" ELSE "open"
      BY <2>1, <2>3, <1>0 DEF Goes
    <3>2. tlRecord' = tlRecord \ Family(tlJob[th].title)
      BY <2>1, <2>3
    <3> QED BY <3>1, <3>2, <2>1, <2>2, <1>0, <1>4, <1>5 DEF Stage, RecordsWhole, Good
  <2>4. CASE ~ok
    <3>1. tlJob'[th].pc = "failed" /\ tlRecord' = tlRecord
      BY <2>1, <2>4, <1>0 DEF Goes
    <3> QED BY <3>1, <2>1, <1>0 DEF Stage, RecordsWhole, Good
  <2> QED BY <2>3, <2>4
<1>d. CASE TlPush(th)
  <2>1. PICK ok \in BOOLEAN :
          /\ tlJob[th].pc = "push"
          /\ tlRecord' = IF ok /\ RecordsOf(tlJob[th].title) = {}
                           THEN tlRecord \cup tlJob[th].kept ELSE tlRecord
          /\ Goes(th, IF ok /\ RecordsOf(tlJob[th].title) = {} THEN "open" ELSE "failed")
          /\ UNCHANGED <<tlContent, tlMeta>>
    BY <1>d DEF TlPush, TlOutcomes, At
  <2>2. tlJob'[th].title = tlJob[th].title
        /\ tlJob'[th].pc = IF ok /\ RecordsOf(tlJob[th].title) = {} THEN "open" ELSE "failed"
    BY <2>1, <1>0 DEF Goes
  <2>3. RecordsWhole'
    BY <2>1, <1>0, <1>4 DEF RecordsWhole, Good, Stage
  <2>4. Stage(th)'
    BY <2>1, <2>2, <1>4, <1>5 DEF Stage, RecordsOf
  <2> QED BY <2>3, <2>4
<1>e. CASE TlOpen(th)
  <2>1. PICK ok \in BOOLEAN :
          tlJob[th].pc = "open" /\ Goes(th, IF ok THEN "content" ELSE "failed")
          /\ UNCHANGED <<tlContent, tlMeta, tlRecord>>
    BY <1>e DEF TlOpen, TlOutcomes, At, tlData
  <2>2. tlJob'[th].title = tlJob[th].title /\ tlJob'[th].pc \in {"content", "failed"}
    BY <2>1, <1>0 DEF Goes
  <2> QED BY <2>1, <2>2, <1>0, <1>4 DEF Stage, RecordsWhole, Good
<1>f. CASE TlDeletePart(th)
  <2>1. /\ tlJob[th].pc \in {"content", "cnmt"}
        /\ \A t \in Titles : t # tlJob[th].title => tlContent'[t] = tlContent[t]
        /\ UNCHANGED <<tlMeta, tlRecord>>
    BY <1>f, <1>0 DEF TlDeletePart, At, Parts
  <2>2. tlJob'[th].title = tlJob[th].title /\ tlJob'[th].pc \in {"cnmt", "meta"}
    BY <1>f, <1>0 DEF TlDeletePart, Goes
  <2>3. tlJob[th].title \notin tlRecord
    BY <2>1, <1>4 DEF Stage
  <2> QED BY <2>1, <2>2, <2>3, <1>0 DEF Stage, RecordsWhole, Good
<1>g. CASE TlRemoveMeta(th)
  <2>1. /\ tlJob[th].pc = "meta"
        /\ \A t \in Titles : t # tlJob[th].title => (t \in tlMeta' <=> t \in tlMeta)
        /\ UNCHANGED <<tlContent, tlRecord>>
    BY <1>g, <1>0 DEF TlRemoveMeta, At
  <2>2. tlJob'[th].pc \in {"deleted", "failed"}
    BY <1>g, <1>0 DEF TlRemoveMeta, Goes
  <2>3. tlJob[th].title \notin tlRecord
    BY <2>1, <1>4 DEF Stage
  <2> QED BY <2>1, <2>2, <2>3, <1>0 DEF Stage, RecordsWhole, Good
<1> QED BY <1>a, <1>b, <1>c, <1>d, <1>e, <1>f, <1>g DEF TlDelete

LEMMA InstallSafe ==
  ASSUME "list" \notin TlFaults, TlTypeOK, Titled, TlSafe, TlInstall
  PROVE  TlSafe'
<1>0. /\ tlJob \in [Threads -> [pc : JobPcs, title : Titles \cup {0}, kept : SUBSET Titles]]
      /\ tlContent \in [Titles -> SUBSET Parts] /\ tlMeta \subseteq Titles
      /\ tlRecord \subseteq Titles /\ "worker" \in Threads
      /\ RecordsWhole
  BY DEF TlTypeOK, TlSafe, Threads
<1> DEFINE title == tlJob["worker"].title
<1>1. tlJob["worker"].pc # "idle"
  BY DEF TlInstall, TlRegister, TlMerge, TlReplace, TlAdd, At
<1>2. title \in Titles
  BY <1>0, <1>1 DEF Titled
<1>3. tlJob'[Other("worker")] = tlJob[Other("worker")]
  BY <1>0 DEF TlInstall, TlRegister, TlMerge, TlReplace, TlAdd, Goes, Other, Threads
<1>4. Stage("worker")
  BY <1>0, <1>1, OneJob
<1>5. title \in Family(title) /\ Family(title) \subseteq Titles
  BY <1>2, FamilyFacts
<1> SUFFICES RecordsWhole' /\ Stage("worker")'
  BY <1>0, <1>1, <1>3, StepSafe
<1>a. CASE TlRegister
  <2>1. /\ tlJob["worker"].pc = "write" /\ tlRecord' = tlRecord
        /\ \/ /\ tlContent' = [tlContent EXCEPT ![title] = Parts]
              /\ tlMeta' = tlMeta \cup {title} /\ Goes("worker", "merge")
           \/ UNCHANGED <<tlContent, tlMeta>> /\ Goes("worker", "failed")
    BY <1>a DEF TlRegister, At
  <2>2. CASE Goes("worker", "merge") /\ tlContent' = [tlContent EXCEPT ![title] = Parts]
             /\ tlMeta' = tlMeta \cup {title}
    <3>1. tlJob'["worker"].pc = "merge" /\ tlJob'["worker"].title = title
      BY <2>2, <1>0 DEF Goes
    <3>2. Good(title)'
      BY <2>2, <3>1, <1>0, <1>2 DEF Good
    <3> QED BY <2>1, <2>2, <3>1, <3>2, <1>0, <1>2 DEF Stage, RecordsWhole, Good
  <2>3. CASE Goes("worker", "failed") /\ UNCHANGED <<tlContent, tlMeta>>
    <3>1. tlJob'["worker"].pc = "failed"
      BY <2>3, <1>0 DEF Goes
    <3> QED BY <2>1, <2>3, <3>1, <1>0 DEF Stage, RecordsWhole, Good
  <2> QED BY <2>1, <2>2, <2>3
<1>b. CASE TlMerge
  <2>1. /\ tlJob' = [tlJob EXCEPT !["worker"].pc = "replace",
                                  !["worker"].kept = RecordsOf(title) \cup {title}]
        /\ tlJob["worker"].pc = "merge"
        /\ UNCHANGED <<tlContent, tlMeta, tlRecord>>
    BY <1>b DEF TlMerge, Seen, At, tlData
  <2>2. tlJob'["worker"].pc = "replace" /\ tlJob'["worker"].kept = RecordsOf(title) \cup {title}
    BY <2>1, <1>0
  <2>3. \A u \in RecordsOf(title) \cup {title} : Good(u)
    BY <2>1, <1>0, <1>4 DEF Stage, RecordsWhole, RecordsOf
  <2> QED BY <2>1, <2>2, <2>3, <1>0 DEF Stage, RecordsWhole, Good
<1>c. CASE TlReplace
  <2>1. /\ tlJob["worker"].pc = "replace" /\ UNCHANGED <<tlContent, tlMeta>>
        /\ tlRecord' = tlRecord \ Family(title) /\ Goes("worker", "add")
    BY <1>c DEF TlReplace, At
  <2>2. /\ tlJob'["worker"].pc = "add" /\ tlJob'["worker"].title = title
        /\ tlJob'["worker"].kept = tlJob["worker"].kept
    BY <2>1, <1>0 DEF Goes
  <2> QED BY <2>1, <2>2, <1>0, <1>4 DEF Stage, RecordsWhole, Good, RecordsOf
<1>d. CASE TlAdd
  <2>1. tlJob["worker"].pc = "add" /\ RecordsOf(title) = {}
    BY <1>d, <1>4 DEF TlAdd, At, Stage
  <2>2. /\ tlRecord' = tlRecord \cup tlJob["worker"].kept
        /\ UNCHANGED <<tlContent, tlMeta>> /\ Goes("worker", "installed")
    BY <1>d, <2>1 DEF TlAdd
  <2>3. tlJob'["worker"].pc = "installed"
    BY <2>2, <1>0 DEF Goes
  <2> QED BY <2>1, <2>2, <2>3, <1>0, <1>4 DEF Stage, RecordsWhole, Good
<1> QED BY <1>a, <1>b, <1>c, <1>d DEF TlInstall
-----------------------------------------------------------------------------
\* A job that begins while the other runs is an overlap, and with a sweep it
\* is the same; what begins alone has no record to touch yet.
LEMMA BeginSafe ==
  ASSUME TlTypeOK, Titled, TlSafe, NEW th \in Threads, NEW pc \in {"app", "list", "write"},
         NEW t \in Titles, pc = "write" => t \notin tlRecord, Begins(th, pc, t),
         tlContent' = tlContent, tlMeta' = tlMeta, tlRecord' = tlRecord
  PROVE  tlShared' \/ TlSafe'
<1>1. CASE tlJob[Other(th)].pc # "idle"
  BY <1>1 DEF Begins
<1>2. CASE tlJob[Other(th)].pc = "idle"
  <2>1. /\ Other(th) \in Threads /\ Other(th) # th
        /\ \A o \in Threads : o = th \/ o = Other(th)
    BY DEF Other, Threads
  <2>2. tlJob'[th] = [pc |-> pc, title |-> t, kept |-> {}] /\ tlJob'[Other(th)].pc = "idle"
    BY <1>2, <2>1 DEF Begins, TlTypeOK
  <2>3. Alone'
    BY <2>2 DEF Alone, Other, Threads
  <2>4. RecordsWhole'
    BY DEF TlSafe, RecordsWhole, Good
  <2>5. Stage(th)' /\ Stage(Other(th))'
    BY <2>2 DEF Stage
  <2> QED BY <2>1, <2>3, <2>4, <2>5 DEF TlSafe
<1> QED BY <1>1, <1>2

LEMMA NextSafe ==
  ASSUME "list" \notin TlFaults, TlTypeOK, Titled, TlSafe, [TlNext]_tlVars
  PROVE  tlShared' \/ TlSafe'
<1>0. /\ tlJob \in [Threads -> [pc : JobPcs, title : Titles \cup {0}, kept : SUBSET Titles]]
      /\ tlContent \in [Titles -> SUBSET Parts] /\ tlMeta \subseteq Titles
      /\ tlRecord \subseteq Titles /\ "worker" \in Threads
      /\ RecordsWhole
  BY DEF TlTypeOK, TlSafe, Threads
<1>1. ASSUME NEW th \in Threads, NEW t \in Titles, BeginDelete(th, t)
      PROVE  tlShared' \/ TlSafe'
  <2>1. PICK pc \in {"app", "list"} : Begins(th, pc, t)
    BY <1>1 DEF BeginDelete
  <2>2. tlContent' = tlContent /\ tlMeta' = tlMeta /\ tlRecord' = tlRecord
    BY <1>1 DEF BeginDelete, tlData
  <2> QED BY <2>1, <2>2, BeginSafe
<1>2. ASSUME NEW t \in Titles, TlBeginInstall(t)
      PROVE  tlShared' \/ TlSafe'
  <2>1. t \notin tlRecord
    BY <1>0, <1>2 DEF TlBeginInstall, RecordsWhole, Good
  <2> QED BY <2>1, <1>0, <1>2, BeginSafe DEF TlBeginInstall
<1>3. CASE TlStep
  BY <1>3, DeleteSafe, InstallSafe DEF TlStep
<1>4. ASSUME NEW th \in Threads, TlEnd(th)
      PROVE  tlShared' \/ TlSafe'
  <2>1. /\ tlJob'[th].pc = "idle" /\ UNCHANGED <<tlContent, tlMeta, tlRecord>>
        /\ tlJob'[Other(th)] = tlJob[Other(th)] /\ tlJob[th].pc # "idle"
    BY <1>0, <1>4 DEF TlEnd, NoJob, tlData, Other, Threads, Over
  <2>2. RecordsWhole'
    BY <1>0, <2>1 DEF RecordsWhole, Good
  <2>3. Stage(th)'
    BY <2>1 DEF Stage
  <2> QED BY <2>1, <2>2, <2>3, StepSafe
<1>5. CASE TlCleanPlaceholders
  BY <1>5 DEF TlCleanPlaceholders, TlSafe, RecordsWhole, Good, Alone, Stage, RecordsOf
<1>6. CASE TlCleanOrphans
  <2>1. CASE Busy
    BY <1>6, <2>1 DEF TlCleanOrphans
  <2>2. CASE ~Busy
    <3>1. \A th \in Threads : tlJob'[th].pc = "idle"
      BY <1>6, <2>2 DEF TlCleanOrphans, Busy, At
    <3>2. \A u \in tlRecord : RecordsOf(u) # {}
      BY <1>0, FamilyFacts DEF RecordsOf
    <3>3. RecordsWhole'
      BY <1>0, <1>6, <3>2 DEF TlCleanOrphans, RecordsWhole, Good
    <3> QED BY <3>1, <3>3 DEF TlSafe, Alone, Stage, Threads
  <2> QED BY <2>1, <2>2
<1>7. CASE UNCHANGED tlVars
  BY <1>7 DEF tlVars, tlData, TlSafe, RecordsWhole, Good, Alone, Stage, RecordsOf
<1> QED BY <1>1, <1>2, <1>3, <1>4, <1>5, <1>6, <1>7 DEF TlNext

\* An overlap is never forgotten.
LEMMA SharedStays ==
  ASSUME TlTypeOK, tlShared, [TlNext]_tlVars
  PROVE  tlShared'
BY DEF TlNext, TlStep, TlDelete, TlDeleteApp, TlList, TlDrop, TlPush, TlOpen, TlDeletePart,
       TlRemoveMeta, TlInstall, TlRegister, TlMerge, TlReplace, TlAdd, BeginDelete,
       TlBeginInstall, Begins, TlEnd, TlCleanPlaceholders, TlCleanOrphans, tlVars, tlData

LEMMA TlInductive ==
  ASSUME "list" \notin TlFaults, TlInv, [TlNext]_tlVars
  PROVE  TlInv'
BY NextTyped, NextSafe, SharedStays DEF TlInv
-----------------------------------------------------------------------------
\* Type correctness: whatever fails, records and metas stay titles of the
\* catalogue and a job beyond its beginning keeps a title of it.
THEOREM TlTypeCorrect == TlSpec => [](TlTypeOK /\ Titled)
<1>1. TlInit => TlTypeOK /\ Titled
  BY TlInitial DEF TlInv
<1>2. TlTypeOK /\ Titled /\ [TlNext]_tlVars => (TlTypeOK /\ Titled)'
  BY NextTyped
<1> QED BY <1>1, <1>2, PTL DEF TlSpec

\* As long as ns lists the records it has, no call of an uninstallation or an
\* installation that fails leaves a record that lists a title whose meta or
\* contents are gone, unless two jobs have overlapped: the order of
\* nexusTitleListDelete, trimming the record before it deletes a content.
THEOREM RecordsNeverDangle == "list" \notin TlFaults /\ TlSpec => []NoDanglingRecord
<1> SUFFICES ASSUME "list" \notin TlFaults PROVE TlSpec => []NoDanglingRecord
  OBVIOUS
<1>1. TlInit => TlInv
  BY TlInitial
<1>2. TlInv /\ [TlNext]_tlVars => TlInv'
  BY TlInductive
<1>3. TlInv => NoDanglingRecord
  BY DEF TlInv, TlSafe, RecordsWhole, Good, NoDanglingRecord
<1> QED BY <1>1, <1>2, <1>3, PTL DEF TlSpec
=============================================================================
