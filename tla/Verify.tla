------------------------------- MODULE Verify -------------------------------
(***************************************************************************)
(* Checking installed titles against their manifests (verify.c), one or    *)
(* all of them, on the main thread, while the MTP worker may delete some.  *)
(***************************************************************************)
EXTENDS TitlesStore

CONSTANTS
  Damaged,    \* titles with a content that does not have its hash
  MaxIssues   \* NEXUS_VERIFY_MAX_ISSUES

ASSUME VfAssumption == MaxIssues \in Nat

VARIABLES
  vfPc,       \* where the verification is
  vfTodo,     \* titles not checked yet
  vfReport,   \* g_verify: issues counted and listed, titles checked, cancelled
  vfDone,     \* g_verify_done
  vfBroken    \* history: the titles asked about that have been broken ever since

vfVars == <<vfPc, vfTodo, vfReport, vfDone, vfBroken>>

Blank == [bad |-> 0, issues |-> 0, checked |-> 0, cancelled |-> FALSE]

VfInit ==
  /\ vfPc = "idle" /\ vfTodo = <<>> /\ vfReport = Blank /\ vfDone = FALSE
  /\ vfBroken = {}

\* Of some titles, those that are not as their manifest says.
Broken(titles, content) == {t \in titles : t \in Damaged \/ content[t] # Parts}

\* nexusVerifyEverything's listing, or the one title of the titles screen.
VfBegin(titles) ==
  /\ vfPc = "idle" /\ vfPc' = "title"
  /\ vfTodo' = titles
  /\ vfReport' = Blank /\ vfDone' = TRUE
  /\ vfBroken' = Broken({titles[i] : i \in DOMAIN titles}, tlContent)

\* add_issue: an issue counts though the list of them is full.
Issue(report) ==
  [report EXCEPT !.bad = @ + 1, !.issues = IF @ < MaxIssues THEN @ + 1 ELSE @]

NextTitle(report) ==
  /\ vfPc' = "title" /\ vfTodo' = Tail(vfTodo)
  /\ vfReport' = [report EXCEPT !.checked = @ + 1]

\* nexusVerifyContentMeta up to its manifest.  A title that cannot be opened
\* is passed over, and counts as checked.
VfTitle ==
  /\ vfPc = "title" /\ vfTodo # <<>>
  /\ \E opens \in TlOutcomes("verify") :
       LET manifest == Head(vfTodo) \in tlMeta /\ "cnmt" \in tlContent[Head(vfTodo)] IN
       IF opens /\ manifest
         THEN vfPc' = "hash" /\ UNCHANGED <<vfTodo, vfReport>>
         ELSE NextTitle(IF opens THEN Issue(vfReport) ELSE vfReport)
  /\ UNCHANGED <<vfDone, vfBroken>>

\* Mutant: a content that is not there is passed over.
MatchesIfThere(t) == t \notin Damaged

\* hash_one_content
Matches(t) == "content" \in tlContent[t] /\ t \notin Damaged

VfHash ==
  /\ vfPc = "hash"
  /\ NextTitle(IF Matches(Head(vfTodo)) THEN vfReport ELSE Issue(vfReport))
  /\ UNCHANGED <<vfDone, vfBroken>>

\* B, while a content is hashed
VfCancel ==
  /\ vfPc = "hash" /\ vfPc' = "idle"
  /\ vfReport' = [vfReport EXCEPT !.cancelled = TRUE, !.checked = @ + 1]
  /\ vfTodo' = <<>>
  /\ UNCHANGED <<vfDone, vfBroken>>

VfEnd ==
  /\ vfPc = "title" /\ vfTodo = <<>>
  /\ vfPc' = "idle"
  /\ UNCHANGED <<vfTodo, vfReport, vfDone, vfBroken>>

\* What the worker installs anew meanwhile is whole again.
VfWatch ==
  /\ vfBroken' = Broken(vfBroken, tlContent')
  /\ UNCHANGED <<vfPc, vfTodo, vfReport, vfDone>>

VfStep == VfTitle \/ VfHash \/ VfCancel \/ VfEnd
-----------------------------------------------------------------------------
VfTypeOK ==
  /\ vfPc \in {"idle", "title", "hash"}
  /\ vfTodo \in Seq(Titles) /\ vfDone \in BOOLEAN
  /\ vfReport \in [bad : Nat, issues : 0..MaxIssues, checked : Nat,
                   cancelled : BOOLEAN]
  /\ vfBroken \subseteq Titles

\* draw_verify
EverythingMatches == vfPc = "idle" /\ vfDone /\ vfReport.bad = 0 /\ ~vfReport.cancelled

\* "Everything matches its manifest" is said only when none of the titles
\* asked about was broken when the verification began and has been ever
\* since, by damage or by an uninstallation half done: not when such a one is
\* deleted while it runs, nor when it is stopped before it comes to it.
MatchIsTrue == EverythingMatches => vfBroken = {}
=============================================================================
