----------------------------- MODULE Jobs_proofs -----------------------------
(***************************************************************************)
(* The main thread's jobs that run on their own: feeding the installer     *)
(* from the card and the network, installing a firmware, replacing the     *)
(* program.  A section to each; Console_proofs carries the results over to *)
(* the console.                                                            *)
(***************************************************************************)
EXTENDS Feeders, Firmware, SelfUpdate, SequenceTheorems, FiniteSetTheorems, TLAPS

-----------------------------------------------------------------------------
(* Listings.                                                               *)

\* A rank is below the number of elements, and grows from one to the next.
LEMMA RankGrows ==
  ASSUME NEW S \in SUBSET Int, IsFiniteSet(S)
  PROVE  /\ \A x \in S : Rank(S, x) \in 0..(Cardinality(S) - 1)
         /\ \A x, y \in S : x < y => Rank(S, x) < Rank(S, y)
<1> DEFINE Below(x) == {z \in S : z < x}
<1>1. ASSUME NEW x \in S
      PROVE  IsFiniteSet(Below(x)) /\ Cardinality(Below(x)) \in Nat
  BY FS_Subset, FS_CardinalityType
<1>2. Cardinality(S) \in Nat
  BY FS_CardinalityType
<1>3. ASSUME NEW x \in S PROVE Cardinality(Below(x)) < Cardinality(S)
  <2>1. Below(x) \in SUBSET S /\ x \notin Below(x)
    OBVIOUS
  <2>2. Below(x) # S
    BY <2>1
  <2> HIDE DEF Below
  <2>3. Cardinality(Below(x)) <= Cardinality(S) /\ Cardinality(S) # Cardinality(Below(x))
    BY <2>1, <2>2, FS_Subset
  <2> QED BY <1>1, <1>2, <2>3
<1>4. ASSUME NEW x \in S, NEW y \in S, x < y
      PROVE  Cardinality(Below(x)) < Cardinality(Below(y))
  <2>1. Below(x) \in SUBSET Below(y) /\ x \notin Below(x) /\ x \in Below(y)
    <3>1. x \in Int /\ y \in Int /\ \A z \in S : z \in Int
      OBVIOUS
    <3>2. \A z \in S : z < x => z < y
      BY <1>4, <3>1
    <3>3. x \notin Below(x) /\ x \in Below(y)
      BY <1>4, <3>1
    <3>4. Below(x) \subseteq Below(y)
      BY <3>2
    <3> QED BY <3>3, <3>4
  <2>2. Below(x) # Below(y)
    BY <2>1
  <2> HIDE DEF Below
  <2>3. /\ Cardinality(Below(x)) <= Cardinality(Below(y))
        /\ Cardinality(Below(y)) # Cardinality(Below(x))
    BY <1>1, <2>1, <2>2, FS_Subset
  <2> QED BY <1>1, <2>3
<1> QED BY <1>1, <1>2, <1>3, <1>4 DEF Rank

\* A listing in ascending order is a sequence of what there is, all of it.
LEMMA ListsAll ==
  ASSUME NEW S \in SUBSET Int, IsFiniteSet(S)
  PROVE  /\ Cardinality(S) \in Nat
         /\ InOrder(S) \in Seq(S) /\ Len(InOrder(S)) = Cardinality(S)
         /\ \A x \in S : \E k \in DOMAIN InOrder(S) : InOrder(S)[k] = x
<1> DEFINE n == Cardinality(S)
           places == 0..(n - 1)
           rank == [x \in S |-> Rank(S, x)]
<1>1. n \in Nat
  BY FS_CardinalityType
<1>2. IsFiniteSet(places) /\ Cardinality(places) = n
  <2>1. 0 \in Int /\ n - 1 \in Int
    BY <1>1
  <2> DEFINE m == n - 1
  <2>2. /\ IsFiniteSet(0..m)
        /\ Cardinality(0..m) = IF 0 > m THEN 0 ELSE m - 0 + 1
    BY <2>1, FS_Interval, Zenon
  <2> QED BY <1>1, <2>2
<1>3. rank \in [S -> places]
  BY RankGrows
<1>4. ASSUME NEW x \in S, NEW y \in S, rank[x] = rank[y] PROVE x = y
  <2>1. ~(x < y) /\ ~(y < x)
    BY <1>1, <1>4, RankGrows
  <2> QED BY <2>1
<1>5. rank \in Injection(S, places)
  BY <1>3, <1>4 DEF Injection, IsInjective
<1>6. rank \in Surjection(S, places)
  BY <1>2, <1>5, FS_Injection
<1>7. ASSUME NEW k \in 1..n
      PROVE  \E x \in S : Rank(S, x) = k - 1
  <2>1. k - 1 \in places
    BY <1>1
  <2> QED BY <1>6, <2>1 DEF Surjection
<1>8. InOrder(S) \in [1..n -> S] /\ \A k \in 1..n : Rank(S, InOrder(S)[k]) = k - 1
  BY <1>7 DEF InOrder
<1>9. ASSUME NEW x \in S PROVE \E k \in DOMAIN InOrder(S) : InOrder(S)[k] = x
  <2> DEFINE k == Rank(S, x) + 1
  <2>1. k \in 1..n
    BY <1>1, RankGrows
  <2>2. InOrder(S)[k] \in S /\ rank[InOrder(S)[k]] = rank[x]
    BY <1>1, <1>8, <2>1, RankGrows
  <2>3. InOrder(S)[k] = x
    BY <1>4, <2>2
  <2> QED BY <1>8, <2>1, <2>3
<1> QED BY <1>1, <1>8, <1>9
-----------------------------------------------------------------------------
(* Feeders.  Resuming a download, feeding a file and feeding its parts give *)
(* the installer the container or nothing, for every size, number of       *)
(* retries and cutting into parts; the game card's stream is its header    *)
(* and the picked contents in their order.                                 *)

\* The installer has taken the first n units, or lacks some of them for good.
Exact       == \A i \in 1..Len(fdFed) : fdFed[i] = i
Prefix(n)   == Len(fdFed) <= n /\ (Len(fdFed) = n => Exact)
Complete    == Len(fdFed) = Size /\ Exact
NetPcs      == {"request", "stream", "error", "lost"}

\* No error page is taken for a part of a download.
Trusted == fdKind = "net" => "errorbody" \notin FdFaults

TypeInv ==
  /\ fdKind \in FdKinds /\ fdFed \in Seq(Nat)
  /\ fdAt \in Nat \ {0} /\ fdBase \in Nat /\ fdPart \in Nat /\ fdCount \in Nat
  /\ fdPc \in NetPcs => fdKind = "net"
  /\ fdPc = "file" => fdKind = "nsp"
  /\ fdPc \in {"part", "inpart"} => fdKind = "split"
  /\ fdPc \in {"layout", "card"} => fdKind = "xci"

\* A server with ranges continues where the stream stopped; one without has
\* not been asked to, or its answer will be refused.
Resumed ==
  /\ Trusted /\ fdPc \in NetPcs /\ fdServer = "ranges" => Exact /\ Len(fdFed) <= Size
  /\ Trusted /\ fdPc = "stream" /\ (fdServer = "ranges" \/ fdBase = 0)
       => Exact /\ fdAt = Len(fdFed) + 1 /\ Len(fdFed) <= Size
  /\ fdServer \in {"ranges", "whole"}

\* What was read unseen from a file or a part is missing in the end.
Filed == fdPc = "file" => fdAt - 1 \in 0..Size /\ Prefix(fdAt - 1)

Parted ==
  fdPc \in {"part", "inpart"} =>
    /\ fdParts \in Folders
    /\ fdAt - 1 \in 0..Size /\ Prefix(fdAt - 1)
    /\ \A i \in 0..(fdPart - 1) : i \in fdParts
    /\ fdPc = "part" /\ fdPart > 0 => fdPart <= Len(Cut[fdParts]) /\ fdAt = Cut[fdParts][fdPart] + 1
    /\ fdPc = "part" /\ fdPart = 0 => fdAt = 1
    /\ fdPc = "inpart" => fdPart \in fdParts /\ fdAt <= PartEnd + 1

Finishing ==
  Trusted /\ fdPc = "finish" /\ fdKind # "xci" /\ Len(fdFed) >= Size => Complete
Installed ==
  /\ fdResult = "installed" => fdPc = "idle"
  /\ Trusted /\ fdResult = "installed" /\ fdKind # "xci" => Complete

FdInv == TypeInv /\ Resumed /\ Filed /\ Parted /\ Finishing /\ Installed

\* Of a game card the installer has taken the header and what was picked, in
\* its order, as far as the stream has come.
CardUnit(i)  == IF i = 1 THEN 1 ELSE Picked[i - 1] + 1
CardExact    == \A i \in 1..Len(fdFed) : fdFed[i] = CardUnit(i)
CardComplete == Len(fdFed) = Len(Picked) + 1 /\ CardExact

CardInv ==
  /\ fdPc = "layout" => fdAt = 1
  /\ fdPc = "card" => fdAt <= Len(Picked) + 1 /\ Len(fdFed) = fdAt /\ CardExact
  /\ fdKind = "xci" /\ (fdPc = "finish" \/ fdResult = "installed") => CardComplete
-----------------------------------------------------------------------------
\* One more unit, the next one, keeps the stream exact; a unit too few stays
\* one too few.
LEMMA TakesNext ==
  ASSUME fdFed \in Seq(Nat), NEW unit \in Nat, Takes(unit)
  PROVE  /\ fdFed' \in Seq(Nat) /\ Len(fdFed') = Len(fdFed) + 1
         /\ Exact /\ unit = Len(fdFed) + 1 => Exact'
         /\ \A n \in Nat : unit = n + 1 /\ Prefix(n)
              => Len(fdFed') <= unit /\ (Len(fdFed') = unit => Exact')
<1> USE DEF Takes
<1>1. fdFed' \in Seq(Nat) /\ Len(fdFed') = Len(fdFed) + 1
  OBVIOUS
<1>2. \A i \in 1..Len(fdFed') : fdFed'[i] = IF i <= Len(fdFed) THEN fdFed[i] ELSE unit
  OBVIOUS
<1>3. Exact /\ unit = Len(fdFed) + 1 => Exact'
  BY <1>1, <1>2 DEF Exact
<1> QED BY <1>1, <1>3 DEF Prefix

\* Of every part that can be reached the folder knows where it ends.
LEMMA PartReached ==
  ASSUME fdParts \in Folders, fdPart \in Nat, fdPart \in fdParts,
         \A i \in 0..(fdPart - 1) : i \in fdParts
  PROVE  /\ fdPart + 1 \in 1..Len(Cut[fdParts]) /\ PartEnd \in 1..Size
         /\ fdPart > 0 => Cut[fdParts][fdPart] <= PartEnd
<1>1. 0..fdPart \subseteq fdParts
  OBVIOUS
<1>2. fdPart < Len(Cut[fdParts]) /\ Cut[fdParts] \in Seq(1..Size)
  BY <1>1, FdAssumption
<1>3. fdPart + 1 \in 1..Len(Cut[fdParts])
  BY <1>2
<1>4. fdPart > 0 => Cut[fdParts][(fdPart + 1) - 1] <= Cut[fdParts][fdPart + 1]
  BY <1>3, FdAssumption
<1>5. (fdPart + 1) - 1 = fdPart
  OBVIOUS
<1>6. PartEnd \in 1..Size
  BY <1>2, <1>3, ElementOfSeq DEF PartEnd
<1> QED BY <1>3, <1>4, <1>5, <1>6 DEF PartEnd

LEMMA PickedTyped ==
  /\ Picked \in Seq(DOMAIN Secure) /\ DOMAIN Secure \subseteq Nat \ {0}
  /\ Contents \in Seq(DOMAIN Secure)
  /\ Len(Contents) <= EntryCap => Picked = Contents
<1> DEFINE S == {k \in DOMAIN Secure : Secure[k]}
           n == IF Len(InOrder(S)) < EntryCap THEN Len(InOrder(S)) ELSE EntryCap
<1>1. Len(Secure) \in Nat /\ DOMAIN Secure = 1..Len(Secure)
  BY FdAssumption
<1>2. IsFiniteSet(DOMAIN Secure)
  <2>1. 1 \in Int /\ Len(Secure) \in Int
    BY <1>1
  <2> QED BY <1>1, <2>1, FS_Interval
<1>3. S \in SUBSET Int /\ IsFiniteSet(S) /\ S \subseteq DOMAIN Secure
  BY <1>1, <1>2, FS_Subset
<1>4. InOrder(S) \in Seq(S)
  BY <1>3, ListsAll
<1> HIDE DEF S
<1>5. InOrder(S) \in Seq(DOMAIN Secure)
  BY <1>3, <1>4, SeqMonotonic
<1>6. n \in 0..Len(InOrder(S))
  BY <1>5, FdAssumption
<1> HIDE DEF n
<1>7. SubSeq(InOrder(S), 1, n) \in Seq(DOMAIN Secure)
  BY <1>5, <1>6
<1>8. n = Len(InOrder(S)) => SubSeq(InOrder(S), 1, n) = InOrder(S)
  <2>1. SubSeq(InOrder(S), 1, Len(InOrder(S))) = InOrder(S)
    BY <1>5
  <2> QED BY <2>1
<1>9. Len(InOrder(S)) <= EntryCap => n = Len(InOrder(S))
  BY <1>5, FdAssumption DEF n
<1> QED BY <1>1, <1>5, <1>7, <1>8, <1>9 DEF Picked, Contents, S, n

LEMMA FdInitial == FdInit => FdInv
  BY DEF FdInit, FdInv, TypeInv, Resumed, Filed, Parted, Finishing, Installed,
         FdKinds, NetPcs

LEMMA FdInductive ==
  ASSUME FdInv, [FdNext]_fdVars
  PROVE  FdInv'
<1> USE FdAssumption
    DEF FdInv, TypeInv, NetPcs, fdSource, Trusted
<1>1. CASE FdBegin
  <2>1. \A folder \in Folders : Len(Cut[folder]) \in Nat
    OBVIOUS
  <2>2. fdFed' = <<>> /\ fdAt' = 1 /\ fdBase' = 0 /\ fdPart' = 0
        /\ fdKind' \in FdKinds /\ fdCount' \in Nat
        /\ fdServer' \in {"ranges", "whole"} /\ fdResult' \in {"none", "failed"}
    BY <1>1, <2>1 DEF FdBegin
  <2>3. fdPc' = "idle" \/ fdPc' = CASE fdKind' = "net"   -> "request"
                                   [] fdKind' = "nsp"   -> "file"
                                   [] fdKind' = "split" -> "part"
                                   [] fdKind' = "xci"   -> "layout"
    BY <1>1 DEF FdBegin
  <2>4. fdKind' = "split" => fdParts' \in Folders
    BY <1>1 DEF FdBegin
  <2>5. TypeInv'
    BY <2>2, <2>3 DEF FdKinds
  <2>6. Len(fdFed') = 0 /\ Exact' /\ Prefix(0)'
    BY <2>2 DEF Exact, Prefix
  <2> QED BY <2>2, <2>3, <2>4, <2>5, <2>6
          DEF Resumed, Filed, Parted, Finishing, Installed, FdKinds
<1>2. CASE FdRequest
  BY <1>2 DEF FdRequest, Resumed, Filed, Parted, Finishing, Installed, Exact, Complete
<1>3. CASE FdChunk
  <2>1. CASE Takes(fdAt) /\ fdAt' = fdAt + 1 /\ UNCHANGED fdPc
    <3>1. fdFed \in Seq(Nat)
      BY <1>3 DEF FdChunk
    <3>2. /\ fdFed' \in Seq(Nat) /\ Len(fdFed') = Len(fdFed) + 1
          /\ Exact /\ fdAt = Len(fdFed) + 1 => Exact'
      BY <2>1, <3>1, TakesNext
    <3> QED BY <1>3, <2>1, <3>1, <3>2 DEF FdChunk, Resumed, Filed, Parted, Finishing, Installed, Complete
  <2>2. CASE Refuses /\ UNCHANGED fdAt
    BY <1>3, <2>2 DEF FdChunk, Refuses, Resumed, Filed, Parted, Finishing, Installed, Complete, Exact
  <2> QED BY <1>3, <2>1, <2>2 DEF FdChunk
<1>4. CASE FdDrop
  BY <1>4 DEF FdDrop, Resumed, Filed, Parted, Finishing, Installed, Exact, Complete
<1>5. CASE FdAnswered
  BY <1>5 DEF FdAnswered, Resumed, Filed, Parted, Finishing, Installed, Exact, Complete
<1>6. CASE FdError
  <2>1. /\ fdPc = "error" /\ fdKind = "net" /\ fdResult # "installed"
        /\ UNCHANGED <<fdKind, fdServer, fdParts, fdCount, fdAt, fdBase, fdPart, fdResult>>
    BY <1>6 DEF FdError, Installed
  <2>2. CASE "errorbody" \in FdFaults /\ fdPc' = "lost" /\ fdFed' = Append(fdFed, ErrorPage)
    <3>1. fdFed' \in Seq(Nat)
      BY <2>2 DEF ErrorPage
    <3> QED BY <2>1, <2>2, <3>1 DEF Resumed, Filed, Parted, Finishing, Installed
  <2>3. CASE fdPc' = "abort" /\ fdFed' = fdFed
    BY <2>1, <2>3 DEF Resumed, Filed, Parted, Finishing, Installed
  <2> QED BY <1>6, <2>2, <2>3 DEF FdError
<1>7. CASE FdLost
  BY <1>7 DEF FdLost, Resumed, Filed, Parted, Finishing, Installed, Exact, Complete
<1>8. CASE FdFile
  <2>1. CASE fdAt <= Size /\ Takes(fdAt) /\ fdAt' = fdAt + 1 /\ UNCHANGED fdPc
    <3>1. /\ fdFed \in Seq(Nat) /\ fdAt - 1 \in Nat /\ fdAt = (fdAt - 1) + 1
          /\ Prefix(fdAt - 1) /\ fdAt' - 1 = fdAt
      BY <1>8, <2>1 DEF FdFile, Filed
    <3>2. /\ fdFed' \in Seq(Nat)
          /\ Len(fdFed') <= fdAt /\ (Len(fdFed') = fdAt => Exact')
      BY <2>1, <3>1, TakesNext
    <3>3. Prefix(fdAt - 1)'
      BY <3>1, <3>2 DEF Prefix
    <3> QED BY <1>8, <2>1, <3>1, <3>2, <3>3 DEF FdFile, Resumed, Filed, Parted, Finishing, Installed, Complete
  <2>2. CASE Refuses /\ UNCHANGED fdAt
    BY <1>8, <2>2 DEF FdFile, Refuses, Resumed, Filed, Parted, Finishing, Installed, Complete, Exact
  <2>3. CASE fdPc' = "finish" /\ UNCHANGED <<fdFed, fdAt>>
    BY <1>8, <2>3 DEF FdFile, Resumed, Filed, Parted, Finishing, Installed, Complete, Exact, Prefix
  <2> QED BY <1>8, <2>1, <2>2, <2>3 DEF FdFile
<1>9. CASE FdPartOpens
  <2>1. fdPc' = "inpart" => fdPart \in fdParts /\ fdAt <= PartEnd + 1
    BY <1>9, PartReached DEF FdPartOpens, Parted
  <2> QED BY <1>9, <2>1
          DEF FdPartOpens, Resumed, Filed, Parted, PartEnd, Finishing, Installed, Complete, Exact, Prefix
<1>10. CASE FdPart
  <2>1. fdPart + 1 \in 1..Len(Cut[fdParts]) /\ PartEnd \in 1..Size
    BY <1>10, PartReached DEF FdPart, Parted
  <2>2. CASE fdAt <= PartEnd /\ Takes(fdAt) /\ fdAt' = fdAt + 1 /\ UNCHANGED <<fdPc, fdPart>>
    <3>1. /\ fdFed \in Seq(Nat) /\ fdAt - 1 \in Nat /\ fdAt = (fdAt - 1) + 1
          /\ Prefix(fdAt - 1) /\ fdAt' - 1 = fdAt
      BY <1>10, <2>2 DEF FdPart, Parted
    <3>2. /\ fdFed' \in Seq(Nat)
          /\ Len(fdFed') <= fdAt /\ (Len(fdFed') = fdAt => Exact')
      BY <2>2, <3>1, TakesNext
    <3>3. Prefix(fdAt - 1)'
      BY <3>1, <3>2 DEF Prefix
    <3>4. PartEnd' = PartEnd
      BY <1>10, <2>2 DEF FdPart, PartEnd
    <3> QED BY <1>10, <2>1, <2>2, <3>1, <3>2, <3>3, <3>4
            DEF FdPart, Resumed, Filed, Parted, Finishing, Installed, Complete
  <2>3. CASE fdAt <= PartEnd /\ Refuses /\ UNCHANGED <<fdAt, fdPart>>
    BY <1>10, <2>3 DEF FdPart, Refuses, Resumed, Filed, Parted, Finishing, Installed, Complete, Exact
  <2>4. CASE fdPc' = "part" /\ fdPart' = fdPart + 1 /\ fdAt' = PartEnd + 1 /\ UNCHANGED fdFed
    <3>1. fdAt' = Cut[fdParts'][fdPart'] + 1 /\ fdPart' <= Len(Cut[fdParts']) /\ fdPart' > 0
      BY <1>10, <2>1, <2>4 DEF FdPart, PartEnd
    <3>2. fdAt' - 1 \in 0..Size /\ Prefix(fdAt - 1)'
      <4>1. fdFed \in Seq(Nat) /\ Prefix(fdAt - 1) /\ fdAt - 1 <= PartEnd /\ fdAt \in Nat
        BY <1>10, <2>1 DEF FdPart, Parted
      <4>2. fdAt' - 1 = PartEnd /\ fdFed' = fdFed
        BY <2>1, <2>4
      <4>3. Len(fdFed) <= PartEnd /\ (Len(fdFed) = PartEnd => Exact)
        BY <2>1, <4>1 DEF Prefix
      <4>4. Len(fdFed') <= fdAt' - 1 /\ (Len(fdFed') = fdAt' - 1 => Exact')
        BY <4>2, <4>3 DEF Exact
      <4> QED BY <2>1, <4>2, <4>4 DEF Prefix
    <3>3. \A i \in 0..(fdPart' - 1) : i \in fdParts'
      BY <1>10, <2>4 DEF FdPart, Parted
    <3> QED BY <1>10, <2>1, <2>4, <3>1, <3>2, <3>3
            DEF FdPart, Resumed, Filed, Parted, Finishing, Installed, Complete, Exact
  <2> QED BY <1>10, <2>2, <2>3, <2>4 DEF FdPart
<1>11. CASE FdLayout
  BY <1>11 DEF FdLayout, Resumed, Filed, Parted, Finishing, Installed, Complete, Exact
<1>12. CASE FdCard
  <2>1. CASE fdAt <= Len(Picked) /\ Takes(Picked[fdAt] + 1) /\ fdAt' = fdAt + 1 /\ UNCHANGED fdPc
    <3>1. fdAt \in 1..Len(Picked) /\ fdFed \in Seq(Nat)
      BY <2>1
    <3>2. Picked[fdAt] \in Nat
      BY <3>1, PickedTyped, ElementOfSeq
    <3>3. Picked[fdAt] + 1 \in Nat
      BY <3>2
    <3>4. fdFed' \in Seq(Nat)
      BY <2>1, <3>1, <3>3, TakesNext
    <3> QED BY <1>12, <2>1, <3>4 DEF FdCard, Resumed, Filed, Parted, Finishing, Installed
  <2>2. CASE fdPc' \in {"abort", "finish"} /\ UNCHANGED <<fdFed, fdAt>>
    BY <1>12, <2>2 DEF FdCard, Resumed, Filed, Parted, Finishing, Installed
  <2> QED BY <1>12, <2>1, <2>2 DEF FdCard, Refuses
<1>13. CASE FdFinish
  BY <1>13 DEF FdFinish, Declared, Resumed, Filed, Parted, Finishing, Installed, Complete, Exact
<1>14. CASE FdAbort
  BY <1>14 DEF FdAbort, Resumed, Filed, Parted, Finishing, Installed, Complete, Exact
<1>15. CASE UNCHANGED fdVars
  BY <1>15 DEF fdVars, Resumed, Filed, Parted, PartEnd, Prefix, Finishing, Installed, Complete, Exact
<1> QED
  BY <1>1, <1>2, <1>3, <1>4, <1>5, <1>6, <1>7, <1>8, <1>9, <1>10, <1>11, <1>12, <1>13,
     <1>14, <1>15 DEF FdNext, FdStep

FdUnits == (1..ErrorPage) \cup {k + 1 : k \in DOMAIN Secure}

FdPcs == {"idle", "request", "stream", "error", "lost", "file", "part", "inpart",
          "layout", "card", "finish", "abort"}

LEMMA FdTyped ==
  ASSUME FdInv, FdTypeOK, [FdNext]_fdVars
  PROVE  FdTypeOK'
<1> USE DEF fdSource
<1>0. /\ fdKind \in FdKinds /\ fdServer \in {"ranges", "whole"}
      /\ fdParts \in Folders \cup {{}} /\ fdCount \in Nat
      /\ fdPc \in FdPcs /\ fdFed \in Seq(FdUnits)
      /\ fdAt \in Nat \ {0} /\ fdBase \in Nat /\ fdAttempt \in 0..MaxResumes /\ fdPart \in Nat
      /\ fdResult \in {"none", "installed", "failed"} /\ Len(fdFed) \in Nat
      /\ MaxResumes \in Nat /\ Size \in Nat \ {0}
  BY FdAssumption DEF FdTypeOK, FdInv, TypeInv, FdPcs, FdUnits
<1>1. (1..Size) \cup {ErrorPage} \subseteq FdUnits /\ 1 \in FdUnits
  BY <1>0 DEF FdUnits, ErrorPage
<1>2. ASSUME NEW unit \in FdUnits, Takes(unit) PROVE fdFed' \in Seq(FdUnits)
  BY <1>0, <1>2 DEF Takes
<1>3. /\ fdKind' \in FdKinds /\ fdServer' \in {"ranges", "whole"}
      /\ fdParts' \in Folders \cup {{}} /\ fdCount' \in Nat
  <2>1. CASE FdBegin
    <3>1. \A folder \in Folders : Len(Cut[folder]) \in Nat
      BY FdAssumption
    <3> QED BY <2>1, <3>1 DEF FdBegin
  <2>2. CASE ~FdBegin
    <3>1. UNCHANGED fdSource
      BY <2>2
      DEF FdNext, FdStep, FdRequest, FdChunk, FdDrop, FdAnswered, FdError, FdLost, FdFile,
          FdPartOpens, FdPart, FdLayout, FdCard, FdFinish, FdAbort, fdVars
    <3> QED BY <1>0, <3>1
  <2> QED BY <2>1, <2>2
<1>4. fdPc' \in FdPcs /\ fdResult' \in {"none", "installed", "failed"}
  BY <1>0
  DEF FdNext, FdStep, FdBegin, FdKinds, FdRequest, FdChunk, FdDrop, FdAnswered, FdError, FdLost,
      FdFile, FdPartOpens, FdPart, FdLayout, FdCard, FdFinish, FdAbort, Refuses, FdPcs, fdVars
<1>5. fdAttempt' \in 0..MaxResumes
  <2>1. CASE FdLost
    BY <1>0, <2>1 DEF FdLost, GivenUp
  <2>2. CASE ~FdLost
    <3>1. fdAttempt' \in {0, fdAttempt}
      BY <2>2
      DEF FdNext, FdStep, FdBegin, FdRequest, FdChunk, FdDrop, FdAnswered, FdError, FdFile,
          FdPartOpens, FdPart, FdLayout, FdCard, FdFinish, FdAbort, fdVars
    <3> QED BY <1>0, <3>1
  <2> QED BY <2>1, <2>2
<1>6. fdBase' \in Nat /\ fdPart' \in Nat
  <2>1. fdPart' \in {0, fdPart, fdPart + 1}
    BY DEF FdNext, FdStep, FdBegin, FdRequest, FdChunk, FdDrop, FdAnswered, FdError, FdLost,
           FdFile, FdPartOpens, FdPart, FdLayout, FdCard, FdFinish, FdAbort, fdVars
  <2>2. fdBase' \in {0, fdBase, Len(fdFed)}
    BY DEF FdNext, FdStep, FdBegin, FdRequest, FdChunk, FdDrop, FdAnswered, FdError, FdLost,
           FdFile, FdPartOpens, FdPart, FdLayout, FdCard, FdFinish, FdAbort, fdVars
  <2> QED BY <1>0, <2>1, <2>2
<1>7. CASE FdPart
  <2>1. PartEnd \in 1..Size
    BY <1>7, PartReached DEF FdPart, FdInv, TypeInv, Parted
  <2>2. fdFed' \in Seq(FdUnits) /\ fdAt' \in Nat
    BY <1>0, <1>1, <1>2, <1>7, <2>1 DEF FdPart, Refuses
  <2> QED BY <1>3, <1>4, <1>5, <1>6, <2>2 DEF FdTypeOK, FdPcs, FdUnits
<1>8. CASE FdCard
  <2>1. ASSUME fdAt <= Len(Picked) PROVE Picked[fdAt] + 1 \in FdUnits
    <3>1. fdAt \in 1..Len(Picked)
      BY <1>0, <2>1, PickedTyped
    <3>2. Picked[fdAt] \in DOMAIN Secure
      BY <3>1, PickedTyped, ElementOfSeq
    <3> QED BY <3>2 DEF FdUnits
  <2>2. fdFed' \in Seq(FdUnits) /\ fdAt' \in Nat
    BY <1>0, <1>2, <1>8, <2>1 DEF FdCard, Refuses
  <2> QED BY <1>3, <1>4, <1>5, <1>6, <2>2 DEF FdTypeOK, FdPcs, FdUnits
<1>9. CASE FdChunk \/ FdFile
  <2>1. fdAt <= Size => fdAt \in FdUnits
    BY <1>0, <1>1
  <2>2. fdFed' \in Seq(FdUnits) /\ fdAt' \in Nat
    BY <1>0, <1>2, <1>9, <2>1 DEF FdChunk, FdFile, Refuses
  <2> QED BY <1>3, <1>4, <1>5, <1>6, <2>2 DEF FdTypeOK, FdPcs, FdUnits
<1>10. CASE FdError \/ FdLayout \/ FdBegin
  <2>1. ErrorPage \in FdUnits /\ <<1>> \in Seq(FdUnits)
    BY <1>1
  <2>2. fdFed' \in {fdFed, <<>>, <<1>>, Append(fdFed, ErrorPage)} /\ fdAt' \in {1, fdAt}
    BY <1>10 DEF FdError, FdLayout, FdBegin
  <2>3. Append(fdFed, ErrorPage) \in Seq(FdUnits) /\ <<>> \in Seq(FdUnits)
    BY <1>0, <2>1
  <2>4. fdFed' \in Seq(FdUnits) /\ fdAt' \in Nat
    <3>1. fdFed' \in Seq(FdUnits)
      BY <1>0, <2>1, <2>2, <2>3, Zenon
    <3>2. 1 \in Nat /\ fdAt \in Nat
      BY <1>0
    <3> QED BY <2>2, <3>1, <3>2, Zenon
  <2> QED BY <1>3, <1>4, <1>5, <1>6, <2>4 DEF FdTypeOK, FdPcs, FdUnits
<1>11. ASSUME FdRequest \/ FdDrop \/ FdAnswered \/ FdLost \/ FdPartOpens \/ FdFinish \/ FdAbort
              \/ UNCHANGED fdVars
       PROVE  FdTypeOK'
  <2>1. UNCHANGED fdFed /\ fdAt' \in Nat
    BY <1>0, <1>11
    DEF FdRequest, FdDrop, FdAnswered, FdLost, FdPartOpens, FdFinish, FdAbort, fdVars
  <2> QED BY <1>0, <1>3, <1>4, <1>5, <1>6, <2>1 DEF FdTypeOK, FdPcs, FdUnits
<1> QED BY <1>7, <1>8, <1>9, <1>10, <1>11 DEF FdNext, FdStep

LEMMA CardInductive ==
  ASSUME FdInv, FdTypeOK, CardInv, [FdNext]_fdVars
  PROVE  CardInv'
<1> USE DEF fdSource
<1>0. /\ fdFed \in Seq(Nat) /\ fdAt \in Nat \ {0} /\ Len(fdFed) \in Nat
      /\ Picked \in Seq(DOMAIN Secure) /\ Len(Picked) \in Nat /\ UNCHANGED Picked
      /\ fdResult = "installed" => fdPc = "idle"
      /\ fdKind = "xci" => fdPc \in {"idle", "layout", "card", "finish", "abort"}
  <2>1. UNCHANGED Picked
    BY DEF Picked, Contents, InOrder, Rank
  <2>2. fdKind = "xci" => fdPc \in {"idle", "layout", "card", "finish", "abort"}
    BY DEF FdInv, TypeInv, NetPcs, FdTypeOK
  <2> QED BY <2>1, <2>2, PickedTyped DEF FdInv, TypeInv, Installed
<1>1. CASE FdBegin
  <2>1. fdAt' = 1 /\ fdPc' \notin {"card", "finish"} /\ fdResult' # "installed"
    BY <1>1 DEF FdBegin, FdKinds
  <2> QED BY <2>1 DEF CardInv
<1>2. ASSUME \/ FdRequest \/ FdChunk \/ FdDrop \/ FdAnswered \/ FdError \/ FdLost
             \/ FdFile \/ FdPartOpens \/ FdPart
      PROVE  CardInv'
  <2>1. /\ fdPc \notin {"idle", "layout", "card", "finish", "abort"}
        /\ fdPc' \notin {"idle", "layout", "card"} /\ UNCHANGED <<fdKind, fdResult>>
    BY <1>2
    DEF FdRequest, FdChunk, Refuses, FdDrop, FdAnswered, FdError, FdLost, FdFile, FdPartOpens, FdPart
  <2>2. fdKind' # "xci"
    BY <1>0, <2>1
  <2> QED BY <2>1, <2>2 DEF CardInv
<1>3. CASE FdLayout
  <2>1. fdAt = 1 /\ fdAt' = 1 /\ UNCHANGED fdKind /\ fdResult # "installed"
    BY <1>0, <1>3 DEF FdLayout, CardInv
  <2>2. \/ fdPc' = "card" /\ fdFed' = <<1>> /\ fdResult' = fdResult
        \/ fdPc' = "idle" /\ fdResult' = "failed"
    BY <1>3 DEF FdLayout
  <2>3. CASE fdPc' = "card"
    <3>1. Len(fdFed') = 1 /\ fdFed'[1] = 1
      BY <2>2, <2>3
    <3>2. \A i \in 1..Len(fdFed') : i = 1
      BY <3>1
    <3>3. CardExact'
      BY <3>1, <3>2 DEF CardExact, CardUnit
    <3> QED BY <1>0, <2>1, <2>2, <2>3, <3>1, <3>3 DEF CardInv
  <2> QED BY <2>1, <2>2, <2>3 DEF CardInv
<1>4. CASE FdCard
  <2>1. /\ fdPc = "card" /\ fdAt <= Len(Picked) + 1 /\ Len(fdFed) = fdAt /\ CardExact
        /\ UNCHANGED <<fdKind, fdResult>> /\ fdResult # "installed"
    BY <1>0, <1>4 DEF FdCard, CardInv
  <2>2. CASE fdAt <= Len(Picked) /\ Takes(Picked[fdAt] + 1) /\ fdAt' = fdAt + 1 /\ UNCHANGED fdPc
    <3>1. /\ Len(fdFed') = fdAt'
          /\ \A i \in 1..Len(fdFed') :
               fdFed'[i] = IF i <= Len(fdFed) THEN fdFed[i] ELSE Picked[fdAt] + 1
      BY <1>0, <2>1, <2>2 DEF Takes
    <3>2. \A i \in 1..Len(fdFed') : fdFed'[i] = CardUnit(i)
      <4> SUFFICES ASSUME NEW i \in 1..Len(fdFed') PROVE fdFed'[i] = CardUnit(i)
        OBVIOUS
      <4>1. CASE i <= Len(fdFed)
        BY <1>0, <2>1, <3>1, <4>1 DEF CardExact
      <4>2. CASE i = fdAt + 1
        <5>1. i # 1 /\ i - 1 = fdAt /\ ~(i <= Len(fdFed))
          BY <1>0, <2>1, <4>2
        <5> QED BY <3>1, <5>1 DEF CardUnit
      <4>3. i <= Len(fdFed) \/ i = fdAt + 1
        BY <1>0, <2>1, <2>2, <3>1
      <4> QED BY <4>1, <4>2, <4>3
    <3>3. CardExact'
      BY <1>0, <3>2 DEF CardExact, CardUnit
    <3> QED BY <1>0, <2>1, <2>2, <3>1, <3>3 DEF CardInv
  <2>3. CASE fdPc' = "abort" /\ UNCHANGED <<fdFed, fdAt>>
    BY <2>1, <2>3 DEF CardInv
  <2>4. CASE fdAt > Len(Picked) /\ fdPc' = "finish" /\ UNCHANGED <<fdFed, fdAt>>
    <3>1. Len(fdFed) = Len(Picked) + 1
      BY <1>0, <2>1, <2>4
    <3>2. CardComplete'
      BY <1>0, <2>1, <2>4, <3>1 DEF CardComplete, CardExact, CardUnit
    <3> QED BY <2>4, <3>2 DEF CardInv
  <2> QED BY <1>4, <2>2, <2>3, <2>4 DEF FdCard, Refuses
<1>5. CASE FdFinish
  <2>1. /\ fdPc = "finish" /\ fdPc' = "idle" /\ UNCHANGED <<fdKind, fdFed>>
    BY <1>5 DEF FdFinish
  <2>2. fdKind = "xci" => CardComplete'
    BY <1>0, <2>1 DEF CardInv, CardComplete, CardExact, CardUnit
  <2> QED BY <2>1, <2>2 DEF CardInv
<1>6. CASE FdAbort
  BY <1>6 DEF FdAbort, CardInv
<1>7. CASE UNCHANGED fdVars
  BY <1>0, <1>7 DEF fdVars, CardInv, CardComplete, CardExact, CardUnit
<1> QED BY <1>1, <1>2, <1>3, <1>4, <1>5, <1>6, <1>7 DEF FdNext, FdStep

LEMMA FdInvariant == FdSpec => [](FdInv /\ FdTypeOK /\ CardInv)
<1>1. FdInit => FdTypeOK /\ CardInv
  BY FdAssumption DEF FdInit, FdTypeOK, FdKinds, CardInv
<1>2. FdInv /\ FdTypeOK /\ CardInv /\ [FdNext]_fdVars => FdInv' /\ FdTypeOK' /\ CardInv'
  BY FdInductive, FdTyped, CardInductive
<1> QED BY <1>1, <1>2, FdInitial, PTL DEF FdSpec

\* What is reported as installed was fed whole and in order: a download, a
\* file, a folder of parts, or the header made up for a game card and all
\* its contents.  Of downloads this needs that no error page is taken for a
\* part of the file, of cards that they have no more contents than the header
\* has room for.
THEOREM InstalledWhole ==
  FdSpec => [](/\ fdKind = "net" => "errorbody" \notin FdFaults
               /\ fdKind = "xci" => Len(Contents) <= EntryCap
               => InstalledIsContainer)
<1> DEFINE Fits == fdKind = "xci" => Len(Contents) <= EntryCap
<1>1. FdInv /\ CardInv => (Trusted /\ Fits => InstalledIsContainer)
  <2> SUFFICES ASSUME FdInv, CardInv, Trusted, Fits, fdResult = "installed"
               PROVE  fdFed = Container(fdKind)
    BY DEF InstalledIsContainer
  <2>1. CASE fdKind # "xci"
    <3>1. fdFed \in Seq(Nat) /\ Len(fdFed) = Size /\ \A i \in 1..Size : fdFed[i] = i
      BY <2>1 DEF FdInv, TypeInv, Installed, Complete, Exact
    <3> QED BY <2>1, <3>1, FdAssumption DEF Container
  <2>2. CASE fdKind = "xci"
    <3> DEFINE rest == [k \in 1..Len(Picked) |-> Picked[k] + 1]
               all  == <<1>> \o rest
    <3>1. /\ fdFed \in Seq(Nat) /\ Len(fdFed) = Len(Picked) + 1 /\ Len(Picked) \in Nat
          /\ \A i \in 1..Len(fdFed) : fdFed[i] = CardUnit(i)
      BY <2>2, PickedTyped DEF FdInv, TypeInv, CardInv, CardComplete, CardExact
    <3>2. \A k \in 1..Len(Picked) : Picked[k] \in Nat
      BY PickedTyped, ElementOfSeq
    <3>3. rest \in Seq(Nat) /\ Len(rest) = Len(Picked)
      BY <3>1, <3>2
    <3>4. all \in Seq(Nat) /\ Len(all) = Len(Picked) + 1
      BY <3>1, <3>3
    <3>5. ASSUME NEW i \in 1..(Len(Picked) + 1) PROVE all[i] = fdFed[i]
      <4>1. fdFed[i] = CardUnit(i)
        BY <3>1
      <4>2. CASE i = 1
        BY <4>1, <4>2, <3>3 DEF CardUnit
      <4>3. CASE i # 1
        <5>1. i - 1 \in 1..Len(Picked) /\ all[i] = rest[i - 1]
          BY <3>1, <3>3, <4>3
        <5> QED BY <4>1, <4>3, <5>1 DEF CardUnit
      <4> QED BY <4>2, <4>3
    <3> HIDE DEF all
    <3>6. all = fdFed
      BY <3>1, <3>4, <3>5, SeqEqual
    <3> QED BY <2>2, <3>6, PickedTyped DEF Container, all
  <2> QED BY <2>1, <2>2
<1> QED BY <1>1, FdInvariant, PTL DEF Trusted

\* What an installation is fed, from where and how far it has come keep their
\* types: the parts it asks for are there to be asked for.
THEOREM FdTypeCorrect == FdSpec => []FdTypeOK
BY FdInvariant, PTL
-----------------------------------------------------------------------------
(* Firmware.  Content first, records second: what the two passes of a      *)
(* firmware installation establish, for every folder, every order of its   *)
(* files and every failure but a read that is taken for the end of a file. *)

\* What the record of m relies on in the folder.
Offered(m) == (FwDescribes[m] \cap fwFolder) \ FwOdd

\* The first pass leaves what it has come past registered, and no new record.
FirstPass ==
  fwPc = "content" =>
    /\ fwTodo \subseteq fwFolder
    /\ \A f \in (fwFolder \ fwTodo) \ FwOdd : fwContent[f] = "whole"
    /\ fwMeta = fwBefore.meta /\ fwSaw = FALSE

\* The second pass finds the whole folder registered.
SecondPass ==
  fwPc = "metas" =>
    /\ fwTodo \subseteq fwFolder \cap FwMetas
    /\ \A f \in fwFolder \ FwOdd : fwContent[f] = "whole"
    /\ fwSaw => fwMeta \cap FwUpdates # {}

\* Contents go only with a failure.
RecordsReadable ==
  ~fwTorn /\ fwPc # "rollback" =>
    /\ \A m \in fwMeta : fwContent[m] = "whole"
    /\ \A f \in FwRunning : fwContent[f] = "whole"

Updated == fwResult = "ok" => fwMeta \cap FwUpdates # {}

FwInv == FwTypeOK /\ FirstPass /\ SecondPass /\ RecordsReadable /\ Updated
-----------------------------------------------------------------------------
\* What a rollback remembers stays a set of files.
LEMMA RememberedFiles ==
  ASSUME NEW kept \in SUBSET FwFiles, NEW f \in FwFiles
  PROVE  Remembered(kept, f) \subseteq FwFiles
  BY DEF Remembered

LEMMA FwInitial == FwInit => FwInv
<1> SUFFICES ASSUME FwInit PROVE FwInv
  OBVIOUS
<1>1. /\ fwEmummc \in BOOLEAN /\ fwFolder \in FwFolders
      /\ fwValid = FALSE /\ fwPc = "idle" /\ fwTodo = {}
      /\ fwMeta = FwRunning \cap FwMetas /\ fwKept = {} /\ fwSaw = FALSE
      /\ fwResult = "none" /\ fwTorn = FALSE
  BY DEF FwInit
<1>2. fwContent \in [FwFiles -> FwKinds]
  BY DEF FwInit, FwKinds
<1>3. fwBefore \in [content : [FwFiles -> FwKinds], meta : SUBSET FwMetas]
  BY <1>1, <1>2 DEF FwInit
<1>4. FwTypeOK
  BY <1>1, <1>2, <1>3, Zenon DEF FwTypeOK
<1>5. RecordsReadable
  BY <1>1, FwAssumption DEF FwInit, RecordsReadable
<1> QED BY <1>1, <1>4, <1>5 DEF FwInv, FirstPass, SecondPass, Updated

\* Every step keeps the invariant, as long as no read fails unseen.
LEMMA FwInductive ==
  ASSUME "read" \notin FwFaults, FwInv, [FwNext]_fwVars
  PROVE  FwInv'
<1> USE FwAssumption DEF FwInv, FwTypeOK, fwSet, FwKinds
<1> USE DEF FirstPass, SecondPass, RecordsReadable, Updated
<1>1. CASE FwReplaceFolder BY <1>1 DEF FwReplaceFolder
<1>2. CASE FwScan BY <1>2 DEF FwScan, FwUsable
<1>3. CASE FwRefuse BY <1>3 DEF FwRefuse
<1>4. CASE FwBegin BY <1>4 DEF FwBegin
<1>5. CASE FwContent
  <2>1. PICK f \in fwTodo :
          /\ fwPc = "content" /\ fwTodo' = fwTodo \ {f}
          /\ \/ f \in FwOdd /\ UNCHANGED <<fwPc, fwContent, fwKept>>
             \/ /\ f \notin FwOdd
                /\ fwContent' = [fwContent EXCEPT ![f] = "whole"]
                /\ fwKept' = Remembered(fwKept, f)
                /\ UNCHANGED fwPc
             \/ f \notin FwOdd /\ fwPc' = "rollback" /\ UNCHANGED <<fwContent, fwKept>>
             \/ /\ f \notin FwOdd /\ fwPc' = "rollback"
                /\ fwContent' = [fwContent EXCEPT ![f] = "none"]
                /\ UNCHANGED fwKept
    BY <1>5 DEF FwContent, FwOutcomes
  <2>2. UNCHANGED <<fwSet, fwMeta, fwSaw, fwResult, fwTorn, fwBefore>>
    BY <1>5 DEF FwContent
  <2>3. f \in FwFiles /\ f \in fwFolder
    BY <2>1
  <2>4. CASE f \in FwOdd /\ UNCHANGED <<fwPc, fwContent, fwKept>>
    BY <2>1, <2>2, <2>4
  <2>5. CASE /\ f \notin FwOdd
             /\ fwContent' = [fwContent EXCEPT ![f] = "whole"]
             /\ fwKept' = Remembered(fwKept, f) /\ UNCHANGED fwPc
    <3>1. fwKept' \subseteq FwFiles BY <2>3, <2>5, RememberedFiles
    <3> QED BY <2>1, <2>2, <2>3, <2>5, <3>1
  <2>6. CASE f \notin FwOdd /\ fwPc' = "rollback" /\ UNCHANGED <<fwContent, fwKept>>
    BY <2>1, <2>2, <2>6
  <2>7. CASE /\ f \notin FwOdd /\ fwPc' = "rollback"
             /\ fwContent' = [fwContent EXCEPT ![f] = "none"] /\ UNCHANGED fwKept
    BY <2>1, <2>2, <2>7
  <2> QED BY <2>1, <2>4, <2>5, <2>6, <2>7
<1>6. CASE FwContentEnds BY <1>6 DEF FwContentEnds
<1>7. CASE FwRecord
  <2>1. PICK m \in fwTodo :
          /\ fwPc = "metas" /\ fwTodo' = fwTodo \ {m}
          /\ \/ m \in FwOdd /\ UNCHANGED <<fwPc, fwMeta, fwSaw>>
             \/ /\ fwContent[m] = "whole"
                /\ fwMeta' = fwMeta \cup {m} /\ fwPc' = "metas"
                /\ fwSaw' = (fwSaw \/ m \in FwUpdates)
             \/ /\ fwMeta' = fwMeta /\ fwPc' = "rollback"
                /\ fwSaw' \in BOOLEAN
    BY <1>7 DEF FwRecord, FwOutcomes
  <2>2. UNCHANGED <<fwSet, fwContent, fwKept, fwResult, fwTorn, fwBefore>>
    BY <1>7 DEF FwRecord
  <2>3. m \in FwMetas
    BY <2>1
  <2>4. fwSaw' \in BOOLEAN
    BY <2>1, Zenon
  <2>5. fwSaw' /\ fwPc' = "metas" => fwMeta' \cap FwUpdates # {}
    BY <2>1
  <2> QED BY <2>1, <2>2, <2>3, <2>4, <2>5
<1>8. CASE FwEnd BY <1>8 DEF FwEnd
<1>9. CASE FwNoFolder BY <1>9 DEF FwNoFolder
<1>10. CASE FwRollback BY <1>10 DEF FwRollback
<1>11. CASE UNCHANGED fwVars BY <1>11 DEF fwVars
<1> QED
  BY <1>1, <1>2, <1>3, <1>4, <1>5, <1>6, <1>7, <1>8, <1>9, <1>10, <1>11 DEF FwNext, FwInstall

LEMMA FwInvariant == ASSUME "read" \notin FwFaults PROVE FwSpec => []FwInv
<1>1. FwInv /\ [FwNext]_fwVars => FwInv'
  BY FwInductive
<1> QED BY <1>1, FwInitial, PTL DEF FwSpec

\* The second pass comes to nothing but metas.
FwTyped == FwTypeOK /\ (fwPc = "metas" => fwTodo \subseteq FwMetas)

LEMMA FwTypedInductive == FwTyped /\ [FwNext]_fwVars => FwTyped'
<1> SUFFICES ASSUME FwTyped, [FwNext]_fwVars PROVE FwTyped'
  OBVIOUS
<1> USE FwAssumption DEF FwTyped, FwTypeOK, fwSet, FwKinds
<1>1. CASE FwReplaceFolder BY <1>1 DEF FwReplaceFolder
<1>2. CASE FwScan BY <1>2 DEF FwScan, FwUsable
<1>3. CASE FwRefuse BY <1>3 DEF FwRefuse
<1>4. CASE FwBegin BY <1>4 DEF FwBegin
<1>5. CASE FwContent
  <2>1. PICK f \in fwTodo :
          /\ fwTodo' = fwTodo \ {f}
          /\ fwPc' \in {"content", "rollback"}
          /\ \/ UNCHANGED fwContent
             \/ \E kind \in FwKinds : fwContent' = [fwContent EXCEPT ![f] = kind]
          /\ fwKept' = fwKept \/ fwKept' = Remembered(fwKept, f)
    BY <1>5 DEF FwContent
  <2>2. UNCHANGED <<fwSet, fwMeta, fwSaw, fwResult, fwTorn, fwBefore>>
    BY <1>5 DEF FwContent
  <2>3. fwContent' \in [FwFiles -> FwKinds]
    BY <2>1
  <2>4. fwKept' \subseteq FwFiles
    BY <2>1, RememberedFiles
  <2>5. fwTodo' \subseteq FwFiles
    BY <2>1
  <2> QED BY <2>1, <2>2, <2>3, <2>4, <2>5
<1>6. CASE FwContentEnds BY <1>6 DEF FwContentEnds
<1>7. CASE FwRecord
  <2>1. PICK m \in fwTodo :
          /\ fwPc = "metas" /\ fwTodo' = fwTodo \ {m}
          /\ fwPc' \in {"metas", "rollback"}
          /\ fwMeta' = fwMeta \/ fwMeta' = fwMeta \cup {m}
          /\ fwSaw' = fwSaw \/ fwSaw' = (fwSaw \/ m \in FwUpdates)
    BY <1>7 DEF FwRecord
  <2>2. UNCHANGED <<fwSet, fwContent, fwKept, fwResult, fwTorn, fwBefore>>
    BY <1>7 DEF FwRecord
  <2>3. fwTodo' \subseteq FwMetas /\ fwMeta' \subseteq FwMetas
    BY <2>1
  <2>4. fwSaw' \in BOOLEAN
    BY <2>1, Zenon
  <2> QED BY <2>1, <2>2, <2>3, <2>4
<1>8. CASE FwEnd BY <1>8 DEF FwEnd
<1>9. CASE FwNoFolder BY <1>9 DEF FwNoFolder
<1>10. CASE FwRollback BY <1>10 DEF FwRollback
<1>11. CASE UNCHANGED fwVars BY <1>11 DEF fwVars
<1> QED
  BY <1>1, <1>2, <1>3, <1>4, <1>5, <1>6, <1>7, <1>8, <1>9, <1>10, <1>11 DEF FwNext, FwInstall

\* The folder, the system partition and the place in the installation keep
\* their types, and only meta files are recorded.
THEOREM FwTypeCorrect == FwSpec => []FwTypeOK
<1>1. FwInit => FwTyped
  BY FwInitial DEF FwInv, FwInit, FwTyped
<1>2. FwTyped => FwTypeOK
  BY DEF FwTyped
<1> QED BY <1>1, <1>2, FwTypedInductive, PTL DEF FwSpec

\* Until an installation has ended badly what the records describe is there,
\* and a success leaves a system update among them.
THEOREM FwDescribesWhatIsThere ==
  ASSUME "read" \notin FwFaults PROVE FwSpec => []FwWholeSet
<1>1. FwInv => FwWholeSet
  <2> SUFFICES ASSUME FwInv PROVE FwWholeSet
    OBVIOUS
  <2> USE DEF FwInv
  <2>1. ASSUME ~fwTorn, fwPc # "rollback", NEW m \in fwMeta,
               fwPc # "idle", m \notin fwBefore.meta, NEW f \in Offered(m)
        PROVE  fwContent[f] = "whole"
    <3>1. fwPc = "metas"
      BY <2>1 DEF FwTypeOK, FirstPass
    <3> QED BY <2>1, <3>1 DEF SecondPass, Offered
  <2>2. ASSUME ~fwTorn, fwPc # "rollback", NEW m \in fwMeta, m \in FwRunning, NEW f \in FwDescribes[m]
        PROVE  fwContent[f] = "whole"
    <3>1. m \in FwMetas
      BY <2>2 DEF FwTypeOK
    <3>2. f \in FwRunning
      BY <2>2, <3>1, FwAssumption
    <3> QED BY <2>2, <3>2 DEF RecordsReadable
  <2> QED BY <2>1, <2>2 DEF FwWholeSet, RecordsReadable, Updated, Offered
<1> QED BY <1>1, FwInvariant, PTL
-----------------------------------------------------------------------------
(* SelfUpdate.  What the self-update leaves on the card, for every set of  *)
(* failures and any number of updates and power losses.                    *)

Whole(p) == upFile[p] = "whole"

\* While the program's own name is untouched nothing can be lost.
Safe ==
  /\ upPc \in {"idle", "getting", "got", "undo"}
       => /\ upMishaps = 0 /\ upPc # "undo" => Whole("nro")
          /\ upMishaps < 2 => Whole("nro") \/ Whole("bak")
  /\ upPc = "undo" => upMishaps # 0

\* A download cut short has spent the one mishap.
Downloaded ==
  upPc = "got" =>
    /\ upFile["new"] # "none"
    /\ upFile["new"] = "part" => upMishaps # 0 /\ (upMishaps = 1 => Whole("nro"))

\* Past the magic number: the download is whole, or the mishap was spent on it
\* when everything else was in place.
Verified ==
  /\ upPc \in {"keep", "backup"} /\ upMishaps = 0 => Whole("nro") /\ Whole("new")
  /\ upPc = "keep" /\ upMishaps = 1
       => Whole("nro") \/ (Whole("bak") /\ Whole("new"))
  /\ upPc = "backup" /\ upMishaps = 0 => upFile["bak"] = "none"
  /\ upPc = "backup" /\ upMishaps = 1
       => Whole("nro") \/ (Whole("new") /\ upFile["bak"] = "none")

\* The old program has stepped aside, or could not.
Swapping ==
  upPc = "swap" =>
    /\ upMishaps = 0 => upFile["nro"] = "none" /\ Whole("bak") /\ Whole("new")
    /\ upMishaps = 1 => \/ Whole("nro") \/ Whole("bak")
                        \/ upFile["nro"] = "none" /\ Whole("new")

Dark == upPc = "off" /\ upMishaps < 2 => \E p \in UpPlaces : Whole(p)

UpInv == UpTypeOK /\ Safe /\ Downloaded /\ Verified /\ Swapping /\ Dark
-----------------------------------------------------------------------------
\* The count of mishaps stays within its bound, and is 0 or 1 after a step
\* only if it was no more before.
LEMMA CountType ==
  ASSUME NEW n \in 0..UpLimit, NEW ok \in BOOLEAN
  PROVE  /\ UpCount(n, ok) \in 0..UpLimit
         /\ UpCount(n, ok) = 0 => n = 0 /\ ok
         /\ UpCount(n, ok) < 2 => n < 2
         /\ UpCount(n, ok) = 1 => (n = 1 /\ ok) \/ (n = 0 /\ ~ok)
  BY UpAssumption DEF UpCount

LEMMA OutcomeType == \A call : UpOutcomes(call) \subseteq BOOLEAN
  BY DEF UpOutcomes

\* The invariant holds initially.
LEMMA UpInitial == UpInit => UpInv
<1> SUFFICES ASSUME UpInit PROVE UpInv
  OBVIOUS
<1> USE DEF UpInit
<1>1. UpTypeOK
  <2>1. upFile \in [UpPlaces -> UpKinds] BY DEF UpPlaces, UpKinds
  <2>2. upOffer \in BOOLEAN BY Zenon
  <2>3. upMishaps \in 0..UpLimit BY UpAssumption
  <2> QED BY <2>1, <2>2, <2>3 DEF UpTypeOK
<1>2. Safe /\ Downloaded /\ Verified /\ Swapping /\ Dark
  BY DEF Safe, Downloaded, Verified, Swapping, Dark, Whole, UpPlaces
<1> QED BY <1>1, <1>2 DEF UpInv

\* Every step keeps it.
LEMMA UpInductive == UpInv /\ [UpNext]_upVars => UpInv'
<1> SUFFICES ASSUME UpInv, [UpNext]_upVars PROVE UpInv'
  OBVIOUS
<1> USE UpAssumption, CountType, OutcomeType
    DEF UpInv, UpTypeOK, Safe, Downloaded, Verified, Swapping, Dark, Whole, UpPlaces, UpKinds
<1>1. CASE UpCheck
  BY <1>1 DEF UpCheck
<1>2. CASE UpBegin
  BY <1>2 DEF UpBegin
<1>3. CASE UpDownload
  <2>1. PICK got \in {"none", "whole", "page", "part"} :
          /\ upPc = "getting" /\ upOffer' = upOffer
          /\ upFile' = [upFile EXCEPT !["new"] = got]
          /\ upPc' = IF got = "none" THEN "idle" ELSE "got"
          /\ upMishaps' = UpCount(upMishaps, got # "part")
    BY <1>3 DEF UpDownload
  <2> QED BY <2>1
<1>4. CASE UpVerify
  <2>1. PICK magic \in BOOLEAN :
          /\ magic => upFile["new"] \in {"whole", "part"}
          /\ upPc = "got" /\ upOffer' = upOffer /\ upMishaps' = upMishaps
          /\ upPc' = IF magic THEN "keep" ELSE "idle"
          /\ upFile' = IF magic THEN upFile ELSE [upFile EXCEPT !["new"] = "none"]
    <3>1. CASE upFile["new"] = "whole" BY <1>4, <3>1 DEF UpVerify
    <3>2. CASE upFile["new"] = "page" BY <1>4, <3>2 DEF UpVerify
    <3>3. CASE upFile["new"] = "part" BY <1>4, <3>3 DEF UpVerify
    <3>4. upFile["new"] # "none" BY <1>4 DEF UpVerify
    <3> QED BY <3>1, <3>2, <3>3, <3>4
  <2>2. CASE magic BY <2>1, <2>2
  <2>3. CASE ~magic BY <2>1, <2>3
  <2> QED BY <2>1, <2>2, <2>3
<1>5. CASE UpForget
  <2>1. PICK ok \in BOOLEAN :
          /\ upPc = "keep" /\ upPc' = "backup" /\ upOffer' = upOffer
          /\ upFile' = IF ok THEN [upFile EXCEPT !["bak"] = "none"] ELSE upFile
          /\ upMishaps' = UpCount(upMishaps, ok)
    BY <1>5 DEF UpForget
  <2> QED BY <2>1
<1>6. CASE UpKeep
  <2>1. PICK ok \in BOOLEAN :
          /\ upPc = "backup" /\ upPc' = "swap" /\ upOffer' = upOffer
          /\ upFile' = IF ok /\ Renames(upFile, "nro", "bak")
                         THEN Renamed(upFile, "nro", "bak") ELSE upFile
          /\ upMishaps' = UpCount(upMishaps, ok)
    BY <1>6 DEF UpKeep
  <2> QED BY <2>1 DEF Renames, Renamed
<1>7. CASE UpSwap
  <2>1. PICK ok \in BOOLEAN :
          /\ upPc = "swap" /\ upOffer' = upOffer
          /\ upFile' = IF ok /\ Renames(upFile, "new", "nro")
                         THEN Renamed(upFile, "new", "nro") ELSE upFile
          /\ upPc' = IF ok /\ Renames(upFile, "new", "nro") THEN "idle" ELSE "undo"
          /\ upMishaps' = UpCount(upMishaps, ok)
    BY <1>7 DEF UpSwap
  <2> QED BY <2>1 DEF Renames, Renamed
<1>8. CASE UpUndo
  <2>1. PICK ok \in BOOLEAN :
          /\ upPc = "undo" /\ upPc' = "idle" /\ upOffer' = upOffer
          /\ upFile' = [(IF ok /\ Renames(upFile, "bak", "nro")
                           THEN Renamed(upFile, "bak", "nro") ELSE upFile)
                          EXCEPT !["new"] = "none"]
          /\ upMishaps' = UpCount(upMishaps, ok)
    BY <1>8 DEF UpUndo
  <2> QED BY <2>1 DEF Renames, Renamed
<1>9. CASE UpPowerLoss
  BY <1>9 DEF UpPowerLoss
<1>10. CASE UpStart
  BY <1>10 DEF UpStart
<1>11. CASE UNCHANGED upVars
  BY <1>11 DEF upVars
<1> QED
  BY <1>1, <1>2, <1>3, <1>4, <1>5, <1>6, <1>7, <1>8, <1>9, <1>10, <1>11 DEF UpNext

LEMMA UpInvariant == UpSpec => []UpInv
<1> QED BY UpInitial, UpInductive, PTL DEF UpSpec

\* The files, the place in the update and the count keep their types.
THEOREM UpTypeCorrect == UpSpec => []UpTypeOK
<1>1. UpInv => UpTypeOK BY DEF UpInv
<1> QED BY <1>1, UpInvariant, PTL

\* With one mishap at most, at any step and with any power losses, a whole
\* program is left; without one the program in place is whole.
THEOREM UpKeepsAProgram == UpSpec => []UpNeverStranded
<1>1. UpInv => UpNeverStranded
  BY UpAssumption
  DEF UpInv, UpNeverStranded, UpTypeOK, Safe, Downloaded, Verified, Swapping, Dark, Whole, UpPlaces
<1> QED BY <1>1, UpInvariant, PTL
=============================================================================
